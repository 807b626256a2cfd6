--------------------------- MODULE MCAgentProcess ---------------------------
(* AgentProcess on a small instance.                                       *)
EXTENDS AgentProcess, TLC

(* The rest takes its default; of the interval of 60 s, one is kept. *)
Minimal == [endpoint |-> "https", agent_id |-> "wellformed", credential_env |-> "good",
            interval_secs |-> 1]

Quick == [timeout_secs |-> 1, max_retries |-> 1,
          retry_delay_ms |-> 0, status |-> "degraded"] @@ Minimal

(* Waits for longer than it may take to send. *)
Patient == [interval_secs |-> 2, timeout_secs |-> 1, max_retries |-> 0] @@ Minimal

(* All limits at once, with secrets in files, and without a retry. *)
Extreme == [endpoint |-> "loopback", agent_id |-> "wellformed", status |-> "offline",
            credential_file |-> "good", access_client_id_file |-> "good",
            access_client_secret_file |-> "good", payload |-> MAX_PAYLOAD_BYTES - 125,
            timeout_secs |-> MAX_TIMEOUT_SECS, interval_secs |-> 1,
            max_retries |-> MAX_RETRIES, retry_delay_ms |-> MAX_RETRY_DELAY_MS]

(* One second less per request leaves a margin. *)
JustFresh == [timeout_secs |-> 54] @@ Extreme

(* Each of these must not send. *)
Unusable == {
  <<>>,
  [agent_name |-> "unknown field"] @@ Quick,
  [endpoint |-> "http"] @@ Quick,
  [timeout_secs |-> 0] @@ Quick,
  [max_retries |-> 6] @@ Quick,
  [credential_file |-> "good"] @@ Quick,
  [credential_env |-> "unavailable"] @@ Quick,
  [access_client_id_file |-> "good"] @@ Quick,
  [access_client_secret_file |-> "exposed"] @@ Extreme,
  [payload |-> MAX_PAYLOAD_BYTES + 1] @@ Quick,
  [payload |-> MAX_PAYLOAD_BYTES] @@ Quick}

Deployed == {Minimal, Quick, Patient, Extreme, JustFresh} \cup Unusable

Typed == {
  <<"--config", "path">>,
  <<"--config", "path", "run">>,
  <<"run", "--config", "path", "once">>,
  <<"--config", "run">>,
  <<"run", "--config">>,
  <<"--config", "path", "--help">>,
  <<"other">>}

=============================================================================

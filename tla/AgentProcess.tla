---------------------------- MODULE AgentProcess ----------------------------
(***************************************************************************)
(* The whole program cybercore-agent: arguments, configuration, secrets,   *)
(* the signal handler, then once or run, in milliseconds.                  *)
(*                                                                         *)
(* Connector is what the service may rely on of such a process.  Here are  *)
(* its limits, its clock and its exit codes, and that it implements        *)
(* Connector.  Time passes where the code blocks: in a request, for which  *)
(* it allows timeout_secs, and in thread::sleep.  Either may last longer   *)
(* than was asked for, and that is kept apart, in drift.                   *)
(*                                                                         *)
(* A configuration file is a function from the fields it sets.  A text is  *)
(* one of a few kinds; the payload is its size in bytes; a field that      *)
(* names a secret (a path or a variable) stands for what is found there.   *)
(***************************************************************************)
EXTENDS Naturals, Sequences

CONSTANTS
  Files,         (* Configuration files of an instance.                     *)
  CommandLines,  (* Command lines of an instance, without the program.      *)
  Durations,     (* How long a request may take, in ms, besides its timeout.*)
  Overruns,      (* By how many ms a request may outlast its timeout, or a  *)
                 (* sleep the time asked for, with the code that follows.   *)
  MaxDrift,      (* Bound on the overruns between two heartbeats together.  *)
  MaxBeats,      (* Bound on the heartbeats made.                           *)
  MaxRestarts    (* Bound on the restarts.                                  *)

VARIABLES
  at,            (* Where the program is.                                   *)
  argv,          (* Arguments not read yet.                                 *)
  command,       (* "once" or "run".                                        *)
  given,         (* Whether --config named a file.                          *)
  file,          (* What that file holds while this process runs.           *)
  heartbeat, attempt, slice, stop, delivered, restarts,   (* As in Connector. *)
  age,           (* ms since the last heartbeat was stamped.                *)
  drift,         (* ms of that which were overrun.                          *)
  lag,           (* ms of requests and sleeps asked for since the interrupt.*)
  code,          (* The exit status.                                        *)
  exit           (* Why the process exited.                                 *)

ASSUME ProcessAssumption ==
  /\ Durations \subseteq Nat /\ Overruns \subseteq Nat /\ 0 \in Overruns
  /\ MaxDrift \in Nat /\ MaxBeats \in Nat /\ MaxRestarts \in Nat

environs == <<argv, command, given, file>>
vars == <<environs, at, heartbeat, attempt, slice, stop, delivered, restarts,
          age, drift, lag, code, exit>>

-----------------------------------------------------------------------------
(* Configuration. *)

MAX_PAYLOAD_BYTES == 16 * 1024
MAX_RETRIES == 5
MAX_TIMEOUT_SECS == 60
MAX_INTERVAL_SECS == 24 * 60 * 60
MAX_RETRY_DELAY_MS == 5000

HEARTBEAT_MAX_AGE_MS == 5 * 60 * 1000      (* The Worker's, protocol.ts. *)

Required == {"endpoint", "agent_id"}

Defaults == [status |-> "online", payload |-> 2,
             credential_file |-> "none", credential_env |-> "none",
             access_client_id_file |-> "none", access_client_secret_file |-> "none",
             timeout_secs |-> 10, interval_secs |-> 60,
             max_retries |-> 3, retry_delay_ms |-> 250]

Fields == Required \cup DOMAIN Defaults

(* deny_unknown_fields.  A file that is missing, or is not JSON, fails in  *)
(* the same way as one without the required fields.                        *)
Deserializes(f) == Required \subseteq DOMAIN f /\ DOMAIN f \subseteq Fields

Parsed(f) == [x \in Fields |-> IF x \in DOMAIN f THEN f[x] ELSE Defaults[x]]

config == Parsed(file)

(* An http endpoint is "loopback" if its host is localhost or 127.0.0.1;   *)
(* [::1] is not, as the parsed host keeps the brackets.                    *)
Validate(c) ==
  /\ c.endpoint \in {"https", "loopback"}
  /\ c.agent_id = "wellformed"
  /\ c.status \in {"online", "offline", "degraded"}
  /\ c.timeout_secs \in 1 .. MAX_TIMEOUT_SECS
  /\ c.interval_secs \in 1 .. MAX_INTERVAL_SECS
  /\ c.max_retries \in 0 .. MAX_RETRIES
  /\ c.retry_delay_ms \in 0 .. MAX_RETRY_DELAY_MS
  /\ ~(c.credential_file = "none" <=> c.credential_env = "none")
  /\ (c.access_client_id_file = "none" <=> c.access_client_secret_file = "none")
  /\ c.payload <= MAX_PAYLOAD_BYTES

(* What a file may say of a secret: nothing, or where one is found that is *)
(* fine, ill-formed, readable by others, or not there.                     *)
SecretFiles == {"credential_file", "access_client_id_file", "access_client_secret_file"}

ASSUME FilesAssumption ==
  \A f \in Files :
    /\ "payload" \in DOMAIN f => f["payload"] \in Nat
    /\ "credential_env" \in DOMAIN f =>
         f["credential_env"] \in {"none", "good", "malformed", "unavailable"}
    /\ \A x \in SecretFiles \cap DOMAIN f :
         f[x] \in {"none", "good", "malformed", "exposed", "unavailable"}

OwnerOnly(secret) == secret \notin {"exposed", "unavailable"}

WellFormed(secret) == secret \notin {"malformed", "unavailable"}

ReadCredential(c) ==
  \/ c.credential_env # "none" /\ WellFormed(c.credential_env)
  \/ c.credential_env = "none" /\ OwnerOnly(c.credential_file) /\ WellFormed(c.credential_file)

ReadAccessCredentials_idOnly(c) ==     \* mutant: the second file is not checked
  \/ "none" \in {c.access_client_id_file, c.access_client_secret_file}
  \/ OwnerOnly(c.access_client_id_file) /\ WellFormed(c.access_client_id_file)

ReadAccessCredentials(c) ==
  \/ "none" \in {c.access_client_id_file, c.access_client_secret_file}
  \/ \A secret \in {c.access_client_id_file, c.access_client_secret_file} :
       OwnerOnly(secret) /\ WellFormed(secret)

(* The serialized Heartbeat: its payload, a nonce of 42 characters, a time *)
(* of 24, the status, and the JSON around them.                            *)
BodySize(c) ==
  c.payload + 118 + [online |-> 6, offline |-> 7, degraded |-> 8][c.status]

Timeout == config.timeout_secs * 1000
Attempts_noFirst == config.max_retries   \* mutant: the first attempt counts as a retry
Attempts == config.max_retries + 1
Slices_perSecond == config.interval_secs   \* mutant: seconds taken for slices
Slices == config.interval_secs * 10

(* Doubled after every attempt (1 << (attempt - 1), of the first five) ... *)
Doubled == config.retry_delay_ms * <<1, 2, 4, 8, 16>>[attempt]

Delay_uncapped == Doubled              \* mutant: no .min(MAX_RETRY_DELAY_MS)

(* ... and capped. *)
Delay == IF Doubled < MAX_RETRY_DELAY_MS THEN Doubled ELSE MAX_RETRY_DELAY_MS

-----------------------------------------------------------------------------
(* Start. *)

NoHeartbeat == [nonce |-> 0]

Stamp == 0                 (* observed_at: where age starts from. *)

ProcInit ==
  /\ at = "arguments" /\ argv \in CommandLines
  /\ command = "once" /\ given = FALSE /\ file \in Files
  /\ heartbeat = NoHeartbeat
  /\ attempt = 0 /\ slice = 0 /\ stop = FALSE
  /\ delivered = {} /\ restarts = 0
  /\ age = 0 /\ drift = 0 /\ lag = 0
  /\ code = "none" /\ exit = "running"

loop == <<heartbeat, attempt, slice, stop, delivered, restarts, age, drift, lag>>

Exit(status, why) == at' = "exited" /\ code' = status /\ exit' = why

Goto(from, to) == at = from /\ at' = to /\ UNCHANGED <<code, exit>>

(* --config takes the next argument, if there is one, whatever it is. *)
ConfigArgument ==
  /\ Goto("arguments", "arguments")
  /\ argv # <<>> /\ Head(argv) = "--config"
  /\ given' = (Len(argv) > 1)
  /\ argv' = IF given' THEN Tail(Tail(argv)) ELSE <<>>
  /\ UNCHANGED <<command, file, loop>>

CommandArgument ==
  /\ Goto("arguments", "arguments")
  /\ argv # <<>> /\ Head(argv) \in {"once", "run"}
  /\ command' = Head(argv) /\ argv' = Tail(argv)
  /\ UNCHANGED <<given, file, loop>>

(* --version and --help succeed at once; anything else is a usage error,   *)
(* and so is the end of the arguments without a configuration.             *)
InfoOrUsage ==
  /\ at = "arguments"
  /\ \/ argv # <<>> /\ Head(argv) \in {"--version", "--help"} /\ Exit("0", "info")
     \/ argv # <<>> /\ Head(argv) = "other" /\ Exit("2", "usage")
     \/ argv = <<>> /\ ~given /\ Exit("2", "usage")
  /\ UNCHANGED <<environs, loop>>

(* Config::from_file. *)
LoadConfig ==
  /\ at = "arguments" /\ argv = <<>> /\ given
  /\ IF Deserializes(file) /\ Validate(config)
     THEN Goto("arguments", "new")
     ELSE Exit("1", "startup")
  /\ UNCHANGED <<environs, loop>>

(* Connector::new reads the secrets; once goes on to send_once, run to the *)
(* signal handler.                                                         *)
NewConnector_fileOnly ==               \* mutant: credential_env is ignored
  /\ at = "new"
  /\ IF config.credential_file # "none" /\ ReadCredential(config) /\ ReadAccessCredentials(config)
     THEN Goto("new", IF command = "once" THEN "top" ELSE "handler")
     ELSE Exit("1", "startup")
  /\ UNCHANGED <<environs, loop>>

NewConnector ==
  /\ at = "new"
  /\ IF ReadCredential(config) /\ ReadAccessCredentials(config)
     THEN Goto("new", IF command = "once" THEN "top" ELSE "handler")
     ELSE Exit("1", "startup")
  /\ UNCHANGED <<environs, loop>>

InstallHandler ==
  /\ \/ Goto("handler", "top")
     \/ at = "handler" /\ Exit("1", "startup")
  /\ UNCHANGED <<environs, loop>>

Begin ==
  \/ ConfigArgument \/ CommandArgument \/ InfoOrUsage
  \/ LoadConfig \/ NewConnector \/ InstallHandler

-----------------------------------------------------------------------------
(* send_once and run_periodic_until. *)

(* The process is blocked for the d milliseconds asked for, at least. *)
Elapse(d) ==
  /\ \E over \in Overruns :
       /\ drift + over <= MaxDrift
       /\ drift' = drift + over /\ age' = age + d + over
  /\ lag' = IF stop THEN lag + d ELSE lag

(* should_stop, at the head of the loop and before every slice. *)
Stop ==
  /\ stop
  /\ at \in {"top", "sleeping"}
  /\ Exit("0", "stopped")
  /\ UNCHANGED <<environs, loop>>

(* A heartbeat that would be too large to send ends the process. *)
MakeHeartbeat ==
  /\ at = "top" /\ ~stop
  /\ heartbeat.nonce < MaxBeats
  /\ IF BodySize(config) <= MAX_PAYLOAD_BYTES
     THEN /\ Goto("top", "sending")
          /\ heartbeat' = [nonce |-> heartbeat.nonce + 1, seen |-> Stamp, status |-> config.status]
          /\ attempt' = 1 /\ age' = 0 /\ drift' = 0
     ELSE Exit("1", "body") /\ UNCHANGED <<heartbeat, attempt, age, drift>>
  /\ UNCHANGED <<environs, slice, stop, delivered, restarts, lag>>

Send ==
  /\ Goto("sending", "waiting")
  /\ UNCHANGED <<environs, loop>>

Succeed ==
  /\ Goto("waiting", "sleeping")
  /\ slice' = 0
  /\ delivered' = delivered \cup {heartbeat.nonce}
  /\ UNCHANGED <<environs, heartbeat, attempt, stop, restarts>>

BackOff ==
  /\ Goto("waiting", "backoff")
  /\ attempt < Attempts
  /\ UNCHANGED <<environs, heartbeat, attempt, slice, stop, delivered, restarts>>

(* Either command reports the error and fails. *)
GiveUp_unreported(result) ==           \* mutant: the error is printed, the exit is 0
  /\ at = "waiting"
  /\ \/ result = "fatal"
     \/ result = "transient" /\ attempt = Attempts
  /\ Exit("0", result)
  /\ UNCHANGED <<environs, heartbeat, attempt, slice, stop, delivered, restarts>>

GiveUp(result) ==
  /\ at = "waiting"
  /\ \/ result = "fatal"
     \/ result = "transient" /\ attempt = Attempts
  /\ Exit("1", result)
  /\ UNCHANGED <<environs, heartbeat, attempt, slice, stop, delivered, restarts>>

(* The request ends after d ms; a timeout, which fires no earlier than its *)
(* limit, is a transient error.                                            *)
Answer(result, d) ==
  /\ d <= Timeout
  /\ Elapse(d)
  /\ \/ result = "accepted" /\ Succeed
     \/ result = "transient" /\ BackOff
     \/ GiveUp(result)

Retry_uncounted ==                     \* mutant: the attempt is not counted
  /\ Goto("backoff", "sending")
  /\ Elapse(Delay)
  /\ UNCHANGED <<environs, heartbeat, attempt, slice, stop, delivered, restarts>>

Retry ==
  /\ Goto("backoff", "sending")
  /\ attempt' = attempt + 1
  /\ Elapse(Delay)
  /\ UNCHANGED <<environs, heartbeat, slice, stop, delivered, restarts>>

(* once ends here. *)
Report ==
  /\ at = "sleeping" /\ command = "once"
  /\ Exit("0", "done")
  /\ UNCHANGED <<environs, loop>>

(* run sleeps a slice of 100 ms, looks at the flag, and so on. *)
Doze ==
  /\ Goto("sleeping", "dozing")
  /\ command = "run" /\ ~stop
  /\ slice' = (slice + 1) % Slices
  /\ UNCHANGED <<environs, heartbeat, attempt, stop, delivered, restarts, age, drift, lag>>

Wake_unsliced ==                       \* mutant: one sleep for the interval
  /\ Goto("dozing", "top")
  /\ Elapse(Slices * 100)
  /\ slice' = 0
  /\ UNCHANGED <<environs, heartbeat, attempt, stop, delivered, restarts>>

Wake ==
  /\ Goto("dozing", IF slice = 0 THEN "top" ELSE "sleeping")
  /\ Elapse(100)
  /\ UNCHANGED <<environs, heartbeat, attempt, slice, stop, delivered, restarts>>

Run ==
  \/ Stop
  \/ MakeHeartbeat
  \/ Send
  \/ /\ at = "waiting"
     /\ \E result \in {"accepted", "transient", "fatal"}, d \in Durations \cup {Timeout} :
          Answer(result, d)
  \/ Retry
  \/ Report
  \/ Doze
  \/ Wake

-----------------------------------------------------------------------------
(* The environment. *)

(* From set_handler on, SIGINT sets the flag of run; before it, and in     *)
(* once, it has its default effect.                                        *)
Handled == command = "run" /\ at \notin {"arguments", "new", "handler", "exited"}

Interrupt_everywhere ==                \* mutant: handled from the start
  /\ at # "exited" /\ ~stop
  /\ stop' = TRUE
  /\ UNCHANGED <<environs, at, heartbeat, attempt, slice, delivered, restarts, age, drift, lag, code, exit>>

Interrupt ==
  /\ at # "exited" /\ ~stop
  /\ IF Handled
     THEN stop' = TRUE /\ UNCHANGED <<at, code, exit>>
     ELSE Exit("signal", "killed") /\ UNCHANGED stop
  /\ UNCHANGED <<environs, heartbeat, attempt, slice, delivered, restarts, age, drift, lag>>

Kill ==
  /\ at # "exited"
  /\ Exit("signal", "killed")
  /\ UNCHANGED <<environs, loop>>

(* A new process, perhaps with another command line and file. *)
Restart ==
  /\ at = "exited"
  /\ restarts < MaxRestarts
  /\ restarts' = restarts + 1
  /\ at' = "arguments" /\ argv' \in CommandLines
  /\ command' = "once" /\ given' = FALSE /\ file' \in Files
  /\ attempt' = 0 /\ slice' = 0 /\ stop' = FALSE
  /\ age' = 0 /\ drift' = 0 /\ lag' = 0
  /\ code' = "none" /\ exit' = "running"
  /\ UNCHANGED <<heartbeat, delivered>>

ProcNext == Begin \/ Run \/ Interrupt \/ Kill \/ Restart

(* The process runs, and its requests end. *)
ProcSpec == ProcInit /\ [][ProcNext]_vars /\ WF_vars(Begin \/ Run)

-----------------------------------------------------------------------------
(* What Connector sees: nothing before the loop's head, only slices and no *)
(* sleep within them, and only the exits that come out of the loop.        *)

Mode ==
  CASE at \in {"arguments", "new", "handler"} -> "top"
    [] at = "dozing" -> IF slice = 0 THEN "top" ELSE "sleeping"
    [] OTHER -> at

Loaded(f) ==
  IF Deserializes(f) /\ Validate(Parsed(f))
  THEN [status  |-> Parsed(f).status,
        retries |-> Parsed(f).max_retries,
        slices  |-> Parsed(f).interval_secs * 10]
  ELSE [status |-> "online", retries |-> 0, slices |-> 1]   \* never runs

LoadedConfigs == {Loaded(f) : f \in Files}

Conn == INSTANCE Connector WITH
  Configs <- LoadedConfigs,
  Times   <- {Stamp},
  mode    <- Mode,
  config  <- Loaded(file),
  exit    <- IF exit \in {"running", "stopped", "transient", "fatal"} THEN exit ELSE "killed"

-----------------------------------------------------------------------------
InLoop == at \in {"top", "sending", "waiting", "backoff", "sleeping", "dozing"}

InSendOnce == at \in {"sending", "waiting", "backoff"}

WorstSend == Attempts * Timeout + config.max_retries * MAX_RETRY_DELAY_MS

(* Types, the bounds validate's limits put on attempt and slice, and where *)
(* the flag of the signal handler can be set.                              *)
ProcTypeOK ==
  /\ at \in {"arguments", "new", "handler", "top", "sending", "waiting", "backoff",
            "sleeping", "dozing", "exited"}
  /\ command \in {"once", "run"} /\ given \in BOOLEAN
  /\ file \in Files
  /\ heartbeat = NoHeartbeat \/ heartbeat.nonce \in 1 .. MaxBeats
  /\ attempt \in Nat /\ slice \in Nat /\ age \in Nat /\ drift \in Nat /\ lag \in Nat
  /\ stop \in BOOLEAN /\ restarts \in 0 .. MaxRestarts
  /\ InLoop => attempt <= Attempts /\ slice < Slices
  /\ stop => InLoop \/ exit # "running"

(* docs/CONNECTOR_PROTOCOL.md: "bounded locally before any request is      *)
(* sent", "loaded from an explicit environment variable or owner-only      *)
(* file".  No request leaves a process whose configuration, any of whose   *)
(* secrets, or whose body any check refuses, whichever check comes first.  *)
NothingSentUnchecked ==
  InSendOnce =>
    /\ Deserializes(file) /\ Validate(config)
    /\ {config.credential_file, config.credential_env, config.access_client_id_file,
         config.access_client_secret_file} \subseteq {"none", "good"}
    /\ BodySize(config) <= MAX_PAYLOAD_BYTES

(* Every attempt resends the first one's observed_at.  Among all           *)
(* configurations validate accepts, two ways lead to one older than the    *)
(* Worker accepts: a sixth attempt after timeouts of 55 s or more, where   *)
(* the delays leave nothing of the five minutes; or requests and sleeps    *)
(* that together overran by more than what every other limit leaves of     *)
(* them.                                                                   *)
Margin == HEARTBEAT_MAX_AGE_MS - MAX_RETRIES * (54 * 1000 + MAX_RETRY_DELAY_MS)

FreshWhenSent ==
  at = "sending" /\ age > HEARTBEAT_MAX_AGE_MS =>
    \/ attempt > MAX_RETRIES /\ config.timeout_secs >= 55
    \/ drift > Margin

(* connector/README.md: "shutdown is cooperative and bounded between       *)
(* heartbeat intervals".  An interrupted process that is still there has   *)
(* asked to be blocked for no more than the rest of a send_once and one    *)
(* slice.                                                                  *)
StopBounded == InLoop => lag <= WorstSend + 100

(* The most a Heartbeat adds to its payload. *)
Envelope == 118 + 8

(* The exit status tells the supervisor what happened: 0 from once means   *)
(* that its heartbeat was delivered, 0 from run that it was interrupted.   *)
(* And a body that is too large, which validate cannot tell, is reported   *)
(* by the first heartbeat or never, and only of a payload within an        *)
(* envelope of the limit: a service that has sent one does not end of it.  *)
ExitStatusTells ==
  at = "exited" =>
    /\ code = "0" => \/ exit = "info"
                     \/ command = "once" /\ attempt # 0 /\ heartbeat.nonce \in delivered
                     \/ command = "run" /\ stop
    /\ exit \in {"transient", "fatal"} => code = "1" /\ heartbeat.nonce \notin delivered
    /\ exit = "body" => attempt = 0 /\ config.payload > MAX_PAYLOAD_BYTES - Envelope

(* docs/CONNECTOR_PROTOCOL.md: "run repeats at the configured bounded      *)
(* interval".  The interval is waited out after each delivery: consecutive *)
(* heartbeats of a process are an interval apart, plus the time the first  *)
(* of them took and what the sleeps overran, never less.                   *)
Spacing ==
  [][heartbeat' # heartbeat /\ attempt # 0 =>
       /\ age >= config.interval_secs * 1000
       /\ age <= config.interval_secs * 1000 + WorstSend + drift]_vars

(* The program implements Connector, so what Delivery shows of a connector *)
(* holds of it.                                                            *)
ImplementsConnector == Conn!ConnSpec

SendOnceEnds == Conn!SendOnceEnds

StopHonoured == Conn!StopHonoured

(* A process started with a usable file, secrets and body sends a request, *)
(* unless someone ends it first, its signal handler cannot be installed,   *)
(* or the bound on heartbeats is reached.                                  *)
Usable ==
  /\ Deserializes(file) /\ Validate(config)
  /\ ReadCredential(config) /\ ReadAccessCredentials(config)
  /\ BodySize(config) <= MAX_PAYLOAD_BYTES

UsableSends ==
  at = "arguments" /\ argv = <<>> /\ given /\ Usable ~>
    \/ at = "waiting" \/ stop \/ exit = "killed"
    \/ at = "exited" /\ command = "run" /\ exit = "startup"
    \/ heartbeat.nonce = MaxBeats

=============================================================================

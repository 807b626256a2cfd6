------------------------------ MODULE Delivery ------------------------------
(***************************************************************************)
(* One connector and the Worker: end-to-end delivery of heartbeats.        *)
(*                                                                         *)
(* HeartbeatApi is extended, Connector is instantiated over the variables  *)
(* declared here.  The i-th request the connector sends is request i of    *)
(* the Worker.  The network may delay it beyond the connector's timeout    *)
(* and behind later requests, or lose it; it may lose the answer.  It does *)
(* not duplicate requests: HTTPS runs over a connection.                   *)
(*                                                                         *)
(* The two clocks are one.  The window parseHeartbeat allows is the only   *)
(* place where they meet, and HeartbeatApi by itself covers observations   *)
(* from any time within it or outside it.                                  *)
(***************************************************************************)
EXTENDS HeartbeatApi, FiniteSets

CONSTANTS Agent, MaxRetries, Slices, MaxBeats, MaxRestarts

VARIABLES
  mode, config, heartbeat, attempt, slice, stop, exit, delivered, restarts,  (* Connector's *)
  sent           (* The heartbeats the connector sent, one entry a request. *)

(* The status may change with a restart; the bounds are the same.          *)
Conn == INSTANCE Connector WITH
  Configs <- {[status |-> s, retries |-> MaxRetries, slices |-> Slices] : s \in Statuses}

conn == <<mode, config, heartbeat, attempt, slice, stop, exit, delivered, restarts, sent>>

ASSUME DeliveryAssumption ==
  /\ Agent \in Agents
  /\ Requests = 1 .. MaxBeats * (MaxRetries + 1)   \* every attempt has a request
  /\ Nonces = 1 .. MaxBeats
  /\ MaxRetries \in Nat /\ Slices \in Nat \ {0}
  /\ MaxBeats \in Nat /\ MaxRestarts \in Nat

-----------------------------------------------------------------------------
DeliveryInit == Init /\ Conn!ConnInit /\ sent = <<>>

(* The process by itself: everything but the end of a request.  An         *)
(* interrupted process exits as a killed one does, only more slowly:       *)
(* Connector is about that, here Kill stands for both.                     *)
Process ==
  /\ \/ Conn!StartHeartbeat(clock)
     \/ Conn!Retry
     \/ Conn!Sleep
     \/ Conn!Kill
     \/ Conn!Restart
  /\ UNCHANGED <<vars, sent>>

Transmit ==
  /\ Conn!Send
  /\ sent' = Append(sent, heartbeat)
  /\ UNCHANGED vars

(* A request sent a while ago reaches the Worker, or never does. *)
Deliver(r) ==
  /\ r \in DOMAIN sent
  /\ Receive(r, [credential |-> Agent, path |-> Agent], sent[r])
  /\ UNCHANGED conn

(* With no fairness here, a request that is dropped is one that stands     *)
(* still, so Abort adds nothing; revocation is HeartbeatApi's.             *)
Worker ==
  /\ \/ \E r \in Requests : Handle(r) \/ Fail(r)
     \/ Tick
  /\ UNCHANGED conn

(* is_retryable, applied to the statuses the Worker answers with. *)
Accepts_conflict(answer) ==            \* mutant: a 409 counts as delivered
  CASE answer \in {"accepted", "replayed"} -> "accepted"
    [] answer = "failed"                   -> "transient"
    [] OTHER                               -> "fatal"

Classify(answer) ==
  CASE answer = "accepted" -> "accepted"
    [] answer = "failed"   -> "transient"
    [] OTHER               -> "fatal"

(* The request the process waits for is its last one. *)
Awaited == Len(sent)

Reply ==
  /\ mode = "waiting"
  /\ phase[Awaited] \in Answers
  /\ Conn!Answer(Classify(phase[Awaited]))
  /\ UNCHANGED <<vars, sent>>

(* The request or its answer is lost or late. *)
TimeOut ==
  /\ mode = "waiting"
  /\ Conn!Answer("transient")
  /\ UNCHANGED <<vars, sent>>

DeliveryNext ==
  \/ Process
  \/ Transmit
  \/ \E r \in Requests : Deliver(r)
  \/ Worker
  \/ Reply
  \/ TimeOut

DeliverySpec == DeliveryInit /\ [][DeliveryNext]_<<vars, conn>>

-----------------------------------------------------------------------------
(* Connector's own type invariant, with the Worker answering it.           *)
ConnTypeOK == Conn!ConnTypeOK

RowsFor(n) == {h \in heartbeats : h.nonce = n}

SentFor(n) == {i \in DOMAIN sent : sent[i].nonce = n}

(* No heartbeat, over all restarts, is sent more than max_retries + 1      *)
(* times, and the process gives up on a transient error only after all of  *)
(* its attempts.                                                           *)
AttemptsBounded ==
  /\ \A n \in Nonces : Cardinality(SentFor(n)) <= MaxRetries + 1
  /\ exit = "transient" => Cardinality(SentFor(heartbeat.nonce)) = MaxRetries + 1

(* When the connector reports a heartbeat delivered, whatever timed out,   *)
(* overtook or failed on the way, the service holds exactly one row of it, *)
(* with the connector's own time and status, has its audit event, and told *)
(* the subscribers of the agent's project.                                 *)
DeliveredOnce ==
  \A n \in delivered :
    \E i \in DOMAIN sent : \E h \in heartbeats :
      /\ RowsFor(n) = {h}
      /\ [nonce |-> h.nonce, seen |-> h.seen, status |-> h.status] = sent[i]
      /\ \E a \in audits : a.heartbeat = h.id
      /\ Announces(HeartbeatEvent(h.id), ProjectOf[Agent])

(* The 409 that ends a process is about its own heartbeat: the row exists, *)
(* an earlier attempt wrote it, and it never ends the first attempt.       *)
ConflictIsOwn ==
  mode = "waiting" /\ phase[Awaited] = "replayed" =>
    /\ attempt > 1
    /\ \E h \in RowsFor(heartbeat.nonce) : h.id < Awaited /\ h.agent = Agent

(* The UPDATE of machines is unconditional, and a request that timed out   *)
(* may execute it late.  Yet a connector that never restarts moves the     *)
(* machine's last_seen_at forwards only: it goes on to its next heartbeat  *)
(* only after a 202, and a row whose UPDATE is still to come lets no other *)
(* attempt of its heartbeat obtain one.                                    *)
ObservationAdvances ==
  [][restarts = 0 => machines'[Agent].seen >= machines[Agent].seen]_<<vars, conn>>

Live == channel[ProjectOf[Agent]]

(* A dashboard takes an agent's status and time from its machine when it   *)
(* loads, and then from whatever event came last.  The events of a         *)
(* connector that never restarts come in the order in which it made its    *)
(* heartbeats, although each is published by a handler of its own.  While  *)
(* it waits for the next one, machine and events show the last one, and    *)
(* no request still under way can change that.                             *)
LatestIsShown ==
  restarts = 0 =>
    /\ \A i, j \in DOMAIN Live :
         i <= j => sent[Live[i].heartbeat].nonce <= sent[Live[j].heartbeat].nonce
    /\ mode = "sleeping" =>
         /\ machines[Agent] = [status |-> heartbeat.status, seen |-> heartbeat.seen]
         /\ Live # <<>>
         /\ Live[Len(Live)].seen = heartbeat.seen
         /\ Live[Len(Live)].status = heartbeat.status

-----------------------------------------------------------------------------
(* A claim of the documentation that the code does not keep.               *)

(* docs/CONNECTOR_PROTOCOL.md: "The connector generates a 128-bit          *)
(* OS-random nonce and a UTC millisecond timestamp for every request."  No *)
(* two requests, attempts of one heartbeat included, carry one nonce.      *)
NoncePerRequest ==
  \A i, j \in DOMAIN sent : i # j => sent[i].nonce # sent[j].nonce

=============================================================================

------------------------- MODULE HeartbeatApiProofs -------------------------
(***************************************************************************)
(* The safety properties of HeartbeatApi, for any number of agents,        *)
(* projects, requests and nonces and for any width of the window.          *)
(*                                                                         *)
(* TypeOK is not inductive by itself: that a stored row has an agent and a *)
(* nonce rests on what authentication and parsing established before.      *)
(***************************************************************************)
EXTENDS HeartbeatApi, TLAPS

(* The phases after parseHeartbeat returned, in their order.               *)
Announcing == {"publishChange", "respond", "accepted"}
Auditing   == {"publish"} \cup Announcing
Storing    == {"update", "audit"} \cup Auditing
Parsing    == {"readStatus", "insert", "replayed"} \cup Storing

(* Authentication resolved the credential to an agent. *)
Identified ==
  \A r \in Requests : phase[r] \in {"parse"} \cup Parsing => AgentOf(r) \in Agents

(* parseHeartbeat returned a body. *)
Parsed ==
  \A r \in Requests : phase[r] \in Parsing => msg[r].body \in Bodies

Typing == TypeOK /\ Identified /\ Parsed

(* The steps of the service, whoever talks to it: the lemmas are about     *)
(* these, and so hold for Spec and for every composition with clients.     *)
Credentials == [credential : Agents \cup {NoAgent}, path : Agents \cup {NoAgent}]

Serves ==
  \/ \E r \in Requests, who \in Credentials, b \in Bodies \cup {Malformed} : Receive(r, who, b)
  \/ \E r \in Requests : Handle(r) \/ Fail(r) \/ Abort(r)
  \/ \E a \in Agents : Revoke(a)
  \/ Tick
  \/ UNCHANGED vars

LEMMA NextServes == [Next]_vars => Serves
BY ConfigAssumption DEF Next, Arrive, Rest, Serves, Credentials

(* What a request that has both would write is well typed. *)
LEMMA WritesTyped ==
  ASSUME TypeOK, NEW r \in Requests, AgentOf(r) \in Agents, msg[r].body \in Bodies
  PROVE  /\ Row(r) \in Rows
         /\ AuditOf(r) \in Audits
         /\ HeartbeatEvent(r) \in Events
         /\ StatusEvent(r) \in Events
         /\ ProjectOf[AgentOf(r)] \in Projects
         /\ Latest(msg[r].body) \in [status : MachineStatuses, seen : Times \cup {Never}]
<1>1. /\ msg[r].body.nonce \in Nonces
      /\ msg[r].body.seen \in Times
      /\ msg[r].body.status \in Statuses
      /\ msg[r].body.status \in MachineStatuses
  BY ConfigAssumption DEF Bodies, MachineStatuses
<1>2. prev[r] \in MachineStatuses
  BY DEF TypeOK
<1>3. Row(r) \in Rows /\ AuditOf(r) \in Audits
  BY <1>1 DEF Row, Rows, AuditOf, Audits
<1>4. HeartbeatEvent(r) \in Events /\ StatusEvent(r) \in Events
  BY <1>1, <1>2 DEF HeartbeatEvent, StatusEvent, Events
<1>5. ProjectOf[AgentOf(r)] \in Projects
  BY ConfigAssumption
<1>6. Latest(msg[r].body) \in [status : MachineStatuses, seen : Times \cup {Never}]
  BY <1>1 DEF Latest
<1> QED BY <1>3, <1>4, <1>5, <1>6

(* A step of one request leaves the phases of the others alone. *)
LEMMA StepMovesOne ==
  ASSUME TypeOK, NEW r \in Requests, NEW from, NEW to \in {"unsent"} \cup Awaiting \cup Answers,
         Step(r, from, to)
  PROVE  /\ phase[r] = from
         /\ phase'[r] = to
         /\ \A s \in Requests : s # r => phase'[s] = phase[s]
         /\ phase' \in [Requests -> {"unsent"} \cup Awaiting \cup Answers]
BY DEF TypeOK, Step

LEMMA TypingInit == Init => Typing
<1> SUFFICES ASSUME Init PROVE Typing
  OBVIOUS
<1>1. clock \in Times
  BY ConfigAssumption DEF Init, Times
<1>2. machines \in [Agents -> [status : MachineStatuses, seen : Times \cup {Never}]]
  BY DEF Init, MachineStatuses
<1>3. channel \in [Projects -> Seq(Events)]
  BY DEF Init
<1>4. msg \in [Requests -> Messages]
  BY DEF Init, Unsent, Messages
<1>5. prev \in [Requests -> MachineStatuses]
  BY DEF Init, MachineStatuses
<1>6. TypeOK
  BY <1>1, <1>2, <1>3, <1>4, <1>5 DEF Init, TypeOK
<1>7. Identified /\ Parsed
  BY DEF Init, Identified, Parsed, Parsing, Storing, Auditing, Announcing
<1> QED
  BY <1>6, <1>7 DEF Typing

(* A step that only moves a request on keeps what its phase stands for, if *)
(* it holds in the phase moved to.                                         *)
LEMMA MovePreserves ==
  ASSUME Typing, NEW r \in Requests, NEW from, NEW to \in Awaiting \cup Answers,
         Step(r, from, to), msg' = msg,
         to \in {"parse"} \cup Parsing => AgentOf(r) \in Agents,
         to \in Parsing => msg[r].body \in Bodies
  PROVE  /\ phase' \in [Requests -> {"unsent"} \cup Awaiting \cup Answers]
         /\ Identified'
         /\ Parsed'
<1>1. /\ phase'[r] = to
      /\ \A s \in Requests : s # r => phase'[s] = phase[s]
      /\ phase' \in [Requests -> {"unsent"} \cup Awaiting \cup Answers]
  BY StepMovesOne DEF Typing
<1>2. Identified'
  BY <1>1 DEF Typing, Identified, AgentOf
<1>3. Parsed'
  BY <1>1 DEF Typing, Parsed
<1> QED BY <1>1, <1>2, <1>3

(* A request may arrive with any credential, path and body.                *)
LEMMA TypingReceive ==
  ASSUME Typing, NEW r \in Requests, NEW b \in Bodies \cup {Malformed},
         NEW who \in Credentials,
         Receive(r, who, b)
  PROVE  Typing'
<1> USE DEF Typing
<1>1. msg' \in [Requests -> Messages] /\ \A s \in Requests : s # r => msg'[s] = msg[s]
  BY DEF Receive, TypeOK, Messages, Credentials
<1>2. /\ phase'[r] = "authenticate"
      /\ \A s \in Requests : s # r => phase'[s] = phase[s]
      /\ phase' \in [Requests -> {"unsent"} \cup Awaiting \cup Answers]
  BY StepMovesOne DEF Receive, Awaiting
<1>3. TypeOK'
  BY <1>1, <1>2 DEF Receive, TypeOK
<1>4. Identified' /\ Parsed'
  BY <1>1, <1>2 DEF Identified, Parsed, AgentOf, Parsing, Storing, Auditing, Announcing
<1> QED BY <1>3, <1>4

LEMMA TypingNext == Typing /\ Serves => Typing'
<1> SUFFICES ASSUME Typing, Serves PROVE Typing'
  OBVIOUS
<1> USE DEF Typing
<1>1. ASSUME NEW r \in Requests, NEW who \in Credentials, NEW b \in Bodies \cup {Malformed},
             Receive(r, who, b)
      PROVE  Typing'
  BY <1>1, TypingReceive
<1>2. ASSUME NEW r \in Requests, Handle(r) PROVE Typing'
  <2> USE DEF Parsing, Storing, Auditing, Announcing, Awaiting, Answers
  <2>1. CASE AuthenticateAgent(r)
    BY <2>1, MovePreserves DEF AuthenticateAgent, Authentic, TypeOK
  <2>2. CASE ParseHeartbeat(r)
    <3>1. AgentOf(r) \in Agents
      BY <2>2 DEF ParseHeartbeat, Step, Identified
    <3>2. Acceptable(msg[r].body) => msg[r].body \in Bodies
      BY DEF Acceptable, TypeOK, Messages
    <3> QED BY <2>2, <3>1, <3>2, MovePreserves DEF ParseHeartbeat, TypeOK
  <2>3. ASSUME phase[r] \in Parsing
        PROVE  AgentOf(r) \in Agents /\ msg[r].body \in Bodies
    BY <2>3 DEF Identified, Parsed
  <2>4. CASE ReadStatus(r)
    <3>1. prev' \in [Requests -> MachineStatuses]
      BY <2>3, <2>4 DEF ReadStatus, Step, TypeOK
    <3> QED BY <2>3, <2>4, <3>1, MovePreserves DEF ReadStatus, Step, TypeOK
  <2>5. CASE InsertHeartbeat(r)
    BY <2>3, <2>5, WritesTyped, MovePreserves DEF InsertHeartbeat, Step, TypeOK
  <2>6. CASE RejectReplay(r)
    BY <2>3, <2>6, MovePreserves DEF RejectReplay, Step, TypeOK
  <2>7. CASE UpdateMachine(r)
    <3>1. machines' \in [Agents -> [status : MachineStatuses, seen : Times \cup {Never}]]
      BY <2>3, <2>7, WritesTyped DEF UpdateMachine, Step, TypeOK
    <3> QED BY <2>3, <2>7, <3>1, MovePreserves DEF UpdateMachine, Step, TypeOK
  <2>8. CASE RecordAudit(r)
    BY <2>3, <2>8, WritesTyped, MovePreserves DEF RecordAudit, Step, TypeOK
  <2>9. CASE PublishHeartbeat(r)
    <3>1. channel' \in [Projects -> Seq(Events)]
      BY <2>3, <2>9, WritesTyped DEF PublishHeartbeat, Publish, Step, TypeOK
    <3> QED BY <2>3, <2>9, <3>1, MovePreserves DEF PublishHeartbeat, Step, TypeOK
  <2>10. CASE PublishStatusChange(r)
    <3>1. channel' \in [Projects -> Seq(Events)]
      BY <2>3, <2>10, WritesTyped DEF PublishStatusChange, Publish, Step, TypeOK
    <3> QED BY <2>3, <2>10, <3>1, MovePreserves DEF PublishStatusChange, Step, TypeOK
  <2>11. CASE Respond(r)
    BY <2>3, <2>11, MovePreserves DEF Respond, Step, TypeOK
  <2> QED
    BY <1>2, <2>1, <2>2, <2>4, <2>5, <2>6, <2>7, <2>8, <2>9, <2>10, <2>11 DEF Handle
<1>3. ASSUME NEW r \in Requests, Fail(r) \/ Abort(r) PROVE Typing'
  <2>1. PICK to \in {"failed", "aborted"} : Step(r, phase[r], to)
    BY <1>3 DEF Fail, Abort, Step
  <2> QED
    BY <1>3, <2>1, MovePreserves
       DEF Fail, Abort, TypeOK, Answers, Parsing, Storing, Auditing, Announcing
<1>4. ASSUME NEW a \in Agents, Revoke(a) PROVE Typing'
  BY <1>4 DEF Revoke, TypeOK, Identified, Parsed, AgentOf
<1>5. CASE Tick
  <2>1. clock' \in Times
    BY <1>5, ConfigAssumption DEF Tick, TypeOK, Times
  <2> QED BY <1>5, <2>1 DEF Tick, TypeOK, Identified, Parsed, AgentOf
<1>6. CASE UNCHANGED vars
  BY <1>6 DEF vars, TypeOK, Identified, Parsed, AgentOf
<1> QED
  BY <1>1, <1>2, <1>3, <1>4, <1>5, <1>6 DEF Serves

(* Type correctness, whatever the interleaving of requests, failures and   *)
(* revocations.                                                            *)
THEOREM TypeCorrect == Spec => []TypeOK
<1>1. Typing => TypeOK
  BY DEF Typing
<1> QED BY <1>1, TypingInit, TypingNext, NextServes, PTL DEF Spec

-----------------------------------------------------------------------------
(* Replay protection.  The invariant has to say who wrote a row: only a    *)
(* request that got past its INSERT, whose row is the one stored.          *)

Written == Storing \cup {"failed", "aborted"}

RowsOwned ==
  \A h \in heartbeats : h.id \in Requests /\ h = Row(h.id) /\ phase[h.id] \in Written

RowWritten == \A r \in Requests : phase[r] \in Storing => Row(r) \in heartbeats

OneRowPerClaim ==
  \A g, h \in heartbeats : g.agent = h.agent /\ g.nonce = h.nonce => g = h

ReplaysHaveCause ==
  \A r \in Requests :
    phase[r] = "replayed" =>
      \E h \in heartbeats : /\ h.id # r
                            /\ h.agent = AgentOf(r) /\ h.nonce = msg[r].body.nonce

RowInv == Typing /\ RowsOwned /\ RowWritten /\ OneRowPerClaim /\ ReplaysHaveCause

(* The claims, and the bodies, of requests that have arrived are settled.  *)
Settled == \A s \in Requests : phase[s] = "unsent" \/ msg'[s] = msg[s]

(* Every action but the two outcomes of the INSERT: no row appears, and no *)
(* request enters or leaves the phases that speak of rows.                 *)
LEMMA RowsUntouched ==
  ASSUME RowInv, Typing', Settled, heartbeats' = heartbeats,
         \A s \in Requests : phase'[s] \in Storing => phase[s] \in Storing,
         \A s \in Requests : phase[s] \in Written => phase'[s] \in Written,
         \A s \in Requests : phase'[s] = "replayed" => phase[s] = "replayed"
  PROVE  RowInv'
<1> USE DEF Written, Storing, Auditing, Announcing
<1>1. RowsOwned'
  BY DEF RowInv, RowsOwned, Settled, Row, AgentOf
<1>2. RowWritten'
  BY DEF RowInv, RowWritten, Settled, Row, AgentOf
<1>3. OneRowPerClaim'
  BY DEF RowInv, OneRowPerClaim
<1>4. ReplaysHaveCause'
  BY DEF RowInv, ReplaysHaveCause, Settled, AgentOf
<1> QED BY <1>1, <1>2, <1>3, <1>4 DEF RowInv

LEMMA RowInvInit == Init => RowInv
BY TypingInit DEF Init, RowInv, RowsOwned, RowWritten, OneRowPerClaim, ReplaysHaveCause,
   Storing, Auditing, Announcing

LEMMA RowInvInsert ==
  ASSUME RowInv, Typing', NEW r \in Requests, InsertHeartbeat(r)
  PROVE  RowInv'
<1>1. /\ phase[r] = "insert" /\ phase'[r] = "update"
      /\ \A s \in Requests : s # r => phase'[s] = phase[s]
      /\ msg' = msg /\ heartbeats' = heartbeats \cup {Row(r)}
      /\ ~NonceUsed(r)
  BY StepMovesOne DEF RowInv, Typing, InsertHeartbeat, Awaiting
<1>2. \A s \in Requests : Row(s)' = Row(s) /\ AgentOf(s)' = AgentOf(s)
  BY <1>1 DEF Row, AgentOf
<1>3. /\ Row(r).id = r /\ Row(r).agent = AgentOf(r)
      /\ Row(r).nonce = msg[r].body.nonce
  BY DEF Row
<1>4. RowsOwned'
  BY <1>1, <1>2, <1>3 DEF RowInv, RowsOwned, Written, Storing
<1>5. RowWritten'
  BY <1>1, <1>2 DEF RowInv, RowWritten
<1>6. OneRowPerClaim'
  BY <1>1, <1>3 DEF RowInv, OneRowPerClaim, NonceUsed
<1>7. ReplaysHaveCause'
  BY <1>1, <1>2 DEF RowInv, ReplaysHaveCause
<1> QED BY <1>4, <1>5, <1>6, <1>7 DEF RowInv

LEMMA RowInvReject ==
  ASSUME RowInv, Typing', NEW r \in Requests, RejectReplay(r)
  PROVE  RowInv'
<1>1. /\ phase[r] = "insert" /\ phase'[r] = "replayed"
      /\ \A s \in Requests : s # r => phase'[s] = phase[s]
      /\ msg' = msg /\ heartbeats' = heartbeats
      /\ NonceUsed(r)
  BY StepMovesOne DEF RowInv, Typing, RejectReplay, Answers
<1>2. \A s \in Requests : Row(s)' = Row(s) /\ AgentOf(s)' = AgentOf(s)
  BY <1>1 DEF Row, AgentOf
<1> USE DEF Written, Storing, Auditing, Announcing
<1>3. \A h \in heartbeats : h.id # r
  BY <1>1 DEF RowInv, RowsOwned
<1>4. RowsOwned' /\ RowWritten' /\ OneRowPerClaim'
  BY <1>1, <1>2 DEF RowInv, RowsOwned, RowWritten, OneRowPerClaim
<1>5. ReplaysHaveCause'
  BY <1>1, <1>2, <1>3 DEF RowInv, ReplaysHaveCause, NonceUsed
<1> QED BY <1>4, <1>5 DEF RowInv

LEMMA RowInvReceive ==
  ASSUME RowInv, NEW r \in Requests, NEW b \in Bodies \cup {Malformed},
         NEW who \in Credentials,
         Receive(r, who, b)
  PROVE  RowInv'
<1>1. Typing /\ Typing'
  BY TypingReceive DEF RowInv
<1>2. /\ phase[r] = "unsent" /\ phase'[r] = "authenticate"
      /\ \A s \in Requests : s # r => phase'[s] = phase[s]
  BY <1>1, StepMovesOne DEF Typing, Receive, Awaiting
<1>3. Settled
  BY <1>1, <1>2 DEF Typing, TypeOK, Receive, Settled
<1> QED
  BY <1>1, <1>2, <1>3, RowsUntouched
     DEF Receive, Written, Storing, Auditing, Announcing

LEMMA RowInvNext == RowInv /\ Serves => RowInv'
<1> SUFFICES ASSUME RowInv, Serves PROVE RowInv'
  OBVIOUS
<1>0. Typing /\ Typing'
  BY TypingNext DEF RowInv
<1>1. ASSUME NEW r \in Requests, NEW who \in Credentials, NEW b \in Bodies \cup {Malformed},
             Receive(r, who, b)
      PROVE  RowInv'
  BY <1>1, RowInvReceive
<1>2. ASSUME NEW r \in Requests, Handle(r) PROVE RowInv'
  <2>1. CASE InsertHeartbeat(r)
    BY <1>0, <2>1, RowInvInsert
  <2>2. CASE RejectReplay(r)
    BY <1>0, <2>2, RowInvReject
  <2>3. CASE \/ AuthenticateAgent(r) \/ ParseHeartbeat(r) \/ ReadStatus(r)
             \/ UpdateMachine(r) \/ RecordAudit(r) \/ PublishHeartbeat(r)
             \/ PublishStatusChange(r) \/ Respond(r)
    <3>1. heartbeats' = heartbeats /\ Settled
      BY <2>3 DEF Settled, AuthenticateAgent, ParseHeartbeat, ReadStatus, UpdateMachine,
         RecordAudit, PublishHeartbeat, PublishStatusChange, Respond
    <3>2. PICK to \in Awaiting \cup Answers :
            /\ Step(r, phase[r], to)
            /\ to \in Storing <=> phase[r] \in Storing
            /\ to \notin {"replayed", "failed", "aborted"}
            /\ phase[r] \notin {"failed", "aborted"}
      BY <2>3 DEF AuthenticateAgent, ParseHeartbeat, ReadStatus, UpdateMachine,
         RecordAudit, PublishHeartbeat, PublishStatusChange, Respond, Step,
         Awaiting, Answers, Storing, Auditing, Announcing
    <3>3. phase'[r] = to /\ \A s \in Requests : s # r => phase'[s] = phase[s]
      BY <1>0, <3>2, StepMovesOne DEF Typing
    <3> QED BY <1>0, <3>1, <3>2, <3>3, RowsUntouched DEF Written
  <2> QED BY <1>2, <2>1, <2>2, <2>3 DEF Handle
<1>3. ASSUME NEW r \in Requests, Fail(r) \/ Abort(r) PROVE RowInv'
  <2>1. PICK to \in {"failed", "aborted"} : Step(r, phase[r], to)
    BY <1>3 DEF Fail, Abort, Step
  <2>2. phase'[r] = to /\ \A s \in Requests : s # r => phase'[s] = phase[s]
    BY <1>0, <2>1, StepMovesOne DEF Typing, Answers
  <2>3. heartbeats' = heartbeats /\ Settled
    BY <1>3 DEF Fail, Abort, Settled
  <2> QED
    BY <1>0, <2>2, <2>3, RowsUntouched DEF Written, Storing, Auditing, Announcing
<1>4. CASE (\E a \in Agents : Revoke(a)) \/ Tick \/ UNCHANGED vars
  <2>1. heartbeats' = heartbeats /\ phase' = phase /\ Settled
    BY <1>4 DEF Revoke, Tick, vars, Settled
  <2> QED BY <1>0, <2>1, RowsUntouched
<1> QED
  BY <1>1, <1>2, <1>3, <1>4 DEF Serves

LEMMA RowInvImplies == RowInv => ReplayProtected
<1> SUFFICES ASSUME RowInv PROVE ReplayProtected
  OBVIOUS
<1>1. \A r, s \in Requests :
        phase[r] = "accepted" /\ phase[s] = "accepted" /\ SameClaim(r, s) => r = s
  <2> SUFFICES ASSUME NEW r \in Requests, NEW s \in Requests,
                      phase[r] = "accepted", phase[s] = "accepted", SameClaim(r, s)
               PROVE  r = s
    OBVIOUS
  <2>1. Row(r) \in heartbeats /\ Row(s) \in heartbeats
    BY DEF RowInv, RowWritten, Storing, Auditing, Announcing
  <2>2. Row(r) = Row(s)
    <3>1. Row(r).agent = Row(s).agent /\ Row(r).nonce = Row(s).nonce
      BY DEF SameClaim, Row
    <3> QED BY <2>1, <3>1 DEF RowInv, OneRowPerClaim
  <2> QED BY <2>2 DEF Row
<1> QED BY <1>1 DEF RowInv, OneRowPerClaim, ReplaysHaveCause, ReplayProtected

(* However the requests that carry one nonce of one agent interleave, at   *)
(* most one stores a row and at most one is told 202; a 409 is told only   *)
(* when another request stored the row.                                    *)
THEOREM ReplayIsProtected == Spec => []ReplayProtected
BY RowInvImplies, RowInvInit, RowInvNext, NextServes, PTL DEF Spec

=============================================================================

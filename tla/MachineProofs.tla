---------------------------- MODULE MachineProofs ----------------------------
(***************************************************************************)
(* What a machine's row and the stored history say, for every instance of  *)
(* HeartbeatApi: where a machine's latest state comes from, how far ahead  *)
(* it may lie, which change of status is announced, and what a revocation  *)
(* ends.                                                                   *)
(***************************************************************************)
EXTENDS DurabilityProofs

(* The statements of recordHeartbeat are still to come, or under way.      *)
Recording == {"readStatus", "insert", "update"}

(* What is about to be stored passed the test against the clock, and the   *)
(* clock has not gone back since.                                          *)
Skewed ==
  \A r \in Requests : phase[r] \in Recording => msg[r].body.seen <= clock + FutureSkew

MachineInv == RowInv /\ Skewed /\ MachineFromOneHeartbeat /\ NeverFromFuture

LEMMA MachineInit == Init => MachineInv
<1> SUFFICES ASSUME Init PROVE MachineInv
  OBVIOUS
<1>1. Skewed /\ MachineFromOneHeartbeat
  BY DEF Init, Skewed, Recording, MachineFromOneHeartbeat, PastUpdate
<1>2. NeverFromFuture
  BY ConfigAssumption DEF Init, NeverFromFuture, Never
<1> QED BY <1>1, <1>2, RowInvInit DEF MachineInv

(* A step that stores nothing, while time may pass. *)
LEMMA MachineKept ==
  ASSUME MachineInv, RowInv', heartbeats' = heartbeats, machines' = machines,
         clock' = clock \/ clock' = clock + 1,
         \A s \in Requests :
           phase'[s] \in Recording => phase[s] \in Recording /\ msg'[s] = msg[s],
         \A s \in Requests :
           \/ phase'[s] = phase[s] /\ msg'[s] = msg[s]
           \/ phase'[s] \notin PastUpdate \cup {"update"}
           \/ phase[s] \in PastUpdate /\ phase'[s] \in PastUpdate /\ msg'[s] = msg[s]
  PROVE  MachineInv'
<1>0. clock \in Nat /\ FutureSkew \in Nat
  BY ConfigAssumption DEF MachineInv, RowInv, Typing, TypeOK, Times
<1>1. \A x \in Nat : x <= clock + FutureSkew => x <= clock' + FutureSkew
  BY <1>0
<1>2. \A s \in Requests : phase[s] \in Recording => msg[s].body.seen \in Nat
  BY DEF MachineInv, RowInv, Typing, Parsed, Recording, Parsing, Storing, Bodies, Times
<1>3. Skewed'
  BY <1>1, <1>2 DEF MachineInv, Skewed
<1>4. MachineFromOneHeartbeat'
  <2>1. \A h \in heartbeats : h.id \in Requests
    BY DEF MachineInv, RowInv, RowsOwned
  <2>2. \A h \in heartbeats : phase[h.id] # "update" => phase'[h.id] # "update"
    BY <2>1 DEF PastUpdate
  <2>3. \A s \in Requests : phase'[s] \in PastUpdate =>
          phase[s] \in PastUpdate /\ AgentOf(s)' = AgentOf(s)
    BY DEF AgentOf
  <2> QED BY <2>2, <2>3 DEF MachineInv, MachineFromOneHeartbeat
<1>5. /\ \A h \in heartbeats : h.seen \in Nat
      /\ \A a \in Agents : machines[a].seen \in Nat
  BY DEF MachineInv, RowInv, Typing, TypeOK, Rows, Times, Never
<1>6. NeverFromFuture'
  BY <1>1, <1>5 DEF MachineInv, NeverFromFuture
<1> QED BY <1>3, <1>4, <1>6 DEF MachineInv

LEMMA MachineNext == MachineInv /\ Serves => MachineInv'
<1> SUFFICES ASSUME MachineInv, Serves PROVE MachineInv'
  OBVIOUS
<1>0. TypeOK /\ Typing /\ RowInv /\ RowInv'
  BY RowInvNext DEF MachineInv, RowInv, Typing
<1>1. ASSUME NEW r \in Requests, NEW who \in Credentials, NEW b \in Bodies \cup {Malformed},
             Receive(r, who, b)
      PROVE  MachineInv'
  <2>2. phase'[r] = "authenticate" /\ \A s \in Requests : s # r => phase'[s] = phase[s]
    BY <1>0, <1>1, StepMovesOne DEF Receive, Awaiting
  <2>3. \A s \in Requests : s # r => msg'[s] = msg[s]
    BY <1>0, <1>1 DEF Receive, TypeOK
  <2> QED BY <1>0, <1>1, <2>2, <2>3, MachineKept DEF Receive, Recording, PastUpdate
<1>2. ASSUME NEW r \in Requests, Handle(r) PROVE MachineInv'
  <2>1. CASE ParseHeartbeat(r)
    <3>1. /\ phase[r] = "parse"
          /\ phase'[r] = "readStatus" => msg[r].body.seen <= clock + FutureSkew
          /\ \A s \in Requests : s # r => phase'[s] = phase[s]
      BY <1>0, <2>1, StepMovesOne
         DEF ParseHeartbeat, Acceptable, Awaiting, Answers
    <3>2. phase'[r] \in {"readStatus", "invalid"}
      BY <1>0, <2>1 DEF ParseHeartbeat, Step, TypeOK
    <3>3. Skewed'
      BY <2>1, <3>1, <3>2 DEF ParseHeartbeat, MachineInv, Skewed, Recording
    <3>4. NeverFromFuture'
      BY <2>1 DEF ParseHeartbeat, MachineInv, NeverFromFuture
    <3>5. \A h \in heartbeats : h.id \in Requests
      BY <1>0 DEF RowInv, RowsOwned
    <3>6. MachineFromOneHeartbeat'
      BY <2>1, <3>1, <3>2, <3>5
         DEF ParseHeartbeat, MachineInv, MachineFromOneHeartbeat, PastUpdate, AgentOf
    <3> QED BY <1>0, <3>3, <3>4, <3>6 DEF MachineInv
  <2>2. CASE InsertHeartbeat(r)
    <3>1. /\ phase[r] = "insert" /\ phase'[r] = "update"
          /\ \A s \in Requests : s # r => phase'[s] = phase[s]
      BY <1>0, <2>2, StepMovesOne DEF InsertHeartbeat, Awaiting
    <3>2. Skewed'
      BY <2>2, <3>1 DEF InsertHeartbeat, MachineInv, Skewed, Recording
    <3>3. MachineFromOneHeartbeat'
      <4>1. \A h \in heartbeats : h.id \in Requests /\ h.id # r
        BY <1>0, <3>1 DEF RowInv, RowsOwned, Written, Storing, Auditing, Announcing
      <4> QED BY <2>2, <3>1, <4>1
              DEF InsertHeartbeat, MachineInv, MachineFromOneHeartbeat, PastUpdate, AgentOf
    <3>4. Row(r).seen <= clock + FutureSkew
      BY <3>1 DEF MachineInv, Skewed, Recording, Row
    <3>5. NeverFromFuture'
      BY <2>2, <3>4 DEF InsertHeartbeat, MachineInv, NeverFromFuture
    <3> QED BY <1>0, <3>2, <3>3, <3>5 DEF MachineInv
  <2>3. CASE UpdateMachine(r)
    <3>1. /\ phase[r] = "update" /\ phase'[r] = "audit"
          /\ \A s \in Requests : s # r => phase'[s] = phase[s]
      BY <1>0, <2>3, StepMovesOne DEF UpdateMachine, Awaiting
    <3>2. Skewed'
      BY <2>3, <3>1 DEF UpdateMachine, MachineInv, Skewed, Recording
    <3>3. /\ AgentOf(r) \in Agents
          /\ machines'[AgentOf(r)] = [status |-> msg[r].body.status,
                                      seen   |-> msg[r].body.seen]
          /\ \A a \in Agents \ {AgentOf(r)} : machines'[a] = machines[a]
      BY <1>0, <2>3, <3>1
         DEF UpdateMachine, Latest, TypeOK, Typing, Identified, Parsing, Storing
    <3>4. Row(r) \in heartbeats
      BY <1>0, <3>1 DEF RowInv, RowWritten, Storing
    <3>5. /\ Row(r).agent = AgentOf(r)
          /\ machines'[AgentOf(r)] = [status |-> Row(r).status, seen |-> Row(r).seen]
      BY <3>3 DEF Row
    <3>6. MachineFromOneHeartbeat'
      <4>1. Row(r).id = r /\ \A h \in heartbeats : h.id \in Requests
        BY <1>0 DEF RowInv, RowsOwned, Row
      <4>2. heartbeats' = heartbeats /\ msg' = msg
        BY <2>3 DEF UpdateMachine
      <4>3. \A h \in heartbeats : phase[h.id] # "update" => phase'[h.id] # "update"
        BY <3>1, <4>1
      <4>4. \E h \in heartbeats' :
              /\ h.agent = AgentOf(r) /\ phase'[h.id] # "update"
              /\ machines'[AgentOf(r)] = [status |-> h.status, seen |-> h.seen]
        BY <3>1, <3>4, <3>5, <4>1, <4>2
      <4>5. ASSUME NEW a \in Agents \ {AgentOf(r)}
            PROVE  \/ /\ machines'[a] = [status |-> "unknown", seen |-> Never]
                      /\ \A s \in Requests : AgentOf(s)' = a => phase'[s] \notin PastUpdate
                   \/ \E h \in heartbeats' :
                        /\ h.agent = a /\ phase'[h.id] # "update"
                        /\ machines'[a] = [status |-> h.status, seen |-> h.seen]
        BY <3>1, <3>3, <4>2, <4>3 DEF MachineInv, MachineFromOneHeartbeat, AgentOf
      <4> QED BY <3>3, <4>4, <4>5 DEF MachineFromOneHeartbeat
    <3>7. machines'[AgentOf(r)].seen <= clock + FutureSkew
      BY <3>1, <3>3 DEF MachineInv, Skewed, Recording
    <3>8. NeverFromFuture'
      BY <2>3, <3>3, <3>7 DEF UpdateMachine, MachineInv, NeverFromFuture
    <3> QED BY <1>0, <3>2, <3>6, <3>8 DEF MachineInv
  <2>4. CASE \/ AuthenticateAgent(r) \/ ReadStatus(r) \/ RejectReplay(r) \/ RecordAudit(r)
             \/ PublishHeartbeat(r) \/ PublishStatusChange(r) \/ Respond(r)
    <3>1. /\ heartbeats' = heartbeats /\ machines' = machines
          /\ clock' = clock /\ msg' = msg
      BY <2>4 DEF AuthenticateAgent, ReadStatus, RejectReplay, RecordAudit,
         PublishHeartbeat, PublishStatusChange, Respond
    <3>2. PICK to \in Awaiting \cup Answers :
            /\ Step(r, phase[r], to)
            /\ to \in Recording => phase[r] \in Recording
            /\ to \notin PastUpdate \cup {"update"} \/ (phase[r] \in PastUpdate /\ to \in PastUpdate)
      BY <2>4 DEF AuthenticateAgent, ReadStatus, RejectReplay, RecordAudit, PublishHeartbeat,
         PublishStatusChange, Respond, Step, Awaiting, Answers, Recording, PastUpdate
    <3>3. phase'[r] = to /\ \A s \in Requests : s # r => phase'[s] = phase[s]
      BY <1>0, <3>2, StepMovesOne
    <3> QED BY <1>0, <3>1, <3>2, <3>3, MachineKept
  <2> QED BY <1>2, <2>1, <2>2, <2>3, <2>4 DEF Handle
<1>3. ASSUME NEW r \in Requests, Fail(r) \/ Abort(r) PROVE MachineInv'
  <2>1. PICK to \in {"failed", "aborted"} : Step(r, phase[r], to)
    BY <1>3 DEF Fail, Abort, Step
  <2>2. phase'[r] = to /\ \A s \in Requests : s # r => phase'[s] = phase[s]
    BY <1>0, <2>1, StepMovesOne DEF Answers
  <2> QED BY <1>0, <1>3, <2>2, MachineKept DEF Fail, Abort, Recording, PastUpdate
<1>4. CASE (\E a \in Agents : Revoke(a)) \/ Tick \/ UNCHANGED vars
  <2>1. /\ heartbeats' = heartbeats /\ machines' = machines
        /\ phase' = phase /\ msg' = msg
        /\ clock' = clock \/ clock' = clock + 1
    BY <1>4 DEF Revoke, Tick, vars
  <2> QED BY <1>0, <2>1, MachineKept
<1> QED BY <1>1, <1>2, <1>3, <1>4 DEF Serves

(* A machine's status and last_seen_at are those of one stored heartbeat   *)
(* of its own agent that got as far as its UPDATE, as soon as one has, for *)
(* any number of requests that interleave.                                 *)
THEOREM MachineStateIsOneHeartbeat == Spec => []MachineFromOneHeartbeat
<1>1. MachineInv => MachineFromOneHeartbeat
  BY DEF MachineInv
<1> QED BY <1>1, MachineInit, MachineNext, NextServes, PTL DEF Spec

(* Nothing stored lies further ahead of the clock than parseHeartbeat      *)
(* allows, however long the statements took to execute.                    *)
THEOREM NothingFromTheFuture == Spec => []NeverFromFuture
<1>1. MachineInv => NeverFromFuture
  BY DEF MachineInv
<1> QED BY <1>1, MachineInit, MachineNext, NextServes, PTL DEF Spec

-----------------------------------------------------------------------------
(* Changes of status.  What a request read as the previous status came     *)
(* from a row that is not its own, because its own was not inserted yet;   *)
(* rows stay, so the announcement is still about that one.                 *)

FromHistory(a, r, status) ==
  \/ status = "unknown"
  \/ \E h \in heartbeats : h.agent = a /\ h.id # r /\ h.status = status

PrevReal ==
  \A r \in Requests :
    phase[r] \in {"insert"} \cup Storing => FromHistory(AgentOf(r), r, prev[r])

Differs ==
  \A r \in Requests : phase[r] = "publishChange" => prev[r] # msg[r].body.status

ChangeInv == TrailInv /\ MachineInv /\ PrevReal /\ Differs /\ ChangeIsReal

LEMMA ChangeInit == Init => ChangeInv
BY TrailInit, MachineInit
   DEF Init, ChangeInv, PrevReal, Differs, ChangeIsReal, Storing, Auditing, Announcing

LEMMA StatusHasSource ==
  ASSUME MachineFromOneHeartbeat, NEW a \in Agents, NEW r, \A h \in heartbeats : h.id # r
  PROVE  FromHistory(a, r, machines[a].status)
<1>1. CASE machines[a] = [status |-> "unknown", seen |-> Never]
  <2>1. machines[a].status = "unknown"
    BY <1>1
  <2> QED BY <2>1 DEF FromHistory
<1>2. CASE \E h \in heartbeats : /\ h.agent = a
                                 /\ machines[a] = [status |-> h.status, seen |-> h.seen]
  <2>1. PICK h \in heartbeats : /\ h.agent = a
                                /\ machines[a] = [status |-> h.status, seen |-> h.seen]
    BY <1>2
  <2>2. machines[a].status = h.status
    BY <2>1
  <2> QED BY <2>1, <2>2 DEF FromHistory
<1> QED BY <1>1, <1>2 DEF MachineFromOneHeartbeat

(* Rows stay, and nobody rereads: what was real remains so.                *)
LEMMA PrevKept ==
  ASSUME PrevReal, Settled, heartbeats \subseteq heartbeats', NEW s \in Requests,
         phase[s] \in {"insert"} \cup Storing, prev'[s] = prev[s]
  PROVE  FromHistory(AgentOf(s), s, prev[s])'
<1>1. AgentOf(s)' = AgentOf(s)
  BY DEF Settled, AgentOf, Storing, Auditing, Announcing
<1> QED BY <1>1 DEF PrevReal, FromHistory

(* A step that neither reads a status nor announces a change.              *)
LEMMA ChangeKept ==
  ASSUME ChangeInv, TrailInv', MachineInv', Settled, heartbeats \subseteq heartbeats',
         channel' = channel, prev' = prev,
         \A s \in Requests :
           phase'[s] \in {"insert"} \cup Storing => phase[s] \in {"insert"} \cup Storing,
         \A s \in Requests : phase'[s] = "publishChange" => phase[s] = "publishChange"
  PROVE  ChangeInv'
<1>1. PrevReal'
  BY PrevKept DEF ChangeInv, PrevReal
<1>2. Differs'
  BY DEF ChangeInv, Differs, Settled
<1>3. ChangeIsReal'
  BY DEF ChangeInv, ChangeIsReal
<1> QED BY <1>1, <1>2, <1>3 DEF ChangeInv

(* A publish, of an event that is real if it is about a change.            *)
LEMMA ChangePublishes ==
  ASSUME ChangeIsReal, TypeOK, TypeOK', NEW r \in Requests, AgentOf(r) \in Agents,
         NEW e \in Events, Publish(r, e), heartbeats' = heartbeats,
         e.type = "agent.status_changed" =>
           e.previous # e.status /\ FromHistory(e.agent, e.heartbeat, e.previous)
  PROVE  ChangeIsReal'
<1> DEFINE p == ProjectOf[AgentOf(r)]
           n == Len(channel[p])
<1>1. /\ p \in Projects
      /\ Len(channel'[p]) = n + 1 /\ channel'[p][n + 1] = e
      /\ \A i \in 1 .. n : channel'[p][i] = channel[p][i]
      /\ \A q \in Projects : q # p => channel'[q] = channel[q]
  BY PublishAppends
<1>2. \A q \in Projects : channel[q] \in Seq(Events) /\ channel'[q] \in Seq(Events)
  BY DEF TypeOK
<1>3. \A q \in Projects : \A i \in DOMAIN channel'[q] :
        \/ channel'[q][i] = e
        \/ i \in DOMAIN channel[q] /\ channel'[q][i] = channel[q][i]
  BY <1>1, <1>2
<1> QED BY <1>3 DEF ChangeIsReal, FromHistory

LEMMA ChangeNext == ChangeInv /\ Serves => ChangeInv'
<1> SUFFICES ASSUME ChangeInv, Serves PROVE ChangeInv'
  OBVIOUS
<1>0. /\ TrailInv' /\ MachineInv'
      /\ RowInv /\ Typing /\ TypeOK /\ TypeOK' /\ ChangeIsReal /\ PrevReal
  BY TrailNext, MachineNext DEF ChangeInv, MachineInv, RowInv, Typing
<1> USE DEF Storing, Auditing, Announcing
<1>1. ASSUME NEW r \in Requests, NEW who \in Credentials, NEW b \in Bodies \cup {Malformed},
             Receive(r, who, b)
      PROVE  ChangeInv'
  <2>1. /\ phase[r] = "unsent" /\ phase'[r] = "authenticate"
        /\ \A s \in Requests : s # r => phase'[s] = phase[s]
    BY <1>0, <1>1, StepMovesOne DEF Receive, Awaiting
  <2>2. Settled /\ heartbeats' = heartbeats /\ prev' = prev /\ channel' = channel
    BY <1>0, <1>1, <2>1 DEF TypeOK, Receive, Settled
  <2> QED BY <1>0, <2>1, <2>2, ChangeKept
<1>2. ASSUME NEW r \in Requests, Handle(r) PROVE ChangeInv'
  <2>1. CASE ReadStatus(r)
    <3>1. /\ phase[r] = "readStatus" /\ phase'[r] = "insert"
          /\ \A s \in Requests : s # r => phase'[s] = phase[s]
          /\ heartbeats' = heartbeats /\ msg' = msg /\ channel' = channel
      BY <1>0, <2>1, StepMovesOne DEF ReadStatus, Awaiting
    <3>2. /\ prev'[r] = machines[AgentOf(r)].status
          /\ \A s \in Requests : s # r => prev'[s] = prev[s]
      BY <1>0, <2>1 DEF ReadStatus, TypeOK
    <3>3. AgentOf(r) \in Agents /\ AgentOf(r)' = AgentOf(r)
      BY <1>0, <3>1 DEF Typing, Identified, Parsing, AgentOf
    <3>4. \A h \in heartbeats : h.id # r
      BY <1>0, <3>1 DEF RowInv, RowsOwned, Written
    <3>5. FromHistory(AgentOf(r), r, prev'[r])
      <4>1. FromHistory(AgentOf(r), r, machines[AgentOf(r)].status)
        BY <3>3, <3>4, StatusHasSource DEF ChangeInv, MachineInv
      <4> QED BY <3>2, <4>1
    <3>6. FromHistory(AgentOf(r), r, prev[r])'
      BY <3>1, <3>3, <3>5 DEF FromHistory
    <3>7. PrevReal'
      <4> SUFFICES ASSUME NEW s \in Requests, phase'[s] \in {"insert"} \cup Storing
                   PROVE  FromHistory(AgentOf(s), s, prev[s])'
        BY DEF PrevReal
      <4>1. CASE s = r
        BY <3>6, <4>1
      <4>2. CASE s # r
        BY <1>0, <3>1, <3>2, <4>2, PrevKept DEF Settled
      <4> QED BY <4>1, <4>2
    <3>8. Differs' /\ ChangeIsReal'
      BY <1>0, <3>1, <3>2 DEF ChangeInv, Differs, ChangeIsReal
    <3> QED BY <1>0, <3>7, <3>8 DEF ChangeInv
  <2>2. CASE PublishHeartbeat(r)
    <3>1. /\ phase[r] = "publish" /\ phase'[r] \in {"publishChange", "respond"}
          /\ phase'[r] = "publishChange" => prev[r] # msg[r].body.status
          /\ \A s \in Requests : s # r => phase'[s] = phase[s]
          /\ heartbeats' = heartbeats /\ prev' = prev /\ msg' = msg
          /\ Publish(r, HeartbeatEvent(r))
      BY <1>0, <2>2, StepMovesOne DEF PublishHeartbeat, Awaiting
    <3>2. HeartbeatEvent(r) \in Events /\ AgentOf(r) \in Agents
      BY <1>0, <3>1, HasRow, WritesTyped
    <3>3. HeartbeatEvent(r).type # "agent.status_changed"
      BY DEF HeartbeatEvent
    <3>4. ChangeIsReal'
      BY <1>0, <3>1, <3>2, <3>3, ChangePublishes
    <3>5. Differs'
      BY <3>1 DEF ChangeInv, Differs
    <3>6. PrevReal'
      BY <1>0, <3>1, PrevKept DEF PrevReal, Settled
    <3> QED BY <1>0, <3>4, <3>5, <3>6 DEF ChangeInv
  <2>3. CASE PublishStatusChange(r)
    <3>1. /\ phase[r] = "publishChange" /\ phase'[r] = "respond"
          /\ \A s \in Requests : s # r => phase'[s] = phase[s]
          /\ heartbeats' = heartbeats /\ prev' = prev /\ msg' = msg
          /\ Publish(r, StatusEvent(r))
      BY <1>0, <2>3, StepMovesOne DEF PublishStatusChange, Awaiting
    <3>2. StatusEvent(r) \in Events /\ AgentOf(r) \in Agents
      BY <1>0, <3>1, HasRow, WritesTyped
    <3>3. prev[r] # msg[r].body.status /\ FromHistory(AgentOf(r), r, prev[r])
      BY <1>0, <3>1 DEF ChangeInv, Differs, PrevReal
    <3>4. /\ StatusEvent(r).previous = prev[r] /\ StatusEvent(r).heartbeat = r
          /\ StatusEvent(r).agent = AgentOf(r) /\ StatusEvent(r).status = msg[r].body.status
      BY DEF StatusEvent
    <3>5. ChangeIsReal'
      BY <1>0, <3>1, <3>2, <3>3, <3>4, ChangePublishes
    <3>6. Differs'
      BY <3>1 DEF ChangeInv, Differs
    <3>7. PrevReal'
      BY <1>0, <3>1, PrevKept DEF PrevReal, Settled
    <3> QED BY <1>0, <3>5, <3>6, <3>7 DEF ChangeInv
  <2>4. CASE \/ AuthenticateAgent(r) \/ ParseHeartbeat(r) \/ InsertHeartbeat(r)
             \/ RejectReplay(r) \/ UpdateMachine(r) \/ RecordAudit(r) \/ Respond(r)
    <3>1. /\ heartbeats \subseteq heartbeats' /\ channel' = channel /\ prev' = prev
          /\ Settled
      BY <2>4 DEF AuthenticateAgent, ParseHeartbeat, InsertHeartbeat, RejectReplay,
         UpdateMachine, RecordAudit, Respond, Settled
    <3>2. PICK to \in Awaiting \cup Answers :
            /\ Step(r, phase[r], to)
            /\ to # "publishChange"
            /\ to \in {"insert"} \cup Storing => phase[r] \in {"insert"} \cup Storing
      BY <2>4 DEF AuthenticateAgent, ParseHeartbeat, InsertHeartbeat, RejectReplay,
         UpdateMachine, RecordAudit, Respond, Step, Awaiting, Answers
    <3>3. phase'[r] = to /\ \A s \in Requests : s # r => phase'[s] = phase[s]
      BY <1>0, <3>2, StepMovesOne
    <3> QED BY <1>0, <3>1, <3>2, <3>3, ChangeKept
  <2> QED BY <1>2, <2>1, <2>2, <2>3, <2>4 DEF Handle
<1>3. ASSUME NEW r \in Requests, Fail(r) \/ Abort(r) PROVE ChangeInv'
  <2>1. PICK to \in {"failed", "aborted"} : Step(r, phase[r], to)
    BY <1>3 DEF Fail, Abort, Step
  <2>2. phase'[r] = to /\ \A s \in Requests : s # r => phase'[s] = phase[s]
    BY <1>0, <2>1, StepMovesOne DEF Answers
  <2>3. /\ heartbeats' = heartbeats /\ prev' = prev /\ channel' = channel
        /\ Settled
    BY <1>3 DEF Fail, Abort, Settled
  <2> QED BY <1>0, <2>2, <2>3, ChangeKept
<1>4. CASE (\E a \in Agents : Revoke(a)) \/ Tick \/ UNCHANGED vars
  <2>1. /\ heartbeats' = heartbeats /\ prev' = prev /\ channel' = channel
        /\ phase' = phase /\ Settled
    BY <1>4 DEF Revoke, Tick, vars, Settled
  <2> QED BY <1>0, <2>1, ChangeKept
<1> QED
  BY <1>1, <1>2, <1>3, <1>4 DEF Serves

(* The invariant carries all that was claimed before of the service.       *)
LEMMA ApiImplies ==
  ASSUME ChangeInv
  PROVE  /\ TypeOK /\ ReplayProtected
         /\ AcceptedIsDurable /\ DurableBeforeLive /\ AuditTrail /\ AnnouncedOnce
         /\ MachineFromOneHeartbeat /\ NeverFromFuture /\ ChangeIsReal
<1>1. RowInv /\ DurabilityInv /\ TrailInv /\ MachineInv /\ ChangeIsReal
  BY DEF ChangeInv, TrailInv, MachineInv
<1>2. TypeOK /\ ReplayProtected
  BY <1>1, RowInvImplies DEF RowInv, Typing
<1>3. AcceptedIsDurable /\ DurableBeforeLive
  BY <1>1, DurabilityImplies
<1>4. AuditTrail /\ AnnouncedOnce
  BY <1>1, TrailImplies, OnceImplies
<1>5. MachineFromOneHeartbeat /\ NeverFromFuture
  BY <1>1 DEF MachineInv
<1> QED BY <1>1, <1>2, <1>3, <1>4, <1>5

(* A change of status is announced only when the status differs from one   *)
(* the agent really had before, by another of its stored heartbeats or by  *)
(* its registration: however stale, previous is never made up.             *)
THEOREM AnnouncedChangeIsReal == Spec => []ChangeIsReal
<1>1. ChangeInv => ChangeIsReal
  BY DEF ChangeInv
<1> QED BY <1>1, ChangeInit, ChangeNext, NextServes, PTL DEF Spec

-----------------------------------------------------------------------------
(* Revocation. *)

Silence ==
  \A a \in revoked :
    /\ InFlight(a)' \subseteq InFlight(a)
    /\ InFlight(a) = {} => RowsOf(a)' = RowsOf(a) /\ machines'[a] = machines[a]

(* A step keeps the silence when no request of a revoked agent enters the  *)
(* phases past authentication, and when nothing is stored except by a      *)
(* request in those phases, for its own agent.                             *)
LEMMA SilenceKept ==
  ASSUME Typing,
         \A s \in Requests :
           phase'[s] \in PastAuthentication /\ msg'[s].credential \in revoked =>
             phase[s] \in PastAuthentication /\ msg'[s] = msg[s],
         heartbeats' = heartbeats, machines' = machines
  PROVE  Silence
BY DEF Silence, InFlight, RowsOf, AgentOf

LEMMA SilentStep == Typing /\ Serves => [Silence]_vars
<1> SUFFICES ASSUME Typing, Serves PROVE Silence \/ UNCHANGED vars
  OBVIOUS
<1> USE DEF Typing
<1>1. ASSUME NEW r \in Requests, NEW who \in Credentials, NEW b \in Bodies \cup {Malformed},
             Receive(r, who, b)
      PROVE  Silence
  <2>1. phase'[r] = "authenticate" /\ \A s \in Requests : s # r => phase'[s] = phase[s]
    BY <1>1, StepMovesOne DEF Receive, Awaiting
  <2>2. \A s \in Requests : s # r => msg'[s] = msg[s]
    BY <1>1 DEF Receive, TypeOK
  <2> QED BY <1>1, <2>1, <2>2, SilenceKept DEF Receive, PastAuthentication
<1>2. ASSUME NEW r \in Requests, Handle(r) PROVE Silence
  <2>1. CASE AuthenticateAgent(r)
    <3>1. /\ \A s \in Requests : s # r => phase'[s] = phase[s]
          /\ phase'[r] = IF Authentic(r) THEN "parse" ELSE "denied"
      BY <2>1, StepMovesOne DEF AuthenticateAgent, Awaiting, Answers
    <3>2. msg'[r].credential \in revoked => phase'[r] = "denied"
      BY <2>1, <3>1 DEF AuthenticateAgent, Authentic, AgentOf
    <3> QED BY <2>1, <3>1, <3>2, SilenceKept
            DEF AuthenticateAgent, PastAuthentication, Awaiting
  <2>2. CASE InsertHeartbeat(r)
    <3>1. /\ phase[r] = "insert" /\ phase'[r] = "update" /\ msg' = msg
          /\ \A s \in Requests : s # r => phase'[s] = phase[s]
      BY <2>2, StepMovesOne DEF InsertHeartbeat, Awaiting
    <3>2. \A a \in Agents : InFlight(a)' \subseteq InFlight(a)
      BY <3>1 DEF InFlight, AgentOf, PastAuthentication, Awaiting
    <3>3. r \in InFlight(AgentOf(r))
      BY <3>1 DEF InFlight, PastAuthentication, Awaiting
    <3>4. \A a \in Agents : InFlight(a) = {} => RowsOf(a)' = RowsOf(a)
      BY <2>2, <3>3 DEF InsertHeartbeat, RowsOf, Row
    <3> QED BY <2>2, <3>2, <3>4 DEF Silence, InsertHeartbeat, TypeOK
  <2>3. CASE UpdateMachine(r)
    <3>1. /\ phase[r] = "update" /\ phase'[r] = "audit" /\ msg' = msg
          /\ \A s \in Requests : s # r => phase'[s] = phase[s]
      BY <2>3, StepMovesOne DEF UpdateMachine, Awaiting
    <3>2. \A a \in Agents : InFlight(a)' \subseteq InFlight(a)
      BY <3>1 DEF InFlight, AgentOf, PastAuthentication, Awaiting
    <3>3. r \in InFlight(AgentOf(r))
      BY <3>1 DEF InFlight, PastAuthentication, Awaiting
    <3>4. \A a \in Agents : InFlight(a) = {} => machines'[a] = machines[a]
      BY <2>3, <3>3 DEF UpdateMachine, TypeOK
    <3> QED BY <2>3, <3>2, <3>4 DEF Silence, UpdateMachine, TypeOK, RowsOf
  <2>4. CASE \/ ParseHeartbeat(r) \/ ReadStatus(r) \/ RejectReplay(r) \/ RecordAudit(r)
             \/ PublishHeartbeat(r) \/ PublishStatusChange(r) \/ Respond(r)
    <3>1. heartbeats' = heartbeats /\ machines' = machines /\ msg' = msg
      BY <2>4 DEF ParseHeartbeat, ReadStatus, RejectReplay, RecordAudit,
         PublishHeartbeat, PublishStatusChange, Respond
    <3>2. PICK to \in Awaiting \cup Answers :
            Step(r, phase[r], to) /\ phase[r] \in PastAuthentication
      BY <2>4 DEF ParseHeartbeat, ReadStatus, RejectReplay, RecordAudit, PublishHeartbeat,
         PublishStatusChange, Respond, Step, Awaiting, Answers, PastAuthentication
    <3>3. \A s \in Requests : s # r => phase'[s] = phase[s]
      BY <3>2, StepMovesOne
    <3> QED BY <3>1, <3>2, <3>3, SilenceKept
  <2> QED BY <1>2, <2>1, <2>2, <2>3, <2>4 DEF Handle
<1>3. ASSUME NEW r \in Requests, Fail(r) \/ Abort(r) PROVE Silence
  <2>1. PICK to \in {"failed", "aborted"} : Step(r, phase[r], to)
    BY <1>3 DEF Fail, Abort, Step
  <2>2. phase'[r] = to /\ \A s \in Requests : s # r => phase'[s] = phase[s]
    BY <2>1, StepMovesOne DEF Answers
  <2> QED BY <1>3, <2>2, SilenceKept DEF Fail, Abort, PastAuthentication, Awaiting
<1>4. CASE (\E a \in Agents : Revoke(a)) \/ Tick
  BY <1>4, SilenceKept DEF Revoke, Tick
<1> QED BY <1>1, <1>2, <1>3, <1>4 DEF Serves

(* Once an agent is revoked no request of its gets past authentication,    *)
(* and when those that had are done its history and its machine are final. *)
THEOREM RevocationSilences == Spec => RevokedStaysSilent
<1>1. Spec => []Typing
  BY TypingInit, TypingNext, NextServes, PTL DEF Spec
<1>2. Spec => [][Silence]_vars
  BY <1>1, SilentStep, NextServes, PTL DEF Spec
<1> QED BY <1>2, PTL DEF RevokedStaysSilent, Silence

=============================================================================

-------------------------- MODULE DurabilityProofs --------------------------
(***************************************************************************)
(* What a 202 and what a live event guarantee, for every instance of       *)
(* HeartbeatApi.  Both follow the order of the handler's statements: the   *)
(* row, the audit event, the heartbeat event, the change event.            *)
(***************************************************************************)
EXTENDS HeartbeatApiProofs

Audited == \A r \in Requests : phase[r] \in Auditing => AuditOf(r) \in audits

HeartbeatAnnounced ==
  \A r \in Requests :
    phase[r] \in Announcing => Announces(HeartbeatEvent(r), ProjectOf[AgentOf(r)])

ChangeAnnounced ==
  \A r \in Requests :
    phase[r] \in {"respond", "accepted"} /\ prev[r] # msg[r].body.status =>
      Announces(StatusEvent(r), ProjectOf[AgentOf(r)])

DurabilityInv ==
  RowInv /\ Audited /\ HeartbeatAnnounced /\ ChangeAnnounced /\ DurableBeforeLive

(* The tables and the channels only grow. *)
Extends(s, t) == /\ Len(s) <= Len(t)
                 /\ \A i \in 1 .. Len(s) : t[i] = s[i]

Grows ==
  /\ heartbeats \subseteq heartbeats'
  /\ audits \subseteq audits'
  /\ \A p \in Projects : Extends(channel[p], channel'[p])

(* previousStatus is fixed once read. *)
PrevSettled == \A s \in Requests : phase[s] \in Storing => prev'[s] = prev[s]

LEMMA AnnouncedStays ==
  ASSUME TypeOK, TypeOK', Grows, NEW e, NEW p \in Projects, Announces(e, p)
  PROVE  \E i \in DOMAIN channel'[p] : channel'[p][i] = e
<1>1. channel[p] \in Seq(Events) /\ channel'[p] \in Seq(Events)
  BY DEF TypeOK
<1>2. PICK i \in 1 .. Len(channel[p]) : channel[p][i] = e
  BY <1>1 DEF Announces
<1> QED BY <1>1, <1>2 DEF Grows, Extends

(* A publish appends to the channel of the agent's project.                *)
LEMMA PublishAppends ==
  ASSUME TypeOK, NEW r \in Requests, AgentOf(r) \in Agents, NEW e \in Events, Publish(r, e)
  PROVE  LET p == ProjectOf[AgentOf(r)]
         IN  /\ p \in Projects
             /\ Len(channel'[p]) = Len(channel[p]) + 1
             /\ channel'[p][Len(channel[p]) + 1] = e
             /\ \A i \in 1 .. Len(channel[p]) : channel'[p][i] = channel[p][i]
             /\ \A q \in Projects : q # p => channel'[q] = channel[q]
<1> DEFINE p == ProjectOf[AgentOf(r)]
<1>1. p \in Projects
  BY ConfigAssumption
<1>2. channel[p] \in Seq(Events) /\ channel'[p] = Append(channel[p], e)
  BY <1>1 DEF TypeOK, Publish
<1>3. \A q \in Projects : q # p => channel'[q] = channel[q]
  BY DEF TypeOK, Publish
<1> QED BY <1>1, <1>2, <1>3

LEMMA PublishGrows ==
  ASSUME TypeOK, NEW r \in Requests, AgentOf(r) \in Agents, NEW e \in Events, Publish(r, e)
  PROVE  \A q \in Projects : Extends(channel[q], channel'[q])
<1> SUFFICES ASSUME NEW q \in Projects PROVE Extends(channel[q], channel'[q])
  OBVIOUS
<1>1. channel[q] \in Seq(Events)
  BY DEF TypeOK
<1> QED BY <1>1, PublishAppends DEF Extends

-----------------------------------------------------------------------------
(* An event that is about a stored and audited heartbeat of its agent may  *)
(* be published; a change of status only once its heartbeat was.           *)
LEMMA LiveAfterPublish ==
  ASSUME DurableBeforeLive, TypeOK, TypeOK', NEW r \in Requests, AgentOf(r) \in Agents,
         NEW e \in Events, Publish(r, e), heartbeats' = heartbeats, audits' = audits,
         e.agent = AgentOf(r), e.heartbeat = r,
         \E h \in heartbeats : /\ h.id = r /\ h.agent = e.agent
                              /\ h.seen = e.seen /\ h.status = e.status,
         \E a \in audits : a.heartbeat = r /\ a.actor = e.agent,
         e.type = "agent.status_changed" =>
           Announces(HeartbeatEvent(r), ProjectOf[AgentOf(r)])
  PROVE  DurableBeforeLive'
<1> DEFINE p == ProjectOf[AgentOf(r)]
           n == Len(channel[p])
<1>1. /\ p \in Projects
      /\ Len(channel'[p]) = n + 1 /\ channel'[p][n + 1] = e
      /\ \A i \in 1 .. n : channel'[p][i] = channel[p][i]
      /\ \A q \in Projects : q # p => channel'[q] = channel[q]
  BY PublishAppends
<1>2. \A q \in Projects : channel[q] \in Seq(Events) /\ channel'[q] \in Seq(Events)
  BY DEF TypeOK
<1> SUFFICES ASSUME NEW q \in Projects, NEW i \in DOMAIN channel'[q]
             PROVE  LET d == channel'[q][i] IN
                    /\ ProjectOf[d.agent] = q
                    /\ \E h \in heartbeats : /\ h.id = d.heartbeat /\ h.agent = d.agent
                                             /\ h.seen = d.seen /\ h.status = d.status
                    /\ \E a \in audits : a.heartbeat = d.heartbeat /\ a.actor = d.agent
                    /\ d.type = "agent.status_changed" =>
                         \E j \in 1 .. i - 1 : /\ channel'[q][j].type = "agent.heartbeat"
                                               /\ channel'[q][j].heartbeat = d.heartbeat
  BY DEF DurableBeforeLive
<1>3. CASE q = p /\ i = n + 1
  <2>1. e.type = "agent.status_changed" =>
          \E j \in 1 .. n : channel[p][j] = HeartbeatEvent(r)
    BY <1>1, <1>2 DEF Announces
  <2>2. e.type = "agent.status_changed" =>
          \E j \in 1 .. i - 1 : /\ channel'[p][j].type = "agent.heartbeat"
                                /\ channel'[p][j].heartbeat = r
    <3> SUFFICES ASSUME e.type = "agent.status_changed"
                 PROVE  \E j \in 1 .. i - 1 : /\ channel'[p][j].type = "agent.heartbeat"
                                              /\ channel'[p][j].heartbeat = r
      OBVIOUS
    <3>1. n \in Nat /\ i = n + 1
      BY <1>2, <1>3, <1>1
    <3>2. PICK j \in 1 .. n : channel[p][j] = HeartbeatEvent(r)
      BY <2>1
    <3>3. channel'[p][j] = HeartbeatEvent(r)
      BY <1>1, <3>2
    <3> HIDE DEF n
    <3>4. j \in 1 .. i - 1
      BY <3>1, <3>2
    <3> QED BY <3>3, <3>4 DEF HeartbeatEvent
  <2>3. channel'[q][i] = e /\ q = p
    BY <1>1, <1>3
  <2>4. e.heartbeat = r /\ e.agent = AgentOf(r) /\ ProjectOf[e.agent] = p
    OBVIOUS
  <2> HIDE DEF p, n
  <2> QED BY <2>2, <2>3, <2>4
<1>4. CASE ~(q = p /\ i = n + 1)
  <2>1. /\ i \in DOMAIN channel[q] /\ channel'[q][i] = channel[q][i]
        /\ \A j \in 1 .. i - 1 : channel'[q][j] = channel[q][j]
    <3>1. CASE q = p
      <4>1. /\ n \in Nat /\ DOMAIN channel[p] = 1 .. n /\ DOMAIN channel'[p] = 1 .. n + 1
        BY <1>1, <1>2
      <4>2. i \in 1 .. n
        BY <1>4, <3>1, <4>1
      <4> HIDE DEF n
      <4>3. \A j \in 1 .. i - 1 : j \in 1 .. n
        BY <4>1, <4>2
      <4> QED BY <1>1, <3>1, <4>1, <4>2, <4>3
    <3>2. CASE q # p
      <4>1. channel'[q] = channel[q]
        BY <1>1, <3>2
      <4> QED BY <4>1
    <3> QED BY <3>1, <3>2
  <2> QED BY <2>1 DEF DurableBeforeLive
<1> QED BY <1>3, <1>4

LEMMA LiveUnchanged ==
  ASSUME DurableBeforeLive, Grows, channel' = channel
  PROVE  DurableBeforeLive'
BY DEF DurableBeforeLive, Grows

(* The other parts: what a request has written stays written, so only the  *)
(* request that enters a phase has something to show.                      *)
LEMMA DurabilityKept ==
  ASSUME DurabilityInv, RowInv', Settled, PrevSettled, Grows, DurableBeforeLive',
         \A s \in Requests : phase'[s] \in Auditing =>
           phase[s] \in Auditing \/ AuditOf(s) \in audits',
         \A s \in Requests : phase'[s] \in Announcing =>
           \/ phase[s] \in Announcing
           \/ \E i \in DOMAIN channel'[ProjectOf[AgentOf(s)]] :
                channel'[ProjectOf[AgentOf(s)]][i] = HeartbeatEvent(s),
         \A s \in Requests : phase'[s] \in {"respond", "accepted"} =>
           \/ phase[s] \in {"respond", "accepted"}
           \/ prev[s] = msg[s].body.status
           \/ \E i \in DOMAIN channel'[ProjectOf[AgentOf(s)]] :
                channel'[ProjectOf[AgentOf(s)]][i] = StatusEvent(s),
         \A s \in Requests : phase'[s] \in Auditing => phase[s] \in Storing
  PROVE  DurabilityInv'
<1>1. /\ TypeOK /\ TypeOK'
      /\ \A s \in Requests : phase[s] \in Storing => AgentOf(s) \in Agents
  BY DEF DurabilityInv, RowInv, Typing, Identified, Parsing
<1>2. ASSUME NEW s \in Requests, phase[s] \in Storing
      PROVE  /\ msg'[s] = msg[s] /\ prev'[s] = prev[s]
             /\ AgentOf(s)' = AgentOf(s)
             /\ AuditOf(s)' = AuditOf(s)
             /\ HeartbeatEvent(s)' = HeartbeatEvent(s)
             /\ StatusEvent(s)' = StatusEvent(s)
             /\ ProjectOf[AgentOf(s)] \in Projects
  <2>1. msg'[s] = msg[s] /\ prev'[s] = prev[s]
    BY <1>2 DEF Settled, PrevSettled, Storing, Auditing, Announcing
  <2>2. ProjectOf[AgentOf(s)] \in Projects
    BY <1>1, <1>2, ConfigAssumption
  <2> QED BY <2>1, <2>2 DEF AgentOf, AuditOf, HeartbeatEvent, StatusEvent
<1>3. Audited'
  BY <1>2 DEF DurabilityInv, Audited, Grows
<1>4. HeartbeatAnnounced'
  <2> SUFFICES ASSUME NEW s \in Requests, phase'[s] \in Announcing
               PROVE  \E i \in DOMAIN channel'[ProjectOf[AgentOf(s)']] :
                        channel'[ProjectOf[AgentOf(s)']][i] = HeartbeatEvent(s)'
    BY DEF HeartbeatAnnounced, Announces
  <2>1. phase[s] \in Storing
    BY DEF Auditing
  <2> QED BY <1>1, <1>2, <2>1, AnnouncedStays DEF DurabilityInv, HeartbeatAnnounced
<1>5. ChangeAnnounced'
  <2> SUFFICES ASSUME NEW s \in Requests, phase'[s] \in {"respond", "accepted"},
                      prev'[s] # msg'[s].body.status
               PROVE  \E i \in DOMAIN channel'[ProjectOf[AgentOf(s)']] :
                        channel'[ProjectOf[AgentOf(s)']][i] = StatusEvent(s)'
    BY DEF ChangeAnnounced, Announces
  <2>1. phase[s] \in Storing
    BY DEF Auditing, Announcing
  <2> QED BY <1>1, <1>2, <2>1, AnnouncedStays DEF DurabilityInv, ChangeAnnounced
<1> QED BY <1>3, <1>4, <1>5 DEF DurabilityInv

LEMMA DurabilityInit == Init => DurabilityInv
BY RowInvInit DEF Init, DurabilityInv, Audited, HeartbeatAnnounced, ChangeAnnounced,
   DurableBeforeLive, Auditing, Announcing

LEMMA ExtendsSelf == TypeOK => \A p \in Projects : Extends(channel[p], channel[p])
BY DEF TypeOK, Extends

(* Where a handler stands past its INSERT, it has a row. *)
LEMMA HasRow ==
  ASSUME RowInv, NEW r \in Requests, phase[r] \in Storing
  PROVE  /\ AgentOf(r) \in Agents /\ msg[r].body \in Bodies
         /\ \E h \in heartbeats : /\ h.id = r /\ h.agent = AgentOf(r)
                                  /\ h.seen = msg[r].body.seen
                                  /\ h.status = msg[r].body.status
<1>1. Row(r) \in heartbeats
  BY DEF RowInv, RowWritten
<1>2. AgentOf(r) \in Agents /\ msg[r].body \in Bodies
  BY DEF RowInv, Typing, Identified, Parsed, Parsing
<1> QED BY <1>1, <1>2 DEF Row

LEMMA DurabilityNext == DurabilityInv /\ Serves => DurabilityInv'
<1> SUFFICES ASSUME DurabilityInv, Serves PROVE DurabilityInv'
  OBVIOUS
<1>0. /\ RowInv /\ RowInv' /\ Typing /\ TypeOK /\ TypeOK'
      /\ DurableBeforeLive
  BY RowInvNext DEF DurabilityInv, RowInv, Typing
<1> USE DEF Storing, Auditing, Announcing
<1>1. ASSUME NEW r \in Requests, NEW who \in Credentials, NEW b \in Bodies \cup {Malformed},
             Receive(r, who, b)
      PROVE  DurabilityInv'
  <2>2. /\ phase[r] = "unsent" /\ phase'[r] = "authenticate"
        /\ \A s \in Requests : s # r => phase'[s] = phase[s]
    BY <1>0, <1>1, StepMovesOne DEF Receive, Awaiting
  <2>3. Settled /\ PrevSettled
    BY <1>0, <1>1, <2>2 DEF TypeOK, Receive, Settled, PrevSettled
  <2>4. Grows /\ channel' = channel
    BY <1>0, <1>1, ExtendsSelf DEF Receive, Grows
  <2> QED BY <1>0, <2>2, <2>3, <2>4, LiveUnchanged, DurabilityKept
<1>2. ASSUME NEW r \in Requests, Handle(r) PROVE DurabilityInv'
  <2>1. CASE RecordAudit(r)
    <3>1. /\ phase[r] = "audit" /\ phase'[r] = "publish"
          /\ \A s \in Requests : s # r => phase'[s] = phase[s]
      BY <1>0, <2>1, StepMovesOne DEF RecordAudit, Awaiting
    <3>2. Grows /\ channel' = channel /\ Settled /\ PrevSettled /\ AuditOf(r) \in audits'
      BY <1>0, <2>1, ExtendsSelf DEF RecordAudit, Grows, Settled, PrevSettled
    <3> QED BY <1>0, <3>1, <3>2, LiveUnchanged, DurabilityKept
  <2>2. CASE PublishHeartbeat(r)
    <3>1. /\ phase[r] = "publish" /\ phase'[r] \in {"publishChange", "respond"}
          /\ phase'[r] = "respond" => prev[r] = msg[r].body.status
          /\ \A s \in Requests : s # r => phase'[s] = phase[s]
      BY <1>0, <2>2, StepMovesOne DEF PublishHeartbeat, Awaiting
    <3>2. AuditOf(r) \in audits
      BY <3>1 DEF DurabilityInv, Audited
    <3>3. HeartbeatEvent(r) \in Events /\ AgentOf(r) \in Agents
      BY <1>0, <3>1, HasRow, WritesTyped
    <3>4. DurableBeforeLive'
      <4>1. /\ HeartbeatEvent(r).type = "agent.heartbeat"
            /\ HeartbeatEvent(r).agent = AgentOf(r) /\ HeartbeatEvent(r).heartbeat = r
            /\ HeartbeatEvent(r).seen = msg[r].body.seen
            /\ HeartbeatEvent(r).status = msg[r].body.status
            /\ AuditOf(r).heartbeat = r /\ AuditOf(r).actor = AgentOf(r)
        BY DEF HeartbeatEvent, AuditOf
      <4> QED BY <1>0, <2>2, <3>1, <3>2, <3>3, <4>1, HasRow, LiveAfterPublish
              DEF PublishHeartbeat
    <3>5. Grows /\ Settled /\ PrevSettled
      BY <1>0, <2>2, <3>3, PublishGrows DEF PublishHeartbeat, Grows, Settled, PrevSettled
    <3>6. \E i \in DOMAIN channel'[ProjectOf[AgentOf(r)]] :
            channel'[ProjectOf[AgentOf(r)]][i] = HeartbeatEvent(r)
      <4> DEFINE p == ProjectOf[AgentOf(r)]
      <4>1. /\ p \in Projects
            /\ Len(channel'[p]) = Len(channel[p]) + 1
            /\ channel'[p][Len(channel[p]) + 1] = HeartbeatEvent(r)
        BY <1>0, <2>2, <3>3, PublishAppends DEF PublishHeartbeat
      <4>2. channel[p] \in Seq(Events) /\ channel'[p] \in Seq(Events)
        BY <1>0, <4>1 DEF TypeOK
      <4> QED BY <4>1, <4>2
    <3> QED BY <1>0, <3>1, <3>4, <3>5, <3>6, DurabilityKept
  <2>3. CASE PublishStatusChange(r)
    <3>1. /\ phase[r] = "publishChange" /\ phase'[r] = "respond"
          /\ \A s \in Requests : s # r => phase'[s] = phase[s]
      BY <1>0, <2>3, StepMovesOne DEF PublishStatusChange, Awaiting
    <3>2. /\ AuditOf(r) \in audits
          /\ Announces(HeartbeatEvent(r), ProjectOf[AgentOf(r)])
      BY <3>1 DEF DurabilityInv, Audited, HeartbeatAnnounced
    <3>3. StatusEvent(r) \in Events /\ AgentOf(r) \in Agents
      BY <1>0, <3>1, HasRow, WritesTyped
    <3>4. DurableBeforeLive'
      <4>1. /\ StatusEvent(r).agent = AgentOf(r) /\ StatusEvent(r).heartbeat = r
            /\ StatusEvent(r).seen = msg[r].body.seen
            /\ StatusEvent(r).status = msg[r].body.status
            /\ AuditOf(r).heartbeat = r /\ AuditOf(r).actor = AgentOf(r)
        BY DEF StatusEvent, AuditOf
      <4> QED BY <1>0, <2>3, <3>1, <3>2, <3>3, <4>1, HasRow, LiveAfterPublish
              DEF PublishStatusChange
    <3>5. Grows /\ Settled /\ PrevSettled
      BY <1>0, <2>3, <3>3, PublishGrows DEF PublishStatusChange, Grows, Settled, PrevSettled
    <3>6. \E i \in DOMAIN channel'[ProjectOf[AgentOf(r)]] :
            channel'[ProjectOf[AgentOf(r)]][i] = StatusEvent(r)
      <4> DEFINE p == ProjectOf[AgentOf(r)]
      <4>1. /\ p \in Projects
            /\ Len(channel'[p]) = Len(channel[p]) + 1
            /\ channel'[p][Len(channel[p]) + 1] = StatusEvent(r)
        BY <1>0, <2>3, <3>3, PublishAppends DEF PublishStatusChange
      <4>2. channel[p] \in Seq(Events) /\ channel'[p] \in Seq(Events)
        BY <1>0, <4>1 DEF TypeOK
      <4> QED BY <4>1, <4>2
    <3> QED BY <1>0, <3>1, <3>4, <3>5, <3>6, DurabilityKept
  <2>4. CASE \/ AuthenticateAgent(r) \/ ParseHeartbeat(r) \/ ReadStatus(r)
             \/ InsertHeartbeat(r) \/ RejectReplay(r) \/ UpdateMachine(r) \/ Respond(r)
    <3>1. /\ heartbeats \subseteq heartbeats' /\ audits' = audits /\ channel' = channel
          /\ msg' = msg
          /\ prev' = prev \/ (phase[r] = "readStatus" /\ ReadStatus(r))
      BY <2>4 DEF AuthenticateAgent, ParseHeartbeat, ReadStatus, InsertHeartbeat,
         RejectReplay, UpdateMachine, Respond, Step
    <3>2. PICK to \in Awaiting \cup Answers :
            /\ Step(r, phase[r], to)
            /\ to \in Auditing => to = "accepted" /\ phase[r] = "respond"
      BY <2>4 DEF AuthenticateAgent, ParseHeartbeat, ReadStatus, InsertHeartbeat,
         RejectReplay, UpdateMachine, Respond, Step, Awaiting, Answers
    <3>3. phase'[r] = to /\ \A s \in Requests : s # r => phase'[s] = phase[s]
      BY <1>0, <3>2, StepMovesOne
    <3>4. Grows /\ Settled
      BY <1>0, <3>1, ExtendsSelf DEF Grows, Settled
    <3>5. PrevSettled
      BY <1>0, <3>1 DEF PrevSettled, ReadStatus, TypeOK
    <3> QED BY <1>0, <3>1, <3>2, <3>3, <3>4, <3>5, LiveUnchanged, DurabilityKept
  <2> QED BY <1>2, <2>1, <2>2, <2>3, <2>4 DEF Handle
<1>3. ASSUME NEW r \in Requests, Fail(r) \/ Abort(r) PROVE DurabilityInv'
  <2>1. PICK to \in {"failed", "aborted"} : Step(r, phase[r], to)
    BY <1>3 DEF Fail, Abort, Step
  <2>2. phase'[r] = to /\ \A s \in Requests : s # r => phase'[s] = phase[s]
    BY <1>0, <2>1, StepMovesOne DEF Answers
  <2>3. Grows /\ channel' = channel /\ Settled /\ PrevSettled
    BY <1>0, <1>3, ExtendsSelf DEF Fail, Abort, Grows, Settled, PrevSettled
  <2> QED BY <1>0, <2>2, <2>3, LiveUnchanged, DurabilityKept
<1>4. CASE (\E a \in Agents : Revoke(a)) \/ Tick \/ UNCHANGED vars
  <2>1. Grows /\ channel' = channel /\ phase' = phase /\ Settled /\ PrevSettled
    BY <1>0, <1>4, ExtendsSelf DEF Revoke, Tick, vars, Grows, Settled, PrevSettled
  <2> QED BY <1>0, <2>1, LiveUnchanged, DurabilityKept
<1> QED
  BY <1>1, <1>2, <1>3, <1>4 DEF Serves

LEMMA DurabilityImplies == DurabilityInv => AcceptedIsDurable /\ DurableBeforeLive
BY DEF DurabilityInv, RowInv, RowWritten, Audited, HeartbeatAnnounced, ChangeAnnounced,
   AcceptedIsDurable, Storing, Auditing, Announcing

(* A 202 means that the row, the audit event, the live event and, when the *)
(* status read differs, the change event are all there.                    *)
THEOREM AcceptanceIsDurable == Spec => []AcceptedIsDurable
BY DurabilityImplies, DurabilityInit, DurabilityNext, NextServes, PTL DEF Spec

(* Nothing is announced live, on any channel but that of the agent's own   *)
(* project, before its row and its audit event are stored.                 *)
THEOREM NothingLiveBeforeDurable == Spec => []DurableBeforeLive
BY DurabilityImplies, DurabilityInit, DurabilityNext, NextServes, PTL DEF Spec

-----------------------------------------------------------------------------
(* The audit trail, and that nothing is announced twice.  Both are about   *)
(* what is stored, so the invariant says of every audit event and of every *)
(* live event which request wrote it and how far that request has come.    *)

Stopped == {"failed", "aborted"}

AuditOrigins ==
  \A a \in audits :
    /\ a.heartbeat \in Requests /\ a = AuditOf(a.heartbeat)
    /\ Row(a.heartbeat) \in heartbeats
    /\ phase[a.heartbeat] \in Auditing \cup Stopped

(* The phases a request can be in once its event of a type is out.         *)
Since(type) ==
  IF type = "agent.heartbeat" THEN Announcing \cup Stopped
                              ELSE {"respond", "accepted"} \cup Stopped

EventOrigins ==
  \A p \in Projects : \A i \in DOMAIN channel[p] :
    /\ channel[p][i].heartbeat \in Requests
    /\ phase[channel[p][i].heartbeat] \in Since(channel[p][i].type)

(* A request publishes one event of each type at most, on one channel.     *)
OncePerRequest ==
  \A p, q \in Projects : \A i \in DOMAIN channel[p], j \in DOMAIN channel[q] :
    channel[p][i].heartbeat = channel[q][j].heartbeat /\ channel[p][i].type = channel[q][j].type =>
      p = q /\ i = j

TrailInv == DurabilityInv /\ AuditOrigins /\ EventOrigins /\ OncePerRequest

LEMMA TrailInit == Init => TrailInv
BY DurabilityInit DEF Init, TrailInv, AuditOrigins, EventOrigins, OncePerRequest

(* A step that writes neither an audit event nor a live event.             *)
LEMMA TrailKept ==
  ASSUME TrailInv, DurabilityInv', Settled, heartbeats \subseteq heartbeats',
         audits' = audits, channel' = channel,
         \A s \in Requests : phase[s] \in Auditing => phase'[s] \in Auditing \cup Stopped,
         \A s \in Requests : \/ phase'[s] = phase[s]
                             \/ phase[s] \in Announcing => phase'[s] \in {"accepted"} \cup Stopped,
         \A s \in Requests : phase[s] \in Stopped => phase'[s] \in Stopped
  PROVE  TrailInv'
<1> USE DEF Auditing, Announcing, Stopped
<1>1. AuditOrigins'
  <2> SUFFICES ASSUME NEW a \in audits
               PROVE  /\ a.heartbeat \in Requests /\ a = AuditOf(a.heartbeat)'
                      /\ Row(a.heartbeat)' \in heartbeats'
                      /\ phase'[a.heartbeat] \in Auditing \cup Stopped
    BY DEF AuditOrigins
  <2>1. /\ a.heartbeat \in Requests /\ a = AuditOf(a.heartbeat)
        /\ Row(a.heartbeat) \in heartbeats
        /\ phase[a.heartbeat] \in Auditing \cup Stopped
    BY DEF TrailInv, AuditOrigins
  <2>2. msg'[a.heartbeat] = msg[a.heartbeat]
    BY <2>1 DEF Settled
  <2> QED BY <2>1, <2>2 DEF AuditOf, Row, AgentOf
<1>2. EventOrigins'
  BY DEF TrailInv, EventOrigins, Since
<1>3. OncePerRequest'
  BY DEF TrailInv, OncePerRequest
<1> QED BY <1>1, <1>2, <1>3 DEF TrailInv

(* A request publishes an event of a type it has not published before.     *)
LEMMA TrailPublishes ==
  ASSUME TrailInv, DurabilityInv', NEW r \in Requests, NEW e \in Events,
         AgentOf(r) \in Agents, Publish(r, e), e.heartbeat = r,
         heartbeats' = heartbeats, audits' = audits, msg' = msg,
         phase[r] \in Auditing, phase[r] \notin Since(e.type),
         phase'[r] \in Since(e.type) \cap Announcing,
         \A type \in {"agent.heartbeat", "agent.status_changed"} :
           phase[r] \in Since(type) => phase'[r] \in Since(type),
         \A s \in Requests : s # r => phase'[s] = phase[s]
  PROVE  TrailInv'
<1> DEFINE p == ProjectOf[AgentOf(r)]
           n == Len(channel[p])
<1>1. /\ p \in Projects
      /\ Len(channel'[p]) = n + 1 /\ channel'[p][n + 1] = e
      /\ \A i \in 1 .. n : channel'[p][i] = channel[p][i]
      /\ \A q \in Projects : q # p => channel'[q] = channel[q]
  BY PublishAppends DEF TrailInv, DurabilityInv, RowInv, Typing
<1>2. \A q \in Projects : channel[q] \in Seq(Events) /\ channel'[q] \in Seq(Events)
  BY DEF TrailInv, DurabilityInv, RowInv, Typing, TypeOK
<1>3. \A q \in Projects : \A i \in DOMAIN channel'[q] :
        \/ q = p /\ i = n + 1
        \/ i \in DOMAIN channel[q] /\ channel'[q][i] = channel[q][i]
  BY <1>1, <1>2
<1>4. \A q \in Projects : \A i \in DOMAIN channel[q] :
        /\ channel[q][i].heartbeat \in Requests
        /\ channel[q][i].type \in {"agent.heartbeat", "agent.status_changed"}
        /\ phase[channel[q][i].heartbeat] \in Since(channel[q][i].type)
  <2>1. \A d \in Events : d.type \in {"agent.heartbeat", "agent.status_changed"}
    BY DEF Events
  <2> QED BY <1>2, <2>1 DEF TrailInv, EventOrigins
<1>5. AuditOrigins'
  BY DEF TrailInv, AuditOrigins, Auditing, Announcing, AuditOf, Row, AgentOf
<1>6. EventOrigins'
  BY <1>1, <1>3, <1>4 DEF EventOrigins
<1>7. OncePerRequest'
  <2> SUFFICES ASSUME NEW q1 \in Projects, NEW q2 \in Projects,
                      NEW i1 \in DOMAIN channel'[q1], NEW i2 \in DOMAIN channel'[q2],
                      channel'[q1][i1].heartbeat = channel'[q2][i2].heartbeat,
                      channel'[q1][i1].type = channel'[q2][i2].type
               PROVE  q1 = q2 /\ i1 = i2
    BY DEF OncePerRequest
  <2>1. \A q \in Projects : \A i \in DOMAIN channel[q] :
          ~(channel[q][i].heartbeat = r /\ channel[q][i].type = e.type)
    BY <1>4
  <2>2. CASE i1 \in DOMAIN channel[q1] /\ channel'[q1][i1] = channel[q1][i1]
    <3>1. ~(q2 = p /\ i2 = n + 1)
      BY <1>1, <2>1, <2>2
    <3> QED BY <1>3, <2>2, <3>1 DEF TrailInv, OncePerRequest
  <2>3. CASE q1 = p /\ i1 = n + 1
    <3>1. ~(i2 \in DOMAIN channel[q2] /\ channel'[q2][i2] = channel[q2][i2])
      BY <1>1, <2>1, <2>3
    <3> QED BY <1>3, <2>3, <3>1
  <2> QED BY <1>3, <2>2, <2>3
<1> QED BY <1>5, <1>6, <1>7 DEF TrailInv

LEMMA TrailNext == TrailInv /\ Serves => TrailInv'
<1> SUFFICES ASSUME TrailInv, Serves PROVE TrailInv'
  OBVIOUS
<1>0. DurabilityInv /\ DurabilityInv' /\ RowInv /\ Typing /\ TypeOK
  BY DurabilityNext DEF TrailInv, DurabilityInv, RowInv, Typing
<1> USE DEF Auditing, Announcing, Stopped
<1>1. ASSUME NEW r \in Requests, NEW who \in Credentials, NEW b \in Bodies \cup {Malformed},
             Receive(r, who, b)
      PROVE  TrailInv'
  <2>1. /\ phase[r] = "unsent" /\ phase'[r] = "authenticate"
        /\ \A s \in Requests : s # r => phase'[s] = phase[s]
    BY <1>0, <1>1, StepMovesOne DEF Receive, Awaiting
  <2>2. Settled /\ heartbeats' = heartbeats /\ audits' = audits /\ channel' = channel
    BY <1>0, <1>1, <2>1 DEF TypeOK, Receive, Settled
  <2> QED BY <1>0, <2>1, <2>2, TrailKept
<1>2. ASSUME NEW r \in Requests, Handle(r) PROVE TrailInv'
  <2>1. CASE RecordAudit(r)
    <3>1. /\ phase[r] = "audit" /\ phase'[r] = "publish"
          /\ \A s \in Requests : s # r => phase'[s] = phase[s]
          /\ audits' = audits \cup {AuditOf(r)}
          /\ heartbeats' = heartbeats /\ msg' = msg /\ channel' = channel
      BY <1>0, <2>1, StepMovesOne DEF RecordAudit, Awaiting
    <3>2. Row(r) \in heartbeats /\ AuditOf(r).heartbeat = r
      BY <1>0, <3>1 DEF RowInv, RowWritten, Storing, AuditOf
    <3>3. \A s \in Requests : AuditOf(s)' = AuditOf(s) /\ Row(s)' = Row(s)
      BY <3>1 DEF AuditOf, Row, AgentOf
    <3>4. AuditOrigins'
      <4>1. \A a \in audits' : a.heartbeat \in Requests
        BY <3>1, <3>2 DEF TrailInv, AuditOrigins
      <4>2. \A a \in audits' : a = AuditOf(a.heartbeat) /\ Row(a.heartbeat) \in heartbeats
        BY <3>1, <3>2 DEF TrailInv, AuditOrigins
      <4>3. \A a \in audits' : phase'[a.heartbeat] \in Auditing \cup Stopped
        BY <3>1, <3>2 DEF TrailInv, AuditOrigins
      <4> QED BY <3>1, <3>3, <4>1, <4>2, <4>3 DEF AuditOrigins
    <3>5. EventOrigins'
      BY <3>1 DEF TrailInv, EventOrigins, Since
    <3>6. OncePerRequest'
      BY <3>1 DEF TrailInv, OncePerRequest
    <3> QED BY <1>0, <3>4, <3>5, <3>6 DEF TrailInv
  <2>2. CASE PublishHeartbeat(r)
    <3>1. /\ phase[r] = "publish" /\ phase'[r] \in {"publishChange", "respond"}
          /\ \A s \in Requests : s # r => phase'[s] = phase[s]
          /\ heartbeats' = heartbeats /\ audits' = audits /\ msg' = msg
          /\ Publish(r, HeartbeatEvent(r))
      BY <1>0, <2>2, StepMovesOne DEF PublishHeartbeat, Awaiting
    <3>2. HeartbeatEvent(r) \in Events /\ AgentOf(r) \in Agents
      BY <1>0, <3>1, HasRow, WritesTyped DEF Storing
    <3>3. HeartbeatEvent(r).heartbeat = r /\ HeartbeatEvent(r).type = "agent.heartbeat"
      BY DEF HeartbeatEvent
    <3> QED BY <1>0, <3>1, <3>2, <3>3, TrailPublishes DEF Since
  <2>3. CASE PublishStatusChange(r)
    <3>1. /\ phase[r] = "publishChange" /\ phase'[r] = "respond"
          /\ \A s \in Requests : s # r => phase'[s] = phase[s]
          /\ heartbeats' = heartbeats /\ audits' = audits /\ msg' = msg
          /\ Publish(r, StatusEvent(r))
      BY <1>0, <2>3, StepMovesOne DEF PublishStatusChange, Awaiting
    <3>2. StatusEvent(r) \in Events /\ AgentOf(r) \in Agents
      BY <1>0, <3>1, HasRow, WritesTyped DEF Storing
    <3>3. StatusEvent(r).heartbeat = r /\ StatusEvent(r).type = "agent.status_changed"
      BY DEF StatusEvent
    <3> QED BY <1>0, <3>1, <3>2, <3>3, TrailPublishes DEF Since
  <2>4. CASE \/ AuthenticateAgent(r) \/ ParseHeartbeat(r) \/ ReadStatus(r)
             \/ InsertHeartbeat(r) \/ RejectReplay(r) \/ UpdateMachine(r) \/ Respond(r)
    <3>1. /\ heartbeats \subseteq heartbeats' /\ audits' = audits /\ channel' = channel
          /\ Settled
      BY <2>4 DEF AuthenticateAgent, ParseHeartbeat, ReadStatus, InsertHeartbeat,
         RejectReplay, UpdateMachine, Respond, Settled
    <3>2. PICK to \in Awaiting \cup Answers :
            /\ Step(r, phase[r], to)
            /\ phase[r] \notin Stopped
            /\ phase[r] \in Auditing => to = "accepted"
      BY <2>4 DEF AuthenticateAgent, ParseHeartbeat, ReadStatus, InsertHeartbeat,
         RejectReplay, UpdateMachine, Respond, Step, Awaiting, Answers
    <3>3. phase'[r] = to /\ \A s \in Requests : s # r => phase'[s] = phase[s]
      BY <1>0, <3>2, StepMovesOne
    <3> QED BY <1>0, <3>1, <3>2, <3>3, TrailKept
  <2> QED BY <1>2, <2>1, <2>2, <2>3, <2>4 DEF Handle
<1>3. ASSUME NEW r \in Requests, Fail(r) \/ Abort(r) PROVE TrailInv'
  <2>1. PICK to \in Stopped : Step(r, phase[r], to)
    BY <1>3 DEF Fail, Abort, Step
  <2>2. phase'[r] = to /\ \A s \in Requests : s # r => phase'[s] = phase[s]
    BY <1>0, <2>1, StepMovesOne DEF Answers
  <2>3. /\ heartbeats' = heartbeats /\ audits' = audits /\ channel' = channel
        /\ Settled
    BY <1>3 DEF Fail, Abort, Settled
  <2> QED BY <1>0, <2>2, <2>3, TrailKept
<1>4. CASE (\E a \in Agents : Revoke(a)) \/ Tick \/ UNCHANGED vars
  <2>1. /\ heartbeats' = heartbeats /\ audits' = audits /\ channel' = channel
        /\ phase' = phase /\ Settled
    BY <1>4 DEF Revoke, Tick, vars, Settled
  <2> QED BY <1>0, <2>1, TrailKept
<1> QED
  BY <1>1, <1>2, <1>3, <1>4 DEF Serves

LEMMA TrailImplies == TrailInv => AuditTrail
<1> SUFFICES ASSUME TrailInv PROVE AuditTrail
  OBVIOUS
<1>1. ASSUME NEW a \in audits
      PROVE  \E h \in heartbeats : /\ h.id = a.heartbeat /\ h.agent = a.actor
                                   /\ h.seen = a.occurred /\ h.status = a.status
  <2> DEFINE r == a.heartbeat
  <2>1. Row(r) \in heartbeats /\ a = AuditOf(r)
    BY DEF TrailInv, AuditOrigins
  <2>2. /\ Row(r).id = a.heartbeat /\ Row(r).agent = a.actor
        /\ Row(r).seen = a.occurred /\ Row(r).status = a.status
    BY <2>1 DEF AuditOf, Row
  <2> QED BY <2>1, <2>2
<1>2. \A a, b \in audits : a.heartbeat = b.heartbeat => a = b
  BY DEF TrailInv, AuditOrigins
<1>3. ASSUME NEW h \in heartbeats
      PROVE  \/ \E a \in audits : a.heartbeat = h.id
             \/ phase[h.id] \in {"update", "audit", "failed", "aborted"}
  <2>1. h.id \in Requests /\ phase[h.id] \in Written
    BY DEF TrailInv, DurabilityInv, RowInv, RowsOwned
  <2>2. phase[h.id] \in Auditing => AuditOf(h.id) \in audits
    BY <2>1 DEF TrailInv, DurabilityInv, Audited
  <2> QED BY <2>1, <2>2 DEF Written, Storing, AuditOf
<1> QED BY <1>1, <1>2, <1>3 DEF AuditTrail

(* The audit events are exactly those of stored heartbeats, one for each,  *)
(* and a heartbeat lacks its own only while its handler is between the two *)
(* INSERTs or when it never got to the second.                             *)
THEOREM HistoryIsAudited == Spec => []AuditTrail
BY TrailImplies, TrailInit, TrailNext, NextServes, PTL DEF Spec

(* Of the requests that carry one nonce of one agent only the one that     *)
(* stored the row has events.                                              *)
LEMMA OnceImplies == TrailInv => AnnouncedOnce
<1> SUFFICES ASSUME TrailInv, NEW p \in Projects,
                    NEW i \in DOMAIN channel[p], NEW j \in DOMAIN channel[p],
                    channel[p][i].type = channel[p][j].type,
                    SameClaim(channel[p][i].heartbeat, channel[p][j].heartbeat)
             PROVE  i = j
  BY DEF AnnouncedOnce
<1> DEFINE r == channel[p][i].heartbeat
           s == channel[p][j].heartbeat
<1>1. ASSUME NEW k \in DOMAIN channel[p]
      PROVE  Row(channel[p][k].heartbeat) \in heartbeats
  <2>1. PICK h \in heartbeats : h.id = channel[p][k].heartbeat
    BY DEF TrailInv, DurabilityInv, DurableBeforeLive
  <2> QED BY <2>1 DEF TrailInv, DurabilityInv, RowInv, RowsOwned
<1>2. Row(r) \in heartbeats /\ Row(s) \in heartbeats
  BY <1>1
<1>3. Row(r).agent = Row(s).agent /\ Row(r).nonce = Row(s).nonce
  BY DEF SameClaim, Row
<1>4. Row(r) = Row(s)
  BY <1>2, <1>3 DEF TrailInv, DurabilityInv, RowInv, OneRowPerClaim
<1>5. r = s
  BY <1>4 DEF Row
<1> QED BY <1>5 DEF TrailInv, OncePerRequest

(* However many requests retry a heartbeat, and wherever they overlap, it  *)
(* is announced once, and so is the change of status it made.              *)
THEOREM NothingAnnouncedTwice == Spec => []AnnouncedOnce
BY OnceImplies, TrailInit, TrailNext, NextServes, PTL DEF Spec

=============================================================================

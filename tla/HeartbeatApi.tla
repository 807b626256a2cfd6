---------------------------- MODULE HeartbeatApi ----------------------------
(***************************************************************************)
(* POST /api/agents/:id/heartbeat, the handler every connector talks to.   *)
(*                                                                         *)
(* The Worker serves any number of requests at once.  A request gives up   *)
(* control at every await, so each D1 statement and each call of the       *)
(* project's Durable Object is one action here, and the phase of a request *)
(* names the await it stands at.  Nothing groups the statements: there is  *)
(* no D1 batch and no transaction, so any statement may be the last one a  *)
(* request executes.                                                       *)
(*                                                                         *)
(* An agent stands for its row of agents together with the one row of      *)
(* machines that createAgent made for it.  A request's name also serves as *)
(* the fresh random id of the heartbeat row it may insert.                 *)
(***************************************************************************)
EXTENDS Naturals, Sequences

CONSTANTS
  Agents,        (* Registered agents.                                      *)
  Writers,       (* Those whose scopes_json includes heartbeat:write.       *)
  Projects,
  ProjectOf,     (* The project that owns an agent's machine.               *)
  Nonces,
  Statuses,      (* The statuses heartbeats carry in an instance.           *)
  Requests,      (* Heartbeat requests that may reach the Worker.           *)
  Presented,     (* The credentials they present and the paths they name.   *)
  NoAgent,       (* What a missing or an unknown credential resolves to.    *)
  Malformed,     (* A body that readJson or parseHeartbeat rejects whatever *)
                 (* the time: not JSON, too large, a field missing.         *)
  MaxAge,        (* HEARTBEAT_MAX_AGE_MS, in ticks of the clock.            *)
  FutureSkew,    (* HEARTBEAT_FUTURE_SKEW_MS, in ticks of the clock.        *)
  MaxClock       (* Bound on the clock, and on the times bodies carry.      *)

ASSUME ConfigAssumption ==
  /\ Writers \subseteq Agents
  /\ NoAgent \notin Agents
  /\ ProjectOf \in [Agents -> Projects]
  /\ Statuses \subseteq {"online", "offline", "degraded"}
  /\ Presented \subseteq [credential : Agents \cup {NoAgent}, path : Agents \cup {NoAgent}]
  /\ MaxAge \in Nat /\ FutureSkew \in Nat /\ MaxClock \in Nat \ {0}

VARIABLES
  clock,         (* Date.now() of the Worker.                               *)
  heartbeats,    (* D1: rows of heartbeats.                                 *)
  machines,      (* D1: status and last_seen_at of each agent's machine.    *)
  audits,        (* D1: the agent.heartbeat rows of audit_events.           *)
  revoked,       (* D1: agents whose revoked_at is set.                     *)
  channel,       (* What each project's event channel was handed, in order. *)
  phase,         (* Where each request is, or how it was answered.          *)
  msg,           (* What each request carries.                              *)
  prev           (* previousStatus, as recordHeartbeat read it.             *)

vars == <<clock, heartbeats, machines, audits, revoked, channel, phase, msg, prev>>

-----------------------------------------------------------------------------
(* Data. *)

Times == 1 .. MaxClock

Never == 0                 (* last_seen_at IS NULL. *)

MachineStatuses == {"online", "offline", "degraded", "unknown"}

(* HeartbeatInput, once parsed. *)
Bodies == [nonce : Nonces, seen : Times, status : Statuses]

ASSUME MalformedAssumption == Malformed \notin Bodies

(* A request before it is sent carries nothing. *)
Unsent == [credential |-> NoAgent, path |-> NoAgent, body |-> Malformed]

Messages == [credential : Agents \cup {NoAgent},
             path       : Agents \cup {NoAgent},
             body       : Bodies \cup {Malformed}]

(* The awaits of the handler, in the order it reaches them. *)
Awaiting == {"authenticate", "parse", "readStatus", "insert", "update", "audit",
             "publish", "publishChange", "respond"}

(* 202; 409; 401 or 403; 400 or 413; 500; and no answer at all. *)
Answers == {"accepted", "replayed", "denied", "invalid", "failed", "aborted"}

AgentOf(r) == msg[r].credential

(* The rows and the events request r writes, when it gets that far. *)
Row(r) == [id     |-> r,
           agent  |-> AgentOf(r),
           nonce  |-> msg[r].body.nonce,
           seen   |-> msg[r].body.seen,
           status |-> msg[r].body.status]

AuditOf(r) == [heartbeat |-> r,
               actor     |-> AgentOf(r),
               occurred  |-> msg[r].body.seen,
               status    |-> msg[r].body.status]

HeartbeatEvent(r) == [type     |-> "agent.heartbeat",
                      heartbeat |-> r,
                      agent    |-> AgentOf(r),
                      seen     |-> msg[r].body.seen,
                      status   |-> msg[r].body.status]

StatusEvent(r) == [type      |-> "agent.status_changed",
                   heartbeat |-> r,
                   agent     |-> AgentOf(r),
                   seen      |-> msg[r].body.seen,
                   status    |-> msg[r].body.status,
                   previous  |-> prev[r]]

-----------------------------------------------------------------------------
(* Init, and the handler, one await at a time. *)

Init ==
  /\ clock = 1
  /\ heartbeats = {}
  /\ machines = [a \in Agents |-> [status |-> "unknown", seen |-> Never]]
  /\ audits = {}
  /\ revoked = {}
  /\ channel = [p \in Projects |-> <<>>]
  /\ phase = [r \in Requests |-> "unsent"]
  /\ msg = [r \in Requests |-> Unsent]
  /\ prev = [r \in Requests |-> "unknown"]

Step(r, from, to) == phase[r] = from /\ phase' = [phase EXCEPT ![r] = to]

Receive(r, who, b) ==
  /\ Step(r, "unsent", "authenticate")
  /\ msg' = [msg EXCEPT ![r] = [credential |-> who.credential, path |-> who.path, body |-> b]]
  /\ UNCHANGED <<clock, heartbeats, machines, audits, revoked, channel, prev>>

Authentic_evenRevoked(r) ==           \* mutant: no "revoked_at IS NULL"
  /\ AgentOf(r) \in Agents
  /\ AgentOf(r) = msg[r].path
  /\ AgentOf(r) \in Writers

(* The credential is known and not revoked, owns the agent named in the    *)
(* path, and may write heartbeats.                                         *)
Authentic(r) ==
  /\ AgentOf(r) \in Agents \ revoked
  /\ AgentOf(r) = msg[r].path
  /\ AgentOf(r) \in Writers

AuthenticateAgent(r) ==
  /\ Step(r, "authenticate", IF Authentic(r) THEN "parse" ELSE "denied")
  /\ UNCHANGED <<clock, heartbeats, machines, audits, revoked, channel, msg, prev>>

(* The body is well formed and observed within the window around now. *)
Acceptable_future(b) ==                \* mutant: no future_heartbeat check
  b # Malformed /\ b.seen + MaxAge >= clock

Acceptable(b) ==
  /\ b # Malformed
  /\ b.seen + MaxAge >= clock
  /\ b.seen <= clock + FutureSkew

ParseHeartbeat(r) ==
  /\ Step(r, "parse", IF Acceptable(msg[r].body) THEN "readStatus" ELSE "invalid")
  /\ UNCHANGED <<clock, heartbeats, machines, audits, revoked, channel, msg, prev>>

(* recordHeartbeat: SELECT, INSERT, UPDATE. *)
ReadStatus(r) ==
  /\ Step(r, "readStatus", "insert")
  /\ prev' = [prev EXCEPT ![r] = machines[AgentOf(r)].status]
  /\ UNCHANGED <<clock, heartbeats, machines, audits, revoked, channel, msg>>

(* UNIQUE (agent_id, nonce). *)
NonceUsed(r) ==
  \E h \in heartbeats : h.agent = AgentOf(r) /\ h.nonce = msg[r].body.nonce

Insert_withoutIndex(r) ==              \* mutant: the index is missing
  /\ Step(r, "insert", "update")
  /\ heartbeats' = heartbeats \cup {Row(r)}
  /\ UNCHANGED <<clock, machines, audits, revoked, channel, msg, prev>>

Insert_orIgnore(r) ==                  \* mutant: INSERT OR IGNORE
  /\ Step(r, "insert", "update")
  /\ heartbeats' = IF NonceUsed(r) THEN heartbeats ELSE heartbeats \cup {Row(r)}
  /\ UNCHANGED <<clock, machines, audits, revoked, channel, msg, prev>>

InsertHeartbeat(r) ==
  /\ Step(r, "insert", "update")
  /\ ~NonceUsed(r)
  /\ heartbeats' = heartbeats \cup {Row(r)}
  /\ UNCHANGED <<clock, machines, audits, revoked, channel, msg, prev>>

Reject_retries(r) ==                   \* mutant: the conflict is retried
  /\ Step(r, "insert", "readStatus")
  /\ NonceUsed(r)
  /\ UNCHANGED <<clock, heartbeats, machines, audits, revoked, channel, msg, prev>>

RejectReplay(r) ==
  /\ Step(r, "insert", "replayed")
  /\ NonceUsed(r)
  /\ UNCHANGED <<clock, heartbeats, machines, audits, revoked, channel, msg, prev>>

Latest_stale(b) ==                     \* mutant: the dashboard's derived state is stored
  [status |-> IF b.seen < clock THEN "stale" ELSE b.status, seen |-> b.seen]
Latest_serverTime(b) == [status |-> b.status, seen |-> clock]
                                       \* mutant: last_seen_at is the time of arrival
Latest(b) == [status |-> b.status, seen |-> b.seen]

Update_unaudited(r) ==                 \* mutant: the audit INSERT is skipped
  /\ Step(r, "update", "publish")
  /\ machines' = [machines EXCEPT ![AgentOf(r)] = Latest(msg[r].body)]
  /\ UNCHANGED <<clock, heartbeats, audits, revoked, channel, msg, prev>>

UpdateMachine(r) ==
  /\ Step(r, "update", "audit")
  /\ machines' = [machines EXCEPT ![AgentOf(r)] = Latest(msg[r].body)]
  /\ UNCHANGED <<clock, heartbeats, audits, revoked, channel, msg, prev>>

Publish(r, event) ==
  channel' = [channel EXCEPT ![ProjectOf[AgentOf(r)]] = Append(@, event)]

Audit_afterEvent(r) ==                 \* mutant: published before it is audited
  /\ Step(r, "audit", "publish")
  /\ Publish(r, HeartbeatEvent(r))
  /\ UNCHANGED <<clock, heartbeats, machines, audits, revoked, msg, prev>>

RecordAudit(r) ==
  /\ Step(r, "audit", "publish")
  /\ audits' = audits \cup {AuditOf(r)}
  /\ UNCHANGED <<clock, heartbeats, machines, revoked, channel, msg, prev>>

Publish_always(r) ==                   \* mutant: the change is announced unchanged, too
  /\ Step(r, "publish", "publishChange")
  /\ Publish(r, HeartbeatEvent(r))
  /\ UNCHANGED <<clock, heartbeats, machines, audits, revoked, msg, prev>>

PublishHeartbeat(r) ==
  /\ Step(r, "publish", IF prev[r] # msg[r].body.status THEN "publishChange"
                                                        ELSE "respond")
  /\ Publish(r, HeartbeatEvent(r))
  /\ UNCHANGED <<clock, heartbeats, machines, audits, revoked, msg, prev>>

PublishStatusChange(r) ==
  /\ Step(r, "publishChange", "respond")
  /\ Publish(r, StatusEvent(r))
  /\ UNCHANGED <<clock, heartbeats, machines, audits, revoked, msg, prev>>

Respond(r) ==
  /\ Step(r, "respond", "accepted")
  /\ UNCHANGED <<clock, heartbeats, machines, audits, revoked, channel, msg, prev>>

(* An await rejects for a reason other than the unique index: D1 or the    *)
(* Durable Object is unavailable, or its answer is lost after it took      *)
(* effect (the request then stands at the next phase).  The outer catch    *)
(* answers 500; what was written stays.                                    *)
Fail(r) ==
  /\ phase[r] \in Awaiting
  /\ phase' = [phase EXCEPT ![r] = "failed"]
  /\ UNCHANGED <<clock, heartbeats, machines, audits, revoked, channel, msg, prev>>

(* The isolate is evicted, or the client hangs up and the runtime cancels  *)
(* the handler: no answer, and again what was written stays.               *)
Abort(r) ==
  /\ phase[r] \in Awaiting
  /\ phase' = [phase EXCEPT ![r] = "aborted"]
  /\ UNCHANGED <<clock, heartbeats, machines, audits, revoked, channel, msg, prev>>

(* No route of the Worker sets revoked_at: an operator does, in D1. *)
Revoke(a) ==
  /\ a \notin revoked
  /\ revoked' = revoked \cup {a}
  /\ UNCHANGED <<clock, heartbeats, machines, audits, channel, phase, msg, prev>>

Tick ==
  /\ clock < MaxClock
  /\ clock' = clock + 1
  /\ UNCHANGED <<heartbeats, machines, audits, revoked, channel, phase, msg, prev>>

(* Nothing is left to answer. *)
Rest ==
  /\ \A r \in Requests : phase[r] \in Answers
  /\ UNCHANGED vars

(* What the Worker does of itself, once it has a request. *)
Handle(r) ==
  \/ AuthenticateAgent(r)
  \/ ParseHeartbeat(r)
  \/ ReadStatus(r)
  \/ InsertHeartbeat(r)
  \/ RejectReplay(r)
  \/ UpdateMachine(r)
  \/ RecordAudit(r)
  \/ PublishHeartbeat(r)
  \/ PublishStatusChange(r)
  \/ Respond(r)

Arrive(r) == \E who \in Presented, b \in Bodies \cup {Malformed} : Receive(r, who, b)

Next ==
  \/ \E r \in Requests : Arrive(r) \/ Handle(r) \/ Fail(r) \/ Abort(r)
  \/ \E a \in Agents : Revoke(a)
  \/ Tick
  \/ Rest

(* D1 and the Durable Object answer or fail, and the runtime resumes the   *)
(* handler: a request in hand is not left standing.  Nothing makes         *)
(* requests arrive, fail, or be revoked, and the clock may stop.           *)
Spec == Init /\ [][Next]_vars /\ \A r \in Requests : WF_vars(Handle(r))

-----------------------------------------------------------------------------
(* Properties. *)

Rows == [id : Requests, agent : Agents, nonce : Nonces, seen : Times, status : Statuses]

Audits == [heartbeat : Requests, actor : Agents, occurred : Times, status : Statuses]

Events ==
  [type : {"agent.heartbeat"}, heartbeat : Requests, agent : Agents, seen : Times,
   status : Statuses]
  \cup
  [type : {"agent.status_changed"}, heartbeat : Requests, agent : Agents, seen : Times,
   status : Statuses, previous : MachineStatuses]

(* Every variable stays in its set: in particular previousStatus is never  *)
(* null, and a machine's status is one that the CHECK of its table admits. *)
TypeOK ==
  /\ clock \in Times
  /\ heartbeats \subseteq Rows
  /\ machines \in [Agents -> [status : MachineStatuses, seen : Times \cup {Never}]]
  /\ audits \subseteq Audits
  /\ revoked \subseteq Agents
  /\ channel \in [Projects -> Seq(Events)]
  /\ phase \in [Requests -> {"unsent"} \cup Awaiting \cup Answers]
  /\ msg \in [Requests -> Messages]
  /\ prev \in [Requests -> MachineStatuses]

SameClaim(r, s) ==
  AgentOf(r) = AgentOf(s) /\ msg[r].body.nonce = msg[s].body.nonce

(* Of all the requests that carry one nonce of one agent, concurrent or    *)
(* retried, at most one is told 202, at most one row exists, and a 409 is  *)
(* only ever told to a request when another one wrote the row.  (Whether   *)
(* that one also audited and announced it is another matter: see           *)
(* WritesAreAudited.)                                                      *)
ReplayProtected ==
  /\ \A g, h \in heartbeats : g.agent = h.agent /\ g.nonce = h.nonce => g = h
  /\ \A r, s \in Requests :
       phase[r] = "accepted" /\ phase[s] = "accepted" /\ SameClaim(r, s) => r = s
  /\ \A r \in Requests :
       phase[r] = "replayed" =>
         \E h \in heartbeats : /\ h.id # r
                               /\ h.agent = AgentOf(r) /\ h.nonce = msg[r].body.nonce

Announces(event, p) == \E i \in DOMAIN channel[p] : channel[p][i] = event

(* A 202 means everything happened: the row, its audit event, the live     *)
(* event and, when the status differs from the one read, the change event, *)
(* the last two on the channel of the agent's own project.                 *)
AcceptedIsDurable ==
  \A r \in Requests : phase[r] = "accepted" =>
    /\ Row(r) \in heartbeats
    /\ AuditOf(r) \in audits
    /\ Announces(HeartbeatEvent(r), ProjectOf[AgentOf(r)])
    /\ prev[r] # msg[r].body.status =>
         Announces(StatusEvent(r), ProjectOf[AgentOf(r)])

(* A subscriber never hears of what is not durable: an event on a          *)
(* project's channel is about a heartbeat of an agent of that project      *)
(* whose row and audit event exist already, and a change of status is      *)
(* announced after the heartbeat that made it.                             *)
DurableBeforeLive ==
  \A p \in Projects : \A i \in DOMAIN channel[p] :
    LET e == channel[p][i] IN
    /\ ProjectOf[e.agent] = p
    /\ \E h \in heartbeats : /\ h.id = e.heartbeat /\ h.agent = e.agent
                             /\ h.seen = e.seen /\ h.status = e.status
    /\ \E a \in audits : a.heartbeat = e.heartbeat /\ a.actor = e.agent
    /\ e.type = "agent.status_changed" =>
         \E j \in 1 .. i - 1 : /\ channel[p][j].type = "agent.heartbeat"
                               /\ channel[p][j].heartbeat = e.heartbeat

(* History and audit trail agree: an audit event is about a stored         *)
(* heartbeat and repeats its agent, time and status, there is one for each *)
(* at most, and a heartbeat that has none belongs to a handler that is     *)
(* about to write it or was cut short before.                              *)
AuditTrail ==
  /\ \A a \in audits : \E h \in heartbeats :
       /\ h.id = a.heartbeat /\ h.agent = a.actor
       /\ h.seen = a.occurred /\ h.status = a.status
  /\ \A a, b \in audits : a.heartbeat = b.heartbeat => a = b
  /\ \A h \in heartbeats :
       \/ \E a \in audits : a.heartbeat = h.id
       \/ phase[h.id] \in {"update", "audit", "failed", "aborted"}

(* Nobody hears of anything twice, however many requests retry a heartbeat *)
(* and wherever they overlap: for one nonce of one agent its project's     *)
(* channel carries one event of each type.                                 *)
AnnouncedOnce ==
  \A p \in Projects : \A i, j \in DOMAIN channel[p] :
    LET d == channel[p][i]
        e == channel[p][j]
    IN  d.type = e.type /\ SameClaim(d.heartbeat, e.heartbeat) => i = j

(* A change of status that is announced was one, if not always the latest: *)
(* the previous status differs, and was that of another stored heartbeat   *)
(* of the agent or of its registration.                                    *)
ChangeIsReal ==
  \A p \in Projects : \A i \in DOMAIN channel[p] :
    LET e == channel[p][i] IN
    e.type = "agent.status_changed" =>
      /\ e.previous # e.status
      /\ \/ e.previous = "unknown"
         \/ \E h \in heartbeats : /\ h.agent = e.agent /\ h.id # e.heartbeat
                                  /\ h.status = e.previous

(* However the UPDATEs of concurrent requests interleave, a machine's      *)
(* status and last_seen_at come from one and the same recorded heartbeat   *)
(* of its own agent, whose request got as far as its UPDATE; they are      *)
(* still those of the registration only while no request of the agent has. *)
PastUpdate == {"audit", "publish", "publishChange", "respond", "accepted"}

MachineFromOneHeartbeat ==
  \A a \in Agents :
    \/ /\ machines[a] = [status |-> "unknown", seen |-> Never]
       /\ \A r \in Requests : AgentOf(r) = a => phase[r] \notin PastUpdate
    \/ \E h \in heartbeats : /\ h.agent = a /\ phase[h.id] # "update"
                             /\ machines[a] = [status |-> h.status, seen |-> h.seen]

(* No observation is stored, in the history or as a machine's latest, that *)
(* lies further in the future than the allowed skew.                       *)
NeverFromFuture ==
  /\ \A h \in heartbeats : h.seen <= clock + FutureSkew
  /\ \A a \in Agents : machines[a].seen <= clock + FutureSkew

PastAuthentication == Awaiting \ {"authenticate"}

InFlight(a) == {r \in Requests : AgentOf(r) = a /\ phase[r] \in PastAuthentication}

RowsOf(a) == {h \in heartbeats : h.agent = a}

(* A revocation cuts an agent off once the requests that had already       *)
(* authenticated are done: none gets in after it, and then neither its     *)
(* history nor its machine changes again.                                  *)
RevokedStaysSilent ==
  [][\A a \in revoked :
       /\ InFlight(a)' \subseteq InFlight(a)
       /\ InFlight(a) = {} => RowsOf(a)' = RowsOf(a) /\ machines'[a] = machines[a]]_vars

(* Every request that arrives is answered, unless the runtime drops it:    *)
(* losing the race for a nonce never leaves a handler without an answer.   *)
Answered ==
  \A r \in Requests : phase[r] = "authenticate" ~> phase[r] \in Answers

-----------------------------------------------------------------------------
(* What HeartbeatLedger promises of any such service, and how the rows and  *)
(* phases above read as its ledger, claims and verdicts.                   *)

ClaimOf(r) == IF msg[r].body = Malformed
              THEN [agent |-> AgentOf(r), nonce |-> Malformed]
              ELSE [agent |-> AgentOf(r), nonce |-> msg[r].body.nonce]

Recorded == {"update", "audit", "publish", "publishChange", "respond"}

VerdictAt(at) ==
  CASE at = "unsent"                                            -> "none"
    [] at \in {"authenticate", "parse", "readStatus", "insert"} -> "pending"
    [] at \in Recorded                                          -> "recorded"
    [] at \in {"denied", "invalid"}                             -> "refused"
    [] at \in {"failed", "aborted"}                             -> "unknown"
    [] at \in {"accepted", "replayed"}                          -> at

Ledger == INSTANCE HeartbeatLedger WITH
  ledger  <- {[agent |-> h.agent, nonce |-> h.nonce, by |-> h.id] : h \in heartbeats},
  claim   <- [r \in Requests |-> ClaimOf(r)],
  verdict <- [r \in Requests |-> VerdictAt(phase[r])]

(* The handler implements the ledger: every claim is recorded at most      *)
(* once, its recorder alone can be told 202, and a 409 presupposes a       *)
(* record.  (That a verdict comes at all is Answered.)                     *)
ImplementsLedger == Ledger!Spec

-----------------------------------------------------------------------------
(* Claims of the documentation that the code does not keep. *)

AllAnswered == \A r \in Requests : phase[r] \in Answers \cup {"unsent"}

(* docs/ARCHITECTURE.md: "`machines` owns a machine's latest observation   *)
(* state".  At rest, and even when nothing failed, no recorded heartbeat   *)
(* of an agent is newer than its machine's last_seen_at.                   *)
MachineIsLatest ==
  AllAnswered /\ (\A r \in Requests : phase[r] \notin {"failed", "aborted"}) =>
    \A h \in heartbeats : h.seen <= machines[h.agent].seen

(* docs/ARCHITECTURE.md: "`agent.status_changed` events carry the previous *)
(* and current machine status".  The status an UPDATE replaces is the one  *)
(* the request will announce as the previous one.                          *)
ChangeCarriesPrevious ==
  [][\A r \in Requests : phase[r] = "update" /\ phase'[r] = "audit" =>
       prev[r] = machines[AgentOf(r)].status]_vars

(* docs/ARCHITECTURE.md: "A successful write records its audit event       *)
(* before publishing" and "`audit_events` owns the durable history of      *)
(* accepted mutations".  At rest every stored heartbeat has its audit      *)
(* event.                                                                  *)
WritesAreAudited ==
  AllAnswered =>
    \A h \in heartbeats : \E a \in audits : a.heartbeat = h.id

=============================================================================

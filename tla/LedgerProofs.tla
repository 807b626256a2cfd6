---------------------------- MODULE LedgerProofs ----------------------------
(***************************************************************************)
(* The handler implements HeartbeatLedger: its initial states are ledger   *)
(* states, and each of its steps is a step of the ledger or none.          *)
(***************************************************************************)
EXTENDS HeartbeatApiProofs

(* HeartbeatLedger's variables, as HeartbeatApi substitutes them. *)
ledgerBar  == {[agent |-> h.agent, nonce |-> h.nonce, by |-> h.id] : h \in heartbeats}
claimBar   == [r \in Requests |-> ClaimOf(r)]
verdictBar == [r \in Requests |-> VerdictAt(phase[r])]

Phases == {"unsent"} \cup Awaiting \cup Answers

LEMMA VerdictTable ==
  /\ VerdictAt("unsent") = "none"
  /\ \A at \in {"authenticate", "parse", "readStatus", "insert"} : VerdictAt(at) = "pending"
  /\ \A at \in Recorded : VerdictAt(at) = "recorded"
  /\ \A at \in {"denied", "invalid"} : VerdictAt(at) = "refused"
  /\ \A at \in {"failed", "aborted"} : VerdictAt(at) = "unknown"
  /\ VerdictAt("accepted") = "accepted" /\ VerdictAt("replayed") = "replayed"
BY DEF VerdictAt, Recorded

(* A step of one request changes its verdict, and no other. *)
LEMMA VerdictMoves ==
  ASSUME TypeOK, NEW r \in Requests, NEW to \in Phases, Step(r, phase[r], to)
  PROVE  verdictBar' = [verdictBar EXCEPT ![r] = VerdictAt(to)]
BY StepMovesOne DEF verdictBar, Phases

LEMMA VerdictStays ==
  ASSUME TypeOK, NEW r \in Requests, NEW to \in Phases, Step(r, phase[r], to),
         VerdictAt(to) = VerdictAt(phase[r])
  PROVE  verdictBar' = verdictBar
BY VerdictMoves DEF verdictBar

LEMMA SameRowsSameLedger ==
  /\ heartbeats' = heartbeats => ledgerBar' = ledgerBar
  /\ msg' = msg => claimBar' = claimBar
BY DEF ledgerBar, claimBar, ClaimOf, AgentOf

(* A parsed request's claim is entered exactly when its nonce is used. *)
LEMMA EnteredIsUsed ==
  ASSUME Typing, NEW r \in Requests, phase[r] \in Parsing
  PROVE  /\ NonceUsed(r) <=> \E e \in ledgerBar : /\ e.agent = claimBar[r].agent
                                                  /\ e.nonce = claimBar[r].nonce
         /\ claimBar[r] = [agent |-> AgentOf(r), nonce |-> msg[r].body.nonce]
<1>1. msg[r].body # Malformed
  BY MalformedAssumption DEF Typing, Parsed
<1>2. claimBar[r] = [agent |-> AgentOf(r), nonce |-> msg[r].body.nonce]
  BY <1>1 DEF claimBar, ClaimOf
<1>3. ASSUME NonceUsed(r)
      PROVE  \E e \in ledgerBar : e.agent = AgentOf(r) /\ e.nonce = msg[r].body.nonce
  <2>1. PICK h \in heartbeats : h.agent = AgentOf(r) /\ h.nonce = msg[r].body.nonce
    BY <1>3 DEF NonceUsed
  <2>2. [agent |-> h.agent, nonce |-> h.nonce, by |-> h.id] \in ledgerBar
    BY DEF ledgerBar
  <2> QED BY <2>1, <2>2
<1>4. ASSUME NEW e \in ledgerBar, e.agent = AgentOf(r), e.nonce = msg[r].body.nonce
      PROVE  NonceUsed(r)
  <2>1. PICK h \in heartbeats : e = [agent |-> h.agent, nonce |-> h.nonce, by |-> h.id]
    BY DEF ledgerBar
  <2> QED BY <1>4, <2>1 DEF NonceUsed
<1> QED BY <1>2, <1>3, <1>4

LEMMA LedgerInit == Init => Ledger!Init
<1> SUFFICES ASSUME Init PROVE Ledger!Init
  OBVIOUS
<1>1. verdictBar = [r \in Requests |-> "none"]
  BY VerdictTable DEF Init, verdictBar
<1> QED BY <1>1 DEF Init, Ledger!Init, verdictBar

LEMMA LedgerNext == RowInv /\ Serves => [Ledger!Next]_(Ledger!vars)
<1> SUFFICES ASSUME RowInv, Serves PROVE Ledger!Next \/ UNCHANGED Ledger!vars
  OBVIOUS
<1>0. Typing /\ TypeOK
  BY DEF RowInv, Typing
<1>a. ASSUME ledgerBar' = ledgerBar, claimBar' = claimBar, verdictBar' = verdictBar
      PROVE  UNCHANGED Ledger!vars
  BY <1>a DEF Ledger!vars, ledgerBar, claimBar, verdictBar
<1>1. ASSUME NEW r \in Requests, NEW who \in Credentials, NEW b \in Bodies \cup {Malformed},
             Receive(r, who, b)
      PROVE  Ledger!Submit(r)
  <2>1. verdictBar' = [verdictBar EXCEPT ![r] = VerdictAt("authenticate")]
    BY <1>0, <1>1, VerdictMoves DEF Receive, Step, Phases, Awaiting
  <2>2. \A s \in Requests \ {r} : claimBar'[s] = claimBar[s]
    BY <1>0, <1>1 DEF Receive, TypeOK, claimBar, ClaimOf, AgentOf
  <2>3. ledgerBar' = ledgerBar /\ DOMAIN claimBar' = Requests
    BY <1>1, SameRowsSameLedger DEF Receive, claimBar
  <2>4. phase[r] = "unsent" /\ verdictBar[r] = VerdictAt("unsent")
    BY <1>1 DEF Receive, Step, verdictBar
  <2>5. VerdictAt("unsent") = "none" /\ VerdictAt("authenticate") = "pending"
    BY VerdictTable
  <2> QED BY <2>1, <2>2, <2>3, <2>4, <2>5
          DEF Ledger!Submit, Ledger!Decide, ledgerBar, claimBar, verdictBar
<1>2. ASSUME NEW r \in Requests, Handle(r)
      PROVE  \/ UNCHANGED Ledger!vars
             \/ Ledger!Record(r) \/ Ledger!Accept(r) \/ Ledger!Replay(r) \/ Ledger!Refuse(r)
  <2> USE DEF Phases, Awaiting, Answers
  <2>0. verdictBar[r] = VerdictAt(phase[r])
    BY DEF verdictBar
  <2>1. ASSUME NEW to \in {"denied", "invalid"},
               phase[r] \in {"authenticate", "parse"}, Step(r, phase[r], to),
               heartbeats' = heartbeats, msg' = msg
        PROVE  Ledger!Refuse(r)
    <3>1. verdictBar' = [verdictBar EXCEPT ![r] = "refused"] /\ verdictBar[r] = "pending"
      BY <1>0, <2>0, <2>1, VerdictMoves, VerdictTable
    <3>2. ledgerBar' = ledgerBar /\ claimBar' = claimBar
      BY <2>1, SameRowsSameLedger
    <3> QED BY <3>1, <3>2 DEF Ledger!Refuse, Ledger!Decide, ledgerBar, claimBar, verdictBar
  <2>2. ASSUME NEW to \in Phases, Step(r, phase[r], to),
               \/ {phase[r], to} \subseteq {"authenticate", "parse", "readStatus", "insert"}
               \/ {phase[r], to} \subseteq Recorded,
               heartbeats' = heartbeats, msg' = msg
        PROVE  UNCHANGED Ledger!vars
    <3>1. VerdictAt(to) = VerdictAt(phase[r])
      BY <2>2, VerdictTable
    <3>2. verdictBar' = verdictBar
      BY <1>0, <2>2, <3>1, VerdictStays
    <3> QED BY <1>a, <2>2, <3>2, SameRowsSameLedger
  <2>3. CASE AuthenticateAgent(r)
    BY <2>1, <2>2, <2>3 DEF AuthenticateAgent, Step
  <2>4. CASE ParseHeartbeat(r)
    BY <2>1, <2>2, <2>4 DEF ParseHeartbeat, Step
  <2>5. CASE ReadStatus(r)
    BY <2>2, <2>5 DEF ReadStatus, Step
  <2>6. CASE InsertHeartbeat(r)
    <3>1. Step(r, phase[r], "update") /\ phase[r] = "insert"
      BY <2>6 DEF InsertHeartbeat, Step
    <3>2. verdictBar' = [verdictBar EXCEPT ![r] = "recorded"] /\ verdictBar[r] = "pending"
      BY <1>0, <2>0, <3>1, VerdictMoves, VerdictTable DEF Recorded
    <3>3. /\ ~\E e \in ledgerBar : /\ e.agent = claimBar[r].agent
                                  /\ e.nonce = claimBar[r].nonce
          /\ claimBar[r] = [agent |-> AgentOf(r), nonce |-> msg[r].body.nonce]
      BY <1>0, <2>6, <3>1, EnteredIsUsed DEF InsertHeartbeat, Parsing
    <3>4. ledgerBar' = ledgerBar \cup
            {[agent |-> claimBar[r].agent, nonce |-> claimBar[r].nonce, by |-> r]}
      <4>1. heartbeats' = heartbeats \cup {Row(r)}
        BY <2>6 DEF InsertHeartbeat
      <4>2. ledgerBar' = ledgerBar \cup
              {[agent |-> Row(r).agent, nonce |-> Row(r).nonce, by |-> Row(r).id]}
        BY <4>1 DEF ledgerBar
      <4> QED BY <3>3, <4>2 DEF Row
    <3>5. claimBar' = claimBar
      BY <2>6, SameRowsSameLedger DEF InsertHeartbeat
    <3>6. Ledger!Record(r)
      BY <3>2, <3>3, <3>4, <3>5
         DEF Ledger!Record, Ledger!Decide, Ledger!Entered, ledgerBar, claimBar, verdictBar
    <3> QED BY <3>6
  <2>7. CASE RejectReplay(r)
    <3>1. Step(r, phase[r], "replayed") /\ phase[r] = "insert"
      BY <2>7 DEF RejectReplay, Step
    <3>2. verdictBar' = [verdictBar EXCEPT ![r] = "replayed"] /\ verdictBar[r] = "pending"
      BY <1>0, <2>0, <3>1, VerdictMoves, VerdictTable
    <3>3. \E e \in ledgerBar : e.agent = claimBar[r].agent /\ e.nonce = claimBar[r].nonce
      BY <1>0, <2>7, <3>1, EnteredIsUsed DEF RejectReplay, Parsing
    <3>4. ledgerBar' = ledgerBar /\ claimBar' = claimBar
      BY <2>7, SameRowsSameLedger DEF RejectReplay
    <3>5. Ledger!Replay(r)
      BY <3>2, <3>3, <3>4
         DEF Ledger!Replay, Ledger!Decide, Ledger!Entered, ledgerBar, claimBar, verdictBar
    <3> QED BY <3>5
  <2>8. CASE UpdateMachine(r) \/ RecordAudit(r) \/ PublishHeartbeat(r) \/ PublishStatusChange(r)
    BY <2>2, <2>8
       DEF UpdateMachine, RecordAudit, PublishHeartbeat, PublishStatusChange, Step, Recorded
  <2>9. CASE Respond(r)
    <3>1. Step(r, phase[r], "accepted") /\ phase[r] = "respond"
      BY <2>9 DEF Respond, Step
    <3>2. verdictBar' = [verdictBar EXCEPT ![r] = "accepted"] /\ verdictBar[r] = "recorded"
      BY <1>0, <2>0, <3>1, VerdictMoves, VerdictTable DEF Recorded
    <3>3. ledgerBar' = ledgerBar /\ claimBar' = claimBar
      BY <2>9, SameRowsSameLedger DEF Respond
    <3>4. Ledger!Accept(r)
      BY <3>2, <3>3 DEF Ledger!Accept, Ledger!Decide, ledgerBar, claimBar, verdictBar
    <3> QED BY <3>4
  <2> QED BY <1>2, <2>3, <2>4, <2>5, <2>6, <2>7, <2>8, <2>9 DEF Handle
<1>3. ASSUME NEW r \in Requests, Fail(r) \/ Abort(r) PROVE Ledger!Lose(r)
  <2>1. PICK to \in {"failed", "aborted"} : Step(r, phase[r], to)
    BY <1>3 DEF Fail, Abort, Step
  <2>2. verdictBar' = [verdictBar EXCEPT ![r] = "unknown"]
    BY <1>0, <2>1, VerdictMoves, VerdictTable DEF Phases, Answers
  <2>3. verdictBar[r] \in {"pending", "recorded"}
    BY <1>3, VerdictTable DEF Fail, Abort, verdictBar, Awaiting, Recorded
  <2>4. ledgerBar' = ledgerBar /\ claimBar' = claimBar
    BY <1>3, SameRowsSameLedger DEF Fail, Abort
  <2> QED BY <2>2, <2>3, <2>4
          DEF Ledger!Lose, Ledger!Decide, ledgerBar, claimBar, verdictBar
<1>4. CASE (\E a \in Agents : Revoke(a)) \/ Tick \/ UNCHANGED vars
  <2>1. heartbeats' = heartbeats /\ msg' = msg /\ phase' = phase
    BY <1>4 DEF Revoke, Tick, vars
  <2>2. verdictBar' = verdictBar
    BY <2>1 DEF verdictBar
  <2> QED BY <1>a, <2>1, <2>2, SameRowsSameLedger
<1> QED
  BY <1>1, <1>2, <1>3, <1>4 DEF Serves, Ledger!Next

(* Every behaviour of the handler is one of the ledger: a claim is entered *)
(* at most once, only by the request that is then told 202, and 409 is     *)
(* told only of an entered claim.                                          *)
THEOREM HandlerImplementsLedger == Spec => ImplementsLedger
BY LedgerInit, LedgerNext, RowInvInit, RowInvNext, NextServes, PTL DEF Spec, ImplementsLedger, Ledger!Spec

=============================================================================

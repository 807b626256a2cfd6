--------------------------- MODULE HeartbeatLedger ---------------------------
(***************************************************************************)
(* What the heartbeat service promises, without tables, channels or order  *)
(* of statements: a ledger of claims, a claim being the pair of an agent   *)
(* and a nonce.  A claim is entered at most once, whoever submits it and   *)
(* however often.                                                          *)
(***************************************************************************)
EXTENDS Naturals

CONSTANT Requests

VARIABLES
  ledger,    (* Entries: a claim and the request that entered it.           *)
  claim,     (* The claim each request makes.                               *)
  verdict    (* What became of each request.                                *)

Verdicts == {"none", "pending", "recorded", "accepted", "replayed", "refused", "unknown"}

Entered(c) == \E e \in ledger : e.agent = c.agent /\ e.nonce = c.nonce

Decide(r, from, to) ==
  verdict[r] \in from /\ verdict' = [verdict EXCEPT ![r] = to]

Init ==
  /\ ledger = {}
  /\ verdict = [r \in Requests |-> "none"]
  /\ DOMAIN claim = Requests

(* A request states its claim, once. *)
Submit(r) ==
  /\ Decide(r, {"none"}, "pending")
  /\ \A s \in Requests \ {r} : claim'[s] = claim[s]
  /\ DOMAIN claim' = Requests
  /\ UNCHANGED ledger

(* The claim is entered; the submitter does not know yet. *)
Record(r) ==
  /\ Decide(r, {"pending"}, "recorded")
  /\ ~Entered(claim[r])
  /\ ledger' = ledger \cup {[agent |-> claim[r].agent, nonce |-> claim[r].nonce, by |-> r]}
  /\ UNCHANGED claim

Accept(r) == Decide(r, {"recorded"}, "accepted") /\ UNCHANGED <<ledger, claim>>

Replay(r) ==
  /\ Decide(r, {"pending"}, "replayed")
  /\ Entered(claim[r])
  /\ UNCHANGED <<ledger, claim>>

Refuse(r) == Decide(r, {"pending"}, "refused") /\ UNCHANGED <<ledger, claim>>

(* The submitter is left without a verdict, its claim entered or not. *)
Lose(r) == Decide(r, {"pending", "recorded"}, "unknown") /\ UNCHANGED <<ledger, claim>>

Next == \E r \in Requests :
  Submit(r) \/ Record(r) \/ Accept(r) \/ Replay(r) \/ Refuse(r) \/ Lose(r)

vars == <<ledger, claim, verdict>>

Spec == Init /\ [][Next]_vars

==============================================================================

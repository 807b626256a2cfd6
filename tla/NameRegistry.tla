---------------------------- MODULE NameRegistry ----------------------------
(***************************************************************************)
(* What registration promises, without tables or order of statements: the  *)
(* names of a project's machines are taken once and for good, by a request *)
(* that then has the name's only credential.  A request that is lost on    *)
(* its way may keep a name from everyone, and may leave a credential that  *)
(* nobody was told.                                                        *)
(***************************************************************************)
CONSTANT Requests

VARIABLES
  names,         (* Entries: a project, a name in it and the request.       *)
  credentials,   (* Requests whose credential authenticates an agent.       *)
  claim,         (* The project and the name each request asks for.         *)
  verdict        (* What became of each request.                            *)

vars == <<names, credentials, claim, verdict>>

Verdicts == {"none", "pending", "taken", "issued", "granted", "refused", "lost"}

Taken(c) == \E e \in names : e.project = c.project /\ e.name = c.name

Decide(r, from, to) ==
  verdict[r] \in from /\ verdict' = [verdict EXCEPT ![r] = to]

Init ==
  /\ names = {} /\ credentials = {}
  /\ DOMAIN claim = Requests
  /\ verdict = [r \in Requests |-> "none"]

Ask(r) ==
  /\ Decide(r, {"none"}, "pending")
  /\ \A s \in Requests \ {r} : claim'[s] = claim[s]
  /\ DOMAIN claim' = Requests
  /\ UNCHANGED <<names, credentials>>

Take(r) ==
  /\ Decide(r, {"pending"}, "taken")
  /\ ~Taken(claim[r])
  /\ names' = names \cup {[project |-> claim[r].project, name |-> claim[r].name, by |-> r]}
  /\ UNCHANGED <<credentials, claim>>

Issue(r) ==
  /\ Decide(r, {"taken"}, "issued")
  /\ credentials' = credentials \cup {r}
  /\ UNCHANGED <<names, claim>>

Grant(r) == Decide(r, {"issued"}, "granted") /\ UNCHANGED <<names, credentials, claim>>

Refuse(r) == Decide(r, {"pending"}, "refused") /\ UNCHANGED <<names, credentials, claim>>

(* Without a verdict, the name taken or not and the credential valid or    *)
(* not.  A conflict is not told apart from that.                           *)
Lose(r) ==
  /\ Decide(r, {"pending", "taken", "issued"}, "lost")
  /\ UNCHANGED <<names, credentials, claim>>

Next == \E r \in Requests :
  Ask(r) \/ Take(r) \/ Issue(r) \/ Grant(r) \/ Refuse(r) \/ Lose(r)

Spec == Init /\ [][Next]_vars

=============================================================================

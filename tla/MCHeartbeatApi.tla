--------------------------- MODULE MCHeartbeatApi ---------------------------
(* HeartbeatApi on small instances.                                        *)
EXTENDS HeartbeatApi, TLC

CONSTANTS a1, a2, p1, p2, r1, r2, r3, n1, n2

ProjectPerAgent == (a1 :> p1) @@ (a2 :> p2)
OneProject == (a1 :> p1)

(* Connectors only, each with its own credential and its own path. *)
ConnectorsPresented == {[credential |-> a, path |-> a] : a \in Agents}

(* Also a credential for an agent that it does not own, and an unknown one. *)
MixedPresented ==
  ConnectorsPresented \cup
  {[credential |-> a1, path |-> a2], [credential |-> NoAgent, path |-> a1]}

RequestSymmetry == Permutations(Requests)

=============================================================================

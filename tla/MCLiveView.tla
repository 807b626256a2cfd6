----------------------------- MODULE MCLiveView -----------------------------
(* LiveView on a small instance.                                           *)
EXTENDS LiveView, TLC

CONSTANTS a1, a2, p1, p2

JustOne == a1 :> p1

SameProject == a1 :> p1 @@ a2 :> p1

=============================================================================

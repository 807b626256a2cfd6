----------------------------- MODULE MCDelivery -----------------------------
(* Delivery on a small instance.                                           *)
EXTENDS Delivery, TLC

CONSTANTS a1, p1

OneProject == a1 :> p1

=============================================================================

--------------------------- MODULE MCRegistration ---------------------------
(* Registration on a small instance.                                       *)
EXTENDS Registration, TLC

RequestSymmetry == Permutations(Requests)

=============================================================================

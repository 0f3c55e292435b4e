-------------------------- MODULE MCSubscriptions --------------------------
(* Instances of Subscriptions for TLC. *)
EXTENDS Subscriptions, TLC

CONSTANTS r1, r2, r3, p1, p2

RequestSymmetry == Permutations(Requests)
=============================================================================

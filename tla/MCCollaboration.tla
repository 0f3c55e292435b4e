-------------------------- MODULE MCCollaboration --------------------------
(* Instances of Collaboration for TLC. *)
EXTENDS Collaboration, TLC

CONSTANTS h, g, x, r1, r2, r3

RequestSymmetry == Permutations(Requests)
=============================================================================

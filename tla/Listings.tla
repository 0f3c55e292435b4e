------------------------------ MODULE Listings ------------------------------
(***************************************************************************)
(* What the database and the sorting helpers of the code return: the rows  *)
(* of a set as a sequence, in a given order.                               *)
(***************************************************************************)
EXTENDS Integers, FiniteSets

\* orderBy, or sort: every row once, each before the next.
Sorted(S, Before(_, _)) ==
    CHOOSE s \in [1..Cardinality(S) -> S] :
        \A i, j \in 1..Cardinality(S) : i < j => Before(s[i], s[j])
=============================================================================

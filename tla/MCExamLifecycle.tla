-------------------------- MODULE MCExamLifecycle --------------------------
(* Instances of ExamLifecycle for TLC. *)
EXTENDS ExamLifecycle, TLC

CONSTANTS r1, r2, r3, math, english, full, single, challenge, other

\* A full real exam of both subjects, a real exam of one, and the daily
\* challenge with either choice of subjects.
ScopeSubjects ==
    [s \in Scopes |-> CASE s = full -> {math, english}
                        [] s \in {single, challenge} -> {math}
                        [] s = other -> {english}]

RequestSymmetry == Permutations(Requests)
=============================================================================

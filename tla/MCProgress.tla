---------------------------- MODULE MCProgress ----------------------------
(* The leaderboard for TLC.  The scenario says which processes meet.          *)
EXTENDS Leaderboard

CONSTANTS w1, r1, q1

VARIABLE scenario
vars == <<boardVars, scenario>>

\* Two workers, a death or an outage; a worker that dies twice, so that only the
\* reconciliation makes its event good; two resets, weeks and an outage; stale snapshots
\* of a worker, a reader and the reconciliation; a reset among them; and every board of
\* three people as it reads once Redis has caught up.
Scenarios == {"outbox", "deaths", "weeks", "stale", "sunday", "boards"}

\* Any points, older ones archived, Redis in agreement.
Settled ==
    /\ stats \in [Users -> {s \in [weekly: 0..MaxPoints, total: 0..MaxPoints] : s.weekly <= s.total}]
    /\ weeklySp = Weekly
    /\ archive = [u \in Users |-> [w \in 0..MaxWeek |->
                     IF w = 0 THEN stats[u].total - stats[u].weekly ELSE 0]]
    /\ redis = [up |-> TRUE, hash |-> stats, weekly |-> Weekly, total |-> Total]
    /\ week = 1 /\ events = <<>> /\ payload = <<>> /\ resetLock = Nobody
    /\ job = [j \in Jobs |-> Resting] /\ faults = 0 /\ overlapped = FALSE

Init ==
    /\ scenario \in Scenarios
    /\ IF scenario = "boards" THEN Settled ELSE BoardInit

Next ==
    /\ \/ scenario = "outbox" /\ \/ Earn(1, 1)
                                 \/ \E w \in Workers : WorkerSteps(w) \/ WorkerDies(w)
                                 \/ Outage \/ Recover
       \/ scenario = "deaths" /\ \/ (Len(events) < 2 /\ Earn(1, 1)) \/ Reconciliation
                                 \/ WorkerSteps(w1) \/ WorkerDies(w1)
       \/ scenario = "weeks" /\ \/ Earn(1, 1)
                                \/ \E r \in Resets : TakeLock(r) \/ ResetSteps(r)
                                \/ Outage \/ LockExpires \/ NextWeek
       \/ scenario = "stale" /\ \/ Earn(1, 1) \/ Reconciliation \/ WorkerSteps(w1)
                                \/ ReadBoard(q1) \/ ReaderSteps(q1) \/ ExpirePayload
       \/ scenario = "sunday" /\ \/ (Len(events) < 2 /\ Earn(1, 1)) \/ Reconciliation \/ WorkerSteps(w1)
                                 \/ (week = 1 /\ TakeLock(r1)) \/ ResetSteps(r1)
    /\ scenario # "deaths" => faults' <= 1
    /\ UNCHANGED scenario

Spec == Init /\ [][Next]_vars /\ BoardFairness
============================================================================

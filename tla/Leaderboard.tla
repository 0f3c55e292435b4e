---------------------------- MODULE Leaderboard ----------------------------
(***************************************************************************)
(* Study points of one institution: the rows a submission adds to, the     *)
(* outbox of projection events, the worker that carries them to Redis, the *)
(* reconciliation, the readers that warm the projection, and the weekly    *)
(* reset with its archive.                                                 *)
(*                                                                         *)
(* A submission is one step: it holds the User row from its first write to *)
(* its commit.  The reset's transaction locks nothing while it lists and   *)
(* archives.  Everything that writes to Redis does so with commands of its *)
(* own, after it read the database: a job is a queue of snapshots it is    *)
(* still to apply, three commands each.  The worker that loses Redis does  *)
(* not reconnect; Recover stands for its restart.                          *)
(***************************************************************************)
EXTENDS Integers, Sequences, FiniteSets, SequencesExt, Listings

CONSTANTS
    Users,        \* user ids
    Workers,      \* leaderboard workers
    Resets,       \* processes that schedule the weekly reset
    Readers,      \* requests for a leaderboard
    MaxAttempts_, \* LEADERBOARD_WORKER_MAX_ATTEMPTS
    TieBuffer,    \* LEADERBOARD_TIE_BUFFER
    MaxPoints,    \* bound: study points anyone earns
    MaxEvents,    \* bound: projection events
    MaxWeek,      \* bound: weeks
    MaxOutages    \* bound: outages of Redis, and crashes of a worker

ASSUME BoardAssumption ==
    /\ Users \subseteq Nat /\ IsFiniteSet(Users) /\ IsFiniteSet(Workers)
    /\ {MaxAttempts_, TieBuffer, MaxWeek} \subseteq Nat \ {0}
    /\ {MaxPoints, MaxEvents, MaxOutages} \subseteq Nat

Reconciler == "reconciler"
Nobody == "nobody"
ASSUME KindsAssumption ==
    /\ Workers \cap Resets = {} /\ Workers \cap Readers = {} /\ Resets \cap Readers = {}
    /\ Reconciler \notin Workers \cup Resets \cup Readers /\ Nobody \notin Resets
Jobs == Workers \cup Resets \cup Readers \cup {Reconciler}

VARIABLES
    stats,      \* UserInstitutionStats: weeklySp and totalSp
    weeklySp,   \* User.weeklySp
    archive,    \* WeeklyLeaderboard: points by user and week
    week,       \* the week in Lagos
    events,     \* LeaderboardProjectionEvent rows
    redis,      \* the hash and the two sorted sets, and whether Redis answers
    payload,    \* the rows the API caches for a minute
    resetLock,  \* who holds jobs:leaderboard:weekly-reset of the present week
    job,        \* what every process is doing
    faults,     \* history: how often Redis or a worker failed
    overlapped  \* history: points were earned inside a reset, or it ran twice

boardVars == <<stats, weeklySp, archive, week, events, redis, payload, resetLock, job,
               faults, overlapped>>

Absent == 0   \* a member that a sorted set does not have
Resting == [pc |-> "idle", todo |-> <<>>, stage |-> "hash"]
NoSnapshot == [weekly |-> 0, total |-> 0]

BoardInit ==
    /\ stats = [u \in Users |-> NoSnapshot]
    /\ weeklySp = [u \in Users |-> 0]
    /\ archive = [u \in Users |-> [w \in 0..MaxWeek |-> 0]]
    /\ week = 1 /\ events = <<>>
    /\ redis = [up |-> TRUE, hash |-> stats, weekly |-> weeklySp, total |-> weeklySp]
    /\ payload = <<>> /\ resetLock = Nobody
    /\ job = [j \in Jobs |-> Resting]
    /\ faults = 0 /\ overlapped = FALSE

Do(j, state) == job' = [job EXCEPT ![j] = state]
Snapshot(u) == [u |-> u, weekly |-> stats[u].weekly, total |-> stats[u].total, event |-> 0]

----------------------------------------------------------------------------
(* A submission: updateUserStats, the points. *)

Resetting == \E r \in Resets : job[r].pc \in {"listed", "archived"}

Earn(u, sp) ==
    /\ stats[u].total + sp <= MaxPoints /\ Len(events) < MaxEvents
    /\ stats' = [stats EXCEPT ![u] = [weekly |-> @.weekly + sp, total |-> @.total + sp]]
    /\ weeklySp' = [weeklySp EXCEPT ![u] = @ + sp]
    /\ events' = Append(events, [u |-> u, weekly |-> stats'[u].weekly, total |-> stats'[u].total,
                                 attempts |-> 0, done |-> FALSE, applied |-> 0])
    /\ overlapped' = (overlapped \/ Resetting)
    /\ UNCHANGED <<archive, week, redis, payload, resetLock, job, faults>>

----------------------------------------------------------------------------
(* applyProjectionSnapshotToRedis, one command at a time. *)

After(j) ==
    IF j \in Workers THEN [job[j] EXCEPT !.pc = "mark"]
    ELSE [job[j] EXCEPT !.todo = Tail(@), !.stage = "hash"]

Apply(j) ==
    /\ job[j].pc = "apply" /\ job[j].todo # <<>> /\ redis.up
    /\ LET s == Head(job[j].todo)
       IN \/ /\ job[j].stage = "hash"
             /\ redis' = [redis EXCEPT !.hash[s.u] = [weekly |-> s.weekly, total |-> s.total]]
             /\ Do(j, [job[j] EXCEPT !.stage = "weekly"])
          \/ /\ job[j].stage = "weekly"
             /\ redis' = [redis EXCEPT !.weekly[s.u] = s.weekly]
             /\ Do(j, [job[j] EXCEPT !.stage = "total"])
          \/ /\ job[j].stage = "total"
             /\ redis' = [redis EXCEPT !.total[s.u] = s.total]
             /\ Do(j, After(j))
    /\ UNCHANGED <<stats, weeklySp, archive, week, events, payload, resetLock, faults, overlapped>>

\* A job other than the worker's ends when its queue is empty, or Redis fails it.
FinishJob(j) ==
    /\ j \in Readers \cup {Reconciler} /\ job[j].pc = "apply"
    /\ job[j].todo = <<>> \/ ~redis.up
    /\ Do(j, Resting)
    /\ UNCHANGED <<stats, weeklySp, archive, week, events, redis, payload, resetLock, faults, overlapped>>

----------------------------------------------------------------------------
(* The worker: processProjectionBatch. *)

Claimable(i) == ~events[i].done /\ events[i].attempts < MaxAttempts_

Claim(w) ==
    LET ids == Sorted({i \in DOMAIN events : Claimable(i)}, <) IN
    /\ job[w].pc = "idle" /\ ids # <<>>
    /\ events' = [i \in DOMAIN events |->
                     IF Claimable(i) THEN [events[i] EXCEPT !.attempts = @ + 1] ELSE events[i]]
    /\ Do(w, [pc |-> "apply", stage |-> "hash",
              todo |-> [k \in DOMAIN ids |->
                           [u |-> events[ids[k]].u, weekly |-> events[ids[k]].weekly,
                            total |-> events[ids[k]].total, event |-> ids[k],
                            attempts |-> events[ids[k]].attempts + 1]]])
    /\ UNCHANGED <<stats, weeklySp, archive, week, redis, payload, resetLock, faults, overlapped>>

NextEvent(w) ==
    Do(w, IF Len(job[w].todo) = 1 THEN Resting
          ELSE [pc |-> "apply", stage |-> "hash", todo |-> Tail(job[w].todo)])

MarkProcessed(w) ==
    /\ job[w].pc = "mark"
    /\ LET e == Head(job[w].todo).event
       IN events' = [events EXCEPT ![e].done = TRUE, ![e].applied = @ + 1]
    /\ NextEvent(w)
    /\ UNCHANGED <<stats, weeklySp, archive, week, redis, payload, resetLock, faults, overlapped>>

\* The attempts are those of the claim, and the event is open again below the limit.
MarkFailed(w) ==
    /\ job[w].pc = "apply" /\ w \in Workers /\ ~redis.up
    /\ LET s == Head(job[w].todo)
       IN events' = [events EXCEPT ![s.event].done = s.attempts >= MaxAttempts_]
    /\ NextEvent(w)
    /\ UNCHANGED <<stats, weeklySp, archive, week, redis, payload, resetLock, faults, overlapped>>

WorkerDies(w) ==
    /\ job[w].pc # "idle" /\ faults < MaxOutages
    /\ Do(w, Resting) /\ faults' = faults + 1
    /\ UNCHANGED <<stats, weeklySp, archive, week, events, redis, payload, resetLock, overlapped>>

----------------------------------------------------------------------------
(* runProjectionReconciliation and the readers. *)

Better(u, v, primary, secondary) ==
    \/ primary[u] > primary[v]
    \/ primary[u] = primary[v] /\ secondary[u] > secondary[v]
    \/ primary[u] = primary[v] /\ secondary[u] = secondary[v] /\ u < v

Weekly == [u \in Users |-> stats[u].weekly]
Total == [u \in Users |-> stats[u].total]

Ranked(ids, primary, secondary) ==
    LET better(u, v) == Better(u, v, primary, secondary) IN Sorted(ids, better)
WeeklyTop == Ranked({u \in Users : Weekly[u] > 0}, Weekly, Total)
AllTimeTop == Ranked({u \in Users : Total[u] > 0}, Total, Weekly)
Rows(ids) == [k \in DOMAIN ids |-> Snapshot(ids[k])]

\* A mistake of the kind BoardConverges excludes: who has no points this week is skipped.
ReconcileWeekly == Rows(WeeklyTop)
\* The rows to apply; both lists hold at most RECONCILE_TOP_N, everyone here.
ReconcileRows == Rows(WeeklyTop) \o Rows(AllTimeTop)

StartReconciliation ==
    /\ job[Reconciler].pc = "idle" /\ redis.up /\ AllTimeTop # <<>>
    /\ Do(Reconciler, [pc |-> "apply", stage |-> "hash", todo |-> ReconcileRows])
    /\ UNCHANGED <<stats, weeklySp, archive, week, events, redis, payload, resetLock, faults, overlapped>>

\* A read that missed the projection: the cached rows or the database's, which it warms.
ReadBoard(r) ==
    /\ job[r].pc = "idle"
    /\ payload' \in IF payload = <<>> THEN {Rows(WeeklyTop), Rows(AllTimeTop)} ELSE {payload}
    /\ payload' # <<>>
    /\ Do(r, [pc |-> "apply", stage |-> "hash", todo |-> payload'])
    /\ UNCHANGED <<stats, weeklySp, archive, week, events, redis, resetLock, faults, overlapped>>

\* tryReadFromRedisProjection: the best members of the sorted set, more than asked for,
\* put in order by their snapshots; no answer when the set holds too few of them, or more
\* members with the last score than were fetched.
Fetched(scores, limit) ==
    LET higher(u, v) == scores[u] > scores[v] \/ (scores[u] = scores[v] /\ u > v)
        members == Sorted({u \in Users : scores[u] # Absent}, higher)
    IN SubSeq(members, 1, IF Len(members) < limit + TieBuffer THEN Len(members)
                                                              ELSE limit + TieBuffer)

Scored(scores, ids, score) == Cardinality({u \in ids : scores[u] = score})

\* A mistake of the kind ReadsAgree excludes: ties at the end of the board are ignored.
IgnoreTies(scores, fetched, score) == FALSE
TieAmbiguity(scores, fetched, score) ==
    Scored(scores, Users, score) > Scored(scores, Range(fetched), score)

NoAnswer == <<>>
Projected(scores, primary, secondary, limit) ==
    LET fetched == Fetched(scores, limit)
        sorted == Ranked(Range(fetched), primary, secondary)
    IN IF Len(sorted) < limit THEN NoAnswer
       ELSE IF TieAmbiguity(scores, fetched, primary[sorted[limit]]) THEN NoAnswer
       ELSE SubSeq(sorted, 1, limit)

HashWeekly == [u \in Users |-> redis.hash[u].weekly]
HashTotal == [u \in Users |-> redis.hash[u].total]
ProjectedWeekly(limit) == Projected(redis.weekly, HashWeekly, HashTotal, limit)
ProjectedAllTime(limit) == Projected(redis.total, HashTotal, HashWeekly, limit)

\* getMyRank, and the ranks the reconciliation samples: one more than who is ahead.
RankOf(u, primary, secondary) ==
    1 + Cardinality({v \in Users : Better(v, u, primary, secondary)})

ExpirePayload ==
    /\ payload # <<>> /\ payload' = <<>>
    /\ UNCHANGED <<stats, weeklySp, archive, week, events, redis, resetLock, job, faults, overlapped>>

----------------------------------------------------------------------------
(* runWeeklyReset. *)

\* Without Redis, or when asking for the lock fails, the reset goes on without it.
TakeLock(r) ==
    /\ job[r].pc = "idle"
    /\ resetLock = Nobody \/ ~redis.up
    /\ resetLock' = IF redis.up THEN r ELSE resetLock
    /\ Do(r, [pc |-> "listing", todo |-> <<>>, stage |-> "hash", label |-> week - 1])
    /\ UNCHANGED <<stats, weeklySp, archive, week, events, redis, payload, faults, overlapped>>

ListRows(r) ==
    /\ job[r].pc = "listing"
    /\ Do(r, [pc |-> "listed", stage |-> "hash", label |-> job[r].label,
              users |-> {u \in Users : weeklySp[u] > 0},
              todo |-> Rows(Sorted({u \in Users : stats[u].weekly > 0}, <))])
    /\ UNCHANGED <<stats, weeklySp, archive, week, events, redis, payload, resetLock, faults, overlapped>>

ArchiveWeek(r) ==
    /\ job[r].pc = "listed"
    /\ Do(r, [pc |-> "archived", stage |-> "hash", label |-> job[r].label, users |-> job[r].users,
              todo |-> job[r].todo, points |-> Weekly,
              behind |-> {x \in Resets : job[x].pc = "archived"}])
    /\ overlapped' = (overlapped \/ \E u \in Users :
                         stats[u].weekly > 0 /\ archive[u][job[r].label] > 0)
    /\ UNCHANGED <<stats, weeklySp, archive, week, events, redis, payload, resetLock, faults>>

\* A mistake of the kind PointsAccounted excludes: the counters of the users are kept.
KeepUserCounters(r) == weeklySp
UsersAfterReset(r) == [u \in Users |-> IF u \in job[r].users THEN 0 ELSE weeklySp[u]]

\* The updates and the commit, in the order the archive rows were taken.
CommitReset(r) ==
    /\ job[r].pc = "archived"
    /\ \A x \in job[r].behind : job[x].pc # "archived"
    /\ Len(events) + Len(job[r].todo) <= MaxEvents
    /\ archive' = [u \in Users |-> IF job[r].points[u] > 0
                      THEN [archive[u] EXCEPT ![job[r].label] = job[r].points[u]] ELSE archive[u]]
    /\ weeklySp' = UsersAfterReset(r)
    /\ LET zeroed == [k \in DOMAIN job[r].todo |-> [job[r].todo[k] EXCEPT !.weekly = 0]]
       IN /\ IF zeroed = <<>> THEN UNCHANGED stats
             ELSE stats' = [u \in Users |-> [stats[u] EXCEPT !.weekly = 0]]
          /\ events' = events \o [k \in DOMAIN zeroed |->
                 [u |-> zeroed[k].u, weekly |-> 0, total |-> zeroed[k].total,
                  attempts |-> 0, done |-> FALSE, applied |-> 0]]
          /\ Do(r, [pc |-> "apply", stage |-> "hash", todo |-> zeroed,
                    touched |-> {zeroed[k].u : k \in DOMAIN zeroed}])
    /\ UNCHANGED <<week, redis, payload, resetLock, faults, overlapped>>

\* The weekly key goes, the cached rows too, and the lock if it is still r's.
FinishReset(r) ==
    /\ job[r].pc = "apply" /\ r \in Resets
    /\ job[r].todo = <<>> \/ ~redis.up
    /\ IF redis.up /\ job[r].touched # {}
       THEN /\ redis' = [redis EXCEPT !.weekly = [u \in Users |-> Absent]]
            /\ payload' = <<>>
       ELSE UNCHANGED <<redis, payload>>
    /\ resetLock' = IF redis.up /\ resetLock = r THEN Nobody ELSE resetLock
    /\ Do(r, Resting)
    /\ UNCHANGED <<stats, weeklySp, archive, week, events, faults, overlapped>>

----------------------------------------------------------------------------
(* The clock and Redis. *)

\* Ten minutes: the lock of a reset that could not release it.
LockExpires ==
    /\ resetLock # Nobody /\ job[resetLock].pc = "idle" /\ resetLock' = Nobody
    /\ UNCHANGED <<stats, weeklySp, archive, week, events, redis, payload, job, faults, overlapped>>

\* The lock of another week is another key.
NextWeek ==
    /\ week < MaxWeek /\ week' = week + 1
    /\ \A r \in Resets : job[r].pc \in {"idle", "apply"}
    /\ resetLock' = Nobody
    /\ UNCHANGED <<stats, weeklySp, archive, events, redis, payload, job, faults, overlapped>>

Outage ==
    /\ redis.up /\ faults < MaxOutages
    /\ redis' = [redis EXCEPT !.up = FALSE] /\ faults' = faults + 1
    /\ UNCHANGED <<stats, weeklySp, archive, week, events, payload, resetLock, job, overlapped>>

Recover ==
    /\ ~redis.up /\ redis' = [redis EXCEPT !.up = TRUE]
    /\ UNCHANGED <<stats, weeklySp, archive, week, events, payload, resetLock, job, faults, overlapped>>

Submissions == \E u \in Users, sp \in 1..2 : Earn(u, sp)
WorkerSteps(w) == Claim(w) \/ Apply(w) \/ MarkProcessed(w) \/ MarkFailed(w)
Reconciliation == StartReconciliation \/ Apply(Reconciler) \/ FinishJob(Reconciler)
ReaderSteps(q) == Apply(q) \/ FinishJob(q)
ResetSteps(r) == ListRows(r) \/ ArchiveWeek(r) \/ CommitReset(r) \/ Apply(r) \/ FinishReset(r)

BoardNext ==
    \/ Submissions \/ Reconciliation
    \/ \E w \in Workers : WorkerSteps(w) \/ WorkerDies(w)
    \/ \E q \in Readers : ReadBoard(q) \/ ReaderSteps(q)
    \/ \E r \in Resets : TakeLock(r) \/ ResetSteps(r)
    \/ ExpirePayload \/ LockExpires \/ NextWeek \/ Outage \/ Recover

BoardSpec == BoardInit /\ [][BoardNext]_boardVars

\* Timers keep firing, every process gets on with what it holds, Redis comes back,
\* a cached board expires.  No one has to submit, read or start a reset.
BoardFairness ==
    /\ \A w \in Workers : WF_boardVars(WorkerSteps(w))
    /\ WF_boardVars(Reconciliation)
    /\ \A q \in Readers : WF_boardVars(ReaderSteps(q))
    /\ \A r \in Resets : WF_boardVars(ResetSteps(r))
    /\ WF_boardVars(ExpirePayload) /\ WF_boardVars(Recover)

BoardTypeOK ==
    /\ \A u \in Users : stats[u].weekly \in 0..stats[u].total /\ stats[u].total \in 0..MaxPoints
    /\ \A u \in Users : weeklySp[u] \in 0..stats[u].total
    /\ week \in 1..MaxWeek /\ Len(events) <= MaxEvents
    /\ resetLock \in Resets \cup {Nobody}
    /\ \A j \in Jobs : job[j].pc \in {"idle", "apply", "mark", "listing", "listed", "archived"}
    /\ faults \in 0..MaxOutages /\ overlapped \in BOOLEAN

\* The running totals of the weeks archived of a user: there is one such function.
RunningTotals(u) ==
    {sum \in [0..MaxWeek -> 0..MaxPoints] :
        sum[0] = 0 /\ \A w \in 1..MaxWeek : sum[w] = sum[w - 1] + archive[u][w - 1]}

(***************************************************************************)
(* Every point earned is in the running week or in exactly one archived    *)
(* one, and the counter of the user is that of the institution, unless     *)
(* points came in inside a reset or it ran twice in a week with points     *)
(* between (runWeeklyReset lists, archives and clears without a lock).     *)
(***************************************************************************)
PointsAccounted ==
    /\ BoardTypeOK
    /\ ~overlapped => \A u \in Users :
          /\ \E sum \in RunningTotals(u) : sum[MaxWeek] + stats[u].weekly = stats[u].total
          /\ weeklySp[u] = stats[u].weekly
    /\ \A i \in DOMAIN events :
          events[i].applied + Cardinality({w \in Workers : \E k \in DOMAIN job[w].todo :
                                               job[w].todo[k].event = i}) <= MaxAttempts_

Exact(u) ==
    stats[u].total > 0 =>
        /\ redis.hash[u] = stats[u]
        /\ redis.weekly[u] = stats[u].weekly /\ redis.total[u] = stats[u].total

(***************************************************************************)
(* Where Redis holds what the database holds, a board answered from Redis  *)
(* is the one the database would give, ties at its end included; and the   *)
(* rank a person is told is the place on that board.                       *)
(***************************************************************************)
ReadsAgree ==
    /\ \A u \in Users :
           /\ Weekly[u] > 0 => WeeklyTop[RankOf(u, Weekly, Total)] = u
           /\ Total[u] > 0 => AllTimeTop[RankOf(u, Total, Weekly)] = u
    /\ (\A u \in Users : Exact(u) /\ (stats[u].total = 0 => redis.total[u] = Absent
                                                           /\ redis.weekly[u] = Absent)) =>
           \A limit \in 1..Cardinality(Users) :
               /\ IsPrefix(ProjectedWeekly(limit), WeeklyTop)
               /\ IsPrefix(ProjectedAllTime(limit), AllTimeTop)

(***************************************************************************)
(* Once points stop changing, Redis ends up with the points of the         *)
(* database for good, whatever stale snapshots workers, readers, resets    *)
(* and earlier reconciliations still apply.                                *)
(***************************************************************************)
BoardConverges == <>[](\A u \in Users : Exact(u))
============================================================================

------------------------------ MODULE Streaks ------------------------------
(***************************************************************************)
(* One person's streak: what a submission writes to the User row and to    *)
(* the achievements, the sweep that clears broken streaks, and what the    *)
(* summary and the calendar show of it.                                    *)
(*                                                                         *)
(* updateUserStats takes the time, reads the row without a lock and writes *)
(* absolute values computed from what it read; two submissions may overlap *)
(* and a midnight in Lagos may fall between any two steps.  The sweep      *)
(* takes the time, lists the rows that look broken and clears them later.  *)
(* Days are numbers; study points are in Leaderboard.                      *)
(***************************************************************************)
EXTENDS Integers, FiniteSets

CONSTANTS
    Exams,            \* submissions that may overlap
    Milestones,       \* STREAK_MILESTONES
    FirstFreezer,     \* FIRST_FREEZER_STREAK_DAY
    FreezerInterval,  \* FREEZER_RENEWAL_INTERVAL_DAYS
    CollabTarget,     \* the completions COLLABORATION_30_COMPLETIONS asks for
    MaxDay,           \* bound: days
    MaxCollabs        \* bound: collaboration exams submitted

ASSUME StreakAssumption ==
    /\ IsFiniteSet(Exams)
    /\ Milestones \subseteq Nat \ {0} /\ FirstFreezer \in Milestones
    /\ {FreezerInterval, CollabTarget, MaxDay} \subseteq Nat \ {0} /\ MaxCollabs \in Nat

VARIABLES
    today,   \* the day in Lagos
    days,    \* days with a StudyActivity row
    streak,  \* the streak columns of the User row
    awards,  \* milestones and achievements unlocked
    submit,  \* the submissions in flight
    sweep,   \* the reconciliation job
    torn     \* history: something was written from a row another day had changed

streakVars == <<today, days, streak, awards, submit, sweep, torn>>

Never == 0
NewStreak == [current |-> 0, longest |-> 0, last |-> Never, freezes |-> 0, collabs |-> 0]
Run(m) == <<"streak", m>>
Finisher == <<"collaborations", CollabTarget>>
Later(m, n) == IF m > n THEN m ELSE n

StreakInit ==
    /\ today = 1 /\ days = {} /\ streak = NewStreak /\ awards = {}
    /\ submit = [e \in Exams |-> [pc |-> "idle"]]
    /\ sweep = [pc |-> "idle"]
    /\ torn = FALSE

----------------------------------------------------------------------------
(* domain.ts *)

\* The status deriveStreakSnapshot gives a row on a day.
Status(row, day) ==
    LET gap == day - row.last IN
    IF row.last = Never \/ row.current <= 0 THEN "INACTIVE"
    ELSE IF gap = 0 THEN "ACTIVE"
    ELSE IF gap = 1 \/ (gap = 2 /\ row.freezes > 0) THEN "AT_RISK"
    ELSE "BROKEN"

Shown(row, day) == IF Status(row, day) \in {"ACTIVE", "AT_RISK"} THEN row.current ELSE 0
Protected(row, day) == Status(row, day) = "AT_RISK" /\ day - row.last = 2

\* A mistake of the kind StreakFollowsDays excludes: the same day counted again.
CountEveryExam(row, day) ==
    IF Status(row, day) \in {"ACTIVE", "AT_RISK"} THEN Later(row.current, 1) + 1 ELSE 1

NextCurrent(row, day) ==
    CASE Status(row, day) = "ACTIVE" -> Later(row.current, 1)
      [] Status(row, day) = "AT_RISK" -> Later(row.current, 1) + 1
      [] OTHER -> 1

\* A freezer at the first checkpoint and at every interval, to who has none left.
FreezersAwarded(row, day) ==
    LET next == NextCurrent(row, day) IN
    IF /\ Status(row, day) # "ACTIVE"
       /\ next >= FirstFreezer /\ (next - FirstFreezer) % FreezerInterval = 0
       /\ row.freezes <= 0
    THEN 1 ELSE 0

\* What the submission of a day makes of the row it read.
NextStreak(row, day) ==
    [row EXCEPT !.current = NextCurrent(row, day),
                !.longest = Later(row.longest, NextCurrent(row, day)),
                !.last = day,
                !.freezes = row.freezes - (IF Protected(row, day) THEN 1 ELSE 0)
                                        + FreezersAwarded(row, day)]

Unlocked(row, day) ==
    {Run(m) : m \in {n \in Milestones :
                  row.longest < n /\ Later(row.longest, NextCurrent(row, day)) >= n}}

----------------------------------------------------------------------------
(* A submission: updateUserStats inside the transaction that closes an exam. *)

BeginSubmit(e, collab) ==
    /\ submit[e].pc = "idle"
    /\ collab => streak.collabs + Cardinality({x \in Exams :
                     submit[x].pc # "idle" /\ submit[x].collab}) < MaxCollabs
    /\ submit' = [submit EXCEPT ![e] = [pc |-> "begun", day |-> today, collab |-> collab]]
    /\ UNCHANGED <<today, days, streak, awards, sweep, torn>>

ReadStreak(e) ==
    /\ submit[e].pc = "begun"
    /\ submit' = [submit EXCEPT ![e] = [pc |-> "read", day |-> @.day, collab |-> @.collab,
                                        row |-> streak, met |-> FALSE]]
    /\ UNCHANGED <<today, days, streak, awards, sweep, torn>>

\* completedCollaborationExams is incremented by the database, and its new value
\* decides; everything else is written over whatever the row has become.
Completions(e) == streak.collabs + (IF submit[e].collab THEN 1 ELSE 0)
CollabAwards(e) ==
    IF submit[e].collab /\ Completions(e) >= CollabTarget THEN {Finisher} ELSE {}

\* The row this one read has since been written for another day, or already was
\* for a later one.
Overtaken(e) == submit[e].met \/ submit[e].row.last > submit[e].day

WriteStreak(e) ==
    /\ submit[e].pc = "read"
    /\ LET row == submit[e].row
           day == submit[e].day
       IN /\ streak' = [NextStreak(row, day) EXCEPT !.collabs = Completions(e)]
          /\ awards' = awards \cup Unlocked(row, day) \cup CollabAwards(e)
          /\ days' = days \cup {day}
          /\ torn' = (torn \/ Overtaken(e))
          /\ submit' = [x \in Exams |->
                 IF x = e THEN [pc |-> "idle"]
                 ELSE IF submit[x].pc = "read" /\ submit[x].day # day
                      THEN [submit[x] EXCEPT !.met = TRUE] ELSE submit[x]]
    /\ UNCHANGED <<today, sweep>>

----------------------------------------------------------------------------
(* reconcileBrokenStreaks: list, then clear whoever was listed. *)

LooksBroken(row, day) ==
    /\ row.current > 0
    /\ row.last < day - 2 \/ (row.last = day - 2 /\ row.freezes = 0)

ListBroken ==
    /\ sweep.pc = "idle" /\ LooksBroken(streak, today)
    /\ sweep' = [pc |-> "listed", day |-> today, last |-> streak.last]
    /\ UNCHANGED <<today, days, streak, awards, submit, torn>>

ClearBroken ==
    /\ sweep.pc = "listed"
    /\ streak' = [streak EXCEPT !.current = 0]
    /\ torn' = (torn \/ streak.last # sweep.last
                     \/ \E e \in Exams : submit[e].pc # "idle" /\ submit[e].day < sweep.day)
    /\ sweep' = [pc |-> "idle"]
    /\ UNCHANGED <<today, days, awards, submit>>

\* Nothing stops a sweep or a submission from lasting past midnight.
Midnight ==
    /\ today < MaxDay /\ today' = today + 1
    /\ UNCHANGED <<days, streak, awards, submit, sweep, torn>>

StreakNext ==
    \/ \E e \in Exams :
        \/ \E collab \in BOOLEAN : BeginSubmit(e, collab)
        \/ ReadStreak(e) \/ WriteStreak(e)
    \/ ListBroken \/ ClearBroken \/ Midnight

StreakSpec == StreakInit /\ [][StreakNext]_streakVars

----------------------------------------------------------------------------
(* What the calendar shows. *)

\* The day getCalendar starts from, and the days it marks going back from there.
CalendarCursor ==
    CASE today = streak.last -> today
      [] today - streak.last = 1 -> today - 1
      [] OTHER -> today - 2
MarkedDays ==
    IF Shown(streak, today) = 0 THEN {}
    ELSE {d \in 1..MaxDay : CalendarCursor - streak.current < d /\ d <= CalendarCursor}

StreakTypeOK ==
    /\ today \in 1..MaxDay /\ days \subseteq 1..MaxDay
    /\ streak \in [current: 0..MaxDay, longest: 0..MaxDay, last: 0..MaxDay,
                   freezes: 0..1, collabs: 0..MaxCollabs]
    /\ awards \subseteq {Run(m) : m \in Milestones} \cup {Finisher}
    /\ \A e \in Exams : submit[e].pc \in {"idle", "begun", "read"}
    /\ sweep.pc \in {"idle", "listed"}
    /\ torn \in BOOLEAN

\* How many days in a row, up to this one, were studied.
RunTo(day) == Cardinality({d \in 1..day : d..day \subseteq days})

(***************************************************************************)
(* A streak is never longer than the days studied up to its last one,      *)
(* however submissions and sweeps overlap; and unless one of them was      *)
(* overtaken across a midnight, no day of an unbroken run is missing.      *)
(* A freezer bridges one missed day and no one holds two.  The days the    *)
(* calendar marks as the present streak were studied, unless a freezer     *)
(* bridged a gap in it.                                                    *)
(***************************************************************************)
StreakFollowsDays ==
    /\ StreakTypeOK
    /\ streak.current <= Cardinality({d \in days : d <= streak.last})
    /\ ~torn /\ Shown(streak, today) > 0 => RunTo(streak.last) <= streak.current
    /\ ~torn /\ streak.current = 0 /\ streak.last # Never
           => \E d \in days : d = streak.last /\ today - d >= 2
    /\ ~torn /\ RunTo(streak.last) = streak.current => MarkedDays \subseteq days

(***************************************************************************)
(* Every milestone the longest streak has passed was unlocked, and the     *)
(* collaboration badge as soon as the count reaches its target, although   *)
(* both are decided from rows read without a lock (scoring-engine.ts).     *)
(***************************************************************************)
AwardsFollowCounts ==
    /\ \A m \in Milestones : streak.longest >= m => Run(m) \in awards
    /\ streak.collabs >= CollabTarget => Finisher \in awards

\* Streak and awards are those of the exams taken.
ProgressKept == StreakFollowsDays /\ AwardsFollowCounts
============================================================================

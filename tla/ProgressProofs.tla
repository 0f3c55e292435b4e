--------------------------- MODULE ProgressProofs ---------------------------
(***************************************************************************)
(* What holds of streaks, of the leaderboard and of the e-mails whatever   *)
(* the constants: a run of days says what was earned in it, every point is *)
(* in the running week or in one archived one, a board read from Redis in  *)
(* agreement is the database's, and nobody is mailed beyond the limits.    *)
(***************************************************************************)
EXTENDS Leaderboard, Streaks, Mail, FiniteSetTheorems, SequenceTheorems, TLAPS

----------------------------------------------------------------------------
(* Streaks.                                                                *)

LEMMA StreakConstants ==
    /\ IsFiniteSet(Exams) /\ Milestones \subseteq Nat /\ FirstFreezer \in Nat
    /\ FreezerInterval \in Nat \ {0} /\ CollabTarget \in Nat \ {0}
    /\ MaxDay \in Nat \ {0} /\ MaxCollabs \in Nat
BY StreakAssumption

\* The days of the run that ends on a day.
RunIn(S, n) == {d \in 1..n : d..n \subseteq S}

LEMMA RunFinite ==
    ASSUME NEW S, NEW n \in Nat
    PROVE  IsFiniteSet(RunIn(S, n)) /\ Cardinality(RunIn(S, n)) \in Nat
<1>1. RunIn(S, n) \subseteq 1..n BY DEF RunIn
<1>2. IsFiniteSet(1..n) BY FS_Interval
<1>3. IsFiniteSet(RunIn(S, n)) BY <1>1, <1>2, FS_Subset
<1>4. QED BY <1>3, FS_CardinalityType

\* A day studied after one that was not begins a run of its own.
LEMMA RunStarts ==
    ASSUME NEW S, NEW n \in Nat \ {0}, n - 1 \notin S
    PROVE  Cardinality(RunIn(S \cup {n}, n)) <= 1
<1>1. RunIn(S \cup {n}, n) \subseteq {n}
    <2> SUFFICES ASSUME NEW d \in 1..n, d..n \subseteq S \cup {n}, d # n PROVE FALSE
        BY DEF RunIn
    <2>1. n - 1 \in d..n /\ n - 1 # n OBVIOUS
    <2>2. QED BY <2>1
<1>2. IsFiniteSet({n}) /\ Cardinality({n}) = 1 BY FS_Singleton
<1>3. Cardinality(RunIn(S \cup {n}, n)) <= Cardinality({n}) BY <1>1, <1>2, FS_Subset
<1>4. QED BY <1>2, <1>3

\* A day studied adds at most itself to the run of the day before.
LEMMA RunGrows ==
    ASSUME NEW S, NEW n \in Nat \ {0}
    PROVE  Cardinality(RunIn(S \cup {n}, n)) <= Cardinality(RunIn(S, n - 1)) + 1
<1> DEFINE before == RunIn(S, n - 1)
<1>1. RunIn(S \cup {n}, n) \subseteq before \cup {n}
    <2> SUFFICES ASSUME NEW d \in 1..n, d..n \subseteq S \cup {n}, d # n
                 PROVE  d \in 1..(n - 1) /\ d..(n - 1) \subseteq S
        BY DEF RunIn
    <2>1. d \in 1..(n - 1) OBVIOUS
    <2>2. ASSUME NEW x \in d..(n - 1) PROVE x \in S
        <3>1. x \in d..n /\ x # n OBVIOUS
        <3>2. QED BY <3>1
    <2>3. QED BY <2>1, <2>2
<1>2. IsFiniteSet(before) /\ Cardinality(before) \in Nat BY RunFinite
<1>3. n \notin before BY DEF RunIn
<1>4. IsFiniteSet(before \cup {n}) /\ Cardinality(before \cup {n}) = Cardinality(before) + 1
    BY <1>2, <1>3, FS_AddElement
<1>5. Cardinality(RunIn(S \cup {n}, n)) <= Cardinality(before \cup {n})
    BY <1>1, <1>4, FS_Subset
<1>6. QED BY <1>4, <1>5

\* A day beyond the run, or already in it, leaves the run as it is.
LEMMA RunSame ==
    ASSUME NEW S, NEW n \in Nat, NEW m \in Nat, m \in S \/ n < m
    PROVE  RunIn(S \cup {m}, n) = RunIn(S, n)
<1>1. ASSUME NEW d \in 1..n, d..n \subseteq S \cup {m} PROVE d..n \subseteq S
    <2> SUFFICES ASSUME NEW x \in d..n PROVE x \in S OBVIOUS
    <2>1. x \in S \cup {m} BY <1>1
    <2>2. CASE n < m
        <3>1. x # m BY <2>2
        <3>2. QED BY <2>1, <3>1
    <2>3. QED BY <2>1, <2>2
<1>2. QED BY <1>1 DEF RunIn

\* As many days back as the run is long, every day was studied.
LEMMA RunMarked ==
    ASSUME NEW S, NEW n \in Nat, NEW d \in 1..n, n - Cardinality(RunIn(S, n)) < d
    PROVE  d \in S
<1> DEFINE k == Cardinality(RunIn(S, n))
<1> SUFFICES ASSUME d \notin S PROVE FALSE OBVIOUS
<1>1. RunIn(S, n) \subseteq (d + 1)..n
    <2> SUFFICES ASSUME NEW x \in 1..n, x..n \subseteq S, x <= d PROVE FALSE
        BY DEF RunIn
    <2>1. d \in x..n OBVIOUS
    <2>2. QED BY <2>1
<1>2. IsFiniteSet((d + 1)..n) /\ Cardinality((d + 1)..n) = n - d
    <2>1. d + 1 \in Int /\ n \in Int OBVIOUS
    <2>2. IsFiniteSet((d + 1)..n)
          /\ Cardinality((d + 1)..n) = IF d + 1 > n THEN 0 ELSE n - (d + 1) + 1
        BY <2>1, FS_Interval
    <2>3. QED BY <2>2
<1>3. k <= n - d BY <1>1, <1>2, FS_Subset
<1>4. k \in Nat BY RunFinite
<1>5. QED BY <1>3, <1>4

\* Days up to a day: few, and one more when a later day is studied.
UpTo(S, n) == {d \in S : d <= n}

LEMMA UpToFinite ==
    ASSUME NEW S \in SUBSET (1..MaxDay), NEW n
    PROVE  IsFiniteSet(UpTo(S, n)) /\ Cardinality(UpTo(S, n)) \in 0..MaxDay
<1>1. UpTo(S, n) \subseteq 1..MaxDay BY DEF UpTo
<1>2. IsFiniteSet(1..MaxDay) /\ Cardinality(1..MaxDay) = MaxDay
    BY StreakConstants, FS_Interval
<1>3. IsFiniteSet(UpTo(S, n)) /\ Cardinality(UpTo(S, n)) <= Cardinality(1..MaxDay)
    BY <1>1, <1>2, FS_Subset
<1>4. Cardinality(UpTo(S, n)) \in Nat BY <1>3, FS_CardinalityType
<1>5. QED BY <1>2, <1>3, <1>4, StreakConstants

LEMMA UpToGrows ==
    ASSUME NEW S \in SUBSET (1..MaxDay), NEW T \in SUBSET (1..MaxDay), S \subseteq T, NEW n
    PROVE  Cardinality(UpTo(S, n)) <= Cardinality(UpTo(T, n))
<1>1. UpTo(S, n) \subseteq UpTo(T, n) BY DEF UpTo
<1>2. QED BY <1>1, UpToFinite, FS_Subset

LEMMA UpToLater ==
    ASSUME NEW S \in SUBSET (1..MaxDay), NEW day \in 1..MaxDay, NEW n \in 0..MaxDay
    PROVE  /\ 1 <= Cardinality(UpTo(S \cup {day}, day))
           /\ n < day => Cardinality(UpTo(S, n)) + 1 <= Cardinality(UpTo(S \cup {day}, day))
<1> DEFINE after == UpTo(S \cup {day}, day)
<1>1. S \cup {day} \in SUBSET (1..MaxDay) OBVIOUS
<1>2. IsFiniteSet(after) /\ Cardinality(after) \in Nat BY <1>1, UpToFinite, StreakConstants
<1>3. day \in after BY StreakConstants DEF UpTo
<1>4. {day} \subseteq after BY <1>3
<1>5. Cardinality({day}) <= Cardinality(after) BY <1>2, <1>4, FS_Subset
<1>6. Cardinality({day}) = 1 BY FS_Singleton
<1>7. ASSUME n < day PROVE Cardinality(UpTo(S, n)) + 1 <= Cardinality(after)
    <2>1. IsFiniteSet(UpTo(S, n)) /\ Cardinality(UpTo(S, n)) \in Nat
        BY UpToFinite, StreakConstants
    <2>2. day \notin UpTo(S, n) BY <1>7, StreakConstants DEF UpTo
    <2>3. /\ IsFiniteSet(UpTo(S, n) \cup {day})
          /\ Cardinality(UpTo(S, n) \cup {day}) = Cardinality(UpTo(S, n)) + 1
        BY <2>1, <2>2, FS_AddElement
    <2>4. UpTo(S, n) \cup {day} \subseteq after
        <3>1. ASSUME NEW d \in S, d <= n PROVE d <= day
            BY <1>7, <3>1, StreakConstants
        <3>2. QED BY <1>3, <3>1 DEF UpTo
    <2>5. Cardinality(UpTo(S, n) \cup {day}) <= Cardinality(after) BY <1>2, <2>4, FS_Subset
    <2>6. QED BY <2>3, <2>5
<1>8. QED BY <1>5, <1>6, <1>7

----------------------------------------------------------------------------

StreakRow == [current: 0..MaxDay, longest: 0..MaxDay, last: 0..MaxDay,
              freezes: 0..1, collabs: 0..MaxCollabs]
NotBegun == [pc: {"idle"}]
Begun == [pc: {"begun"}, day: 1..MaxDay, collab: BOOLEAN]
HasRead == [pc: {"read"}, day: 1..MaxDay, collab: BOOLEAN, row: StreakRow, met: BOOLEAN]

StreakShape ==
    /\ today \in 1..MaxDay /\ days \subseteq 1..MaxDay /\ streak \in StreakRow
    /\ awards \subseteq {Run(m) : m \in Milestones} \cup {Finisher}
    /\ submit \in [Exams -> NotBegun \cup Begun \cup HasRead]
    /\ sweep \in [pc: {"idle"}] \cup [pc: {"listed"}, day: 1..MaxDay, last: 0..MaxDay]
    /\ torn \in BOOLEAN

\* No one is ahead of the calendar.
NothingEarly ==
    /\ \A d \in days : d <= today
    /\ \A e \in Exams : submit[e].pc # "idle" => submit[e].day <= today

\* The collaboration exams counted and those still to be counted are within the bound.
Counting == {x \in Exams : submit[x].pc # "idle" /\ submit[x].collab}
CollabBudget == streak.collabs + Cardinality(Counting) <= MaxCollabs
BadgeKept == streak.collabs >= CollabTarget => Finisher \in awards

\* What holds of a row, in the database or read, however it was overtaken.
RowCovered(row) ==
    /\ row.current <= Cardinality(UpTo(days, row.last))
    /\ \A m \in Milestones : row.longest >= m => Run(m) \in awards
RowsCovered ==
    /\ RowCovered(streak)
    /\ \A e \in Exams : submit[e].pc = "read" => RowCovered(submit[e].row)

\* What an untorn history keeps of the row in the database, of the rows read and of
\* the row the sweep has listed.
RowLast(row) == row.last = Never \/ row.last \in days
RunWithin(row) == row.current > 0 => Cardinality(RunIn(days, row.last)) <= row.current
RestedSince(row, day) == row.current = 0 /\ row.last # Never => row.last + 2 <= day
DatabaseTrue ==
    /\ RowLast(streak) /\ RunWithin(streak)
    /\ \A d \in days : d <= streak.last
    /\ RestedSince(streak, today)
    /\ \A e \in Exams : submit[e].pc # "idle" => RestedSince(streak, submit[e].day)
ReadTrue(e) ==
    /\ RowLast(submit[e].row) /\ RunWithin(submit[e].row)
    /\ \A d \in days : d <= submit[e].row.last \/ d = submit[e].day
    /\ RestedSince(submit[e].row, submit[e].day)
    /\ streak.last = submit[e].row.last \/ streak.last = submit[e].day
ReadsTrue == \A e \in Exams : submit[e].pc = "read" /\ ~Overtaken(e) => ReadTrue(e)
SweepTrue == sweep.pc = "listed" => sweep.last + 2 <= sweep.day /\ sweep.day <= today

StreakInv ==
    /\ StreakShape /\ NothingEarly /\ CollabBudget /\ BadgeKept /\ RowsCovered /\ SweepTrue
    /\ ~torn => DatabaseTrue /\ ReadsTrue

----------------------------------------------------------------------------
(* What a submission makes of a row. *)

LEMMA NextIsRow ==
    ASSUME NEW row \in StreakRow, NEW day \in 1..MaxDay, NEW S \in SUBSET (1..MaxDay),
           row.current <= Cardinality(UpTo(S, row.last))
    PROVE  /\ NextCurrent(row, day) \in 1..MaxDay
           /\ NextCurrent(row, day) <= Cardinality(UpTo(S \cup {day}, day))
           /\ NextStreak(row, day) \in StreakRow
           /\ NextStreak(row, day).current = NextCurrent(row, day)
           /\ NextStreak(row, day).longest = Later(row.longest, NextCurrent(row, day))
           /\ NextStreak(row, day).last = day
           /\ NextStreak(row, day).collabs = row.collabs
<1> USE StreakConstants
<1> DEFINE next == NextCurrent(row, day)
           after == Cardinality(UpTo(S \cup {day}, day))
<1>1. /\ row.current \in 0..MaxDay /\ row.last \in 0..MaxDay /\ row.longest \in 0..MaxDay
      /\ row.freezes \in 0..1 /\ row.collabs \in 0..MaxCollabs
    BY DEF StreakRow
<1>2. 1 <= after /\ (row.last < day => Cardinality(UpTo(S, row.last)) + 1 <= after)
    BY <1>1, UpToLater
<1>3. after \in 0..MaxDay /\ Cardinality(UpTo(S, row.last)) \in 0..MaxDay
    <2>1. S \cup {day} \in SUBSET (1..MaxDay) OBVIOUS
    <2>2. QED BY <2>1, UpToFinite
<1>4. row.last = day => row.current <= after
    <2> SUFFICES ASSUME row.last = day PROVE row.current <= after OBVIOUS
    <2>1. S \cup {day} \in SUBSET (1..MaxDay) OBVIOUS
    <2>2. Cardinality(UpTo(S, day)) <= after BY <2>1, UpToGrows
    <2>3. QED BY <2>2, <1>1, <1>3
<1>5. next \in 1..MaxDay /\ next <= after
    <2> HIDE DEF after
    <2>1. CASE Status(row, day) = "ACTIVE"
        <3>1. next = Later(row.current, 1) BY <2>1 DEF NextCurrent
        <3>2. row.last = day /\ row.current > 0 BY <2>1, <1>1 DEF Status
        <3>3. next = row.current BY <3>1, <3>2, <1>1 DEF Later
        <3>4. QED BY <3>2, <3>3, <1>1, <1>4
    <2>2. CASE Status(row, day) = "AT_RISK"
        <3>1. next = Later(row.current, 1) + 1 BY <2>2 DEF NextCurrent
        <3>2. row.last < day /\ row.current > 0 BY <2>2, <1>1 DEF Status
        <3>3. next = row.current + 1 BY <3>1, <3>2, <1>1 DEF Later
        <3>4. QED BY <3>2, <3>3, <1>1, <1>2, <1>3
    <2>3. CASE Status(row, day) \notin {"ACTIVE", "AT_RISK"}
        <3>1. next = 1 BY <2>3 DEF NextCurrent
        <3>2. QED BY <3>1, <1>2
    <2>4. QED BY <2>1, <2>2, <2>3
<1>6. Later(row.longest, next) \in 0..MaxDay BY <1>1, <1>5 DEF Later
<1> DEFINE left == row.freezes - (IF Protected(row, day) THEN 1 ELSE 0) + FreezersAwarded(row, day)
<1>7. left \in 0..1
    <2>1. Protected(row, day) => row.freezes > 0
        <3>1. ASSUME Protected(row, day) PROVE row.freezes > 0
            <4>1. Status(row, day) = "AT_RISK" /\ day - row.last = 2 BY <3>1 DEF Protected
            <4>2. QED BY <4>1, <1>1 DEF Status
        <3>2. QED BY <3>1
    <2>2. FreezersAwarded(row, day) \in 0..1 /\ (row.freezes > 0 => FreezersAwarded(row, day) = 0)
        BY <1>1 DEF FreezersAwarded
    <2>3. CASE row.freezes = 0
        <3>1. ~Protected(row, day) BY <2>1, <2>3
        <3>2. QED BY <3>1, <2>2, <2>3
    <2>4. CASE row.freezes = 1
        BY <2>2, <2>4
    <2>5. QED BY <2>3, <2>4, <1>1
<1>8. NextStreak(row, day) = [row EXCEPT !.current = next, !.longest = Later(row.longest, next),
                                         !.last = day, !.freezes = left]
    BY DEF NextStreak
<1>9. day \in 0..MaxDay /\ next \in 0..MaxDay BY <1>5
<1>10. /\ NextStreak(row, day) \in StreakRow
       /\ NextStreak(row, day).current = next
       /\ NextStreak(row, day).longest = Later(row.longest, next)
       /\ NextStreak(row, day).last = day /\ NextStreak(row, day).collabs = row.collabs
    <2> HIDE DEF next, left
    <2>1. PICK l \in 0..MaxDay : l = Later(row.longest, next) BY <1>6
    <2>2. PICK c \in 0..MaxDay : c = next BY <1>9
    <2>3. PICK f \in 0..1 : f = left BY <1>7
    <2>4. PICK new : new = NextStreak(row, day) OBVIOUS
    <2>5. new = [row EXCEPT !.current = c, !.longest = l, !.last = day, !.freezes = f]
        BY <1>8, <2>1, <2>2, <2>3, <2>4
    <2>6. /\ new \in StreakRow
          /\ new.current = c /\ new.longest = l /\ new.last = day
          /\ new.collabs = row.collabs
        BY <2>5, <1>9 DEF StreakRow
    <2>7. QED BY <2>1, <2>2, <2>4, <2>6
<1>11. QED BY <1>5, <1>10 DEF next, after

\* A row that no other day has overtaken: what its day makes of it is no shorter than
\* the run that ends that day.
LEMMA NextFollowsRun ==
    ASSUME NEW row \in StreakRow, NEW day \in 1..MaxDay, NEW S \in SUBSET (1..MaxDay),
           row.last = Never \/ row.last \in S, row.last <= day,
           row.current > 0 => Cardinality(RunIn(S, row.last)) <= row.current,
           \A d \in S : d <= row.last \/ d = day,
           row.current = 0 /\ row.last # Never => row.last + 2 <= day,
           row.current <= Cardinality(UpTo(S, row.last))
    PROVE  Cardinality(RunIn(S \cup {day}, day)) <= NextCurrent(row, day)
<1> USE StreakConstants DEF Never
<1>1. row.current \in 0..MaxDay /\ row.last \in 0..MaxDay /\ row.freezes \in 0..1
    BY DEF StreakRow
<1>2. NextCurrent(row, day) \in 1..MaxDay BY NextIsRow
<1>3. Cardinality(RunIn(S \cup {day}, day)) \in Nat BY RunFinite
<1>4. row.last = 0 => row.current = 0
    <2> SUFFICES ASSUME row.last = 0 PROVE row.current = 0 OBVIOUS
    <2>1. UpTo(S, row.last) = {}
        <3>1. ASSUME NEW d \in S PROVE ~(d <= row.last)
            <4>1. d \in 1..MaxDay OBVIOUS
            <4>2. QED BY <4>1
        <3>2. QED BY <3>1 DEF UpTo
    <2>2. QED BY <1>1, <2>1, FS_EmptySet
<1>5. CASE day - 1 \notin S
    <2>1. Cardinality(RunIn(S \cup {day}, day)) <= 1 BY <1>5, RunStarts
    <2>2. QED BY <1>2, <1>3, <2>1
<1>6. CASE row.last = day
    <2>1. row.current > 0 BY <1>1, <1>6
    <2>2. day \in S BY <1>6
    <2>3. S \cup {day} = S BY <2>2
    <2>4. Status(row, day) = "ACTIVE" BY <1>1, <1>6, <2>1 DEF Status
    <2>5. NextCurrent(row, day) = row.current BY <1>1, <2>1, <2>4 DEF NextCurrent, Later
    <2>6. QED BY <2>1, <2>3, <2>5, <1>6
<1>7. CASE day - 1 \in S /\ row.last # day
    <2>1. row.last = day - 1 BY <1>1, <1>7
    <2>2. row.current > 0 BY <1>1, <2>1, <1>4, <1>7
    <2>3. Status(row, day) = "AT_RISK" BY <1>1, <2>1, <2>2, <1>4 DEF Status
    <2>4. NextCurrent(row, day) = row.current + 1 BY <1>1, <2>2, <2>3 DEF NextCurrent, Later
    <2>5. Cardinality(RunIn(S \cup {day}, day)) <= Cardinality(RunIn(S, day - 1)) + 1 BY RunGrows
    <2>6. Cardinality(RunIn(S, day - 1)) \in Nat
        <3>1. day - 1 \in Nat OBVIOUS
        <3>2. QED BY <3>1, RunFinite
    <2>7. Cardinality(RunIn(S, day - 1)) <= row.current BY <2>1, <2>2
    <2>8. QED BY <1>1, <1>3, <2>4, <2>5, <2>6, <2>7
<1>8. QED BY <1>5, <1>6, <1>7

----------------------------------------------------------------------------
(* Every step keeps the invariant. *)

LEMMA StreakBegins == StreakInit => StreakInv
<1> SUFFICES ASSUME StreakInit PROVE StreakInv OBVIOUS
<1> USE StreakConstants DEF StreakInit
<1>1. StreakShape
    <2>1. streak \in StreakRow BY DEF NewStreak, StreakRow, Never
    <2>2. submit \in [Exams -> NotBegun \cup Begun \cup HasRead] BY DEF NotBegun
    <2>7. today \in 1..MaxDay OBVIOUS
    <2>8. days \subseteq 1..MaxDay OBVIOUS
    <2>3. torn \in BOOLEAN OBVIOUS
    <2>4. awards \subseteq {Run(m) : m \in Milestones} \cup {Finisher} OBVIOUS
    <2>5. sweep \in [pc: {"idle"}] \cup [pc: {"listed"}, day: 1..MaxDay, last: 0..MaxDay] OBVIOUS
    <2>6. QED BY <2>1, <2>2, <2>3, <2>4, <2>5, <2>7, <2>8 DEF StreakShape
<1>2. NothingEarly BY DEF NothingEarly
<1>3. CollabBudget
    <2>1. Counting = {} BY DEF Counting
    <2>2. QED BY <2>1, FS_EmptySet DEF CollabBudget, NewStreak
<1>4. BadgeKept BY DEF BadgeKept, NewStreak
<1>5. RowsCovered
    <2>1. UpTo(days, streak.last) = {} BY DEF UpTo
    <2>2. RowCovered(streak)
        <3>1. \A m \in Milestones : m > 0 BY StreakAssumption
        <3>2. streak.current = 0 /\ streak.longest = 0 BY DEF NewStreak
        <3>3. streak.current <= Cardinality(UpTo(days, streak.last)) BY <2>1, <3>2, FS_EmptySet
        <3>4. QED BY <3>1, <3>2, <3>3 DEF RowCovered
    <2>3. QED BY <2>2 DEF RowsCovered
<1>6. SweepTrue BY DEF SweepTrue
<1>7. DatabaseTrue
    BY DEF DatabaseTrue, RowLast, RunWithin, RestedSince, NewStreak, Never
<1>8. ReadsTrue BY DEF ReadsTrue
<1>9. QED BY <1>1, <1>2, <1>3, <1>4, <1>5, <1>6, <1>7, <1>8 DEF StreakInv

LEMMA CountingFinite == IsFiniteSet(Counting) /\ Cardinality(Counting) \in Nat
<1>1. Counting \subseteq Exams BY DEF Counting
<1>2. IsFiniteSet(Counting) BY <1>1, StreakConstants, FS_Subset
<1>3. QED BY <1>2, FS_CardinalityType

LEMMA BeginKeepsStreak ==
    ASSUME StreakInv, NEW e \in Exams, NEW collab \in BOOLEAN, BeginSubmit(e, collab)
    PROVE  StreakInv'
<1> USE StreakConstants
<1>0. StreakShape BY DEF StreakInv
<1>1. PICK r \in Begun : r = [pc |-> "begun", day |-> today, collab |-> collab]
    BY <1>0 DEF StreakShape, Begun
<1>2. r.pc = "begun" /\ r.day = today /\ r.collab = collab BY <1>1
<1>3. /\ submit' = [submit EXCEPT ![e] = r] /\ submit[e].pc = "idle"
      /\ UNCHANGED <<today, days, streak, awards, sweep, torn>>
    BY <1>1 DEF BeginSubmit
<1>4. submit'[e] = r /\ \A x \in Exams \ {e} : submit'[x] = submit[x]
    BY <1>0, <1>3 DEF StreakShape
<1>5. StreakShape' BY <1>0, <1>3 DEF StreakShape
<1>6. NothingEarly' BY <1>0, <1>2, <1>3, <1>4 DEF StreakInv, NothingEarly, StreakShape
<1>7. CollabBudget'
    <2>1. CollabBudget BY DEF StreakInv
    <2>2. CASE collab
        <3>1. Counting' = Counting \cup {e} BY <1>2, <1>4, <2>2 DEF Counting
        <3>2. e \notin Counting BY <1>3 DEF Counting
        <3>3. Cardinality(Counting') = Cardinality(Counting) + 1
            BY <3>1, <3>2, CountingFinite, FS_AddElement
        <3>4. streak.collabs + Cardinality(Counting) < MaxCollabs
            BY <2>2 DEF BeginSubmit, Counting
        <3>5. streak.collabs \in Nat BY <1>0 DEF StreakShape, StreakRow
        <3>6. PICK n \in Nat : n = Cardinality(Counting) BY CountingFinite
        <3>7. streak.collabs + (n + 1) <= MaxCollabs BY <3>4, <3>5, <3>6
        <3>8. QED BY <3>3, <3>6, <3>7, <1>3 DEF CollabBudget
    <2>3. CASE ~collab
        <3>1. Counting' = Counting BY <1>2, <1>3, <1>4, <2>3 DEF Counting
        <3>2. QED BY <2>1, <3>1, <1>3 DEF CollabBudget
    <2>4. QED BY <2>2, <2>3
<1>8. BadgeKept' /\ SweepTrue' BY <1>3 DEF StreakInv, BadgeKept, SweepTrue
<1>9. RowsCovered' BY <1>2, <1>3, <1>4 DEF StreakInv, RowsCovered, RowCovered
<1>10. ASSUME ~torn PROVE DatabaseTrue' /\ ReadsTrue'
    <2>1. DatabaseTrue /\ ReadsTrue BY <1>10 DEF StreakInv
    <2>2. RestedSince(streak, today) /\ \A x \in Exams : submit[x].pc # "idle" => RestedSince(streak, submit[x].day)
        BY <2>1 DEF DatabaseTrue
    <2>3. \A x \in Exams : submit'[x].pc # "idle" => RestedSince(streak, submit'[x].day)
        BY <1>2, <1>4, <2>2
    <2>4. DatabaseTrue'
        BY <2>1, <2>3, <1>3 DEF DatabaseTrue, RowLast, RunWithin, RestedSince
    <2>5. ASSUME NEW x \in Exams, submit'[x].pc = "read" PROVE x # e /\ submit'[x] = submit[x]
        BY <1>2, <1>4, <2>5
    <2>6. ReadsTrue'
        BY <2>1, <2>5, <1>3 DEF ReadsTrue, ReadTrue, Overtaken, RowLast, RunWithin, RestedSince
    <2>7. QED BY <2>4, <2>6
<1>11. QED BY <1>3, <1>5, <1>6, <1>7, <1>8, <1>9, <1>10 DEF StreakInv

LEMMA ReadKeepsStreak ==
    ASSUME StreakInv, NEW e \in Exams, ReadStreak(e)
    PROVE  StreakInv'
<1> USE StreakConstants
<1>0. StreakShape BY DEF StreakInv
<1>1. PICK b \in Begun : b = submit[e]
    BY <1>0 DEF StreakShape, ReadStreak, NotBegun, HasRead
<1>2. b.day \in 1..MaxDay /\ b.collab \in BOOLEAN /\ b.pc = "begun" BY <1>1 DEF Begun
<1>3. streak \in StreakRow BY <1>0 DEF StreakShape
<1>4. PICK r \in HasRead :
          r = [pc |-> "read", day |-> b.day, collab |-> b.collab, row |-> streak, met |-> FALSE]
    BY <1>2, <1>3 DEF HasRead
<1>5. /\ r.pc = "read" /\ r.day = b.day /\ (r.collab <=> b.collab) /\ r.row = streak /\ ~r.met
    BY <1>4
<1>6. /\ submit' = [submit EXCEPT ![e] = r]
      /\ UNCHANGED <<today, days, streak, awards, sweep, torn>>
    BY <1>0, <1>1, <1>4 DEF ReadStreak, StreakShape
<1>7. submit'[e] = r /\ \A x \in Exams \ {e} : submit'[x] = submit[x]
    BY <1>0, <1>6 DEF StreakShape
<1>8. StreakShape' BY <1>0, <1>6 DEF StreakShape
<1>9. NothingEarly' BY <1>1, <1>2, <1>5, <1>6, <1>7 DEF StreakInv, NothingEarly
<1>10. CollabBudget'
    <2>1. Counting' = Counting BY <1>1, <1>2, <1>5, <1>6, <1>7 DEF Counting
    <2>2. QED BY <2>1, <1>6 DEF StreakInv, CollabBudget
<1>11. BadgeKept' /\ SweepTrue' BY <1>6 DEF StreakInv, BadgeKept, SweepTrue
<1>12. RowsCovered' BY <1>5, <1>6, <1>7 DEF StreakInv, RowsCovered, RowCovered
<1>13. ASSUME ~torn PROVE DatabaseTrue' /\ ReadsTrue'
    <2>1. DatabaseTrue /\ ReadsTrue BY <1>13 DEF StreakInv
    <2>2. \A x \in Exams : submit[x].pc # "idle" => RestedSince(streak, submit[x].day)
        BY <2>1 DEF DatabaseTrue
    <2>3. \A x \in Exams : submit'[x].pc # "idle" => RestedSince(streak, submit'[x].day)
        BY <1>1, <1>2, <1>5, <1>7, <2>2
    <2>4. DatabaseTrue'
        BY <2>1, <2>3, <1>6 DEF DatabaseTrue, RowLast, RunWithin, RestedSince
    <2>5. ReadTrue(e)'
        <3>1. RestedSince(streak, b.day) BY <1>1, <1>2, <2>2
        <3>2. QED BY <2>1, <3>1, <1>5, <1>6, <1>7 DEF ReadTrue, DatabaseTrue, RowLast, RunWithin, RestedSince
    <2>6. ASSUME NEW x \in Exams \ {e}, (submit[x].pc = "read" /\ ~Overtaken(x))'
          PROVE  ReadTrue(x)'
        <3>1. submit'[x] = submit[x] BY <1>7
        <3>2. submit[x].pc = "read" /\ ~Overtaken(x) BY <2>6, <3>1, <1>6 DEF Overtaken
        <3>3. ReadTrue(x) BY <2>1, <3>2 DEF ReadsTrue
        <3>4. QED BY <3>1, <3>3, <1>6 DEF ReadTrue, RowLast, RunWithin, RestedSince
    <2>7. QED BY <2>4, <2>5, <2>6 DEF ReadsTrue
<1>14. QED BY <1>6, <1>8, <1>9, <1>10, <1>11, <1>12, <1>13 DEF StreakInv

LEMMA ListKeepsStreak ==
    ASSUME StreakInv, ListBroken
    PROVE  StreakInv'
<1> USE StreakConstants
<1>0. StreakShape BY DEF StreakInv
<1>1. /\ today \in 1..MaxDay /\ streak.last \in 0..MaxDay /\ streak.current \in 0..MaxDay
    BY <1>0 DEF StreakShape, StreakRow
<1>2. PICK b : b = [pc |-> "listed", day |-> today, last |-> streak.last] OBVIOUS
<1>3. b \in [pc: {"listed"}, day: 1..MaxDay, last: 0..MaxDay] BY <1>1, <1>2
<1>4. b.pc = "listed" /\ b.day = today /\ b.last = streak.last BY <1>2
<1>5. sweep' = b /\ UNCHANGED <<today, days, streak, awards, submit, torn>>
    BY <1>2 DEF ListBroken
<1>6. streak.last + 2 <= today BY <1>1 DEF ListBroken, LooksBroken
<1>7. StreakShape' BY <1>0, <1>3, <1>5 DEF StreakShape
<1>8. SweepTrue' BY <1>1, <1>4, <1>5, <1>6 DEF SweepTrue
<1>9. /\ NothingEarly' /\ BadgeKept' /\ CollabBudget' /\ RowsCovered'
      /\ ~torn' => DatabaseTrue' /\ ReadsTrue'
    BY <1>5 DEF StreakInv, NothingEarly, BadgeKept, CollabBudget, Counting, RowsCovered, RowCovered,
                DatabaseTrue, ReadsTrue, ReadTrue, Overtaken, RowLast, RunWithin, RestedSince
<1>10. QED BY <1>7, <1>8, <1>9 DEF StreakInv

LEMMA ClearKeepsStreak ==
    ASSUME StreakInv, ClearBroken
    PROVE  StreakInv'
<1> USE StreakConstants
<1>0. StreakShape BY DEF StreakInv
<1>1. PICK b \in StreakRow : b = streak BY <1>0 DEF StreakShape
<1>2. PICK c : c = [b EXCEPT !.current = 0] OBVIOUS
<1>3. /\ c \in StreakRow /\ c.current = 0 /\ c.last = b.last /\ c.longest = b.longest
      /\ c.collabs = b.collabs
    BY <1>2 DEF StreakRow
<1>4. streak' = c /\ UNCHANGED <<today, days, awards, submit>> BY <1>1, <1>2 DEF ClearBroken
<1>5. StreakShape'
    <2>1. torn' \in BOOLEAN BY DEF ClearBroken
    <2>2. sweep' \in [pc: {"idle"}] BY DEF ClearBroken
    <2>3. QED BY <1>0, <1>3, <1>4, <2>1, <2>2 DEF StreakShape
<1>6. NothingEarly' BY <1>4 DEF StreakInv, NothingEarly
<1>7. BadgeKept' BY <1>1, <1>3, <1>4 DEF StreakInv, BadgeKept
<1>8. CollabBudget'
    <2>1. Counting' = Counting BY <1>4 DEF Counting
    <2>2. QED BY <2>1, <1>1, <1>3, <1>4 DEF StreakInv, CollabBudget
<1>9. RowsCovered'
    <2>1. RowsCovered BY DEF StreakInv
    <2>2. Cardinality(UpTo(days, b.last)) \in 0..MaxDay BY <1>0, UpToFinite DEF StreakShape
    <2>3. RowCovered(streak)'
        BY <2>1, <2>2, <1>1, <1>3, <1>4 DEF RowsCovered, RowCovered
    <2>4. QED BY <2>1, <2>3, <1>4 DEF RowsCovered, RowCovered
<1>10. SweepTrue' BY DEF ClearBroken, SweepTrue
<1>11. ASSUME ~torn' PROVE DatabaseTrue' /\ ReadsTrue'
    <2>1. /\ ~torn /\ streak.last = sweep.last
          /\ \A e \in Exams : submit[e].pc # "idle" => ~(submit[e].day < sweep.day)
        BY <1>11, <1>0 DEF ClearBroken, StreakShape
    <2>2. DatabaseTrue /\ ReadsTrue BY <2>1 DEF StreakInv
    <2>3. PICK w \in [pc: {"listed"}, day: 1..MaxDay, last: 0..MaxDay] : w = sweep
        BY <1>0 DEF ClearBroken, StreakShape
    <2>4. w.day \in 1..MaxDay /\ w.last \in 0..MaxDay /\ w.pc = "listed" OBVIOUS
    <2>5. b.last + 2 <= w.day /\ w.day <= today
        BY <1>1, <2>1, <2>3, <2>4 DEF StreakInv, SweepTrue
    <2>6. b.last \in 0..MaxDay /\ today \in 1..MaxDay BY <1>0 DEF StreakRow, StreakShape
    <2>7. \A e \in Exams : submit[e].pc # "idle" => submit[e].day \in 1..MaxDay
        BY <1>0 DEF StreakShape, Begun, HasRead, NotBegun
    <2>8. \A e \in Exams : submit[e].pc # "idle" => b.last + 2 <= submit[e].day
        BY <2>1, <2>3, <2>4, <2>5, <2>6, <2>7
    <2>9. RestedSince(streak, today)' BY <1>3, <1>4, <2>4, <2>5, <2>6 DEF RestedSince
    <2>10. \A e \in Exams : submit'[e].pc # "idle" => RestedSince(streak', submit'[e].day)
        BY <1>3, <1>4, <2>8 DEF RestedSince
    <2>11. DatabaseTrue'
        BY <1>1, <1>3, <1>4, <2>2, <2>9, <2>10 DEF DatabaseTrue, RowLast, RunWithin, RestedSince
    <2>12. ReadsTrue'
        BY <1>1, <1>3, <1>4, <2>2 DEF ReadsTrue, ReadTrue, Overtaken, RowLast, RunWithin, RestedSince
    <2>13. QED BY <2>11, <2>12
<1>12. QED BY <1>5, <1>6, <1>7, <1>8, <1>9, <1>10, <1>11 DEF StreakInv

LEMMA MidnightKeepsStreak ==
    ASSUME StreakInv, Midnight
    PROVE  StreakInv'
<1> USE StreakConstants
<1>0. StreakShape BY DEF StreakInv
<1>1. /\ today \in 1..MaxDay /\ today' = today + 1 /\ today' \in 1..MaxDay
      /\ UNCHANGED <<days, streak, awards, submit, sweep, torn>>
    BY <1>0 DEF StreakShape, Midnight
<1>2. StreakShape' BY <1>0, <1>1 DEF StreakShape
<1>3. NothingEarly'
    <2>1. \A d \in days : d \in 1..MaxDay /\ d <= today BY <1>0 DEF StreakInv, NothingEarly, StreakShape
    <2>2. \A e \in Exams : submit[e].pc # "idle" => submit[e].day \in 1..MaxDay /\ submit[e].day <= today
        BY <1>0 DEF StreakInv, NothingEarly, StreakShape, Begun, HasRead, NotBegun
    <2>3. \A d \in 1..MaxDay : d <= today => d <= today' BY <1>1
    <2>4. QED BY <1>1, <2>1, <2>2, <2>3 DEF NothingEarly
<1>4. SweepTrue'
    <2>1. sweep.pc = "listed" => sweep.day \in 1..MaxDay BY <1>0 DEF StreakShape
    <2>2. QED BY <1>1, <2>1 DEF StreakInv, SweepTrue
<1>5. BadgeKept' /\ CollabBudget' /\ RowsCovered'
    BY <1>1 DEF StreakInv, BadgeKept, CollabBudget, Counting, RowsCovered, RowCovered
<1>6. ASSUME ~torn' PROVE DatabaseTrue' /\ ReadsTrue'
    <2>1. DatabaseTrue /\ ReadsTrue BY <1>1, <1>6 DEF StreakInv
    <2>2. RestedSince(streak, today)'
        <3>1. streak.last \in 0..MaxDay BY <1>0 DEF StreakShape, StreakRow
        <3>2. QED BY <1>1, <2>1, <3>1 DEF DatabaseTrue, RestedSince
    <2>3. DatabaseTrue' BY <1>1, <2>1, <2>2 DEF DatabaseTrue, RowLast, RunWithin, RestedSince
    <2>4. ReadsTrue'
        BY <1>1, <2>1 DEF ReadsTrue, ReadTrue, Overtaken, RowLast, RunWithin, RestedSince
    <2>5. QED BY <2>3, <2>4
<1>7. QED BY <1>2, <1>3, <1>4, <1>5, <1>6 DEF StreakInv

\* A write on a day leaves what is known of a row that was read for that day, or that no
\* write met, as it was.
LEMMA OtherReadsKept ==
    ASSUME StreakInv, NEW e \in Exams, NEW x \in Exams \ {e}, NEW day \in 1..MaxDay,
           ~torn, days' = days \cup {day}, streak'.last = day,
           submit'[x] = submit[x] /\ (submit[x].pc = "read" => submit[x].day = day),
           submit[x].pc = "read", ~Overtaken(x)
    PROVE  ReadTrue(x)'
<1> USE StreakConstants
<1>0. StreakShape BY DEF StreakInv
<1>1. PICK r \in HasRead : r = submit[x] BY <1>0 DEF StreakShape, NotBegun, Begun
<1>2. r.row \in StreakRow /\ r.day = day /\ r.row.last \in 0..MaxDay /\ ~(r.row.last > day)
    BY <1>1 DEF HasRead, StreakRow, Overtaken
<1>3. ReadTrue(x) BY DEF StreakInv, ReadsTrue
<1>4. /\ RowLast(r.row) /\ RunWithin(r.row) /\ RestedSince(r.row, day)
      /\ \A d \in days : d <= r.row.last \/ d = day
    BY <1>1, <1>2, <1>3 DEF ReadTrue
<1>5. RowLast(r.row)' BY <1>4 DEF RowLast
<1>6. RunWithin(r.row)'
    <2>1. RunIn(days \cup {day}, r.row.last) = RunIn(days, r.row.last)
        <3>1. CASE r.row.last = day
            <4>1. day \in days BY <1>4, <3>1 DEF RowLast, Never
            <4>2. days \cup {day} = days BY <4>1
            <4>3. QED BY <4>2
        <3>2. CASE r.row.last < day
            <4>1. r.row.last \in Nat /\ day \in Nat BY <1>2
            <4>2. QED BY <3>2, <4>1, RunSame
        <3>3. QED BY <1>2, <3>1, <3>2
    <2>2. QED BY <1>4, <2>1 DEF RunWithin
<1>7. RestedSince(r.row, day)' BY <1>4 DEF RestedSince
<1>8. QED BY <1>1, <1>2, <1>4, <1>5, <1>6, <1>7 DEF ReadTrue

LEMMA WriteKeepsStreak ==
    ASSUME StreakInv, NEW e \in Exams, WriteStreak(e)
    PROVE  StreakInv'
<1> USE StreakConstants
<1>0. StreakShape /\ RowsCovered BY DEF StreakInv
<1>1. PICK r \in HasRead : r = submit[e] /\ r.pc = "read"
    BY <1>0 DEF StreakShape, WriteStreak, NotBegun, Begun
<1>2. PICK row \in StreakRow : row = r.row BY DEF HasRead
<1>3. PICK day \in 1..MaxDay : day = r.day BY DEF HasRead
<1>4. /\ row.current <= Cardinality(UpTo(days, row.last))
      /\ \A m \in Milestones : row.longest >= m => Run(m) \in awards
    BY <1>0, <1>1, <1>2 DEF RowsCovered, RowCovered
<1>5. days \in SUBSET (1..MaxDay) BY <1>0 DEF StreakShape
<1>6. PICK next \in 1..MaxDay : next = NextCurrent(row, day)
    BY <1>4, <1>5, NextIsRow
<1>7. PICK n \in StreakRow : n = NextStreak(row, day) BY <1>4, <1>5, NextIsRow
<1>8. /\ next <= Cardinality(UpTo(days \cup {day}, day))
      /\ n.current = next /\ n.longest = Later(row.longest, next) /\ n.last = day
    BY <1>4, <1>5, <1>6, <1>7, NextIsRow
<1>9. /\ streak' = [n EXCEPT !.collabs = Completions(e)]
      /\ awards' = awards \cup Unlocked(row, day) \cup CollabAwards(e)
      /\ days' = days \cup {day} /\ UNCHANGED <<today, sweep>>
    BY <1>1, <1>2, <1>3, <1>7 DEF WriteStreak
<1>10. /\ submit'[e] = [pc |-> "idle"]
       /\ \A x \in Exams \ {e} : submit'[x] =
              IF submit[x].pc = "read" /\ submit[x].day # day
              THEN [submit[x] EXCEPT !.met = TRUE] ELSE submit[x]
       /\ DOMAIN submit' = Exams /\ submit' = [x \in Exams |-> submit'[x]]
    BY <1>1, <1>3 DEF WriteStreak
<1>11. ASSUME NEW x \in Exams
       PROVE  /\ submit'[x] \in NotBegun \cup Begun \cup HasRead
              /\ x # e => /\ submit'[x].pc = submit[x].pc
                          /\ submit[x].pc # "idle" => /\ submit'[x].day = submit[x].day
                                                      /\ submit'[x].collab = submit[x].collab
                          /\ submit[x].pc = "read" => submit'[x].row = submit[x].row
                          /\ submit[x].pc = "read" /\ submit[x].day # day => submit'[x].met
                          /\ submit[x].pc = "read" /\ submit[x].day = day => submit'[x] = submit[x]
    <2>1. CASE x = e
        <3>1. submit'[e] \in NotBegun BY <1>10 DEF NotBegun
        <3>2. QED BY <2>1, <3>1
    <2>2. CASE x # e /\ submit[x].pc = "read" /\ submit[x].day # day
        <3>1. PICK b \in HasRead : b = submit[x] BY <1>0, <2>2 DEF StreakShape, NotBegun, Begun
        <3>2. PICK c : c = [b EXCEPT !.met = TRUE] OBVIOUS
        <3>3. /\ c \in HasRead /\ c.pc = b.pc /\ c.day = b.day /\ c.collab = b.collab /\ c.row = b.row
              /\ c.met = TRUE
            BY <3>2 DEF HasRead
        <3>4. submit'[x] = c BY <1>10, <2>2, <3>1, <3>2
        <3>5. QED BY <2>2, <3>1, <3>3, <3>4
    <2>3. CASE x # e /\ ~(submit[x].pc = "read" /\ submit[x].day # day)
        <3>1. submit'[x] = submit[x] BY <1>10, <2>3
        <3>2. submit[x] \in NotBegun \cup Begun \cup HasRead BY <1>0 DEF StreakShape
        <3>3. QED BY <2>3, <3>1, <3>2
    <2>4. QED BY <2>1, <2>2, <2>3
<1>12. PICK had \in 0..MaxCollabs : had = streak.collabs BY <1>0 DEF StreakShape, StreakRow
<1>13. PICK done : done = Completions(e) OBVIOUS
<1>14. /\ r.collab => done = had + 1
       /\ ~r.collab => done = had
    BY <1>1, <1>12, <1>13 DEF Completions
<1>15. done \in 0..MaxCollabs /\ done + Cardinality(Counting') <= MaxCollabs
    <2>1. PICK k \in Nat : k = Cardinality(Counting) BY CountingFinite
    <2>2. had + k <= MaxCollabs BY <1>12, <2>1 DEF StreakInv, CollabBudget
    <2>3. e \in Counting <=> r.collab BY <1>1 DEF Counting
    <2>4. Counting' = Counting \ {e} BY <1>10, <1>11 DEF Counting
    <2>5. CASE r.collab
        <3>1. /\ Cardinality(Counting \ {e}) = Cardinality(Counting) - 1
              /\ IsFiniteSet(Counting \ {e})
            BY <2>3, <2>5, CountingFinite, FS_RemoveElement
        <3>2. Cardinality(Counting \ {e}) \in Nat BY <3>1, FS_CardinalityType
        <3>3. QED BY <1>14, <2>1, <2>2, <2>4, <2>5, <3>1, <3>2
    <2>6. CASE ~r.collab
        <3>1. Counting \ {e} = Counting BY <2>3, <2>6
        <3>2. QED BY <1>14, <2>1, <2>2, <2>4, <2>6, <3>1
    <2>7. QED BY <2>5, <2>6
<1>16. PICK s : s = [n EXCEPT !.collabs = done] OBVIOUS
<1>17. /\ s \in StreakRow /\ s.collabs = done /\ s.current = n.current /\ s.longest = n.longest
       /\ s.last = n.last
    BY <1>15, <1>16 DEF StreakRow
<1>18. streak' = s BY <1>9, <1>13, <1>16
<1>19. StreakShape'
    <2>1. awards' \subseteq {Run(m) : m \in Milestones} \cup {Finisher}
        <3>1. Unlocked(row, day) \subseteq {Run(m) : m \in Milestones} BY DEF Unlocked
        <3>2. CollabAwards(e) \subseteq {Finisher} BY DEF CollabAwards
        <3>3. QED BY <1>0, <1>9, <3>1, <3>2 DEF StreakShape
    <2>2. submit' \in [Exams -> NotBegun \cup Begun \cup HasRead] BY <1>10, <1>11
    <2>3. torn' \in BOOLEAN BY DEF WriteStreak
    <2>4. QED BY <1>0, <1>5, <1>9, <1>17, <1>18, <2>1, <2>2, <2>3 DEF StreakShape
<1>20. NothingEarly'
    <2>1. NothingEarly BY DEF StreakInv
    <2>2. day <= today BY <1>1, <1>3, <2>1 DEF NothingEarly
    <2>3. \A d \in days' : d <= today' BY <1>9, <2>1, <2>2 DEF NothingEarly
    <2>4. \A x \in Exams : submit'[x].pc # "idle" => submit'[x].day <= today'
        BY <1>9, <1>10, <1>11, <2>1 DEF NothingEarly
    <2>5. QED BY <2>3, <2>4 DEF NothingEarly
<1>21. CollabBudget' BY <1>15, <1>17, <1>18 DEF CollabBudget
<1>22. BadgeKept'
    <2>1. CASE r.collab
        BY <1>1, <1>9, <1>13, <1>17, <1>18, <2>1 DEF BadgeKept, CollabAwards
    <2>2. CASE ~r.collab
        BY <1>9, <1>12, <1>14, <1>17, <1>18, <2>2 DEF StreakInv, BadgeKept
    <2>3. QED BY <2>1, <2>2
<1>23. RowsCovered'
    <2>1. RowCovered(streak)'
        <3>1. s.current <= Cardinality(UpTo(days', s.last)) BY <1>8, <1>9, <1>17
        <3>2. ASSUME NEW m \in Milestones, s.longest >= m PROVE Run(m) \in awards'
            <4>1. Later(row.longest, next) >= m BY <1>8, <1>17, <3>2
            <4>2. m \in Nat /\ row.longest \in 0..MaxDay BY DEF StreakRow
            <4>3. CASE row.longest >= m BY <1>4, <1>9, <4>3
            <4>4. CASE row.longest < m
                <5>1. Run(m) \in Unlocked(row, day) BY <1>6, <4>1, <4>4 DEF Unlocked
                <5>2. QED BY <1>9, <5>1
            <4>5. QED BY <4>2, <4>3, <4>4
        <3>3. QED BY <1>18, <3>1, <3>2 DEF RowCovered
    <2>2. ASSUME NEW x \in Exams, submit'[x].pc = "read" PROVE RowCovered(submit[x].row)'
        <3>1. x # e BY <1>10, <2>2
        <3>2. submit[x].pc = "read" /\ submit'[x].row = submit[x].row BY <1>11, <2>2, <3>1
        <3>3. PICK o \in StreakRow : o = submit[x].row
            BY <1>0, <3>2 DEF StreakShape, NotBegun, Begun, HasRead
        <3>4. RowCovered(o) BY <1>0, <3>2, <3>3 DEF RowsCovered
        <3>5. days' \in SUBSET (1..MaxDay) /\ days \subseteq days' BY <1>5, <1>9
        <3>6. Cardinality(UpTo(days, o.last)) <= Cardinality(UpTo(days', o.last))
            BY <1>5, <3>5, UpToGrows
        <3>7. /\ Cardinality(UpTo(days, o.last)) \in 0..MaxDay
              /\ Cardinality(UpTo(days', o.last)) \in 0..MaxDay
            BY <1>5, <3>5, UpToFinite
        <3>8. o.current \in 0..MaxDay BY DEF StreakRow
        <3>9. o.current <= Cardinality(UpTo(days', o.last))
            BY <3>4, <3>6, <3>7, <3>8 DEF RowCovered
        <3>10. \A m \in Milestones : o.longest >= m => Run(m) \in awards'
            BY <1>9, <3>4 DEF RowCovered
        <3>11. RowCovered(o)' BY <3>9, <3>10 DEF RowCovered
        <3>12. QED BY <3>2, <3>3, <3>11
    <2>3. QED BY <2>1, <2>2 DEF RowsCovered
<1>24. SweepTrue' BY <1>9 DEF StreakInv, SweepTrue
<1>25. ASSUME ~torn' PROVE DatabaseTrue' /\ ReadsTrue'
    <2>1. ~torn /\ ~Overtaken(e) BY <1>25, <1>0 DEF WriteStreak, StreakShape
    <2>2. DatabaseTrue /\ ReadsTrue BY <2>1 DEF StreakInv
    <2>3. ReadTrue(e) BY <1>1, <2>1, <2>2 DEF ReadsTrue
    <2>4. /\ RowLast(row) /\ RunWithin(row) /\ RestedSince(row, day)
          /\ \A d \in days : d <= row.last \/ d = day
        BY <1>1, <1>2, <1>3, <2>3 DEF ReadTrue
    <2>5. row.last \in 0..MaxDay /\ row.last <= day
        BY <1>1, <1>2, <1>3, <2>1 DEF Overtaken, StreakRow
    <2>6. Cardinality(RunIn(days \cup {day}, day)) <= next
        BY <1>4, <1>5, <1>6, <2>4, <2>5, NextFollowsRun DEF RowLast, RunWithin, RestedSince
    <2>7. RunWithin(streak)' BY <1>8, <1>9, <1>17, <1>18, <2>6 DEF RunWithin
    <2>8. RowLast(streak)' BY <1>8, <1>9, <1>17, <1>18 DEF RowLast
    <2>9. \A d \in days' : d <= streak'.last
        <3>1. \A d \in days : d \in 1..MaxDay BY <1>5
        <3>2. QED BY <1>8, <1>9, <1>17, <1>18, <2>4, <2>5, <3>1
    <2>10. streak'.current # 0 BY <1>8, <1>17, <1>18
    <2>11. DatabaseTrue' BY <2>7, <2>8, <2>9, <2>10 DEF DatabaseTrue, RestedSince
    <2>12. ASSUME NEW x \in Exams, (submit[x].pc = "read" /\ ~Overtaken(x))'
           PROVE  ReadTrue(x)'
        <3>1. x # e BY <1>10, <2>12
        <3>2. submit[x].pc = "read" BY <1>11, <2>12, <3>1
        <3>3. submit[x].day = day BY <1>11, <2>12, <3>1, <3>2 DEF Overtaken
        <3>4. submit'[x] = submit[x] BY <1>11, <3>1, <3>2, <3>3
        <3>5. ~Overtaken(x) BY <2>12, <3>4 DEF Overtaken
        <3>6. streak'.last = day BY <1>8, <1>17, <1>18
        <3>7. QED BY <1>9, <2>1, <3>1, <3>2, <3>3, <3>4, <3>5, <3>6, OtherReadsKept
    <2>13. QED BY <2>11, <2>12 DEF ReadsTrue
<1>26. QED BY <1>19, <1>20, <1>21, <1>22, <1>23, <1>24, <1>25 DEF StreakInv

----------------------------------------------------------------------------
(* The invariant implies what the run checks. *)

LEMMA StreakInvMeansKept == StreakInv => ProgressKept
<1> SUFFICES ASSUME StreakInv PROVE ProgressKept OBVIOUS
<1> USE StreakConstants
<1>0. StreakShape /\ RowsCovered BY DEF StreakInv
<1>1. StreakTypeOK
    <2>1. \A e \in Exams : submit[e].pc \in {"idle", "begun", "read"}
        BY <1>0 DEF StreakShape, NotBegun, Begun, HasRead
    <2>2. sweep.pc \in {"idle", "listed"} BY <1>0 DEF StreakShape
    <2>3. streak \in [current: 0..MaxDay, longest: 0..MaxDay, last: 0..MaxDay,
                      freezes: 0..1, collabs: 0..MaxCollabs]
        BY <1>0 DEF StreakShape, StreakRow
    <2>4. QED BY <1>0, <2>1, <2>2, <2>3 DEF StreakTypeOK, StreakShape
<1>2. PICK row \in StreakRow : row = streak BY <1>0 DEF StreakShape
<1>3. row.current \in 0..MaxDay /\ row.last \in 0..MaxDay /\ today \in 1..MaxDay /\ days \in SUBSET (1..MaxDay)
    BY <1>0 DEF StreakShape, StreakRow
<1>4. RowCovered(row) BY <1>0, <1>2 DEF RowsCovered
<1>5. row.current <= Cardinality({d \in days : d <= row.last})
    BY <1>4 DEF RowCovered, UpTo
<1>6. RunTo(row.last) = Cardinality(RunIn(days, row.last)) BY DEF RunTo, RunIn
<1>7. ASSUME ~torn
      PROVE  /\ row.current > 0 => RunTo(row.last) <= row.current
             /\ row.current = 0 /\ row.last # Never => row.last \in days /\ today - row.last >= 2
             /\ row.last <= today
    <2>1. DatabaseTrue BY <1>7 DEF StreakInv
    <2>2. RowLast(row) /\ RunWithin(row) /\ RestedSince(row, today) BY <1>2, <2>1 DEF DatabaseTrue
    <2>3. row.last <= today
        <3>1. \A d \in days : d <= today BY DEF StreakInv, NothingEarly
        <3>2. QED BY <1>3, <2>2, <3>1 DEF RowLast, Never
    <2>4. QED BY <1>3, <1>6, <2>2, <2>3 DEF RowLast, RunWithin, RestedSince
<1>8. Shown(row, today) > 0 => row.current > 0 /\ Shown(row, today) = row.current
    BY <1>3 DEF Shown, Status
<1>9. ASSUME ~torn, RunTo(row.last) = row.current PROVE MarkedDays \subseteq days
    <2> SUFFICES ASSUME NEW d \in MarkedDays PROVE d \in days OBVIOUS
    <2>1. /\ Shown(row, today) # 0 /\ d \in 1..MaxDay
          /\ CalendarCursor - row.current < d /\ d <= CalendarCursor
        BY <1>2 DEF MarkedDays
    <2>2. Status(row, today) \in {"ACTIVE", "AT_RISK"} BY <2>1 DEF Shown
    <2>3. today - row.last \in {0, 1, 2} BY <1>3, <2>2 DEF Status
    <2>4. CalendarCursor = row.last BY <1>2, <1>3, <2>3 DEF CalendarCursor
    <2>5. d \in 1..row.last /\ row.last - row.current < d BY <1>3, <2>1, <2>4
    <2>6. row.last - Cardinality(RunIn(days, row.last)) < d BY <1>6, <1>9, <2>5
    <2>7. row.last \in Nat BY <1>3
    <2>8. QED BY <2>5, <2>6, <2>7, RunMarked
<1>10. StreakFollowsDays
    <2>1. streak.current <= Cardinality({d \in days : d <= streak.last}) BY <1>2, <1>5
    <2>2. ~torn /\ Shown(streak, today) > 0 => RunTo(streak.last) <= streak.current
        BY <1>2, <1>7, <1>8
    <2>3. ~torn /\ streak.current = 0 /\ streak.last # Never
              => \E d \in days : d = streak.last /\ today - d >= 2
        BY <1>2, <1>7
    <2>4. ~torn /\ RunTo(streak.last) = streak.current => MarkedDays \subseteq days
        BY <1>2, <1>9
    <2>5. QED BY <1>1, <2>1, <2>2, <2>3, <2>4 DEF StreakFollowsDays
<1>11. AwardsFollowCounts
    BY <1>2, <1>4 DEF StreakInv, BadgeKept, RowCovered, AwardsFollowCounts
<1>12. QED BY <1>10, <1>11 DEF ProgressKept

\* However submissions, sweeps and midnights overlap, a streak is no longer than the days
\* studied up to its last one; and unless one of them wrote from a row another day had
\* changed, no day of an unbroken run is missing, a cleared streak was two days old and the
\* calendar marks days that were studied.  Every milestone passed and the badge of the
\* collaborations are unlocked (updateUserStats, reconcileBrokenStreaks, getCalendar).
THEOREM StreaksAreKept == StreakSpec => []ProgressKept
<1>1. StreakInit => StreakInv BY StreakBegins
<1>2. StreakInv /\ [StreakNext]_streakVars => StreakInv'
    <2> SUFFICES ASSUME StreakInv, [StreakNext]_streakVars PROVE StreakInv' OBVIOUS
    <2>1. CASE \E e \in Exams, collab \in BOOLEAN : BeginSubmit(e, collab)
        BY <2>1, BeginKeepsStreak
    <2>2. CASE \E e \in Exams : ReadStreak(e) BY <2>2, ReadKeepsStreak
    <2>3. CASE \E e \in Exams : WriteStreak(e) BY <2>3, WriteKeepsStreak
    <2>4. CASE ListBroken BY <2>4, ListKeepsStreak
    <2>5. CASE ClearBroken BY <2>5, ClearKeepsStreak
    <2>6. CASE Midnight BY <2>6, MidnightKeepsStreak
    <2>7. CASE UNCHANGED streakVars
        BY <2>7 DEF streakVars, StreakInv, StreakShape, NothingEarly, CollabBudget, Counting,
            BadgeKept, RowsCovered, RowCovered, SweepTrue, DatabaseTrue, ReadsTrue, ReadTrue,
            Overtaken, RowLast, RunWithin, RestedSince
    <2>8. QED BY <2>1, <2>2, <2>3, <2>4, <2>5, <2>6, <2>7 DEF StreakNext
<1>3. StreakInv => ProgressKept BY StreakInvMeansKept
<1>4. QED BY <1>1, <1>2, <1>3, PTL DEF StreakSpec

----------------------------------------------------------------------------
(* Listings: a strict total order lists a finite set in exactly one way.    *)

Ahead(R, S, x) == {y \in S : <<y, x>> \in R}
Orders(R, S) ==
    /\ \A x \in S : <<x, x>> \notin R
    /\ \A x, y, z \in S : <<x, y>> \in R /\ <<y, z>> \in R => <<x, z>> \in R
    /\ \A x, y \in S : x # y => <<x, y>> \in R \/ <<y, x>> \in R

\* s lists S, n elements, in the order of R; and has everyone once.
Lists(s, R, S, n) == s \in [1..n -> S] /\ \A i, j \in 1..n : i < j => <<s[i], s[j]>> \in R
Once(s, S, n) == /\ \A i, j \in 1..n : s[i] = s[j] => i = j
                 /\ \A x \in S : \E k \in 1..n : s[k] = x

LEMMA AheadFinite ==
    ASSUME NEW S, IsFiniteSet(S), NEW R, NEW x
    PROVE  IsFiniteSet(Ahead(R, S, x)) /\ Cardinality(Ahead(R, S, x)) \in Nat
<1>1. Ahead(R, S, x) \subseteq S BY DEF Ahead
<1>2. IsFiniteSet(Ahead(R, S, x)) BY <1>1, FS_Subset
<1>3. QED BY <1>2, FS_CardinalityType

LEMMA AheadGrows ==
    ASSUME NEW S, IsFiniteSet(S), NEW R, Orders(R, S), NEW x \in S, NEW y \in S, <<x, y>> \in R
    PROVE  Cardinality(Ahead(R, S, x)) < Cardinality(Ahead(R, S, y))
<1> DEFINE A == Ahead(R, S, x)
           B == Ahead(R, S, y)
<1>1. A \cup {x} \subseteq B BY DEF Ahead, Orders
<1>2. x \notin A BY DEF Ahead, Orders
<1>3. /\ IsFiniteSet(A) /\ Cardinality(A) \in Nat
      /\ IsFiniteSet(B) /\ Cardinality(B) \in Nat
    BY AheadFinite
<1>4. Cardinality(A \cup {x}) = Cardinality(A) + 1 BY <1>2, <1>3, FS_AddElement
<1>5. Cardinality(A \cup {x}) <= Cardinality(B) BY <1>1, <1>3, FS_Subset
<1>6. QED BY <1>3, <1>4, <1>5

LEMMA ListingExists ==
    ASSUME NEW S, IsFiniteSet(S), NEW R, Orders(R, S)
    PROVE  \E s : Lists(s, R, S, Cardinality(S))
<1>1. PICK n \in Nat : n = Cardinality(S) BY FS_CardinalityType
<1> DEFINE place == [x \in S |-> Cardinality(Ahead(R, S, x)) + 1]
<1>2. \A x \in S : Cardinality(Ahead(R, S, x)) \in Nat /\ place[x] = Cardinality(Ahead(R, S, x)) + 1
    BY AheadFinite
<1>3. place \in [S -> 1..n]
    <2> SUFFICES ASSUME NEW x \in S PROVE Cardinality(Ahead(R, S, x)) + 1 \in 1..n OBVIOUS
    <2>1. Ahead(R, S, x) \subseteq S \ {x} BY DEF Ahead, Orders
    <2>2. IsFiniteSet(S \ {x}) /\ Cardinality(S \ {x}) = n - 1 BY <1>1, FS_RemoveElement
    <2>3. Cardinality(Ahead(R, S, x)) <= Cardinality(S \ {x}) BY <2>1, <2>2, FS_Subset
    <2>4. QED BY <1>2, <2>2, <2>3
<1>4. \A x, y \in S : <<x, y>> \in R => place[x] < place[y]
    BY <1>2, AheadGrows
<1>5. \A x, y \in S : place[x] = place[y] => x = y
    <2> SUFFICES ASSUME NEW x \in S, NEW y \in S, x # y PROVE place[x] # place[y] OBVIOUS
    <2>1. <<x, y>> \in R \/ <<y, x>> \in R BY DEF Orders
    <2>2. place[x] < place[y] \/ place[y] < place[x] BY <1>4, <2>1
    <2>3. place[x] \in Nat /\ place[y] \in Nat BY <1>2
    <2>4. QED BY <2>2, <2>3
<1> HIDE DEF place
<1>6. place \in Injection(S, 1..n) BY <1>3, <1>5 DEF Injection, IsInjective
<1>7. IsFiniteSet(1..n) /\ Cardinality(1..n) = n BY FS_Interval
<1>8. place \in Surjection(S, 1..n) BY <1>1, <1>6, <1>7, FS_Injection
<1>9. \A i \in 1..n : \E x \in S : place[x] = i BY <1>8 DEF Surjection
<1> DEFINE s == [i \in 1..n |-> CHOOSE x \in S : place[x] = i]
<1>10. \A i \in 1..n : s[i] \in S /\ place[s[i]] = i BY <1>9
<1>11. s \in [1..n -> S] BY <1>10
<1> HIDE DEF s
<1>12. \A i, j \in 1..n : i < j => <<s[i], s[j]>> \in R
    <2> SUFFICES ASSUME NEW i \in 1..n, NEW j \in 1..n, i < j PROVE <<s[i], s[j]>> \in R OBVIOUS
    <2>1. s[i] \in S /\ s[j] \in S /\ place[s[i]] = i /\ place[s[j]] = j BY <1>10
    <2>2. s[i] # s[j] BY <2>1
    <2>3. ~(<<s[j], s[i]>> \in R)
        <3> SUFFICES ASSUME <<s[j], s[i]>> \in R PROVE FALSE OBVIOUS
        <3>1. place[s[j]] < place[s[i]] BY <1>4, <2>1
        <3>2. QED BY <2>1, <3>1
    <2>4. QED BY <2>1, <2>2, <2>3 DEF Orders
<1>13. QED BY <1>1, <1>11, <1>12 DEF Lists

\* Everyone is listed, once, and one's place is one more than how many are ahead.
LEMMA ListingPlaces ==
    ASSUME NEW S, IsFiniteSet(S), NEW R, Orders(R, S),
           NEW n, n = Cardinality(S), NEW s, Lists(s, R, S, n)
    PROVE  Once(s, S, n) /\ \A k \in 1..n : Cardinality(Ahead(R, S, s[k])) = k - 1
<1>0. n \in Nat BY FS_CardinalityType
<1> USE DEF Lists
<1>1. \A i, j \in 1..n : s[i] = s[j] => i = j
    <2> SUFFICES ASSUME NEW i \in 1..n, NEW j \in 1..n, i # j PROVE s[i] # s[j] OBVIOUS
    <2>1. i < j \/ j < i OBVIOUS
    <2>2. <<s[i], s[j]>> \in R \/ <<s[j], s[i]>> \in R BY <2>1
    <2>3. QED BY <2>2 DEF Orders
<1>2. s \in Injection(1..n, S) BY <1>1 DEF Injection, IsInjective
<1>3. IsFiniteSet(1..n) /\ Cardinality(1..n) = n BY <1>0, FS_Interval
<1>4. s \in Surjection(1..n, S) BY <1>2, <1>3, FS_Injection
<1>5. \A x \in S : \E k \in 1..n : s[k] = x BY <1>4 DEF Surjection
<1>6. ASSUME NEW k \in 1..n PROVE Cardinality(Ahead(R, S, s[k])) = k - 1
    <2> DEFINE before == [i \in 1..(k - 1) |-> s[i]]
    <2>1. \A i \in 1..(k - 1) : i \in 1..n /\ i < k BY <1>0
    <2>2. before \in [1..(k - 1) -> Ahead(R, S, s[k])]
        BY <2>1 DEF Ahead
    <2>3. \A i, j \in 1..(k - 1) : before[i] = before[j] => i = j BY <1>1, <2>1
    <2>4. \A x \in Ahead(R, S, s[k]) : \E i \in 1..(k - 1) : before[i] = x
        <3> SUFFICES ASSUME NEW x \in S, <<x, s[k]>> \in R PROVE \E i \in 1..(k - 1) : s[i] = x
            BY DEF Ahead
        <3>1. PICK i \in 1..n : s[i] = x BY <1>5
        <3>2. i # k BY <3>1 DEF Orders
        <3>3. ~(k < i)
            <4> SUFFICES ASSUME k < i PROVE FALSE OBVIOUS
            <4>1. <<s[k], s[i]>> \in R OBVIOUS
            <4>2. <<s[k], s[k]>> \in R BY <3>1, <4>1 DEF Orders
            <4>3. QED BY <4>2 DEF Orders
        <3>4. i \in 1..(k - 1) BY <3>2, <3>3
        <3>5. QED BY <3>1, <3>4
    <2> HIDE DEF before
    <2>5. before \in Bijection(1..(k - 1), Ahead(R, S, s[k]))
        BY <2>2, <2>3, <2>4 DEF Bijection, Injection, Surjection, IsInjective
    <2>6. ExistsBijection(1..(k - 1), Ahead(R, S, s[k])) BY <2>5 DEF ExistsBijection
    <2>7. k - 1 \in Nat OBVIOUS
    <2>8. QED BY <2>6, <2>7, FS_CountingElements
<1>7. QED BY <1>1, <1>5, <1>6 DEF Once

----------------------------------------------------------------------------
(* The three orders of the leaderboard. *)

LEMMA BoardConstants ==
    /\ Users \subseteq Nat /\ IsFiniteSet(Users) /\ IsFiniteSet(Workers)
    /\ MaxAttempts_ \in Nat \ {0} /\ TieBuffer \in Nat \ {0} /\ MaxWeek \in Nat \ {0}
    /\ MaxPoints \in Nat /\ MaxEvents \in Nat /\ MaxOutages \in Nat
BY BoardAssumption

LEMMA BetterOrders ==
    ASSUME NEW S \in SUBSET Nat, NEW p, NEW q, \A u \in S : p[u] \in Nat /\ q[u] \in Nat,
           NEW R, R = {e \in S \X S : Better(e[1], e[2], p, q)}
    PROVE  Orders(R, S) /\ \A u, v \in S : <<u, v>> \in R <=> Better(u, v, p, q)
<1>1. \A u, v \in S : <<u, v>> \in R <=> Better(u, v, p, q) OBVIOUS
<1>2. \A u \in S : ~Better(u, u, p, q) BY DEF Better
<1>3. \A u, v, w \in S : Better(u, v, p, q) /\ Better(v, w, p, q) => Better(u, w, p, q)
    <2> SUFFICES ASSUME NEW u \in S, NEW v \in S, NEW w \in S,
                        Better(u, v, p, q), Better(v, w, p, q)
                 PROVE  Better(u, w, p, q)
        OBVIOUS
    <2>1. /\ p[u] \in Nat /\ p[v] \in Nat /\ p[w] \in Nat
          /\ q[u] \in Nat /\ q[v] \in Nat /\ q[w] \in Nat
        OBVIOUS
    <2>2. QED BY <2>1 DEF Better
<1>4. \A u, v \in S : u # v => Better(u, v, p, q) \/ Better(v, u, p, q)
    <2> SUFFICES ASSUME NEW u \in S, NEW v \in S, u # v
                 PROVE  Better(u, v, p, q) \/ Better(v, u, p, q)
        OBVIOUS
    <2>1. /\ p[u] \in Nat /\ p[v] \in Nat /\ q[u] \in Nat /\ q[v] \in Nat /\ u \in Nat /\ v \in Nat
        OBVIOUS
    <2>2. QED BY <2>1 DEF Better
<1>5. QED BY <1>1, <1>2, <1>3, <1>4 DEF Orders


\* s lists S by primary and secondary points, best first.
Counts(S, p, q) == \A u \in S : p[u] \in Nat /\ q[u] \in Nat
BestFirst(s, S, p, q, n) ==
    s \in [1..n -> S] /\ \A i, j \in 1..n : i < j => Better(s[i], s[j], p, q)
InPlace(s, S, p, q, n) ==
    \A k \in 1..n : Cardinality({v \in S : Better(v, s[k], p, q)}) = k - 1

LEMMA RankedLists ==
    ASSUME NEW S \in SUBSET Nat, IsFiniteSet(S), NEW p, NEW q, Counts(S, p, q)
    PROVE  BestFirst(Ranked(S, p, q), S, p, q, Cardinality(S))
<1>1. PICK R : R = {e \in S \X S : Better(e[1], e[2], p, q)} OBVIOUS
<1>2. Orders(R, S) /\ \A u, v \in S : <<u, v>> \in R <=> Better(u, v, p, q)
    BY <1>1, BetterOrders DEF Counts
<1>3. \E s : Lists(s, R, S, Cardinality(S)) BY <1>2, ListingExists
<1>4. \E s \in [1..Cardinality(S) -> S] :
          \A i, j \in 1..Cardinality(S) : i < j => Better(s[i], s[j], p, q)
    BY <1>2, <1>3 DEF Lists
<1>5. QED BY <1>4, Zenon DEF Ranked, Sorted, BestFirst

LEMMA RankedPlaces ==
    ASSUME NEW S \in SUBSET Nat, IsFiniteSet(S), NEW p, NEW q, Counts(S, p, q),
           NEW n, n = Cardinality(S), NEW s, BestFirst(s, S, p, q, n)
    PROVE  Once(s, S, n) /\ InPlace(s, S, p, q, n)
<1>1. PICK R : R = {e \in S \X S : Better(e[1], e[2], p, q)} OBVIOUS
<1>2. Orders(R, S) /\ \A u, v \in S : <<u, v>> \in R <=> Better(u, v, p, q)
    BY <1>1, BetterOrders DEF Counts
<1>3. Lists(s, R, S, n) BY <1>2 DEF Lists, BestFirst
<1>4. \A k \in 1..n : {v \in S : Better(v, s[k], p, q)} = Ahead(R, S, s[k])
    BY <1>2 DEF Ahead, BestFirst
<1>5. Once(s, S, n) /\ \A k \in 1..n : Cardinality(Ahead(R, S, s[k])) = k - 1
    BY <1>2, <1>3, ListingPlaces
<1>6. QED BY <1>4, <1>5 DEF InPlace

\* Ids in ascending order.
LEMMA AscendingOrders ==
    ASSUME NEW S \in SUBSET Nat, NEW R, R = {e \in S \X S : e[1] < e[2]}
    PROVE  Orders(R, S) /\ \A u, v \in S : <<u, v>> \in R <=> u < v
<1>1. \A u, v \in S : <<u, v>> \in R <=> u < v OBVIOUS
<1>2. \A x \in S : ~(x < x) OBVIOUS
<1>3. \A x, y, z \in S : x < y /\ y < z => x < z OBVIOUS
<1>4. \A x, y \in S : x # y => x < y \/ y < x OBVIOUS
<1>5. QED BY <1>1, <1>2, <1>3, <1>4 DEF Orders

LEMMA AscendingExists ==
    ASSUME NEW S \in SUBSET Nat, IsFiniteSet(S), NEW n, n = Cardinality(S)
    PROVE  /\ \E t \in [1..n -> S] : \A i, j \in 1..n : i < j => t[i] < t[j]
           /\ \A s \in [1..n -> S] : (\A i, j \in 1..n : i < j => s[i] < s[j]) => Once(s, S, n)
<1>1. PICK R : R = {e \in S \X S : e[1] < e[2]} OBVIOUS
<1>2. Orders(R, S) /\ \A u, v \in S : <<u, v>> \in R <=> u < v BY <1>1, AscendingOrders
<1>3. PICK t : Lists(t, R, S, n) BY <1>2, ListingExists
<1>4. t \in [1..n -> S] /\ \A i \in 1..n : t[i] \in S BY <1>3 DEF Lists
<1>5. \A i, j \in 1..n : i < j => t[i] < t[j] BY <1>2, <1>3, <1>4 DEF Lists
<1>6. ASSUME NEW s \in [1..n -> S], \A i, j \in 1..n : i < j => s[i] < s[j]
      PROVE  Once(s, S, n)
    <2>1. \A i \in 1..n : s[i] \in S OBVIOUS
    <2>2. Lists(s, R, S, n) BY <1>2, <1>6, <2>1 DEF Lists
    <2>3. QED BY <1>2, <2>2, ListingPlaces
<1>7. QED BY <1>4, <1>5, <1>6

LEMMA Ascending ==
    ASSUME NEW S \in SUBSET Nat, IsFiniteSet(S), NEW s, s = Sorted(S, <)
    PROVE  s \in [1..Cardinality(S) -> S] /\ Once(s, S, Cardinality(S))
<1>1. PICK n : n = Cardinality(S) OBVIOUS
<1>2. s = CHOOSE t \in [1..n -> S] : \A i, j \in 1..n : i < j => t[i] < t[j]
    BY <1>1, Zenon DEF Sorted
<1>3. \E t \in [1..n -> S] : \A i, j \in 1..n : i < j => t[i] < t[j]
    BY <1>1, AscendingExists, Zenon
<1>4. s \in [1..n -> S] /\ \A i, j \in 1..n : i < j => s[i] < s[j]
    BY <1>2, <1>3, Zenon
<1>5. \A t \in [1..n -> S] : (\A i, j \in 1..n : i < j => t[i] < t[j]) => Once(t, S, n)
    BY <1>1, AscendingExists, Zenon
<1>6. Once(s, S, n) BY <1>4, <1>5, Zenon
<1>7. QED BY <1>1, <1>4, <1>6, Zenon

----------------------------------------------------------------------------
(* What a board shows, from the database and from Redis. *)

LEMMA UserSets ==
    ASSUME NEW S \in SUBSET Users
    PROVE  S \in SUBSET Nat /\ IsFiniteSet(S) /\ Cardinality(S) \in Nat
BY BoardConstants, FS_Subset, FS_CardinalityType

\* The rank of whoever has points is the place on the board.
LEMMA RankIsPlace ==
    ASSUME NEW p \in [Users -> Nat], NEW q \in [Users -> Nat], NEW u \in Users, p[u] > 0,
           NEW top, top = Ranked({v \in Users : p[v] > 0}, p, q)
    PROVE  top[RankOf(u, p, q)] = u
<1>1. PICK S : S = {v \in Users : p[v] > 0} OBVIOUS
<1>2. S \in SUBSET Nat /\ IsFiniteSet(S) /\ Cardinality(S) \in Nat BY <1>1, UserSets
<1>3. PICK n \in Nat : n = Cardinality(S) BY <1>2
<1>4. Counts(S, p, q) BY <1>1 DEF Counts
<1>5. BestFirst(top, S, p, q, n) BY <1>1, <1>2, <1>3, <1>4, RankedLists
<1>6. Once(top, S, n) /\ InPlace(top, S, p, q, n) BY <1>2, <1>3, <1>4, <1>5, RankedPlaces
<1>7. PICK k \in 1..n : top[k] = u BY <1>1, <1>6 DEF Once
<1>8. {v \in S : Better(v, u, p, q)} = {v \in Users : Better(v, u, p, q)}
    <2> SUFFICES ASSUME NEW v \in Users, Better(v, u, p, q) PROVE v \in S BY <1>1
    <2>1. p[v] \in Nat /\ p[u] \in Nat OBVIOUS
    <2>2. p[v] > 0 BY <2>1 DEF Better
    <2>3. QED BY <1>1, <2>2
<1>9. Cardinality({v \in Users : Better(v, u, p, q)}) = k - 1 BY <1>6, <1>7, <1>8 DEF InPlace
<1>10. RankOf(u, p, q) = k BY <1>9 DEF RankOf
<1>11. QED BY <1>7, <1>10

LEMMA ListIsSeq ==
    ASSUME NEW S, NEW n \in Nat, NEW t \in [1..n -> S]
    PROVE  t \in Seq(S) /\ Len(t) = n
OBVIOUS

\* f is the first m of a sequence.
FirstOf(f, t, m, S) == f \in [1..m -> S] /\ Len(f) = m /\ \A i \in 1..m : f[i] = t[i]

LEMMA FirstOnes ==
    ASSUME NEW S, NEW n \in Nat, NEW t \in [1..n -> S], NEW m \in Nat, m <= n
    PROVE  FirstOf(SubSeq(t, 1, m), t, m, S)
<1>1. PICK f : f = SubSeq(t, 1, m) OBVIOUS
<1>2. \A i \in 1..m : t[i] \in S OBVIOUS
<1>3. f \in Seq(S) /\ Len(f) = (IF 1 <= m THEN m - 1 + 1 ELSE 0) /\ \A i \in 1..(m - 1 + 1) : f[i] = t[1 + i - 1]
    BY <1>1, <1>2, SubSeqProperties
<1>4. Len(f) = m BY <1>3
<1>5. f \in [1..m -> S] BY <1>3, <1>4, LenProperties, Zenon
<1>6. QED BY <1>1, <1>3, <1>4, <1>5 DEF FirstOf

LEMMA HigherOrders ==
    ASSUME NEW S \in SUBSET Nat, NEW p, \A u \in S : p[u] \in Nat,
           NEW R, R = {e \in S \X S : p[e[1]] > p[e[2]] \/ (p[e[1]] = p[e[2]] /\ e[1] > e[2])}
    PROVE  /\ Orders(R, S)
           /\ \A u, v \in S : <<u, v>> \in R <=> p[u] > p[v] \/ (p[u] = p[v] /\ u > v)
<1>1. \A u, v \in S : <<u, v>> \in R <=> p[u] > p[v] \/ (p[u] = p[v] /\ u > v) OBVIOUS
<1>2. \A u \in S : <<u, u>> \notin R BY <1>1
<1>3. \A u, v, w \in S : <<u, v>> \in R /\ <<v, w>> \in R => <<u, w>> \in R
    <2> SUFFICES ASSUME NEW u \in S, NEW v \in S, NEW w \in S, <<u, v>> \in R, <<v, w>> \in R
                 PROVE  <<u, w>> \in R
        OBVIOUS
    <2>1. /\ p[u] \in Nat /\ p[v] \in Nat /\ p[w] \in Nat /\ u \in Nat /\ v \in Nat /\ w \in Nat
        OBVIOUS
    <2>2. p[u] > p[v] \/ (p[u] = p[v] /\ u > v) BY <1>1
    <2>3. p[v] > p[w] \/ (p[v] = p[w] /\ v > w) BY <1>1
    <2>4. p[u] > p[w] \/ (p[u] = p[w] /\ u > w) BY <2>1, <2>2, <2>3
    <2>5. QED BY <1>1, <2>4
<1>4. \A u, v \in S : u # v => <<u, v>> \in R \/ <<v, u>> \in R
    <2> SUFFICES ASSUME NEW u \in S, NEW v \in S, u # v PROVE <<u, v>> \in R \/ <<v, u>> \in R
        OBVIOUS
    <2>1. p[u] \in Nat /\ p[v] \in Nat /\ u \in Nat /\ v \in Nat OBVIOUS
    <2>2. \/ p[u] > p[v] \/ (p[u] = p[v] /\ u > v)
          \/ p[v] > p[u] \/ (p[v] = p[u] /\ v > u)
        BY <2>1
    <2>3. QED BY <1>1, <2>2
<1>5. QED BY <1>1, <1>2, <1>3, <1>4 DEF Orders

\* t lists S by score, the last id first among equals.
ByScore(t, S, p, n) ==
    /\ t \in [1..n -> S]
    /\ \A i, j \in 1..n : i < j => p[t[i]] > p[t[j]] \/ (p[t[i]] = p[t[j]] /\ t[i] > t[j])

LEMMA HigherExists ==
    ASSUME NEW S \in SUBSET Nat, IsFiniteSet(S), NEW p, \A u \in S : p[u] \in Nat,
           NEW n, n = Cardinality(S)
    PROVE  (\E t : ByScore(t, S, p, n)) /\ \A t : ByScore(t, S, p, n) => Once(t, S, n)
<1>1. PICK R : R = {e \in S \X S : p[e[1]] > p[e[2]] \/ (p[e[1]] = p[e[2]] /\ e[1] > e[2])} OBVIOUS
<1>2. /\ Orders(R, S)
      /\ \A u, v \in S : <<u, v>> \in R <=> p[u] > p[v] \/ (p[u] = p[v] /\ u > v)
    BY <1>1, HigherOrders
<1>3. PICK t : Lists(t, R, S, n) BY <1>2, ListingExists
<1>4. t \in [1..n -> S] /\ \A i \in 1..n : t[i] \in S BY <1>3 DEF Lists
<1>5. ByScore(t, S, p, n) BY <1>2, <1>3, <1>4 DEF Lists, ByScore
<1>6. ASSUME NEW s, ByScore(s, S, p, n) PROVE Once(s, S, n)
    <2>1. s \in [1..n -> S] /\ \A i \in 1..n : s[i] \in S BY <1>6 DEF ByScore
    <2>2. \A i, j \in 1..n : i < j => <<s[i], s[j]>> \in R BY <1>2, <1>6, <2>1 DEF ByScore
    <2>3. Lists(s, R, S, n) BY <2>1, <2>2 DEF Lists
    <2>4. QED BY <1>2, <2>3, ListingPlaces
<1>7. QED BY <1>5, <1>6

\* f is the best m of S by score.
BestOf(f, S, scores, m) ==
    /\ f \in [1..m -> S]
    /\ \A i, j \in 1..m : f[i] = f[j] => i = j
    /\ \A i \in 1..m, x \in S : (\A j \in 1..m : f[j] # x) => scores[x] <= scores[f[i]]

LEMMA BestFetched ==
    ASSUME NEW scores, \A u \in Users : scores[u] \in Nat, NEW limit \in Nat,
           NEW S, S = {u \in Users : scores[u] # Absent},
           NEW n \in Nat, n = Cardinality(S)
    PROVE  \E m \in 0..n : BestOf(Fetched(scores, limit), S, scores, m)
<1>1. S \in SUBSET Nat /\ IsFiniteSet(S) BY UserSets
<1>2. \A u \in S : scores[u] \in Nat OBVIOUS
<1>3. PICK listing : ByScore(listing, S, scores, n) BY <1>1, <1>2, HigherExists
<1>4. \E t \in [1..n -> S] :
          /\ \A i, j \in 1..n : i < j =>
                 scores[t[i]] > scores[t[j]] \/ (scores[t[i]] = scores[t[j]] /\ t[i] > t[j])
          /\ Fetched(scores, limit) = SubSeq(t, 1, IF Len(t) < limit + TieBuffer THEN Len(t)
                                                   ELSE limit + TieBuffer)
    BY <1>3, Zenon DEF Fetched, Sorted, ByScore
<1>5. PICK t : /\ ByScore(t, S, scores, n)
               /\ Fetched(scores, limit) = SubSeq(t, 1, IF Len(t) < limit + TieBuffer THEN Len(t)
                                                        ELSE limit + TieBuffer)
    BY <1>4, Zenon DEF ByScore
<1>6. Once(t, S, n) BY <1>1, <1>2, <1>5, HigherExists
<1>61. t \in [1..n -> S] /\ n \in Nat BY <1>5 DEF ByScore
<1>7. t \in Seq(S) /\ Len(t) = n BY <1>61, ListIsSeq
<1>8. limit + TieBuffer \in Nat BY BoardConstants
<1>9. PICK m \in 0..n : m = IF Len(t) < limit + TieBuffer THEN Len(t) ELSE limit + TieBuffer
    <2>1. n \in 0..n OBVIOUS
    <2>2. ~(n < limit + TieBuffer) => limit + TieBuffer \in 0..n BY <1>8
    <2>3. QED BY <1>7, <2>1, <2>2
<1>10. PICK f : f = Fetched(scores, limit) OBVIOUS
<1>11. f = SubSeq(t, 1, m) BY <1>5, <1>9, <1>10
<1>111. m \in Nat /\ m <= n OBVIOUS
<1>112. FirstOf(f, t, m, S) BY <1>61, <1>11, <1>111, FirstOnes, Zenon
<1>12. f \in [1..m -> S] /\ \A i \in 1..m : f[i] = t[i] BY <1>112 DEF FirstOf
<1>121. \A i \in 1..m : i \in 1..n OBVIOUS
<1>13. \A i, j \in 1..m : f[i] = f[j] => i = j BY <1>6, <1>12, <1>121 DEF Once
<1>14. ASSUME NEW i \in 1..m, NEW x \in S, \A j \in 1..m : f[j] # x
       PROVE  scores[x] <= scores[f[i]]
    <2>1. PICK j \in 1..n : t[j] = x BY <1>6 DEF Once
    <2>2. j \notin 1..m BY <1>12, <1>14, <2>1
    <2>3. i \in 1..n /\ i < j BY <2>2
    <2>4. scores[t[i]] > scores[t[j]] \/ (scores[t[i]] = scores[t[j]] /\ t[i] > t[j])
        BY <1>5, <2>3 DEF ByScore
    <2>5. scores[t[i]] \in Nat /\ scores[t[j]] \in Nat BY <1>2, <1>61, <2>3
    <2>6. scores[t[j]] <= scores[t[i]] BY <2>4, <2>5
    <2>7. QED BY <1>12, <2>1, <2>6
<1>15. BestOf(f, S, scores, m) BY <1>12, <1>13, <1>14 DEF BestOf
<1>16. QED BY <1>10, <1>15

\* Redis holds the points p and q of everyone who has any, and the scores are p.
InSync(scores, hp, hq, p, q) ==
    \A u \in Users : scores[u] = p[u] /\ (p[u] > 0 => hp[u] = p[u] /\ hq[u] = q[u])

\* Where everyone with the last score is in the list, no one outside it has as much.
LEMMA NoTieLeftOut ==
    ASSUME NEW scores, \A u \in Users : scores[u] \in Nat,
           NEW S, S = {u \in Users : scores[u] # Absent},
           NEW m \in Nat, NEW f, BestOf(f, S, scores, m), NEW F, F = Range(f),
           NEW y \in F, ~TieAmbiguity(scores, f, scores[y])
    PROVE  \A x \in S \ F : scores[x] < scores[y]
<1>1. f \in [1..m -> S] /\ F = {f[i] : i \in 1..m} BY DEF BestOf, Range
<1>2. F \subseteq Users /\ F \subseteq S BY <1>1
<1>3. PICK A : A = {u \in Users : scores[u] = scores[y]} OBVIOUS
<1>4. PICK B : B = {u \in F : scores[u] = scores[y]} OBVIOUS
<1>5. B \subseteq A /\ A \in SUBSET Users /\ B \in SUBSET Users BY <1>2, <1>3, <1>4
<1>6. IsFiniteSet(A) /\ Cardinality(A) \in Nat /\ Cardinality(B) \in Nat BY <1>5, UserSets
<1>7. Cardinality(B) <= Cardinality(A) /\ (Cardinality(A) = Cardinality(B) => A = B)
    BY <1>5, <1>6, FS_Subset
<1>8. ~(Cardinality(A) > Cardinality(B)) BY <1>3, <1>4 DEF TieAmbiguity, Scored
<1>9. A = B BY <1>6, <1>7, <1>8
<1>10. ASSUME NEW x \in S \ F PROVE scores[x] < scores[y]
    <2>1. PICK i \in 1..m : f[i] = y BY <1>1
    <2>2. \A j \in 1..m : f[j] # x BY <1>1, <1>10
    <2>3. scores[x] <= scores[y] BY <1>10, <2>1, <2>2 DEF BestOf
    <2>4. x \in Users /\ y \in Users BY <1>2, <1>10
    <2>5. scores[x] # scores[y] BY <1>3, <1>4, <1>9, <1>10, <2>4
    <2>6. scores[x] \in Nat /\ scores[y] \in Nat BY <2>4
    <2>7. QED BY <2>3, <2>5, <2>6
<1>11. QED BY <1>10

\* The best of a part of S that holds all those before them are the best of S.
LEMMA SamePlaces ==
    ASSUME NEW S \in SUBSET Users, NEW F \in SUBSET S, NEW p, NEW q, Counts(S, p, q),
           NEW top, BestFirst(top, S, p, q, Cardinality(S)),
           NEW best, BestFirst(best, F, p, q, Cardinality(F)),
           NEW limit \in 1..Cardinality(F),
           \A x \in S \ F : p[x] < p[best[limit]]
    PROVE  limit <= Cardinality(S) /\ \A k \in 1..limit : best[k] = top[k]
<1>1. PICK n \in Nat : n = Cardinality(S) BY UserSets
<1>2. PICK m \in Nat : m = Cardinality(F) BY UserSets
<1>3. S \in SUBSET Nat /\ IsFiniteSet(S) /\ F \in SUBSET Nat /\ IsFiniteSet(F) BY UserSets
<1>4. m <= n BY <1>1, <1>2, <1>3, FS_Subset
<1>5. Counts(F, p, q) BY DEF Counts
<1>6. Once(top, S, n) /\ InPlace(top, S, p, q, n) BY <1>1, <1>3, RankedPlaces
<1>7. InPlace(best, F, p, q, m) BY <1>2, <1>3, <1>5, RankedPlaces
<1>8. ASSUME NEW k \in 1..limit PROVE best[k] = top[k]
    <2>1. k \in 1..m /\ limit \in 1..m BY <1>2
    <2>2. best[k] \in F /\ best[limit] \in F BY <1>2, <2>1 DEF BestFirst
    <2>3. p[best[limit]] \in Nat /\ p[best[k]] \in Nat BY <2>2 DEF Counts
    <2>4. k = limit \/ Better(best[k], best[limit], p, q) BY <1>2, <2>1 DEF BestFirst
    <2>5. p[best[limit]] <= p[best[k]]
        <3>1. CASE k = limit BY <2>3, <3>1
        <3>2. CASE Better(best[k], best[limit], p, q) BY <2>3, <3>2 DEF Better
        <3>3. QED BY <2>4, <3>1, <3>2
    <2>6. {v \in S : Better(v, best[k], p, q)} = {v \in F : Better(v, best[k], p, q)}
        <3> SUFFICES ASSUME NEW v \in S, v \notin F, Better(v, best[k], p, q) PROVE FALSE
            OBVIOUS
        <3>1. p[v] < p[best[limit]] OBVIOUS
        <3>2. p[v] \in Nat BY DEF Counts
        <3>3. p[v] >= p[best[k]] BY <2>3, <3>2 DEF Better
        <3>4. QED BY <2>3, <2>5, <3>1, <3>2, <3>3
    <2>7. Cardinality({v \in S : Better(v, best[k], p, q)}) = k - 1
        BY <1>7, <2>1, <2>6 DEF InPlace
    <2>8. PICK j \in 1..n : top[j] = best[k] BY <1>6, <2>2 DEF Once
    <2>9. Cardinality({v \in S : Better(v, best[k], p, q)}) = j - 1
        BY <1>6, <2>8 DEF InPlace
    <2>10. j = k BY <2>7, <2>9
    <2>11. QED BY <2>8, <2>10
<1>9. limit <= n BY <1>2, <1>4
<1>10. QED BY <1>1, <1>8, <1>9

\* What decides which of two is better are their points.
LEMMA SameBest ==
    ASSUME NEW F, NEW p, NEW q, NEW hp, NEW hq, \A u \in F : hp[u] = p[u] /\ hq[u] = q[u],
           NEW n, NEW s, BestFirst(s, F, hp, hq, n)
    PROVE  BestFirst(s, F, p, q, n)
<1>1. \A i \in 1..n : s[i] \in F BY DEF BestFirst
<1>2. \A i, j \in 1..n : i < j => Better(s[i], s[j], hp, hq) BY DEF BestFirst
<1>3. \A u, v \in F : Better(u, v, hp, hq) => Better(u, v, p, q) BY DEF Better
<1>4. QED BY <1>1, <1>2, <1>3 DEF BestFirst

\* A sequence and a part of another are alike.
LEMMA PrefixOf ==
    ASSUME NEW S, NEW n \in Nat, NEW top \in [1..n -> S], NEW F \in SUBSET S,
           NEW m \in Nat, NEW best \in [1..m -> F], NEW limit \in 0..m, limit <= n,
           \A k \in 1..limit : best[k] = top[k]
    PROVE  IsPrefix(SubSeq(best, 1, limit), top)
<1>1. PICK a : a = SubSeq(best, 1, limit) OBVIOUS
<1>2. limit \in Nat /\ limit <= m OBVIOUS
<1>3. FirstOf(a, best, limit, F) BY <1>1, <1>2, FirstOnes
<1>4. a \in [1..limit -> F] /\ Len(a) = limit /\ \A k \in 1..limit : a[k] = best[k]
    BY <1>3 DEF FirstOf
<1>5. PICK b : b = SubSeq(top, 1, limit) OBVIOUS
<1>6. FirstOf(b, top, limit, S) BY <1>2, <1>5, FirstOnes
<1>7. PICK c : c = SubSeq(a, 1, limit) OBVIOUS
<1>71. limit <= limit BY <1>2
<1>8. FirstOf(c, a, limit, F) BY <1>2, <1>4, <1>7, <1>71, FirstOnes
<1>9. b = c BY <1>4, <1>6, <1>8 DEF FirstOf
<1>10. Len(top) = n BY ListIsSeq
<1>11. QED BY <1>1, <1>4, <1>5, <1>7, <1>9, <1>10 DEF IsPrefix

LEMMA NothingIsPrefix ==
    ASSUME NEW S, NEW n \in Nat, NEW top \in [1..n -> S]
    PROVE  IsPrefix(<<>>, top)
<1>1. Len(top) = n /\ Len(<<>>) = 0 BY ListIsSeq
<1>2. SubSeq(<<>>, 1, 0) = <<>> /\ SubSeq(top, 1, 0) = <<>> BY SubSeqEmpty
<1>3. QED BY <1>1, <1>2 DEF IsPrefix

\* A board from Redis in sync is the top of the database's.
LEMMA ProjectedIsPrefix ==
    ASSUME NEW p \in [Users -> Nat], NEW q \in [Users -> Nat], NEW scores, NEW hp, NEW hq,
           InSync(scores, hp, hq, p, q), NEW limit \in Nat \ {0},
           NEW top, top = Ranked({u \in Users : p[u] > 0}, p, q)
    PROVE  IsPrefix(Projected(scores, hp, hq, limit), top)
<1>1. PICK S : S = {u \in Users : p[u] > 0} OBVIOUS
<1>2. \A u \in Users : scores[u] \in Nat BY DEF InSync
<1>3. S = {u \in Users : scores[u] # Absent} BY <1>1 DEF InSync, Absent
<1>4. S \in SUBSET Users /\ S \in SUBSET Nat /\ IsFiniteSet(S) /\ Cardinality(S) \in Nat BY <1>1, UserSets
<1>5. PICK n \in Nat : n = Cardinality(S) BY <1>4
<1>6. PICK f : f = Fetched(scores, limit) OBVIOUS
<1>7. PICK m \in 0..n : BestOf(f, S, scores, m) BY <1>2, <1>3, <1>5, <1>6, BestFetched
<1>8. PICK F : F = Range(f) OBVIOUS
<1>9. f \in [1..m -> S] /\ F = {f[i] : i \in 1..m} BY <1>7, <1>8 DEF BestOf, Range
<1>10. F \in SUBSET S BY <1>9
<1>11. PICK best : best = Ranked(F, hp, hq) OBVIOUS
<1>12. \A u \in F : u \in Users /\ p[u] > 0 BY <1>1, <1>10
<1>13. \A u \in F : hp[u] = p[u] /\ hq[u] = q[u] BY <1>12 DEF InSync
<1>14. Counts(F, hp, hq) /\ Counts(F, p, q) BY <1>12, <1>13 DEF Counts
<1>15. F \in SUBSET Users /\ F \in SUBSET Nat /\ IsFiniteSet(F) /\ Cardinality(F) \in Nat BY <1>4, <1>10, UserSets
<1>16. BestFirst(best, F, hp, hq, Cardinality(F)) BY <1>11, <1>14, <1>15, RankedLists
<1>17. BestFirst(best, F, p, q, Cardinality(F)) BY <1>13, <1>16, SameBest
<1>18. Counts(S, p, q) BY <1>1 DEF Counts
<1>19. BestFirst(top, S, p, q, Cardinality(S)) BY <1>1, <1>4, <1>18, RankedLists
<1>20. PICK l \in Nat : l = Cardinality(F) BY <1>15
<1>21. best \in [1..l -> F] /\ top \in [1..n -> S] BY <1>5, <1>17, <1>19, <1>20 DEF BestFirst
<1>22. Len(best) = l BY <1>21, ListIsSeq
<1>23. CASE l < limit
    <2>1. Projected(scores, hp, hq, limit) = <<>>
        BY <1>6, <1>8, <1>11, <1>22, <1>23 DEF Projected, NoAnswer
    <2>2. QED BY <1>21, <2>1, NothingIsPrefix
<1>24. CASE ~(l < limit)
    <2>1. limit \in 1..l BY <1>24
    <2>2. PICK y : y = best[limit] OBVIOUS
    <2>3. y \in F BY <1>21, <2>1, <2>2
    <2>4. hp[y] = scores[y] /\ p[y] = scores[y] BY <1>12, <1>13, <2>3 DEF InSync
    <2>5. CASE TieAmbiguity(scores, f, scores[y])
        <3>1. Projected(scores, hp, hq, limit) = <<>>
            BY <1>6, <1>8, <1>11, <1>22, <1>24, <2>2, <2>4, <2>5 DEF Projected, NoAnswer
        <3>2. QED BY <1>21, <3>1, NothingIsPrefix
    <2>6. CASE ~TieAmbiguity(scores, f, scores[y])
        <3>1. Projected(scores, hp, hq, limit) = SubSeq(best, 1, limit)
            BY <1>6, <1>8, <1>11, <1>22, <1>24, <2>2, <2>4, <2>6 DEF Projected
        <3>2. m \in Nat OBVIOUS
        <3>3. \A x \in S \ F : scores[x] < scores[y]
            BY <1>2, <1>3, <1>7, <1>8, <2>3, <2>6, <3>2, NoTieLeftOut
        <3>4. \A x \in S \ F : p[x] < p[best[limit]]
            BY <1>4, <2>2, <2>4, <3>3 DEF InSync
        <3>5. limit \in 1..Cardinality(F) BY <1>20, <2>1
        <3>6. limit <= Cardinality(S) /\ \A k \in 1..limit : best[k] = top[k]
            BY <1>4, <1>10, <1>17, <1>18, <1>19, <3>4, <3>5, SamePlaces
        <3>7. limit \in 0..l /\ limit <= n BY <1>5, <2>1, <3>6
        <3>8. IsPrefix(SubSeq(best, 1, limit), top) BY <1>10, <1>21, <3>6, <3>7, PrefixOf
        <3>9. QED BY <3>1, <3>8
    <2>7. QED BY <2>5, <2>6
<1>25. QED BY <1>23, <1>24

----------------------------------------------------------------------------
(* ReadsAgree: what the database holds is enough. *)

PointsTrue ==
    /\ stats \in [Users -> [weekly: Nat, total: Nat]]
    /\ \A u \in Users : stats[u].weekly <= stats[u].total

LEMMA ReadsFollow == ASSUME PointsTrue PROVE ReadsAgree
<1> USE DEF PointsTrue
<1>1. PICK p : p = Weekly OBVIOUS
<1>2. PICK q : q = Total OBVIOUS
<1>3. /\ p \in [Users -> Nat] /\ q \in [Users -> Nat]
      /\ \A u \in Users : p[u] = stats[u].weekly /\ q[u] = stats[u].total
    BY <1>1, <1>2 DEF Weekly, Total
<1>4. PICK wtop : wtop = WeeklyTop OBVIOUS
<1>5. PICK atop : atop = AllTimeTop OBVIOUS
<1>6. wtop = Ranked({u \in Users : p[u] > 0}, p, q) BY <1>1, <1>2, <1>4 DEF WeeklyTop
<1>7. atop = Ranked({u \in Users : q[u] > 0}, q, p) BY <1>1, <1>2, <1>5 DEF AllTimeTop
<1>8. ASSUME NEW u \in Users
      PROVE  /\ p[u] > 0 => wtop[RankOf(u, p, q)] = u
             /\ q[u] > 0 => atop[RankOf(u, q, p)] = u
    BY <1>3, <1>6, <1>7, RankIsPlace
<1>9. ASSUME \A u \in Users : Exact(u) /\ (stats[u].total = 0 => redis.total[u] = Absent
                                                                /\ redis.weekly[u] = Absent),
             NEW limit \in 1..Cardinality(Users)
      PROVE  /\ IsPrefix(ProjectedWeekly(limit), wtop)
             /\ IsPrefix(ProjectedAllTime(limit), atop)
    <2>1. PICK hp : hp = HashWeekly OBVIOUS
    <2>2. PICK hq : hq = HashTotal OBVIOUS
    <2>3. \A u \in Users : hp[u] = redis.hash[u].weekly /\ hq[u] = redis.hash[u].total
        BY <2>1, <2>2 DEF HashWeekly, HashTotal
    <2>4. PICK sw : sw = redis.weekly OBVIOUS
    <2>5. PICK st : st = redis.total OBVIOUS
    <2>6. \A u \in Users : /\ stats[u].weekly \in Nat /\ stats[u].total \in Nat
                           /\ stats[u].weekly <= stats[u].total
        OBVIOUS
    <2>7. \A u \in Users : sw[u] = p[u] /\ st[u] = q[u]
        BY <1>3, <1>9, <2>4, <2>5, <2>6 DEF Exact, Absent
    <2>8. \A u \in Users : q[u] > 0 => hp[u] = p[u] /\ hq[u] = q[u]
        BY <1>3, <1>9, <2>3 DEF Exact
    <2>9. \A u \in Users : p[u] > 0 => q[u] > 0 BY <1>3, <2>6
    <2>10. InSync(sw, hp, hq, p, q) BY <2>7, <2>8, <2>9 DEF InSync
    <2>11. InSync(st, hq, hp, q, p) BY <2>7, <2>8 DEF InSync
    <2>12. limit \in Nat \ {0} OBVIOUS
    <2>13. IsPrefix(Projected(sw, hp, hq, limit), wtop)
        BY <1>3, <1>6, <2>10, <2>12, ProjectedIsPrefix
    <2>14. IsPrefix(Projected(st, hq, hp, limit), atop)
        BY <1>3, <1>7, <2>11, <2>12, ProjectedIsPrefix
    <2>15. QED BY <2>1, <2>2, <2>4, <2>5, <2>13, <2>14 DEF ProjectedWeekly, ProjectedAllTime
<1>10. \A u \in Users : /\ Weekly[u] > 0 => WeeklyTop[RankOf(u, Weekly, Total)] = u
                        /\ Total[u] > 0 => AllTimeTop[RankOf(u, Total, Weekly)] = u
    BY <1>1, <1>2, <1>4, <1>5, <1>8
<1>11. QED BY <1>4, <1>5, <1>9, <1>10 DEF ReadsAgree

----------------------------------------------------------------------------
(* PointsAccounted: what every state keeps. *)

Snap == [u: Users, weekly: Nat, total: Nat, event: {0}]
Claimed == [u: Users, weekly: Nat, total: Nat, event: Nat, attempts: Nat]
EventRow == [u: Users, weekly: Nat, total: Nat, attempts: 0..MaxAttempts_, done: BOOLEAN, applied: Nat]
Stages == {"hash", "weekly", "total"}
Weeks == 0..(MaxWeek - 1)

\* What the jobs of each kind hold.
WorkerJob == [pc: {"idle", "apply", "mark"}, todo: Seq(Claimed), stage: Stages]
PlainJob == [pc: {"idle", "apply"}, todo: Seq(Snap), stage: Stages]
ListingJob == [pc: {"listing"}, todo: Seq(Snap), stage: Stages, label: Weeks]
ListedJob == [pc: {"listed"}, stage: Stages, label: Weeks, users: SUBSET Users, todo: Seq(Snap)]
ArchivedJob == [pc: {"archived"}, stage: Stages, label: Weeks, users: SUBSET Users,
                todo: Seq(Snap), points: [Users -> Nat], behind: SUBSET Resets]
ApplyJob == [pc: {"apply"}, stage: Stages, todo: Seq(Snap), touched: SUBSET Users]
IdleJob == [pc: {"idle"}, todo: Seq(Snap), stage: Stages]
ResetJob == IdleJob \cup ListingJob \cup ListedJob \cup ArchivedJob \cup ApplyJob

StoreShape ==
    /\ PointsTrue /\ \A u \in Users : stats[u].total <= MaxPoints
    /\ weeklySp \in [Users -> Nat] /\ \A u \in Users : weeklySp[u] <= stats[u].total
    /\ archive \in [Users -> [0..MaxWeek -> Nat]]
    /\ week \in 1..MaxWeek /\ resetLock \in Resets \cup {Nobody}
    /\ faults \in 0..MaxOutages /\ overlapped \in BOOLEAN /\ payload \in Seq(Snap)

JobsShape ==
    /\ job = [j \in Jobs |-> job[j]]
    /\ \A w \in Workers : job[w] \in WorkerJob
    /\ \A j \in Readers \cup {Reconciler} : job[j] \in PlainJob
    /\ \A r \in Resets : job[r] \in ResetJob

\* A worker that is not idle holds events, each of them once.
Holds(j) ==
    /\ j.pc = "idle" <=> j.todo = <<>>
    /\ \A k \in DOMAIN j.todo : j.todo[k].event \in DOMAIN events
    /\ \A k, l \in DOMAIN j.todo : j.todo[k].event = j.todo[l].event => k = l
Has(w, i) == \E k \in DOMAIN job[w].todo : job[w].todo[k].event = i
Holders(i) == {w \in Workers : Has(w, i)}

\* Every hold and every mark took one of the attempts.
AttemptsCounted ==
    /\ events \in Seq(EventRow) /\ Len(events) <= MaxEvents
    /\ \A w \in Workers : Holds(job[w])
    /\ \A i \in DOMAIN events : events[i].applied + Cardinality(Holders(i)) <= events[i].attempts

\* The weeks archived and the running one are what a user earned.
Booked(u) ==
    /\ \E sum \in RunningTotals(u) :
           /\ sum[MaxWeek] + stats[u].weekly = stats[u].total
           /\ \A w \in 0..MaxWeek : sum[w] + stats[u].weekly <= stats[u].total
    /\ weeklySp[u] = stats[u].weekly

\* A reset that has listed knows of everyone with points, and will clear them.
Knows(j) ==
    /\ \A u \in Users : stats[u].weekly > 0 => u \in j.users /\ j.todo # <<>>
\* One that has archived holds the points of the week, or another put them in before it.
Copied(j) ==
    \/ \A u \in Users : /\ j.points[u] = stats[u].weekly
                        /\ stats[u].weekly > 0 => archive[u][j.label] = 0
    \/ \A u \in Users : /\ stats[u].weekly = 0
                        /\ j.points[u] > 0 => archive[u][j.label] = j.points[u]

Books ==
    /\ \A u \in Users : Booked(u)
    /\ \A r \in Resets : /\ job[r].pc \in {"listed", "archived"} => Knows(job[r])
                         /\ job[r].pc = "archived" => Copied(job[r])
SameWeek == \A r \in Resets : job[r].pc \in {"listing", "listed", "archived"} => job[r].label = week - 1

BoardInv ==
    /\ StoreShape /\ JobsShape /\ AttemptsCounted /\ SameWeek
    /\ ~overlapped => Books

LEMMA Kinds ==
    /\ \A j \in Readers \cup {Reconciler} : j \in Jobs /\ j \notin Workers /\ j \notin Resets
    /\ \A w \in Workers : w \in Jobs /\ w \notin Resets /\ w \notin Readers \cup {Reconciler}
    /\ \A r \in Resets : r \in Jobs /\ r \notin Workers /\ r \notin Readers \cup {Reconciler}
BY KindsAssumption DEF Jobs

LEMMA RestingJobs ==
    Resting \in WorkerJob /\ Resting \in PlainJob /\ Resting \in IdleJob
    /\ Resting.pc = "idle" /\ Resting.todo = <<>>
BY EmptySeq DEF Resting, WorkerJob, PlainJob, IdleJob, Stages

LEMMA DoJob ==
    ASSUME job = [j \in Jobs |-> job[j]], NEW j \in Jobs, NEW s, Do(j, s)
    PROVE  /\ job' = [x \in Jobs |-> job'[x]]
           /\ job'[j] = s /\ \A x \in Jobs : x # j => job'[x] = job[x]
BY DEF Do

LEMMA StoreKept ==
    ASSUME StoreShape, UNCHANGED <<stats, weeklySp, archive, week>>,
           resetLock' \in Resets \cup {Nobody}, faults' \in 0..MaxOutages, overlapped' \in BOOLEAN,
           payload' \in Seq(Snap)
    PROVE  StoreShape'
BY DEF StoreShape, PointsTrue

\* Nothing happened to what the workers hold.
LEMMA AttemptsKept ==
    ASSUME AttemptsCounted, events' = events, \A w \in Workers : job'[w] = job[w]
    PROVE  AttemptsCounted'
<1>1. \A i : Holders(i)' = Holders(i) BY DEF Holders, Has
<1>2. \A w \in Workers : Holds(job[w])' BY DEF AttemptsCounted, Holds
<1>3. QED BY <1>1, <1>2 DEF AttemptsCounted

\* The points and the resets that hold any are the same.
LEMMA BooksKept ==
    ASSUME Books, UNCHANGED <<stats, weeklySp, archive>>,
           \A r \in Resets : job'[r] = job[r] \/ job'[r].pc \notin {"listed", "archived"}
    PROVE  Books'
<1>1. \A u \in Users : Booked(u)' BY DEF Books, Booked, RunningTotals
<1>2. ASSUME NEW r \in Resets
      PROVE  /\ job'[r].pc \in {"listed", "archived"} => Knows(job[r])'
             /\ job'[r].pc = "archived" => Copied(job[r])'
    <2>1. CASE job'[r] = job[r] BY <2>1 DEF Books, Knows, Copied
    <2>2. CASE job'[r].pc \notin {"listed", "archived"} BY <2>2
    <2>3. QED BY <2>1, <2>2
<1>3. QED BY <1>1, <1>2 DEF Books

LEMMA PlainKeeps ==
    ASSUME BoardInv, NEW j \in Readers \cup {Reconciler}, NEW s \in PlainJob, Do(j, s),
           UNCHANGED <<stats, weeklySp, archive, week, events, resetLock, faults, overlapped>>,
           payload' \in Seq(Snap)
    PROVE  BoardInv'
<1> USE DEF BoardInv
<1>1. j \in Jobs /\ j \notin Workers /\ j \notin Resets BY Kinds
<1>2. /\ job' = [x \in Jobs |-> job'[x]]
      /\ job'[j] = s /\ \A x \in Jobs : x # j => job'[x] = job[x]
    BY <1>1, DoJob DEF JobsShape
<1>3. \A w \in Workers : job'[w] = job[w] BY <1>1, <1>2, Kinds
<1>4. \A r \in Resets : job'[r] = job[r] BY <1>1, <1>2, Kinds
<1>5. \A x \in Readers \cup {Reconciler} : job'[x] = s \/ job'[x] = job[x] BY <1>2, Kinds
<1>6. JobsShape' BY <1>2, <1>3, <1>4, <1>5 DEF JobsShape
<1>7. StoreShape' BY StoreKept DEF StoreShape
<1>8. AttemptsCounted' BY <1>3, AttemptsKept
<1>9. ~overlapped' => Books' BY <1>4, BooksKept
<1>10. SameWeek' BY <1>4 DEF SameWeek
<1>11. QED BY <1>6, <1>7, <1>8, <1>9, <1>10

LEMMA WorkerKeeps ==
    ASSUME BoardInv, NEW w \in Workers, NEW s \in WorkerJob, Do(w, s), AttemptsCounted',
           UNCHANGED <<stats, weeklySp, archive, week, payload, resetLock, overlapped>>,
           faults' \in 0..MaxOutages
    PROVE  BoardInv'
<1> USE DEF BoardInv
<1>1. w \in Jobs /\ w \notin Resets /\ w \notin Readers \cup {Reconciler} BY Kinds
<1>2. /\ job' = [x \in Jobs |-> job'[x]]
      /\ job'[w] = s /\ \A x \in Jobs : x # w => job'[x] = job[x]
    BY <1>1, DoJob DEF JobsShape
<1>3. \A x \in Workers : job'[x] = s \/ job'[x] = job[x] BY <1>2, Kinds
<1>4. \A r \in Resets : job'[r] = job[r] BY <1>1, <1>2, Kinds
<1>5. \A x \in Readers \cup {Reconciler} : job'[x] = job[x] BY <1>1, <1>2, Kinds
<1>6. JobsShape' BY <1>2, <1>3, <1>4, <1>5 DEF JobsShape
<1>7. StoreShape' BY StoreKept DEF StoreShape
<1>9. ~overlapped' => Books' BY <1>4, BooksKept
<1>10. SameWeek' BY <1>4 DEF SameWeek
<1>11. QED BY <1>6, <1>7, <1>9, <1>10

LEMMA ResetKeeps ==
    ASSUME BoardInv, NEW r \in Resets, NEW s \in ResetJob, Do(r, s),
           week' = week, AttemptsCounted', StoreShape', ~overlapped' => Books',
           s.pc \in {"listing", "listed", "archived"} => s.label = week - 1
    PROVE  BoardInv'
<1> USE DEF BoardInv
<1>1. r \in Jobs /\ r \notin Workers /\ r \notin Readers \cup {Reconciler} BY Kinds
<1>2. /\ job' = [x \in Jobs |-> job'[x]]
      /\ job'[r] = s /\ \A x \in Jobs : x # r => job'[x] = job[x]
    BY <1>1, DoJob DEF JobsShape
<1>3. \A w \in Workers : job'[w] = job[w] BY <1>1, <1>2, Kinds
<1>4. \A x \in Resets : job'[x] = s \/ job'[x] = job[x] BY <1>2, Kinds
<1>5. \A x \in Readers \cup {Reconciler} : job'[x] = job[x] BY <1>1, <1>2, Kinds
<1>6. JobsShape' BY <1>2, <1>3, <1>4, <1>5 DEF JobsShape
<1>10. SameWeek' BY <1>4 DEF SameWeek
<1>11. QED BY <1>6, <1>10

\* Nothing but Redis, the cached rows, the lock or the number of faults changed.
LEMMA RestKeeps ==
    ASSUME BoardInv, UNCHANGED <<stats, weeklySp, archive, week, events, job, overlapped>>, StoreShape'
    PROVE  BoardInv'
<1> USE DEF BoardInv
<1>1. JobsShape' BY DEF JobsShape
<1>2. AttemptsCounted' BY AttemptsKept
<1>3. ~overlapped' => Books' BY BooksKept
<1>4. SameWeek' BY DEF SameWeek
<1>5. QED BY <1>1, <1>2, <1>3, <1>4

----------------------------------------------------------------------------
(* The steps that touch neither points nor attempts. *)

LEMMA RowsAreSnaps ==
    ASSUME PointsTrue, NEW n \in Nat, NEW ids \in [1..n -> Users]
    PROVE  Rows(ids) \in [1..n -> Snap] /\ \A k \in 1..n : Rows(ids)[k] = Snapshot(ids[k])
<1>1. \A u \in Users : Snapshot(u) \in Snap BY DEF Snapshot, Snap, PointsTrue
<1>2. QED BY <1>1 DEF Rows

LEMMA TopRows ==
    ASSUME PointsTrue
    PROVE  Rows(WeeklyTop) \in Seq(Snap) /\ Rows(AllTimeTop) \in Seq(Snap)
<1>1. PICK p : p = Weekly OBVIOUS
<1>2. PICK q : q = Total OBVIOUS
<1>3. \A u \in Users : p[u] \in Nat /\ q[u] \in Nat BY <1>1, <1>2 DEF Weekly, Total, PointsTrue
<1>4. PICK S : S = {u \in Users : p[u] > 0} OBVIOUS
<1>5. PICK T : T = {u \in Users : q[u] > 0} OBVIOUS
<1>6. S \in SUBSET Users /\ T \in SUBSET Users BY <1>4, <1>5
<1>7. PICK n \in Nat : n = Cardinality(S) BY <1>6, UserSets
<1>8. PICK m \in Nat : m = Cardinality(T) BY <1>6, UserSets
<1>9. S \in SUBSET Nat /\ IsFiniteSet(S) /\ T \in SUBSET Nat /\ IsFiniteSet(T) BY <1>6, UserSets
<1>10. Counts(S, p, q) /\ Counts(T, q, p) BY <1>3, <1>6 DEF Counts
<1>11. WeeklyTop = Ranked(S, p, q) /\ AllTimeTop = Ranked(T, q, p)
    BY <1>1, <1>2, <1>4, <1>5 DEF WeeklyTop, AllTimeTop
<1>12. BestFirst(WeeklyTop, S, p, q, n) /\ BestFirst(AllTimeTop, T, q, p, m)
    BY <1>7, <1>8, <1>9, <1>10, <1>11, RankedLists
<1>13. WeeklyTop \in [1..n -> Users] /\ AllTimeTop \in [1..m -> Users]
    BY <1>6, <1>12 DEF BestFirst
<1>14. Rows(WeeklyTop) \in [1..n -> Snap] /\ Rows(AllTimeTop) \in [1..m -> Snap]
    BY <1>13, RowsAreSnaps
<1>15. QED BY <1>14, ListIsSeq

LEMMA TailIsSeq ==
    ASSUME NEW S, NEW s \in Seq(S), s # <<>>
    PROVE  /\ Head(s) = s[1] /\ s[1] \in S /\ Len(s) \in Nat \ {0} /\ DOMAIN s = 1..Len(s)
           /\ Tail(s) \in Seq(S) /\ Len(Tail(s)) = Len(s) - 1
           /\ DOMAIN Tail(s) = 1..(Len(s) - 1)
           /\ \A k \in 1..(Len(s) - 1) : Tail(s)[k] = s[k + 1]
<1>1. Len(s) \in Nat /\ DOMAIN s = 1..Len(s) BY LenProperties
<1>2. Tail(s) \in Seq(S) /\ Len(Tail(s)) = Len(s) - 1 /\ \A k \in 1..Len(Tail(s)) : Tail(s)[k] = s[k + 1]
    BY HeadTailProperties
<1>3. DOMAIN Tail(s) = 1..Len(Tail(s)) BY <1>2, LenProperties
<1>4. Len(s) # 0 BY EmptySeq
<1>5. Head(s) = s[1] OBVIOUS
<1>6. Head(s) \in S BY HeadTailProperties
<1>7. QED BY <1>1, <1>2, <1>3, <1>4, <1>5, <1>6

LEMMA PlainApplies ==
    ASSUME BoardInv, NEW j \in Readers \cup {Reconciler}, Apply(j) PROVE BoardInv'
<1>0. j \notin Workers BY Kinds
<1>1. PICK x \in PlainJob : x = job[j] BY DEF BoardInv, JobsShape
<1>2. x.todo \in Seq(Snap) /\ x.todo # <<>> /\ x.pc \in {"idle", "apply"} BY <1>1 DEF Apply, PlainJob
<1>3. Tail(x.todo) \in Seq(Snap) BY <1>2, TailIsSeq
<1>4. \/ Do(j, [x EXCEPT !.stage = "weekly"]) \/ Do(j, [x EXCEPT !.stage = "total"])
      \/ Do(j, [x EXCEPT !.todo = Tail(@), !.stage = "hash"])
    BY <1>0, <1>1 DEF Apply, After
<1>5. /\ [x EXCEPT !.stage = "weekly"] \in PlainJob /\ [x EXCEPT !.stage = "total"] \in PlainJob
      /\ [x EXCEPT !.todo = Tail(@), !.stage = "hash"] \in PlainJob
    BY <1>2, <1>3 DEF PlainJob, Stages
<1>6. PICK s \in PlainJob : Do(j, s) BY <1>4, <1>5
<1>7. /\ UNCHANGED <<stats, weeklySp, archive, week, events, resetLock, faults, overlapped>>
      /\ payload' \in Seq(Snap)
    BY DEF Apply, BoardInv, StoreShape
<1>8. QED BY <1>6, <1>7, PlainKeeps

LEMMA PlainFinishes ==
    ASSUME BoardInv, NEW j \in Readers \cup {Reconciler}, FinishJob(j) PROVE BoardInv'
<1>1. Do(j, Resting) /\ Resting \in PlainJob BY RestingJobs DEF FinishJob
<1>2. /\ UNCHANGED <<stats, weeklySp, archive, week, events, resetLock, faults, overlapped>>
      /\ payload' \in Seq(Snap)
    BY DEF FinishJob, BoardInv, StoreShape
<1>3. QED BY <1>1, <1>2, PlainKeeps

LEMMA ReconcilerStarts == ASSUME BoardInv, StartReconciliation PROVE BoardInv'
<1>1. PICK todo : todo = ReconcileRows OBVIOUS
<1>2. todo \in Seq(Snap)
    <2>1. Rows(WeeklyTop) \in Seq(Snap) /\ Rows(AllTimeTop) \in Seq(Snap)
        BY TopRows DEF BoardInv, StoreShape
    <2>2. QED BY <1>1, <2>1, ConcatProperties DEF ReconcileRows
<1>3. PICK s : s = [pc |-> "apply", stage |-> "hash", todo |-> todo] OBVIOUS
<1>4. s \in PlainJob BY <1>2, <1>3 DEF PlainJob, Stages
<1>5. Do(Reconciler, s) BY <1>1, <1>3 DEF StartReconciliation
<1>6. /\ UNCHANGED <<stats, weeklySp, archive, week, events, resetLock, faults, overlapped>>
      /\ payload' \in Seq(Snap)
    BY DEF StartReconciliation, BoardInv, StoreShape
<1>7. QED BY <1>4, <1>5, <1>6, PlainKeeps

LEMMA ReaderReads == ASSUME BoardInv, NEW r \in Readers, ReadBoard(r) PROVE BoardInv'
<1>1. Rows(WeeklyTop) \in Seq(Snap) /\ Rows(AllTimeTop) \in Seq(Snap) /\ payload \in Seq(Snap)
    BY TopRows DEF BoardInv, StoreShape
<1>2. payload' = Rows(WeeklyTop) \/ payload' = Rows(AllTimeTop) \/ payload' = payload
    BY DEF ReadBoard
<1>3. payload' \in Seq(Snap) BY <1>1, <1>2
<1>4. PICK rows \in Seq(Snap) : rows = payload' BY <1>3
<1>5. PICK s : s = [pc |-> "apply", stage |-> "hash", todo |-> rows] OBVIOUS
<1>6. s \in PlainJob BY <1>5 DEF PlainJob, Stages
<1>7. Do(r, s) BY <1>4, <1>5 DEF ReadBoard
<1>8. UNCHANGED <<stats, weeklySp, archive, week, events, resetLock, faults, overlapped>>
    BY DEF ReadBoard
<1>9. QED BY <1>3, <1>6, <1>7, <1>8, PlainKeeps

LEMMA QuietKeeps ==
    ASSUME BoardInv, ExpirePayload \/ LockExpires \/ Outage \/ Recover PROVE BoardInv'
<1>1. UNCHANGED <<stats, weeklySp, archive, week, events, job, overlapped>>
    BY DEF ExpirePayload, LockExpires, Outage, Recover
<1>2. StoreShape BY DEF BoardInv
<1>3. payload' = <<>> \/ payload' = payload BY DEF ExpirePayload, LockExpires, Outage, Recover
<1>4. payload' \in Seq(Snap) BY <1>2, <1>3, EmptySeq DEF StoreShape
<1>5. resetLock' \in Resets \cup {Nobody}
    BY <1>2 DEF StoreShape, ExpirePayload, LockExpires, Outage, Recover
<1>6. faults' \in 0..MaxOutages
    BY <1>2, BoardConstants DEF StoreShape, ExpirePayload, LockExpires, Outage, Recover
<1>7. StoreShape' BY <1>1, <1>2, <1>4, <1>5, <1>6, StoreKept DEF StoreShape
<1>8. QED BY <1>1, <1>7, RestKeeps

LEMMA WeekKeeps == ASSUME BoardInv, NextWeek PROVE BoardInv'
<1> USE DEF BoardInv
<1>1. UNCHANGED <<stats, weeklySp, archive, events, job, overlapped>> BY DEF NextWeek
<1>2. StoreShape'
    <2>1. week' \in 1..MaxWeek
        <3>1. week \in 1..MaxWeek /\ MaxWeek \in Nat BY BoardConstants DEF StoreShape
        <3>2. week < MaxWeek /\ week' = week + 1 BY DEF NextWeek
        <3>3. QED BY <3>1, <3>2
    <2>2. resetLock' = Nobody /\ UNCHANGED <<payload, faults>> BY DEF NextWeek
    <2>3. PointsTrue' BY <1>1 DEF StoreShape, PointsTrue
    <2>4. QED BY <1>1, <2>1, <2>2, <2>3 DEF StoreShape
<1>3. JobsShape' BY <1>1 DEF JobsShape
<1>4. AttemptsCounted' BY <1>1, AttemptsKept
<1>5. ~overlapped' => Books' BY <1>1, BooksKept
<1>6. SameWeek' BY <1>1 DEF SameWeek, NextWeek
<1>7. QED BY <1>2, <1>3, <1>4, <1>5, <1>6

LEMMA WorkerDead ==
    ASSUME BoardInv, NEW w \in Workers, WorkerDies(w) PROVE BoardInv'
<1>1. Do(w, Resting) /\ Resting \in WorkerJob /\ Resting.pc = "idle" /\ Resting.todo = <<>>
    BY RestingJobs DEF WorkerDies
<1>2. UNCHANGED <<stats, weeklySp, archive, week, events, payload, resetLock, overlapped>>
    BY DEF WorkerDies
<1>3. faults' \in 0..MaxOutages BY BoardConstants DEF WorkerDies, BoardInv, StoreShape
<1>4. w \in Jobs BY Kinds
<1>5. job'[w] = Resting /\ \A x \in Jobs : x # w => job'[x] = job[x]
    BY <1>1, <1>4, DoJob DEF BoardInv, JobsShape
<1>6. AttemptsCounted'
    <2>1. \A x \in Workers : Holds(job[x])'
        BY <1>1, <1>2, <1>5, Kinds DEF BoardInv, AttemptsCounted, Holds
    <2>2. ASSUME NEW i \in DOMAIN events
          PROVE  events[i].applied + Cardinality(Holders(i)') <= events[i].attempts
        <3>1. Holders(i)' \subseteq Holders(i) /\ Holders(i) \subseteq Workers
            BY <1>1, <1>5, Kinds DEF Holders, Has
        <3>2. IsFiniteSet(Holders(i)) /\ Cardinality(Holders(i)) \in Nat
            BY <3>1, BoardConstants, FS_Subset, FS_CardinalityType
        <3>3. Cardinality(Holders(i)') <= Cardinality(Holders(i)) /\ Cardinality(Holders(i)') \in Nat
            BY <3>1, <3>2, FS_Subset, FS_CardinalityType
        <3>4. events[i] \in EventRow BY DEF BoardInv, AttemptsCounted
        <3>5. events[i].applied \in Nat /\ events[i].attempts \in Nat BY <3>4 DEF EventRow
        <3>6. events[i].applied + Cardinality(Holders(i)) <= events[i].attempts
            BY DEF BoardInv, AttemptsCounted
        <3>7. QED BY <3>2, <3>3, <3>5, <3>6
    <2>3. QED BY <1>2, <2>1, <2>2 DEF BoardInv, AttemptsCounted
<1>7. QED BY <1>1, <1>2, <1>3, <1>6, WorkerKeeps

LEMMA WorkerApplies ==
    ASSUME BoardInv, NEW w \in Workers, Apply(w) PROVE BoardInv'
<1>1. PICK x \in WorkerJob : x = job[w] BY DEF BoardInv, JobsShape
<1>2. x.pc = "apply" BY <1>1 DEF Apply
<1>3. \/ Do(w, [x EXCEPT !.stage = "weekly"]) \/ Do(w, [x EXCEPT !.stage = "total"])
      \/ Do(w, [x EXCEPT !.pc = "mark"])
    BY <1>1 DEF Apply, After
<1>4. PICK s : /\ Do(w, s)
               /\ \/ s = [x EXCEPT !.stage = "weekly"] \/ s = [x EXCEPT !.stage = "total"]
                  \/ s = [x EXCEPT !.pc = "mark"]
    BY <1>3
<1>5. s \in WorkerJob /\ s.todo = x.todo /\ s.pc # "idle" BY <1>2, <1>4 DEF WorkerJob, Stages
<1>6. UNCHANGED <<stats, weeklySp, archive, week, events, payload, resetLock, faults, overlapped>>
    BY DEF Apply
<1>7. w \in Jobs BY Kinds
<1>8. job'[w] = s /\ \A y \in Jobs : y # w => job'[y] = job[y]
    BY <1>4, <1>7, DoJob DEF BoardInv, JobsShape
<1>9. \A y \in Workers : job'[y].todo = job[y].todo /\ (job'[y].pc = "idle" <=> job[y].pc = "idle")
    BY <1>1, <1>2, <1>5, <1>8, Kinds
<1>10. AttemptsCounted'
    <2>1. \A i : Holders(i)' = Holders(i) BY <1>9 DEF Holders, Has
    <2>2. \A y \in Workers : Holds(job[y])' BY <1>6, <1>9 DEF BoardInv, AttemptsCounted, Holds
    <2>3. QED BY <1>6, <2>1, <2>2 DEF BoardInv, AttemptsCounted
<1>11. faults' \in 0..MaxOutages BY <1>6 DEF BoardInv, StoreShape
<1>12. QED BY <1>4, <1>5, <1>6, <1>10, <1>11, WorkerKeeps

----------------------------------------------------------------------------
(* The weekly reset, up to its commit. *)

LEMMA ResetKinds ==
    ASSUME NEW x \in ResetJob
    PROVE  /\ x.todo \in Seq(Snap) /\ x.stage \in Stages
           /\ x.pc \in {"idle", "listing", "listed", "archived", "apply"}
           /\ x.pc = "listing" => x \in ListingJob
           /\ x.pc = "listed" => x \in ListedJob
           /\ x.pc = "archived" => x \in ArchivedJob
           /\ x.pc = "apply" => x \in ApplyJob
BY DEF ResetJob, IdleJob, ListingJob, ListedJob, ArchivedJob, ApplyJob

\* A step of a reset that changes no points.
LEMMA ResetMoves ==
    ASSUME BoardInv, NEW r \in Resets, NEW s \in ResetJob, Do(r, s),
           UNCHANGED <<stats, weeklySp, archive, week, events, faults>>,
           resetLock' \in Resets \cup {Nobody}, payload' \in Seq(Snap), overlapped' \in BOOLEAN,
           overlapped => overlapped',
           s.pc \in {"listing", "listed", "archived"} => s.label = week - 1,
           ~overlapped' => /\ s.pc \in {"listed", "archived"} => Knows(s)
                           /\ s.pc = "archived" => Copied(s)
    PROVE  BoardInv'
<1>1. faults' \in 0..MaxOutages BY DEF BoardInv, StoreShape
<1>2. StoreShape' BY <1>1, StoreKept DEF BoardInv
<1>3. r \in Jobs BY Kinds
<1>4. job'[r] = s /\ \A x \in Jobs : x # r => job'[x] = job[x]
    BY <1>3, DoJob DEF BoardInv, JobsShape
<1>5. ASSUME ~overlapped' PROVE Books'
    <2>1. Books BY <1>5 DEF BoardInv
    <2>2. \A u \in Users : Booked(u)' BY <2>1 DEF Books, Booked, RunningTotals
    <2>3. ASSUME NEW x \in Resets
          PROVE  /\ job'[x].pc \in {"listed", "archived"} => Knows(job[x])'
                 /\ job'[x].pc = "archived" => Copied(job[x])'
        <3>1. CASE x = r BY <1>4, <1>5, <3>1 DEF Knows, Copied
        <3>2. CASE x # r
            <4>1. job'[x] = job[x] BY <1>4, <3>2, Kinds
            <4>2. QED BY <2>1, <4>1 DEF Books, Knows, Copied
        <3>3. QED BY <3>1, <3>2
    <2>4. QED BY <2>2, <2>3 DEF Books
<1>6. \A w \in Workers : job'[w] = job[w] BY <1>4, Kinds
<1>7. AttemptsCounted' BY <1>6, AttemptsKept DEF BoardInv
<1>8. QED BY <1>2, <1>5, <1>7, ResetKeeps

LEMMA ResetApplies ==
    ASSUME BoardInv, NEW r \in Resets, Apply(r) PROVE BoardInv'
<1>0. r \notin Workers BY Kinds
<1>1. PICK x \in ResetJob : x = job[r] BY DEF BoardInv, JobsShape
<1>2. x \in ApplyJob /\ x.todo # <<>> BY <1>1, ResetKinds DEF Apply
<1>3. x.todo \in Seq(Snap) BY <1>2 DEF ApplyJob
<1>4. Tail(x.todo) \in Seq(Snap) BY <1>2, <1>3, TailIsSeq
<1>5. \/ Do(r, [x EXCEPT !.stage = "weekly"]) \/ Do(r, [x EXCEPT !.stage = "total"])
      \/ Do(r, [x EXCEPT !.todo = Tail(@), !.stage = "hash"])
    BY <1>0, <1>1 DEF Apply, After
<1>6. /\ [x EXCEPT !.stage = "weekly"] \in ApplyJob /\ [x EXCEPT !.stage = "total"] \in ApplyJob
      /\ [x EXCEPT !.todo = Tail(@), !.stage = "hash"] \in ApplyJob
    BY <1>2, <1>4 DEF ApplyJob, Stages
<1>7. PICK s \in ApplyJob : Do(r, s) BY <1>5, <1>6
<1>8. s \in ResetJob /\ s.pc = "apply" BY <1>7 DEF ApplyJob, ResetJob
<1>9. /\ UNCHANGED <<stats, weeklySp, archive, week, events, faults, overlapped>>
      /\ resetLock' \in Resets \cup {Nobody} /\ payload' \in Seq(Snap) /\ overlapped' \in BOOLEAN
    BY DEF Apply, BoardInv, StoreShape
<1>10. QED BY <1>7, <1>8, <1>9, ResetMoves

LEMMA ResetBegins ==
    ASSUME BoardInv, NEW r \in Resets, TakeLock(r) PROVE BoardInv'
<1>1. PICK s : s = [pc |-> "listing", todo |-> <<>>, stage |-> "hash", label |-> week - 1] OBVIOUS
<1>2. Do(r, s) BY <1>1 DEF TakeLock
<1>3. week \in 1..MaxWeek /\ MaxWeek \in Nat BY BoardConstants DEF BoardInv, StoreShape
<1>4. week - 1 \in Weeks BY <1>3 DEF Weeks
<1>5. s \in ListingJob BY <1>1, <1>4, EmptySeq DEF ListingJob, Stages
<1>6. s \in ResetJob /\ s.pc = "listing" /\ s.label = week - 1 BY <1>1, <1>5 DEF ResetJob
<1>7. /\ UNCHANGED <<stats, weeklySp, archive, week, events, faults, overlapped>>
      /\ resetLock' \in Resets \cup {Nobody} /\ payload' \in Seq(Snap) /\ overlapped' \in BOOLEAN
    BY DEF TakeLock, BoardInv, StoreShape
<1>8. QED BY <1>2, <1>6, <1>7, ResetMoves

LEMMA ListedRows ==
    ASSUME PointsTrue, NEW S \in SUBSET Users, NEW n \in Nat, n = Cardinality(S),
           NEW ids \in [1..n -> S], Once(ids, S, n)
    PROVE  Rows(ids) \in Seq(Snap) /\ (S # {} => Rows(ids) # <<>>)
<1>1. ids \in [1..n -> Users] OBVIOUS
<1>2. PICK rows : rows = Rows(ids) OBVIOUS
<1>3. rows \in [1..n -> Snap] BY <1>1, <1>2, RowsAreSnaps
<1>4. rows \in Seq(Snap) /\ Len(rows) = n BY <1>3, ListIsSeq
<1>5. S # {} => n # 0 BY DEF Once
<1>6. rows = <<>> => n = 0 BY <1>4
<1>7. QED BY <1>2, <1>4, <1>5, <1>6

\* Everyone with points is listed.
LEMMA ResetListed ==
    ASSUME BoardInv, NEW r \in Resets, ListRows(r), NEW label \in Weeks, label = week - 1,
           NEW S, S = {u \in Users : stats[u].weekly > 0},
           NEW users, users = {u \in Users : weeklySp[u] > 0},
           NEW rows \in Seq(Snap), S # {} => rows # <<>>,
           NEW s, s = [pc |-> "listed", stage |-> "hash", label |-> label, users |-> users, todo |-> rows],
           Do(r, s)
    PROVE  BoardInv'
<1>1. s \in ListedJob BY DEF ListedJob, Stages
<1>2. s \in ResetJob /\ s.pc = "listed" /\ s.label = week - 1 /\ s.users = users /\ s.todo = rows
    BY <1>1 DEF ResetJob
<1>3. UNCHANGED <<stats, weeklySp, archive, week, events, faults, resetLock, payload, overlapped>>
    BY DEF ListRows
<1>4. resetLock' \in Resets \cup {Nobody} /\ payload' \in Seq(Snap) /\ overlapped' \in BOOLEAN
    BY <1>3 DEF BoardInv, StoreShape
<1>5. ~overlapped' => Knows(s)
    BY <1>2, <1>3 DEF BoardInv, Books, Booked, Knows
<1>6. QED BY <1>2, <1>3, <1>4, <1>5, ResetMoves

\* The ids that have something, in ascending order.
LEMMA ListedIds ==
    ASSUME PointsTrue, NEW S \in SUBSET Users, NEW rows, rows = Rows(Sorted(S, <))
    PROVE  rows \in Seq(Snap) /\ (S # {} => rows # <<>>)
<1>1. PICK n \in Nat : n = Cardinality(S) BY UserSets
<1>2. S \in SUBSET Nat /\ IsFiniteSet(S) BY UserSets
<1>3. PICK ids : ids = Sorted(S, <) BY Zenon
<1>4. ids \in [1..n -> S] /\ Once(ids, S, n) BY <1>1, <1>2, <1>3, Ascending, Zenon
<1>5. rows = Rows(ids) BY <1>3, Zenon
<1>6. QED BY <1>1, <1>4, <1>5, ListedRows

LEMMA ResetLists ==
    ASSUME BoardInv, NEW r \in Resets, ListRows(r) PROVE BoardInv'
<1>1. PICK x \in ResetJob : x = job[r] BY DEF BoardInv, JobsShape
<1>2. x \in ListingJob BY <1>1, ResetKinds DEF ListRows
<1>3. x.label \in Weeks /\ x.label = week - 1
    BY <1>1, <1>2 DEF ListingJob, BoardInv, SameWeek
<1>4. PICK S : S = {u \in Users : stats[u].weekly > 0} OBVIOUS
<1>5. S \in SUBSET Users BY <1>4
<1>6. PICK rows : rows = Rows(Sorted(S, <)) BY Zenon
<1>7. PointsTrue BY DEF BoardInv, StoreShape
<1>8. rows \in Seq(Snap) /\ (S # {} => rows # <<>>) BY <1>5, <1>6, <1>7, ListedIds, Zenon
<1>9. PICK users : users = {u \in Users : weeklySp[u] > 0} OBVIOUS
<1>10. PICK s : s = [pc |-> "listed", stage |-> "hash", label |-> x.label, users |-> users, todo |-> rows]
    OBVIOUS
<1>11. Do(r, s) BY <1>1, <1>4, <1>6, <1>9, <1>10, Zenon DEF ListRows
<1>12. QED BY <1>3, <1>4, <1>8, <1>9, <1>10, <1>11, ResetListed

LEMMA ResetArchives ==
    ASSUME BoardInv, NEW r \in Resets, ArchiveWeek(r) PROVE BoardInv'
<1>1. PICK x \in ResetJob : x = job[r] BY DEF BoardInv, JobsShape
<1>2. x \in ListedJob BY <1>1, ResetKinds DEF ArchiveWeek
<1>3. /\ x.label \in Weeks /\ x.users \in SUBSET Users /\ x.todo \in Seq(Snap) /\ x.label = week - 1
      /\ x.pc = "listed"
    BY <1>1, <1>2 DEF ListedJob, BoardInv, SameWeek
<1>4. PICK points : points = Weekly OBVIOUS
<1>5. points \in [Users -> Nat] /\ \A u \in Users : points[u] = stats[u].weekly
    BY <1>4 DEF Weekly, BoardInv, StoreShape, PointsTrue
<1>6. PICK behind : behind = {y \in Resets : job[y].pc = "archived"} OBVIOUS
<1>7. PICK s : s = [pc |-> "archived", stage |-> "hash", label |-> x.label, users |-> x.users,
                    todo |-> x.todo, points |-> points, behind |-> behind]
    OBVIOUS
<1>8. s \in ArchivedJob BY <1>3, <1>5, <1>6, <1>7 DEF ArchivedJob, Stages
<1>9. /\ s \in ResetJob /\ s.label = x.label /\ s.users = x.users /\ s.todo = x.todo
      /\ s.points = points /\ s.pc = "archived"
    BY <1>7, <1>8 DEF ResetJob
<1>10. Do(r, s) BY <1>1, <1>4, <1>6, <1>7 DEF ArchiveWeek
<1>11. UNCHANGED <<stats, weeklySp, archive, week, events, faults, resetLock, payload>> BY DEF ArchiveWeek
<1>12. resetLock' \in Resets \cup {Nobody} /\ payload' \in Seq(Snap)
    BY <1>11 DEF BoardInv, StoreShape
<1>13. overlapped' = (overlapped \/ \E u \in Users :
                         stats[u].weekly > 0 /\ archive[u][x.label] > 0)
    BY <1>1 DEF ArchiveWeek
<1>14. overlapped' \in BOOLEAN /\ (overlapped => overlapped')
    BY <1>13, Zenon DEF BoardInv, StoreShape
<1>15. ASSUME ~overlapped' PROVE Knows(s) /\ Copied(s)
    <2>1. ~overlapped /\ \A u \in Users : ~(stats[u].weekly > 0 /\ archive[u][x.label] > 0)
        BY <1>13, <1>15, Zenon
    <2>2. Knows(x) BY <1>1, <1>3, <2>1 DEF BoardInv, Books
    <2>3. Knows(s) BY <1>9, <2>2 DEF Knows
    <2>4. \A u \in Users : archive[u][x.label] \in Nat
        BY <1>3, BoardConstants DEF BoardInv, StoreShape, Weeks
    <2>5. \A u \in Users : stats[u].weekly > 0 => archive[u][x.label] = 0 BY <2>1, <2>4
    <2>6. Copied(s) BY <1>5, <1>9, <2>5 DEF Copied
    <2>7. QED BY <2>3, <2>6
<1>16. s.label = week - 1 BY <1>3, <1>9
<1>17. QED BY <1>9, <1>10, <1>11, <1>12, <1>14, <1>15, <1>16, ResetMoves

LEMMA ResetFinishes ==
    ASSUME BoardInv, NEW r \in Resets, FinishReset(r) PROVE BoardInv'
<1>1. Do(r, Resting) /\ Resting \in ResetJob /\ Resting.pc = "idle"
    BY RestingJobs DEF FinishReset, ResetJob
<1>2. UNCHANGED <<stats, weeklySp, archive, week, events, faults, overlapped>> BY DEF FinishReset
<1>3. payload' = payload \/ payload' = <<>> BY DEF FinishReset
<1>4. payload' \in Seq(Snap) BY <1>3, EmptySeq DEF BoardInv, StoreShape
<1>5. resetLock' \in Resets \cup {Nobody} /\ overlapped' \in BOOLEAN
    BY <1>2 DEF FinishReset, BoardInv, StoreShape
<1>6. QED BY <1>1, <1>2, <1>4, <1>5, ResetMoves

----------------------------------------------------------------------------
(* The outbox: events are added, claimed and marked. *)

LEMMA EventsSeq ==
    ASSUME AttemptsCounted
    PROVE  /\ Len(events) \in Nat /\ DOMAIN events = 1..Len(events)
           /\ \A i \in DOMAIN events : events[i] \in EventRow
BY LenProperties, ElementOfSeq DEF AttemptsCounted

LEMMA HoldersFinite ==
    ASSUME NEW i
    PROVE  IsFiniteSet(Holders(i)) /\ Cardinality(Holders(i)) \in Nat
<1>1. Holders(i) \subseteq Workers BY DEF Holders
<1>2. QED BY <1>1, BoardConstants, FS_Subset, FS_CardinalityType

LEMMA EventsAdded ==
    ASSUME AttemptsCounted, NEW rows \in Seq(EventRow), events' = events \o rows,
           Len(events) + Len(rows) <= MaxEvents,
           \A k \in 1..Len(rows) : rows[k].applied = 0,
           \A w \in Workers : job'[w] = job[w]
    PROVE  AttemptsCounted'
<1>1. Len(events) \in Nat /\ DOMAIN events = 1..Len(events) BY EventsSeq
<1>2. Len(rows) \in Nat BY LenProperties
<1>3. /\ events' \in Seq(EventRow) /\ Len(events') = Len(events) + Len(rows)
      /\ \A i \in 1..Len(events') : events'[i] = IF i <= Len(events) THEN events[i]
                                                 ELSE rows[i - Len(events)]
    BY ConcatProperties DEF AttemptsCounted
<1>4. DOMAIN events' = 1..Len(events') BY <1>3, LenProperties
<1>5. \A i \in DOMAIN events : i \in DOMAIN events' /\ events'[i] = events[i] BY <1>1, <1>2, <1>3, <1>4
<1>6. \A i : Holders(i)' = Holders(i) BY DEF Holders, Has
<1>7. \A w \in Workers : Holds(job[w])' BY <1>5 DEF AttemptsCounted, Holds
<1>8. ASSUME NEW i \in DOMAIN events'
      PROVE  events'[i].applied + Cardinality(Holders(i)') <= events'[i].attempts
    <2>1. CASE i \in DOMAIN events BY <1>5, <1>6, <2>1 DEF AttemptsCounted
    <2>2. CASE i \notin DOMAIN events
        <3>1. Holders(i) = {} BY <2>2 DEF Holders, Has, AttemptsCounted, Holds
        <3>2. Cardinality(Holders(i)') = 0 BY <1>6, <3>1, FS_EmptySet
        <3>3. i - Len(events) \in 1..Len(rows) /\ ~(i <= Len(events)) BY <1>1, <1>2, <1>3, <1>4, <2>2
        <3>4. events'[i] = rows[i - Len(events)] BY <1>3, <1>4, <3>3
        <3>5. events'[i] \in EventRow BY <3>3, <3>4, ElementOfSeq
        <3>6. events'[i].applied = 0 BY <3>3, <3>4
        <3>7. events'[i].attempts \in Nat BY <3>5 DEF EventRow
        <3>8. QED BY <3>2, <3>6, <3>7
    <2>3. QED BY <2>1, <2>2
<1>9. QED BY <1>3, <1>7, <1>8 DEF AttemptsCounted

LEMMA EarnKeeps ==
    ASSUME BoardInv, NEW u \in Users, NEW sp \in 1..2, Earn(u, sp) PROVE BoardInv'
<1> USE DEF BoardInv
<1>1. stats[u].weekly \in Nat /\ stats[u].total \in Nat /\ stats[u].weekly <= stats[u].total /\ sp \in Nat
    BY DEF StoreShape, PointsTrue
<1>2. PICK a \in Nat, b \in Nat : a = stats[u].weekly + sp /\ b = stats[u].total + sp BY <1>1
<1>3. b <= MaxPoints /\ Len(events) < MaxEvents BY <1>2 DEF Earn
<1>4. stats[u] \in [weekly: Nat, total: Nat] BY DEF StoreShape, PointsTrue
<1>5. stats' = [stats EXCEPT ![u] = [weekly |-> a, total |-> b]] BY <1>2 DEF Earn
<1>6. /\ stats' \in [Users -> [weekly: Nat, total: Nat]]
      /\ stats'[u].weekly = a /\ stats'[u].total = b
      /\ \A v \in Users : v # u => stats'[v] = stats[v]
    BY <1>5 DEF StoreShape, PointsTrue
<1>7. weeklySp' = [weeklySp EXCEPT ![u] = weeklySp[u] + sp] BY DEF Earn
<1>8. weeklySp[u] \in Nat /\ weeklySp[u] <= stats[u].total BY DEF StoreShape
<1>9. /\ weeklySp' \in [Users -> Nat] /\ weeklySp'[u] = weeklySp[u] + sp
      /\ \A v \in Users : v # u => weeklySp'[v] = weeklySp[v]
    BY <1>1, <1>7, <1>8 DEF StoreShape
<1>10. UNCHANGED <<archive, week, redis, payload, resetLock, job, faults>> BY DEF Earn
<1>11. overlapped' = (overlapped \/ Resetting) BY DEF Earn
<1>12. overlapped' \in BOOLEAN BY <1>11, Zenon
<1>13. StoreShape'
    <2>1. \A v \in Users : /\ stats'[v].weekly <= stats'[v].total /\ stats'[v].total <= MaxPoints
                           /\ weeklySp'[v] <= stats'[v].total
        <3> SUFFICES ASSUME NEW v \in Users
                     PROVE  /\ stats'[v].weekly <= stats'[v].total /\ stats'[v].total <= MaxPoints
                            /\ weeklySp'[v] <= stats'[v].total
            OBVIOUS
        <3>1. CASE v = u BY <1>1, <1>2, <1>3, <1>6, <1>8, <1>9, <3>1
        <3>2. CASE v # u BY <1>6, <1>9, <3>2 DEF StoreShape, PointsTrue
        <3>3. QED BY <3>1, <3>2
    <2>2. PointsTrue' BY <1>6, <2>1 DEF PointsTrue
    <2>3. QED BY <1>9, <1>10, <1>12, <2>1, <2>2 DEF StoreShape
<1>14. JobsShape' BY <1>10 DEF JobsShape
<1>15. SameWeek' BY <1>10 DEF SameWeek
<1>16. AttemptsCounted'
    <2>1. PICK row : row = [u |-> u, weekly |-> a, total |-> b, attempts |-> 0, done |-> FALSE, applied |-> 0]
        OBVIOUS
    <2>2. row \in EventRow /\ row.applied = 0 BY <2>1, BoardConstants DEF EventRow
    <2>3. events' = Append(events, row) BY <1>6, <2>1 DEF Earn
    <2>4. <<row>> \in Seq(EventRow) /\ Len(<<row>>) = 1 /\ <<row>>[1] = row BY <2>2
    <2>5. events' = events \o <<row>> BY <2>2, <2>3 DEF AttemptsCounted
    <2>6. Len(events) \in Nat /\ MaxEvents \in Nat BY EventsSeq, BoardConstants
    <2>7. Len(events) + Len(<<row>>) <= MaxEvents BY <1>3, <2>4, <2>6
    <2>8. \A k \in 1..Len(<<row>>) : <<row>>[k].applied = 0 BY <2>2, <2>4
    <2>9. QED BY <1>10, <2>4, <2>5, <2>7, <2>8, EventsAdded
<1>17. ASSUME ~overlapped' PROVE Books'
    <2>1. ~overlapped /\ ~Resetting BY <1>11, <1>17, Zenon
    <2>2. \A r \in Resets : job'[r].pc \notin {"listed", "archived"} BY <1>10, <2>1 DEF Resetting
    <2>3. \A v \in Users : RunningTotals(v)' = RunningTotals(v) BY <1>10 DEF RunningTotals
    <2>4. ASSUME NEW v \in Users PROVE Booked(v)'
        <3>1. Booked(v) BY <2>1 DEF Books
        <3>2. CASE v # u BY <1>6, <1>9, <2>3, <3>1, <3>2 DEF Booked
        <3>3. CASE v = u
            <4>1. PICK sum \in RunningTotals(u) :
                      /\ sum[MaxWeek] + stats[u].weekly = stats[u].total
                      /\ \A w \in 0..MaxWeek : sum[w] + stats[u].weekly <= stats[u].total
                BY <3>1, <3>3 DEF Booked
            <4>2. sum \in [0..MaxWeek -> 0..MaxPoints] BY DEF RunningTotals
            <4>3. \A w \in 0..MaxWeek : sum[w] \in Nat BY <4>2
            <4>4. MaxWeek \in 0..MaxWeek BY BoardConstants
            <4>5. sum[MaxWeek] + stats'[u].weekly = stats'[u].total
                BY <1>1, <1>2, <1>6, <4>1, <4>3, <4>4
            <4>6. \A w \in 0..MaxWeek : sum[w] + stats'[u].weekly <= stats'[u].total
                BY <1>1, <1>2, <1>6, <4>1, <4>3
            <4>7. weeklySp'[u] = stats'[u].weekly BY <1>2, <1>6, <1>9, <3>1, <3>3 DEF Booked
            <4>8. QED BY <2>3, <3>3, <4>1, <4>5, <4>6, <4>7 DEF Booked
        <3>4. QED BY <3>2, <3>3
    <2>5. QED BY <2>2, <2>4 DEF Books
<1>18. QED BY <1>13, <1>14, <1>15, <1>16, <1>17

\* A worker is done with the first of its events, and drops it.
LEMMA NextDrops ==
    ASSUME BoardInv, NEW w \in Workers, job[w].pc # "idle", NextEvent(w),
           DOMAIN events' = DOMAIN events,
           NEW e, e = Head(job[w].todo)
    PROVE  /\ e \in Claimed /\ e.event \in DOMAIN events /\ w \in Holders(e.event)
           /\ \E s \in WorkerJob : Do(w, s)
           /\ \A x \in Workers : Holds(job[x])'
           /\ \A i : Holders(i)' = IF i = e.event THEN Holders(i) \ {w} ELSE Holders(i)
<1> USE DEF BoardInv
<1>1. PICK x \in WorkerJob : x = job[w] BY DEF JobsShape
<1>2. PICK q \in Seq(Claimed) : q = x.todo BY <1>1 DEF WorkerJob
<1>3. Holds(x) BY <1>1 DEF AttemptsCounted
<1>4. q # <<>> BY <1>1, <1>2, <1>3 DEF Holds
<1>5. /\ Head(q) = q[1] /\ q[1] \in Claimed /\ Len(q) \in Nat \ {0} /\ DOMAIN q = 1..Len(q)
      /\ Tail(q) \in Seq(Claimed) /\ Len(Tail(q)) = Len(q) - 1
      /\ DOMAIN Tail(q) = 1..(Len(q) - 1)
      /\ \A k \in 1..(Len(q) - 1) : Tail(q)[k] = q[k + 1]
    BY <1>4, TailIsSeq
<1>6. e = q[1] /\ 1 \in DOMAIN q BY <1>1, <1>2, <1>5
<1>7. e \in Claimed /\ e.event \in DOMAIN events /\ w \in Holders(e.event)
    BY <1>1, <1>2, <1>3, <1>5, <1>6 DEF Holds, Holders, Has
<1>8. PICK s : Do(w, s) /\ s = IF Len(q) = 1 THEN Resting
                              ELSE [pc |-> "apply", stage |-> "hash", todo |-> Tail(q)]
    BY <1>1, <1>2 DEF NextEvent
<1>9. s \in WorkerJob /\ s.todo = Tail(q) /\ (s.pc = "idle" <=> s.todo = <<>>)
    <2>1. CASE Len(q) = 1
        <3>1. Tail(q) = <<>> BY <1>5, <2>1, EmptySeq
        <3>2. QED BY <1>8, <2>1, <3>1, RestingJobs
    <2>2. CASE Len(q) # 1
        <3>1. s = [pc |-> "apply", stage |-> "hash", todo |-> Tail(q)] BY <1>8, <2>2
        <3>2. Len(Tail(q)) # 0 BY <1>5, <2>2
        <3>21. Tail(q) # <<>> BY <3>2, EmptySeq
        <3>3. s \in WorkerJob BY <1>5, <3>1 DEF WorkerJob, Stages
        <3>4. QED BY <3>1, <3>21, <3>3
    <2>3. QED BY <2>1, <2>2
<1>10. w \in Jobs BY Kinds
<1>11. job'[w] = s /\ \A y \in Jobs : y # w => job'[y] = job[y]
    BY <1>8, <1>10, DoJob DEF JobsShape
<1>12. \A k \in DOMAIN s.todo : k + 1 \in DOMAIN q /\ s.todo[k] = q[k + 1] /\ k + 1 # 1
    BY <1>5, <1>9
<1>13. \A k \in DOMAIN q : k # 1 => k - 1 \in DOMAIN s.todo /\ s.todo[k - 1] = q[k]
    BY <1>5, <1>9
<1>14. Holds(s)'
    <2>1. \A k \in DOMAIN s.todo : s.todo[k].event \in DOMAIN events'
        BY <1>2, <1>3, <1>12 DEF Holds
    <2>2. ASSUME NEW k \in DOMAIN s.todo, NEW l \in DOMAIN s.todo, s.todo[k].event = s.todo[l].event
          PROVE  k = l
        <3>1. k + 1 \in DOMAIN q /\ l + 1 \in DOMAIN q /\ q[k + 1].event = q[l + 1].event
            BY <1>12, <2>2
        <3>2. k + 1 = l + 1 BY <1>2, <1>3, <3>1 DEF Holds
        <3>3. k \in Nat /\ l \in Nat BY <1>5, <1>9
        <3>4. QED BY <3>2, <3>3
    <2>3. QED BY <1>9, <2>1, <2>2 DEF Holds
<1>15. ASSUME NEW y \in Workers PROVE Holds(job[y])'
    <2>1. CASE y = w BY <1>11, <1>14, <2>1 DEF Holds
    <2>2. CASE y # w BY <1>11, <2>2, Kinds DEF AttemptsCounted, Holds
    <2>3. QED BY <2>1, <2>2
<1>16. ASSUME NEW i PROVE Holders(i)' = IF i = e.event THEN Holders(i) \ {w} ELSE Holders(i)
    <2>1. \A y \in Workers : y # w => (Has(y, i)' <=> Has(y, i)) BY <1>11, Kinds DEF Has
    <2>2. Has(w, i)' <=> Has(w, i) /\ i # e.event
        <3>1. ASSUME Has(w, i)' PROVE Has(w, i) /\ i # e.event
            <4>1. PICK k \in DOMAIN s.todo : s.todo[k].event = i BY <1>11, <3>1 DEF Has
            <4>2. k + 1 \in DOMAIN q /\ q[k + 1].event = i /\ k + 1 # 1 BY <1>12, <4>1
            <4>3. i # e.event BY <1>2, <1>3, <1>6, <4>2 DEF Holds
            <4>4. QED BY <1>1, <1>2, <4>2, <4>3 DEF Has
        <3>2. ASSUME Has(w, i), i # e.event PROVE Has(w, i)'
            <4>1. PICK k \in DOMAIN q : q[k].event = i BY <1>1, <1>2, <3>2 DEF Has
            <4>2. k # 1 BY <1>6, <3>2, <4>1
            <4>3. k - 1 \in DOMAIN s.todo /\ s.todo[k - 1].event = i BY <1>13, <4>1, <4>2
            <4>4. QED BY <1>11, <4>3 DEF Has
        <3>3. QED BY <3>1, <3>2
    <2>3. QED BY <2>1, <2>2 DEF Holders
<1>17. QED BY <1>7, <1>8, <1>9, <1>15, <1>16

\* A mark that counts at most one more application keeps the attempts counted.
LEMMA MarksCounted ==
    ASSUME BoardInv, NEW w \in Workers, NEW e, e.event \in DOMAIN events, w \in Holders(e.event),
           events' \in Seq(EventRow), Len(events') = Len(events), DOMAIN events' = DOMAIN events,
           \A i \in DOMAIN events : events'[i].attempts = events[i].attempts,
           \A i \in DOMAIN events : i # e.event => events'[i].applied = events[i].applied,
           events'[e.event].applied \in {events[e.event].applied, events[e.event].applied + 1},
           \A x \in Workers : Holds(job[x])',
           \A i : Holders(i)' = IF i = e.event THEN Holders(i) \ {w} ELSE Holders(i)
    PROVE  AttemptsCounted'
<1>1. AttemptsCounted BY DEF BoardInv
<1>2. ASSUME NEW i \in DOMAIN events
      PROVE  events'[i].applied + Cardinality(Holders(i)') <= events'[i].attempts
    <2>1. events[i].applied + Cardinality(Holders(i)) <= events[i].attempts
        BY <1>1 DEF AttemptsCounted
    <2>2. CASE i # e.event BY <2>1, <2>2
    <2>3. CASE i = e.event
        <3>1. IsFiniteSet(Holders(i)) /\ Cardinality(Holders(i)) \in Nat BY HoldersFinite
        <3>2. Cardinality(Holders(i) \ {w}) = Cardinality(Holders(i)) - 1
            BY <2>3, <3>1, FS_RemoveElement
        <3>3. events[i] \in EventRow BY <1>1, EventsSeq
        <3>4. events[i].applied \in Nat /\ events[i].attempts \in Nat BY <3>3 DEF EventRow
        <3>5. Holders(i)' = Holders(i) \ {w} BY <2>3
        <3>6. events'[i].applied <= events[i].applied + 1 /\ events'[i].applied \in Nat BY <2>3, <3>4
        <3>7. events'[i].attempts = events[i].attempts OBVIOUS
        <3>8. QED BY <2>1, <3>1, <3>2, <3>4, <3>5, <3>6, <3>7
    <2>4. QED BY <2>2, <2>3
<1>3. QED BY <1>1, <1>2 DEF AttemptsCounted

LEMMA WorkerMarks ==
    ASSUME BoardInv, NEW w \in Workers, MarkProcessed(w) PROVE BoardInv'
<1>1. PICK e : e = Head(job[w].todo) OBVIOUS
<1>2. job[w].pc # "idle" /\ NextEvent(w) BY DEF MarkProcessed
<1>3. events' = [events EXCEPT ![e.event].done = TRUE, ![e.event].applied = @ + 1]
    BY <1>1 DEF MarkProcessed
<1>4. AttemptsCounted /\ events \in Seq(EventRow) BY DEF BoardInv, AttemptsCounted
<1>5. DOMAIN events' = DOMAIN events BY <1>3
<1>6. /\ e \in Claimed /\ e.event \in DOMAIN events /\ w \in Holders(e.event)
      /\ \E s \in WorkerJob : Do(w, s)
      /\ \A x \in Workers : Holds(job[x])'
      /\ \A i : Holders(i)' = IF i = e.event THEN Holders(i) \ {w} ELSE Holders(i)
    BY <1>1, <1>2, <1>5, NextDrops
<1>7. /\ Len(events) \in Nat /\ DOMAIN events = 1..Len(events)
      /\ \A i \in DOMAIN events : events[i] \in EventRow
    BY <1>4, EventsSeq
<1>8. PICK c \in DOMAIN events : c = e.event BY <1>6
<1>9. PICK row \in EventRow : row = events[c] BY <1>7
<1>91. PICK n \in Nat : n = row.applied + 1 BY <1>9 DEF EventRow
<1>10. PICK new : new = [row EXCEPT !.done = TRUE, !.applied = n] OBVIOUS
<1>11. new \in EventRow /\ new.attempts = row.attempts /\ new.applied = row.applied + 1
    BY <1>91, <1>10 DEF EventRow
<1>12. events' = [events EXCEPT ![c] = new]
    <2>1. events' = [events EXCEPT ![c].done = TRUE, ![c].applied = @ + 1] BY <1>3, <1>8, Zenon
    <2>2. c \in DOMAIN events /\ "done" \in DOMAIN row /\ "applied" \in DOMAIN row BY <1>8, <1>9 DEF EventRow
    <2>3. QED BY <1>9, <1>91, <1>10, <2>1, <2>2
<1>13. /\ events' \in [1..Len(events) -> EventRow] /\ events'[c] = new
       /\ \A i \in DOMAIN events : i # c => events'[i] = events[i]
    BY <1>7, <1>11, <1>12
<1>14. events' \in Seq(EventRow) /\ Len(events') = Len(events) BY <1>7, <1>13, ListIsSeq
<1>15. \A i \in DOMAIN events : events'[i].attempts = events[i].attempts BY <1>9, <1>11, <1>13
<1>16. AttemptsCounted'
    BY <1>5, <1>6, <1>8, <1>9, <1>11, <1>13, <1>14, <1>15, MarksCounted
<1>17. /\ UNCHANGED <<stats, weeklySp, archive, week, payload, resetLock, overlapped>>
       /\ faults' \in 0..MaxOutages
    BY DEF MarkProcessed, BoardInv, StoreShape
<1>18. QED BY <1>6, <1>16, <1>17, WorkerKeeps

LEMMA WorkerFails ==
    ASSUME BoardInv, NEW w \in Workers, MarkFailed(w) PROVE BoardInv'
<1>1. PICK e : e = Head(job[w].todo) OBVIOUS
<1>2. job[w].pc # "idle" /\ NextEvent(w) BY DEF MarkFailed
<1>3. events' = [events EXCEPT ![e.event].done = e.attempts >= MaxAttempts_]
    BY <1>1 DEF MarkFailed
<1>4. AttemptsCounted /\ events \in Seq(EventRow) BY DEF BoardInv, AttemptsCounted
<1>5. DOMAIN events' = DOMAIN events BY <1>3
<1>6. /\ e \in Claimed /\ e.event \in DOMAIN events /\ w \in Holders(e.event)
      /\ \E s \in WorkerJob : Do(w, s)
      /\ \A x \in Workers : Holds(job[x])'
      /\ \A i : Holders(i)' = IF i = e.event THEN Holders(i) \ {w} ELSE Holders(i)
    BY <1>1, <1>2, <1>5, NextDrops
<1>7. /\ Len(events) \in Nat /\ DOMAIN events = 1..Len(events)
      /\ \A i \in DOMAIN events : events[i] \in EventRow
    BY <1>4, EventsSeq
<1>8. PICK c \in DOMAIN events : c = e.event BY <1>6
<1>9. PICK row \in EventRow : row = events[c] BY <1>7
<1>91. PICK done \in BOOLEAN : done = (e.attempts >= MaxAttempts_)
    <2>1. e.attempts \in Nat /\ MaxAttempts_ \in Nat BY <1>6, BoardConstants DEF Claimed
    <2>2. (e.attempts >= MaxAttempts_) \in BOOLEAN BY <2>1
    <2>3. QED BY <2>2, Zenon
<1>10. PICK new : new = [row EXCEPT !.done = done] OBVIOUS
<1>11. new \in EventRow /\ new.attempts = row.attempts /\ new.applied = row.applied
    BY <1>10 DEF EventRow
<1>12. events' = [events EXCEPT ![c] = new]
    <2>1. events' = [events EXCEPT ![c].done = done] BY <1>3, <1>8, <1>91, Zenon
    <2>2. QED BY <1>9, <1>10, <2>1
<1>13. /\ events' \in [1..Len(events) -> EventRow] /\ events'[c] = new
       /\ \A i \in DOMAIN events : i # c => events'[i] = events[i]
    BY <1>7, <1>11, <1>12
<1>14. events' \in Seq(EventRow) /\ Len(events') = Len(events) BY <1>7, <1>13, ListIsSeq
<1>15. \A i \in DOMAIN events : events'[i].attempts = events[i].attempts BY <1>9, <1>11, <1>13
<1>16. AttemptsCounted'
    BY <1>5, <1>6, <1>8, <1>9, <1>11, <1>13, <1>14, <1>15, MarksCounted
<1>17. /\ UNCHANGED <<stats, weeklySp, archive, week, payload, resetLock, overlapped>>
       /\ faults' \in 0..MaxOutages
    BY DEF MarkFailed, BoardInv, StoreShape
<1>18. QED BY <1>6, <1>16, <1>17, WorkerKeeps

\* The events a claim takes, once each, in the order they were written.
ClaimedRow(i) == [u |-> events[i].u, weekly |-> events[i].weekly, total |-> events[i].total,
                  event |-> i, attempts |-> events[i].attempts + 1]
ClaimedJob(w, ids) ==
    Do(w, [pc |-> "apply", stage |-> "hash", todo |-> [k \in DOMAIN ids |-> ClaimedRow(ids[k])]])
EventsClaimed ==
    events' = [i \in DOMAIN events |->
                  IF Claimable(i) THEN [events[i] EXCEPT !.attempts = @ + 1] ELSE events[i]]

LEMMA ClaimTakes ==
    ASSUME BoardInv, NEW w \in Workers, Claim(w)
    PROVE  /\ \E c \in Nat : \E ids \in [1..c -> {i \in DOMAIN events : Claimable(i)}] :
                  /\ Once(ids, {i \in DOMAIN events : Claimable(i)}, c) /\ ids # <<>>
                  /\ ClaimedJob(w, ids)
           /\ EventsClaimed /\ job[w].pc = "idle"
           /\ UNCHANGED <<stats, weeklySp, archive, week, payload, resetLock, faults, overlapped>>
<1>1. PICK C : C = {i \in DOMAIN events : Claimable(i)} OBVIOUS
<1>2. C \in SUBSET Nat /\ IsFiniteSet(C)
    <2>1. Len(events) \in Nat /\ DOMAIN events = 1..Len(events) BY EventsSeq DEF BoardInv
    <2>2. IsFiniteSet(1..Len(events)) BY <2>1, FS_Interval
    <2>3. C \subseteq 1..Len(events) BY <1>1, <2>1
    <2>4. IsFiniteSet(C) BY <2>2, <2>3, FS_Subset
    <2>5. QED BY <2>1, <2>3, <2>4
<1>3. PICK c \in Nat : c = Cardinality(C) BY <1>2, FS_CardinalityType
<1>4. PICK ids : ids = Sorted(C, <) BY Zenon
<1>5. ids \in [1..c -> C] /\ Once(ids, C, c) BY <1>2, <1>3, <1>4, Ascending, Zenon
<1>6. ids # <<>> /\ job[w].pc = "idle" BY <1>1, <1>4, Zenon DEF Claim
<1>7. ClaimedJob(w, ids) BY <1>1, <1>4, Zenon DEF Claim, ClaimedJob, ClaimedRow
<1>8. EventsClaimed BY Zenon DEF Claim, EventsClaimed
<1>9. UNCHANGED <<stats, weeklySp, archive, week, payload, resetLock, faults, overlapped>>
    BY Zenon DEF Claim
<1>10. QED BY <1>1, <1>5, <1>6, <1>7, <1>8, <1>9, Zenon

LEMMA WorkerClaims ==
    ASSUME BoardInv, NEW w \in Workers, Claim(w) PROVE BoardInv'
<1>1. PICK C : C = {i \in DOMAIN events : Claimable(i)} OBVIOUS
<1>2. /\ \E c \in Nat : \E ids \in [1..c -> C] : Once(ids, C, c) /\ ids # <<>> /\ ClaimedJob(w, ids)
      /\ EventsClaimed /\ job[w].pc = "idle"
      /\ UNCHANGED <<stats, weeklySp, archive, week, payload, resetLock, faults, overlapped>>
    BY <1>1, ClaimTakes, Zenon
<1>3. PICK c \in Nat : \E ids \in [1..c -> C] : Once(ids, C, c) /\ ids # <<>> /\ ClaimedJob(w, ids)
    BY <1>2
<1>4. PICK ids \in [1..c -> C] : Once(ids, C, c) /\ ids # <<>> /\ ClaimedJob(w, ids) BY <1>3
<1>5. AttemptsCounted /\ events \in Seq(EventRow) /\ Len(events) <= MaxEvents
    BY DEF BoardInv, AttemptsCounted
<1>6. /\ Len(events) \in Nat /\ DOMAIN events = 1..Len(events)
      /\ \A i \in DOMAIN events : events[i] \in EventRow
    BY <1>5, EventsSeq
<1>7. ASSUME NEW i \in DOMAIN events
      PROVE  /\ ClaimedRow(i) \in Claimed /\ ClaimedRow(i).event = i
             /\ events'[i] \in EventRow /\ events'[i].applied = events[i].applied
             /\ i \in C => events'[i].attempts = events[i].attempts + 1
             /\ i \notin C => events'[i] = events[i]
    <2>1. PICK row \in EventRow : row = events[i] BY <1>6
    <2>2. row.attempts \in 0..MaxAttempts_ BY <2>1 DEF EventRow
    <2>3. ClaimedRow(i) \in Claimed /\ ClaimedRow(i).event = i
        BY <1>6, <2>1, <2>2, BoardConstants DEF ClaimedRow, Claimed, EventRow
    <2>4. CASE i \in C
        <3>1. row.attempts < MaxAttempts_ /\ Claimable(i) BY <1>1, <2>1, <2>4 DEF Claimable
        <3>2. PICK n \in 0..MaxAttempts_ : n = row.attempts + 1 BY <2>2, <3>1, BoardConstants
        <3>3. events'[i] = [row EXCEPT !.attempts = n] BY <1>2, <2>1, <3>1, <3>2 DEF EventsClaimed
        <3>4. events'[i] \in EventRow /\ events'[i].applied = row.applied /\ events'[i].attempts = n
            BY <3>3 DEF EventRow
        <3>5. QED BY <2>1, <2>3, <2>4, <3>2, <3>4
    <2>5. CASE i \notin C
        <3>1. events'[i] = events[i] BY <1>1, <1>2, <2>5 DEF EventsClaimed
        <3>2. QED BY <2>1, <2>3, <2>5, <3>1
    <2>6. QED BY <2>4, <2>5
<1>8. DOMAIN events' = DOMAIN events /\ events' \in [1..Len(events) -> EventRow]
    BY <1>2, <1>6, <1>7 DEF EventsClaimed
<1>9. events' \in Seq(EventRow) /\ Len(events') = Len(events) BY <1>6, <1>8, ListIsSeq
<1>10. PICK todo : todo = [k \in DOMAIN ids |-> ClaimedRow(ids[k])] OBVIOUS
<1>11. \A k \in 1..c : ids[k] \in C /\ ids[k] \in DOMAIN events BY <1>1, <1>4
<1>12. todo \in [1..c -> Claimed] /\ \A k \in 1..c : todo[k].event = ids[k]
    BY <1>4, <1>7, <1>10, <1>11
<1>13. todo \in Seq(Claimed) /\ DOMAIN todo = 1..c /\ Len(todo) = c BY <1>12, ListIsSeq
<1>14. todo # <<>>
    <2>1. c # 0 BY <1>4
    <2>2. QED BY <1>13, <2>1, EmptySeq
<1>15. PICK s : s = [pc |-> "apply", stage |-> "hash", todo |-> todo] OBVIOUS
<1>16. s \in WorkerJob /\ s.todo = todo /\ s.pc = "apply" BY <1>13, <1>15 DEF WorkerJob, Stages
<1>17. Do(w, s) BY <1>4, <1>10, <1>15 DEF ClaimedJob
<1>18. w \in Jobs BY Kinds
<1>19. job'[w] = s /\ \A y \in Jobs : y # w => job'[y] = job[y]
    BY <1>17, <1>18, DoJob DEF BoardInv, JobsShape
<1>20. Holds(s)'
    <2>1. \A k \in DOMAIN todo : todo[k].event \in DOMAIN events' BY <1>8, <1>11, <1>12, <1>13
    <2>2. \A k, l \in DOMAIN todo : todo[k].event = todo[l].event => k = l
        BY <1>4, <1>12, <1>13 DEF Once
    <2>3. QED BY <1>14, <1>16, <2>1, <2>2 DEF Holds
<1>21. ASSUME NEW y \in Workers PROVE Holds(job[y])'
    <2>1. CASE y = w BY <1>19, <1>20, <2>1 DEF Holds
    <2>2. CASE y # w BY <1>5, <1>8, <1>19, <2>2, Kinds DEF AttemptsCounted, Holds
    <2>3. QED BY <2>1, <2>2
<1>22. ASSUME NEW i PROVE /\ i \notin C => Holders(i)' = Holders(i)
                          /\ i \in C => Holders(i)' = Holders(i) \cup {w} /\ w \notin Holders(i)
    <2>1. \A y \in Workers : y # w => (Has(y, i)' <=> Has(y, i)) BY <1>19, Kinds DEF Has
    <2>2. job[w].todo = <<>> BY <1>2, <1>5 DEF AttemptsCounted, Holds
    <2>3. ~Has(w, i) BY <2>2 DEF Has
    <2>4. Has(w, i)' <=> \E k \in 1..c : ids[k] = i BY <1>12, <1>13, <1>16, <1>19 DEF Has
    <2>5. Has(w, i)' <=> i \in C BY <1>4, <1>11, <2>4 DEF Once
    <2>6. QED BY <2>1, <2>3, <2>5 DEF Holders
<1>23. ASSUME NEW i \in DOMAIN events
       PROVE  events'[i].applied + Cardinality(Holders(i)') <= events'[i].attempts
    <2>1. events[i].applied + Cardinality(Holders(i)) <= events[i].attempts
        BY <1>5 DEF AttemptsCounted
    <2>2. CASE i \notin C BY <1>7, <1>22, <2>1, <2>2
    <2>3. CASE i \in C
        <3>1. IsFiniteSet(Holders(i)) /\ Cardinality(Holders(i)) \in Nat BY HoldersFinite
        <3>2. w \notin Holders(i) /\ Holders(i)' = Holders(i) \cup {w} BY <1>22, <2>3
        <3>3. Cardinality(Holders(i)') = Cardinality(Holders(i)) + 1
            BY <3>1, <3>2, FS_AddElement
        <3>4. events[i] \in EventRow BY <1>6
        <3>5. events[i].applied \in Nat /\ events[i].attempts \in Nat BY <3>4 DEF EventRow
        <3>6. events'[i].applied = events[i].applied /\ events'[i].attempts = events[i].attempts + 1
            BY <1>7, <2>3
        <3>7. QED BY <2>1, <3>1, <3>3, <3>5, <3>6
    <2>4. QED BY <2>2, <2>3
<1>24. AttemptsCounted' BY <1>5, <1>8, <1>9, <1>21, <1>23 DEF AttemptsCounted
<1>25. faults' \in 0..MaxOutages BY <1>2 DEF BoardInv, StoreShape
<1>26. QED BY <1>2, <1>16, <1>17, <1>24, <1>25, WorkerKeeps

----------------------------------------------------------------------------
(* The commit of a weekly reset. *)

LEMMA CommitMoves ==
    ASSUME BoardInv, NEW r \in Resets, CommitReset(r),
           NEW x \in ArchivedJob, x = job[r],
           NEW zeroed, zeroed = [k \in DOMAIN x.todo |-> [x.todo[k] EXCEPT !.weekly = 0]]
    PROVE  /\ zeroed \in Seq(Snap) /\ (zeroed = <<>> <=> x.todo = <<>>)
           /\ AttemptsCounted'
           /\ \E s \in ApplyJob : Do(r, s)
<1>1. x.todo \in Seq(Snap) BY DEF ArchivedJob
<1>2. PICK n \in Nat : n = Len(x.todo) BY <1>1, LenProperties
<1>3. DOMAIN x.todo = 1..n /\ \A k \in 1..n : x.todo[k] \in Snap
    BY <1>1, <1>2, LenProperties, ElementOfSeq
<1>4. \A k \in 1..n : [x.todo[k] EXCEPT !.weekly = 0] \in Snap BY <1>3 DEF Snap
<1>5. zeroed \in [1..n -> Snap] BY <1>3, <1>4
<1>6. zeroed \in Seq(Snap) /\ Len(zeroed) = n /\ DOMAIN zeroed = 1..n BY <1>5, ListIsSeq
<1>7. zeroed = <<>> <=> x.todo = <<>> BY <1>1, <1>2, <1>6, EmptySeq
<1>8. PICK s : s = [pc |-> "apply", stage |-> "hash", todo |-> zeroed,
                    touched |-> {zeroed[k].u : k \in DOMAIN zeroed}]
    OBVIOUS
<1>9. {zeroed[k].u : k \in DOMAIN zeroed} \in SUBSET Users
    <2>1. \A k \in DOMAIN zeroed : zeroed[k].u \in Users BY <1>5, <1>6 DEF Snap
    <2>2. QED BY <2>1
<1>10. s \in ApplyJob BY <1>6, <1>8, <1>9 DEF ApplyJob, Stages
<1>11. Do(r, s)
    <2> DEFINE z == [k \in DOMAIN job[r].todo |-> [job[r].todo[k] EXCEPT !.weekly = 0]]
    <2>1. Do(r, [pc |-> "apply", stage |-> "hash", todo |-> z, touched |-> {z[k].u : k \in DOMAIN z}])
        BY Zenon DEF CommitReset
    <2>2. z = zeroed BY Zenon
    <2> HIDE DEF z
    <2>3. QED BY <1>8, <2>1, <2>2, Zenon
<1>12. PICK rows : rows = [k \in DOMAIN zeroed |->
                              [u |-> zeroed[k].u, weekly |-> 0, total |-> zeroed[k].total,
                               attempts |-> 0, done |-> FALSE, applied |-> 0]]
    OBVIOUS
<1>13. rows \in [1..n -> EventRow] /\ \A k \in 1..n : rows[k].applied = 0
    <2>1. \A k \in 1..n : zeroed[k].u \in Users /\ zeroed[k].total \in Nat BY <1>5 DEF Snap
    <2>2. \A k \in 1..n : [u |-> zeroed[k].u, weekly |-> 0, total |-> zeroed[k].total,
                           attempts |-> 0, done |-> FALSE, applied |-> 0] \in EventRow
        <3>1. 0 \in 0..MaxAttempts_ BY BoardConstants
        <3>2. QED BY <2>1, <3>1 DEF EventRow
    <2>3. QED BY <1>6, <1>12, <2>2
<1>14. rows \in Seq(EventRow) /\ Len(rows) = n BY <1>13, ListIsSeq
<1>15. events' = events \o rows BY <1>12 DEF CommitReset
<1>16. Len(events) + Len(rows) <= MaxEvents BY <1>2, <1>14 DEF CommitReset
<1>17. r \in Jobs BY Kinds
<1>18. \A w \in Workers : job'[w] = job[w]
    BY <1>11, <1>17, DoJob, Kinds DEF BoardInv, JobsShape
<1>19. AttemptsCounted'
    BY <1>13, <1>14, <1>15, <1>16, <1>18, EventsAdded DEF BoardInv
<1>20. QED BY <1>6, <1>7, <1>10, <1>11, <1>19

\* The points of the running week go into the archive, once, and out of the counters.
LEMMA CommitBooks ==
    ASSUME BoardInv, NEW r \in Resets, CommitReset(r), Books,
           NEW x \in ArchivedJob, x = job[r], NEW L \in Weeks, L = x.label
    PROVE  \A u \in Users :
              /\ stats'[u].weekly = 0 /\ stats'[u].total = stats[u].total /\ weeklySp'[u] = 0
              /\ \A w \in 0..MaxWeek : archive'[u][w] = archive[u][w] + (IF w = L THEN stats[u].weekly ELSE 0)
<1>1. PICK zeroed : zeroed = [k \in DOMAIN x.todo |-> [x.todo[k] EXCEPT !.weekly = 0]] OBVIOUS
<1>2. zeroed = <<>> <=> x.todo = <<>> BY <1>1, CommitMoves
<1>3. Knows(x) /\ Copied(x) BY DEF Books, ArchivedJob
<1>4. \A u \in Users : stats[u].weekly \in Nat /\ stats[u] \in [weekly: Nat, total: Nat]
    BY DEF BoardInv, StoreShape, PointsTrue
<1>5. ASSUME NEW u \in Users
      PROVE  stats'[u].weekly = 0 /\ stats'[u].total = stats[u].total
    <2>1. CASE zeroed = <<>>
        <3>1. stats' = stats BY <1>1, <2>1 DEF CommitReset
        <3>2. ~(stats[u].weekly > 0) BY <1>2, <1>3, <2>1 DEF Knows
        <3>3. QED BY <1>4, <3>1, <3>2
    <2>2. CASE zeroed # <<>>
        <3>1. stats' = [v \in Users |-> [stats[v] EXCEPT !.weekly = 0]] BY <1>1, <2>2 DEF CommitReset
        <3>2. QED BY <1>4, <3>1
    <2>3. QED BY <2>1, <2>2
<1>6. ASSUME NEW u \in Users PROVE weeklySp'[u] = 0
    <2>1. weeklySp'[u] = IF u \in x.users THEN 0 ELSE weeklySp[u] BY DEF CommitReset, UsersAfterReset
    <2>2. weeklySp[u] = stats[u].weekly BY DEF Books, Booked
    <2>3. u \notin x.users => ~(stats[u].weekly > 0) BY <1>3 DEF Knows
    <2>4. QED BY <1>4, <2>1, <2>2, <2>3
<1>7. ASSUME NEW u \in Users, NEW w \in 0..MaxWeek
      PROVE  archive'[u][w] = archive[u][w] + (IF w = L THEN stats[u].weekly ELSE 0)
    <2>1. archive[u] \in [0..MaxWeek -> Nat] /\ archive[u][w] \in Nat /\ x.points[u] \in Nat
        BY DEF BoardInv, StoreShape, ArchivedJob
    <2>2. archive'[u] = IF x.points[u] > 0 THEN [archive[u] EXCEPT ![L] = x.points[u]] ELSE archive[u]
        BY DEF CommitReset
    <2>3. archive'[u][w] = IF x.points[u] > 0 /\ w = L THEN x.points[u] ELSE archive[u][w]
        BY <2>1, <2>2
    <2>4. \/ x.points[u] = stats[u].weekly /\ (stats[u].weekly > 0 => archive[u][L] = 0)
          \/ stats[u].weekly = 0 /\ (x.points[u] > 0 => archive[u][L] = x.points[u])
        BY <1>3 DEF Copied
    <2>5. QED BY <1>4, <2>1, <2>3, <2>4
<1>8. QED BY <1>5, <1>6, <1>7

LEMMA CommitBooked ==
    ASSUME BoardInv, NEW u \in Users, Booked(u), NEW L \in Weeks,
           stats'[u].weekly = 0, stats'[u].total = stats[u].total, weeklySp'[u] = 0,
           \A w \in 0..MaxWeek : archive'[u][w] = archive[u][w] + (IF w = L THEN stats[u].weekly ELSE 0)
    PROVE  Booked(u)'
<1>1. PICK sum \in RunningTotals(u) :
          /\ sum[MaxWeek] + stats[u].weekly = stats[u].total
          /\ \A w \in 0..MaxWeek : sum[w] + stats[u].weekly <= stats[u].total
    BY DEF Booked
<1>2. /\ sum \in [0..MaxWeek -> 0..MaxPoints] /\ sum[0] = 0
      /\ \A w \in 1..MaxWeek : sum[w] = sum[w - 1] + archive[u][w - 1]
    BY DEF RunningTotals
<1>3. PICK a \in Nat : a = stats[u].weekly BY DEF BoardInv, StoreShape, PointsTrue
<1>4. PICK t \in Nat : t = stats[u].total /\ t <= MaxPoints BY DEF BoardInv, StoreShape, PointsTrue
<1>5. MaxPoints \in Nat /\ MaxWeek \in Nat \ {0} /\ L \in 0..(MaxWeek - 1) BY BoardConstants DEF Weeks
<1>6. \A w \in 0..MaxWeek : sum[w] \in Nat /\ sum[w] + a <= t /\ archive[u][w] \in Nat
    <2> SUFFICES ASSUME NEW w \in 0..MaxWeek
                 PROVE  sum[w] \in Nat /\ sum[w] + a <= t /\ archive[u][w] \in Nat
        OBVIOUS
    <2>1. sum[w] \in 0..MaxPoints BY <1>2
    <2>2. archive[u][w] \in Nat BY DEF BoardInv, StoreShape
    <2>3. sum[w] + a <= t BY <1>1, <1>3, <1>4
    <2>4. QED BY <2>1, <2>2, <2>3
<1>7. PICK new : new = [w \in 0..MaxWeek |-> IF w > L THEN sum[w] + a ELSE sum[w]] OBVIOUS
<1>8. \A w \in 0..MaxWeek : new[w] \in 0..MaxPoints /\ new[w] <= t
    BY <1>4, <1>5, <1>6, <1>7
<1>9. new \in [0..MaxWeek -> 0..MaxPoints] BY <1>7, <1>8
<1>10. new[0] = 0 BY <1>2, <1>5, <1>7
<1>11. ASSUME NEW w \in 1..MaxWeek PROVE new[w] = new[w - 1] + archive'[u][w - 1]
    <2>1. PICK v \in 0..(MaxWeek - 1) : v = w - 1 BY <1>5
    <2>2. v \in 0..MaxWeek /\ w \in 0..MaxWeek /\ w = v + 1 BY <1>5, <2>1
    <2>3. sum[w] = sum[v] + archive[u][v] BY <1>2, <2>1
    <2>4. archive'[u][v] = archive[u][v] + (IF v = L THEN a ELSE 0) BY <1>3, <2>2
    <2>5. new[w] = (IF w > L THEN sum[w] + a ELSE sum[w]) /\ new[v] = (IF v > L THEN sum[v] + a ELSE sum[v])
        BY <1>7, <2>2
    <2>6. sum[v] \in Nat /\ archive[u][v] \in Nat BY <1>6, <2>2
    <2>7. CASE v < L BY <1>5, <2>2, <2>3, <2>4, <2>5, <2>6, <2>7
    <2>8. CASE v = L BY <1>5, <2>2, <2>3, <2>4, <2>5, <2>6, <2>8
    <2>9. CASE v > L BY <1>5, <2>2, <2>3, <2>4, <2>5, <2>6, <2>9
    <2>10. v < L \/ v = L \/ v > L BY <1>5
    <2>11. QED BY <2>7, <2>8, <2>9, <2>10
<1>12. new[MaxWeek] = t
    <2>1. MaxWeek \in 0..MaxWeek /\ MaxWeek > L BY <1>5
    <2>2. sum[MaxWeek] \in Nat BY <1>6, <2>1
    <2>3. QED BY <1>1, <1>3, <1>4, <1>7, <2>1, <2>2
<1>13. new \in RunningTotals(u)' BY <1>9, <1>10, <1>11 DEF RunningTotals
<1>14. new[MaxWeek] + stats'[u].weekly = stats'[u].total BY <1>4, <1>12
<1>15. \A w \in 0..MaxWeek : new[w] + stats'[u].weekly <= stats'[u].total BY <1>4, <1>8
<1>16. weeklySp'[u] = stats'[u].weekly OBVIOUS
<1>17. QED BY <1>13, <1>14, <1>15, <1>16 DEF Booked

LEMMA CommitKeeps ==
    ASSUME BoardInv, NEW r \in Resets, CommitReset(r) PROVE BoardInv'
<1>1. PICK x \in ResetJob : x = job[r] BY DEF BoardInv, JobsShape
<1>2. x \in ArchivedJob BY <1>1, ResetKinds DEF CommitReset
<1>3. PICK L \in Weeks : L = x.label /\ L = week - 1
    BY <1>1, <1>2 DEF ArchivedJob, BoardInv, SameWeek
<1>4. PICK zeroed : zeroed = [k \in DOMAIN x.todo |-> [x.todo[k] EXCEPT !.weekly = 0]] OBVIOUS
<1>5. AttemptsCounted' /\ \E s \in ApplyJob : Do(r, s) BY <1>1, <1>2, <1>4, CommitMoves
<1>6. PICK s \in ApplyJob : Do(r, s) BY <1>5
<1>7. s \in ResetJob /\ s.pc = "apply" BY DEF ApplyJob, ResetJob
<1>8. UNCHANGED <<week, redis, payload, resetLock, faults, overlapped>> BY DEF CommitReset
<1>9. StoreShape'
    <2>1. StoreShape BY DEF BoardInv
    <2>2. stats' = stats \/ stats' = [u \in Users |-> [stats[u] EXCEPT !.weekly = 0]]
        BY <1>1, <1>4 DEF CommitReset
    <2>3. \A u \in Users : stats[u] \in [weekly: Nat, total: Nat] BY <2>1 DEF StoreShape, PointsTrue
    <2>4. /\ stats' \in [Users -> [weekly: Nat, total: Nat]]
          /\ \A u \in Users : /\ stats'[u].weekly <= stats'[u].total
                              /\ stats'[u].total = stats[u].total
        <3>1. CASE stats' = stats BY <2>1, <3>1 DEF StoreShape, PointsTrue
        <3>2. CASE stats' = [u \in Users |-> [stats[u] EXCEPT !.weekly = 0]] BY <2>3, <3>2
        <3>3. QED BY <2>2, <3>1, <3>2
    <2>5. weeklySp' \in [Users -> Nat] /\ \A u \in Users : weeklySp'[u] = 0 \/ weeklySp'[u] = weeklySp[u]
        <3>1. weeklySp' = [u \in Users |-> IF u \in x.users THEN 0 ELSE weeklySp[u]]
            BY <1>1 DEF CommitReset, UsersAfterReset
        <3>2. weeklySp \in [Users -> Nat] BY <2>1 DEF StoreShape
        <3>3. QED BY <3>1, <3>2
    <2>6. archive' \in [Users -> [0..MaxWeek -> Nat]]
        <3>1. archive \in [Users -> [0..MaxWeek -> Nat]] /\ x.points \in [Users -> Nat]
            BY <1>2, <2>1 DEF StoreShape, ArchivedJob
        <3>2. archive' = [u \in Users |-> IF x.points[u] > 0
                             THEN [archive[u] EXCEPT ![L] = x.points[u]] ELSE archive[u]]
            BY <1>1, <1>3 DEF CommitReset
        <3>3. QED BY <3>1, <3>2
    <2>7. \A u \in Users : stats[u].total \in Nat /\ stats[u].total <= MaxPoints /\ weeklySp[u] <= stats[u].total
        BY <2>1, <2>3 DEF StoreShape
    <2>8. PointsTrue' BY <2>4 DEF PointsTrue
    <2>9. \A u \in Users : stats'[u].total <= MaxPoints /\ weeklySp'[u] <= stats'[u].total
        BY <2>4, <2>5, <2>7
    <2>10. QED BY <1>8, <2>1, <2>5, <2>6, <2>8, <2>9 DEF StoreShape
<1>10. r \in Jobs BY Kinds
<1>11. job'[r] = s /\ \A y \in Jobs : y # r => job'[y] = job[y]
    BY <1>6, <1>10, DoJob DEF BoardInv, JobsShape
<1>12. ASSUME ~overlapped' PROVE Books'
    <2>1. Books BY <1>8, <1>12 DEF BoardInv
    <2>2. \A u \in Users :
              /\ stats'[u].weekly = 0 /\ stats'[u].total = stats[u].total /\ weeklySp'[u] = 0
              /\ \A w \in 0..MaxWeek : archive'[u][w] = archive[u][w] + (IF w = L THEN stats[u].weekly ELSE 0)
        BY <1>1, <1>2, <1>3, <2>1, CommitBooks
    <2>3. \A u \in Users : Booked(u)' BY <2>1, <2>2, CommitBooked DEF Books
    <2>4. ASSUME NEW y \in Resets
          PROVE  /\ job'[y].pc \in {"listed", "archived"} => Knows(job[y])'
                 /\ job'[y].pc = "archived" => Copied(job[y])'
        <3>1. CASE y = r BY <1>7, <1>11, <3>1
        <3>2. CASE y # r
            <4>1. PICK z \in ResetJob : z = job[y] /\ z = job'[y]
                BY <1>11, <3>2, Kinds DEF BoardInv, JobsShape
            <4>2. Knows(job[y])' BY <2>2, <4>1 DEF Knows
            <4>3. ASSUME z.pc = "archived" PROVE Copied(job[y])'
                <5>1. z.label = L BY <1>3, <4>1, <4>3 DEF BoardInv, SameWeek
                <5>2. Copied(z) BY <2>1, <4>1, <4>3 DEF Books
                <5>3. L \in 0..MaxWeek BY BoardConstants DEF Weeks
                <5>4. \A u \in Users : archive[u][L] \in Nat /\ stats[u].weekly \in Nat
                    BY <5>3 DEF BoardInv, StoreShape, PointsTrue
                <5>5. \A u \in Users : z.points[u] > 0 => archive'[u][L] = z.points[u]
                    <6> SUFFICES ASSUME NEW u \in Users, z.points[u] > 0
                                 PROVE  archive'[u][L] = z.points[u]
                        OBVIOUS
                    <6>1. archive'[u][L] = archive[u][L] + stats[u].weekly BY <2>2, <5>3
                    <6>2. \/ z.points[u] = stats[u].weekly /\ (stats[u].weekly > 0 => archive[u][L] = 0)
                          \/ stats[u].weekly = 0 /\ archive[u][L] = z.points[u]
                        BY <5>1, <5>2 DEF Copied
                    <6>3. QED BY <5>4, <6>1, <6>2
                <5>6. QED BY <2>2, <4>1, <5>1, <5>5 DEF Copied
            <4>4. QED BY <4>1, <4>2, <4>3
        <3>3. QED BY <3>1, <3>2
    <2>5. QED BY <2>3, <2>4 DEF Books
<1>13. week' = week /\ (s.pc \in {"listing", "listed", "archived"} => s.label = week - 1) BY <1>7, <1>8
<1>14. QED BY <1>5, <1>6, <1>7, <1>9, <1>12, <1>13, ResetKeeps

----------------------------------------------------------------------------
(* The theorems. *)

LEMMA BoardBegins == ASSUME BoardInit PROVE BoardInv
<1> USE DEF BoardInit
<1>1. MaxWeek \in Nat \ {0} /\ MaxPoints \in Nat /\ MaxOutages \in Nat /\ MaxEvents \in Nat
    BY BoardConstants
<1>2. stats \in [Users -> [weekly: Nat, total: Nat]] /\ \A u \in Users : stats[u].weekly = 0 /\ stats[u].total = 0
    BY DEF NoSnapshot
<1>3. StoreShape
    <2>1. PointsTrue BY <1>2 DEF PointsTrue
    <2>2. \A u \in Users : stats[u].total <= MaxPoints /\ weeklySp[u] <= stats[u].total
        BY <1>1, <1>2
    <2>3. payload \in Seq(Snap) BY EmptySeq
    <2>4. week \in 1..MaxWeek /\ faults \in 0..MaxOutages BY <1>1
    <2>5. weeklySp \in [Users -> Nat] /\ archive \in [Users -> [0..MaxWeek -> Nat]] OBVIOUS
    <2>6. QED BY <2>1, <2>2, <2>3, <2>4, <2>5 DEF StoreShape
<1>4. \A j \in Jobs : job[j] = Resting OBVIOUS
<1>5. JobsShape BY <1>4, RestingJobs, Kinds DEF JobsShape, ResetJob
<1>6. AttemptsCounted
    <2>1. \A w \in Workers : Holds(job[w])
        <3>1. \A w \in Workers : job[w] = Resting BY <1>4, Kinds
        <3>2. DOMAIN Resting.todo = {} BY DEF Resting
        <3>3. QED BY <3>1, <3>2, RestingJobs DEF Holds
    <2>2. events \in Seq(EventRow) /\ Len(events) <= MaxEvents BY <1>1, EmptySeq
    <2>3. DOMAIN events = {} OBVIOUS
    <2>4. QED BY <2>1, <2>2, <2>3 DEF AttemptsCounted
<1>7. \A r \in Resets : job[r].pc = "idle" BY <1>4, RestingJobs, Kinds
<1>8. SameWeek BY <1>7 DEF SameWeek
<1>9. ASSUME NEW u \in Users PROVE Booked(u)
    <2>1. PICK sum : sum = [w \in 0..MaxWeek |-> 0] OBVIOUS
    <2>2. sum \in [0..MaxWeek -> 0..MaxPoints] /\ \A w \in 0..MaxWeek : sum[w] = 0 BY <1>1, <2>1
    <2>3. \A w \in 1..MaxWeek : w \in 0..MaxWeek /\ w - 1 \in 0..MaxWeek BY <1>1
    <2>4. \A w \in 0..MaxWeek : archive[u][w] = 0 OBVIOUS
    <2>5. 0 \in 0..MaxWeek /\ MaxWeek \in 0..MaxWeek BY <1>1
    <2>6. \A w \in 1..MaxWeek : sum[w] = sum[w - 1] + archive[u][w - 1] BY <2>2, <2>3, <2>4
    <2>7. sum \in RunningTotals(u) BY <2>2, <2>5, <2>6 DEF RunningTotals
    <2>8. sum[MaxWeek] + stats[u].weekly = stats[u].total BY <1>2, <2>2, <2>5
    <2>9. \A w \in 0..MaxWeek : sum[w] + stats[u].weekly <= stats[u].total BY <1>2, <2>2
    <2>10. weeklySp[u] = stats[u].weekly BY <1>2
    <2>11. QED BY <2>7, <2>8, <2>9, <2>10 DEF Booked
<1>10. Books BY <1>7, <1>9 DEF Books
<1>11. QED BY <1>3, <1>5, <1>6, <1>8, <1>10 DEF BoardInv

LEMMA BoardStep == ASSUME BoardInv, [BoardNext]_boardVars PROVE BoardInv'
<1>1. CASE UNCHANGED boardVars
    <2>1. UNCHANGED <<stats, weeklySp, archive, week, events, job, overlapped, payload, resetLock, faults>>
        BY <1>1 DEF boardVars
    <2>2. StoreShape' BY <2>1, StoreKept DEF BoardInv, StoreShape
    <2>3. QED BY <2>1, <2>2, RestKeeps
<1>2. CASE Submissions BY <1>2, EarnKeeps DEF Submissions
<1>3. CASE Reconciliation
    <2>1. Reconciler \in Readers \cup {Reconciler} OBVIOUS
    <2>2. StartReconciliation \/ Apply(Reconciler) \/ FinishJob(Reconciler) BY <1>3 DEF Reconciliation
    <2>3. QED BY <2>1, <2>2, ReconcilerStarts, PlainApplies, PlainFinishes
<1>4. ASSUME NEW w \in Workers, WorkerSteps(w) \/ WorkerDies(w) PROVE BoardInv'
    <2>1. Claim(w) \/ Apply(w) \/ MarkProcessed(w) \/ MarkFailed(w) \/ WorkerDies(w)
        BY <1>4 DEF WorkerSteps
    <2>2. QED BY <2>1, WorkerClaims, WorkerApplies, WorkerMarks, WorkerFails, WorkerDead
<1>5. ASSUME NEW q \in Readers, ReadBoard(q) \/ ReaderSteps(q) PROVE BoardInv'
    <2>1. q \in Readers \cup {Reconciler} OBVIOUS
    <2>2. ReadBoard(q) \/ Apply(q) \/ FinishJob(q) BY <1>5 DEF ReaderSteps
    <2>3. QED BY <2>1, <2>2, ReaderReads, PlainApplies, PlainFinishes
<1>6. ASSUME NEW r \in Resets, TakeLock(r) \/ ResetSteps(r) PROVE BoardInv'
    <2>1. TakeLock(r) \/ ListRows(r) \/ ArchiveWeek(r) \/ CommitReset(r) \/ Apply(r) \/ FinishReset(r)
        BY <1>6, Zenon DEF ResetSteps
    <2>2. QED BY <2>1, ResetBegins, ResetLists, ResetArchives, CommitKeeps, ResetApplies, ResetFinishes
<1>7. CASE ExpirePayload \/ LockExpires \/ Outage \/ Recover BY <1>7, QuietKeeps
<1>8. CASE NextWeek BY <1>8, WeekKeeps
<1>9. QED BY <1>1, <1>2, <1>3, <1>4, <1>5, <1>6, <1>7, <1>8, Zenon DEF BoardNext

\* What keeps them so: the events, the jobs and the store have their shapes, every holder of
\* an event is counted by its attempts, a reset archives the week it read and the books of
\* every person balance (LeaderboardProjectionWorker, runWeeklyReset).
THEOREM BoardHolds == BoardSpec => []BoardInv
<1>1. BoardInit => BoardInv BY BoardBegins
<1>2. BoardInv /\ [BoardNext]_boardVars => BoardInv' BY BoardStep
<1>3. QED BY <1>1, <1>2, PTL DEF BoardSpec

LEMMA BoardInvAccounts == ASSUME BoardInv PROVE PointsAccounted
<1> USE DEF BoardInv
<1>1. BoardTypeOK
    <2>1. \A u \in Users : stats[u].weekly \in 0..stats[u].total /\ stats[u].total \in 0..MaxPoints
        BY BoardConstants DEF StoreShape, PointsTrue
    <2>2. \A u \in Users : weeklySp[u] \in 0..stats[u].total
        BY DEF StoreShape, PointsTrue
    <2>3. \A j \in Jobs : job[j].pc \in {"idle", "apply", "mark", "listing", "listed", "archived"}
        <3> SUFFICES ASSUME NEW j \in Jobs
                     PROVE  job[j].pc \in {"idle", "apply", "mark", "listing", "listed", "archived"}
            OBVIOUS
        <3>1. CASE j \in Workers BY <3>1 DEF JobsShape, WorkerJob
        <3>2. CASE j \in Readers \cup {Reconciler}
            <4>1. job[j] \in PlainJob BY <3>2 DEF JobsShape
            <4>2. QED BY <4>1 DEF PlainJob
        <3>3. CASE j \in Resets
            <4>1. job[j] \in ResetJob BY <3>3 DEF JobsShape
            <4>2. QED BY <4>1, ResetKinds
        <3>4. QED BY <3>1, <3>2, <3>3 DEF Jobs
    <2>4. QED BY <2>1, <2>2, <2>3 DEF BoardTypeOK, StoreShape, AttemptsCounted
<1>2. ASSUME ~overlapped, NEW u \in Users
      PROVE  /\ \E sum \in RunningTotals(u) : sum[MaxWeek] + stats[u].weekly = stats[u].total
             /\ weeklySp[u] = stats[u].weekly
    BY <1>2 DEF Books, Booked
<1>3. ASSUME NEW i \in DOMAIN events
      PROVE  events[i].applied + Cardinality({w \in Workers : \E k \in DOMAIN job[w].todo :
                                                  job[w].todo[k].event = i}) <= MaxAttempts_
    <2>1. PICK n \in Nat : n = Cardinality(Holders(i)) BY HoldersFinite
    <2>2. events[i] \in EventRow BY EventsSeq
    <2>3. events[i].applied \in Nat /\ events[i].attempts \in 0..MaxAttempts_ BY <2>2 DEF EventRow
    <2>4. events[i].applied + n <= events[i].attempts BY <2>1 DEF AttemptsCounted
    <2>5. events[i].applied + n <= MaxAttempts_ BY <2>3, <2>4, BoardConstants
    <2>6. QED BY <2>1, <2>5 DEF Holders, Has
<1>4. QED BY <1>1, <1>2, <1>3 DEF PointsAccounted

\* Every point a submission earned is in the running week or in exactly one archived one,
\* both counters agree, and an event is applied no more often than it has attempts,
\* whatever workers, readers, the reconciliation and resets do (runWeeklyReset,
\* processProjectionBatch); the books aside where a reset overlapped a submission.
THEOREM PointsStayAccounted == BoardSpec => []PointsAccounted
<1>1. BoardInv => PointsAccounted BY BoardInvAccounts
<1>2. QED BY <1>1, BoardHolds, PTL

\* A rank is the place on the board, and a board read from Redis in agreement is the
\* top of the database's, for any number of people and any ties (tryReadFromRedisProjection).
THEOREM ReadsAlwaysAgree == BoardSpec => []ReadsAgree
<1>1. BoardInv => ReadsAgree BY ReadsFollow DEF BoardInv, StoreShape
<1>2. QED BY <1>1, BoardHolds, PTL

----------------------------------------------------------------------------
(* E-mail.  A kind of letter is one the code rations: it counts the rows of *)
(* the log that speak of it, and a run holds or owes a letter of it.        *)

LetterKinds == {<<"welcome", 0>>, <<"nudge", 0>>, <<"expired", 0>>, <<"notice", 0>>}
          \cup ({"daily", "streak", "prompt", "password"} \X Nat)

\* Letters of a kind, and those of them that reached somebody when it matters.
Of(k, l, now) ==
    CASE k[1] = "welcome" -> IsCampaign(l) /\ l.type = "WELCOME"
      [] k[1] = "nudge" -> IsCampaign(l) /\ l.type = "NUDGE"
      [] k[1] = "expired" -> l.type = "EXPIRED"
      [] k[1] = "notice" -> l.from = "script" /\ l.tag = 17
      [] k[1] = "daily" -> IsCampaign(l) /\ now <= k[2]
      [] k[1] = "streak" -> l.type = "STREAK" /\ now <= k[2]
      [] k[1] = "prompt" -> l.from = "job" /\ l.type = "PROMPT" /\ now <= k[2] + PromptCooldown
      [] k[1] = "password" -> l.type = "PASSWORD" /\ l.tag = k[2]
Counted(k, m) ==
    CASE k[1] = "welcome" -> IsCampaign(m.letter) /\ m.letter.type = "WELCOME"
      [] k[1] = "nudge" -> IsCampaign(m.letter) /\ m.letter.type = "NUDGE"
      [] k[1] = "expired" -> m.letter.type = "EXPIRED"
      [] k[1] = "notice" -> m.letter.from = "script" /\ m.letter.tag = 17
      [] k[1] = "daily" -> IsCampaign(m.letter) /\ m.day = k[2]
      [] k[1] = "streak" -> m.letter.type = "STREAK" /\ m.day = k[2]
      [] k[1] = "prompt" -> /\ m.letter.from = "job" /\ m.letter.type = "PROMPT"
                            /\ m.day \in k[2]..(k[2] + PromptCooldown)
      [] k[1] = "password" -> m.letter.type = "PASSWORD" /\ m.letter.tag = k[2]
Arrived(k, p) == {i \in 1..Len(mailbox) : mailbox[i].letter.to = p /\ Counted(k, mailbox[i])}

\* What the code finds on record of a kind: rows of the log, for streaks a day of the user.
Tells(k, i, e, ends, made) ==
    CASE k[1] = "welcome" -> e.type = "WELCOME"
      [] k[1] = "nudge" -> e.type = "NUDGE"
      [] k[1] = "expired" -> e.type = "EXPIRED" /\ e.day >= ends
      [] k[1] = "notice" -> e.type = "NOTICE" /\ e.stored = 17
      [] k[1] = "daily" -> e.type \in Marketing /\ e.day >= k[2]
      [] k[1] = "prompt" -> e.type = "PROMPT" /\ e.day >= k[2]
      [] k[1] = "password" -> e.type = "PASSWORD" /\ i > made[k[2]]
RecordedIn(k, p, rows, reminded, ends, made) ==
    IF k[1] = "streak" THEN {i \in {0} : reminded >= k[2]}
    ELSE {i \in 1..Len(rows) : rows[i].to = p /\ rows[i].status = "sent" /\ Tells(k, i, rows[i], ends, made)}
Recorded(k, p) == RecordedIn(k, p, log, user[p].reminded, user[p].ends, password[p].made)
Limit(k) == IF k[1] = "nudge" THEN MaxNudges ELSE 1

\* Kinds that are not of a day, or of a change of password, still to come.
Live(k, p) ==
    /\ k[1] \in {"daily", "streak", "prompt"} => k[2] <= date
    /\ k[1] = "password" => k[2] \in 1..Newest(p)

\* What a run may still send of a kind: of a day or a change only what it has decided to.
Decided(k) == k[1] \in {"daily", "password"}
Unsent(k, x) ==
    {i \in DOMAIN x.todo : /\ i = 1 => x.at \notin {"log", "mark"}
                           /\ Decided(k) => i = 1 /\ x.at # "next"}
ToSend(k, p, x) == \E i \in Unsent(k, x) : x.todo[i].to = p /\ Of(k, x.todo[i], x.now)
\* What it has sent and not recorded.
ToRecord(k, p, x) == x.at \in {"log", "mark"} /\ x.todo[1].to = p /\ Of(k, x.todo[1], x.now)
Sending(k, p) == {r \in Runs : ToSend(k, p, run[r])}
Recording(k, p) == {r \in Runs : ToRecord(k, p, run[r])}

Fair(n, level, limit, sending, recording, most) ==
    /\ recording + sending <= most
    /\ level < limit => n <= level + recording
    /\ level >= limit => n + sending <= limit - 1 + most
Rationed(k, p) ==
    Fair(Cardinality(Arrived(k, p)), Cardinality(Recorded(k, p)), Limit(k),
         Cardinality(Sending(k, p)), Cardinality(Recording(k, p)), crowd)
AllRationed == \A p \in People \ doubt : \A k \in LetterKinds : Live(k, p) => Rationed(k, p)

\* The shapes of letters, runs and rows.
EmailTypes == {"WELCOME", "NUDGE", "MILESTONE", "WARNING", "EXPIRED", "STREAK", "PROMPT", "PASSWORD", "NOTICE"}
Tags == Nat \cup {Highest(S) : S \in SUBSET Thresholds}
LetterRow == [to : People, type : EmailTypes, tag : Tags, from : {"job", "script"}]
Legs == ({"welcome", "nudge", "milestone", "expired", "reminders", "passwords"} \X {None_})
        \cup ({"warn"} \X Nat) \cup ({"script"} \X Scripts)
RunRow == [at : {"idle", "next", "first", "second", "log", "mark"}, now : Nat, legs : Seq(Legs),
           todo : Seq(LetterRow)]
EntryRow == [to : People, type : EmailTypes, status : {"sent", "failed", "suppressed"}, day : Nat, stored : Tags]
MessageRow == [letter : LetterRow, day : Nat]
UserRow == [able : BOOLEAN, member : BOOLEAN, muted : BOOLEAN, tried : BOOLEAN, done : Nat, born : Nat,
            lastSeen : Nat, reminded : Nat, ends : Nat, fewMarks : BOOLEAN, medic : BOOLEAN]

\* A run goes through its letters, which are all of different types or to different people.
Sound(x) ==
    /\ x.at = "idle" => x.todo = <<>>
    /\ x.at \in {"first", "second", "log", "mark"} => x.todo # <<>>
    /\ x.at = "mark" => x.todo[1].type = "STREAK"
    /\ \A i \in DOMAIN x.todo : x.todo[i].from = "script" /\ x.todo[i].tag = 17 => x.todo[i].type = "NOTICE"
    /\ \A i, j \in DOMAIN x.todo : x.todo[i].to = x.todo[j].to /\ x.todo[i].type = x.todo[j].type => i = j
\* A letter is about something that has happened.
Proper(l) ==
    /\ l.type = "PASSWORD" => l.from = "job" /\ l.tag \in 0..Newest(l.to)
    /\ l.type = "EXPIRED" => user[l.to].ends <= date
Timely(x) == x.now <= date /\ \A i \in DOMAIN x.todo : Proper(x.todo[i])
RunsProper == run \in [Runs -> RunRow] /\ \A r \in Runs : Sound(run[r]) /\ Timely(run[r])
RowsProper ==
    /\ date \in Nat /\ user \in [People -> UserRow] /\ \A p \in People : user[p].reminded <= date
    /\ log \in Seq(EntryRow)
    /\ password \in [People -> [made : Seq(Nat), old : Nat]]
    /\ \A p \in People : \A i, j \in 1..Newest(p) :
          i <= j => password[p].made[i] <= password[p].made[j] /\ password[p].made[j] <= Len(log)
MailProper ==
    /\ mailbox \in Seq(MessageRow)
    /\ \A i \in 1..Len(mailbox) : mailbox[i].day <= date /\ Proper(mailbox[i].letter)
CrowdProper == crowd \in Nat /\ Cardinality(Active) <= crowd
MailInv == RowsProper /\ RunsProper /\ MailProper /\ CrowdProper /\ AllRationed

LEMMA MailConstants ==
    /\ People \subseteq Nat /\ IsFiniteSet(People) /\ IsFiniteSet(Runs)
    /\ MaxNudges \in Nat \ {0} /\ PromptCooldown \in Nat /\ WarningDays \in Seq(Nat)
    /\ MaxDate \in Nat /\ MaxMishaps \in Nat /\ MaxChanges \in Nat
BY MailAssumption

LEMMA LimitType == ASSUME NEW k \in LetterKinds PROVE Limit(k) \in Nat \ {0}
BY MailConstants DEF Limit

\* A step that records what it stops counting as owed keeps a kind rationed.
LEMMA FairMoves ==
    ASSUME NEW n \in Nat, NEW level \in Nat, NEW sending \in Nat, NEW recording \in Nat, NEW most \in Nat,
           NEW level2 \in Nat, NEW sending2 \in Nat, NEW recording2 \in Nat, NEW most2 \in Nat,
           NEW limit \in Nat \ {0}, Fair(n, level, limit, sending, recording, most),
           most <= most2, recording2 + sending2 <= most2, level <= level2,
           level2 < limit => level + recording <= level2 + recording2, level2 >= limit => sending2 <= sending
    PROVE  Fair(n, level2, limit, sending2, recording2, most2)
BY DEF Fair

\* So does a letter, which its run held and then owes the record of.
LEMMA FairSends ==
    ASSUME NEW n \in Nat, NEW level \in Nat, NEW sending \in Nat, NEW recording \in Nat, NEW most \in Nat,
           NEW sending2 \in Nat, NEW recording2 \in Nat,
           NEW limit \in Nat \ {0}, Fair(n, level, limit, sending, recording, most),
           recording2 + sending2 <= most, recording + 1 <= recording2, sending2 + 1 <= sending
    PROVE  Fair(n + 1, level, limit, sending2, recording2, most)
BY DEF Fair

\* What a kind allows follows, whatever is under way.
LEMMA FairMeans ==
    ASSUME NEW n \in Nat, NEW level \in Nat, NEW sending \in Nat, NEW recording \in Nat, NEW most \in Nat,
           NEW limit \in Nat \ {0}, Fair(n, level, limit, sending, recording, most)
    PROVE  n <= limit - 1 + most
BY DEF Fair

LEMMA RunsCounted ==
    ASSUME NEW S \in SUBSET Runs
    PROVE  IsFiniteSet(S) /\ Cardinality(S) \in Nat
<1>1. IsFiniteSet(S) BY MailConstants, FS_Subset
<1>2. QED BY <1>1, FS_CardinalityType

\* Letters of a kind that are not of a day or a change are of one type.
Marked(l) == l.from = "script" /\ l.tag = 17 => l.type = "NOTICE"
LEMMA OneType ==
    ASSUME NEW k \in LetterKinds, ~Decided(k), NEW l, NEW m, NEW now, Marked(l), Marked(m),
           Of(k, l, now), Of(k, m, now)
    PROVE  l.type = m.type
<1>1. k[1] \in {"welcome", "nudge", "expired", "notice", "streak", "prompt"} BY DEF LetterKinds, Decided
<1>2. QED BY <1>1 DEF Of, Marked

LEMMA HeadThere ==
    ASSUME NEW x \in RunRow, Sound(x), x.at \in {"first", "second", "log", "mark"}
    PROVE  1 \in DOMAIN x.todo /\ Head(x.todo) = x.todo[1] /\ x.todo[1] \in LetterRow /\ x.todo \in Seq(LetterRow)
<1>1. x.todo \in Seq(LetterRow) BY DEF RunRow
<1>2. x.todo # <<>> BY DEF Sound
<1>3. QED BY <1>1, <1>2, HeadTailProperties

\* What a run has sent and not recorded it does not send again.
LEMMA OneLetter ==
    ASSUME NEW k \in LetterKinds, NEW p, NEW x \in RunRow, Sound(x), ToSend(k, p, x), ToRecord(k, p, x)
    PROVE  FALSE
<1>1. PICK i \in Unsent(k, x) : x.todo[i].to = p /\ Of(k, x.todo[i], x.now) BY DEF ToSend
<1>2. x.at \in {"log", "mark"} /\ x.todo[1].to = p /\ Of(k, x.todo[1], x.now) BY DEF ToRecord
<1>3. i \in DOMAIN x.todo /\ i # 1 /\ ~Decided(k) BY <1>1, <1>2 DEF Unsent
<1>4. 1 \in DOMAIN x.todo BY <1>2, HeadThere
<1>5. Marked(x.todo[1]) /\ Marked(x.todo[i]) BY <1>3, <1>4 DEF Sound, Marked
<1>6. x.todo[i].type = x.todo[1].type BY <1>1, <1>2, <1>3, <1>5, OneType
<1>7. QED BY <1>1, <1>2, <1>3, <1>4, <1>6 DEF Sound

\* A run holds a letter or owes a record of it only while it is under way, and not both.
AllSound(f) == f \in [Runs -> RunRow] /\ \A r \in Runs : Sound(f[r])
LEMMA UnderWay ==
    ASSUME NEW f, AllSound(f), NEW most \in Nat, Cardinality({r \in Runs : f[r].at # "idle"}) <= most,
           NEW k \in LetterKinds, NEW p
    PROVE  /\ Cardinality({r \in Runs : ToSend(k, p, f[r])}) \in Nat
           /\ Cardinality({r \in Runs : ToRecord(k, p, f[r])}) \in Nat
           /\ Cardinality({r \in Runs : ToRecord(k, p, f[r])}) + Cardinality({r \in Runs : ToSend(k, p, f[r])}) <= most
<1> DEFINE A == {r \in Runs : f[r].at # "idle"}
           S == {r \in Runs : ToSend(k, p, f[r])}
           R == {r \in Runs : ToRecord(k, p, f[r])}
<1>1. S \subseteq A
    <2> SUFFICES ASSUME NEW r \in Runs, ToSend(k, p, f[r]), f[r].at = "idle" PROVE FALSE OBVIOUS
    <2>1. f[r].todo = <<>> BY DEF AllSound, Sound
    <2>2. QED BY <2>1 DEF ToSend, Unsent
<1>2. R \subseteq A BY DEF ToRecord
<1>3. S \cap R = {}
    <2> SUFFICES ASSUME NEW r \in Runs, ToSend(k, p, f[r]), ToRecord(k, p, f[r]) PROVE FALSE OBVIOUS
    <2>1. f[r] \in RunRow /\ Sound(f[r]) BY DEF AllSound
    <2>2. QED BY <2>1, OneLetter
<1>4. A \subseteq Runs /\ Cardinality(A) <= most OBVIOUS
<1> HIDE DEF S, R, A
<1>5. /\ IsFiniteSet(S) /\ IsFiniteSet(R) /\ IsFiniteSet(A) /\ Cardinality(A) \in Nat
      /\ Cardinality(S) \in Nat /\ Cardinality(R) \in Nat
    <2>1. S \in SUBSET Runs /\ R \in SUBSET Runs /\ A \in SUBSET Runs BY <1>1, <1>2, <1>4
    <2>2. QED BY <2>1, RunsCounted
<1>6. Cardinality(S \cup R) = Cardinality(S) + Cardinality(R)
    <2>1. Cardinality(S \cup R) = Cardinality(S) + Cardinality(R) - Cardinality(S \cap R) BY <1>5, FS_Union
    <2>2. Cardinality(S \cap R) = 0 BY <1>3, FS_EmptySet
    <2>3. QED BY <1>5, <2>1, <2>2
<1>7. Cardinality(S \cup R) <= Cardinality(A)
    <2>1. S \cup R \subseteq A BY <1>1, <1>2
    <2>2. QED BY <2>1, <1>5, FS_Subset
<1>8. Cardinality(R) + Cardinality(S) <= most BY <1>4, <1>5, <1>6, <1>7
<1>9. QED BY <1>5, <1>8 DEF S, R

\* A row at the end of a sequence.
LEMMA AppendLen ==
    ASSUME NEW S, NEW s \in Seq(S), NEW e
    PROVE  Len(Append(s, e)) = Len(s) + 1 /\ Len(s) \in Nat
OBVIOUS
LEMMA AppendRows ==
    ASSUME NEW S, NEW s \in Seq(S), NEW e
    PROVE  Append(s, e)[Len(s) + 1] = e /\ \A i \in 1..Len(s) : Append(s, e)[i] = s[i]
OBVIOUS

\* The runs with a property, when one of them moves.
LEMMA OneRunChanges ==
    ASSUME NEW S \in SUBSET Runs, NEW T \in SUBSET Runs, NEW r \in Runs, S \ {r} = T \ {r}
    PROVE  /\ (r \in T => r \in S) => Cardinality(T) <= Cardinality(S)
           /\ (r \in S => r \in T) => Cardinality(S) <= Cardinality(T)
           /\ Cardinality(S) <= Cardinality(T) + 1
           /\ r \in T /\ r \notin S => Cardinality(S) + 1 <= Cardinality(T)
           /\ r \in S /\ r \notin T => Cardinality(T) + 1 <= Cardinality(S)
<1>1. /\ IsFiniteSet(S) /\ IsFiniteSet(T) /\ IsFiniteSet(S \ {r})
      /\ Cardinality(S) \in Nat /\ Cardinality(T) \in Nat /\ Cardinality(S \ {r}) \in Nat
    <2>1. S \ {r} \in SUBSET Runs OBVIOUS
    <2>2. QED BY <2>1, RunsCounted
<1>2. Cardinality(S \ {r}) = IF r \in S THEN Cardinality(S) - 1 ELSE Cardinality(S) BY <1>1, FS_RemoveElement
<1>3. Cardinality(T \ {r}) = IF r \in T THEN Cardinality(T) - 1 ELSE Cardinality(T) BY <1>1, FS_RemoveElement
<1>4. QED BY <1>1, <1>2, <1>3

LEMMA MoreRecorded ==
    ASSUME NEW S, NEW T, IsFiniteSet(T), S \subseteq T
    PROVE  /\ IsFiniteSet(S) /\ Cardinality(S) \in Nat /\ Cardinality(T) \in Nat
           /\ Cardinality(S) <= Cardinality(T) /\ (S # T => Cardinality(S) + 1 <= Cardinality(T))
<1>1. IsFiniteSet(S) /\ Cardinality(S) <= Cardinality(T) /\ (Cardinality(S) = Cardinality(T) => S = T)
    BY FS_Subset
<1>2. Cardinality(S) \in Nat /\ Cardinality(T) \in Nat BY <1>1, FS_CardinalityType
<1>3. QED BY <1>1, <1>2

LEMMA ArrivedCounted ==
    ASSUME NEW m, Len(m) \in Nat, NEW k, NEW p
    PROVE  LET A == {i \in 1..Len(m) : m[i].letter.to = p /\ Counted(k, m[i])}
           IN  IsFiniteSet(A) /\ Cardinality(A) \in Nat
<1> DEFINE A == {i \in 1..Len(m) : m[i].letter.to = p /\ Counted(k, m[i])}
<1>1. A \subseteq 1..Len(m) OBVIOUS
<1>2. IsFiniteSet(1..Len(m)) BY FS_Interval
<1>3. IsFiniteSet(A) BY <1>1, <1>2, FS_Subset
<1>4. QED BY <1>3, FS_CardinalityType

\* One run moves: it takes on no letter of a kind that is used up, and forgets none it has
\* sent without a record.
Takes(k, p, x, y, level) == ToSend(k, p, y) => ToSend(k, p, x) \/ level < Limit(k)
Records(k, p, x, y, before, after) ==
    /\ before \subseteq after /\ IsFiniteSet(after)
    /\ ToRecord(k, p, x) => ToRecord(k, p, y) \/ before # after \/ Cardinality(after) >= Limit(k)

LEMMA RunMoves ==
    ASSUME AllSound(run), AllSound(run)', CrowdProper, CrowdProper', MailProper, crowd <= crowd', mailbox' = mailbox,
           NEW r \in Runs, NEW x, run' = [run EXCEPT ![r] = x],
           NEW p, NEW k \in LetterKinds, Rationed(k, p),
           Takes(k, p, run[r], x, Cardinality(Recorded(k, p)')),
           Records(k, p, run[r], x, Recorded(k, p), Recorded(k, p)')
    PROVE  Rationed(k, p)'
<1> DEFINE S == {s \in Runs : ToSend(k, p, run[s])}
           R == {s \in Runs : ToRecord(k, p, run[s])}
           S2 == {s \in Runs : ToSend(k, p, run'[s])}
           R2 == {s \in Runs : ToRecord(k, p, run'[s])}
<1>1. /\ run'[r] = x /\ \A s \in Runs \ {r} : run'[s] = run[s]
    BY DEF AllSound
<1>2. S \ {r} = S2 \ {r} /\ R \ {r} = R2 \ {r} /\ (r \in S2 <=> ToSend(k, p, x)) /\ (r \in R2 <=> ToRecord(k, p, x))
    BY <1>1
<1>3. S \in SUBSET Runs /\ R \in SUBSET Runs /\ S2 \in SUBSET Runs /\ R2 \in SUBSET Runs OBVIOUS
<1>4. (r \in S <=> ToSend(k, p, run[r])) /\ (r \in R <=> ToRecord(k, p, run[r])) OBVIOUS
<1>5. S = Sending(k, p) /\ R = Recording(k, p) /\ S2 = Sending(k, p)' /\ R2 = Recording(k, p)'
    BY DEF Sending, Recording
<1>6. /\ Cardinality(S) \in Nat /\ Cardinality(R) \in Nat /\ Cardinality(S2) \in Nat /\ Cardinality(R2) \in Nat
      /\ Cardinality(R2) + Cardinality(S2) <= crowd' /\ crowd \in Nat /\ crowd' \in Nat
    <2>1. crowd \in Nat /\ crowd' \in Nat BY DEF CrowdProper
    <2>2. Cardinality({s \in Runs : run[s].at # "idle"}) <= crowd BY DEF CrowdProper, Active
    <2>3. Cardinality({s \in Runs : run'[s].at # "idle"}) <= crowd' BY DEF CrowdProper, Active
    <2>4. Cardinality(S) \in Nat /\ Cardinality(R) \in Nat BY <2>1, <2>2, UnderWay
    <2>5. /\ Cardinality(S2) \in Nat /\ Cardinality(R2) \in Nat /\ Cardinality(R2) + Cardinality(S2) <= crowd'
        <3>1. AllSound(run') BY DEF AllSound
        <3>2. QED BY <2>1, <2>3, <3>1, UnderWay
    <2>6. QED BY <2>1, <2>4, <2>5
<1>7. PICK n \in Nat : n = Cardinality(Arrived(k, p)) /\ n = Cardinality(Arrived(k, p)')
    <2>1. Len(mailbox) \in Nat BY LenProperties DEF MailProper
    <2>2. Cardinality(Arrived(k, p)) \in Nat BY <2>1, ArrivedCounted, Zenon DEF Arrived
    <2>3. Arrived(k, p)' = Arrived(k, p) BY DEF Arrived
    <2>4. QED BY <2>2, <2>3
<1>8. PICK level \in Nat, level2 \in Nat :
          /\ level = Cardinality(Recorded(k, p)) /\ level2 = Cardinality(Recorded(k, p)')
          /\ level <= level2 /\ (Recorded(k, p) # Recorded(k, p)' => level + 1 <= level2)
    <2>1. Recorded(k, p) \subseteq Recorded(k, p)' /\ IsFiniteSet(Recorded(k, p)') BY DEF Records
    <2>2. /\ Cardinality(Recorded(k, p)) \in Nat /\ Cardinality(Recorded(k, p)') \in Nat
          /\ Cardinality(Recorded(k, p)) <= Cardinality(Recorded(k, p)')
          /\ Recorded(k, p) # Recorded(k, p)' => Cardinality(Recorded(k, p)) + 1 <= Cardinality(Recorded(k, p)')
        BY <2>1, MoreRecorded
    <2>3. QED BY <2>2
<1> HIDE DEF S, R, S2, R2
<1>9. level2 >= Limit(k) => Cardinality(S2) <= Cardinality(S)
    <2> SUFFICES ASSUME level2 >= Limit(k) PROVE Cardinality(S2) <= Cardinality(S) OBVIOUS
    <2>1. r \in S2 => r \in S BY <1>2, <1>4, <1>8, LimitType DEF Takes
    <2>2. QED BY <1>2, <1>3, <2>1, OneRunChanges
<1>10. level2 < Limit(k) => level + Cardinality(R) <= level2 + Cardinality(R2)
    <2> SUFFICES ASSUME level2 < Limit(k) PROVE level + Cardinality(R) <= level2 + Cardinality(R2) OBVIOUS
    <2>1. CASE r \in R => r \in R2
        <3>1. Cardinality(R) <= Cardinality(R2) BY <1>2, <1>3, <2>1, OneRunChanges
        <3>2. QED BY <1>6, <1>8, <3>1
    <2>2. CASE ~(r \in R => r \in R2)
        <3>1. level + 1 <= level2 BY <1>2, <1>4, <1>8, <2>2, LimitType DEF Records
        <3>2. Cardinality(R) <= Cardinality(R2) + 1 BY <1>2, <1>3, OneRunChanges
        <3>3. QED BY <1>6, <1>8, <3>1, <3>2
    <2>3. QED BY <2>1, <2>2
<1>11. Fair(n, level, Limit(k), Cardinality(S), Cardinality(R), crowd) BY <1>5, <1>7, <1>8 DEF Rationed
<1>12. Fair(n, level2, Limit(k), Cardinality(S2), Cardinality(R2), crowd')
    BY <1>6, <1>8, <1>9, <1>10, <1>11, LimitType, FairMoves
<1>13. Limit(k)' = Limit(k) BY DEF Limit
<1>14. QED BY <1>5, <1>7, <1>8, <1>12, <1>13 DEF Rationed

\* A letter reaches somebody: the run that held it owes its record.
LEMMA LetterArrives ==
    ASSUME AllSound(run), AllSound(run)', CrowdProper, CrowdProper', MailProper, crowd' = crowd,
           NEW r \in Runs, NEW x, run' = [run EXCEPT ![r] = x],
           NEW m, mailbox' = Append(mailbox, m),
           NEW p, NEW k \in LetterKinds, Rationed(k, p),
           Recorded(k, p)' = Recorded(k, p), IsFiniteSet(Recorded(k, p)),
           ToSend(k, p, x) => ToSend(k, p, run[r]),
           ~ToRecord(k, p, run[r]),
           m.letter.to = p /\ Counted(k, m) => ToSend(k, p, run[r]) /\ ~ToSend(k, p, x) /\ ToRecord(k, p, x)
    PROVE  Rationed(k, p)'
<1> DEFINE S == {s \in Runs : ToSend(k, p, run[s])}
           R == {s \in Runs : ToRecord(k, p, run[s])}
           S2 == {s \in Runs : ToSend(k, p, run'[s])}
           R2 == {s \in Runs : ToRecord(k, p, run'[s])}
<1>1. /\ run'[r] = x /\ \A s \in Runs \ {r} : run'[s] = run[s]
    BY DEF AllSound
<1>2. S \ {r} = S2 \ {r} /\ R \ {r} = R2 \ {r} /\ (r \in S2 <=> ToSend(k, p, x)) /\ (r \in R2 <=> ToRecord(k, p, x))
    BY <1>1
<1>3. S \in SUBSET Runs /\ R \in SUBSET Runs /\ S2 \in SUBSET Runs /\ R2 \in SUBSET Runs OBVIOUS
<1>4. (r \in S <=> ToSend(k, p, run[r])) /\ (r \in R <=> ToRecord(k, p, run[r])) OBVIOUS
<1>5. S = Sending(k, p) /\ R = Recording(k, p) /\ S2 = Sending(k, p)' /\ R2 = Recording(k, p)'
    BY DEF Sending, Recording
<1>6. /\ Cardinality(S) \in Nat /\ Cardinality(R) \in Nat /\ Cardinality(S2) \in Nat /\ Cardinality(R2) \in Nat
      /\ Cardinality(R2) + Cardinality(S2) <= crowd /\ crowd \in Nat
    <2>1. crowd \in Nat /\ crowd' \in Nat BY DEF CrowdProper
    <2>2. Cardinality({s \in Runs : run[s].at # "idle"}) <= crowd BY DEF CrowdProper, Active
    <2>3. Cardinality({s \in Runs : run'[s].at # "idle"}) <= crowd BY DEF CrowdProper, Active
    <2>4. Cardinality(S) \in Nat /\ Cardinality(R) \in Nat BY <2>1, <2>2, UnderWay
    <2>5. /\ Cardinality(S2) \in Nat /\ Cardinality(R2) \in Nat /\ Cardinality(R2) + Cardinality(S2) <= crowd
        <3>1. AllSound(run') BY DEF AllSound
        <3>2. QED BY <2>1, <2>3, <3>1, UnderWay
    <2>6. QED BY <2>1, <2>4, <2>5
<1>7. PICK n \in Nat : n = Cardinality(Arrived(k, p))
    <2>1. Len(mailbox) \in Nat BY LenProperties DEF MailProper
    <2>2. Cardinality(Arrived(k, p)) \in Nat BY <2>1, ArrivedCounted, Zenon DEF Arrived
    <2>3. QED BY <2>2
<1>8. PICK level \in Nat : level = Cardinality(Recorded(k, p)) BY FS_CardinalityType
<1>9. Arrived(k, p)' = IF m.letter.to = p /\ Counted(k, m) THEN Arrived(k, p) \cup {Len(mailbox) + 1} ELSE Arrived(k, p)
    <2>1. mailbox \in Seq(MessageRow) BY DEF MailProper
    <2>2. Len(mailbox') = Len(mailbox) + 1 /\ Len(mailbox) \in Nat
        BY <2>1, AppendLen
    <2>3. mailbox'[Len(mailbox) + 1] = m /\ \A i \in 1..Len(mailbox) : mailbox'[i] = mailbox[i]
        BY <2>1, AppendRows
    <2>4. 1..(Len(mailbox) + 1) = 1..Len(mailbox) \cup {Len(mailbox) + 1} BY <2>2
    <2>5. Arrived(k, p)' = {i \in 1..Len(mailbox') : mailbox'[i].letter.to = p /\ Counted(k, mailbox'[i])}
        BY DEF Arrived
    <2>6. QED BY <2>2, <2>3, <2>4, <2>5 DEF Arrived
<1>10. Cardinality(Arrived(k, p)') = IF m.letter.to = p /\ Counted(k, m) THEN n + 1 ELSE n
    <2>1. Len(mailbox) \in Nat BY LenProperties DEF MailProper
    <2>2. IsFiniteSet(Arrived(k, p)) BY <2>1, ArrivedCounted, Zenon DEF Arrived
    <2>3. Len(mailbox) + 1 \notin Arrived(k, p) BY <2>1 DEF Arrived
    <2>4. Cardinality(Arrived(k, p) \cup {Len(mailbox) + 1}) = n + 1 BY <1>7, <2>2, <2>3, FS_AddElement
    <2>5. QED BY <1>7, <1>9, <2>4
<1> HIDE DEF S, R, S2, R2
<1>11. Fair(n, level, Limit(k), Cardinality(S), Cardinality(R), crowd) BY <1>5, <1>7, <1>8 DEF Rationed
<1>12. Cardinality(R) <= Cardinality(R2) /\ Cardinality(S2) <= Cardinality(S)
    BY <1>2, <1>3, <1>4, OneRunChanges
<1>13. CASE m.letter.to = p /\ Counted(k, m)
    <2>1. r \in S /\ r \notin S2 /\ r \notin R /\ r \in R2 BY <1>2, <1>4, <1>13
    <2>2. Cardinality(R) + 1 <= Cardinality(R2) /\ Cardinality(S2) + 1 <= Cardinality(S)
        BY <1>2, <1>3, <2>1, OneRunChanges
    <2>3. Fair(n + 1, level, Limit(k), Cardinality(S2), Cardinality(R2), crowd)
        BY <1>6, <1>11, <2>2, LimitType, FairSends
    <2>4. Limit(k)' = Limit(k) BY DEF Limit
    <2>5. QED BY <1>5, <1>8, <1>10, <1>13, <2>3, <2>4 DEF Rationed
<1>14. CASE ~(m.letter.to = p /\ Counted(k, m))
    <2>1. /\ level < Limit(k) => level + Cardinality(R) <= level + Cardinality(R2)
          /\ level <= level /\ crowd <= crowd
          /\ level >= Limit(k) => Cardinality(S2) <= Cardinality(S)
        BY <1>6, <1>12
    <2>2. Fair(n, level, Limit(k), Cardinality(S2), Cardinality(R2), crowd)
        BY <1>6, <1>11, <2>1, LimitType, FairMoves
    <2>3. Limit(k)' = Limit(k) BY DEF Limit
    <2>4. QED BY <1>5, <1>8, <1>10, <1>14, <2>2, <2>3 DEF Rationed
<1>15. QED BY <1>13, <1>14

----------------------------------------------------------------------------
(* The letters of a leg. *)

LEMMA SoonerOrders ==
    ASSUME NEW S \in SUBSET Nat, NEW key, \A p \in S : key[p] \in Int,
           NEW R, R = {e \in S \X S : Sooner(e[1], e[2], key)}
    PROVE  Orders(R, S) /\ \A p, q \in S : <<p, q>> \in R <=> Sooner(p, q, key)
<1>1. \A p, q \in S : <<p, q>> \in R <=> Sooner(p, q, key) OBVIOUS
<1>2. \A p \in S : ~Sooner(p, p, key) BY DEF Sooner
<1>3. \A p, q, u \in S : Sooner(p, q, key) /\ Sooner(q, u, key) => Sooner(p, u, key)
    <2> SUFFICES ASSUME NEW p \in S, NEW q \in S, NEW u \in S, Sooner(p, q, key), Sooner(q, u, key)
                 PROVE  Sooner(p, u, key)
        OBVIOUS
    <2>1. key[p] \in Int /\ key[q] \in Int /\ key[u] \in Int OBVIOUS
    <2>2. QED BY <2>1 DEF Sooner
<1>4. \A p, q \in S : p # q => Sooner(p, q, key) \/ Sooner(q, p, key)
    <2> SUFFICES ASSUME NEW p \in S, NEW q \in S, p # q PROVE Sooner(p, q, key) \/ Sooner(q, p, key)
        OBVIOUS
    <2>1. key[p] \in Int /\ key[q] \in Int OBVIOUS
    <2>2. QED BY <2>1 DEF Sooner
<1>5. QED BY <1>1, <1>2, <1>3, <1>4 DEF Orders

\* A sequence has one letter to everybody of a set.
Addressed(todo, S, letter) ==
    \E n \in Nat : \E s \in [1..n -> S] :
        (\A i, j \in 1..n : s[i] = s[j] => i = j) /\ todo = [i \in 1..n |-> letter[s[i]]]
InOrder(s, S, key, n) == s \in [1..n -> S] /\ \A i, j \in 1..n : i < j => Sooner(s[i], s[j], key)

LEMMA OrderExists ==
    ASSUME NEW S \in SUBSET People, NEW key, \A p \in S : key[p] \in Int
    PROVE  /\ Cardinality(S) \in Nat /\ \E s : InOrder(s, S, key, Cardinality(S))
           /\ \A s : InOrder(s, S, key, Cardinality(S)) => Once(s, S, Cardinality(S))
<1>1. S \in SUBSET Nat /\ IsFiniteSet(S) BY MailConstants, FS_Subset
<1>2. PICK R : R = {e \in S \X S : Sooner(e[1], e[2], key)} OBVIOUS
<1>3. Orders(R, S) /\ \A p, q \in S : <<p, q>> \in R <=> Sooner(p, q, key) BY <1>1, <1>2, SoonerOrders
<1>4. PICK n \in Nat : n = Cardinality(S) BY <1>1, FS_CardinalityType
<1>5. PICK s : Lists(s, R, S, n) BY <1>1, <1>3, <1>4, ListingExists
<1>6. InOrder(s, S, key, n) BY <1>3, <1>5 DEF Lists, InOrder
<1>7. ASSUME NEW t, InOrder(t, S, key, n) PROVE Once(t, S, n)
    <2>1. Lists(t, R, S, n) BY <1>3, <1>7 DEF Lists, InOrder
    <2>2. QED BY <1>1, <1>3, <1>4, <2>1, ListingPlaces
<1>8. QED BY <1>4, <1>6, <1>7

LEMMA LettersListed ==
    ASSUME NEW S \in SUBSET People, NEW key, \A p \in S : key[p] \in Int, NEW letter
    PROVE  Addressed(LettersTo(S, key, letter), S, letter)
<1>1. PICK n \in Nat : n = Cardinality(S) BY OrderExists
<1>2. \E s : InOrder(s, S, key, n) BY <1>1, OrderExists
<1>3. \E s \in [1..n -> S] : /\ \A i, j \in 1..n : i < j => Sooner(s[i], s[j], key)
                             /\ LettersTo(S, key, letter) = [i \in 1..n |-> letter[s[i]]]
    BY <1>1, <1>2, Zenon DEF LettersTo, Sorted, InOrder
<1>4. PICK s : InOrder(s, S, key, n) /\ LettersTo(S, key, letter) = [i \in 1..n |-> letter[s[i]]]
    BY <1>3, Zenon DEF InOrder
<1>5. Once(s, S, n) BY <1>1, <1>4, OrderExists
<1>6. s \in [1..n -> S] /\ \A i, j \in 1..n : s[i] = s[j] => i = j BY <1>4, <1>5 DEF InOrder, Once
<1>7. QED BY <1>4, <1>6 DEF Addressed

\* What the run has read of a letter's person still allows it.
Allowed(l, now) ==
    /\ Proper(l) /\ Marked(l)
    /\ \A k \in LetterKinds : ~Decided(k) /\ Of(k, l, now) => Cardinality(Recorded(k, l.to)) < Limit(k)
Distinct(todo) ==
    \A i, j \in DOMAIN todo : todo[i].to = todo[j].to /\ todo[i].type = todo[j].type => i = j
Sendable(todo, now) ==
    todo \in Seq(LetterRow) /\ Distinct(todo) /\ \A i \in DOMAIN todo : Allowed(todo[i], now)
Writes(letter, S, type) == \A p \in S : letter[p] \in LetterRow /\ letter[p].to = p /\ letter[p].type = type

LEMMA AddressedSendable ==
    ASSUME NEW S, NEW letter, NEW type, Writes(letter, S, type), NEW todo, Addressed(todo, S, letter),
           NEW now, \A p \in S : Allowed(letter[p], now)
    PROVE  Sendable(todo, now) /\ \A i \in DOMAIN todo : todo[i].type = type
<1>0. PICK n \in Nat : \E s \in [1..n -> S] :
          (\A i, j \in 1..n : s[i] = s[j] => i = j) /\ todo = [i \in 1..n |-> letter[s[i]]]
    BY DEF Addressed
<1>1. PICK s \in [1..n -> S] :
          (\A i, j \in 1..n : s[i] = s[j] => i = j) /\ todo = [i \in 1..n |-> letter[s[i]]]
    BY <1>0
<1>2. \A i \in 1..n : s[i] \in S OBVIOUS
<1>3. \A i \in 1..n : todo[i] = letter[s[i]] /\ todo[i] \in LetterRow /\ todo[i].to = s[i] /\ todo[i].type = type
    BY <1>1, <1>2 DEF Writes
<1>4. DOMAIN todo = 1..n BY <1>1
<1>5. todo \in [1..n -> LetterRow] BY <1>1, <1>2 DEF Writes
<1>6. todo \in Seq(LetterRow) BY <1>5, ListIsSeq
<1>7. Distinct(todo) BY <1>1, <1>3, <1>4 DEF Distinct
<1>8. \A i \in 1..n : Allowed(todo[i], now) BY <1>2, <1>3
<1>9. QED BY <1>3, <1>4, <1>6, <1>7, <1>8 DEF Sendable

LEMMA KeysAreNumbers ==
    ASSUME RowsProper, NEW p \in People
    PROVE  ById[p] \in Int /\ ByBirth[p] \in Int /\ ByExams[p] \in Int
<1>1. p \in Nat BY MailConstants
<1>2. user[p].born \in Nat /\ user[p].done \in Nat
    <2>1. user[p] \in UserRow BY DEF RowsProper
    <2>2. QED BY <2>1 DEF UserRow
<1>3. ById[p] = p /\ ByBirth[p] = user[p].born /\ ByExams[p] = -user[p].done BY DEF ById, ByBirth, ByExams
<1>4. QED BY <1>1, <1>2, <1>3

LEMMA JobLetter ==
    ASSUME NEW p \in People, NEW type \in EmailTypes, NEW tag \in Tags
    PROVE  /\ ToAll(type, tag)[p] \in LetterRow /\ ToAll(type, tag)[p].to = p
           /\ ToAll(type, tag)[p].type = type /\ ToAll(type, tag)[p].tag = tag
           /\ ToAll(type, tag)[p].from = "job"
BY DEF ToAll, Letter, LetterRow

\* What a letter of a job is of, of the kinds that are not of a day or a change.
LEMMA JobKinds ==
    ASSUME NEW k \in LetterKinds, ~Decided(k), NEW l, l.from = "job", NEW now, Of(k, l, now)
    PROVE  \/ k[1] = "welcome" /\ l.type = "WELCOME"
           \/ k[1] = "nudge" /\ l.type = "NUDGE"
           \/ k[1] = "expired" /\ l.type = "EXPIRED"
           \/ k[1] = "streak" /\ l.type = "STREAK" /\ now <= k[2] /\ k[2] \in Nat
           \/ k[1] = "prompt" /\ l.type = "PROMPT" /\ now <= k[2] + PromptCooldown /\ k[2] \in Nat
<1>1. \/ k[1] \in {"welcome", "nudge", "expired", "notice"}
      \/ k[1] \in {"streak", "prompt"} /\ k[2] \in Nat
    BY DEF LetterKinds, Decided
<1>2. QED BY <1>1 DEF Of

LEMMA NothingRecorded ==
    ASSUME NEW k \in LetterKinds, NEW p, Recorded(k, p) = {}
    PROVE  Cardinality(Recorded(k, p)) < Limit(k)
<1>1. Cardinality(Recorded(k, p)) = 0 BY FS_EmptySet
<1>2. QED BY <1>1, LimitType

\* Letters of a job to everybody chosen.
LEMMA JobLetters ==
    ASSUME RowsProper, NEW S \in SUBSET People, NEW key, \A p \in S : key[p] \in Int,
           NEW type \in EmailTypes, NEW tag \in Tags, NEW now,
           \A p \in S : Allowed(ToAll(type, tag)[p], now)
    PROVE  /\ Sendable(LettersTo(S, key, ToAll(type, tag)), now)
           /\ \A i \in DOMAIN LettersTo(S, key, ToAll(type, tag)) : LettersTo(S, key, ToAll(type, tag))[i].type = type
<1>2. Addressed(LettersTo(S, key, ToAll(type, tag)), S, ToAll(type, tag)) BY LettersListed
<1>3. Writes(ToAll(type, tag), S, type) BY JobLetter DEF Writes
<1>4. QED BY <1>2, <1>3, AddressedSendable

LEMMA LegTags == None_ \in Tags /\ \A d \in Nat : d \in Tags BY DEF Tags, None_

LEMMA WelcomeSendable ==
    ASSUME RowsProper, NEW now PROVE Sendable(WelcomeLetters(now), now)
<1> DEFINE found == Batched({p \in People : user[p].able /\ ~user[p].member /\ user[p].born >= now - 1}, ByBirth)
           S == {p \in found : Logged(p, {"WELCOME"}) = {} /\ ~user[p].muted}
<1>1. S \in SUBSET People /\ \A p \in S : Logged(p, {"WELCOME"}) = {} BY DEF Batched
<1>2. WelcomeLetters(now) = LettersTo(S, ByBirth, ToAll("WELCOME", None_)) BY DEF WelcomeLetters
<1> HIDE DEF S, found
<1>3. "WELCOME" \in EmailTypes BY DEF EmailTypes
<1>4. ASSUME NEW p \in S PROVE Allowed(ToAll("WELCOME", None_)[p], now)
    <2> DEFINE l == ToAll("WELCOME", None_)[p]
    <2>1. l.to = p /\ l.type = "WELCOME" /\ l.from = "job" BY <1>1, <1>3, LegTags, JobLetter
    <2> HIDE DEF l
    <2>2. Proper(l) /\ Marked(l) BY <2>1 DEF Proper, Marked
    <2>3. ASSUME NEW k \in LetterKinds, ~Decided(k), Of(k, l, now)
          PROVE  Cardinality(Recorded(k, p)) < Limit(k)
        <3>1. k[1] = "welcome" BY <2>1, <2>3, JobKinds
        <3>2. Recorded(k, p) = {} BY <1>1, <3>1 DEF Recorded, RecordedIn, Tells, Logged, LoggedSince, LoggedWith
        <3>3. QED BY <3>2, NothingRecorded
    <2>4. Allowed(l, now) BY <2>1, <2>2, <2>3 DEF Allowed
    <2>5. QED BY <2>4 DEF l
<1>5. \A p \in S : ByBirth[p] \in Int BY <1>1, KeysAreNumbers
<1>6. Sendable(LettersTo(S, ByBirth, ToAll("WELCOME", None_)), now)
    BY <1>1, <1>3, <1>4, <1>5, LegTags, JobLetters
<1>7. QED BY <1>2, <1>6

LEMMA NudgeSendable ==
    ASSUME RowsProper, NEW now PROVE Sendable(NudgeLetters(now), now)
<1> DEFINE found == Batched({p \in People : /\ user[p].able /\ ~user[p].member /\ ~user[p].tried
                                            /\ user[p].born <= now - MinAge}, ByBirth)
           S == {p \in found : /\ Cardinality(Logged(p, {"NUDGE"})) < MaxNudges
                               /\ LoggedSince(p, {"NUDGE"}, now - NudgeCooldown) = {}
                               /\ ~user[p].muted}
<1>1. S \in SUBSET People /\ \A p \in S : Cardinality(Logged(p, {"NUDGE"})) < MaxNudges BY DEF Batched
<1>2. NudgeLetters(now) = LettersTo(S, ByBirth, ToAll("NUDGE", None_)) BY DEF NudgeLetters
<1> HIDE DEF S, found
<1>3. "NUDGE" \in EmailTypes BY DEF EmailTypes
<1>4. ASSUME NEW p \in S PROVE Allowed(ToAll("NUDGE", None_)[p], now)
    <2> DEFINE l == ToAll("NUDGE", None_)[p]
    <2>1. l.to = p /\ l.type = "NUDGE" /\ l.from = "job" BY <1>1, <1>3, LegTags, JobLetter
    <2> HIDE DEF l
    <2>2. Proper(l) /\ Marked(l) BY <2>1 DEF Proper, Marked
    <2>3. ASSUME NEW k \in LetterKinds, ~Decided(k), Of(k, l, now)
          PROVE  Cardinality(Recorded(k, p)) < Limit(k)
        <3>1. k[1] = "nudge" BY <2>1, <2>3, JobKinds
        <3>2. Recorded(k, p) = Logged(p, {"NUDGE"}) /\ Limit(k) = MaxNudges BY <3>1 DEF Recorded, RecordedIn, Tells, Logged, Limit
        <3>3. QED BY <1>1, <3>2
    <2>4. Allowed(l, now) BY <2>1, <2>2, <2>3 DEF Allowed
    <2>5. QED BY <2>4 DEF l
<1>5. \A p \in S : ByBirth[p] \in Int BY <1>1, KeysAreNumbers
<1>6. Sendable(LettersTo(S, ByBirth, ToAll("NUDGE", None_)), now)
    BY <1>1, <1>3, <1>4, <1>5, LegTags, JobLetters
<1>7. QED BY <1>2, <1>6

LEMMA MilestoneSendable ==
    ASSUME RowsProper, NEW now PROVE Sendable(MilestoneLetters, now)
<1> DEFINE found == Batched({p \in People : /\ user[p].able /\ ~user[p].member /\ user[p].tried
                                            /\ \E m \in Thresholds : user[p].done >= m}, ByExams)
           S == {p \in found : Uncelebrated(p) # {} /\ ~user[p].muted}
           letter == [p \in People |-> Letter(p, "MILESTONE", Highest(Uncelebrated(p)), "job")]
<1>1. S \in SUBSET People BY DEF Batched
<1>2. MilestoneLetters = LettersTo(S, ByExams, letter) BY DEF MilestoneLetters
<1>3. \A p \in People : /\ letter[p] \in LetterRow /\ letter[p].to = p /\ letter[p].type = "MILESTONE"
                        /\ letter[p].from = "job"
    <2> SUFFICES ASSUME NEW p \in People
                 PROVE  /\ letter[p] \in LetterRow /\ letter[p].to = p /\ letter[p].type = "MILESTONE"
                        /\ letter[p].from = "job"
        OBVIOUS
    <2>1. Uncelebrated(p) \in SUBSET Thresholds BY DEF Uncelebrated
    <2>2. Highest(Uncelebrated(p)) \in Tags BY <2>1 DEF Tags
    <2>3. QED BY <2>2 DEF Letter, LetterRow, EmailTypes
<1> HIDE DEF S, found, letter
<1>4. ASSUME NEW p \in S PROVE Allowed(letter[p], now)
    <2> DEFINE l == letter[p]
    <2>1. l.to = p /\ l.type = "MILESTONE" /\ l.from = "job" BY <1>1, <1>3
    <2> HIDE DEF l
    <2>2. Proper(l) /\ Marked(l) BY <2>1 DEF Proper, Marked
    <2>3. ASSUME NEW k \in LetterKinds, ~Decided(k), Of(k, l, now) PROVE FALSE
        BY <2>1, <2>3, JobKinds
    <2>4. Allowed(l, now) BY <2>2, <2>3 DEF Allowed
    <2>5. QED BY <2>4 DEF l
<1>5. \A p \in S : ByExams[p] \in Int BY <1>1, KeysAreNumbers
<1>6. Addressed(MilestoneLetters, S, letter) BY <1>1, <1>2, <1>5, LettersListed
<1>7. Writes(letter, S, "MILESTONE") BY <1>1, <1>3 DEF Writes
<1>8. QED BY <1>4, <1>6, <1>7, AddressedSendable

LEMMA WarningSendable ==
    ASSUME RowsProper, NEW now, NEW d \in Nat PROVE Sendable(WarningLetters(d, now), now)
<1> DEFINE found == Batched({p \in People : user[p].member /\ user[p].ends = now + d - 1}, ById)
           S == {p \in found : user[p].able /\ LoggedWith(p, "WARNING", d) = {}}
<1>1. S \in SUBSET People BY DEF Batched
<1>2. WarningLetters(d, now) = LettersTo(S, ById, ToAll("WARNING", d)) BY DEF WarningLetters
<1> HIDE DEF S, found
<1>3. "WARNING" \in EmailTypes BY DEF EmailTypes
<1>4. ASSUME NEW p \in S PROVE Allowed(ToAll("WARNING", d)[p], now)
    <2> DEFINE l == ToAll("WARNING", d)[p]
    <2>1. l.to = p /\ l.type = "WARNING" /\ l.from = "job" BY <1>1, <1>3, LegTags, JobLetter
    <2> HIDE DEF l
    <2>2. Proper(l) /\ Marked(l) BY <2>1 DEF Proper, Marked
    <2>3. ASSUME NEW k \in LetterKinds, ~Decided(k), Of(k, l, now) PROVE FALSE
        BY <2>1, <2>3, JobKinds
    <2>4. Allowed(l, now) BY <2>2, <2>3 DEF Allowed
    <2>5. QED BY <2>4 DEF l
<1>5. \A p \in S : ById[p] \in Int BY <1>1, KeysAreNumbers
<1>6. Sendable(LettersTo(S, ById, ToAll("WARNING", d)), now)
    BY <1>1, <1>3, <1>4, <1>5, LegTags, JobLetters
<1>7. QED BY <1>2, <1>6

LEMMA ExpiredSendable ==
    ASSUME RowsProper, NEW now \in Nat, now <= date PROVE Sendable(ExpiredLetters(now), now)
<1> DEFINE found == Batched({p \in People : ~user[p].member /\ user[p].ends = now - 1}, ById)
           S == {p \in found : user[p].able /\ LoggedSince(p, {"EXPIRED"}, now - 1) = {}}
<1>1. S \in SUBSET People /\ \A p \in S : user[p].ends = now - 1 /\ LoggedSince(p, {"EXPIRED"}, now - 1) = {}
    BY DEF Batched
<1>2. ExpiredLetters(now) = LettersTo(S, ById, ToAll("EXPIRED", None_)) BY DEF ExpiredLetters
<1> HIDE DEF S, found
<1>3. "EXPIRED" \in EmailTypes BY DEF EmailTypes
<1>4. ASSUME NEW p \in S PROVE Allowed(ToAll("EXPIRED", None_)[p], now)
    <2> DEFINE l == ToAll("EXPIRED", None_)[p]
    <2>1. l.to = p /\ l.type = "EXPIRED" /\ l.from = "job" BY <1>1, <1>3, LegTags, JobLetter
    <2> HIDE DEF l
    <2>2. date \in Nat /\ user[p].ends <= date BY <1>1 DEF RowsProper
    <2>3. Proper(l) /\ Marked(l) BY <2>1, <2>2 DEF Proper, Marked
    <2>4. ASSUME NEW k \in LetterKinds, ~Decided(k), Of(k, l, now)
          PROVE  Cardinality(Recorded(k, p)) < Limit(k)
        <3>1. k[1] = "expired" BY <2>1, <2>4, JobKinds
        <3>2. Recorded(k, p) = {} BY <1>1, <3>1 DEF Recorded, RecordedIn, Tells, Logged, LoggedSince, LoggedWith
        <3>3. QED BY <3>2, NothingRecorded
    <2>5. Allowed(l, now) BY <2>1, <2>3, <2>4 DEF Allowed
    <2>6. QED BY <2>5 DEF l
<1>5. \A p \in S : ById[p] \in Int BY <1>1, KeysAreNumbers
<1>6. Sendable(LettersTo(S, ById, ToAll("EXPIRED", None_)), now)
    BY <1>1, <1>3, <1>4, <1>5, LegTags, JobLetters
<1>7. QED BY <1>2, <1>6

LEMMA StreakSendable ==
    ASSUME RowsProper, NEW now \in Nat
    PROVE  Sendable(StreakLetters(now), now) /\ \A i \in DOMAIN StreakLetters(now) : StreakLetters(now)[i].type = "STREAK"
<1> DEFINE S == Batched({p \in People : ReminderDue(p, now)}, ById)
<1>1. S \in SUBSET People /\ \A p \in S : user[p].reminded < now BY DEF Batched, ReminderDue
<1>2. StreakLetters(now) = LettersTo(S, ById, ToAll("STREAK", None_)) BY DEF StreakLetters
<1> HIDE DEF S
<1>3. "STREAK" \in EmailTypes BY DEF EmailTypes
<1>4. ASSUME NEW p \in S PROVE Allowed(ToAll("STREAK", None_)[p], now)
    <2> DEFINE l == ToAll("STREAK", None_)[p]
    <2>1. l.to = p /\ l.type = "STREAK" /\ l.from = "job" BY <1>1, <1>3, LegTags, JobLetter
    <2> HIDE DEF l
    <2>2. Proper(l) /\ Marked(l) BY <2>1 DEF Proper, Marked
    <2>3. ASSUME NEW k \in LetterKinds, ~Decided(k), Of(k, l, now)
          PROVE  Cardinality(Recorded(k, p)) < Limit(k)
        <3>1. k[1] = "streak" /\ now <= k[2] /\ k[2] \in Nat BY <2>1, <2>3, JobKinds
        <3>2. user[p] \in UserRow BY <1>1 DEF RowsProper
        <3>3. user[p].reminded \in Nat BY <3>2 DEF UserRow
        <3>4. ~(user[p].reminded >= k[2]) BY <1>1, <3>1, <3>3
        <3>5. Recorded(k, p) = {} BY <3>1, <3>4 DEF Recorded, RecordedIn, Tells, Logged, LoggedSince, LoggedWith
        <3>6. QED BY <3>5, NothingRecorded
    <2>4. Allowed(l, now) BY <2>1, <2>2, <2>3 DEF Allowed
    <2>5. QED BY <2>4 DEF l
<1>5. \A p \in S : ById[p] \in Int BY <1>1, KeysAreNumbers
<1>6. /\ Sendable(LettersTo(S, ById, ToAll("STREAK", None_)), now)
      /\ \A i \in DOMAIN LettersTo(S, ById, ToAll("STREAK", None_)) :
             LettersTo(S, ById, ToAll("STREAK", None_))[i].type = "STREAK"
    BY <1>1, <1>3, <1>4, <1>5, LegTags, JobLetters
<1>7. QED BY <1>2, <1>6

LEMMA PromptSendable ==
    ASSUME RowsProper, NEW now \in Nat
    PROVE  Sendable(PromptLetters(now), now) /\ \A i \in DOMAIN PromptLetters(now) : PromptLetters(now)[i].type = "PROMPT"
<1> DEFINE found == Batched({p \in People : PromptDue(p, now)}, ById)
           S == {p \in found : LoggedSince(p, {"PROMPT"}, now - PromptCooldown) = {}}
<1>1. S \in SUBSET People /\ \A p \in S : LoggedSince(p, {"PROMPT"}, now - PromptCooldown) = {} BY DEF Batched
<1>2. PromptLetters(now) = LettersTo(S, ById, ToAll("PROMPT", None_)) BY DEF PromptLetters
<1> HIDE DEF S, found
<1>3. "PROMPT" \in EmailTypes BY DEF EmailTypes
<1>4. ASSUME NEW p \in S PROVE Allowed(ToAll("PROMPT", None_)[p], now)
    <2> DEFINE l == ToAll("PROMPT", None_)[p]
    <2>1. l.to = p /\ l.type = "PROMPT" /\ l.from = "job" BY <1>1, <1>3, LegTags, JobLetter
    <2> HIDE DEF l
    <2>2. Proper(l) /\ Marked(l) BY <2>1 DEF Proper, Marked
    <2>3. ASSUME NEW k \in LetterKinds, ~Decided(k), Of(k, l, now)
          PROVE  Cardinality(Recorded(k, p)) < Limit(k)
        <3>1. k[1] = "prompt" /\ now <= k[2] + PromptCooldown /\ k[2] \in Nat BY <2>1, <2>3, JobKinds
        <3>2. \A i \in Logged(p, {"PROMPT"}) : log[i].day \in Nat
            <4>1. log \in Seq(EntryRow) BY DEF RowsProper
            <4>2. \A i \in 1..Len(log) : log[i] \in EntryRow BY <4>1
            <4>3. QED BY <4>2 DEF Logged, EntryRow
        <3>3. \A i \in Logged(p, {"PROMPT"}) : ~(log[i].day >= now - PromptCooldown) BY <1>1 DEF LoggedSince
        <3>4. \A i \in Logged(p, {"PROMPT"}) : ~(log[i].day >= k[2]) BY <3>1, <3>2, <3>3, MailConstants
        <3>5. Recorded(k, p) = {} BY <3>1, <3>4 DEF Recorded, RecordedIn, Tells, Logged
        <3>6. QED BY <3>5, NothingRecorded
    <2>4. Allowed(l, now) BY <2>1, <2>2, <2>3 DEF Allowed
    <2>5. QED BY <2>4 DEF l
<1>5. \A p \in S : ById[p] \in Int BY <1>1, KeysAreNumbers
<1>6. /\ Sendable(LettersTo(S, ById, ToAll("PROMPT", None_)), now)
      /\ \A i \in DOMAIN LettersTo(S, ById, ToAll("PROMPT", None_)) :
             LettersTo(S, ById, ToAll("PROMPT", None_))[i].type = "PROMPT"
    BY <1>1, <1>3, <1>4, <1>5, LegTags, JobLetters
<1>7. QED BY <1>2, <1>6

AllOfType(s, type) == \A i \in DOMAIN s : s[i].type = type
LEMMA TwoSendable ==
    ASSUME NEW s, NEW t, NEW now, Sendable(s, now), Sendable(t, now), NEW type1, NEW type2, type1 # type2,
           AllOfType(s, type1), AllOfType(t, type2)
    PROVE  Sendable(s \o t, now)
<1>1. s \in Seq(LetterRow) /\ t \in Seq(LetterRow) BY DEF Sendable
<1>2. s \o t \in Seq(LetterRow) /\ Len(s \o t) = Len(s) + Len(t) BY <1>1, ConcatProperties
<1>3. \A i \in 1..Len(s) : (s \o t)[i] = s[i] BY <1>1
<1>4. \A i \in 1..(Len(s) + Len(t)) : i > Len(s) => (s \o t)[i] = t[i - Len(s)] BY <1>1
<1>5. Len(s) \in Nat /\ Len(t) \in Nat /\ DOMAIN s = 1..Len(s) /\ DOMAIN t = 1..Len(t)
      /\ DOMAIN (s \o t) = 1..(Len(s) + Len(t))
    BY <1>1, <1>2
<1>6. PICK u : u = s \o t OBVIOUS
<1>7. /\ \A i \in 1..Len(s) : u[i] = s[i] /\ u[i].type = type1 /\ Allowed(u[i], now)
      /\ \A i \in 1..(Len(s) + Len(t)) : i > Len(s) =>
            i - Len(s) \in 1..Len(t) /\ u[i] = t[i - Len(s)] /\ u[i].type = type2 /\ Allowed(u[i], now)
    BY <1>3, <1>4, <1>5, <1>6 DEF Sendable, AllOfType
<1>8. \A i \in 1..(Len(s) + Len(t)) : i \in 1..Len(s) \/ i > Len(s) BY <1>5
<1>9. \A i \in DOMAIN u : Allowed(u[i], now) BY <1>5, <1>6, <1>7, <1>8
<1>10. Distinct(u)
    <2> SUFFICES ASSUME NEW i \in 1..(Len(s) + Len(t)), NEW j \in 1..(Len(s) + Len(t)),
                        u[i].to = u[j].to, u[i].type = u[j].type
                 PROVE  i = j
        BY <1>5, <1>6 DEF Distinct
    <2>1. CASE i \in 1..Len(s) /\ j \in 1..Len(s) BY <1>5, <1>7, <2>1 DEF Sendable, Distinct
    <2>2. CASE i > Len(s) /\ j > Len(s)
        <3>1. PICK a \in 1..Len(t), c \in 1..Len(t) : a = i - Len(s) /\ c = j - Len(s) BY <1>7, <2>2
        <3>2. u[i] = t[a] /\ u[j] = t[c] BY <1>7, <2>2, <3>1
        <3>3. t[a].to = t[c].to /\ t[a].type = t[c].type BY <3>2
        <3>4. a = c BY <1>5, <3>3 DEF Sendable, Distinct
        <3>5. QED BY <1>5, <3>1, <3>4
    <2>3. QED BY <1>7, <1>8, <2>1, <2>2
<1>11. QED BY <1>2, <1>6, <1>9, <1>10 DEF Sendable

LEMMA PasswordSendable ==
    ASSUME RowsProper, NEW now PROVE Sendable(PasswordLetters, now)
<1> DEFINE S == Batched({p \in People : password[p].old > 0}, ById)
<1>1. S \in SUBSET People BY DEF Batched
<1>2. PasswordLetters = LettersTo(S, ById, ToAll("PASSWORD", None_)) BY DEF PasswordLetters
<1> HIDE DEF S
<1>3. "PASSWORD" \in EmailTypes BY DEF EmailTypes
<1>4. ASSUME NEW p \in S PROVE Allowed(ToAll("PASSWORD", None_)[p], now)
    <2> DEFINE l == ToAll("PASSWORD", None_)[p]
    <2>1. l.to = p /\ l.type = "PASSWORD" /\ l.from = "job" /\ l.tag = None_ BY <1>1, <1>3, LegTags, JobLetter
    <2> HIDE DEF l
    <2>2. Newest(p) \in Nat
        <3>1. password[p] \in [made : Seq(Nat), old : Nat] BY <1>1 DEF RowsProper
        <3>2. password[p].made \in Seq(Nat) BY <3>1
        <3>3. QED BY <3>2, LenProperties DEF Newest
    <2>3. l.tag \in 0..Newest(l.to) BY <2>1, <2>2 DEF None_
    <2>4. Proper(l) /\ Marked(l) BY <2>1, <2>3 DEF Proper, Marked
    <2>5. ASSUME NEW k \in LetterKinds, ~Decided(k), Of(k, l, now) PROVE FALSE
        BY <2>1, <2>5, JobKinds
    <2>6. Allowed(l, now) BY <2>4, <2>5 DEF Allowed
    <2>7. QED BY <2>6 DEF l
<1>5. \A p \in S : ById[p] \in Int BY <1>1, KeysAreNumbers
<1>6. Sendable(LettersTo(S, ById, ToAll("PASSWORD", None_)), now)
    BY <1>1, <1>3, <1>4, <1>5, LegTags, JobLetters
<1>7. QED BY <1>2, <1>6

\* A script sends one type; the one that keeps its broadcast id sends notices.
ScriptTypes == {"WELCOME", "NUDGE", "PROMPT", "NOTICE"}
LEMMA ScriptsKnown ==
    ASSUME NEW b \in Scripts
    PROVE  /\ Broadcast(b).type \in ScriptTypes /\ Broadcast(b).people \in SUBSET People
           /\ Broadcast(b).kept <=> b = 17
           /\ b = 17 => Broadcast(b).type = "NOTICE"
<1>1. b \in {11, 12, 13, 14, 15, 16, 17, 18} BY DEF Scripts
<1> USE DEF Broadcast, Script, ScriptTypes
<1>2. CASE b = 11 BY <1>2 DEF BookmarkExam
<1>3. CASE b = 12 BY <1>3 DEF BookmarkNudge
<1>4. CASE b = 13 BY <1>4 DEF FreeOutreach
<1>5. CASE b = 14 BY <1>5 DEF MathematicsUpdate
<1>6. CASE b = 15 BY <1>6 DEF MedicineOutreach
<1>7. CASE b = 16 BY <1>7 DEF PremiumDiscount
<1>8. CASE b = 17 BY <1>8 DEF WhatsappGroup
<1>9. CASE b = 18 BY <1>9 DEF InterfaceForm
<1>10. QED BY <1>1, <1>2, <1>3, <1>4, <1>5, <1>6, <1>7, <1>8, <1>9

LEMMA ScriptSendable ==
    ASSUME RowsProper, NEW now, NEW b \in Scripts PROVE Sendable(ScriptLetters(b), now)
<1> DEFINE type == Broadcast(b).type
           S == {p \in Broadcast(b).people : LoggedWith(p, type, b) = {}}
           letter == [p \in People |-> Letter(p, type, b, "script")]
<1>1. S \in SUBSET People /\ \A p \in S : LoggedWith(p, type, b) = {} BY ScriptsKnown
<1>2. ScriptLetters(b) = LettersTo(S, ById, letter) BY DEF ScriptLetters
<1>3. type \in ScriptTypes /\ (b = 17 => type = "NOTICE") BY ScriptsKnown
<1>4. \A p \in People : /\ letter[p] \in LetterRow /\ letter[p].to = p /\ letter[p].type = type
                        /\ letter[p].from = "script" /\ letter[p].tag = b
    <2>1. b \in Tags BY DEF Scripts, Tags
    <2>2. type \in EmailTypes BY <1>3 DEF ScriptTypes, EmailTypes
    <2> HIDE DEF type
    <2>3. QED BY <2>1, <2>2 DEF Letter, LetterRow
<1> HIDE DEF S, letter, type
<1>5. ASSUME NEW p \in S PROVE Allowed(letter[p], now)
    <2> DEFINE l == letter[p]
    <2>1. l.to = p /\ l.type = type /\ l.from = "script" /\ l.tag = b BY <1>1, <1>4
    <2> HIDE DEF l
    <2>2. Proper(l) /\ Marked(l) BY <1>3, <2>1 DEF Proper, Marked, ScriptTypes
    <2>3. ASSUME NEW k \in LetterKinds, ~Decided(k), Of(k, l, now)
          PROVE  Cardinality(Recorded(k, p)) < Limit(k)
        <3>1. k[1] \in {"welcome", "nudge", "expired", "notice", "streak", "prompt"} BY <2>3 DEF LetterKinds, Decided
        <3>2. k[1] = "notice" /\ b = 17
            BY <1>3, <2>1, <2>3, <3>1 DEF Of, IsCampaign, ScriptTypes
        <3>3. Recorded(k, p) = {} BY <1>1, <1>3, <3>2 DEF Recorded, RecordedIn, Tells, Logged, LoggedSince, LoggedWith
        <3>4. QED BY <3>3, NothingRecorded
    <2>4. Allowed(l, now) BY <2>1, <2>2, <2>3 DEF Allowed
    <2>5. QED BY <2>4 DEF l
<1>6. \A p \in S : ById[p] \in Int BY <1>1, KeysAreNumbers
<1>7. Addressed(ScriptLetters(b), S, letter) BY <1>1, <1>2, <1>6, LettersListed
<1>8. Writes(letter, S, type) BY <1>1, <1>4 DEF Writes
<1>9. QED BY <1>5, <1>7, <1>8, AddressedSendable

LEMMA LegSendable ==
    ASSUME RowsProper, NEW leg \in Legs, NEW now \in Nat, now <= date
    PROVE  Sendable(LettersOf(leg, now), now)
<1>1. \/ leg[1] \in {"welcome", "nudge", "milestone", "expired", "reminders", "passwords"}
      \/ leg[1] = "warn" /\ leg[2] \in Nat
      \/ leg[1] = "script" /\ leg[2] \in Scripts
    BY DEF Legs
<1>2. CASE leg[1] = "welcome" BY <1>2, WelcomeSendable DEF LettersOf
<1>3. CASE leg[1] = "nudge" BY <1>3, NudgeSendable DEF LettersOf
<1>4. CASE leg[1] = "milestone" BY <1>4, MilestoneSendable DEF LettersOf
<1>5. CASE leg[1] = "warn" BY <1>1, <1>5, WarningSendable DEF LettersOf
<1>6. CASE leg[1] = "expired" BY <1>6, ExpiredSendable DEF LettersOf
<1>7. CASE leg[1] = "reminders"
    <2>1. PICK s, t : s = StreakLetters(now) /\ t = PromptLetters(now) OBVIOUS
    <2>2. Sendable(s, now) /\ AllOfType(s, "STREAK") BY <2>1, StreakSendable DEF AllOfType
    <2>3. Sendable(t, now) /\ AllOfType(t, "PROMPT") BY <2>1, PromptSendable DEF AllOfType
    <2>4. "STREAK" # "PROMPT" OBVIOUS
    <2>5. Sendable(s \o t, now) BY <2>2, <2>3, <2>4, TwoSendable
    <2>6. ReminderLetters(now) = s \o t BY <2>1 DEF ReminderLetters
    <2>7. QED BY <1>7, <2>5, <2>6 DEF LettersOf
<1>8. CASE leg[1] = "passwords" BY <1>8, PasswordSendable DEF LettersOf
<1>9. CASE leg[1] = "script" BY <1>1, <1>9, ScriptSendable DEF LettersOf
<1>10. QED BY <1>1, <1>2, <1>3, <1>4, <1>5, <1>6, <1>7, <1>8, <1>9

----------------------------------------------------------------------------
(* What a step of a run does to its row, and what a row of the log says. *)

Skip(x) == [x EXCEPT !.at = "next", !.todo = Tail(@)]
Put(x, at) == [x EXCEPT !.at = at]

LEMMA TailLetters ==
    ASSUME NEW S, NEW s \in Seq(S), s # <<>>
    PROVE  /\ Tail(s) \in Seq(S) /\ DOMAIN Tail(s) \subseteq Nat \ {0}
           /\ \A i \in DOMAIN Tail(s) : i + 1 \in DOMAIN s /\ Tail(s)[i] = s[i + 1]
OBVIOUS

LEMMA RowSkips ==
    ASSUME NEW x \in RunRow, Sound(x), x.todo # <<>>, NEW y, y = Skip(x)
    PROVE  /\ y \in RunRow /\ Sound(y) /\ y.now = x.now /\ y.at = "next"
           /\ \A i \in DOMAIN y.todo : \E j \in DOMAIN x.todo : y.todo[i] = x.todo[j]
           /\ \A k \in LetterKinds : \A p : (ToSend(k, p, y) => ToSend(k, p, x)) /\ ~ToRecord(k, p, y)
<1>1. x.todo \in Seq(LetterRow) /\ x.now \in Nat /\ x.legs \in Seq(Legs) BY DEF RunRow
<1>2. PICK t : t = Tail(x.todo) OBVIOUS
<1>3. /\ t \in Seq(LetterRow) /\ DOMAIN t \subseteq Nat \ {0}
      /\ \A i \in DOMAIN t : i + 1 \in DOMAIN x.todo /\ t[i] = x.todo[i + 1]
    BY <1>1, <1>2, TailLetters
<1>4. y.at = "next" /\ y.now = x.now /\ y.todo = t BY <1>2 DEF Skip, RunRow
<1>5. y \in RunRow BY <1>2, <1>3 DEF Skip, RunRow
<1>6. Sound(y)
    <2>1. \A i \in DOMAIN t : t[i].from = "script" /\ t[i].tag = 17 => t[i].type = "NOTICE"
        BY <1>3 DEF Sound
    <2>2. ASSUME NEW i \in DOMAIN t, NEW j \in DOMAIN t, t[i].to = t[j].to, t[i].type = t[j].type PROVE i = j
        <3>1. i + 1 = j + 1 BY <1>3, <2>2 DEF Sound
        <3>2. i \in Nat /\ j \in Nat BY <1>3
        <3>3. QED BY <3>1, <3>2
    <2>3. QED BY <1>4, <2>1, <2>2 DEF Sound
<1>7. \A i \in DOMAIN y.todo : \E j \in DOMAIN x.todo : y.todo[i] = x.todo[j] BY <1>3, <1>4
<1>8. ASSUME NEW k \in LetterKinds, NEW p, ToSend(k, p, y) PROVE ToSend(k, p, x)
    <2>1. PICK i \in Unsent(k, y) : y.todo[i].to = p /\ Of(k, y.todo[i], y.now) BY <1>8 DEF ToSend
    <2>2. i \in DOMAIN t /\ ~Decided(k) BY <1>4, <2>1 DEF Unsent
    <2>3. i + 1 \in DOMAIN x.todo /\ i + 1 # 1 BY <1>3, <2>2
    <2>4. i + 1 \in Unsent(k, x) BY <2>2, <2>3 DEF Unsent
    <2>5. QED BY <1>3, <1>4, <2>1, <2>2, <2>4 DEF ToSend
<1>9. \A k \in LetterKinds : \A p : ~ToRecord(k, p, y) BY <1>4 DEF ToRecord
<1>10. QED BY <1>4, <1>5, <1>6, <1>7, <1>8, <1>9

LEMMA RowPuts ==
    ASSUME NEW x \in RunRow, Sound(x), x.at \in {"first", "second", "log"}, NEW at \in {"second", "log", "mark"},
           at = "second" => x.at # "log", at = "mark" => x.todo[1].type = "STREAK", NEW y, y = Put(x, at)
    PROVE  /\ y \in RunRow /\ Sound(y) /\ y.now = x.now /\ y.at = at /\ y.todo = x.todo
           /\ \A k \in LetterKinds : \A p : ToSend(k, p, y) => ToSend(k, p, x)
           /\ at # "second" => \A k \in LetterKinds : \A p :
                 ToRecord(k, p, y) <=> x.todo[1].to = p /\ Of(k, x.todo[1], x.now)
           /\ at = "second" => \A k \in LetterKinds : \A p : ~ToRecord(k, p, y)
<1>1. y.at = at /\ y.now = x.now /\ y.todo = x.todo BY DEF Put, RunRow
<1>2. y \in RunRow BY DEF Put, RunRow
<1>3. Sound(y) BY <1>1 DEF Sound
<1>4. ASSUME NEW k \in LetterKinds, NEW p, ToSend(k, p, y) PROVE ToSend(k, p, x)
    <2>1. PICK i \in Unsent(k, y) : y.todo[i].to = p /\ Of(k, y.todo[i], y.now) BY <1>4 DEF ToSend
    <2>2. i \in Unsent(k, x) BY <1>1, <2>1 DEF Unsent
    <2>3. QED BY <1>1, <2>1, <2>2 DEF ToSend
<1>5. at # "second" => \A k \in LetterKinds : \A p :
          ToRecord(k, p, y) <=> x.todo[1].to = p /\ Of(k, x.todo[1], x.now)
    BY <1>1 DEF ToRecord
<1>6. at = "second" => \A k \in LetterKinds : \A p : ~ToRecord(k, p, y) BY <1>1 DEF ToRecord
<1>7. QED BY <1>1, <1>2, <1>3, <1>4, <1>5, <1>6

LEMMA RowRests ==
    /\ NoRun \in RunRow /\ Sound(NoRun) /\ NoRun.now = 0 /\ DOMAIN NoRun.todo = {} /\ NoRun.at = "idle"
    /\ \A k \in LetterKinds : \A p : ~ToSend(k, p, NoRun) /\ ~ToRecord(k, p, NoRun)
<1>1. /\ NoRun.now = 0 /\ NoRun.at = "idle" /\ NoRun.todo = <<>> /\ NoRun.legs = <<>> BY DEF NoRun
<1>2. DOMAIN NoRun.todo = {} BY <1>1
<1>3. <<>> \in Seq(Legs) /\ <<>> \in Seq(LetterRow) BY EmptySeq
<1>4. NoRun \in RunRow BY <1>3 DEF NoRun, RunRow
<1>5. Sound(NoRun) BY <1>1, <1>2 DEF Sound
<1>6. \A k \in LetterKinds : \A p : ~ToSend(k, p, NoRun) /\ ~ToRecord(k, p, NoRun)
    BY <1>1, <1>2 DEF ToSend, Unsent, ToRecord
<1>7. QED BY <1>1, <1>2, <1>4, <1>5, <1>6

\* The log grows by a row: of a kind it says more only if it was sent, and of that kind.
LEMMA LogGrows ==
    ASSUME NEW rows \in Seq(EntryRow), NEW e \in EntryRow, NEW k \in LetterKinds, NEW p,
           NEW reminded, NEW ends, NEW made,
           NEW before, before = RecordedIn(k, p, rows, reminded, ends, made),
           NEW after, after = RecordedIn(k, p, Append(rows, e), reminded, ends, made)
    PROVE  /\ before \subseteq after /\ IsFiniteSet(after)
           /\ e.status # "sent" => before = after
           /\ k[1] # "streak" /\ e.to = p /\ e.status = "sent" /\ Tells(k, Len(rows) + 1, e, ends, made) => before # after
<1>1. Len(Append(rows, e)) = Len(rows) + 1 /\ Len(rows) \in Nat BY AppendLen
<1>2. PICK n \in Nat : n = Len(rows) BY <1>1
<1>3. PICK more : more = Append(rows, e) OBVIOUS
<1>4. Len(more) = n + 1 /\ more[n + 1] = e /\ \A i \in 1..n : more[i] = rows[i]
    BY <1>1, <1>2, <1>3, AppendRows
<1>5. 1..(n + 1) = 1..n \cup {n + 1} OBVIOUS
<1>6. CASE k[1] = "streak"
    <2>1. before = after BY <1>6 DEF RecordedIn
    <2>2. after \subseteq {0} BY <1>6 DEF RecordedIn
    <2>3. IsFiniteSet(after) BY <2>2, FS_Singleton, FS_Subset
    <2>4. QED BY <1>6, <2>1, <2>3
<1>7. CASE k[1] # "streak"
    <2>1. before = {i \in 1..n : rows[i].to = p /\ rows[i].status = "sent" /\ Tells(k, i, rows[i], ends, made)}
        BY <1>2, <1>7 DEF RecordedIn
    <2>2. after = {i \in 1..(n + 1) : more[i].to = p /\ more[i].status = "sent" /\ Tells(k, i, more[i], ends, made)}
        BY <1>2, <1>3, <1>4, <1>7 DEF RecordedIn
    <2>3. IsFiniteSet(1..(n + 1)) BY FS_Interval
    <2>4. after \subseteq 1..(n + 1) BY <2>2
    <2>5. IsFiniteSet(after) BY <2>3, <2>4, FS_Subset
    <2>6. before \subseteq after BY <1>4, <1>5, <2>1, <2>2
    <2>7. n + 1 \in after <=> e.to = p /\ e.status = "sent" /\ Tells(k, n + 1, e, ends, made)
        BY <1>4, <1>5, <2>2
    <2>8. after \subseteq before \cup {n + 1} BY <1>4, <1>5, <2>1, <2>2
    <2>9. n + 1 \notin before BY <2>1
    <2>10. QED BY <1>2, <2>5, <2>6, <2>7, <2>8, <2>9
<1>8. QED BY <1>6, <1>7

LEMMA RecordedFinite ==
    ASSUME NEW rows \in Seq(EntryRow), NEW k \in LetterKinds, NEW p, NEW reminded, NEW ends, NEW made
    PROVE  IsFiniteSet(RecordedIn(k, p, rows, reminded, ends, made))
<1>1. Len(rows) \in Nat BY LenProperties
<1>2. IsFiniteSet(1..Len(rows)) BY <1>1, FS_Interval
<1>3. IsFiniteSet({0}) BY FS_Singleton
<1>4. RecordedIn(k, p, rows, reminded, ends, made) \subseteq 1..Len(rows) \/ RecordedIn(k, p, rows, reminded, ends, made) \subseteq {0}
    BY DEF RecordedIn
<1>5. QED BY <1>2, <1>3, <1>4, FS_Subset

----------------------------------------------------------------------------
(* The steps of runs. *)

LEMMA RowTypes ==
    ASSUME RowsProper
    PROVE  /\ date \in Nat /\ log \in Seq(EntryRow) /\ Len(log) \in Nat
           /\ \A p \in People : /\ user[p] \in UserRow /\ user[p].reminded \in Nat /\ user[p].ends \in Nat
                                /\ password[p].made \in Seq(Nat) /\ Newest(p) \in Nat /\ password[p].old \in Nat
                                /\ Len(password[p].made) = Newest(p)
<1>1. date \in Nat /\ log \in Seq(EntryRow) BY DEF RowsProper
<1>2. Len(log) \in Nat BY <1>1, LenProperties
<1>3. ASSUME NEW p \in People
      PROVE  /\ user[p] \in UserRow /\ user[p].reminded \in Nat /\ user[p].ends \in Nat
             /\ password[p].made \in Seq(Nat) /\ Newest(p) \in Nat /\ password[p].old \in Nat
             /\ Len(password[p].made) = Newest(p)
    <2>1. user[p] \in UserRow /\ password[p] \in [made : Seq(Nat), old : Nat] BY DEF RowsProper
    <2>2. password[p].made \in Seq(Nat) /\ password[p].old \in Nat BY <2>1
    <2>3. Newest(p) \in Nat BY <2>2, LenProperties DEF Newest
    <2>4. QED BY <2>1, <2>2, <2>3 DEF UserRow, Newest
<1>4. QED BY <1>1, <1>2, <1>3

LEMMA RunTypes ==
    ASSUME RunsProper
    PROVE  AllSound(run) /\ \A r \in Runs : run[r] \in RunRow /\ Sound(run[r]) /\ Timely(run[r])
BY DEF RunsProper, AllSound

\* A run that is under way moves.
RunGoesTo(r, y) ==
    /\ run[r].at # "idle" /\ run' = [run EXCEPT ![r] = y]
    /\ y \in RunRow /\ Sound(y) /\ y.now <= date /\ \A i \in DOMAIN y.todo : Proper(y.todo[i])
    /\ date' = date /\ password' = password /\ crowd' = crowd
    /\ \A p \in People : user'[p].ends = user[p].ends

LEMMA ProperStays ==
    ASSUME date' = date, password' = password, \A p \in People : user'[p].ends = user[p].ends,
           NEW l \in LetterRow
    PROVE  Proper(l)' <=> Proper(l)
<1>1. l.to \in People BY DEF LetterRow
<1>2. QED BY <1>1 DEF Proper, Newest

LEMMA RunKept ==
    ASSUME RunsProper, CrowdProper, NEW r \in Runs, NEW y, RunGoesTo(r, y)
    PROVE  RunsProper' /\ CrowdProper' /\ AllSound(run) /\ AllSound(run)'
<1>1. AllSound(run) BY RunTypes
<1>2. run' \in [Runs -> RunRow] /\ run'[r] = y /\ \A s \in Runs \ {r} : run'[s] = run[s]
    BY <1>1 DEF AllSound, RunGoesTo
<1>3. \A s \in Runs : Sound(run'[s]) BY <1>1, <1>2 DEF AllSound, RunGoesTo
<1>4. ASSUME NEW s \in Runs PROVE Timely(run[s])'
    <2>1. PICK z \in RunRow : z = run'[s] BY <1>2
    <2>2. z.now <= date /\ \A i \in DOMAIN z.todo : Proper(z.todo[i])
        <3>1. CASE s = r BY <1>2, <2>1, <3>1 DEF RunGoesTo
        <3>2. CASE s # r
            <4>1. Timely(run[s]) /\ z = run[s] BY <1>2, <2>1, <3>2, RunTypes
            <4>2. QED BY <4>1 DEF Timely
        <3>3. QED BY <3>1, <3>2
    <2>3. z.todo \in Seq(LetterRow) BY <2>1 DEF RunRow
    <2>4. ASSUME NEW i \in DOMAIN z.todo PROVE Proper(z.todo[i])'
        <3>1. PICK l \in LetterRow : l = z.todo[i] BY <2>3
        <3>2. Proper(l) BY <2>2, <3>1
        <3>3. Proper(l)' BY <3>2, ProperStays DEF RunGoesTo
        <3>4. QED BY <3>1, <3>3
    <2>5. z.now <= date' BY <2>2 DEF RunGoesTo
    <2>6. QED BY <2>1, <2>4, <2>5 DEF Timely
<1>5. RunsProper' BY <1>2, <1>3, <1>4 DEF RunsProper
<1>6. AllSound(run)' BY <1>2, <1>3 DEF AllSound
<1>7. CrowdProper'
    <2>1. Active' \subseteq Active BY <1>2 DEF Active, RunGoesTo
    <2>2. Active \in SUBSET Runs BY DEF Active
    <2>3. IsFiniteSet(Active) /\ Cardinality(Active) \in Nat BY <2>2, RunsCounted
    <2>4. Cardinality(Active') <= Cardinality(Active) BY <2>1, <2>3, FS_Subset
    <2>5. Cardinality(Active') \in Nat BY <2>1, <2>3, FS_Subset, FS_CardinalityType
    <2>6. crowd' = crowd /\ crowd \in Nat /\ Cardinality(Active) <= crowd BY DEF CrowdProper, RunGoesTo
    <2>7. QED BY <2>3, <2>4, <2>5, <2>6 DEF CrowdProper
<1>8. QED BY <1>1, <1>5, <1>6, <1>7

LEMMA MailboxKept ==
    ASSUME MailProper, mailbox' = mailbox, date' = date, password' = password,
           \A p \in People : user'[p].ends = user[p].ends
    PROVE  MailProper'
<1>1. mailbox \in Seq(MessageRow) BY DEF MailProper
<1>2. ASSUME NEW i \in 1..Len(mailbox) PROVE mailbox'[i].day <= date' /\ Proper(mailbox[i].letter)'
    <2>1. mailbox[i] \in MessageRow BY <1>1
    <2>2. PICK l \in LetterRow : l = mailbox[i].letter BY <2>1 DEF MessageRow
    <2>3. Proper(l) /\ mailbox[i].day <= date BY <2>2 DEF MailProper
    <2>4. Proper(l)' BY <2>3, ProperStays
    <2>5. mailbox'[i].letter = l BY <2>2
    <2>6. QED BY <2>3, <2>4, <2>5
<1>3. QED BY <1>1, <1>2 DEF MailProper

\* The log as it was, or one row longer.
LogSays(e) == e \in EntryRow /\ log' = Append(log, e)
LEMMA RowsKept ==
    ASSUME RowsProper, date' = date, user' = user, password' = password,
           log' = log \/ \E e : LogSays(e)
    PROVE  RowsProper'
<1>1. log' \in Seq(EntryRow) /\ Len(log') \in Nat /\ Len(log) \in Nat /\ Len(log) <= Len(log')
    <2>1. log \in Seq(EntryRow) /\ Len(log) \in Nat BY RowTypes
    <2>2. CASE log' = log BY <2>1, <2>2
    <2>3. ASSUME NEW e, LogSays(e) PROVE log' \in Seq(EntryRow) /\ Len(log') = Len(log) + 1
        BY <2>1, <2>3, AppendLen DEF LogSays
    <2>4. QED BY <2>1, <2>2, <2>3
<1>2. ASSUME NEW p \in People, NEW i \in 1..Newest(p), NEW j \in 1..Newest(p), i <= j
      PROVE  password[p].made[i] <= password[p].made[j] /\ password[p].made[j] <= Len(log')
    <2>1. password[p].made \in Seq(Nat) /\ Len(password[p].made) = Newest(p) BY RowTypes
    <2>2. password[p].made[j] \in Nat BY <2>1
    <2>3. password[p].made[i] <= password[p].made[j] /\ password[p].made[j] <= Len(log) BY <1>2 DEF RowsProper
    <2>4. QED BY <1>1, <2>2, <2>3
<1>3. \A p \in People : Newest(p)' = Newest(p) BY DEF Newest
<1>4. QED BY <1>1, <1>2, <1>3 DEF RowsProper

\* A step that adds nothing to what is on record, and forgets nothing it has sent.
LEMMA QuietStep ==
    ASSUME MailInv, NEW r \in Runs, NEW y, RunGoesTo(r, y), user' = user, mailbox' = mailbox,
           doubt \subseteq doubt', log' = log \/ \E e : LogSays(e) /\ e.status # "sent",
           \A p \in People \ doubt' : \A k \in LetterKinds :
               /\ ToSend(k, p, y) => ToSend(k, p, run[r]) \/ Cardinality(Recorded(k, p)) < Limit(k)
               /\ ToRecord(k, p, run[r]) => ToRecord(k, p, y)
    PROVE  MailInv'
<1>1. RowsProper /\ RunsProper /\ MailProper /\ CrowdProper /\ AllRationed BY DEF MailInv
<1>2. RunsProper' /\ CrowdProper' /\ AllSound(run) /\ AllSound(run)' BY <1>1, RunKept
<1>3. date' = date /\ password' = password /\ crowd' = crowd /\ run' = [run EXCEPT ![r] = y] BY DEF RunGoesTo
<1>4. RowsProper' BY <1>1, <1>3, RowsKept
<1>5. MailProper' BY <1>1, <1>3, MailboxKept
<1>6. crowd <= crowd' BY <1>1, <1>3 DEF CrowdProper
<1>7. ASSUME NEW p \in People \ doubt', NEW k \in LetterKinds, Live(k, p)' PROVE Rationed(k, p)'
    <2>1. Live(k, p) BY <1>3, <1>7 DEF Live, Newest
    <2>2. p \notin doubt OBVIOUS
    <2>3. Rationed(k, p) BY <1>1, <2>1, <2>2 DEF AllRationed
    <2>4. Recorded(k, p)' = RecordedIn(k, p, log', user[p].reminded, user[p].ends, password[p].made)
        BY <1>3 DEF Recorded
    <2>5. Recorded(k, p)' = Recorded(k, p) /\ IsFiniteSet(Recorded(k, p))
        <3>1. log \in Seq(EntryRow) BY <1>1, RowTypes
        <3>2. IsFiniteSet(Recorded(k, p)) BY <3>1, RecordedFinite DEF Recorded
        <3>3. CASE log' = log BY <2>4, <3>2, <3>3 DEF Recorded
        <3>4. ASSUME NEW e, LogSays(e), e.status # "sent" PROVE Recorded(k, p)' = Recorded(k, p)
            <4>1. e \in EntryRow /\ log' = Append(log, e) BY <3>4 DEF LogSays
            <4>2. RecordedIn(k, p, log, user[p].reminded, user[p].ends, password[p].made)
                  = RecordedIn(k, p, Append(log, e), user[p].reminded, user[p].ends, password[p].made)
                BY <3>1, <3>4, <4>1, LogGrows
            <4>3. QED BY <2>4, <4>1, <4>2 DEF Recorded
        <3>5. QED BY <3>2, <3>3, <3>4
    <2>6. Takes(k, p, run[r], y, Cardinality(Recorded(k, p)')) BY <2>5 DEF Takes
    <2>7. Records(k, p, run[r], y, Recorded(k, p), Recorded(k, p)') BY <2>5 DEF Records
    <2>8. QED BY <1>1, <1>2, <1>3, <1>6, <2>3, <2>6, <2>7, RunMoves
<1>8. AllRationed' BY <1>7 DEF AllRationed
<1>9. QED BY <1>2, <1>4, <1>5, <1>8 DEF MailInv

\* The ways a run goes on: past its letter, with it, or not at all.
Still == date' = date /\ password' = password /\ crowd' = crowd /\ \A p \in People : user'[p].ends = user[p].ends

LEMMA HeadLetter ==
    ASSUME RunsProper, NEW r \in Runs, run[r].todo # <<>>
    PROVE  /\ Now_(r) = run[r].todo[1] /\ Now_(r) \in LetterRow /\ 1 \in DOMAIN run[r].todo
           /\ Proper(Now_(r)) /\ Now_(r).to \in People /\ run[r].todo \in Seq(LetterRow)
<1>1. run[r] \in RunRow /\ Timely(run[r]) BY RunTypes
<1>2. run[r].todo \in Seq(LetterRow) BY <1>1 DEF RunRow
<1>3. 1 \in DOMAIN run[r].todo /\ Head(run[r].todo) = run[r].todo[1] BY <1>2
<1>4. run[r].todo[1] \in LetterRow BY <1>2, <1>3
<1>5. Proper(run[r].todo[1]) BY <1>1, <1>3 DEF Timely
<1>6. QED BY <1>2, <1>3, <1>4, <1>5 DEF Now_, LetterRow

LEMMA TodoThere ==
    ASSUME RunsProper, NEW r \in Runs, run[r].at \in {"first", "second", "log", "mark"}
    PROVE  run[r].todo # <<>>
BY RunTypes DEF Sound

LEMMA LogRowType ==
    ASSUME RowsProper, NEW l \in LetterRow, NEW status \in {"sent", "failed", "suppressed"}
    PROVE  /\ LogRow(l, status) \in EntryRow /\ LogRow(l, status).to = l.to /\ LogRow(l, status).type = l.type
           /\ LogRow(l, status).status = status /\ LogRow(l, status).day = date
           /\ LogRow(l, status).stored = IF l.from = "script" /\ Broadcast(l.tag).kept THEN l.tag ELSE None_
<1>1. date \in Nat BY RowTypes
<1>2. l.to \in People /\ l.type \in EmailTypes /\ l.tag \in Tags BY DEF LetterRow
<1>3. (IF l.from = "script" /\ Broadcast(l.tag).kept THEN l.tag ELSE None_) \in Tags BY <1>2, LegTags
<1>4. QED BY <1>1, <1>2, <1>3 DEF LogRow, EntryRow

LEMMA Skips ==
    ASSUME RunsProper, NEW r \in Runs, run[r].at # "idle", run[r].todo # <<>>, run' = Next_(r), Still
    PROVE  /\ RunGoesTo(r, Skip(run[r]))
           /\ \A k \in LetterKinds : \A p :
                 (ToSend(k, p, Skip(run[r])) => ToSend(k, p, run[r])) /\ ~ToRecord(k, p, Skip(run[r]))
<1>1. run \in [Runs -> RunRow] /\ run[r] \in RunRow /\ Sound(run[r]) /\ Timely(run[r]) BY RunTypes DEF RunsProper
<1>2. PICK y : y = Skip(run[r]) OBVIOUS
<1>3. /\ y \in RunRow /\ Sound(y) /\ y.now = run[r].now
      /\ \A i \in DOMAIN y.todo : \E j \in DOMAIN run[r].todo : y.todo[i] = run[r].todo[j]
      /\ \A k \in LetterKinds : \A p : (ToSend(k, p, y) => ToSend(k, p, run[r])) /\ ~ToRecord(k, p, y)
    BY <1>1, <1>2, RowSkips
<1>4. run' = [run EXCEPT ![r] = y] BY <1>1, <1>2 DEF Next_, Skip
<1>5. y.now <= date /\ \A i \in DOMAIN y.todo : Proper(y.todo[i]) BY <1>1, <1>3 DEF Timely
<1>6. RunGoesTo(r, y) BY <1>3, <1>4, <1>5 DEF RunGoesTo, Still
<1>7. QED BY <1>2, <1>3, <1>6

LEMMA Puts ==
    ASSUME RunsProper, NEW r \in Runs, run[r].at \in {"first", "second", "log"}, NEW at \in {"second", "log", "mark"},
           at = "second" => run[r].at # "log", at = "mark" => Now_(r).type = "STREAK",
           run' = [run EXCEPT ![r].at = at], Still
    PROVE  /\ RunGoesTo(r, Put(run[r], at))
           /\ \A k \in LetterKinds : \A p : ToSend(k, p, Put(run[r], at)) => ToSend(k, p, run[r])
           /\ at # "second" => \A k \in LetterKinds : \A p :
                 ToRecord(k, p, Put(run[r], at)) <=> Now_(r).to = p /\ Of(k, Now_(r), run[r].now)
<1>1. run \in [Runs -> RunRow] /\ run[r] \in RunRow /\ Sound(run[r]) /\ Timely(run[r]) BY RunTypes DEF RunsProper
<1>2. PICK y : y = Put(run[r], at) OBVIOUS
<1>3. run[r].todo # <<>> BY TodoThere
<1>4. Now_(r) = run[r].todo[1] BY <1>3, HeadLetter
<1>5. /\ y \in RunRow /\ Sound(y) /\ y.now = run[r].now /\ y.todo = run[r].todo
      /\ \A k \in LetterKinds : \A p : ToSend(k, p, y) => ToSend(k, p, run[r])
      /\ at # "second" => \A k \in LetterKinds : \A p :
            ToRecord(k, p, y) <=> run[r].todo[1].to = p /\ Of(k, run[r].todo[1], run[r].now)
    BY <1>1, <1>2, <1>4, RowPuts
<1>6. run' = [run EXCEPT ![r] = y] BY <1>1, <1>2 DEF Put
<1>7. y.now <= date /\ \A i \in DOMAIN y.todo : Proper(y.todo[i]) BY <1>1, <1>5 DEF Timely
<1>8. RunGoesTo(r, y) BY <1>5, <1>6, <1>7 DEF RunGoesTo, Still
<1>9. QED BY <1>2, <1>4, <1>5, <1>8

LEMMA Rests ==
    ASSUME RunsProper, RowsProper, NEW r \in Runs, run[r].at # "idle", run' = [run EXCEPT ![r] = NoRun], Still
    PROVE  RunGoesTo(r, NoRun) /\ \A k \in LetterKinds : \A p : ~ToSend(k, p, NoRun) /\ ~ToRecord(k, p, NoRun)
<1>1. NoRun.now <= date BY RowRests, RowTypes
<1>2. QED BY <1>1, RowRests DEF RunGoesTo, Still

LEMMA SendingOwes ==
    ASSUME NEW r \in Runs, run[r].at \in {"idle", "next", "first", "second"}, NEW k \in LetterKinds, NEW p
    PROVE  ~ToRecord(k, p, run[r])
BY DEF ToRecord

LEMMA OthersOwe ==
    ASSUME RunsProper, NEW r \in Runs, run[r].todo # <<>>, NEW k \in LetterKinds, NEW p, p # Now_(r).to
    PROVE  ~ToRecord(k, p, run[r])
BY HeadLetter DEF ToRecord

LEMMA SuppressKeeps == ASSUME MailInv, NEW r \in Runs, Suppress(r) PROVE MailInv'
<1>1. RowsProper /\ RunsProper BY DEF MailInv
<1>2. run[r].at = "first" /\ run[r].todo # <<>> BY <1>1, TodoThere DEF Suppress
<1>3. Now_(r) \in LetterRow BY <1>1, <1>2, HeadLetter
<1>4. /\ date' = date /\ password' = password /\ crowd' = crowd /\ user' = user /\ mailbox' = mailbox /\ doubt' = doubt
      /\ run' = AfterSend(r)
    BY DEF Suppress
<1>5. Still BY <1>4 DEF Still
<1>6. \E e : LogSays(e) /\ e.status # "sent"
    <2>1. log' = Append(log, LogRow(Now_(r), "suppressed")) BY DEF Suppress
    <2>2. LogRow(Now_(r), "suppressed") \in EntryRow /\ LogRow(Now_(r), "suppressed").status # "sent"
        BY <1>1, <1>3, LogRowType
    <2>3. QED BY <2>1, <2>2 DEF LogSays
<1>7. \A k \in LetterKinds : \A p : ~ToRecord(k, p, run[r]) BY <1>2, SendingOwes
<1>8. CASE Now_(r).type = "STREAK"
    <2>1. run' = [run EXCEPT ![r].at = "mark"] BY <1>4, <1>8 DEF AfterSend
    <2>2. PICK y : y = Put(run[r], "mark") OBVIOUS
    <2>3. RunGoesTo(r, y) /\ \A k \in LetterKinds : \A p : ToSend(k, p, y) => ToSend(k, p, run[r])
        BY <1>1, <1>2, <1>5, <1>8, <2>1, <2>2, Puts
    <2>4. QED BY <1>4, <1>6, <1>7, <2>3, QuietStep
<1>9. CASE Now_(r).type # "STREAK"
    <2>1. run' = Next_(r) BY <1>4, <1>9 DEF AfterSend
    <2>2. PICK y : y = Skip(run[r]) OBVIOUS
    <2>3. RunGoesTo(r, y) /\ \A k \in LetterKinds : \A p : ToSend(k, p, y) => ToSend(k, p, run[r])
        BY <1>1, <1>2, <1>5, <2>1, <2>2, Skips
    <2>4. QED BY <1>4, <1>6, <1>7, <2>3, QuietStep
<1>10. QED BY <1>8, <1>9

\* After a refusal a run tries the other provider, goes on or stops; it has sent nothing.
LEMMA TurnsAway ==
    ASSUME RunsProper, RowsProper, NEW r \in Runs, Attempting(r), Still,
           run' \in {Fallback(r), IF Now_(r).type = "PASSWORD" THEN [run EXCEPT ![r] = NoRun] ELSE Next_(r)}
    PROVE  \E y : RunGoesTo(r, y) /\ \A k \in LetterKinds : \A p : ToSend(k, p, y) => ToSend(k, p, run[r])
<1>1. run[r].at \in {"first", "second"} BY DEF Attempting
<1>2. run[r].todo # <<>> BY <1>1, TodoThere
<1>3. \/ run[r].at = "first" /\ run' = [run EXCEPT ![r].at = "second"]
      \/ run' = [run EXCEPT ![r] = NoRun]
      \/ run' = Next_(r)
    BY <1>1, Zenon DEF Fallback
<1>4. CASE run[r].at = "first" /\ run' = [run EXCEPT ![r].at = "second"]
    <2>1. /\ RunGoesTo(r, Put(run[r], "second"))
          /\ \A k \in LetterKinds : \A p : ToSend(k, p, Put(run[r], "second")) => ToSend(k, p, run[r])
        BY <1>4, Puts
    <2>2. QED BY <2>1
<1>5. CASE run' = [run EXCEPT ![r] = NoRun] BY <1>1, <1>5, Rests
<1>6. CASE run' = Next_(r)
    <2>1. /\ RunGoesTo(r, Skip(run[r]))
          /\ \A k \in LetterKinds : \A p : ToSend(k, p, Skip(run[r])) => ToSend(k, p, run[r])
        BY <1>1, <1>2, <1>6, Skips
    <2>2. QED BY <2>1
<1>7. QED BY <1>3, <1>4, <1>5, <1>6

LEMMA RefuseKeeps == ASSUME MailInv, NEW r \in Runs, Refuse(r) PROVE MailInv'
<1>1. RowsProper /\ RunsProper BY DEF MailInv
<1>2. /\ date' = date /\ password' = password /\ crowd' = crowd /\ user' = user /\ mailbox' = mailbox /\ doubt' = doubt
      /\ Attempting(r)
    BY DEF Refuse
<1>3. run[r].at \in {"first", "second"} BY <1>2 DEF Attempting
<1>4. Now_(r) \in LetterRow BY <1>1, <1>3, TodoThere, HeadLetter
<1>5. \E e : LogSays(e) /\ e.status # "sent"
    <2>1. log' = Append(log, LogRow(Now_(r), "failed")) BY DEF Refuse
    <2>2. LogRow(Now_(r), "failed") \in EntryRow /\ LogRow(Now_(r), "failed").status # "sent"
        BY <1>1, <1>4, LogRowType
    <2>3. QED BY <2>1, <2>2 DEF LogSays
<1>6. \A k \in LetterKinds : \A p : ~ToRecord(k, p, run[r]) BY <1>3, SendingOwes
<1>7. Still BY <1>2 DEF Still
<1>8. PICK y : RunGoesTo(r, y) /\ \A k \in LetterKinds : \A p : ToSend(k, p, y) => ToSend(k, p, run[r])
    BY <1>1, <1>2, <1>7, TurnsAway DEF Refuse
<1>9. QED BY <1>2, <1>5, <1>6, <1>8, QuietStep

LEMMA LogLostKeeps == ASSUME MailInv, NEW r \in Runs, LogLost(r) PROVE MailInv'
<1>1. RowsProper /\ RunsProper BY DEF MailInv
<1>2. /\ date' = date /\ password' = password /\ crowd' = crowd /\ user' = user /\ mailbox' = mailbox /\ log' = log
      /\ run' = AfterSend(r) /\ doubt' = doubt \cup {Now_(r).to} /\ run[r].at = "log"
    BY DEF LogLost
<1>3. run[r].todo # <<>> BY <1>1, <1>2, TodoThere
<1>4. Still BY <1>2 DEF Still
<1>5. \A p \in People \ doubt' : \A k \in LetterKinds : ~ToRecord(k, p, run[r])
    BY <1>1, <1>2, <1>3, OthersOwe
<1>6. CASE Now_(r).type = "STREAK"
    <2>1. run' = [run EXCEPT ![r].at = "mark"] BY <1>2, <1>6 DEF AfterSend
    <2>2. PICK y : y = Put(run[r], "mark") OBVIOUS
    <2>3. RunGoesTo(r, y) /\ \A k \in LetterKinds : \A p : ToSend(k, p, y) => ToSend(k, p, run[r])
        BY <1>1, <1>2, <1>4, <1>6, <2>1, <2>2, Puts
    <2>4. QED BY <1>2, <1>5, <2>3, QuietStep
<1>7. CASE Now_(r).type # "STREAK"
    <2>1. run' = Next_(r) BY <1>2, <1>7 DEF AfterSend
    <2>2. PICK y : y = Skip(run[r]) OBVIOUS
    <2>3. RunGoesTo(r, y) /\ \A k \in LetterKinds : \A p : ToSend(k, p, y) => ToSend(k, p, run[r])
        BY <1>1, <1>2, <1>3, <1>4, <2>1, <2>2, Skips
    <2>4. QED BY <1>2, <1>5, <2>3, QuietStep
<1>8. QED BY <1>6, <1>7

LEMMA DiesKeeps == ASSUME MailInv, NEW r \in Runs, MailDies(r) PROVE MailInv'
<1>1. RowsProper /\ RunsProper BY DEF MailInv
<1>2. /\ date' = date /\ password' = password /\ crowd' = crowd /\ user' = user /\ mailbox' = mailbox /\ log' = log
      /\ run' = [run EXCEPT ![r] = NoRun] /\ run[r].at # "idle" /\ doubt \subseteq doubt'
      /\ run[r].at \in {"log", "mark"} => doubt' = doubt \cup {Now_(r).to}
    BY DEF MailDies
<1>3. Still BY <1>2 DEF Still
<1>4. RunGoesTo(r, NoRun) /\ \A k \in LetterKinds : \A p : ~ToSend(k, p, NoRun) BY <1>1, <1>2, <1>3, Rests
<1>5. ASSUME NEW p \in People \ doubt', NEW k \in LetterKinds, ToRecord(k, p, run[r]) PROVE FALSE
    <2>1. run[r].at \in {"log", "mark"} BY <1>5 DEF ToRecord
    <2>2. run[r].todo # <<>> /\ p # Now_(r).to BY <1>1, <1>2, <2>1, TodoThere
    <2>3. QED BY <1>1, <1>5, <2>2, OthersOwe
<1>6. QED BY <1>2, <1>4, <1>5, QuietStep

\* The letters of a leg, read all at once.
LEMMA ReadKeeps == ASSUME MailInv, NEW r \in Runs, ReadAudience(r) PROVE MailInv'
<1>1. RowsProper /\ RunsProper BY DEF MailInv
<1>2. /\ date' = date /\ password' = password /\ crowd' = crowd /\ user' = user /\ mailbox' = mailbox
      /\ log' = log /\ doubt' = doubt /\ run[r].at = "next" /\ run[r].todo = <<>>
    BY DEF ReadAudience
<1>3. Still BY <1>2 DEF Still
<1>4. \A k \in LetterKinds : \A p : ~ToRecord(k, p, run[r]) BY <1>2, SendingOwes
<1>5. CASE run[r].legs = <<>>
    <2>1. run' = [run EXCEPT ![r] = NoRun] BY <1>5 DEF ReadAudience
    <2>2. RunGoesTo(r, NoRun) /\ \A k \in LetterKinds : \A p : ~ToSend(k, p, NoRun)
        BY <1>1, <1>2, <1>3, <2>1, Rests
    <2>3. QED BY <1>2, <1>4, <2>2, QuietStep
<1>6. CASE run[r].legs # <<>>
    <2>1. PICK x \in RunRow : x = run[r] /\ Sound(x) /\ Timely(x) BY <1>1, RunTypes
    <2>2. x.now \in Nat /\ x.legs \in Seq(Legs) /\ x.now <= date BY <2>1 DEF RunRow, Timely
    <2>3. Head(x.legs) \in Legs /\ Tail(x.legs) \in Seq(Legs) BY <1>6, <2>1, <2>2, HeadTailProperties
    <2>4. PICK todo : todo = LettersOf(Head(x.legs), x.now) OBVIOUS
    <2>5. Sendable(todo, x.now) BY <1>1, <2>2, <2>3, <2>4, LegSendable
    <2>6. PICK legs \in Seq(Legs) : legs = Tail(x.legs) BY <2>3
    <2>7. todo \in Seq(LetterRow) BY <2>5 DEF Sendable
    <2>8. PICK y : y = [x EXCEPT !.legs = legs, !.todo = todo] OBVIOUS
    <2>9. y.at = "next" /\ y.now = x.now /\ y.todo = todo /\ y \in RunRow
        BY <1>2, <2>1, <2>7, <2>8 DEF RunRow
    <2>10. run' = [run EXCEPT ![r] = y]
        <3>1. run' = [run EXCEPT ![r].legs = Tail(@), ![r].todo = LettersOf(Head(run[r].legs), run[r].now)]
            BY <1>6 DEF ReadAudience
        <3>2. run' = [run EXCEPT ![r].legs = legs, ![r].todo = todo] BY <2>1, <2>4, <2>6, <3>1, Zenon
        <3>3. run \in [Runs -> RunRow] BY <1>1 DEF RunsProper
        <3>4. QED BY <2>1, <2>8, <3>2, <3>3 DEF RunRow
    <2>11. \A i \in DOMAIN todo : Allowed(todo[i], x.now) BY <2>5 DEF Sendable
    <2>12. Sound(y)
        <3>1. \A i \in DOMAIN todo : todo[i].from = "script" /\ todo[i].tag = 17 => todo[i].type = "NOTICE"
            BY <2>11 DEF Allowed, Marked
        <3>2. Distinct(todo) BY <2>5 DEF Sendable
        <3>3. QED BY <2>9, <3>1, <3>2 DEF Sound, Distinct
    <2>13. \A i \in DOMAIN y.todo : Proper(y.todo[i]) BY <2>9, <2>11 DEF Allowed
    <2>14. RunGoesTo(r, y) BY <1>2, <1>3, <2>2, <2>9, <2>10, <2>12, <2>13 DEF RunGoesTo, Still
    <2>15. ASSUME NEW k \in LetterKinds, NEW p, ToSend(k, p, y)
           PROVE  Cardinality(Recorded(k, p)) < Limit(k)
        <3>1. PICK i \in Unsent(k, y) : y.todo[i].to = p /\ Of(k, y.todo[i], y.now) BY <2>15 DEF ToSend
        <3>2. i \in DOMAIN todo /\ ~Decided(k) BY <2>9, <3>1 DEF Unsent
        <3>3. QED BY <2>9, <2>11, <3>1, <3>2 DEF Allowed
    <2>16. QED BY <1>2, <1>4, <2>14, <2>15, QuietStep
<1>7. QED BY <1>5, <1>6

\* The check before each letter, of what is on record by then.
LEMMA NothingMarketed ==
    ASSUME NEW day, NEW type, NEW p \in People, ~HadMarketing(p, type, day), day \in Nat,
           RowsProper, NEW k \in LetterKinds, k[1] = "daily", day <= k[2]
    PROVE  Cardinality(Recorded(k, p)) < Limit(k)
<1>1. log \in Seq(EntryRow) /\ Len(log) \in Nat BY RowTypes
<1>2. k[2] \in Nat BY DEF LetterKinds
<1>3. ASSUME NEW i \in Recorded(k, p) PROVE FALSE
    <2>1. /\ i \in 1..Len(log) /\ log[i].to = p /\ log[i].status = "sent"
          /\ log[i].type \in Marketing /\ log[i].day >= k[2]
        BY <1>3 DEF Recorded, RecordedIn, Tells
    <2>2. log[i] \in EntryRow BY <1>1, <2>1
    <2>3. log[i].day >= day BY <1>2, <2>1, <2>2 DEF EntryRow
    <2>4. i \in LoggedSince(p, Marketing, day) BY <2>1, <2>3 DEF LoggedSince, Logged
    <2>5. QED BY <2>4 DEF HadMarketing
<1>4. QED BY <1>3, NothingRecorded

LEMMA NothingReported ==
    ASSUME RowsProper, NEW p \in People, Alertable(p), NEW k \in LetterKinds, k[1] = "password", k[2] = Newest(p)
    PROVE  Cardinality(Recorded(k, p)) < Limit(k)
<1>1. PICK n \in Nat : n = Newest(p) BY RowTypes
<1>2. PICK i \in 1..n : \A j \in Logged(p, {"PASSWORD"}) : password[p].made[i] >= j
    BY <1>1 DEF Alertable, Unreported
<1>3. password[p].made \in Seq(Nat) /\ Len(password[p].made) = n BY <1>1, RowTypes
<1>4. i <= n /\ n \in 1..n /\ password[p].made[i] \in Nat /\ password[p].made[n] \in Nat BY <1>3
<1>5. password[p].made[i] <= password[p].made[n] BY <1>1, <1>4 DEF RowsProper
<1>6. ASSUME NEW j \in Recorded(k, p) PROVE FALSE
    <2>1. /\ j \in 1..Len(log) /\ log[j].to = p /\ log[j].status = "sent"
          /\ log[j].type = "PASSWORD" /\ j > password[p].made[n]
        BY <1>1, <1>6 DEF Recorded, RecordedIn, Tells
    <2>2. j \in Logged(p, {"PASSWORD"}) BY <2>1 DEF Logged
    <2>3. j \in Nat BY <2>1
    <2>4. QED BY <1>2, <1>4, <1>5, <2>1, <2>2, <2>3
<1>7. QED BY <1>6, NothingRecorded

LEMMA Stamped ==
    ASSUME RowsProper, NEW l \in LetterRow, Proper(l), Marked(l),
           NEW sent, sent = IF l.type = "PASSWORD" THEN [l EXCEPT !.tag = Newest(l.to)] ELSE l
    PROVE  /\ sent \in LetterRow /\ sent.to = l.to /\ sent.type = l.type /\ sent.from = l.from
           /\ sent.type # "PASSWORD" => sent = l
           /\ sent.type = "PASSWORD" => sent.tag = Newest(l.to) /\ sent.from = "job"
           /\ Proper(sent) /\ Marked(sent)
<1>1. l.to \in People BY DEF LetterRow
<1>2. PICK n \in Nat : n = Newest(l.to) BY <1>1, RowTypes
<1>3. n \in Tags BY LegTags
<1>4. CASE l.type # "PASSWORD" BY <1>4
<1>5. CASE l.type = "PASSWORD"
    <2>1. sent = [l EXCEPT !.tag = n] BY <1>2, <1>5
    <2>2. sent \in LetterRow /\ sent.to = l.to /\ sent.type = l.type /\ sent.from = l.from /\ sent.tag = n
        BY <1>3, <2>1 DEF LetterRow
    <2>3. l.from = "job" BY <1>5 DEF Proper
    <2>4. Proper(sent) BY <1>2, <1>5, <2>2, <2>3 DEF Proper
    <2>5. QED BY <1>2, <1>5, <2>2, <2>3, <2>4 DEF Marked
<1>6. QED BY <1>4, <1>5

\* What Consider leaves out, and what it goes on with.
PassedOver(l, now) ==
    \/ IsCampaign(l) /\ HadMarketing(l.to, l.type, now)
    \/ l.type = "PASSWORD" /\ ~Alertable(l.to)
ToSendOf(l) == IF l.type = "PASSWORD" THEN [l EXCEPT !.tag = Newest(l.to)] ELSE l

\* A run decides to send the letter it has come to.
Decides(x, l, sent, todo, y) ==
    /\ x.at = "next" /\ x.todo # <<>> /\ l = x.todo[1] /\ Proper(l) /\ Marked(l) /\ ~PassedOver(l, x.now)
    /\ sent = ToSendOf(l) /\ todo = [x.todo EXCEPT ![1] = sent] /\ y = [x EXCEPT !.at = "first", !.todo = todo]
LEMMA DecidesOn ==
    ASSUME RowsProper, NEW x \in RunRow, Sound(x), NEW l, NEW sent, NEW todo, NEW y, Decides(x, l, sent, todo, y)
    PROVE  /\ y \in RunRow /\ Sound(y) /\ y.now = x.now /\ y.at = "first" /\ y.todo = todo /\ DOMAIN todo = DOMAIN x.todo
           /\ \A i \in DOMAIN todo : i # 1 => todo[i] = x.todo[i]
           /\ todo[1] = sent /\ Proper(sent)
           /\ \A p : \A k \in LetterKinds :
                 ToSend(k, p, y) => ToSend(k, p, x) \/ Cardinality(Recorded(k, p)) < Limit(k)
<1>0. /\ x.at = "next" /\ x.todo # <<>> /\ l = x.todo[1] /\ Proper(l) /\ Marked(l) /\ ~PassedOver(l, x.now)
      /\ sent = ToSendOf(l) /\ todo = [x.todo EXCEPT ![1] = sent] /\ y = [x EXCEPT !.at = "first", !.todo = todo]
    BY DEF Decides
<1>1. x.todo \in Seq(LetterRow) /\ x.now \in Nat BY DEF RunRow
<1>2. 1 \in DOMAIN x.todo /\ l \in LetterRow BY <1>0, <1>1
<1>3. /\ sent \in LetterRow /\ sent.to = l.to /\ sent.type = l.type /\ sent.from = l.from
      /\ sent.type # "PASSWORD" => sent = l
      /\ sent.type = "PASSWORD" => sent.tag = Newest(l.to) /\ sent.from = "job"
      /\ Proper(sent) /\ Marked(sent)
    BY <1>0, <1>2, Stamped DEF ToSendOf
<1>4. /\ todo \in Seq(LetterRow) /\ DOMAIN todo = DOMAIN x.todo /\ todo[1] = sent
      /\ \A i \in DOMAIN todo : i # 1 => todo[i] = x.todo[i]
    BY <1>0, <1>1, <1>2, <1>3
<1>5. y.at = "first" /\ y.now = x.now /\ y.todo = todo /\ y \in RunRow BY <1>0, <1>4 DEF RunRow
<1>6. Sound(y)
    <2>1. \A i \in DOMAIN todo : todo[i].to = x.todo[i].to /\ todo[i].type = x.todo[i].type BY <1>0, <1>3, <1>4
    <2>2. \A i \in DOMAIN todo : todo[i].from = "script" /\ todo[i].tag = 17 => todo[i].type = "NOTICE"
        BY <1>3, <1>4 DEF Sound, Marked
    <2>3. \A i, j \in DOMAIN todo : todo[i].to = todo[j].to /\ todo[i].type = todo[j].type => i = j
        BY <1>4, <2>1 DEF Sound
    <2>4. todo # <<>> BY <1>2, <1>4
    <2>5. QED BY <1>5, <2>2, <2>3, <2>4 DEF Sound
<1>7. ASSUME NEW p, NEW k \in LetterKinds, ToSend(k, p, y)
      PROVE  ToSend(k, p, x) \/ Cardinality(Recorded(k, p)) < Limit(k)
    <2>1. PICK i \in Unsent(k, y) : todo[i].to = p /\ Of(k, todo[i], x.now) BY <1>5, <1>7 DEF ToSend
    <2>2. i \in DOMAIN x.todo /\ (Decided(k) => i = 1) BY <1>4, <1>5, <2>1 DEF Unsent
    <2>3. CASE i # 1
        <3>1. ~Decided(k) BY <2>2, <2>3
        <3>2. i \in Unsent(k, x) BY <1>0, <2>2, <2>3, <3>1 DEF Unsent
        <3>3. QED BY <1>4, <2>1, <2>2, <2>3, <3>2 DEF ToSend
    <2>4. CASE i = 1 /\ ~Decided(k)
        <3>1. Of(k, sent, x.now) /\ sent.to = p BY <1>4, <2>1, <2>4
        <3>2. sent.type # "PASSWORD"
            <4>1. CASE sent.from = "job" BY <2>4, <3>1, <4>1, JobKinds
            <4>2. CASE sent.from # "job" BY <1>3, <4>2
            <4>3. QED BY <4>1, <4>2
        <3>3. sent = l BY <1>3, <3>2
        <3>4. 1 \in Unsent(k, x) BY <1>0, <1>2, <2>4 DEF Unsent
        <3>5. QED BY <1>0, <3>1, <3>3, <3>4 DEF ToSend
    <2>5. CASE i = 1 /\ Decided(k)
        <3>1. Of(k, sent, x.now) /\ sent.to = p /\ p \in People BY <1>3, <1>4, <2>1, <2>5 DEF LetterRow
        <3>2. CASE k[1] = "daily"
            <4>1. IsCampaign(sent) /\ x.now <= k[2] BY <3>1, <3>2 DEF Of
            <4>2. ~HadMarketing(p, l.type, x.now) BY <1>0, <1>3, <3>1, <4>1 DEF IsCampaign, PassedOver
            <4>3. QED BY <1>1, <3>1, <3>2, <4>1, <4>2, NothingMarketed
        <3>3. CASE k[1] = "password"
            <4>1. sent.type = "PASSWORD" /\ sent.tag = k[2] BY <3>1, <3>3 DEF Of
            <4>2. Alertable(p) /\ k[2] = Newest(p) BY <1>0, <1>3, <3>1, <4>1 DEF PassedOver
            <4>3. QED BY <3>1, <3>3, <4>2, NothingReported
        <3>4. QED BY <2>5, <3>2, <3>3 DEF Decided
    <2>6. QED BY <2>3, <2>4, <2>5
<1>8. QED BY <1>3, <1>4, <1>5, <1>6, <1>7

LEMMA ConsiderKeeps == ASSUME MailInv, NEW r \in Runs, Consider(r) PROVE MailInv'
<1>1. RowsProper /\ RunsProper BY DEF MailInv
<1>2. /\ date' = date /\ password' = password /\ crowd' = crowd /\ user' = user /\ mailbox' = mailbox
      /\ log' = log /\ doubt' = doubt /\ run[r].at = "next" /\ run[r].todo # <<>>
    BY DEF Consider
<1>3. Still BY <1>2 DEF Still
<1>4. \A k \in LetterKinds : \A p : ~ToRecord(k, p, run[r]) BY <1>2, SendingOwes
<1>5. PICK l \in LetterRow : l = Now_(r) /\ l = run[r].todo[1] /\ Proper(l) BY <1>1, <1>2, HeadLetter
<1>6. PICK sent : sent = ToSendOf(l) OBVIOUS
<1>7. /\ PassedOver(l, run[r].now) => run' = Next_(r)
      /\ ~PassedOver(l, run[r].now) =>
            run' = [run EXCEPT ![r].at = "first", ![r].todo = [run[r].todo EXCEPT ![1] = sent]]
    BY <1>5, <1>6 DEF Consider, PassedOver, ToSendOf
<1>8. CASE run' = Next_(r)
    <2>1. PICK y : y = Skip(run[r]) OBVIOUS
    <2>2. RunGoesTo(r, y) /\ \A k \in LetterKinds : \A p : ToSend(k, p, y) => ToSend(k, p, run[r])
        BY <1>1, <1>2, <1>3, <1>8, <2>1, Skips
    <2>3. QED BY <1>2, <1>4, <2>2, QuietStep
<1>9. CASE ~PassedOver(l, run[r].now)
    <2>1. PICK x \in RunRow : x = run[r] /\ Sound(x) /\ Timely(x) BY <1>1, RunTypes
    <2>2. 1 \in DOMAIN x.todo BY <1>1, <1>2, <2>1, HeadLetter
    <2>3. Marked(l) BY <1>5, <2>1, <2>2 DEF Sound, Marked
    <2>4. PICK todo : todo = [x.todo EXCEPT ![1] = sent] OBVIOUS
    <2>5. PICK y : y = [x EXCEPT !.at = "first", !.todo = todo] OBVIOUS
    <2>6. ~PassedOver(l, x.now) /\ x.at = "next" /\ x.todo # <<>> /\ l = x.todo[1] BY <1>2, <1>5, <1>9, <2>1
    <2>7. Decides(x, l, sent, todo, y) BY <1>5, <1>6, <2>3, <2>4, <2>5, <2>6 DEF Decides
    <2>8. /\ y \in RunRow /\ Sound(y) /\ y.now = x.now /\ y.at = "first" /\ y.todo = todo /\ DOMAIN todo = DOMAIN x.todo
          /\ \A i \in DOMAIN todo : i # 1 => todo[i] = x.todo[i]
          /\ todo[1] = sent /\ Proper(sent)
          /\ \A p : \A k \in LetterKinds :
                ToSend(k, p, y) => ToSend(k, p, x) \/ Cardinality(Recorded(k, p)) < Limit(k)
        BY <1>1, <2>1, <2>7, DecidesOn
    <2>9. run' = [run EXCEPT ![r] = y]
        <3>1. run' = [run EXCEPT ![r].at = "first", ![r].todo = todo] BY <1>7, <1>9, <2>1, <2>4, Zenon
        <3>2. run \in [Runs -> RunRow] BY <1>1 DEF RunsProper
        <3>3. QED BY <2>1, <2>5, <3>1, <3>2 DEF RunRow
    <2>10. \A i \in DOMAIN y.todo : Proper(y.todo[i]) BY <2>1, <2>8 DEF Timely
    <2>11. y.now <= date BY <2>1, <2>8 DEF Timely
    <2>12. RunGoesTo(r, y) BY <1>2, <1>3, <2>8, <2>9, <2>10, <2>11 DEF RunGoesTo, Still
    <2>13. QED BY <1>2, <1>4, <2>1, <2>8, <2>12, QuietStep
<1>10. QED BY <1>7, <1>8, <1>9

\* A letter reaches somebody.
Arriving(m) == m \in MessageRow /\ m.day = date /\ Proper(m.letter) /\ mailbox' = Append(mailbox, m)
LEMMA MailboxGrows ==
    ASSUME MailProper, RowsProper, NEW m, Arriving(m), date' = date, password' = password,
           \A p \in People : user'[p].ends = user[p].ends
    PROVE  MailProper'
<1>1. mailbox \in Seq(MessageRow) /\ date \in Nat BY RowTypes DEF MailProper
<1>2. m \in MessageRow /\ m.day = date /\ Proper(m.letter) /\ mailbox' = Append(mailbox, m) BY DEF Arriving
<1>3. /\ mailbox' \in Seq(MessageRow) /\ Len(mailbox') = Len(mailbox) + 1 /\ Len(mailbox) \in Nat
      /\ mailbox'[Len(mailbox) + 1] = m /\ \A i \in 1..Len(mailbox) : mailbox'[i] = mailbox[i]
    BY <1>1, <1>2, AppendLen, AppendRows
<1>4. ASSUME NEW i \in 1..Len(mailbox') PROVE mailbox'[i].day <= date' /\ Proper(mailbox[i].letter)'
    <2>1. PICK n \in MessageRow : n = mailbox'[i] BY <1>3
    <2>2. i = Len(mailbox) + 1 \/ i \in 1..Len(mailbox) BY <1>3
    <2>3. n.day <= date /\ Proper(n.letter)
        <3>1. CASE i = Len(mailbox) + 1
            <4>1. n = m BY <1>3, <2>1, <3>1
            <4>2. QED BY <1>1, <1>2, <4>1
        <3>2. CASE i \in 1..Len(mailbox)
            <4>1. n = mailbox[i] BY <1>3, <2>1, <3>2
            <4>2. QED BY <3>2, <4>1 DEF MailProper
        <3>3. QED BY <2>2, <3>1, <3>2
    <2>4. n.letter \in LetterRow BY <2>1 DEF MessageRow
    <2>5. PICK l \in LetterRow : l = n.letter BY <2>4
    <2>6. Proper(l)' BY <2>3, <2>5, ProperStays
    <2>7. mailbox'[i].letter = l BY <2>1, <2>5
    <2>8. QED BY <2>1, <2>3, <2>6, <2>7
<1>5. QED BY <1>3, <1>4 DEF MailProper

LEMMA ArrivesStep ==
    ASSUME MailInv, NEW r \in Runs, NEW y, RunGoesTo(r, y), user' = user, NEW m, Arriving(m),
           doubt \subseteq doubt', log' = log \/ \E e : LogSays(e) /\ e.status # "sent",
           \A p \in People \ doubt' : \A k \in LetterKinds :
               /\ ToSend(k, p, y) => ToSend(k, p, run[r])
               /\ ~ToRecord(k, p, run[r])
               /\ m.letter.to = p /\ Counted(k, m) => ToSend(k, p, run[r]) /\ ~ToSend(k, p, y) /\ ToRecord(k, p, y)
    PROVE  MailInv'
<1>1. RowsProper /\ RunsProper /\ MailProper /\ CrowdProper /\ AllRationed BY DEF MailInv
<1>2. RunsProper' /\ CrowdProper' /\ AllSound(run) /\ AllSound(run)' BY <1>1, RunKept
<1>3. /\ date' = date /\ password' = password /\ crowd' = crowd /\ run' = [run EXCEPT ![r] = y]
      /\ mailbox' = Append(mailbox, m)
    BY DEF RunGoesTo, Arriving
<1>4. RowsProper'
    <2>1. log' = log \/ \E e : LogSays(e) OBVIOUS
    <2>2. QED BY <1>1, <1>3, <2>1, RowsKept
<1>5. MailProper'
    <2>1. \A p \in People : user'[p].ends = user[p].ends OBVIOUS
    <2>2. QED BY <1>1, <1>3, <2>1, MailboxGrows
<1>6. ASSUME NEW p \in People \ doubt', NEW k \in LetterKinds, Live(k, p)' PROVE Rationed(k, p)'
    <2>1. Live(k, p) BY <1>3, <1>6 DEF Live, Newest
    <2>2. p \notin doubt OBVIOUS
    <2>3. Rationed(k, p) BY <1>1, <2>1, <2>2 DEF AllRationed
    <2>4. Recorded(k, p)' = RecordedIn(k, p, log', user[p].reminded, user[p].ends, password[p].made)
        BY <1>3 DEF Recorded
    <2>5. Recorded(k, p)' = Recorded(k, p) /\ IsFiniteSet(Recorded(k, p))
        <3>1. log \in Seq(EntryRow) BY <1>1, RowTypes
        <3>2. IsFiniteSet(Recorded(k, p)) BY <3>1, RecordedFinite DEF Recorded
        <3>3. CASE log' = log BY <2>4, <3>2, <3>3 DEF Recorded
        <3>4. ASSUME NEW e, LogSays(e), e.status # "sent" PROVE Recorded(k, p)' = Recorded(k, p)
            <4>1. e \in EntryRow /\ log' = Append(log, e) BY <3>4 DEF LogSays
            <4>2. RecordedIn(k, p, log, user[p].reminded, user[p].ends, password[p].made)
                  = RecordedIn(k, p, Append(log, e), user[p].reminded, user[p].ends, password[p].made)
                BY <3>1, <3>4, <4>1, LogGrows
            <4>3. QED BY <2>4, <4>1, <4>2 DEF Recorded
        <3>5. QED BY <3>2, <3>3, <3>4
    <2>6. QED BY <1>1, <1>2, <1>3, <2>3, <2>5, LetterArrives
<1>7. AllRationed' BY <1>6 DEF AllRationed
<1>8. QED BY <1>2, <1>4, <1>5, <1>7 DEF MailInv

LEMMA Delivers ==
    ASSUME RowsProper, RunsProper, NEW r \in Runs, run[r].todo # <<>>, Deliver(r)
    PROVE  \E m : Arriving(m) /\ m.letter = Now_(r)
<1>1. Now_(r) \in LetterRow /\ Proper(Now_(r)) /\ date \in Nat BY HeadLetter, RowTypes
<1>2. mailbox' = Append(mailbox, [letter |-> Now_(r), day |-> date]) BY DEF Deliver
<1>3. [letter |-> Now_(r), day |-> date] \in MessageRow BY <1>1 DEF MessageRow
<1>4. Arriving([letter |-> Now_(r), day |-> date]) BY <1>1, <1>2, <1>3 DEF Arriving
<1>5. QED BY <1>4

LEMMA CountedIsOf ==
    ASSUME NEW k \in LetterKinds, NEW m \in MessageRow, Counted(k, m), NEW now \in Nat, now <= m.day
    PROVE  Of(k, m.letter, now)
<1>1. m.day \in Nat BY DEF MessageRow
<1>2. \/ k[1] \in {"welcome", "nudge", "expired", "notice"}
      \/ k[1] \in {"daily", "streak", "prompt", "password"} /\ k[2] \in Nat
    BY DEF LetterKinds
<1>3. PromptCooldown \in Nat BY MailConstants
<1>4. CASE k[1] \in {"welcome", "nudge", "expired", "notice"} BY <1>4 DEF Counted, Of
<1>5. CASE k[1] = "daily" BY <1>1, <1>2, <1>5 DEF Counted, Of
<1>6. CASE k[1] = "streak" BY <1>1, <1>2, <1>6 DEF Counted, Of
<1>7. CASE k[1] = "prompt"
    <2>1. m.letter.from = "job" /\ m.letter.type = "PROMPT" /\ m.day \in k[2]..(k[2] + PromptCooldown)
        BY <1>7 DEF Counted
    <2>2. now <= k[2] + PromptCooldown BY <1>1, <1>2, <1>3, <1>7, <2>1
    <2>3. QED BY <1>7, <2>1, <2>2 DEF Of
<1>8. CASE k[1] = "password" BY <1>8 DEF Counted, Of
<1>9. QED BY <1>2, <1>4, <1>5, <1>6, <1>7, <1>8

LEMMA AcceptKeeps == ASSUME MailInv, NEW r \in Runs, Accept(r) PROVE MailInv'
<1>1. RowsProper /\ RunsProper BY DEF MailInv
<1>2. /\ date' = date /\ password' = password /\ crowd' = crowd /\ user' = user /\ log' = log /\ doubt' = doubt
      /\ Attempting(r) /\ Deliver(r) /\ run' = [run EXCEPT ![r].at = "log"]
    BY DEF Accept
<1>3. run[r].at \in {"first", "second"} BY <1>2 DEF Attempting
<1>4. run[r].todo # <<>> BY <1>1, <1>3, TodoThere
<1>5. Still BY <1>2 DEF Still
<1>6. PICK m : Arriving(m) /\ m.letter = Now_(r) BY <1>1, <1>2, <1>4, Delivers
<1>7. PICK y : y = Put(run[r], "log") OBVIOUS
<1>8. /\ RunGoesTo(r, y)
      /\ \A k \in LetterKinds : \A p : ToSend(k, p, y) => ToSend(k, p, run[r])
      /\ \A k \in LetterKinds : \A p : ToRecord(k, p, y) <=> Now_(r).to = p /\ Of(k, Now_(r), run[r].now)
    BY <1>1, <1>2, <1>3, <1>5, <1>7, Puts
<1>9. y \in RunRow /\ Sound(y) BY <1>8 DEF RunGoesTo
<1>10. ASSUME NEW p, NEW k \in LetterKinds, m.letter.to = p, Counted(k, m)
       PROVE  ToSend(k, p, run[r]) /\ ~ToSend(k, p, y) /\ ToRecord(k, p, y)
    <2>1. run[r] \in RunRow /\ run[r].now <= date BY <1>1, RunTypes DEF Timely
    <2>2. run[r].now \in Nat /\ m \in MessageRow /\ m.day = date BY <1>6, <2>1 DEF RunRow, Arriving
    <2>3. Of(k, Now_(r), run[r].now) BY <1>6, <1>10, <2>1, <2>2, CountedIsOf
    <2>4. Now_(r) = run[r].todo[1] /\ 1 \in DOMAIN run[r].todo BY <1>1, <1>4, HeadLetter
    <2>5. 1 \in Unsent(k, run[r]) BY <1>3, <2>4 DEF Unsent
    <2>6. ToSend(k, p, run[r]) BY <1>6, <1>10, <2>3, <2>4, <2>5 DEF ToSend
    <2>7. ToRecord(k, p, y) BY <1>6, <1>8, <1>10, <2>3
    <2>8. QED BY <1>9, <2>6, <2>7, OneLetter
<1>11. \A k \in LetterKinds : \A p : ~ToRecord(k, p, run[r]) BY <1>3, SendingOwes
<1>12. QED BY <1>2, <1>6, <1>8, <1>10, <1>11, ArrivesStep

\* A provider that took a letter and answered nothing: nobody knows, and the other is tried.
LEMMA AcceptAndTimeOutKeeps == ASSUME MailInv, NEW r \in Runs, AcceptAndTimeOut(r) PROVE MailInv'
<1>1. RowsProper /\ RunsProper BY DEF MailInv
<1>2. /\ date' = date /\ password' = password /\ crowd' = crowd /\ user' = user /\ Attempting(r) /\ Deliver(r)
      /\ doubt' = doubt \cup {Now_(r).to} /\ run' = Fallback(r) /\ log' = Append(log, LogRow(Now_(r), "failed"))
    BY DEF AcceptAndTimeOut
<1>3. run[r].at \in {"first", "second"} BY <1>2 DEF Attempting
<1>4. run[r].todo # <<>> BY <1>1, <1>3, TodoThere
<1>5. Still BY <1>2 DEF Still
<1>6. PICK m : Arriving(m) /\ m.letter = Now_(r) BY <1>1, <1>2, <1>4, Delivers
<1>7. PICK y : RunGoesTo(r, y) /\ \A k \in LetterKinds : \A p : ToSend(k, p, y) => ToSend(k, p, run[r])
    BY <1>1, <1>2, <1>5, TurnsAway
<1>8. \E e : LogSays(e) /\ e.status # "sent"
    <2>1. Now_(r) \in LetterRow BY <1>1, <1>4, HeadLetter
    <2>2. LogRow(Now_(r), "failed") \in EntryRow /\ LogRow(Now_(r), "failed").status # "sent"
        BY <1>1, <2>1, LogRowType
    <2>3. QED BY <1>2, <2>2 DEF LogSays
<1>9. \A k \in LetterKinds : \A p : ~ToRecord(k, p, run[r]) BY <1>3, SendingOwes
<1>10. \A p \in People \ doubt' : m.letter.to # p BY <1>2, <1>6
<1>11. QED BY <1>2, <1>6, <1>7, <1>8, <1>9, <1>10, ArrivesStep

\* The row written after an acceptance says of every kind what was sent.
LEMMA RowTells ==
    ASSUME RowsProper, NEW l \in LetterRow, Proper(l), Marked(l), l.type # "STREAK",
           NEW k \in LetterKinds, Live(k, l.to), NEW now, Of(k, l, now)
    PROVE  /\ k[1] # "streak"
           /\ Tells(k, Len(log) + 1, LogRow(l, "sent"), user[l.to].ends, password[l.to].made)
<1>1. PICK p \in People : p = l.to BY DEF LetterRow
<1>2. PICK e \in EntryRow : /\ e = LogRow(l, "sent") /\ e.type = l.type /\ e.day = date
                            /\ e.stored = IF l.from = "script" /\ Broadcast(l.tag).kept THEN l.tag ELSE None_
    BY LogRowType
<1>3. date \in Nat /\ user[p].ends \in Nat /\ Len(log) \in Nat BY RowTypes
<1>4. k[1] # "streak" BY DEF Of
<1>5. CASE k[1] \in {"welcome", "nudge"} BY <1>2, <1>5 DEF Of, Tells
<1>6. CASE k[1] = "expired" BY <1>1, <1>2, <1>3, <1>6 DEF Of, Tells, Proper
<1>7. CASE k[1] = "notice"
    <2>1. l.from = "script" /\ l.tag = 17 BY <1>7 DEF Of
    <2>2. 17 \in Scripts BY DEF Scripts
    <2>3. Broadcast(17).kept BY <2>2, ScriptsKnown
    <2>4. e.stored = 17 /\ e.type = "NOTICE" BY <1>2, <2>1, <2>3 DEF Marked
    <2>5. QED BY <1>2, <1>7, <2>4 DEF Tells
<1>8. CASE k[1] = "daily"
    <2>1. IsCampaign(l) /\ k[2] <= date BY <1>8 DEF Of, Live
    <2>2. e.type \in Marketing BY <1>2, <2>1 DEF IsCampaign, Marketing
    <2>3. k[2] \in Nat BY <1>8 DEF LetterKinds
    <2>4. QED BY <1>2, <1>3, <1>8, <2>1, <2>2, <2>3 DEF Tells
<1>9. CASE k[1] = "prompt"
    <2>1. l.type = "PROMPT" /\ k[2] <= date /\ k[2] \in Nat BY <1>9 DEF Of, Live, LetterKinds
    <2>2. QED BY <1>2, <1>3, <1>9, <2>1 DEF Tells
<1>10. CASE k[1] = "password"
    <2>1. l.type = "PASSWORD" /\ k[2] \in 1..Newest(p) BY <1>1, <1>10 DEF Of, Live
    <2>2. PICK n \in Nat : n = Newest(p) /\ Len(password[p].made) = n /\ password[p].made \in Seq(Nat) BY RowTypes
    <2>3. PICK i \in 1..n : i = k[2] BY <2>1, <2>2
    <2>4. password[p].made[i] \in Nat BY <2>2
    <2>5. i <= i OBVIOUS
    <2>6. password[p].made[i] <= Len(log) BY <2>2, <2>5 DEF RowsProper
    <2>7. Len(log) + 1 > password[p].made[i] BY <1>3, <2>4, <2>6
    <2>8. QED BY <1>1, <1>2, <1>10, <2>1, <2>3, <2>7 DEF Tells
<1>11. k[1] \in {"welcome", "nudge", "expired", "notice", "daily", "prompt", "password"} BY <1>4 DEF LetterKinds
<1>12. QED BY <1>4, <1>5, <1>6, <1>7, <1>8, <1>9, <1>10, <1>11

LEMMA LogSentKeeps == ASSUME MailInv, NEW r \in Runs, LogSent(r) PROVE MailInv'
<1>1. RowsProper /\ RunsProper /\ MailProper /\ CrowdProper /\ AllRationed BY DEF MailInv
<1>2. /\ date' = date /\ password' = password /\ crowd' = crowd /\ user' = user /\ mailbox' = mailbox /\ doubt' = doubt
      /\ run' = AfterSend(r) /\ run[r].at = "log" /\ log' = Append(log, LogRow(Now_(r), "sent"))
    BY DEF LogSent
<1>3. run[r].todo # <<>> BY <1>1, <1>2, TodoThere
<1>4. Still BY <1>2 DEF Still
<1>5. PICK l \in LetterRow : l = Now_(r) /\ l = run[r].todo[1] /\ Proper(l) BY <1>1, <1>3, HeadLetter
<1>6. Marked(l)
    <2>1. Sound(run[r]) /\ 1 \in DOMAIN run[r].todo BY <1>1, <1>3, RunTypes, HeadLetter
    <2>2. QED BY <1>5, <2>1 DEF Sound, Marked
<1>7. PICK e \in EntryRow : e = LogRow(l, "sent") /\ log' = Append(log, e) /\ e.to = l.to /\ e.status = "sent"
    BY <1>1, <1>2, <1>5, LogRowType
<1>8. \E y : /\ RunGoesTo(r, y)
             /\ \A k \in LetterKinds : \A p : ToSend(k, p, y) => ToSend(k, p, run[r])
             /\ l.type = "STREAK" => \A k \in LetterKinds : \A p : ToRecord(k, p, run[r]) => ToRecord(k, p, y)
    <2>1. CASE l.type = "STREAK"
        <3>1. run' = [run EXCEPT ![r].at = "mark"] BY <1>2, <1>5, <2>1 DEF AfterSend
        <3>2. PICK y : y = Put(run[r], "mark") OBVIOUS
        <3>3. /\ RunGoesTo(r, y)
              /\ \A k \in LetterKinds : \A p : ToSend(k, p, y) => ToSend(k, p, run[r])
              /\ \A k \in LetterKinds : \A p : ToRecord(k, p, y) <=> Now_(r).to = p /\ Of(k, Now_(r), run[r].now)
            BY <1>1, <1>2, <1>4, <1>5, <2>1, <3>1, <3>2, Puts
        <3>4. \A k \in LetterKinds : \A p : ToRecord(k, p, run[r]) => ToRecord(k, p, y)
            BY <1>5, <3>3 DEF ToRecord
        <3>5. QED BY <3>3, <3>4
    <2>2. CASE l.type # "STREAK"
        <3>1. run' = Next_(r) BY <1>2, <1>5, <2>2 DEF AfterSend
        <3>2. PICK y : y = Skip(run[r]) OBVIOUS
        <3>3. RunGoesTo(r, y) /\ \A k \in LetterKinds : \A p : ToSend(k, p, y) => ToSend(k, p, run[r])
            BY <1>1, <1>2, <1>3, <1>4, <3>1, <3>2, Skips
        <3>4. QED BY <2>2, <3>3
    <2>3. QED BY <2>1, <2>2
<1>9. PICK y : /\ RunGoesTo(r, y)
               /\ \A k \in LetterKinds : \A p : ToSend(k, p, y) => ToSend(k, p, run[r])
               /\ l.type = "STREAK" => \A k \in LetterKinds : \A p : ToRecord(k, p, run[r]) => ToRecord(k, p, y)
    BY <1>8
<1>10. RunsProper' /\ CrowdProper' /\ AllSound(run) /\ AllSound(run)' /\ run' = [run EXCEPT ![r] = y]
    BY <1>1, <1>9, RunKept DEF RunGoesTo
<1>11. RowsProper' /\ MailProper'
    <2>1. LogSays(e) BY <1>7 DEF LogSays
    <2>2. RowsProper' BY <1>1, <1>2, <2>1, RowsKept
    <2>3. MailProper' BY <1>1, <1>2, MailboxKept
    <2>4. QED BY <2>2, <2>3
<1>12. ASSUME NEW p \in People \ doubt', NEW k \in LetterKinds, Live(k, p)' PROVE Rationed(k, p)'
    <2>1. Live(k, p) BY <1>2, <1>12 DEF Live, Newest
    <2>2. p \notin doubt BY <1>2
    <2>3. Rationed(k, p) BY <1>1, <2>1, <2>2 DEF AllRationed
    <2>4. PICK before, after :
             /\ before = RecordedIn(k, p, log, user[p].reminded, user[p].ends, password[p].made)
             /\ after = RecordedIn(k, p, Append(log, e), user[p].reminded, user[p].ends, password[p].made)
        OBVIOUS
    <2>5. before = Recorded(k, p) /\ after = Recorded(k, p)' BY <1>2, <1>7, <2>4 DEF Recorded
    <2>6. log \in Seq(EntryRow) BY <1>1, RowTypes
    <2>7. /\ before \subseteq after /\ IsFiniteSet(after)
          /\ k[1] # "streak" /\ e.to = p /\ e.status = "sent"
             /\ Tells(k, Len(log) + 1, e, user[p].ends, password[p].made) => before # after
        BY <2>4, <2>6, LogGrows
    <2>8. ToRecord(k, p, run[r]) => ToRecord(k, p, y) \/ before # after
        <3>1. SUFFICES ASSUME ToRecord(k, p, run[r]), l.type # "STREAK" PROVE before # after BY <1>9
        <3>2. l.to = p /\ Of(k, l, run[r].now) BY <1>5, <3>1 DEF ToRecord
        <3>3. k[1] # "streak" /\ Tells(k, Len(log) + 1, e, user[p].ends, password[p].made)
            BY <1>1, <1>5, <1>6, <1>7, <2>1, <3>1, <3>2, RowTells
        <3>4. QED BY <1>7, <2>7, <3>2, <3>3
    <2>9. Takes(k, p, run[r], y, Cardinality(Recorded(k, p)')) BY <1>9 DEF Takes
    <2>10. Records(k, p, run[r], y, Recorded(k, p), Recorded(k, p)') BY <2>5, <2>7, <2>8 DEF Records
    <2>11. crowd <= crowd' BY <1>1, <1>2 DEF CrowdProper
    <2>12. QED BY <1>1, <1>2, <1>10, <2>3, <2>9, <2>10, <2>11, RunMoves
<1>13. AllRationed' BY <1>12 DEF AllRationed
<1>14. QED BY <1>10, <1>11, <1>13 DEF MailInv

\* A reminder is marked on its person, on the day its run began.
LEMMA MarkRows ==
    ASSUME RowsProper, NEW to \in People, NEW now \in Nat, now <= date, date' = date, password' = password, log' = log,
           user' = [user EXCEPT ![to].reminded = now]
    PROVE  /\ RowsProper' /\ \A p \in People : user'[p].ends = user[p].ends
           /\ \A p \in People : user'[p].reminded = IF p = to THEN now ELSE user[p].reminded
<1>1. user \in [People -> UserRow] /\ date \in Nat BY DEF RowsProper
<1>2. PICK row : row = [user[to] EXCEPT !.reminded = now] OBVIOUS
<1>3. row \in UserRow /\ row.ends = user[to].ends /\ row.reminded = now
    <2>1. user[to] \in UserRow BY <1>1
    <2>2. QED BY <1>2, <2>1 DEF UserRow
<1>4. user' = [user EXCEPT ![to] = row] BY <1>1, <1>2
<1>5. /\ user' \in [People -> UserRow] /\ user'[to] = row
      /\ \A p \in People : p # to => user'[p] = user[p]
    BY <1>1, <1>3, <1>4
<1>6. \A p \in People : user'[p].reminded <= date' BY <1>3, <1>5 DEF RowsProper
<1>7. \A p \in People : Newest(p)' = Newest(p) BY DEF Newest
<1>8. RowsProper' BY <1>5, <1>6, <1>7 DEF RowsProper
<1>9. QED BY <1>3, <1>5, <1>8

LEMMA MarkKeeps == ASSUME MailInv, NEW r \in Runs, MarkReminded(r) PROVE MailInv'
<1>1. RowsProper /\ RunsProper /\ MailProper /\ CrowdProper /\ AllRationed BY DEF MailInv
<1>2. /\ date' = date /\ password' = password /\ crowd' = crowd /\ log' = log /\ mailbox' = mailbox /\ doubt \subseteq doubt'
      /\ run[r].now # date => Now_(r).to \in doubt'
      /\ run' = Next_(r) /\ run[r].at = "mark" /\ user' = [user EXCEPT ![Now_(r).to].reminded = run[r].now]
    BY DEF MarkReminded
<1>3. run[r].todo # <<>> BY <1>1, <1>2, TodoThere
<1>4. PICK l \in LetterRow : l = Now_(r) /\ l = run[r].todo[1] /\ l.to \in People BY <1>1, <1>3, HeadLetter
<1>5. PICK x \in RunRow : x = run[r] /\ Sound(x) /\ x.now <= date BY <1>1, RunTypes DEF Timely
<1>6. x.now \in Nat BY DEF RunRow
<1>7. /\ RowsProper' /\ \A p \in People : user'[p].ends = user[p].ends
      /\ \A p \in People : user'[p].reminded = IF p = l.to THEN x.now ELSE user[p].reminded
    BY <1>1, <1>2, <1>4, <1>5, <1>6, MarkRows
<1>8. Still BY <1>2, <1>7 DEF Still
<1>9. PICK y : y = Skip(run[r]) OBVIOUS
<1>10. RunGoesTo(r, y) /\ \A k \in LetterKinds : \A p : ToSend(k, p, y) => ToSend(k, p, run[r])
    BY <1>1, <1>2, <1>3, <1>8, <1>9, Skips
<1>11. RunsProper' /\ CrowdProper' /\ AllSound(run) /\ AllSound(run)' /\ run' = [run EXCEPT ![r] = y]
    BY <1>1, <1>10, RunKept DEF RunGoesTo
<1>12. MailProper' BY <1>1, <1>2, <1>7, MailboxKept
<1>13. l.type = "STREAK" /\ Marked(l)
    <2>1. 1 \in DOMAIN x.todo BY <1>1, <1>3, <1>5, HeadLetter
    <2>2. QED BY <1>2, <1>4, <1>5, <2>1 DEF Sound, Marked
<1>14. ASSUME NEW p \in People \ doubt', NEW k \in LetterKinds, Live(k, p)' PROVE Rationed(k, p)'
    <2>1. Live(k, p) BY <1>2, <1>14 DEF Live, Newest
    <2>2. p \notin doubt BY <1>2
    <2>3. Rationed(k, p) BY <1>1, <2>1, <2>2 DEF AllRationed
    <2>4. IsFiniteSet(Recorded(k, p)) /\ IsFiniteSet(Recorded(k, p)')
        <3>1. log \in Seq(EntryRow) /\ log' \in Seq(EntryRow) BY <1>1, <1>2, RowTypes
        <3>2. QED BY <3>1, RecordedFinite DEF Recorded
    <2>5. /\ Recorded(k, p) \subseteq Recorded(k, p)'
          /\ ToRecord(k, p, run[r]) => Cardinality(Recorded(k, p)') >= Limit(k)
        <3>1. CASE k[1] # "streak"
            <4>1. Recorded(k, p)' = Recorded(k, p) BY <1>2, <1>7, <3>1 DEF Recorded, RecordedIn
            <4>2. ~ToRecord(k, p, run[r])
                <5>1. SUFFICES ASSUME Of(k, l, x.now) PROVE FALSE BY <1>4, <1>5 DEF ToRecord
                <5>2. k[1] \in {"welcome", "nudge", "expired", "notice", "daily", "prompt", "password"}
                    BY <3>1 DEF LetterKinds
                <5>3. QED BY <1>13, <5>1, <5>2 DEF Of, IsCampaign, Marked
            <4>3. QED BY <4>1, <4>2
        <3>2. CASE k[1] = "streak" /\ p # l.to
            <4>1. Recorded(k, p)' = Recorded(k, p) BY <1>7, <3>2 DEF Recorded, RecordedIn
            <4>2. ~ToRecord(k, p, run[r]) BY <1>4, <3>2 DEF ToRecord
            <4>3. QED BY <4>1, <4>2
        <3>3. CASE k[1] = "streak" /\ p = l.to
            <4>1. x.now = date BY <1>2, <1>4, <1>5, <3>3
            <4>2. k[2] <= date BY <2>1, <3>3 DEF Live
            <4>3. user'[p].reminded >= k[2] BY <1>6, <1>7, <3>3, <4>1, <4>2
            <4>4. Recorded(k, p)' = {0} BY <3>3, <4>3 DEF Recorded, RecordedIn
            <4>5. Recorded(k, p) \subseteq {0} BY <3>3 DEF Recorded, RecordedIn
            <4>6. Cardinality(Recorded(k, p)') = 1 /\ Limit(k) = 1 BY <3>3, <4>4, FS_Singleton DEF Limit
            <4>7. QED BY <4>4, <4>5, <4>6
        <3>4. QED BY <3>1, <3>2, <3>3
    <2>6. Takes(k, p, run[r], y, Cardinality(Recorded(k, p)')) BY <1>10 DEF Takes
    <2>7. Records(k, p, run[r], y, Recorded(k, p), Recorded(k, p)') BY <2>4, <2>5 DEF Records
    <2>8. crowd <= crowd' BY <1>1, <1>2 DEF CrowdProper
    <2>9. QED BY <1>1, <1>2, <1>11, <1>12, <2>3, <2>6, <2>7, <2>8, RunMoves
<1>15. AllRationed' BY <1>14 DEF AllRationed
<1>16. QED BY <1>7, <1>11, <1>12, <1>15 DEF MailInv

LEMMA RunStepKeeps == ASSUME MailInv, NEW r \in Runs, RunSteps(r) PROVE MailInv'
BY ReadKeeps, ConsiderKeeps, SuppressKeeps, AcceptKeeps, AcceptAndTimeOutKeeps, RefuseKeeps, LogSentKeeps,
   LogLostKeeps, MarkKeeps, DiesKeeps DEF RunSteps

----------------------------------------------------------------------------
(* Runs that start, and what people and the calendar do. *)

LEMMA ProgramLegs == ASSUME NEW task \in MailJobs PROVE Program(task) \in Seq(Legs)
<1>1. \/ task[1] = "campaigns" \/ task[1] = "alerts" \/ task[1] = "reminders" \/ task[1] = "passwords"
      \/ task[1] = "script" /\ task \in {"script"} \X Scripts
    BY DEF MailJobs
<1>2. CASE task[1] = "campaigns"
    <2>1. Program(task) = << <<"welcome", None_>>, <<"nudge", None_>>, <<"milestone", None_>> >> BY <1>2 DEF Program
    <2>2. <<"welcome", None_>> \in Legs /\ <<"nudge", None_>> \in Legs /\ <<"milestone", None_>> \in Legs BY DEF Legs
    <2>3. QED BY <2>1, <2>2
<1>3. CASE task[1] = "alerts"
    <2>1. WarningDays \in Seq(Nat) BY MailConstants
    <2>2. PICK n \in Nat : n = Len(WarningDays) BY <2>1
    <2>3. PICK s : s = [i \in 1..n |-> <<"warn", WarningDays[i]>>] OBVIOUS
    <2>4. \A i \in 1..n : WarningDays[i] \in Nat BY <2>1, <2>2
    <2>5. s \in [1..n -> Legs] BY <2>3, <2>4 DEF Legs
    <2>6. s \in Seq(Legs) BY <2>5, ListIsSeq
    <2>7. <<"expired", None_>> \in Legs BY DEF Legs
    <2>8. << <<"expired", None_>> >> \in Seq(Legs) BY <2>7
    <2>9. s \o << <<"expired", None_>> >> \in Seq(Legs) BY <2>6, <2>8, ConcatProperties
    <2>10. Program(task) = s \o << <<"expired", None_>> >> BY <1>3, <2>2, <2>3 DEF Program
    <2>11. QED BY <2>9, <2>10
<1>4. CASE task[1] = "reminders"
    <2>1. Program(task) = << <<"reminders", None_>> >> BY <1>4 DEF Program
    <2>2. <<"reminders", None_>> \in Legs BY DEF Legs
    <2>3. QED BY <2>1, <2>2
<1>5. CASE task[1] = "passwords"
    <2>1. Program(task) = << <<"passwords", None_>> >> BY <1>5 DEF Program
    <2>2. <<"passwords", None_>> \in Legs BY DEF Legs
    <2>3. QED BY <2>1, <2>2
<1>6. CASE task[1] = "script" /\ task \in {"script"} \X Scripts
    <2>1. Program(task) = <<task>> BY <1>6 DEF Program
    <2>2. task \in Legs BY <1>6 DEF Legs
    <2>3. QED BY <2>1, <2>2
<1>7. QED BY <1>1, <1>2, <1>3, <1>4, <1>5, <1>6

LEMMA StartKeeps == ASSUME MailInv, NEW r \in Runs, NEW task \in MailJobs, StartRun(r, task) PROVE MailInv'
<1>1. RowsProper /\ RunsProper /\ MailProper /\ CrowdProper /\ AllRationed BY DEF MailInv
<1>2. PICK y : y = [at |-> "next", now |-> date, legs |-> Program(task), todo |-> <<>>] OBVIOUS
<1>3. /\ date' = date /\ user' = user /\ password' = password /\ log' = log /\ mailbox' = mailbox /\ doubt' = doubt
      /\ run[r].at = "idle" /\ run' = [run EXCEPT ![r] = y]
      /\ crowd' = IF Cardinality(Active) + 1 > crowd THEN crowd + 1 ELSE crowd
    BY <1>2 DEF StartRun
<1>4. y.at = "next" /\ y.now = date /\ y.todo = <<>> /\ DOMAIN y.todo = {} BY <1>2
<1>5. y \in RunRow
    <2>1. Program(task) \in Seq(Legs) /\ date \in Nat /\ <<>> \in Seq(LetterRow)
        BY <1>1, ProgramLegs, RowTypes, EmptySeq
    <2>2. QED BY <1>2, <2>1 DEF RunRow
<1>6. Sound(y) BY <1>4 DEF Sound
<1>7. run \in [Runs -> RunRow] BY <1>1 DEF RunsProper
<1>8. run' \in [Runs -> RunRow] /\ run'[r] = y /\ \A s \in Runs : s # r => run'[s] = run[s]
    BY <1>3, <1>5, <1>7
<1>9. \A s \in Runs : Sound(run'[s]) BY <1>1, <1>6, <1>8, RunTypes
<1>10. \A l \in LetterRow : Proper(l)' <=> Proper(l)
    <2>1. \A p \in People : user'[p].ends = user[p].ends BY <1>3
    <2>2. QED BY <1>3, <2>1, ProperStays
<1>11. ASSUME NEW s \in Runs PROVE Timely(run[s])'
    <2>1. PICK z \in RunRow : z = run'[s] BY <1>8
    <2>2. z.now <= date /\ \A i \in DOMAIN z.todo : Proper(z.todo[i])
        <3>1. CASE s = r
            <4>1. z.now = date /\ DOMAIN z.todo = {} /\ date <= date BY <1>1, <1>4, <1>8, <2>1, <3>1, RowTypes
            <4>2. QED BY <4>1
        <3>2. CASE s # r
            <4>1. Timely(run[s]) /\ z = run[s] BY <1>1, <1>8, <2>1, <3>2, RunTypes
            <4>2. QED BY <4>1 DEF Timely
        <3>3. QED BY <3>1, <3>2
    <2>3. z.todo \in Seq(LetterRow) BY <2>1 DEF RunRow
    <2>4. ASSUME NEW i \in DOMAIN z.todo PROVE Proper(z.todo[i])'
        <3>1. PICK l \in LetterRow : l = z.todo[i] BY <2>3
        <3>2. Proper(l)' BY <1>10, <2>2, <3>1
        <3>3. QED BY <3>1, <3>2
    <2>5. z.now <= date' BY <1>3, <2>2
    <2>6. QED BY <2>1, <2>4, <2>5 DEF Timely
<1>12. RunsProper' BY <1>8, <1>9, <1>11 DEF RunsProper
<1>13. AllSound(run) /\ AllSound(run)' BY <1>1, <1>8, <1>9, RunTypes DEF AllSound
<1>14. CrowdProper' /\ crowd <= crowd'
    <2>1. Active' = Active \cup {r} BY <1>4, <1>8 DEF Active
    <2>2. Active \in SUBSET Runs /\ r \notin Active BY <1>3 DEF Active
    <2>3. IsFiniteSet(Active) /\ Cardinality(Active) \in Nat BY <2>2, RunsCounted
    <2>4. Cardinality(Active') = Cardinality(Active) + 1 BY <2>1, <2>2, <2>3, FS_AddElement
    <2>5. crowd \in Nat /\ Cardinality(Active) <= crowd BY <1>1 DEF CrowdProper
    <2>6. crowd' \in Nat /\ Cardinality(Active') <= crowd' /\ crowd <= crowd' BY <1>3, <2>3, <2>4, <2>5
    <2>7. QED BY <2>6 DEF CrowdProper
<1>15. RowsProper' BY <1>1, <1>3, RowsKept
<1>16. MailProper'
    <2>1. \A p \in People : user'[p].ends = user[p].ends BY <1>3
    <2>2. QED BY <1>1, <1>3, <2>1, MailboxKept
<1>17. ASSUME NEW p \in People \ doubt', NEW k \in LetterKinds, Live(k, p)' PROVE Rationed(k, p)'
    <2>1. Live(k, p) /\ p \notin doubt BY <1>3, <1>17 DEF Live, Newest
    <2>2. Rationed(k, p) BY <1>1, <2>1 DEF AllRationed
    <2>3. Recorded(k, p)' = Recorded(k, p) BY <1>3 DEF Recorded
    <2>4. IsFiniteSet(Recorded(k, p))
        <3>1. log \in Seq(EntryRow) BY <1>1, RowTypes
        <3>2. QED BY <3>1, RecordedFinite DEF Recorded
    <2>5. ~ToSend(k, p, y) BY <1>4 DEF ToSend, Unsent
    <2>6. ~ToRecord(k, p, run[r]) BY <1>3, SendingOwes
    <2>7. Takes(k, p, run[r], y, Cardinality(Recorded(k, p)')) BY <2>5 DEF Takes
    <2>8. Records(k, p, run[r], y, Recorded(k, p), Recorded(k, p)') BY <2>3, <2>4, <2>6 DEF Records
    <2>9. QED BY <1>1, <1>3, <1>13, <1>14, <2>2, <2>7, <2>8, RunMoves
<1>18. AllRationed' BY <1>17 DEF AllRationed
<1>19. QED BY <1>12, <1>14, <1>15, <1>16, <1>18 DEF MailInv

\* What nobody has had is rationed, whatever the runs hold.
LEMMA NoneArrived ==
    ASSUME NEW f, AllSound(f), NEW most \in Nat, Cardinality({r \in Runs : f[r].at # "idle"}) <= most,
           NEW k \in LetterKinds, NEW p, NEW level \in Nat
    PROVE  Fair(0, level, Limit(k), Cardinality({r \in Runs : ToSend(k, p, f[r])}),
                Cardinality({r \in Runs : ToRecord(k, p, f[r])}), most)
<1>1. PICK sending \in Nat, recording \in Nat :
          /\ sending = Cardinality({r \in Runs : ToSend(k, p, f[r])})
          /\ recording = Cardinality({r \in Runs : ToRecord(k, p, f[r])})
          /\ recording + sending <= most
    BY UnderWay
<1>2. PICK limit \in Nat \ {0} : limit = Limit(k) BY LimitType
<1>3. Fair(0, level, limit, sending, recording, most) BY <1>1 DEF Fair
<1>4. QED BY <1>1, <1>2, <1>3

\* A step of the world around: what was live stays as recorded, what becomes so has not been sent.
LEMMA WorldStep ==
    ASSUME MailInv, run' = run, log' = log, mailbox' = mailbox, doubt' = doubt, crowd' = crowd, RowsProper', date <= date',
           \A l \in LetterRow : Proper(l) => Proper(l)',
           \A p \in People : \A k \in LetterKinds : Live(k, p)' =>
               (Live(k, p) /\ Recorded(k, p)' = Recorded(k, p)) \/ Arrived(k, p) = {}
    PROVE  MailInv'
<1>1. RowsProper /\ RunsProper /\ MailProper /\ CrowdProper /\ AllRationed BY DEF MailInv
<1>2. date \in Nat /\ date' \in Nat BY <1>1, RowTypes DEF RowsProper
<1>3. run \in [Runs -> RunRow] /\ \A r \in Runs : Sound(run[r]) BY <1>1 DEF RunsProper
<1>4. ASSUME NEW r \in Runs PROVE Timely(run[r])'
    <2>1. PICK z \in RunRow : z = run[r] /\ Timely(z) BY <1>1, RunTypes
    <2>2. z.now \in Nat /\ z.now <= date /\ z.todo \in Seq(LetterRow) BY <2>1 DEF RunRow, Timely
    <2>3. z.now <= date' BY <1>2, <2>2
    <2>4. ASSUME NEW i \in DOMAIN z.todo PROVE Proper(z.todo[i])'
        <3>1. PICK l \in LetterRow : l = z.todo[i] BY <2>2
        <3>2. Proper(l) BY <2>1, <3>1 DEF Timely
        <3>3. QED BY <3>1, <3>2
    <2>5. QED BY <2>1, <2>3, <2>4 DEF Timely
<1>5. RunsProper' BY <1>3, <1>4 DEF RunsProper
<1>6. CrowdProper' BY <1>1 DEF CrowdProper, Active
<1>7. MailProper'
    <2>1. mailbox \in Seq(MessageRow) BY <1>1 DEF MailProper
    <2>2. ASSUME NEW i \in 1..Len(mailbox) PROVE mailbox'[i].day <= date' /\ Proper(mailbox[i].letter)'
        <3>1. PICK m \in MessageRow : m = mailbox[i] BY <2>1
        <3>2. PICK l \in LetterRow : l = m.letter BY <3>1 DEF MessageRow
        <3>3. Proper(l) /\ m.day <= date /\ m.day \in Nat BY <1>1, <3>1, <3>2 DEF MailProper, MessageRow
        <3>4. Proper(l)' BY <3>3
        <3>5. m.day <= date' BY <1>2, <3>3
        <3>6. QED BY <3>1, <3>2, <3>4, <3>5
    <2>3. QED BY <2>1, <2>2 DEF MailProper
<1>8. ASSUME NEW p \in People \ doubt', NEW k \in LetterKinds, Live(k, p)' PROVE Rationed(k, p)'
    <2>1. /\ Arrived(k, p)' = Arrived(k, p) /\ Sending(k, p)' = Sending(k, p) /\ Recording(k, p)' = Recording(k, p)
          /\ Limit(k)' = Limit(k)
        BY DEF Arrived, Sending, Recording, Limit
    <2>2. CASE Live(k, p) /\ Recorded(k, p)' = Recorded(k, p)
        <3>1. Rationed(k, p) BY <1>1, <2>2 DEF AllRationed
        <3>2. QED BY <2>1, <2>2, <3>1 DEF Rationed
    <2>3. CASE Arrived(k, p) = {}
        <3>1. Cardinality(Arrived(k, p)') = 0 BY <2>1, <2>3, FS_EmptySet
        <3>2. IsFiniteSet(Recorded(k, p)')
            <4>1. log' \in Seq(EntryRow) BY <1>1, RowTypes
            <4>2. QED BY <4>1, RecordedFinite DEF Recorded
        <3>3. PICK level \in Nat : level = Cardinality(Recorded(k, p)') BY <3>2, FS_CardinalityType
        <3>4. AllSound(run) /\ crowd \in Nat /\ Cardinality({r \in Runs : run[r].at # "idle"}) <= crowd
            BY <1>1, RunTypes DEF CrowdProper, Active
        <3>5. Fair(0, level, Limit(k), Cardinality(Sending(k, p)), Cardinality(Recording(k, p)), crowd)
            BY <3>4, NoneArrived DEF Sending, Recording
        <3>6. QED BY <2>1, <3>1, <3>3, <3>5 DEF Rationed
    <2>4. QED BY <1>8, <2>2, <2>3
<1>9. AllRationed' BY <1>8 DEF AllRationed
<1>10. QED BY <1>5, <1>6, <1>7, <1>9 DEF MailInv

\* Changes of a person nothing rationed is about.
LEMMA PersonStep ==
    ASSUME MailInv, run' = run, log' = log, mailbox' = mailbox, doubt' = doubt, crowd' = crowd, date' = date,
           password' = password, NEW p \in People, NEW row \in UserRow, user' = [user EXCEPT ![p] = row],
           row.reminded = user[p].reminded, row.ends = user[p].ends
    PROVE  MailInv'
<1>1. RowsProper BY DEF MailInv
<1>2. user \in [People -> UserRow] BY <1>1 DEF RowsProper
<1>3. /\ user' \in [People -> UserRow]
      /\ \A q \in People : user'[q].reminded = user[q].reminded /\ user'[q].ends = user[q].ends
    BY <1>2
<1>4. RowsProper'
    <2>1. \A q \in People : Newest(q)' = Newest(q) BY DEF Newest
    <2>2. \A q \in People : user'[q].reminded <= date' BY <1>1, <1>3 DEF RowsProper
    <2>3. QED BY <1>1, <1>3, <2>1, <2>2 DEF RowsProper
<1>5. \A l \in LetterRow : Proper(l) => Proper(l)' BY <1>3, ProperStays
<1>6. \A q \in People : \A k \in LetterKinds :
          Live(k, q)' => Live(k, q) /\ Recorded(k, q)' = Recorded(k, q)
    <2>1. \A q \in People : \A k \in LetterKinds : Live(k, q)' => Live(k, q) BY DEF Live, Newest
    <2>2. \A q \in People : \A k \in LetterKinds : Recorded(k, q)' = Recorded(k, q) BY <1>3 DEF Recorded
    <2>3. QED BY <2>1, <2>2
<1>7. date <= date' BY <1>1, RowTypes
<1>8. QED BY <1>4, <1>5, <1>6, <1>7, WorldStep

LEMMA PeopleKeep ==
    ASSUME MailInv, NEW p \in People, TakeExam(p) \/ ToggleMuted(p) \/ EndMembership(p)
    PROVE  MailInv'
<1>1. /\ run' = run /\ log' = log /\ mailbox' = mailbox /\ doubt' = doubt /\ crowd' = crowd /\ date' = date
      /\ password' = password
    BY DEF TakeExam, ToggleMuted, EndMembership
<1>2. user \in [People -> UserRow] /\ date \in Nat BY DEF MailInv, RowsProper
<1>3. PICK u \in UserRow : u = user[p] BY <1>2
<1>4. u.done \in Nat /\ u.muted \in BOOLEAN BY DEF UserRow
<1>5. CASE TakeExam(p)
    <2>1. PICK done \in Nat : done = u.done + 1 BY <1>4
    <2>2. PICK row : row = [u EXCEPT !.done = done, !.tried = TRUE, !.lastSeen = date] OBVIOUS
    <2>3. row \in UserRow /\ row.reminded = u.reminded /\ row.ends = u.ends BY <1>2, <2>1, <2>2 DEF UserRow
    <2>4. user' = [user EXCEPT ![p] = row]
        <3>1. user' = [user EXCEPT ![p].done = @ + 1, ![p].tried = TRUE, ![p].lastSeen = date] BY <1>5 DEF TakeExam
        <3>2. QED BY <1>2, <1>3, <2>1, <2>2, <3>1 DEF UserRow
    <2>5. QED BY <1>1, <1>3, <2>3, <2>4, PersonStep
<1>6. CASE ToggleMuted(p)
    <2>1. PICK row : row = [u EXCEPT !.muted = ~@] OBVIOUS
    <2>2. row \in UserRow /\ row.reminded = u.reminded /\ row.ends = u.ends BY <1>4, <2>1 DEF UserRow
    <2>3. user' = [user EXCEPT ![p] = row] BY <1>2, <1>3, <1>6, <2>1 DEF ToggleMuted, UserRow
    <2>4. QED BY <1>1, <1>3, <2>2, <2>3, PersonStep
<1>7. CASE EndMembership(p)
    <2>1. PICK row : row = [u EXCEPT !.member = FALSE] OBVIOUS
    <2>2. row \in UserRow /\ row.reminded = u.reminded /\ row.ends = u.ends BY <2>1 DEF UserRow
    <2>3. user' = [user EXCEPT ![p] = row] BY <1>2, <1>3, <1>7, <2>1 DEF EndMembership, UserRow
    <2>4. QED BY <1>1, <1>3, <2>2, <2>3, PersonStep
<1>8. QED BY <1>5, <1>6, <1>7

LEMMA OldKeeps == ASSUME MailInv, NEW p \in People, ChangeGrowsOld(p) PROVE MailInv'
<1>1. /\ run' = run /\ log' = log /\ mailbox' = mailbox /\ doubt' = doubt /\ crowd' = crowd /\ date' = date /\ user' = user
      /\ password' = [password EXCEPT ![p].old = @ + 1]
    BY DEF ChangeGrowsOld
<1>2. RowsProper BY DEF MailInv
<1>3. password \in [People -> [made : Seq(Nat), old : Nat]] BY <1>2 DEF RowsProper
<1>4. /\ password' \in [People -> [made : Seq(Nat), old : Nat]]
      /\ \A q \in People : password'[q].made = password[q].made
    <2>1. PICK row : row = [password[p] EXCEPT !.old = @ + 1] OBVIOUS
    <2>2. row \in [made : Seq(Nat), old : Nat] /\ row.made = password[p].made
        <3>1. password[p] \in [made : Seq(Nat), old : Nat] BY <1>3
        <3>2. QED BY <2>1, <3>1
    <2>3. password' = [password EXCEPT ![p] = row] BY <1>1, <1>3, <2>1
    <2>4. QED BY <1>3, <2>2, <2>3
<1>5. \A q \in People : Newest(q)' = Newest(q) BY <1>4 DEF Newest
<1>6. RowsProper' BY <1>1, <1>2, <1>4, <1>5 DEF RowsProper
<1>7. ASSUME NEW l \in LetterRow, Proper(l) PROVE Proper(l)'
    <2>1. l.to \in People BY DEF LetterRow
    <2>2. QED BY <1>1, <1>5, <1>7, <2>1 DEF Proper
<1>8. \A q \in People : \A k \in LetterKinds : Live(k, q)' => Live(k, q) /\ Recorded(k, q)' = Recorded(k, q)
    <2>1. \A q \in People : \A k \in LetterKinds : Live(k, q)' => Live(k, q) BY <1>1, <1>5 DEF Live
    <2>2. \A q \in People : \A k \in LetterKinds : Recorded(k, q)' = Recorded(k, q) BY <1>1, <1>4 DEF Recorded
    <2>3. QED BY <2>1, <2>2
<1>9. date <= date' BY <1>1, <1>2, RowTypes
<1>10. QED BY <1>1, <1>6, <1>7, <1>8, <1>9, WorldStep

LEMMA MadeMatters ==
    ASSUME NEW k \in LetterKinds, NEW p, NEW rows, NEW reminded, NEW ends, NEW a, NEW b,
           k[1] = "password" => a[k[2]] = b[k[2]]
    PROVE  RecordedIn(k, p, rows, reminded, ends, a) = RecordedIn(k, p, rows, reminded, ends, b)
<1>1. CASE k[1] = "streak" BY <1>1 DEF RecordedIn
<1>2. CASE k[1] = "password" BY <1>2 DEF RecordedIn, Tells
<1>3. CASE k[1] \in {"welcome", "nudge", "expired", "notice", "daily", "prompt"} BY <1>3 DEF RecordedIn, Tells
<1>4. QED BY <1>1, <1>2, <1>3 DEF LetterKinds

\* A change of password: later than every row there is, and not yet told.
LEMMA NewPasswordKeeps == ASSUME MailInv, NEW p \in People, NewPassword(p) PROVE MailInv'
<1>1. /\ run' = run /\ log' = log /\ mailbox' = mailbox /\ doubt' = doubt /\ crowd' = crowd /\ date' = date /\ user' = user
      /\ password' = [password EXCEPT ![p].made = Append(@, Len(log))]
    BY DEF NewPassword
<1>2. RowsProper /\ MailProper BY DEF MailInv
<1>3. password \in [People -> [made : Seq(Nat), old : Nat]] BY <1>2 DEF RowsProper
<1>4. PICK made \in Seq(Nat), n \in Nat : made = password[p].made /\ n = Newest(p) /\ Len(made) = n BY <1>2, RowTypes
<1>5. PICK rows \in Nat : rows = Len(log) BY <1>2, RowTypes
<1>6. PICK made2 : made2 = Append(made, rows) OBVIOUS
<1>7. /\ made2 \in Seq(Nat) /\ Len(made2) = n + 1 /\ made2[n + 1] = rows /\ \A i \in 1..n : made2[i] = made[i]
    BY <1>4, <1>5, <1>6, AppendLen, AppendRows
<1>8. /\ password' \in [People -> [made : Seq(Nat), old : Nat]] /\ password'[p].made = made2
      /\ \A q \in People : q # p => password'[q] = password[q]
    <2>1. PICK row : row = [password[p] EXCEPT !.made = made2] OBVIOUS
    <2>2. row \in [made : Seq(Nat), old : Nat] /\ row.made = made2
        <3>1. password[p] \in [made : Seq(Nat), old : Nat] BY <1>3
        <3>2. QED BY <1>7, <2>1, <3>1
    <2>3. password' = [password EXCEPT ![p] = row] BY <1>1, <1>3, <1>4, <1>5, <1>6, <2>1
    <2>4. QED BY <1>3, <2>2, <2>3
<1>9. Newest(p)' = n + 1 /\ \A q \in People : q # p => Newest(q)' = Newest(q) BY <1>7, <1>8 DEF Newest
<1>10. RowsProper'
    <2>1. ASSUME NEW q \in People, NEW i \in 1..Newest(q)', NEW j \in 1..Newest(q)', i <= j
          PROVE  password'[q].made[i] <= password'[q].made[j] /\ password'[q].made[j] <= Len(log)
        <3>1. CASE q # p
            <4>1. i \in 1..Newest(q) /\ j \in 1..Newest(q) /\ password'[q] = password[q] BY <1>8, <1>9, <2>1, <3>1
            <4>2. QED BY <1>2, <2>1, <4>1 DEF RowsProper
        <3>2. CASE q = p
            <4>1. i \in 1..(n + 1) /\ j \in 1..(n + 1) BY <1>9, <3>2
            <4>2. \A h \in 1..n : made[h] \in Nat /\ made[h] <= rows
                <5>1. SUFFICES ASSUME NEW h \in 1..n PROVE made[h] \in Nat /\ made[h] <= rows OBVIOUS
                <5>2. h <= h OBVIOUS
                <5>3. made[h] <= rows BY <1>2, <1>4, <1>5, <5>2 DEF RowsProper
                <5>4. QED BY <1>4, <5>3
            <4>3. CASE j \in 1..n
                <5>1. i \in 1..n BY <2>1, <4>1, <4>3
                <5>2. made[i] <= made[j] BY <1>2, <1>4, <2>1, <4>3, <5>1 DEF RowsProper
                <5>3. QED BY <1>5, <1>7, <1>8, <3>2, <4>2, <4>3, <5>1, <5>2
            <4>4. CASE j = n + 1
                <5>1. made2[j] = rows BY <1>7, <4>4
                <5>2. made2[i] <= rows
                    <6>1. CASE i \in 1..n BY <1>7, <4>2, <6>1
                    <6>2. CASE i = n + 1 BY <1>7, <6>2
                    <6>3. QED BY <4>1, <6>1, <6>2
                <5>3. QED BY <1>5, <1>8, <3>2, <5>1, <5>2
            <4>5. QED BY <4>1, <4>3, <4>4
        <3>3. QED BY <3>1, <3>2
    <2>2. QED BY <1>1, <1>2, <1>8, <2>1 DEF RowsProper
<1>11. ASSUME NEW l \in LetterRow, Proper(l) PROVE Proper(l)'
    <2>1. l.to \in People BY DEF LetterRow
    <2>2. l.type = "PASSWORD" => l.from = "job" /\ l.tag \in 0..Newest(l.to)' BY <1>4, <1>9, <1>11, <2>1 DEF Proper
    <2>3. l.type = "EXPIRED" => user'[l.to].ends <= date' BY <1>1, <1>11 DEF Proper
    <2>4. QED BY <2>2, <2>3 DEF Proper
<1>12. ASSUME NEW q \in People, NEW k \in LetterKinds, Live(k, q)'
       PROVE  (Live(k, q) /\ Recorded(k, q)' = Recorded(k, q)) \/ Arrived(k, q) = {}
    <2>1. CASE k[1] # "password"
        <3>1. Live(k, q) BY <1>1, <1>12, <2>1 DEF Live
        <3>2. Recorded(k, q)' = Recorded(k, q)
            <4>1. Recorded(k, q)' = RecordedIn(k, q, log, user[q].reminded, user[q].ends, password'[q].made)
                BY <1>1 DEF Recorded
            <4>2. QED BY <2>1, <4>1, MadeMatters DEF Recorded
        <3>3. QED BY <3>1, <3>2
    <2>2. CASE k[1] = "password" /\ q # p
        <3>1. Live(k, q) BY <1>9, <1>12, <2>2 DEF Live
        <3>2. Recorded(k, q)' = Recorded(k, q) BY <1>1, <1>8, <2>2 DEF Recorded
        <3>3. QED BY <3>1, <3>2
    <2>3. CASE k[1] = "password" /\ q = p /\ k[2] # n + 1
        <3>1. k[2] \in 1..n BY <1>9, <1>12, <2>3 DEF Live
        <3>2. Live(k, q) BY <1>4, <2>3, <3>1 DEF Live
        <3>3. made2[k[2]] = made[k[2]] BY <1>7, <3>1
        <3>4. Recorded(k, q)' = RecordedIn(k, q, log, user[q].reminded, user[q].ends, made2)
            BY <1>1, <1>8, <2>3 DEF Recorded
        <3>5. Recorded(k, q)' = Recorded(k, q) BY <1>4, <2>3, <3>3, <3>4, MadeMatters DEF Recorded
        <3>6. QED BY <3>2, <3>5
    <2>4. CASE k[1] = "password" /\ q = p /\ k[2] = n + 1
        <3>1. ASSUME NEW i \in Arrived(k, q) PROVE FALSE
            <4>1. /\ i \in 1..Len(mailbox) /\ mailbox[i].letter.to = p /\ mailbox[i].letter.type = "PASSWORD"
                  /\ mailbox[i].letter.tag = n + 1
                BY <2>4, <3>1 DEF Arrived, Counted
            <4>2. Proper(mailbox[i].letter) BY <1>2, <4>1 DEF MailProper
            <4>3. n + 1 \in 0..n BY <1>4, <4>1, <4>2 DEF Proper
            <4>4. QED BY <4>3
        <3>2. QED BY <3>1
    <2>5. QED BY <2>1, <2>2, <2>3, <2>4
<1>13. date <= date' BY <1>1, <1>2, RowTypes
<1>14. QED BY <1>1, <1>10, <1>11, <1>12, <1>13, WorldStep

\* A day that has not come, or a change not made, is one of which nobody has had a letter.
LEMMA NotYet ==
    ASSUME RowsProper, MailProper, NEW p \in People, NEW k \in LetterKinds,
           \/ k[1] \in {"daily", "streak", "prompt"} /\ date < k[2]
           \/ k[1] = "password" /\ k[2] > Newest(p)
    PROVE  Arrived(k, p) = {}
<1>1. SUFFICES ASSUME NEW i \in Arrived(k, p) PROVE FALSE OBVIOUS
<1>2. /\ i \in 1..Len(mailbox) /\ mailbox[i].letter.to = p /\ Counted(k, mailbox[i]) BY <1>1 DEF Arrived
<1>3. mailbox \in Seq(MessageRow) BY DEF MailProper
<1>4. PICK m \in MessageRow : m = mailbox[i] BY <1>2, <1>3
<1>5. m.day \in Nat /\ m.day <= date /\ Proper(m.letter) BY <1>2, <1>4 DEF MessageRow, MailProper
<1>6. date \in Nat /\ Newest(p) \in Nat /\ k[2] \in Nat BY RowTypes DEF LetterKinds
<1>7. CASE k[1] \in {"daily", "streak", "prompt"} /\ date < k[2]
    <2>1. CASE k[1] \in {"daily", "streak"}
        <3>1. m.day = k[2] BY <1>2, <1>4, <2>1 DEF Counted
        <3>2. QED BY <1>5, <1>6, <1>7, <3>1
    <2>2. CASE k[1] = "prompt"
        <3>1. m.day \in k[2]..(k[2] + PromptCooldown) BY <1>2, <1>4, <2>2 DEF Counted
        <3>2. k[2] <= m.day BY <3>1
        <3>3. QED BY <1>5, <1>6, <1>7, <3>2
    <2>3. QED BY <1>7, <2>1, <2>2
<1>8. CASE k[1] = "password" /\ k[2] > Newest(p)
    <2>1. m.letter.type = "PASSWORD" /\ m.letter.tag = k[2] BY <1>2, <1>4, <1>8 DEF Counted
    <2>2. k[2] \in 0..Newest(p) BY <1>2, <1>4, <1>5, <2>1 DEF Proper
    <2>3. QED BY <1>6, <1>8, <2>2
<1>9. QED BY <1>7, <1>8

LEMMA NextDayKeeps == ASSUME MailInv, NextDay PROVE MailInv'
<1>1. /\ run' = run /\ log' = log /\ mailbox' = mailbox /\ doubt' = doubt /\ crowd' = crowd /\ user' = user
      /\ password' = password /\ date' = date + 1
    BY DEF NextDay
<1>2. RowsProper /\ MailProper BY DEF MailInv
<1>3. date \in Nat /\ date <= date' /\ date' \in Nat BY <1>1, <1>2, RowTypes
<1>4. RowsProper'
    <2>1. \A p \in People : user[p].reminded <= date'
        <3>1. \A p \in People : user[p].reminded \in Nat /\ user[p].reminded <= date BY <1>2, RowTypes DEF RowsProper
        <3>2. QED BY <1>1, <1>3, <3>1
    <2>2. \A p \in People : Newest(p)' = Newest(p) BY <1>1 DEF Newest
    <2>3. QED BY <1>1, <1>2, <1>3, <2>1, <2>2 DEF RowsProper
<1>5. ASSUME NEW l \in LetterRow, Proper(l) PROVE Proper(l)'
    <2>1. l.to \in People BY DEF LetterRow
    <2>2. user[l.to].ends \in Nat BY <1>2, <2>1, RowTypes
    <2>3. l.type = "PASSWORD" => l.from = "job" /\ l.tag \in 0..Newest(l.to)' BY <1>1, <1>5 DEF Proper, Newest
    <2>4. l.type = "EXPIRED" => user'[l.to].ends <= date' BY <1>1, <1>3, <1>5, <2>2 DEF Proper
    <2>5. QED BY <2>3, <2>4 DEF Proper
<1>6. ASSUME NEW p \in People, NEW k \in LetterKinds, Live(k, p)'
      PROVE  (Live(k, p) /\ Recorded(k, p)' = Recorded(k, p)) \/ Arrived(k, p) = {}
    <2>1. Recorded(k, p)' = Recorded(k, p) BY <1>1 DEF Recorded
    <2>2. k[1] = "password" => k[2] \in 1..Newest(p) BY <1>1, <1>6 DEF Live, Newest
    <2>3. CASE k[1] \in {"daily", "streak", "prompt"} /\ ~(k[2] <= date)
        <3>1. k[2] \in Nat BY <2>3 DEF LetterKinds
        <3>2. date < k[2] BY <1>3, <2>3, <3>1
        <3>3. QED BY <1>2, <2>3, <3>2, NotYet
    <2>4. CASE k[1] \in {"daily", "streak", "prompt"} => k[2] <= date BY <2>1, <2>2, <2>4 DEF Live
    <2>5. QED BY <2>3, <2>4
<1>7. QED BY <1>1, <1>3, <1>4, <1>5, <1>6, WorldStep

LEMMA SwitchKeeps == ASSUME MailInv, SwitchMail \/ UNCHANGED mailVars PROVE MailInv'
<1>1. /\ run' = run /\ log' = log /\ mailbox' = mailbox /\ doubt' = doubt /\ crowd' = crowd /\ user' = user
      /\ password' = password /\ date' = date
    BY DEF SwitchMail, mailVars
<1>2. RowsProper BY DEF MailInv
<1>3. RowsProper' BY <1>1, <1>2, RowsKept
<1>4. \A l \in LetterRow : Proper(l) => Proper(l)' BY <1>1 DEF Proper, Newest
<1>5. \A p \in People : \A k \in LetterKinds : Live(k, p)' => Live(k, p) /\ Recorded(k, p)' = Recorded(k, p)
    BY <1>1 DEF Live, Newest, Recorded
<1>6. date <= date' BY <1>1, <1>2, RowTypes
<1>7. QED BY <1>1, <1>3, <1>4, <1>5, <1>6, WorldStep

LEMMA MailStarts == ASSUME MailInit PROVE MailInv
<1>1. /\ date = 1 /\ log = <<>> /\ mailbox = <<>> /\ crowd = 0 /\ run = [r \in Runs |-> NoRun]
      /\ password = [p \in People |-> [made |-> <<>>, old |-> 0]]
      /\ user \in [People -> [able: {TRUE}, member: BOOLEAN, muted: BOOLEAN, tried: BOOLEAN, done: {0},
                              born: {0, 1}, lastSeen: {0}, reminded: {0}, ends: {1}, fewMarks: BOOLEAN,
                              medic: BOOLEAN]]
    BY DEF MailInit
<1>2. /\ log \in Seq(EntryRow) /\ mailbox \in Seq(MessageRow) /\ <<>> \in Seq(Nat) /\ Len(log) = 0 /\ Len(mailbox) = 0
      /\ \A p \in People : Newest(p) = 0
    BY <1>1, EmptySeq DEF Newest
<1>3. RowsProper
    <2>1. user \in [People -> UserRow] /\ \A p \in People : user[p].reminded <= date
        <3>1. ASSUME NEW p \in People PROVE user[p] \in UserRow /\ user[p].reminded <= date
            <4>1. user[p] \in [able: {TRUE}, member: BOOLEAN, muted: BOOLEAN, tried: BOOLEAN, done: {0},
                               born: {0, 1}, lastSeen: {0}, reminded: {0}, ends: {1}, fewMarks: BOOLEAN,
                               medic: BOOLEAN]
                BY <1>1
            <4>2. user[p].reminded = 0 BY <4>1
            <4>3. PICK u \in [able: {TRUE}, member: BOOLEAN, muted: BOOLEAN, tried: BOOLEAN, done: {0},
                               born: {0, 1}, lastSeen: {0}, reminded: {0}, ends: {1}, fewMarks: BOOLEAN,
                               medic: BOOLEAN] :
                      u = user[p]
                BY <4>1
            <4>4. /\ u.able \in BOOLEAN /\ u.member \in BOOLEAN /\ u.muted \in BOOLEAN /\ u.tried \in BOOLEAN
                  /\ u.fewMarks \in BOOLEAN /\ u.medic \in BOOLEAN
                BY Zenon
            <4>5. u.done \in Nat /\ u.born \in Nat /\ u.lastSeen \in Nat /\ u.reminded \in Nat /\ u.ends \in Nat
                OBVIOUS
            <4>6. u = [able |-> u.able, member |-> u.member, muted |-> u.muted, tried |-> u.tried, done |-> u.done,
                       born |-> u.born, lastSeen |-> u.lastSeen, reminded |-> u.reminded, ends |-> u.ends,
                       fewMarks |-> u.fewMarks, medic |-> u.medic]
                OBVIOUS
            <4>7. u \in UserRow BY <4>4, <4>5, <4>6 DEF UserRow
            <4>8. QED BY <1>1, <4>2, <4>3, <4>7
        <3>2. QED BY <1>1, <3>1
    <2>2. password \in [People -> [made : Seq(Nat), old : Nat]] BY <1>1, <1>2
    <2>3. \A p \in People : 1..Newest(p) = {} BY <1>2
    <2>4. QED BY <1>1, <1>2, <2>1, <2>2, <2>3 DEF RowsProper
<1>4. run \in [Runs -> RunRow] /\ \A r \in Runs : run[r] = NoRun /\ run[r].at = "idle" BY <1>1, RowRests
<1>5. RunsProper
    <2>1. ASSUME NEW r \in Runs PROVE Sound(run[r]) /\ Timely(run[r])
        <3>1. NoRun.now <= date /\ DOMAIN NoRun.todo = {} /\ Sound(NoRun) BY <1>1, RowRests
        <3>2. QED BY <1>4, <3>1 DEF Timely
    <2>2. QED BY <1>4, <2>1 DEF RunsProper
<1>6. MailProper
    <2>1. 1..Len(mailbox) = {} BY <1>2
    <2>2. QED BY <1>2, <2>1 DEF MailProper
<1>7. CrowdProper
    <2>1. Active = {} BY <1>4 DEF Active
    <2>2. Cardinality(Active) = 0 BY <2>1, FS_EmptySet
    <2>3. QED BY <1>1, <2>2 DEF CrowdProper
<1>8. ASSUME NEW p \in People, NEW k \in LetterKinds PROVE Rationed(k, p)
    <2>1. Arrived(k, p) = {}
        <3>1. 1..Len(mailbox) = {} BY <1>2
        <3>2. QED BY <3>1 DEF Arrived
    <2>2. Cardinality(Arrived(k, p)) = 0 BY <2>1, FS_EmptySet
    <2>3. IsFiniteSet(Recorded(k, p)) BY <1>2, RecordedFinite DEF Recorded
    <2>4. PICK level \in Nat : level = Cardinality(Recorded(k, p)) BY <2>3, FS_CardinalityType
    <2>5. AllSound(run) /\ crowd \in Nat /\ Cardinality({r \in Runs : run[r].at # "idle"}) <= crowd
        BY <1>5, <1>7, RunTypes DEF CrowdProper, Active
    <2>6. Fair(0, level, Limit(k), Cardinality(Sending(k, p)), Cardinality(Recording(k, p)), crowd)
        BY <2>5, NoneArrived DEF Sending, Recording
    <2>7. QED BY <2>2, <2>4, <2>6 DEF Rationed
<1>9. AllRationed BY <1>8 DEF AllRationed
<1>10. QED BY <1>3, <1>5, <1>6, <1>7, <1>9 DEF MailInv

\* What the runs of jobs and scripts hold, owe and have sent agrees with the log and the
\* users, kind of letter by kind, whatever the providers, the log and the processes do
\* (marketing-campaigns.ts, subscription-expiry-alerts.ts, email-reminders.ts, password alerts
\* and the broadcast scripts): a run goes on only with a letter whose kind is not used up,
\* and until it is recorded the run owes its record.
THEOREM MailHolds == MailSpec => []MailInv
<1>1. MailInit => MailInv BY MailStarts
<1>2. MailInv /\ [MailNext]_mailVars => MailInv'
    <2>1. ASSUME MailInv, [MailNext]_mailVars PROVE MailInv'
        <3>1. ASSUME NEW r \in Runs, RunSteps(r) \/ \E j \in MailJobs : StartRun(r, j) PROVE MailInv'
            BY <2>1, <3>1, RunStepKeeps, StartKeeps
        <3>2. ASSUME NEW p \in People, \/ TakeExam(p) \/ ToggleMuted(p) \/ EndMembership(p)
                                       \/ NewPassword(p) \/ ChangeGrowsOld(p)
              PROVE  MailInv'
            BY <2>1, <3>2, PeopleKeep, NewPasswordKeeps, OldKeeps
        <3>3. CASE SwitchMail \/ UNCHANGED mailVars BY <2>1, <3>3, SwitchKeeps
        <3>4. CASE NextDay BY <2>1, <3>4, NextDayKeeps
        <3>5. QED BY <2>1, <3>1, <3>2, <3>3, <3>4 DEF MailNext
    <2>2. QED BY <2>1
<1>3. QED BY <1>1, <1>2, PTL DEF MailSpec

LEMMA KindsRationed ==
    ASSUME MailInv, NEW p \in People \ doubt, NEW k \in LetterKinds, k[1] = "password" => k[2] # 0
    PROVE  Cardinality(Arrived(k, p)) <= Limit(k) - 1 + crowd
<1>1. RowsProper /\ RunsProper /\ MailProper /\ CrowdProper /\ AllRationed BY DEF MailInv
<1>2. PICK most \in Nat, limit \in Nat \ {0} : most = crowd /\ limit = Limit(k) BY <1>1, LimitType DEF CrowdProper
<1>3. CASE Live(k, p)
    <2>1. Rationed(k, p) BY <1>1, <1>3 DEF AllRationed
    <2>2. Len(mailbox) \in Nat /\ log \in Seq(EntryRow) BY <1>1, LenProperties, RowTypes DEF MailProper
    <2>3. PICK n \in Nat : n = Cardinality(Arrived(k, p)) BY <2>2, ArrivedCounted, Zenon DEF Arrived
    <2>4. IsFiniteSet(Recorded(k, p)) BY <2>2, RecordedFinite DEF Recorded
    <2>5. PICK level \in Nat : level = Cardinality(Recorded(k, p)) BY <2>4, FS_CardinalityType
    <2>6. Sending(k, p) \in SUBSET Runs /\ Recording(k, p) \in SUBSET Runs BY DEF Sending, Recording
    <2>7. PICK sending \in Nat, recording \in Nat :
              sending = Cardinality(Sending(k, p)) /\ recording = Cardinality(Recording(k, p))
        BY <2>6, RunsCounted
    <2>8. Fair(n, level, limit, sending, recording, most) BY <1>2, <2>1, <2>3, <2>5, <2>7 DEF Rationed
    <2>9. n <= limit - 1 + most BY <2>8, FairMeans
    <2>10. QED BY <1>2, <2>3, <2>9
<1>4. CASE ~Live(k, p)
    <2>1. date \in Nat /\ Newest(p) \in Nat /\ k[2] \in Nat BY <1>1, RowTypes DEF LetterKinds
    <2>2. \/ k[1] \in {"daily", "streak", "prompt"} /\ date < k[2]
          \/ k[1] = "password" /\ k[2] > Newest(p)
        BY <1>4, <2>1 DEF Live
    <2>3. Arrived(k, p) = {} BY <1>1, <2>2, NotYet
    <2>4. Cardinality(Arrived(k, p)) = 0 BY <2>3, FS_EmptySet
    <2>5. QED BY <1>2, <2>4
<1>5. QED BY <1>3, <1>4

\* Nobody whose letters are all on record gets more of a kind than its limit and one for
\* every further process (hasReceivedMarketingEmailToday and the log queries of the jobs).
THEOREM OutreachStaysRationed == MailSpec => []OutreachRationed
<1>1. MailInv => OutreachRationed
    <2>1. SUFFICES ASSUME MailInv PROVE OutreachRationed OBVIOUS
    <2>2. crowd \in Nat BY <2>1 DEF MailInv, CrowdProper
    <2>3. ASSUME NEW p \in People \ doubt
          PROVE  /\ Received(p, LAMBDA m : IsCampaign(m.letter) /\ m.letter.type = "WELCOME") <= crowd
                 /\ Received(p, LAMBDA m : IsCampaign(m.letter) /\ m.letter.type = "NUDGE") <= MaxNudges - 1 + crowd
                 /\ Received(p, LAMBDA m : m.letter.type = "EXPIRED") <= crowd
                 /\ Received(p, LAMBDA m : m.letter.from = "script" /\ m.letter.tag = 17) <= crowd
        <3>1. /\ Received(p, LAMBDA m : IsCampaign(m.letter) /\ m.letter.type = "WELCOME")
                 = Cardinality(Arrived(<<"welcome", 0>>, p))
              /\ Received(p, LAMBDA m : IsCampaign(m.letter) /\ m.letter.type = "NUDGE")
                 = Cardinality(Arrived(<<"nudge", 0>>, p))
              /\ Received(p, LAMBDA m : m.letter.type = "EXPIRED") = Cardinality(Arrived(<<"expired", 0>>, p))
              /\ Received(p, LAMBDA m : m.letter.from = "script" /\ m.letter.tag = 17)
                 = Cardinality(Arrived(<<"notice", 0>>, p))
            BY DEF Received, Arrived, Counted
        <3>2. /\ Limit(<<"welcome", 0>>) = 1 /\ Limit(<<"nudge", 0>>) = MaxNudges /\ Limit(<<"expired", 0>>) = 1
              /\ Limit(<<"notice", 0>>) = 1
            BY DEF Limit
        <3>3. <<"welcome", 0>> \in LetterKinds /\ <<"nudge", 0>> \in LetterKinds /\ <<"expired", 0>> \in LetterKinds
              /\ <<"notice", 0>> \in LetterKinds
            BY DEF LetterKinds
        <3>4. /\ Cardinality(Arrived(<<"welcome", 0>>, p)) <= 1 - 1 + crowd
              /\ Cardinality(Arrived(<<"nudge", 0>>, p)) <= MaxNudges - 1 + crowd
              /\ Cardinality(Arrived(<<"expired", 0>>, p)) <= 1 - 1 + crowd
              /\ Cardinality(Arrived(<<"notice", 0>>, p)) <= 1 - 1 + crowd
            BY <2>1, <3>2, <3>3, KindsRationed
        <3>5. QED BY <2>2, <3>1, <3>4
    <2>4. ASSUME NEW p \in People \ doubt, NEW d \in 1..MaxDate
          PROVE  /\ Received(p, LAMBDA m : IsCampaign(m.letter) /\ m.day = d) <= crowd
                 /\ Received(p, LAMBDA m : m.letter.type = "STREAK" /\ m.day = d) <= crowd
                 /\ Received(p, LAMBDA m : /\ m.letter.from = "job" /\ m.letter.type = "PROMPT"
                                           /\ m.day \in d..(d + PromptCooldown)) <= crowd
        <3>1. /\ Received(p, LAMBDA m : IsCampaign(m.letter) /\ m.day = d) = Cardinality(Arrived(<<"daily", d>>, p))
              /\ Received(p, LAMBDA m : m.letter.type = "STREAK" /\ m.day = d) = Cardinality(Arrived(<<"streak", d>>, p))
              /\ Received(p, LAMBDA m : /\ m.letter.from = "job" /\ m.letter.type = "PROMPT"
                                        /\ m.day \in d..(d + PromptCooldown))
                 = Cardinality(Arrived(<<"prompt", d>>, p))
            BY DEF Received, Arrived, Counted
        <3>2. Limit(<<"daily", d>>) = 1 /\ Limit(<<"streak", d>>) = 1 /\ Limit(<<"prompt", d>>) = 1 BY DEF Limit
        <3>3. d \in Nat BY MailConstants
        <3>4. <<"daily", d>> \in LetterKinds /\ <<"streak", d>> \in LetterKinds /\ <<"prompt", d>> \in LetterKinds
            BY <3>3 DEF LetterKinds
        <3>5. /\ Cardinality(Arrived(<<"daily", d>>, p)) <= 1 - 1 + crowd
              /\ Cardinality(Arrived(<<"streak", d>>, p)) <= 1 - 1 + crowd
              /\ Cardinality(Arrived(<<"prompt", d>>, p)) <= 1 - 1 + crowd
            BY <2>1, <3>2, <3>4, KindsRationed
        <3>6. QED BY <2>2, <3>1, <3>5
    <2>5. ASSUME NEW p \in People \ doubt, NEW n \in 1..MaxChanges
          PROVE  Received(p, LAMBDA m : m.letter.type = "PASSWORD" /\ m.letter.tag = n) <= crowd
        <3>1. Received(p, LAMBDA m : m.letter.type = "PASSWORD" /\ m.letter.tag = n)
              = Cardinality(Arrived(<<"password", n>>, p))
            BY DEF Received, Arrived, Counted
        <3>2. Limit(<<"password", n>>) = 1 BY DEF Limit
        <3>3. <<"password", n>> \in LetterKinds /\ n # 0 BY MailConstants DEF LetterKinds
        <3>4. Cardinality(Arrived(<<"password", n>>, p)) <= 1 - 1 + crowd BY <2>1, <3>2, <3>3, KindsRationed
        <3>5. QED BY <2>2, <3>1, <3>4
    <2>6. CampaignsRationed BY <2>3, <2>4, Zenon DEF CampaignsRationed
    <2>7. RemindersRationed BY <2>3, <2>4, <2>5, Zenon DEF RemindersRationed
    <2>8. QED BY <2>6, <2>7 DEF OutreachRationed
<1>2. QED BY <1>1, MailHolds, PTL
=============================================================================

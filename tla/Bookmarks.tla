----------------------------- MODULE Bookmarks -----------------------------
(***************************************************************************)
(* A student's bookmarks: saving one, saving the questions flagged in an   *)
(* exam, removing one, the limit of free and premium accounts, expiry and  *)
(* the job that deletes what has expired.                                  *)
(*                                                                         *)
(* A save locks the student's row before it counts; removals and the job   *)
(* do not.  Notes, listings and the exam a bookmark came from are left     *)
(* out; a day is the unit of time.                                         *)
(***************************************************************************)
EXTENDS Integers, FiniteSets, Sequences

CONSTANTS
    Savers,        \* requests of the student
    Items,         \* questions
    Flagged,       \* sequences of questions that may be flagged in an exam
    FreeMax,       \* FREE_USER_MAX_BOOKMARKS
    PremiumMax,    \* PREMIUM_USER_MAX_BOOKMARKS
    Lifetime,      \* days until a bookmark expires
    SweepBatch, SweepBatches,   \* EXPIRY_CLEANUP_BATCH_SIZE and EXPIRY_CLEANUP_MAX_BATCHES
    LastDay        \* bound of the model

Unheld == "unlocked"

ASSUME BookmarksAssumption ==
    /\ IsFiniteSet(Items) /\ Unheld \notin Savers
    /\ {FreeMax, PremiumMax, Lifetime, SweepBatches, LastDay} \subseteq Nat /\ SweepBatch \in Nat \ {0}

VARIABLES
    day,        \* the day it is
    member,     \* User.isPremium
    expiry,     \* BookmarkedQuestion: the day a question's bookmark expires, 0 without a bookmark
    saver,      \* the saves under way
    rowHeld,    \* who holds the lock on the student's row
    cleanup       \* the clean-up job: its cutoff and the batches left

markVars == <<day, member, expiry, saver, rowHeld, cleanup>>

NoSave == [step |-> "idle"]
NoCleanUp == [cutoff |-> 0, left |-> 0]

MarkInit ==
    /\ day = 1 /\ member \in BOOLEAN
    /\ expiry = [i \in Items |-> 0]
    /\ saver = [r \in Savers |-> NoSave] /\ rowHeld = Unheld /\ cleanup = NoCleanUp

Saved == {i \in Items : expiry[i] # 0}
ActiveOn(d) == {i \in Saved : expiry[i] > d}
Min_(a, b) == IF a < b THEN a ELSE b
LimitOf(premium) == IF premium THEN PremiumMax ELSE FreeMax

\* createBookmark and createBulkBookmarksFromExam: the date is taken before the lock.
StartSave(r, items, bulk) ==
    /\ saver[r] = NoSave
    /\ saver' = [saver EXCEPT ![r] = [step |-> "lock", items |-> items, bulk |-> bulk, now |-> day,
                                     premium |-> FALSE, chosen |-> {}]]
    /\ UNCHANGED <<day, member, expiry, rowHeld, cleanup>>

\* A mistake of the kind BookmarksRationed excludes: the student's row is not locked.
SkipLock(r) ==
    /\ saver[r].step = "lock"
    /\ saver' = [saver EXCEPT ![r] = [@ EXCEPT !.step = "count", !.premium = member]]
    /\ UNCHANGED <<day, member, expiry, rowHeld, cleanup>>

\* SELECT ... FOR UPDATE and the read of isPremium.
LockStudent(r) ==
    /\ saver[r].step = "lock" /\ rowHeld = Unheld
    /\ rowHeld' = r
    /\ saver' = [saver EXCEPT ![r] = [@ EXCEPT !.step = "count", !.premium = member]]
    /\ UNCHANGED <<day, member, expiry, cleanup>>

Release_(r) == rowHeld' = IF rowHeld = r THEN Unheld ELSE rowHeld

\* The purge, the search for duplicates and the count; refusals roll the purge back.
CountSaved(r) ==
    LET s == saver[r]
        kept == {i \in Saved : expiry[i] > s.now}
        room == LimitOf(s.premium) - Cardinality(ActiveOn(day))
        new == SelectSeq(s.items, LAMBDA i : i \notin kept)
        chosen == {new[k] : k \in (1..room) \cap DOMAIN new}
    IN
    /\ s.step = "count"
    /\ IF ~s.bulk /\ chosen = {}
       THEN saver' = [saver EXCEPT ![r] = NoSave] /\ Release_(r)
       ELSE saver' = [saver EXCEPT ![r] = [@ EXCEPT !.step = "insert", !.chosen = chosen]] /\ UNCHANGED rowHeld
    /\ UNCHANGED <<day, member, expiry, cleanup>>

\* create or createMany with skipDuplicates, and the commit.
InsertSaved(r) ==
    LET s == saver[r] IN
    /\ s.step = "insert"
    /\ expiry' = [i \in Items |->
           IF expiry[i] > s.now THEN expiry[i] ELSE IF i \in s.chosen THEN s.now + Lifetime ELSE 0]
    /\ saver' = [saver EXCEPT ![r] = NoSave] /\ Release_(r)
    /\ UNCHANGED <<day, member, cleanup>>

\* deleteBookmark.
RemoveMark(i) ==
    /\ i \in Saved
    /\ expiry' = [expiry EXCEPT ![i] = 0]
    /\ UNCHANGED <<day, member, saver, rowHeld, cleanup>>

\* Premium begins or ends: an update of the row a save locks.
ChangeTier ==
    /\ rowHeld = Unheld
    /\ member' = ~member
    /\ UNCHANGED <<day, expiry, saver, rowHeld, cleanup>>

\* runExpiredBookmarkCleanup: the cutoff is taken once, batches go oldest first.
StartSweep ==
    /\ cleanup.left = 0
    /\ cleanup' = [cutoff |-> day, left |-> SweepBatches]
    /\ UNCHANGED <<day, member, expiry, saver, rowHeld>>

SweepBatch_ ==
    LET expired == {i \in Saved : expiry[i] <= cleanup.cutoff} IN
    /\ cleanup.left > 0
    /\ \E gone \in SUBSET expired :
          /\ Cardinality(gone) = Min_(Cardinality(expired), SweepBatch)
          /\ \A i \in gone, j \in expired \ gone : expiry[i] <= expiry[j]
          /\ expiry' = [i \in Items |-> IF i \in gone THEN 0 ELSE expiry[i]]
          /\ cleanup' = IF Cardinality(gone) < SweepBatch THEN NoCleanUp ELSE [cleanup EXCEPT !.left = @ - 1]
    /\ UNCHANGED <<day, member, saver, rowHeld>>

PassDay ==
    /\ day < LastDay
    /\ day' = day + 1
    /\ UNCHANGED <<member, expiry, saver, rowHeld, cleanup>>

MarkSteps ==
    \/ \E r \in Savers : \/ \E i \in Items : StartSave(r, <<i>>, FALSE)
                         \/ \E items \in Flagged : StartSave(r, items, TRUE)
                         \/ LockStudent(r) \/ CountSaved(r) \/ InsertSaved(r)
    \/ \E i \in Items : RemoveMark(i)
    \/ ChangeTier \/ StartSweep \/ SweepBatch_ \/ PassDay

MarkSpec == MarkInit /\ [][MarkSteps]_markVars

\* Whatever saves, removals, clean-ups and changes of tier cross, the bookmarks that have not expired
\* grow only within the limit of the tier the student has at that moment: a premium student who lapsed
\* keeps the surplus and adds nothing to it; and only the student takes an unexpired bookmark away.
BookmarksRationed ==
    [][/\ ActiveOn(day)' \ ActiveOn(day) # {} => Cardinality(ActiveOn(day)') <= LimitOf(member)
       /\ \A i \in ActiveOn(day) : expiry'[i] = expiry[i] \/ (expiry'[i] = 0 /\ RemoveMark(i)) ]_markVars

=============================================================================

--------------------------- MODULE ServicesProofs ---------------------------
(***************************************************************************)
(* What holds of the services whatever the constants: decisions on a       *)
(* report stand, the free pool and imported pictures are guarded,          *)
(* bookmarks stay rationed, a push says what is stored and a preference    *)
(* stays what somebody asked for, the newest connection keeps the lease,   *)
(* and session events arrive once and in order.                            *)
(***************************************************************************)
EXTENDS Reports, QuestionBank, Bookmarks, Notifications, Realtime,
        FiniteSetTheorems, FunctionTheorems, SequenceTheorems, WellFoundedInduction, TLAPS

----------------------------------------------------------------------------
(* Reports.  A request that is about to write remembers how many decisions *)
(* it had seen and the status the last of them left; the row with its id   *)
(* has only been decided on since.                                         *)
Decisions == {"REVIEWED", "RESOLVED"}
ReportRows == [status : {"PENDING"} \cup Decisions, id : Nat \ {0}, reviewed : BOOLEAN,
               reviewedBy : Reviewers \cup {"nobody"}, resolvedBy : Reviewers \cup {"nobody"}]
Writing == [step : {"write"}, seen : ReportRows, next : Decisions, known : Nat]
Entries == [status : Decisions, by : Reviewers, known : Nat]

ReportTypes ==
    /\ report \in ReportRows \cup {NoReport} /\ trail \in Seq(Entries)
    /\ told \in SUBSET Decisions /\ withdrawn \in Nat /\ filed \in Nat /\ author \in [id : Nat, known : Nat]
    /\ reviewer \in [Reviewers -> Writing \cup {Idle_}]

\* A request saw a report filed by then, neither resolved nor what it is to become, ...
SawOpen(w) == w.seen.id <= filed /\ w.seen.status \notin {"RESOLVED", w.next}
\* ... and if that report is still there, the decisions it had seen are still the first of its trail.
Remembers(w) ==
    report # NoReport /\ report.id = w.seen.id =>
        w.known <= Len(trail) /\ (w.known # 0 => trail[w.known].status = w.seen.status)

ReportInv ==
    /\ ReportTypes
    /\ report # NoReport => report.id <= filed
    /\ author.known = 0
    /\ \A a \in Reviewers : reviewer[a] # Idle_ => SawOpen(reviewer[a]) /\ Remembers(reviewer[a])
    /\ DecisionsStand

LEMMA ReportsBegin == ReportInit => ReportInv
  <1> SUFFICES ASSUME ReportInit PROVE ReportInv
    OBVIOUS
  <1> USE DEF ReportInit, NoWish
  <1>1. trail \in Seq(Entries) /\ DOMAIN trail = {}
    BY EmptySeq
  <1>2. ReportTypes
    BY <1>1 DEF ReportTypes
  <1>3. DecisionsStand
    BY <1>1 DEF DecisionsStand
  <1> QED BY <1>2, <1>3 DEF ReportInv

\* Filing begins a new row, which nobody has read, and a new trail; deleting by a superadmin ends both.
LEMMA FilingStands ==
    ASSUME ReportInv, FileReport \/ HardDelete
    PROVE  ReportInv'
  <1>1. trail' = <<>> /\ told' = {} /\ withdrawn' = 0 /\ reviewer' = reviewer /\ author' = author
    BY DEF FileReport, HardDelete
  <1>2. trail' \in Seq(Entries) /\ DOMAIN trail' = {}
    BY <1>1, EmptySeq
  <1>3. filed \in Nat /\ filed + 1 \in Nat \ {0}
    BY DEF ReportInv, ReportTypes
  <1>4. \/ report' = NoReport /\ filed' = filed
        \/ /\ report' = [status |-> "PENDING", id |-> filed + 1, reviewed |-> FALSE,
                         reviewedBy |-> "nobody", resolvedBy |-> "nobody"]
           /\ filed' = filed + 1
    BY DEF FileReport, HardDelete
  <1>5. [status |-> "PENDING", id |-> filed + 1, reviewed |-> FALSE, reviewedBy |-> "nobody",
         resolvedBy |-> "nobody"] \in ReportRows
    BY <1>3 DEF ReportRows
  <1>6. /\ report' \in ReportRows \cup {NoReport} /\ filed' \in Nat /\ filed <= filed'
        /\ report' # NoReport => report'.status = "PENDING" /\ report'.id = filed' /\ filed' = filed + 1
    <2>1. CASE report' = NoReport /\ filed' = filed
      BY <1>3, <2>1
    <2> DEFINE new == [status |-> "PENDING", id |-> filed + 1, reviewed |-> FALSE, reviewedBy |-> "nobody",
                       resolvedBy |-> "nobody"]
    <2>2. CASE report' = new /\ filed' = filed + 1
      <3>1. new \in ReportRows /\ new.status = "PENDING" /\ new.id = filed + 1
        BY <1>5
      <3> HIDE DEF new
      <3> QED BY <1>3, <2>2, <3>1
    <2> QED BY <1>4, <2>1, <2>2
  <1>7. ReportTypes'
    BY <1>1, <1>2, <1>6 DEF ReportInv, ReportTypes
  <1>8. DecisionsStand'
    BY <1>1, <1>2, <1>6 DEF DecisionsStand
  <1>9. ASSUME NEW a \in Reviewers, reviewer'[a] # Idle_
        PROVE  SawOpen(reviewer[a])' /\ Remembers(reviewer[a])'
    <2>1. reviewer[a] \in Writing /\ SawOpen(reviewer[a])
      BY <1>1, <1>9 DEF ReportInv, ReportTypes
    <2>2. reviewer[a].seen.id \in Nat
      BY <2>1 DEF Writing, ReportRows
    <2>3. reviewer'[a].seen.id <= filed' /\ (report' # NoReport => report'.id # reviewer'[a].seen.id)
      BY <1>1, <1>3, <1>6, <2>1, <2>2 DEF SawOpen
    <2> QED BY <1>1, <2>1, <2>3 DEF SawOpen, Remembers
  <1>10. report' # NoReport => report'.id <= filed'
    BY <1>6
  <1> QED BY <1>1, <1>7, <1>8, <1>9, <1>10 DEF ReportInv

\* What is read writes nothing of the report, and remembers where its trail ends.
LEMMA ReadingStands ==
    ASSUME ReportInv,
           StartWithdraw \/ \E a \in Reviewers, status \in Decisions : StartReview(a, status)
    PROVE  ReportInv'
  <1>1. UNCHANGED <<report, trail, told, withdrawn, filed>>
    BY DEF StartWithdraw, StartReview
  <1>2. DecisionsStand'
    BY <1>1 DEF DecisionsStand, ReportInv
  <1>3. Len(trail) \in Nat /\ (trail # <<>> => Len(trail) \in DOMAIN trail)
        /\ (trail = <<>> => Len(trail) = 0)
    BY LenProperties, EmptySeq DEF ReportInv, ReportTypes
  <1>4. \A w : /\ SawOpen(w)' <=> SawOpen(w)
               /\ Remembers(w)' <=> Remembers(w)
    BY <1>1 DEF SawOpen, Remembers
  <1>5. CASE StartWithdraw
    <2>1. report # NoReport /\ report.status = "PENDING" /\ author' = [id |-> report.id, known |-> Len(trail)]
          /\ reviewer' = reviewer
      BY <1>5 DEF StartWithdraw, NoReport
    <2>2. trail # <<>> => Last(trail).status \in Decisions
      <3>1. ASSUME trail # <<>> PROVE Last(trail) \in Entries
        BY <1>3, <3>1, ElementOfSeq, LenProperties DEF Last, ReportInv, ReportTypes
      <3> QED BY <3>1 DEF Entries
    <2>3. Len(trail) = 0
      BY <1>3, <2>1, <2>2 DEF ReportInv, DecisionsStand, Decisions
    <2>4. author' \in [id : Nat, known : Nat] /\ author'.known = 0
      BY <2>1, <2>3 DEF ReportInv, ReportTypes, ReportRows
    <2>5. ReportTypes'
      BY <1>1, <2>1, <2>4 DEF ReportInv, ReportTypes
    <2> QED BY <1>1, <1>2, <1>4, <2>1, <2>4, <2>5 DEF ReportInv, SawOpen, Remembers
  <1>6. ASSUME NEW a \in Reviewers, NEW status \in Decisions, StartReview(a, status)
        PROVE  ReportInv'
    <2> DEFINE w == [step |-> "write", seen |-> report, next |-> status, known |-> Len(trail)]
    <2>1. report \in ReportRows /\ reviewer' = [reviewer EXCEPT ![a] = w] /\ author' = author
      BY <1>6 DEF StartReview, ReportInv, ReportTypes
    <2>2. w \in Writing
      BY <1>3, <2>1 DEF Writing
    <2>3. ReportTypes'
      BY <1>1, <2>1, <2>2 DEF ReportInv, ReportTypes
    <2>4. SawOpen(w)
      BY <1>6 DEF SawOpen, StartReview, ReportInv
    <2>5. Len(trail) # 0 => trail[Len(trail)].status = report.status
      BY <1>3, <1>6 DEF StartReview, ReportInv, DecisionsStand, Last
    <2>6. Remembers(w)
      BY <1>3, <2>5 DEF Remembers
    <2>7. ASSUME NEW b \in Reviewers, reviewer'[b] # Idle_
          PROVE  (SawOpen(reviewer[b]) /\ Remembers(reviewer[b]))'
      <3>1. reviewer'[b] = w \/ reviewer'[b] = reviewer[b]
        BY <2>1 DEF ReportInv, ReportTypes
      <3>2. SawOpen(reviewer'[b]) /\ Remembers(reviewer'[b])
        BY <2>4, <2>6, <2>7, <3>1 DEF ReportInv
      <3> QED BY <1>1, <3>2 DEF SawOpen, Remembers
    <2> QED BY <1>1, <1>2, <2>1, <2>3, <2>7 DEF ReportInv
  <1> QED BY <1>5, <1>6

\* A report that is withdrawn was pending when its author asked, so no decision had been seen.
LEMMA WithdrawStands ==
    ASSUME ReportInv, Withdraw
    PROVE  ReportInv'
  <1>1. /\ UNCHANGED <<trail, told, reviewer, filed>> /\ author' = NoWish
        /\ report' = report \/ report' = NoReport
        /\ withdrawn' = withdrawn \/ withdrawn' = author.known
    BY DEF Withdraw
  <1>2. withdrawn' = 0 /\ author'.known = 0
    BY <1>1 DEF ReportInv, DecisionsStand, NoWish
  <1>3. ReportTypes'
    BY <1>1, <1>2 DEF ReportInv, ReportTypes, NoWish
  <1>4. DecisionsStand'
    BY <1>1, <1>2 DEF ReportInv, DecisionsStand
  <1>5. \A a \in Reviewers : reviewer'[a] # Idle_ => (SawOpen(reviewer[a]) /\ Remembers(reviewer[a]))'
    BY <1>1 DEF ReportInv, SawOpen, Remembers
  <1> QED BY <1>1, <1>2, <1>3, <1>4, <1>5 DEF ReportInv

\* A decision that follows a final one, or repeats the one before it, had not seen that one: what it
\* had seen last was neither.
LEMMA ReviewStands ==
    ASSUME ReportInv, NEW a \in Reviewers, WriteReview(a)
    PROVE  ReportInv'
  <1> DEFINE w == reviewer[a]
  <1>1. w # Idle_ /\ w \in Writing
    BY DEF WriteReview, Idle_, ReportInv, ReportTypes
  <1>2. w.seen \in ReportRows /\ w.next \in Decisions /\ w.known \in Nat /\ SawOpen(w) /\ Remembers(w)
    BY <1>1 DEF Writing, ReportInv
  <1>3. UNCHANGED <<author, withdrawn, filed>> /\ reviewer' = [reviewer EXCEPT ![a] = Idle_]
    BY DEF WriteReview
  <1>4. reviewer' \in [Reviewers -> Writing \cup {Idle_}]
        /\ \A b \in Reviewers : reviewer'[b] # Idle_ => reviewer'[b] = reviewer[b] /\ reviewer[b] # Idle_
    BY <1>3 DEF ReportInv, ReportTypes
  <1>5. CASE UNCHANGED <<report, trail, told>>
    <2>1. ReportTypes'
      BY <1>3, <1>4, <1>5 DEF ReportInv, ReportTypes
    <2>2. DecisionsStand'
      BY <1>3, <1>5 DEF ReportInv, DecisionsStand
    <2>3. \A b \in Reviewers : reviewer'[b] # Idle_ => (SawOpen(reviewer[b]) /\ Remembers(reviewer[b]))'
      BY <1>3, <1>4, <1>5 DEF ReportInv, SawOpen, Remembers
    <2> QED BY <1>3, <1>5, <2>1, <2>2, <2>3 DEF ReportInv
  <1>6. ASSUME report # NoReport, report.id = w.seen.id,
               report' = [report EXCEPT !.status = w.next, !.reviewed = TRUE,
                              !.reviewedBy = IF w.next = "REVIEWED" \/ w.seen.reviewedBy = "nobody" THEN a ELSE @,
                              !.resolvedBy = IF w.next = "RESOLVED" THEN a ELSE @],
               trail' = Append(trail, [status |-> w.next, by |-> a, known |-> w.known]),
               told' = told \cup {w.next}
        PROVE  ReportInv'
    <2> DEFINE e == [status |-> w.next, by |-> a, known |-> w.known]
    <2>1. report \in ReportRows
      BY <1>6 DEF ReportInv, ReportTypes
    <2>2. report' \in ReportRows /\ report'.status = w.next /\ report'.id = report.id
          /\ (w.next = "RESOLVED" => report'.resolvedBy = a)
      BY <1>2, <1>6, <2>1 DEF ReportRows
    <2>3. trail \in Seq(Entries) /\ e \in Entries /\ trail' = Append(trail, e)
      BY <1>2, <1>6 DEF ReportInv, ReportTypes, Entries
    <2> HIDE DEF e
    <2>4. /\ trail' \in Seq(Entries) /\ Len(trail') = Len(trail) + 1
          /\ trail'[Len(trail) + 1] = e
          /\ \A k \in 1..Len(trail) : trail'[k] = trail[k]
      BY <2>3, AppendProperties
    <2>5. ReportTypes'
      BY <1>2, <1>3, <1>4, <1>6, <2>2, <2>4 DEF ReportInv, ReportTypes
    <2>6. Len(trail) \in Nat /\ DOMAIN trail = 1..Len(trail) /\ DOMAIN trail' = 1..(Len(trail) + 1)
      BY <2>3, <2>4, LenProperties
    <2>7. e.status = w.next /\ e.by = a /\ e.known = w.known
      BY DEF e
    <2>8. Last(trail') = e /\ trail' # <<>>
      BY <2>4, <2>6 DEF Last
    <2>9. told' = {trail'[k].status : k \in DOMAIN trail'}
      <3>1. told = {trail[k].status : k \in DOMAIN trail}
        BY DEF ReportInv, DecisionsStand
      <3>2. \A k \in 1..(Len(trail) + 1) : k = Len(trail) + 1 \/ k \in 1..Len(trail)
        BY <2>6
      <3>3. \A k \in 1..Len(trail) : k \in 1..(Len(trail) + 1)
        BY <2>6
      <3>4. Len(trail) + 1 \in 1..(Len(trail) + 1)
        BY <2>6
      <3> DEFINE Statuses == {trail'[k].status : k \in DOMAIN trail'}
      <3>5. \A x \in Statuses : x \in told'
        BY <1>6, <2>4, <2>6, <2>7, <3>1, <3>2
      <3>6. \A x \in told' : x \in Statuses
        BY <1>6, <2>4, <2>6, <2>7, <3>1, <3>3, <3>4
      <3> QED BY <3>5, <3>6
    <2>10. ASSUME NEW k \in DOMAIN trail', k + 1 \in DOMAIN trail',
                  trail'[k].status \in {"RESOLVED", trail'[k + 1].status}
           PROVE  trail'[k + 1].known < k
      <3>1. k \in 1..Len(trail) /\ (k + 1 \in 1..Len(trail) \/ k = Len(trail))
        BY <2>6, <2>10
      <3>2. CASE k + 1 \in 1..Len(trail)
        <4>1. k \in DOMAIN trail /\ k + 1 \in DOMAIN trail
              /\ trail'[k] = trail[k] /\ trail'[k + 1] = trail[k + 1]
          BY <2>4, <2>6, <3>1, <3>2
        <4> QED BY <2>10, <4>1 DEF ReportInv, DecisionsStand
      <3>3. CASE k = Len(trail)
        <4>1. trail'[k] = trail[k] /\ trail'[k + 1] = e
          BY <2>4, <3>1, <3>3
        <4>2. trail[k].status \in {"RESOLVED", w.next}
          BY <2>7, <2>10, <4>1
        <4>3. w.known <= k /\ (w.known # 0 => trail[w.known].status = w.seen.status)
          BY <1>2, <1>6, <3>3 DEF Remembers
        <4>4. w.known # k
          BY <1>2, <2>6, <3>1, <3>3, <4>2, <4>3 DEF SawOpen
        <4> QED BY <1>2, <2>6, <2>7, <3>3, <4>1, <4>3, <4>4
      <3> QED BY <3>1, <3>2, <3>3
    <2>11. DecisionsStand'
      <3>1. report'.status = Last(trail').status
            /\ (report'.status = "RESOLVED" => report'.resolvedBy = Last(trail').by)
        BY <2>2, <2>7, <2>8
      <3>2. withdrawn' = 0
        BY <1>3 DEF ReportInv, DecisionsStand
      <3> HIDE DEF w
      <3> QED BY <2>8, <2>9, <2>10, <3>1, <3>2 DEF DecisionsStand
    <2>12. ASSUME NEW b \in Reviewers, reviewer'[b] # Idle_
           PROVE  (SawOpen(reviewer[b]) /\ Remembers(reviewer[b]))'
      <3> DEFINE v == reviewer[b]
      <3>1. reviewer'[b] = v /\ v \in Writing /\ SawOpen(v) /\ Remembers(v)
        BY <1>4, <2>12 DEF ReportInv, ReportTypes
      <3>2. v.known \in Nat
        BY <3>1 DEF Writing
      <3> HIDE DEF v
      <3>3. report.id = v.seen.id => v.known <= Len(trail) + 1 /\ (v.known # 0 => trail'[v.known].status = v.seen.status)
        <4>1. report.id = v.seen.id => v.known <= Len(trail) /\ (v.known # 0 => trail[v.known].status = v.seen.status)
          BY <1>6, <3>1 DEF Remembers
        <4>2. v.known <= Len(trail) /\ v.known # 0 => trail'[v.known] = trail[v.known]
          BY <2>4, <2>6, <3>2
        <4>3. v.known <= Len(trail) => v.known <= Len(trail) + 1
          BY <2>6, <3>2
        <4> QED BY <4>1, <4>2, <4>3
      <3> QED BY <1>3, <2>2, <2>4, <3>1, <3>3 DEF SawOpen, Remembers
    <2>13. report'.id <= filed' /\ author'.known = 0
      BY <1>3, <1>6, <2>2 DEF ReportInv
    <2> QED BY <2>5, <2>11, <2>12, <2>13 DEF ReportInv
  <1> QED BY <1>5, <1>6 DEF WriteReview

\* The decisions on a report stand, for any administrators at work at once: a decision after a final
\* one, or the same one again, had been asked for before it.
THEOREM DecisionsHold == ReportSpec => []DecisionsStand
  <1>1. ReportInv /\ [ReportSteps]_reportVars => ReportInv'
    <2> SUFFICES ASSUME ReportInv, [ReportSteps]_reportVars PROVE ReportInv'
      OBVIOUS
    <2>1. CASE UNCHANGED reportVars
      BY <2>1 DEF reportVars, ReportInv, ReportTypes, DecisionsStand, SawOpen, Remembers
    <2>2. CASE ReportSteps
      BY <2>2, FilingStands, ReadingStands, WithdrawStands, ReviewStands DEF ReportSteps, Decisions
    <2> QED BY <2>1, <2>2
  <1>2. ReportInv => DecisionsStand
    BY DEF ReportInv
  <1> QED BY ReportsBegin, <1>1, <1>2, PTL DEF ReportSpec


----------------------------------------------------------------------------
(* Bookmarks.                                                              *)

SaveFields == {"step", "items", "bulk", "now", "premium", "chosen"}
Holding(r) == saver[r].step \in {"count", "insert"}

MarkTypes ==
    /\ day \in Nat /\ expiry \in [Items -> Nat] /\ DOMAIN saver = Savers
    /\ \A r \in Savers :
          \/ saver[r] = NoSave
          \/ /\ DOMAIN saver[r] = SaveFields /\ saver[r].step \in {"lock", "count", "insert"}
             /\ saver[r].now \in Nat /\ saver[r].now <= day
    /\ DOMAIN cleanup = {"cutoff", "left"} /\ cleanup.cutoff \in Nat /\ cleanup.cutoff <= day

\* Who counts holds the student's row, and the tier it read is the student's.
RowLocked == \A r \in Savers : Holding(r) => rowHeld = r /\ saver[r].premium = member

\* What a save chose still has room beside what is saved by then.
RoomCounted ==
    \A r \in Savers : saver[r].step = "insert" =>
        /\ IsFiniteSet(saver[r].chosen)
        /\ saver[r].chosen # {} => Cardinality(ActiveOn(day) \cup saver[r].chosen) <= LimitOf(member)

MarkInv == MarkTypes /\ RowLocked /\ RoomCounted

LEMMA LimitTyped == \A premium : LimitOf(premium) \in Nat
  BY BookmarksAssumption DEF LimitOf

LEMMA ActiveFinite == \A d : IsFiniteSet(ActiveOn(d))
  <1>1. \A d : ActiveOn(d) \subseteq Items
    BY DEF ActiveOn, Saved
  <1> QED BY <1>1, FS_Subset, BookmarksAssumption

\* Of a list, what is taken from its first n places is n at most.
LEMMA FirstOnes ==
    ASSUME NEW list, NEW n \in Int
    PROVE  LET firsts == {list[k] : k \in (1..n) \cap DOMAIN list}
           IN  /\ IsFiniteSet(firsts) /\ Cardinality(firsts) \in Nat
               /\ firsts # {} => n > 0 /\ Cardinality(firsts) <= n
  <1> DEFINE places == (1..n) \cap DOMAIN list
             firsts == {list[k] : k \in places}
             f == [k \in places |-> list[k]]
  <1>1. IsFiniteSet(1..n) /\ Cardinality(1..n) = IF 1 > n THEN 0 ELSE n
    BY FS_Interval
  <1>2. IsFiniteSet(places) /\ Cardinality(places) <= Cardinality(1..n)
    BY <1>1, FS_Subset
  <1>3. f \in Surjection(places, firsts)
    BY DEF Surjection
  <1>4. IsFiniteSet(firsts) /\ Cardinality(firsts) <= Cardinality(places)
    BY <1>2, <1>3, FS_Surjection
  <1>5. Cardinality(firsts) \in Nat /\ Cardinality(places) \in Nat
    BY <1>2, <1>4, FS_CardinalityType
  <1>6. firsts # {} => n > 0
    OBVIOUS
  <1> QED BY <1>1, <1>2, <1>4, <1>5, <1>6

\* Where nothing is saved, room is left; where a save goes on, or ends, the others wait.
LEMMA RoomKept ==
    ASSUME MarkInv, ActiveOn(day)' \subseteq ActiveOn(day), UNCHANGED member, NEW r \in Savers,
           saver'[r].step = "insert", saver[r].step = "insert", saver'[r].chosen = saver[r].chosen
    PROVE  /\ IsFiniteSet(saver'[r].chosen)
           /\ saver'[r].chosen # {} => Cardinality(ActiveOn(day)' \cup saver'[r].chosen) <= LimitOf(member)'
  <1>1. IsFiniteSet(saver[r].chosen)
    BY DEF MarkInv, RoomCounted
  <1>2. ASSUME saver[r].chosen # {}
        PROVE  Cardinality(ActiveOn(day)' \cup saver[r].chosen) <= LimitOf(member)
    <2> DEFINE A == ActiveOn(day) \cup saver[r].chosen
               B == ActiveOn(day)' \cup saver[r].chosen
    <2>1. IsFiniteSet(A) /\ B \subseteq A
      BY <1>1, ActiveFinite, FS_Union
    <2>2. IsFiniteSet(B) /\ Cardinality(B) <= Cardinality(A)
      BY <2>1, FS_Subset
    <2>3. Cardinality(A) \in Nat /\ Cardinality(B) \in Nat
      BY <2>1, <2>2, FS_CardinalityType
    <2>4. Cardinality(A) <= LimitOf(member)
      BY <1>2 DEF MarkInv, RoomCounted
    <2> HIDE DEF A, B
    <2>5. Cardinality(B) <= LimitOf(member)
      BY <2>2, <2>3, <2>4, LimitTyped
    <2> QED BY <2>5 DEF B
  <1>3. LimitOf(member)' = LimitOf(member)
    BY DEF LimitOf
  <1> QED BY <1>1, <1>2, <1>3

\* A step that saves nothing and leaves the saves alone.
LEMMA Unsaved ==
    ASSUME MarkInv, MarkTypes', UNCHANGED <<member, saver, rowHeld>>, ActiveOn(day)' \subseteq ActiveOn(day)
    PROVE  MarkInv'
  <1>1. RowLocked'
    BY DEF MarkInv, RowLocked, Holding
  <1>2. RoomCounted'
    BY RoomKept DEF RoomCounted
  <1> QED BY <1>1, <1>2 DEF MarkInv

\* A step of one save that saves nothing.
OnlySaves(r, s) == saver' = [saver EXCEPT ![r] = s]
LEMMA SaveMoves ==
    ASSUME MarkInv, NEW r \in Savers, NEW s, OnlySaves(r, s), UNCHANGED <<day, member, expiry, cleanup>>,
           \/ s = NoSave
           \/ /\ DOMAIN s = SaveFields /\ s.step \in {"lock", "count", "insert"}
              /\ s.now \in Nat /\ s.now <= day,
           s.step \in {"count", "insert"} => rowHeld' = r /\ s.premium = member,
           s.step = "insert" => IsFiniteSet(s.chosen)
                                /\ (s.chosen # {} => Cardinality(ActiveOn(day) \cup s.chosen) <= LimitOf(member)),
           \A q \in Savers : q # r /\ rowHeld = q => rowHeld' = q
    PROVE  MarkInv'
  <1>1. DOMAIN saver' = Savers /\ saver'[r] = s /\ \A q \in Savers : q # r => saver'[q] = saver[q]
    BY DEF MarkInv, MarkTypes, OnlySaves
  <1>2. MarkTypes'
    BY <1>1 DEF MarkInv, MarkTypes
  <1>3. RowLocked'
    BY <1>1 DEF MarkInv, RowLocked, Holding
  <1>4. RoomCounted'
    BY <1>1 DEF MarkInv, RoomCounted, ActiveOn, Saved
  <1> QED BY <1>2, <1>3, <1>4 DEF MarkInv

LEMMA SavesStart ==
    ASSUME MarkInv, NEW r \in Savers, NEW items, NEW bulk, StartSave(r, items, bulk)
    PROVE  MarkInv'
  <1> DEFINE s == [step |-> "lock", items |-> items, bulk |-> bulk, now |-> day, premium |-> FALSE, chosen |-> {}]
  <1>1. OnlySaves(r, s) /\ UNCHANGED <<day, member, expiry, rowHeld, cleanup>> /\ day \in Nat
    BY DEF StartSave, OnlySaves, MarkInv, MarkTypes
  <1>2. DOMAIN s = SaveFields /\ s.step = "lock" /\ s.now = day
    BY DEF SaveFields
  <1> HIDE DEF s
  <1>3. s.now \in Nat /\ s.now <= day
    BY <1>1, <1>2
  <1>4. \A q \in Savers : q # r /\ rowHeld = q => rowHeld' = q
    BY <1>1
  <1>5. s.step \notin {"count", "insert"} /\ s.step # "insert"
    BY <1>2
  <1> QED BY <1>1, <1>2, <1>3, <1>4, <1>5, SaveMoves

LEMMA SavesLock ==
    ASSUME MarkInv, NEW r \in Savers, LockStudent(r)
    PROVE  MarkInv'
  <1> DEFINE s == [saver[r] EXCEPT !.step = "count", !.premium = member]
  <1>1. /\ OnlySaves(r, s) /\ UNCHANGED <<day, member, expiry, cleanup>> /\ rowHeld = Unheld /\ rowHeld' = r
        /\ saver[r].step = "lock"
    BY DEF LockStudent, OnlySaves, MarkInv, MarkTypes
  <1>2. DOMAIN saver[r] = SaveFields /\ saver[r].now \in Nat /\ saver[r].now <= day
    BY <1>1 DEF MarkInv, MarkTypes, NoSave
  <1>3. DOMAIN s = SaveFields /\ s.step = "count" /\ s.premium = member /\ s.now = saver[r].now
    BY <1>2 DEF SaveFields
  <1> HIDE DEF s
  <1> QED BY <1>1, <1>2, <1>3, SaveMoves, BookmarksAssumption

LEMMA SavesCount ==
    ASSUME MarkInv, NEW r \in Savers, CountSaved(r)
    PROVE  MarkInv'
  <1> DEFINE kept == {i \in Saved : expiry[i] > saver[r].now}
             room == LimitOf(saver[r].premium) - Cardinality(ActiveOn(day))
             new == SelectSeq(saver[r].items, LAMBDA i : i \notin kept)
             chosen == {new[k] : k \in (1..room) \cap DOMAIN new}
             s == [saver[r] EXCEPT !.step = "insert", !.chosen = chosen]
  <1>1. saver[r].step = "count" /\ UNCHANGED <<day, member, expiry, cleanup>>
    BY DEF CountSaved
  <1>2. /\ DOMAIN saver[r] = SaveFields /\ saver[r].now \in Nat /\ saver[r].now <= day
        /\ rowHeld = r /\ saver[r].premium = member
    BY <1>1 DEF MarkInv, MarkTypes, NoSave, RowLocked, Holding
  <1>3. CASE saver' = [saver EXCEPT ![r] = NoSave] /\ Release_(r)
    <2>1. OnlySaves(r, NoSave)
      BY <1>3 DEF OnlySaves
    <2>2. NoSave.step = "idle"
      BY DEF NoSave
    <2>3. \A q \in Savers : q # r /\ rowHeld = q => rowHeld' = q
      BY <1>3 DEF Release_
    <2> QED BY <1>1, <2>1, <2>2, <2>3, SaveMoves
  <1>4. CASE saver' = [saver EXCEPT ![r] = s] /\ UNCHANGED rowHeld
    <2>1. OnlySaves(r, s)
      BY <1>4 DEF OnlySaves
    <2>2. Cardinality(ActiveOn(day)) \in Nat /\ IsFiniteSet(ActiveOn(day))
      BY ActiveFinite, FS_CardinalityType
    <2>3. room \in Int /\ room = LimitOf(member) - Cardinality(ActiveOn(day))
      BY <1>2, <2>2, LimitTyped
    <2> HIDE DEF room, new
    <2>4. /\ IsFiniteSet(chosen) /\ Cardinality(chosen) \in Nat
          /\ chosen # {} => room > 0 /\ Cardinality(chosen) <= room
      BY <2>3, FirstOnes
    <2> HIDE DEF chosen
    <2>5. ASSUME chosen # {} PROVE Cardinality(ActiveOn(day) \cup chosen) <= LimitOf(member)
      <3> DEFINE A == ActiveOn(day)
      <3>1. /\ IsFiniteSet(A \cup chosen)
            /\ Cardinality(A \cup chosen) = Cardinality(A) + Cardinality(chosen) - Cardinality(A \cap chosen)
        BY <2>2, <2>4, FS_Union
      <3>2. IsFiniteSet(A \cap chosen)
        BY <2>2, FS_Intersection
      <3>3. Cardinality(A \cap chosen) \in Nat /\ Cardinality(A \cup chosen) \in Nat
        BY <3>1, <3>2, FS_CardinalityType
      <3> QED BY <2>2, <2>3, <2>4, <2>5, <3>1, <3>3, LimitTyped
    <2>6. /\ DOMAIN s = SaveFields /\ s.step = "insert" /\ s.premium = saver[r].premium /\ s.now = saver[r].now
          /\ s.chosen = chosen
      BY <1>2 DEF SaveFields
    <2> HIDE DEF s
    <2> QED BY <1>1, <1>2, <1>4, <2>1, <2>4, <2>5, <2>6, SaveMoves
  <1> QED BY <1>3, <1>4 DEF CountSaved

\* What an insert adds was chosen, and what has not expired stays.
LEMMA SavesInsert ==
    ASSUME MarkInv, NEW r \in Savers, InsertSaved(r)
    PROVE  /\ MarkInv'
           /\ ActiveOn(day)' \ ActiveOn(day) # {} => Cardinality(ActiveOn(day)') <= LimitOf(member)
           /\ \A i \in ActiveOn(day) : expiry'[i] = expiry[i]
  <1> DEFINE chosen == saver[r].chosen
             now == saver[r].now
             A == ActiveOn(day)
             B == ActiveOn(day)'
  <1>1. /\ saver[r].step = "insert" /\ UNCHANGED <<day, member, cleanup>> /\ saver' = [saver EXCEPT ![r] = NoSave]
        /\ expiry' = [i \in Items |-> IF expiry[i] > now THEN expiry[i]
                                      ELSE IF i \in chosen THEN now + Lifetime ELSE 0]
        /\ Release_(r)
    BY DEF InsertSaved
  <1>2. /\ now \in Nat /\ now <= day /\ day \in Nat /\ expiry \in [Items -> Nat] /\ Lifetime \in Nat
        /\ IsFiniteSet(chosen) /\ (chosen # {} => Cardinality(A \cup chosen) <= LimitOf(member))
        /\ rowHeld = r
    BY <1>1, BookmarksAssumption DEF MarkInv, MarkTypes, RowLocked, RoomCounted, NoSave, Holding
  <1>3. PICK n \in Nat : n = now
    BY <1>2
  <1>4. PICK C : C = chosen
    OBVIOUS
  <1>5. expiry' = [i \in Items |-> IF expiry[i] > n THEN expiry[i] ELSE IF i \in C THEN n + Lifetime ELSE 0] /\ n <= day
    BY <1>1, <1>2, <1>3, <1>4
  <1>6. expiry' \in [Items -> Nat]
    BY <1>2, <1>5
  <1>7. ASSUME NEW i \in A PROVE expiry'[i] = expiry[i]
    <2>1. i \in Items /\ expiry[i] > day /\ expiry[i] \in Nat
      BY <1>2 DEF ActiveOn, Saved
    <2> QED BY <1>2, <1>5, <2>1
  <1>8. B \subseteq A \cup C
    <2> SUFFICES ASSUME NEW i \in B, i \notin C PROVE i \in A
      OBVIOUS
    <2>1. i \in Items /\ expiry'[i] # 0 /\ expiry'[i] > day
      BY <1>1 DEF ActiveOn, Saved
    <2>2. expiry'[i] = expiry[i]
      BY <1>5, <2>1
    <2> QED BY <2>1, <2>2 DEF ActiveOn, Saved
  <1>9. ASSUME B \ A # {} PROVE Cardinality(B) <= LimitOf(member)
    <2>1. C # {}
      BY <1>8, <1>9
    <2>2. IsFiniteSet(A \cup C) /\ Cardinality(A \cup C) <= LimitOf(member)
      BY <1>2, <1>4, <2>1, ActiveFinite, FS_Union
    <2>3. IsFiniteSet(B) /\ Cardinality(B) <= Cardinality(A \cup C)
      BY <1>8, <2>2, FS_Subset
    <2>4. Cardinality(B) \in Nat /\ Cardinality(A \cup C) \in Nat
      BY <2>2, <2>3, FS_CardinalityType
    <2> HIDE DEF A, B
    <2> QED BY <2>2, <2>3, <2>4, LimitTyped
  <1>10. DOMAIN saver' = Savers /\ saver'[r] = NoSave /\ \A q \in Savers : q # r => saver'[q] = saver[q]
    BY <1>1 DEF MarkInv, MarkTypes
  <1>11. \A q \in Savers : q # r => ~Holding(q)
    BY <1>2 DEF MarkInv, RowLocked
  <1>12. \A q \in Savers : ~Holding(q)' /\ saver'[q].step # "insert"
    BY <1>10, <1>11 DEF Holding, NoSave
  <1>13. MarkTypes'
    BY <1>1, <1>6, <1>10 DEF MarkInv, MarkTypes
  <1>14. MarkInv'
    BY <1>12, <1>13 DEF MarkInv, RowLocked, RoomCounted
  <1> QED BY <1>7, <1>9, <1>14

LEMMA OthersUnsave ==
    ASSUME MarkInv,
           (\E i \in Items : RemoveMark(i)) \/ ChangeTier \/ StartSweep \/ SweepBatch_ \/ PassDay
    PROVE  /\ MarkInv' /\ ActiveOn(day)' \subseteq ActiveOn(day)
           /\ \A i \in ActiveOn(day) : expiry'[i] = expiry[i] \/ (expiry'[i] = 0 /\ RemoveMark(i))
  <1>1. /\ day \in Nat /\ expiry \in [Items -> Nat] /\ cleanup.cutoff \in Nat /\ cleanup.cutoff <= day
        /\ DOMAIN cleanup = {"cutoff", "left"}
    BY DEF MarkInv, MarkTypes
  <1>2. ASSUME NEW j \in Items, RemoveMark(j)
        PROVE  /\ MarkInv' /\ ActiveOn(day)' \subseteq ActiveOn(day)
               /\ \A i \in ActiveOn(day) : expiry'[i] = expiry[i] \/ (expiry'[i] = 0 /\ RemoveMark(i))
    <2>1. expiry' = [expiry EXCEPT ![j] = 0] /\ UNCHANGED <<day, member, saver, rowHeld, cleanup>>
      BY <1>2 DEF RemoveMark
    <2>2. MarkTypes'
      BY <1>1, <2>1 DEF MarkInv, MarkTypes
    <2>3. ActiveOn(day)' \subseteq ActiveOn(day)
      BY <1>1, <2>1 DEF ActiveOn, Saved
    <2>4. \A i \in ActiveOn(day) : expiry'[i] = expiry[i] \/ (expiry'[i] = 0 /\ i = j)
      BY <1>1, <2>1 DEF ActiveOn, Saved
    <2> QED BY <1>2, <2>1, <2>2, <2>3, <2>4, Unsaved
  <1>3. CASE ChangeTier
    <2>1. rowHeld = Unheld /\ UNCHANGED <<day, expiry, saver, rowHeld, cleanup>>
      BY <1>3 DEF ChangeTier
    <2>2. \A r \in Savers : ~Holding(r)
      BY <2>1, BookmarksAssumption DEF MarkInv, RowLocked
    <2>3. MarkInv'
      BY <2>1, <2>2 DEF MarkInv, MarkTypes, RowLocked, RoomCounted, Holding
    <2> QED BY <2>1, <2>3 DEF ActiveOn, Saved
  <1>4. CASE StartSweep
    <2>1. cleanup' = [cutoff |-> day, left |-> SweepBatches] /\ UNCHANGED <<day, member, expiry, saver, rowHeld>>
      BY <1>4 DEF StartSweep
    <2>2. DOMAIN cleanup' = {"cutoff", "left"} /\ cleanup'.cutoff = day
      BY <2>1
    <2>3. MarkTypes'
      BY <1>1, <2>1, <2>2 DEF MarkInv, MarkTypes
    <2>4. ActiveOn(day)' = ActiveOn(day)
      BY <2>1 DEF ActiveOn, Saved
    <2> QED BY <2>1, <2>3, <2>4, Unsaved
  <1>5. CASE SweepBatch_
    <2> DEFINE expired == {i \in Saved : expiry[i] <= cleanup.cutoff}
    <2>1. PICK gone \in SUBSET expired :
             /\ expiry' = [i \in Items |-> IF i \in gone THEN 0 ELSE expiry[i]]
             /\ cleanup' = IF Cardinality(gone) < SweepBatch THEN NoCleanUp ELSE [cleanup EXCEPT !.left = @ - 1]
             /\ UNCHANGED <<day, member, saver, rowHeld>>
      BY <1>5 DEF SweepBatch_
    <2>2. DOMAIN cleanup' = {"cutoff", "left"} /\ cleanup'.cutoff \in Nat /\ cleanup'.cutoff <= day
      BY <1>1, <2>1 DEF NoCleanUp
    <2>3. expiry' \in [Items -> Nat]
      BY <1>1, <2>1
    <2>4. MarkTypes'
      BY <1>1, <2>1, <2>2, <2>3 DEF MarkInv, MarkTypes
    <2>5. \A i \in ActiveOn(day) : i \notin gone
      <3> SUFFICES ASSUME NEW i \in ActiveOn(day), i \in gone PROVE FALSE
        OBVIOUS
      <3>1. i \in Items /\ expiry[i] > day /\ expiry[i] <= cleanup.cutoff
        BY DEF ActiveOn, Saved
      <3>2. expiry[i] \in Nat
        BY <1>1, <3>1
      <3> QED BY <1>1, <3>1, <3>2
    <2>6. ActiveOn(day)' \subseteq ActiveOn(day) /\ \A i \in ActiveOn(day) : expiry'[i] = expiry[i]
      BY <1>1, <2>1, <2>5 DEF ActiveOn, Saved
    <2> QED BY <2>1, <2>4, <2>6, Unsaved
  <1>6. CASE PassDay
    <2>1. day' = day + 1 /\ UNCHANGED <<member, expiry, saver, rowHeld, cleanup>>
      BY <1>6 DEF PassDay
    <2>2. MarkTypes'
      <3>1. ASSUME NEW r \in Savers, saver[r] # NoSave PROVE saver[r].now \in Nat /\ saver[r].now <= day'
        <4>1. saver[r].now \in Nat /\ saver[r].now <= day
          BY <3>1 DEF MarkInv, MarkTypes
        <4> QED BY <1>1, <2>1, <4>1
      <3>2. cleanup.cutoff <= day' /\ day' \in Nat
        BY <1>1, <2>1
      <3> QED BY <2>1, <3>1, <3>2 DEF MarkInv, MarkTypes
    <2>3. ActiveOn(day)' \subseteq ActiveOn(day)
      <3> SUFFICES ASSUME NEW i \in Items, expiry[i] # 0, expiry[i] > day' PROVE expiry[i] > day
        BY <2>1 DEF ActiveOn, Saved
      <3> QED BY <1>1, <2>1
    <2> QED BY <2>1, <2>2, <2>3, Unsaved
  <1> QED BY <1>2, <1>3, <1>4, <1>5, <1>6

\* Unexpired bookmarks grow within the limit of the tier alone, and only the student removes one, for
\* any requests, questions and limits (bookmarks.service.ts, jobs/bookmark-cleanup.ts).
THEOREM SavesStayRationed == MarkSpec => BookmarksRationed
  <1> DEFINE Rationed ==
        /\ ActiveOn(day)' \ ActiveOn(day) # {} => Cardinality(ActiveOn(day)') <= LimitOf(member)
        /\ \A i \in ActiveOn(day) : expiry'[i] = expiry[i] \/ (expiry'[i] = 0 /\ RemoveMark(i))
  <1>1. MarkInit => MarkInv
    BY BookmarksAssumption
    DEF MarkInit, MarkInv, MarkTypes, RowLocked, RoomCounted, Holding, NoSave, NoCleanUp, SaveFields
  <1>2. MarkInv /\ [MarkSteps]_markVars => MarkInv' /\ (Rationed \/ UNCHANGED markVars)
    <2> SUFFICES ASSUME MarkInv, [MarkSteps]_markVars PROVE MarkInv' /\ (Rationed \/ UNCHANGED markVars)
      OBVIOUS
    <2>1. CASE UNCHANGED markVars
      BY <2>1 DEF markVars, MarkInv, MarkTypes, RowLocked, RoomCounted, Holding, ActiveOn, Saved
    <2>2. ASSUME NEW r \in Savers,
                 (\E items, bulk : StartSave(r, items, bulk)) \/ LockStudent(r) \/ CountSaved(r)
          PROVE  MarkInv' /\ Rationed
      <3>1. MarkInv'
        BY <2>2, SavesStart, SavesLock, SavesCount
      <3>2. UNCHANGED <<day, expiry>>
        BY <2>2 DEF StartSave, LockStudent, CountSaved
      <3>3. ActiveOn(day)' = ActiveOn(day)
        BY <3>2 DEF ActiveOn, Saved
      <3> QED BY <3>1, <3>2, <3>3
    <2>3. ASSUME NEW r \in Savers, InsertSaved(r) PROVE MarkInv' /\ Rationed
      BY <2>3, SavesInsert
    <2>4. CASE (\E i \in Items : RemoveMark(i)) \/ ChangeTier \/ StartSweep \/ SweepBatch_ \/ PassDay
      <3>1. /\ MarkInv' /\ ActiveOn(day)' \subseteq ActiveOn(day)
            /\ \A i \in ActiveOn(day) : expiry'[i] = expiry[i] \/ (expiry'[i] = 0 /\ RemoveMark(i))
        BY <2>4, OthersUnsave
      <3> QED BY <3>1
    <2>5. CASE MarkSteps
      BY <2>2, <2>3, <2>4, <2>5 DEF MarkSteps
    <2> QED BY <2>1, <2>5
  <1>3. MarkInv /\ [MarkSteps]_markVars => [Rationed]_markVars
    BY <1>2
  <1>4. MarkInv /\ [MarkSteps]_markVars => MarkInv'
    BY <1>2
  <1> QED BY <1>1, <1>3, <1>4, PTL DEF MarkSpec, BookmarksRationed


----------------------------------------------------------------------------
(* Notifications.                                                          *)

InboxRows == {NoRow} \cup {row \in [exists : {TRUE}, read : BOOLEAN, dismissed : BOOLEAN, expired : BOOLEAN, old : BOOLEAN] :
                              row.old => row.expired}
SocketFields == {"state", "shows", "told"}
Carrying == {"summary", "push"}
Laid(asked, before) == [c \in Categories |-> IF c \in DOMAIN asked THEN asked[c] ELSE before[c]]

\* What a request or a handshake in flight says.
Call(c) ==
    /\ "pc" \in DOMAIN c
    /\ c.pc \in {"idle", "create", "created", "publish", "summary", "push", "mark", "receipt", "patch"}
    /\ c.pc \in {"create", "created", "mark"} => c.key \in Keys
    /\ c.pc = "mark" => c.dismiss \in BOOLEAN
    /\ c.pc = "summary" => {"premium", "rows", "stale"} \subseteq DOMAIN c /\ c.stale \in BOOLEAN
    /\ c.pc = "push" => {"summary", "stale"} \subseteq DOMAIN c /\ c.stale \in BOOLEAN
    /\ c.pc = "patch" => /\ c.asked \in Patches /\ c.before \in [Categories -> BOOLEAN]
                         /\ c.prefs = Laid(c.asked, c.before)

NoteTypes ==
    /\ preferences \in [Categories -> BOOLEAN]
    /\ wishes \in [wanted : [Categories -> BOOLEAN], lost : SUBSET Categories]
    /\ inbox \in [Keys -> InboxRows] /\ hub \subseteq Sockets
    /\ DOMAIN socket = Sockets
    /\ \A s \in Sockets : /\ DOMAIN socket[s] = SocketFields /\ socket[s].state \in {"closed", "opening", "open"}
                          /\ socket[s].told \in BOOLEAN
    /\ DOMAIN client = Readers /\ \A r \in Readers : Call(client[r])

\* What was read of a summary is what is unread unless it is known to be stale, and so is what a socket
\* was sent once no request is about to tell more.  A handshake owes the other sockets nothing.
Fresh(c) ==
    /\ c.pc = "summary" /\ ~c.stale => c.rows = UnreadRows /\ c.premium = person.premium
    /\ c.pc = "push" /\ ~c.stale => c.summary = Unread
Telling(r) == client[r].pc \in {"publish", "summary", "push"}
Current(s) == socket[s].told => socket[s].shows = Unread
SummariesTrue ==
    /\ \A r \in Readers : Fresh(client[r])
    /\ \A s \in Sockets : socket[s].state # "closed" => s \in hub /\ ((\A r \in Clients : ~Telling(r)) => Current(s))

NoteInv == NoteTypes /\ SummariesTrue /\ PreferencesKept

LEMMA SameUnread ==
    ASSUME UNCHANGED <<person, inbox, notices, receipts>>
    PROVE  Unread' = Unread /\ UnreadRows' = UnreadRows /\ \A c : Fresh(c)' <=> Fresh(c)
  <1>1. Unread' = Unread /\ UnreadRows' = UnreadRows
    BY DEF Unread, UnreadRows, UnreadNotices, Listed, VisibleTo
  <1> QED BY <1>1 DEF Fresh

LEMMA Spoiling ==
    ASSUME NEW r \in Readers, Call(client[r])
    PROVE  /\ Call(Spoilt(r)) /\ Spoilt(r).pc = client[r].pc
           /\ client[r].pc \in Carrying => Spoilt(r).stale
           /\ client[r].pc \notin Carrying => Spoilt(r) = client[r]
  <1>1. CASE client[r].pc \in Carrying
    <2>1. PICK c : c = client[r]
      OBVIOUS
    <2>2. PICK d : d = [c EXCEPT !.stale = TRUE]
      OBVIOUS
    <2>3. {"pc", "stale"} \subseteq DOMAIN c /\ c.pc \in Carrying /\ Call(c)
      BY <1>1, <2>1 DEF Call, Carrying
    <2>4. DOMAIN d = DOMAIN c /\ d.pc = c.pc /\ d.stale = TRUE
      BY <2>2, <2>3
    <2>5. Call(d)
      BY <2>3, <2>4 DEF Call, Carrying
    <2>6. Spoilt(r) = d
      BY <1>1, <2>1, <2>2 DEF Spoilt, Carrying
    <2> QED BY <1>1, <2>1, <2>4, <2>5, <2>6
  <1>2. CASE client[r].pc \notin Carrying
    BY <1>2 DEF Spoilt, Carrying
  <1> QED BY <1>1, <1>2

\* Requests but r go on as they were, but for their summaries.
LEMMA Goes ==
    ASSUME NoteTypes, NEW r \in Readers, NEW state, Go(r, state), Call(state)
    PROVE  /\ DOMAIN client' = Readers /\ client'[r] = state /\ \A x \in Readers : Call(client'[x])
           /\ \A x \in Readers : x # r =>
                 /\ client'[x].pc = client[x].pc
                 /\ Unread' = Unread => client'[x] = client[x]
                 /\ Unread' # Unread /\ client[x].pc \in Carrying => client'[x].stale
  <1>1. DOMAIN client' = Readers /\ client'[r] = state
    BY DEF Go
  <1>2. ASSUME NEW x \in Readers, x # r
        PROVE  /\ Call(client'[x]) /\ client'[x].pc = client[x].pc
               /\ Unread' = Unread => client'[x] = client[x]
               /\ Unread' # Unread /\ client[x].pc \in Carrying => client'[x].stale
    <2>1. Call(client[x])
      BY DEF NoteTypes
    <2>2. client'[x] = IF Unread' # Unread THEN Spoilt(x) ELSE client[x]
      BY <1>2 DEF Go
    <2> QED BY <2>1, <2>2, Spoiling
  <1> QED BY <1>1, <1>2

\* A request or a handshake that only reads.
LEMMA NotesRead ==
    ASSUME NoteInv, NEW r \in Readers, NEW state, Go(r, state), Call(state), Fresh(state),
           UNCHANGED <<tables, socket, hub, wishes>>,
           Telling(r) => state.pc \in {"publish", "summary", "push"}
    PROVE  NoteInv'
  <1>1. /\ UNCHANGED <<person, preferences, inbox, notices, receipts, socket, hub, wishes>> /\ NoteTypes
        /\ SummariesTrue /\ PreferencesKept
    BY DEF tables, NoteInv
  <1>2. Unread' = Unread /\ \A c : Fresh(c)' <=> Fresh(c)
    BY <1>1, SameUnread
  <1>3. /\ DOMAIN client' = Readers /\ client'[r] = state /\ \A x \in Readers : Call(client'[x])
        /\ \A x \in Readers : x # r => client'[x] = client[x]
    BY <1>1, <1>2, Goes
  <1>4. NoteTypes'
    BY <1>1, <1>3 DEF NoteTypes
  <1>5. \A x \in Readers : Telling(x) => Telling(x)'
    BY <1>3 DEF Telling
  <1>6. \A x \in Readers : Fresh(client[x])'
    <2> SUFFICES ASSUME NEW x \in Readers PROVE Fresh(client[x])'
      OBVIOUS
    <2>1. PICK c : c = client'[x]
      OBVIOUS
    <2>2. Fresh(c)
      BY <1>1, <1>3, <2>1 DEF SummariesTrue
    <2> QED BY <1>2, <2>1, <2>2 DEF Fresh
  <1>7. SummariesTrue'
    BY <1>1, <1>2, <1>5, <1>6 DEF SummariesTrue, Current, Readers
  <1> QED BY <1>1, <1>4, <1>7 DEF NoteInv, PreferencesKept

\* A request that changes what is unread is about to tell.
LEMMA NotesChange ==
    ASSUME NoteInv, NEW r \in Clients, NEW state, Go(r, state), state \in {Resting_, [pc |-> "publish"]},
           state.pc # "publish" => Unread' = Unread, ~Telling(r),
           UNCHANGED <<person, preferences, socket, hub, wishes>>, inbox' \in [Keys -> InboxRows]
    PROVE  NoteInv'
  <1>1. NoteTypes /\ SummariesTrue /\ PreferencesKept /\ r \in Readers
    BY DEF NoteInv, Readers
  <1>2. Call(state) /\ state.pc \notin Carrying
    BY DEF Call, Resting_, Carrying
  <1>3. /\ DOMAIN client' = Readers /\ client'[r] = state /\ \A x \in Readers : Call(client'[x])
        /\ \A x \in Readers : x # r =>
              /\ client'[x].pc = client[x].pc
              /\ Unread' = Unread => client'[x] = client[x]
              /\ Unread' # Unread /\ client[x].pc \in Carrying => client'[x].stale
    BY <1>1, <1>2, Goes
  <1>4. NoteTypes'
    BY <1>1, <1>3 DEF NoteTypes
  <1>5. ASSUME NEW x \in Readers PROVE Fresh(client[x])'
    <2>1. CASE x = r
      BY <1>2, <1>3, <2>1 DEF Fresh, Carrying
    <2>2. CASE x # r /\ Unread' # Unread
      BY <1>3, <2>2 DEF Fresh, Carrying
    <2>3. CASE x # r /\ Unread' = Unread
      <3>1. UnreadRows' = UnreadRows
        BY <2>3 DEF Unread
      <3>2. Fresh(client[x]) /\ client'[x] = client[x]
        BY <1>1, <1>3, <2>3 DEF SummariesTrue
      <3> QED BY <2>3, <3>1, <3>2 DEF Fresh
    <2> QED BY <2>1, <2>2, <2>3
  <1>6. ASSUME NEW s \in Sockets, socket[s].state # "closed"
        PROVE  s \in hub /\ ((\A x \in Clients : ~Telling(x)') => Current(s)')
    <2>1. s \in hub
      BY <1>1, <1>6 DEF SummariesTrue
    <2>2. ASSUME \A x \in Clients : ~Telling(x)' PROVE Current(s)'
      <3>1. Unread' = Unread
        BY <1>3, <2>2 DEF Telling
      <3>2. \A x \in Clients : ~Telling(x)
        BY <1>3, <2>2 DEF Telling, Readers
      <3>3. Current(s)
        BY <1>1, <1>6, <3>2 DEF SummariesTrue
      <3> QED BY <3>1, <3>3 DEF Current
    <2> QED BY <2>1, <2>2
  <1>7. SummariesTrue'
    BY <1>5, <1>6 DEF SummariesTrue
  <1> QED BY <1>1, <1>4, <1>7 DEF NoteInv, PreferencesKept

\* A change nobody pushes makes every summary one that may be stale.
LEMMA NotesUntold ==
    ASSUME NoteInv, Untold, UNCHANGED <<preferences, hub, wishes>>, inbox' \in [Keys -> InboxRows]
    PROVE  NoteInv'
  <1>1. NoteTypes /\ SummariesTrue /\ PreferencesKept
    BY DEF NoteInv
  <1>2. ASSUME NEW x \in Readers
        PROVE  Call(client'[x]) /\ client'[x].pc = client[x].pc /\ (client[x].pc \in Carrying => client'[x].stale)
    <2>1. Call(client[x]) /\ client'[x] = Spoilt(x)
      BY <1>1 DEF NoteTypes, Untold
    <2> QED BY <2>1, Spoiling
  <1>3. DOMAIN client' = Readers /\ DOMAIN socket' = Sockets
    BY DEF Untold, NothingShown
  <1>4. \A s \in Sockets : /\ DOMAIN socket'[s] = SocketFields /\ socket'[s].state = socket[s].state
                           /\ socket'[s].told = FALSE
    BY <1>1 DEF Untold, NothingShown, NoteTypes, SocketFields
  <1>5. NoteTypes'
    BY <1>1, <1>2, <1>3, <1>4 DEF NoteTypes
  <1>6. \A x \in Readers : Fresh(client[x])'
    BY <1>2 DEF Fresh, Carrying
  <1>7. SummariesTrue'
    BY <1>1, <1>4, <1>6 DEF SummariesTrue, Current
  <1> QED BY <1>1, <1>5, <1>7 DEF NoteInv, PreferencesKept

LEMMA RestingCalls ==
    /\ Call(Resting_) /\ Resting_.pc = "idle" /\ Fresh(Resting_)
    /\ Call([pc |-> "publish"]) /\ Fresh([pc |-> "publish"])
  BY DEF Call, Resting_, Fresh

\* A summary is read in two statements.
LEMMA SummaryRead ==
    ASSUME NoteInv, NEW r \in Readers, StartSummary(r) \/ ReadSummary(r)
    PROVE  NoteInv'
  <1>1. CASE StartSummary(r)
    <2> DEFINE state == [pc |-> "summary", premium |-> person.premium, rows |-> UnreadRows, stale |-> FALSE]
    <2>1. client[r].pc = "publish" /\ Go(r, state) /\ UNCHANGED <<tables, socket, hub, wishes>>
      BY <1>1 DEF StartSummary
    <2>2. Call(state) /\ Fresh(state) /\ state.pc = "summary"
      BY DEF Call, Fresh
    <2> HIDE DEF state
    <2> QED BY <2>1, <2>2, NotesRead
  <1>2. CASE ReadSummary(r)
    <2> DEFINE state == [pc |-> "push", summary |-> Summary(r), stale |-> client[r].stale]
    <2>1. client[r].pc = "summary" /\ Go(r, state) /\ UNCHANGED <<tables, socket, hub, wishes>>
      BY <1>2 DEF ReadSummary
    <2>2. Call(client[r]) /\ Fresh(client[r])
      BY DEF NoteInv, NoteTypes, SummariesTrue
    <2>3. client[r].stale \in BOOLEAN
      BY <2>1, <2>2 DEF Call
    <2>4. ~client[r].stale => Summary(r) = Unread
      BY <2>1, <2>2 DEF Fresh, Summary, Unread
    <2>5. state.pc = "push" /\ Call(state) /\ Fresh(state)
      BY <2>3, <2>4 DEF Call, Fresh
    <2> HIDE DEF state
    <2> QED BY <2>1, <2>5, NotesRead
  <1> QED BY <1>1, <1>2

\* What r does to the sockets without changing what is unread.
LEMMA NotesShown ==
    ASSUME NoteInv, NEW r \in Readers, NEW state \in {Resting_, [pc |-> "publish"]}, Go(r, state),
           UNCHANGED <<tables, wishes>>, hub' \subseteq Sockets, DOMAIN socket' = Sockets,
           \A s \in Sockets :
               /\ DOMAIN socket'[s] = SocketFields /\ socket'[s].state \in {"closed", "opening", "open"}
               /\ socket'[s].told \in BOOLEAN
               /\ socket'[s].state # "closed" =>
                     s \in hub' /\ ((\A x \in Clients : x # r => ~Telling(x)) => (socket'[s].told => socket'[s].shows = Unread))
    PROVE  NoteInv'
  <1>1. /\ NoteTypes /\ SummariesTrue /\ PreferencesKept
        /\ UNCHANGED <<person, preferences, inbox, notices, receipts, wishes>>
    BY DEF NoteInv, tables
  <1>2. Unread' = Unread /\ UnreadRows' = UnreadRows
    BY <1>1, SameUnread
  <1>3. Call(state) /\ Fresh(state) /\ state.pc \notin Carrying
    BY RestingCalls DEF Carrying, Resting_
  <1>4. /\ DOMAIN client' = Readers /\ client'[r] = state /\ \A x \in Readers : Call(client'[x])
        /\ \A x \in Readers : x # r => client'[x] = client[x]
    BY <1>1, <1>2, <1>3, Goes
  <1>5. NoteTypes'
    BY <1>1, <1>4 DEF NoteTypes
  <1>6. ASSUME NEW x \in Readers PROVE Fresh(client[x])'
    <2>1. CASE x = r
      BY <1>3, <1>4, <2>1 DEF Fresh, Carrying
    <2>2. CASE x # r
      <3>1. Fresh(client[x]) /\ client'[x] = client[x]
        BY <1>1, <1>4, <2>2 DEF SummariesTrue
      <3> QED BY <1>1, <1>2, <3>1 DEF Fresh
    <2> QED BY <2>1, <2>2
  <1>7. \A x \in Clients : x # r => Telling(x)' = Telling(x)
    BY <1>4 DEF Telling, Readers
  <1>8. SummariesTrue'
    BY <1>2, <1>6, <1>7 DEF SummariesTrue, Current
  <1> QED BY <1>1, <1>5, <1>8 DEF NoteInv, PreferencesKept

\* A summary that is pushed is on every socket it reaches.
LEMMA Reaching ==
    ASSUME NoteTypes, NEW summary, NEW stale \in BOOLEAN, NEW s \in Sockets
    PROVE  LET sent == Sent(summary, stale)[s] IN
           /\ DOMAIN sent = SocketFields /\ sent.state = socket[s].state /\ sent.told \in BOOLEAN
           /\ s \in hub /\ socket[s].state # "closed" => sent.shows = summary /\ sent.told = ~stale
           /\ ~(s \in hub /\ socket[s].state # "closed") => sent = socket[s]
  BY DEF Sent, NoteTypes, SocketFields

LEMMA SummaryPushed ==
    ASSUME NoteInv, NEW r \in Readers, PushSummary(r)
    PROVE  NoteInv'
  <1>1. NoteTypes /\ SummariesTrue
    BY DEF NoteInv
  <1>2. Call(client[r]) /\ Fresh(client[r]) /\ client[r].pc = "push"
    BY <1>1 DEF NoteTypes, SummariesTrue, PushSummary
  <1>3. PICK stale \in BOOLEAN : stale = client[r].stale
    BY <1>2 DEF Call
  <1>4. PICK summary : summary = client[r].summary
    OBVIOUS
  <1>5. ~stale => summary = Unread
    BY <1>2, <1>3, <1>4 DEF Fresh
  <1> DEFINE sent == Sent(summary, stale)
  <1>6. /\ socket' = [s \in Sockets |-> IF s = r /\ socket[s].state = "opening"
                                        THEN [sent[s] EXCEPT !.state = "open"] ELSE sent[s]]
        /\ UNCHANGED <<tables, hub, wishes>> /\ Go(r, Resting_)
    BY <1>3, <1>4 DEF PushSummary
  <1>7. \A s \in Sockets :
           /\ DOMAIN sent[s] = SocketFields /\ sent[s].state = socket[s].state /\ sent[s].told \in BOOLEAN
           /\ s \in hub /\ socket[s].state # "closed" => sent[s].shows = summary /\ sent[s].told = ~stale
    BY <1>1, Reaching
  <1> HIDE DEF sent
  <1>8. ASSUME NEW s \in Sockets
        PROVE  /\ DOMAIN socket'[s] = SocketFields /\ socket'[s].state \in {"closed", "opening", "open"}
               /\ socket'[s].told = sent[s].told /\ socket'[s].shows = sent[s].shows
               /\ socket'[s].state # "closed" => socket[s].state # "closed"
    <2>1. socket[s].state \in {"closed", "opening", "open"}
      BY <1>1 DEF NoteTypes
    <2>2. PICK t : t = sent[s]
      OBVIOUS
    <2>3. DOMAIN t = SocketFields /\ t.state = socket[s].state
      BY <1>7, <2>2
    <2>4. CASE s = r /\ socket[s].state = "opening"
      <3>1. socket'[s] = [t EXCEPT !.state = "open"]
        BY <1>6, <2>2, <2>4
      <3> QED BY <2>2, <2>3, <2>4, <3>1 DEF SocketFields
    <2>5. CASE ~(s = r /\ socket[s].state = "opening")
      <3>1. socket'[s] = t
        BY <1>6, <2>2, <2>5
      <3> QED BY <2>1, <2>2, <2>3, <3>1
    <2> QED BY <2>4, <2>5
  <1>9. ASSUME NEW s \in Sockets, socket'[s].state # "closed"
        PROVE  s \in hub /\ (socket'[s].told => socket'[s].shows = Unread)
    <2>1. socket[s].state # "closed" /\ s \in hub
      BY <1>1, <1>8, <1>9 DEF SummariesTrue
    <2> QED BY <1>5, <1>7, <1>8, <2>1
  <1>10. DOMAIN socket' = Sockets /\ hub' = hub /\ hub \subseteq Sockets
    BY <1>1, <1>6 DEF NoteTypes
  <1> QED BY <1>6, <1>7, <1>8, <1>9, <1>10, NotesShown

\* A request that cannot read its summary leaves the sockets as untold; a handshake ends.
LEMMA SummaryFailed ==
    ASSUME NoteInv, NEW r \in Readers, SummaryFails(r)
    PROVE  NoteInv'
  <1>1. NoteTypes /\ SummariesTrue
    BY DEF NoteInv
  <1>2. UNCHANGED <<tables, hub, wishes>> /\ Go(r, Resting_) /\ hub' \subseteq Sockets
    BY <1>1 DEF SummaryFails, NoteTypes
  <1>3. CASE r \in Sockets
    <2>1. socket' = [socket EXCEPT ![r].state = "closed"]
      BY <1>3 DEF SummaryFails
    <2>2. DOMAIN socket' = Sockets
      BY <1>1, <2>1 DEF NoteTypes
    <2>3. r \notin Clients
      BY <1>3, SocketsAssumption
    <2>4. ASSUME NEW s \in Sockets
          PROVE  /\ DOMAIN socket'[s] = SocketFields /\ socket'[s].state \in {"closed", "opening", "open"}
                 /\ socket'[s].told \in BOOLEAN
                 /\ socket'[s].state # "closed" =>
                       s \in hub' /\ ((\A x \in Clients : x # r => ~Telling(x)) => (socket'[s].told => socket'[s].shows = Unread))
      <3>1. CASE s = r
        BY <1>1, <2>1, <3>1 DEF NoteTypes, SocketFields
      <3>2. CASE s # r
        BY <1>1, <1>2, <2>1, <2>3, <3>2 DEF NoteTypes, SummariesTrue, Current
      <3> QED BY <3>1, <3>2
    <2> QED BY <1>2, <2>2, <2>4, NotesShown
  <1>4. CASE r \notin Sockets
    <2>1. socket' = [s \in Sockets |-> [socket[s] EXCEPT !.told = FALSE]]
      BY <1>4 DEF SummaryFails, NothingShown
    <2>2. \A s \in Sockets : /\ DOMAIN socket'[s] = SocketFields /\ socket'[s].state = socket[s].state
                             /\ socket'[s].told = FALSE
      BY <1>1, <2>1 DEF NoteTypes, SocketFields
    <2>3. DOMAIN socket' = Sockets
      BY <2>1
    <2>4. \A s \in Sockets : /\ socket[s].state \in {"closed", "opening", "open"}
                             /\ socket[s].state # "closed" => s \in hub
      BY <1>1 DEF NoteTypes, SummariesTrue
    <2> QED BY <1>2, <2>2, <2>3, <2>4, NotesShown
  <1> QED BY <1>3, <1>4

LEMMA SummariesMove ==
    ASSUME NoteInv, NEW r \in Readers, SummarySteps(r)
    PROVE  NoteInv'
  BY SummaryRead, SummaryPushed, SummaryFailed DEF SummarySteps

LEMMA NotesRows ==
    ASSUME NoteInv, NEW r \in Clients, NEW k \in Keys, RowSteps(r, k)
    PROVE  NoteInv'
  <1> r \in Readers
    BY DEF Readers
  <1>1. Call(client[r]) /\ inbox \in [Keys -> InboxRows]
    BY DEF NoteInv, NoteTypes
  <1>2. ASSUME NEW anyway \in BOOLEAN, Announce(r, k, anyway) PROVE NoteInv'
    <2> DEFINE state == IF (preferences[k[1]] \/ anyway) /\ ~inbox[k].exists
                        THEN [pc |-> "create", key |-> k] ELSE Resting_
    <2>1. client[r].pc = "idle" /\ Go(r, state) /\ UNCHANGED <<tables, socket, hub, wishes>>
      BY <1>2 DEF Announce
    <2>2. Call(state) /\ Fresh(state) /\ state.pc \in {"create", "idle"}
      BY RestingCalls DEF Call, Fresh
    <2> HIDE DEF state
    <2> QED BY <2>1, <2>2, NotesRead DEF Telling
  <1>3. ASSUME NEW dismiss \in BOOLEAN, StartMark(r, k, dismiss) PROVE NoteInv'
    <2>1. PICK state : /\ client[r].pc = "idle" /\ Go(r, state) /\ UNCHANGED <<tables, socket, hub, wishes>>
                       /\ state \in {[pc |-> "publish"], [pc |-> "mark", key |-> k, dismiss |-> dismiss, seen |-> inbox[k]]}
      BY <1>3 DEF StartMark
    <2>2. Call(state) /\ Fresh(state) /\ state.pc \in {"publish", "mark"}
      BY <2>1, RestingCalls DEF Call, Fresh
    <2> QED BY <2>1, <2>2, NotesRead DEF Telling
  <1>4. CASE Create(r)
    <2> DEFINE state == IF inbox[client[r].key].exists THEN Resting_ ELSE [pc |-> "created", key |-> client[r].key]
    <2>1. client[r].pc = "create" /\ Go(r, state) /\ UNCHANGED <<tables, socket, hub, wishes>>
      BY <1>4 DEF Create
    <2>2. client[r].key \in Keys
      BY <1>1, <2>1 DEF Call
    <2>3. Call(state) /\ Fresh(state) /\ state.pc \in {"created", "idle"}
      BY <2>2, RestingCalls DEF Call, Fresh
    <2> HIDE DEF state
    <2> QED BY <2>1, <2>3, NotesRead DEF Telling
  <1>5. CASE RollBack(r)
    <2>1. client[r].pc \in {"create", "created"} /\ Go(r, Resting_) /\ UNCHANGED <<tables, socket, hub, wishes>>
      BY <1>5 DEF RollBack
    <2> QED BY <2>1, RestingCalls, NotesRead DEF Telling
  <1>6. CASE CommitCreated(r)
    <2>1. /\ client[r].pc = "created" /\ inbox' = [inbox EXCEPT ![client[r].key] = Row]
          /\ UNCHANGED <<person, preferences, socket, hub, wishes>> /\ Go(r, [pc |-> "publish"])
      BY <1>6 DEF CommitCreated
    <2>2. Row \in InboxRows
      BY DEF Row, InboxRows
    <2>3. inbox' \in [Keys -> InboxRows]
      BY <1>1, <2>1, <2>2
    <2> DEFINE state == [pc |-> "publish"]
    <2>4. state.pc = "publish" /\ Go(r, state) /\ state \in {Resting_, [pc |-> "publish"]}
      BY <2>1
    <2> HIDE DEF state
    <2> QED BY <2>1, <2>3, <2>4, NotesChange DEF Telling
  <1>7. CASE Mark(r)
    <2> DEFINE q == client[r].key
               state == IF inbox[q].exists THEN [pc |-> "publish"] ELSE Resting_
    <2>1. /\ client[r].pc = "mark"
          /\ inbox' = IF inbox[q].exists THEN [inbox EXCEPT ![q] = Marked(r, @)] ELSE inbox
          /\ UNCHANGED <<person, preferences, notices, receipts, socket, hub, wishes>> /\ Go(r, state)
         
      BY <1>7 DEF Mark
    <2>2. q \in Keys /\ client[r].dismiss \in BOOLEAN
      BY <1>1, <2>1 DEF Call
    <2>3. inbox' \in [Keys -> InboxRows]
      <3>1. ASSUME inbox[q].exists PROVE Marked(r, inbox[q]) \in InboxRows
        <4>1. inbox[q] \in InboxRows /\ inbox[q] # NoRow
          BY <1>1, <2>2, <3>1 DEF NoRow
        <4>2. PICK row : row = inbox[q]
          OBVIOUS
        <4>3. /\ row \in [exists : {TRUE}, read : BOOLEAN, dismissed : BOOLEAN, expired : BOOLEAN, old : BOOLEAN]
              /\ row.old => row.expired
          BY <4>1, <4>2 DEF InboxRows
        <4>4. PICK d \in BOOLEAN : d = client[r].dismiss
          BY <2>2
        <4>5. [row EXCEPT !.read = TRUE, !.dismissed = @ \/ d] \in InboxRows
          BY <4>3 DEF InboxRows
        <4>6. Marked(r, inbox[q]) = [row EXCEPT !.read = TRUE, !.dismissed = @ \/ d]
          BY <4>2, <4>4 DEF Marked
        <4> QED BY <4>5, <4>6
      <3>2. PICK p \in Keys : p = q
        BY <2>2
      <3> HIDE DEF q
      <3> QED BY <1>1, <2>1, <3>1, <3>2
    <2>4. state \in {Resting_, [pc |-> "publish"]}
      OBVIOUS
    <2>5. state.pc # "publish" => UNCHANGED <<person, inbox, notices, receipts>>
      BY <2>1
    <2> HIDE DEF q, state
    <2> QED BY <2>1, <2>3, <2>4, <2>5, SameUnread, NotesChange DEF Telling
  <1>8. CASE MarkAll(r)
    <2>1. /\ client[r].pc = "idle"
          /\ inbox' = [x \in Keys |-> IF Listed(x) THEN [inbox[x] EXCEPT !.read = TRUE] ELSE inbox[x]]
          /\ UNCHANGED <<person, preferences, socket, hub, wishes>> /\ Go(r, [pc |-> "publish"])
      BY <1>8 DEF MarkAll
    <2>2. ASSUME NEW x \in Keys, Listed(x) PROVE [inbox[x] EXCEPT !.read = TRUE] \in InboxRows
      <3>1. inbox[x] \in InboxRows /\ inbox[x] # NoRow
        BY <1>1, <2>2 DEF Listed, NoRow
      <3>2. PICK row : row = inbox[x]
        OBVIOUS
      <3>3. /\ row \in [exists : {TRUE}, read : BOOLEAN, dismissed : BOOLEAN, expired : BOOLEAN, old : BOOLEAN]
            /\ row.old => row.expired
        BY <3>1, <3>2 DEF InboxRows
      <3> QED BY <3>2, <3>3 DEF InboxRows
    <2>3. inbox' \in [Keys -> InboxRows]
      BY <1>1, <2>1, <2>2
    <2> DEFINE state == [pc |-> "publish"]
    <2>4. state.pc = "publish" /\ Go(r, state) /\ state \in {Resting_, [pc |-> "publish"]}
      BY <2>1
    <2> HIDE DEF state
    <2> QED BY <2>1, <2>3, <2>4, NotesChange DEF Telling
  <1> HIDE DEF Keys
  <1> QED BY <1>2, <1>3, <1>4, <1>5, <1>6, <1>7, <1>8, SummariesMove DEF RowSteps

LEMMA NotesReceipts ==
    ASSUME NoteInv, NEW r \in Clients, NoticeSteps(r)
    PROVE  NoteInv'
  <1> r \in Readers
    BY DEF Readers
  <1>1. inbox \in [Keys -> InboxRows]
    BY DEF NoteInv, NoteTypes
  <1>2. ASSUME NEW a \in Announcements, NEW dismiss \in BOOLEAN, StartReceipt(r, a, dismiss) PROVE NoteInv'
    <2>1. PICK state : /\ client[r].pc = "idle" /\ Go(r, state) /\ UNCHANGED <<tables, socket, hub, wishes>>
                       /\ state \in {[pc |-> "publish"], [pc |-> "receipt", notice |-> a, dismiss |-> dismiss]}
      BY <1>2 DEF StartReceipt
    <2>2. Call(state) /\ Fresh(state) /\ state.pc \in {"publish", "receipt"}
      BY <2>1, RestingCalls DEF Call, Fresh
    <2> QED BY <2>1, <2>2, NotesRead DEF Telling
  <1>3. CASE Receipt(r)
    <2> DEFINE state == [pc |-> "publish"]
    <2>1. /\ client[r].pc = "receipt" /\ UNCHANGED <<person, preferences, inbox, socket, hub, wishes>> /\ Go(r, state)
         
      BY <1>3 DEF Receipt
    <2>2. state.pc = "publish" /\ state \in {Resting_, [pc |-> "publish"]}
      OBVIOUS
    <2> HIDE DEF state
    <2> QED BY <1>1, <2>1, <2>2, NotesChange DEF Telling
  <1> QED BY <1>2, <1>3, SummariesMove DEF NoticeSteps

\* A patch writes what it named, and over what it had read of the rest.
LEMMA NotesPatched ==
    ASSUME NoteInv, NEW r \in Clients, PreferenceSteps(r)
    PROVE  NoteInv'
  <1> r \in Readers
    BY DEF Readers
  <1>1. NoteTypes /\ SummariesTrue /\ PreferencesKept
    BY DEF NoteInv
  <1>2. ASSUME NEW asked \in Patches, StartPatch(r, asked) PROVE NoteInv'
    <2> DEFINE state == [pc |-> "patch", prefs |-> Merged(asked), asked |-> asked, before |-> preferences]
    <2>1. client[r].pc = "idle" /\ Go(r, state) /\ UNCHANGED <<tables, socket, hub, wishes>>
      BY <1>2 DEF StartPatch
    <2>2. Merged(asked) = Laid(asked, preferences)
      BY DEF Merged, Laid
    <2>3. Call(state) /\ Fresh(state) /\ state.pc = "patch"
      BY <1>1, <2>2 DEF Call, Fresh, NoteTypes
    <2> HIDE DEF state
    <2> QED BY <2>1, <2>3, NotesRead DEF Telling
  <1>3. CASE Patch(r)
    <2>1. PICK asked, before, prefs :
             asked = client[r].asked /\ before = client[r].before /\ prefs = client[r].prefs
      OBVIOUS
    <2>2. /\ client[r].pc = "patch" /\ preferences' = prefs
          /\ wishes' = [wanted |-> [c \in Categories |-> IF c \in DOMAIN asked THEN asked[c] ELSE wishes.wanted[c]],
                        lost |-> {c \in Categories \ DOMAIN asked : c \in wishes.lost \/ before[c] # preferences[c]}]
          /\ UNCHANGED <<person, inbox, notices, receipts, socket, hub>> /\ Go(r, Resting_)
      BY <1>3, <2>1 DEF Patch
    <2>3. asked \in Patches /\ before \in [Categories -> BOOLEAN] /\ prefs = Laid(asked, before)
      BY <1>1, <2>1, <2>2 DEF NoteTypes, Call
    <2>4. PICK named \in SUBSET Categories : asked \in [named -> BOOLEAN]
      BY <2>3 DEF Patches
    <2>5. wishes.wanted \in [Categories -> BOOLEAN] /\ wishes.lost \subseteq Categories
      BY <1>1 DEF NoteTypes
    <2>6. preferences' \in [Categories -> BOOLEAN]
      <3>1. \A c \in Categories : c \in DOMAIN asked => asked[c] \in BOOLEAN
        BY <2>4
      <3> QED BY <2>2, <2>3, <3>1 DEF Laid
    <2>7. wishes' \in [wanted : [Categories -> BOOLEAN], lost : SUBSET Categories]
      <3>1. [c \in Categories |-> IF c \in DOMAIN asked THEN asked[c] ELSE wishes.wanted[c]] \in [Categories -> BOOLEAN]
        <4>1. \A c \in Categories : c \in DOMAIN asked => asked[c] \in BOOLEAN
          BY <2>4
        <4> QED BY <2>5, <4>1
      <3> QED BY <2>2, <3>1
    <2>8. PreferencesKept'
      <3> SUFFICES ASSUME NEW c \in Categories, c \notin wishes'.lost PROVE preferences'[c] = wishes'.wanted[c]
        BY DEF PreferencesKept
      <3>1. CASE c \in DOMAIN asked
        <4>1. preferences'[c] = asked[c]
          BY <2>2, <2>3, <3>1 DEF Laid
        <4>2. wishes'.wanted[c] = asked[c]
          BY <2>2, <3>1
        <4> QED BY <4>1, <4>2
      <3>2. CASE c \notin DOMAIN asked
        <4>1. preferences'[c] = before[c]
          BY <2>2, <2>3, <3>2 DEF Laid
        <4>2. wishes'.wanted[c] = wishes.wanted[c]
          BY <2>2, <3>2
        <4>3. c \notin wishes.lost /\ before[c] = preferences[c]
          BY <2>2, <3>2
        <4>4. preferences[c] = wishes.wanted[c]
          BY <1>1, <4>3 DEF PreferencesKept
        <4> QED BY <4>1, <4>2, <4>3, <4>4
      <3> QED BY <3>1, <3>2
    <2>9. Unread' = Unread /\ \A c : Fresh(c)' <=> Fresh(c)
      BY <2>2, SameUnread
    <2>10. /\ DOMAIN client' = Readers /\ client'[r] = Resting_ /\ \A x \in Readers : Call(client'[x])
           /\ \A x \in Readers : x # r => client'[x] = client[x]
      BY <1>1, <2>2, <2>9, RestingCalls, Goes
    <2>11. NoteTypes'
      BY <1>1, <2>2, <2>6, <2>7, <2>10 DEF NoteTypes
    <2>12. \A x \in Clients : Telling(x) => Telling(x)'
      BY <2>2, <2>10 DEF Telling, Readers
    <2>13. ASSUME NEW x \in Readers PROVE Fresh(client[x])'
      <3>1. PICK c : c = client'[x]
        OBVIOUS
      <3>2. Fresh(c)
        BY <1>1, <2>10, <3>1, RestingCalls DEF SummariesTrue
      <3> QED BY <2>9, <3>1, <3>2 DEF Fresh
    <2>14. SummariesTrue'
      BY <1>1, <2>2, <2>9, <2>12, <2>13 DEF SummariesTrue, Current
    <2> QED BY <2>8, <2>11, <2>14 DEF NoteInv
  <1> QED BY <1>2, <1>3 DEF PreferenceSteps

LEMMA NotesSockets ==
    ASSUME NoteInv, NEW s \in Sockets, Connect(s) \/ Close(s)
    PROVE  NoteInv'
  <1>1. NoteTypes /\ SummariesTrue /\ PreferencesKept
    BY DEF NoteInv
  <1>2. CASE Connect(s)
    <2> DEFINE state == [pc |-> "publish"]
               new == [state |-> "opening", shows |-> NoSummary, told |-> FALSE]
    <2>1. /\ hub' = hub \cup {s} /\ UNCHANGED <<tables, wishes>> /\ Go(s, state)
          /\ socket' = [socket EXCEPT ![s] = new]
      BY <1>2 DEF Connect
    <2>2. DOMAIN new = SocketFields /\ new.state = "opening" /\ new.told = FALSE
      BY DEF SocketFields
    <2>3. state \in {Resting_, [pc |-> "publish"]} /\ s \in Readers /\ s \notin Clients
      BY SocketsAssumption DEF Readers
    <2>4. /\ DOMAIN socket' = Sockets /\ socket'[s] = new /\ \A t \in Sockets : t # s => socket'[t] = socket[t]
          /\ hub' \subseteq Sockets
      BY <1>1, <2>1 DEF NoteTypes
    <2> HIDE DEF state, new
    <2>5. ASSUME NEW t \in Sockets
          PROVE  /\ DOMAIN socket'[t] = SocketFields /\ socket'[t].state \in {"closed", "opening", "open"}
                 /\ socket'[t].told \in BOOLEAN
                 /\ socket'[t].state # "closed" =>
                       t \in hub' /\ ((\A x \in Clients : x # s => ~Telling(x)) => (socket'[t].told => socket'[t].shows = Unread))
      <3>1. CASE t = s
        BY <2>1, <2>2, <2>4, <3>1
      <3>2. CASE t # s
        BY <1>1, <2>1, <2>3, <2>4, <3>2 DEF NoteTypes, SummariesTrue, Current
      <3> QED BY <3>1, <3>2
    <2> QED BY <2>1, <2>3, <2>4, <2>5, NotesShown
  <1>3. CASE Close(s)
    <2>1. /\ hub' = IF socket[s].state = "open" THEN hub \ {s} ELSE hub
          /\ socket' = [socket EXCEPT ![s].state = "closed"]
          /\ UNCHANGED <<person, preferences, inbox, notices, receipts, client, wishes>>
      BY <1>3 DEF Close, tables
    <2>2. /\ DOMAIN socket' = Sockets /\ socket'[s] = [socket[s] EXCEPT !.state = "closed"]
          /\ \A t \in Sockets : t # s => socket'[t] = socket[t]
      BY <1>1, <2>1 DEF NoteTypes
    <2>3. DOMAIN socket'[s] = SocketFields /\ socket'[s].state = "closed" /\ socket'[s].told = socket[s].told
      BY <1>1, <2>2 DEF NoteTypes, SocketFields
    <2>4. hub' \subseteq Sockets /\ \A t \in Sockets : t # s => (t \in hub' <=> t \in hub)
      BY <1>1, <2>1 DEF NoteTypes
    <2>5. ASSUME NEW t \in Sockets
          PROVE  DOMAIN socket'[t] = SocketFields /\ socket'[t].state \in {"closed", "opening", "open"}
                 /\ socket'[t].told \in BOOLEAN
      BY <1>1, <2>2, <2>3 DEF NoteTypes
    <2>6. NoteTypes'
      BY <1>1, <2>1, <2>2, <2>4, <2>5 DEF NoteTypes
    <2>7. Unread' = Unread /\ UnreadRows' = UnreadRows
      BY <2>1, SameUnread
    <2>8. \A x \in Readers : Fresh(client[x])'
      BY <1>1, <2>1, <2>7 DEF SummariesTrue, Fresh
    <2>9. SummariesTrue'
      BY <1>1, <2>1, <2>2, <2>3, <2>4, <2>7, <2>8 DEF SummariesTrue, Current, Telling
    <2> QED BY <1>1, <2>1, <2>6, <2>9 DEF NoteInv, PreferencesKept
  <1> QED BY <1>2, <1>3

LEMMA NotesAdministered ==
    ASSUME NoteInv, AdminSteps \/ ChangePerson \/ CleanUp \/ \E k \in Keys : AgeRow(k)
    PROVE  NoteInv'
  <1>1. inbox \in [Keys -> InboxRows]
    BY DEF NoteInv, NoteTypes
  <1>2. CASE AdminSteps \/ ChangePerson
    <2>1. Untold /\ UNCHANGED <<preferences, inbox, hub, wishes>>
      BY <1>2 DEF AdminSteps, CreateNotice, EndNotice, ChangePerson
    <2> QED BY <1>1, <2>1, NotesUntold
  <1>3. CASE CleanUp
    <2>1. /\ Untold /\ UNCHANGED <<preferences, hub, wishes>>
          /\ inbox' = [k \in Keys |-> IF inbox[k].exists /\ inbox[k].old THEN NoRow ELSE inbox[k]]
      BY <1>3 DEF CleanUp
    <2>2. NoRow \in InboxRows
      BY DEF InboxRows
    <2>3. inbox' \in [Keys -> InboxRows]
      BY <1>1, <2>1, <2>2
    <2> QED BY <2>1, <2>3, NotesUntold
  <1>4. ASSUME NEW k \in Keys, AgeRow(k) PROVE NoteInv'
    <2>1. /\ Untold /\ UNCHANGED <<preferences, hub, wishes>> /\ inbox[k].exists
          /\ inbox' = [inbox EXCEPT ![k] = IF @.expired THEN [@ EXCEPT !.old = TRUE] ELSE [@ EXCEPT !.expired = TRUE]]
      BY <1>4 DEF AgeRow
    <2>2. PICK row : row = inbox[k]
      OBVIOUS
    <2>3. /\ row \in [exists : {TRUE}, read : BOOLEAN, dismissed : BOOLEAN, expired : BOOLEAN, old : BOOLEAN]
          /\ row.old => row.expired
      <3>1. inbox[k] # NoRow
        BY <2>1 DEF NoRow, AgeRow
      <3> QED BY <1>1, <2>2, <3>1 DEF InboxRows
    <2> DEFINE aged == IF row.expired THEN [row EXCEPT !.old = TRUE] ELSE [row EXCEPT !.expired = TRUE]
    <2>4. aged \in InboxRows
      BY <2>3 DEF InboxRows
    <2>5. inbox' = [inbox EXCEPT ![k] = aged]
      BY <2>1, <2>2
    <2> HIDE DEF aged
    <2>6. inbox' \in [Keys -> InboxRows]
      BY <1>1, <2>4, <2>5
    <2> QED BY <2>1, <2>6, NotesUntold
  <1> QED BY <1>2, <1>3, <1>4

LEMMA NotesBegin == NoteInit => NoteInv
  <1> SUFFICES ASSUME NoteInit PROVE NoteInv
    OBVIOUS
  <1>1. /\ preferences \in [Categories -> BOOLEAN] /\ inbox = [k \in Keys |-> NoRow]
        /\ client = [r \in Readers |-> Resting_] /\ hub = {} /\ wishes = [wanted |-> preferences, lost |-> {}]
        /\ socket = [s \in Sockets |-> [state |-> "closed", shows |-> NoSummary, told |-> FALSE]]
    BY DEF NoteInit
  <1>2. inbox \in [Keys -> InboxRows]
    BY <1>1 DEF InboxRows
  <1>3. \A s \in Sockets : DOMAIN socket[s] = SocketFields /\ socket[s].state = "closed" /\ socket[s].told = FALSE
    BY <1>1 DEF SocketFields
  <1>4. NoteTypes
    BY <1>1, <1>2, <1>3, RestingCalls DEF NoteTypes
  <1>5. SummariesTrue
    BY <1>1, <1>3, RestingCalls DEF SummariesTrue
  <1> QED BY <1>1, <1>4, <1>5 DEF NoteInv, PreferencesKept

LEMMA NotesMove == NoteInv /\ [NoteSteps]_noteVars => NoteInv'
  <1> SUFFICES ASSUME NoteInv, [NoteSteps]_noteVars PROVE NoteInv'
    OBVIOUS
  <1>1. CASE UNCHANGED noteVars
    <2>1. UNCHANGED <<person, preferences, inbox, notices, receipts, client, socket, hub, wishes>>
      BY <1>1 DEF noteVars, tables
    <2>2. Unread' = Unread /\ UnreadRows' = UnreadRows
      BY <2>1, SameUnread
    <2>3. NoteTypes'
      BY <2>1 DEF NoteInv, NoteTypes
    <2>4. SummariesTrue'
      BY <2>1, <2>2 DEF NoteInv, SummariesTrue, Current, Telling, Fresh
    <2> QED BY <2>1, <2>3, <2>4 DEF NoteInv, PreferencesKept
  <1>2. CASE SocketSteps
    BY <1>2, NotesSockets, SummariesMove DEF SocketSteps, Readers
  <1>3. CASE NoteSteps
    BY <1>2, <1>3, NotesRows, NotesReceipts, NotesPatched, NotesAdministered DEF NoteSteps
  <1> QED BY <1>1, <1>3

\* An open socket is subscribed and, once no request or handshake has more to push, the last summary it was
\* sent is what is unread unless it was already stale when it was sent, a change's push failed, or nothing
\* pushes the change, for any requests, sockets and announcements (publishSummary of
\* notifications.service.ts and the handshake of notifications.websocket.ts).
THEOREM PushesStayTrue == NoteSpec => []PushedIsTrue
  <1>1. NoteInv => PushedIsTrue
    <2> SUFFICES ASSUME NoteInv PROVE PushedIsTrue
      OBVIOUS
    <2>1. NoteTypeOK
      <3>1. \A k \in Keys : inbox[k].exists /\ inbox[k].old => inbox[k].expired
        <4> SUFFICES ASSUME NEW k \in Keys, inbox[k].exists, inbox[k].old PROVE inbox[k].expired
          OBVIOUS
        <4>1. inbox[k] \in InboxRows /\ inbox[k] # NoRow
          BY DEF NoteInv, NoteTypes, NoRow
        <4> QED BY <4>1 DEF InboxRows
      <3> QED BY <3>1 DEF NoteInv, NoteTypes, NoteTypeOK, Call
    <2> QED BY <2>1 DEF PushedIsTrue, NoteInv, SummariesTrue, Telling, Current, Readers
  <1> QED BY <1>1, NotesBegin, NotesMove, PTL DEF NoteSpec

\* Every category is muted or not as the last patch that named it asked for, until a patch that does not
\* name it writes over it what it had read before, for any requests and categories (updatePreferences and
\* mergeNotificationPreferences).
THEOREM PatchesStay == NoteSpec => []PreferencesKept
  <1>1. NoteInv => PreferencesKept
    BY DEF NoteInv
  <1> QED BY <1>1, NotesBegin, NotesMove, PTL DEF NoteSpec

----------------------------------------------------------------------------
(* The question bank.                                                      *)
BankRows == [there : {TRUE}, subject : Subjects, free : BOOLEAN, featured : BOOLEAN,
             image : Images \cup {None}, words : BOOLEAN, parent : Questions \cup {None}]

\* A create or an update, and one whose transaction is open.
Saving(e) == ~Rest(e) /\ editor[e].op \in {"create", "update"}
Filling(e) == Saving(e) /\ editor[e].step \in {"lock", "write"}
Writes(e) == Saving(e) /\ editor[e].step = "write"

OldImage(v) == IF v.op = "update" THEN v.seen.image ELSE None
\* What every request under way says, and what an open transaction has prepared.
Asked(v) ==
    /\ "locks" \in DOMAIN v /\ v.locks \in SUBSET Subjects
    /\ v.op \in {"create", "update", "delete", "toggle"}
    /\ v.op \in {"create", "update"} =>
          "draft" \in DOMAIN v /\ v.step \in {"media", "lock", "write", "clean"}
    /\ v.op = "create" => \E qs \in SUBSET Questions : v.draft \in [qs -> NewQuestions]
    /\ v.op = "update" => \E q \in Questions : v.draft \in [{q} -> Changes]
    /\ v.op \in {"update", "delete"} => "seen" \in DOMAIN v /\ v.seen \in BankRows
    /\ v.op \in {"delete", "toggle"} => v.step \in {"write", "clean"} /\ "target" \in DOMAIN v
    /\ v.op = "delete" => v.target \in Questions
    /\ v.op = "toggle" => v.target \in SUBSET Questions /\ v.step = "write"
                          /\ "on" \in DOMAIN v /\ v.on \in BOOLEAN
    /\ v.step = "clean" => "doomed" \in DOMAIN v
Prepared(v) ==
    v.op \in {"create", "update"} /\ v.step \in {"lock", "write"} =>
        /\ {"fresh", "uploaded", "stale"} \subseteq DOMAIN v
        /\ v.fresh \in [Imports(v.draft) -> Images] /\ IsInjective(v.fresh)
        /\ v.uploaded = {v.fresh[q] : q \in DOMAIN v.fresh}
        /\ v.stale = {OldImage(v)} \ ({None} \cup
                         {Resolved(v.draft[q], q, OldImage(v), v.fresh) : q \in DOMAIN v.draft})
Request(v) == {"op", "step"} \subseteq DOMAIN v /\ (v.step # "idle" => Asked(v) /\ Prepared(v))

BankTypes ==
    /\ bank \in [Questions -> BankRows \cup {NoQuestion}]
    /\ DOMAIN editor = Editors /\ \A e \in Editors : Request(editor[e])

\* Locks are held by open transactions alone, each by one, taken in ascending order; who writes
\* has taken all of its own.
LocksTaken ==
    /\ \A e \in Editors : Rest(e) \/ (~Filling(e) /\ editor[e].locks = {}) \/
          /\ Filling(e) /\ editor[e].locks \subseteq LockScopes(e)
          /\ \A s \in editor[e].locks, t \in LockScopes(e) \ editor[e].locks : s < t
          /\ Writes(e) => editor[e].locks = LockScopes(e)
    /\ \A e, f \in Editors : e # f /\ ~Rest(e) /\ ~Rest(f) => editor[e].locks \cap editor[f].locks = {}

\* What a transaction counted still has room when it writes.
RoomLeft ==
    \A e \in Editors, s \in Subjects \ strayed : Writes(e) /\ Gains(e)[s] # {} =>
        Cardinality(InFreePool(bank, s) \ Gains(e)[s]) + Cardinality(Gains(e)[s]) <= PoolCap

PoolInv == BankTypes /\ LocksTaken /\ RoomLeft /\ FreePoolCapped

\* The images a property about imported ones lets go: sent back by a client, or forsaken.
Excused == handed \cup forsaken

\* The images an open transaction has imported, those about to be destroyed, and the one the
\* question an update or a deletion is about showed when it was read.
Uploads(e) == IF Filling(e) THEN editor[e].uploaded ELSE {}
Doomed(e) == IF editor[e].step = "clean" THEN editor[e].doomed ELSE {}
Replaces(e, q, x) ==
    /\ ~Rest(e) /\ editor[e].op \in {"update", "delete"} /\ editor[e].step # "clean"
    /\ q \in (IF editor[e].op = "delete" THEN {editor[e].target} ELSE DOMAIN editor[e].draft)
    /\ x = editor[e].seen.image /\ x # None
Shows(q, x) == q \in There /\ bank[q].image = x /\ x # None

\* An image no client sent back belongs to one question or to one request, and what is about to be
\* destroyed to neither.
ShownApart ==
    \A q \in Questions, x \in Images : Shows(q, x) =>
        /\ x \in minted /\ x \in cloud \cup Excused
        /\ x \notin Excused => \A p \in Questions : Shows(p, x) => p = q
UploadsApart ==
    \A e \in Editors : \A x \in Uploads(e) :
        /\ x \in minted /\ x \in cloud \cup Excused
        /\ x \notin Excused => \A q \in Questions : ~Shows(q, x)
        /\ \A f \in Editors : x \in Uploads(f) => f = e
DoomedApart ==
    \A e \in Editors : \A x \in Doomed(e) :
        /\ x \in minted
        /\ x \notin Excused => (\A q \in Questions : ~Shows(q, x)) /\ \A f \in Editors : x \notin Uploads(f)
ReplacedApart ==
    \A e \in Editors, q \in Questions, x \in Images : Replaces(e, q, x) =>
        /\ x \in minted
        /\ x \notin Excused => /\ \A p \in Questions : Shows(p, x) => p = q
                              /\ \A f \in Editors : x \notin Uploads(f)
GivenHanded(e) ==
    Saving(e) => \A q \in DOMAIN editor[e].draft :
        editor[e].draft[q].image \in Excused \cup {"keep", "text", "clear", "import"}

ImagesApart ==
    /\ cloud \cup Excused \subseteq minted
    /\ ShownApart /\ UploadsApart /\ DoomedApart /\ ReplacedApart /\ \A e \in Editors : GivenHanded(e)

BankInv == PoolInv /\ ImagesApart

LEMMA AmendedFields ==
    ASSUME NEW v, NEW c
    PROVE  /\ DOMAIN Amended(v, c) = DOMAIN v \cup DOMAIN c
           /\ \A x \in DOMAIN c : Amended(v, c)[x] = c[x]
           /\ \A x \in DOMAIN v : x \notin DOMAIN c => Amended(v, c)[x] = v[x]
  BY DEF Amended

\* Requests but e rest unchanged.
OnlyMoves(e) == DOMAIN editor' = Editors /\ \A f \in Editors : f # e => editor'[f] = editor[f]

LEMMA StepMoves ==
    ASSUME DOMAIN editor = Editors, NEW e \in Editors, NEW c, Step(e, c)
    PROVE  OnlyMoves(e) /\ editor'[e] = Amended(editor[e], c)
  BY DEF Step, OnlyMoves

LEMMA DoneMoves ==
    ASSUME DOMAIN editor = Editors, NEW e \in Editors, Done(e)
    PROVE  OnlyMoves(e) /\ editor'[e] = Waiting /\ Request(editor'[e])
  BY DEF Done, OnlyMoves, Waiting, Request

\* The requests that begin.
LEMMA StartsTyped ==
    ASSUME BankTypes, NEW e \in Editors,
           \/ \E qs \in SUBSET Questions : \E draft \in [qs -> NewQuestions] : StartCreate(e, draft)
           \/ \E q \in Questions, form \in Changes : StartUpdate(e, q, form)
           \/ \E q \in Questions : StartDelete(e, q)
           \/ \E qs \in SUBSET Questions, on \in BOOLEAN : StartToggle(e, qs, on)
    PROVE  BankTypes' /\ OnlyMoves(e) /\ Rest(e) /\ ~Rest(e)' /\ editor'[e].locks = {} /\ UNCHANGED <<bank, strayed>>
           /\ (editor'[e].op \in {"create", "update"} => editor'[e].step = "media")
           /\ editor'[e].step # "clean"
  <1>1. DOMAIN editor = Editors /\ {"op", "step"} \subseteq DOMAIN editor[e]
    BY DEF BankTypes, Request
  <1>2. ASSUME NEW c, Step(e, c), UNCHANGED bank, Request(Amended(editor[e], c))
        PROVE  BankTypes' /\ OnlyMoves(e)
    <2>1. OnlyMoves(e) /\ editor'[e] = Amended(editor[e], c)
      BY <1>1, <1>2, StepMoves
    <2>2. \A f \in Editors : Request(editor'[f])
      BY <1>2, <2>1 DEF OnlyMoves, BankTypes
    <2> QED BY <1>2, <2>1, <2>2 DEF BankTypes, OnlyMoves
  <1>3. ASSUME NEW qs \in SUBSET Questions, NEW draft \in [qs -> NewQuestions], StartCreate(e, draft)
        PROVE  BankTypes' /\ OnlyMoves(e) /\ Rest(e) /\ ~Rest(e)' /\ editor'[e].locks = {} /\ UNCHANGED <<bank, strayed>>
               /\ editor'[e].op = "create" /\ editor'[e].step = "media"
    <2> DEFINE c == [op |-> "create", step |-> "media", draft |-> draft, locks |-> {}, doomed |-> {}]
               v == Amended(editor[e], c)
    <2>1. DOMAIN c = {"op", "step", "draft", "locks", "doomed"}
      OBVIOUS
    <2>2. c.op = "create" /\ c.step = "media" /\ c.draft = draft /\ c.locks = {}
      OBVIOUS
    <2>3. Step(e, c) /\ Rest(e) /\ UNCHANGED <<bank, strayed>>
      BY <1>3 DEF StartCreate
    <2> HIDE DEF c
    <2>a. DOMAIN v = DOMAIN editor[e] \cup DOMAIN c /\ \A x \in DOMAIN c : v[x] = c[x]
      BY AmendedFields
    <2> HIDE DEF v
    <2>4. DOMAIN c \subseteq DOMAIN v /\ v.op = "create" /\ v.step = "media" /\ v.draft = draft /\ v.locks = {}
      BY <2>1, <2>2, <2>a
    <2> HIDE DEF v
    <2>5. Request(v)
      BY <2>1, <2>4 DEF Request, Asked, Prepared
    <2>6. BankTypes' /\ OnlyMoves(e) /\ editor'[e] = v
      BY <1>1, <1>2, <2>3, <2>5, StepMoves DEF v
    <2> QED BY <2>3, <2>4, <2>6 DEF Rest
  <1>4. ASSUME NEW q \in Questions, NEW form \in Changes, StartUpdate(e, q, form)
        PROVE  BankTypes' /\ OnlyMoves(e) /\ Rest(e) /\ ~Rest(e)' /\ editor'[e].locks = {} /\ UNCHANGED <<bank, strayed>>
               /\ editor'[e].op = "update" /\ editor'[e].step = "media"
    <2> DEFINE c == [op |-> "update", step |-> "media", draft |-> [x \in {q} |-> form], seen |-> bank[q],
                     locks |-> {}, doomed |-> {}]
               v == Amended(editor[e], c)
    <2>1. DOMAIN c = {"op", "step", "draft", "seen", "locks", "doomed"}
      OBVIOUS
    <2>2. c.op = "update" /\ c.step = "media" /\ c.draft = [x \in {q} |-> form] /\ c.locks = {} /\ c.seen = bank[q]
      OBVIOUS
    <2>3. Step(e, c) /\ Rest(e) /\ UNCHANGED <<bank, strayed>> /\ q \in There
      BY <1>4 DEF StartUpdate
    <2> HIDE DEF c
    <2>a. DOMAIN v = DOMAIN editor[e] \cup DOMAIN c /\ \A x \in DOMAIN c : v[x] = c[x]
      BY AmendedFields
    <2> HIDE DEF v
    <2>4. DOMAIN c \subseteq DOMAIN v /\ v.op = "update" /\ v.step = "media" /\ v.draft = [x \in {q} |-> form]
          /\ v.locks = {} /\ v.seen = bank[q]
      BY <2>1, <2>2, <2>a
    <2>5. bank[q] \in BankRows
      BY <2>3 DEF BankTypes, There, NoQuestion
    <2>6. v.draft \in [{q} -> Changes]
      BY <2>4
    <2> HIDE DEF v
    <2>7. Request(v)
      BY <2>1, <2>4, <2>5, <2>6 DEF Request, Asked, Prepared
    <2>8. BankTypes' /\ OnlyMoves(e) /\ editor'[e] = v
      BY <1>1, <1>2, <2>3, <2>7, StepMoves DEF v
    <2> QED BY <2>3, <2>4, <2>8 DEF Rest
  <1>5. ASSUME NEW q \in Questions, StartDelete(e, q)
        PROVE  BankTypes' /\ OnlyMoves(e) /\ Rest(e) /\ ~Rest(e)' /\ editor'[e].locks = {} /\ UNCHANGED <<bank, strayed>>
               /\ editor'[e].op = "delete" /\ editor'[e].step = "write"
    <2> DEFINE c == [op |-> "delete", step |-> "write", target |-> q, seen |-> bank[q], locks |-> {}]
               v == Amended(editor[e], c)
    <2>1. DOMAIN c = {"op", "step", "target", "seen", "locks"}
      OBVIOUS
    <2>2. c.op = "delete" /\ c.step = "write" /\ c.target = q /\ c.locks = {} /\ c.seen = bank[q]
      OBVIOUS
    <2>3. Step(e, c) /\ Rest(e) /\ UNCHANGED <<bank, strayed>> /\ q \in There
      BY <1>5 DEF StartDelete
    <2> HIDE DEF c
    <2>a. DOMAIN v = DOMAIN editor[e] \cup DOMAIN c /\ \A x \in DOMAIN c : v[x] = c[x]
      BY AmendedFields
    <2> HIDE DEF v
    <2>4. DOMAIN c \subseteq DOMAIN v /\ v.op = "delete" /\ v.step = "write" /\ v.target = q
          /\ v.locks = {} /\ v.seen = bank[q]
      BY <2>1, <2>2, <2>a
    <2>5. bank[q] \in BankRows
      BY <2>3 DEF BankTypes, There, NoQuestion
    <2> HIDE DEF v
    <2>7. Request(v)
      BY <2>1, <2>4, <2>5 DEF Request, Asked, Prepared
    <2>8. BankTypes' /\ OnlyMoves(e) /\ editor'[e] = v
      BY <1>1, <1>2, <2>3, <2>7, StepMoves DEF v
    <2> QED BY <2>3, <2>4, <2>8 DEF Rest
  <1>6. ASSUME NEW qs \in SUBSET Questions, NEW on \in BOOLEAN, StartToggle(e, qs, on)
        PROVE  BankTypes' /\ OnlyMoves(e) /\ Rest(e) /\ ~Rest(e)' /\ editor'[e].locks = {} /\ UNCHANGED <<bank, strayed>>
               /\ editor'[e].op = "toggle" /\ editor'[e].step = "write"
    <2> DEFINE c == [op |-> "toggle", step |-> "write", target |-> qs, on |-> on, locks |-> {}]
               v == Amended(editor[e], c)
    <2>1. DOMAIN c = {"op", "step", "target", "on", "locks"}
      OBVIOUS
    <2>2. c.op = "toggle" /\ c.step = "write" /\ c.target = qs /\ c.locks = {} /\ c.on = on
      OBVIOUS
    <2>3. Step(e, c) /\ Rest(e) /\ UNCHANGED <<bank, strayed>>
      BY <1>6 DEF StartToggle
    <2> HIDE DEF c
    <2>a. DOMAIN v = DOMAIN editor[e] \cup DOMAIN c /\ \A x \in DOMAIN c : v[x] = c[x]
      BY AmendedFields
    <2> HIDE DEF v
    <2>4. DOMAIN c \subseteq DOMAIN v /\ v.op = "toggle" /\ v.step = "write" /\ v.target = qs
          /\ v.locks = {} /\ v.on = on
      BY <2>1, <2>2, <2>a
    <2> HIDE DEF v
    <2>7. Request(v)
      BY <2>1, <2>4 DEF Request, Asked, Prepared
    <2>8. BankTypes' /\ OnlyMoves(e) /\ editor'[e] = v
      BY <1>1, <1>2, <2>3, <2>7, StepMoves DEF v
    <2> QED BY <2>3, <2>4, <2>8 DEF Rest
  <1> QED BY <1>3, <1>4, <1>5, <1>6

Keeps(e) ==
    /\ editor'[e].op = editor[e].op /\ editor'[e].draft = editor[e].draft
    /\ editor[e].op = "update" => editor'[e].seen = editor[e].seen

\* An open transaction goes on.
LEMMA GoesOn ==
    ASSUME BankTypes, NEW e \in Editors, Filling(e), NEW c, Step(e, c),
           DOMAIN c \subseteq {"step", "locks", "doomed"},
           "step" \in DOMAIN c => c.step \in {"lock", "write", "clean"},
           "step" \in DOMAIN c /\ c.step = "clean" => "doomed" \in DOMAIN c,
           "locks" \in DOMAIN c => c.locks \in SUBSET Subjects
    PROVE  /\ OnlyMoves(e) /\ Keeps(e) /\ Request(editor'[e])
           /\ \A x \in DOMAIN c : editor'[e][x] = c[x]
           /\ \A x \in DOMAIN editor[e] : x \notin DOMAIN c => editor'[e][x] = editor[e][x]
           /\ editor'[e].uploaded = editor[e].uploaded
  <1> DEFINE u == editor[e]
             v == editor'[e]
  <1>1. DOMAIN editor = Editors /\ Request(u)
    BY DEF BankTypes
  <1>2. OnlyMoves(e) /\ v = Amended(u, c)
    BY <1>1, StepMoves
  <1>3. /\ DOMAIN v = DOMAIN u \cup DOMAIN c
        /\ \A x \in DOMAIN c : v[x] = c[x]
        /\ \A x \in DOMAIN u : x \notin DOMAIN c => v[x] = u[x]
    BY <1>2 DEF Amended
  <1>4. u.step \in {"lock", "write"} /\ u.op \in {"create", "update"}
    BY DEF Filling, Saving
  <1>a. \E q : q = v
    OBVIOUS
  <1>b. PICK w : w = v
    BY <1>a
  <1>c. PICK o : o = u
    OBVIOUS
  <1>5. {"op", "step", "locks", "draft", "fresh", "uploaded", "stale"} \subseteq DOMAIN o
        /\ (o.op = "update" => "seen" \in DOMAIN o)
    BY <1>1, <1>4, <1>c DEF Request, Asked, Prepared
  <1>d. /\ Request(o) /\ o.step \in {"lock", "write"} /\ o.op \in {"create", "update"}
        /\ DOMAIN w = DOMAIN o \cup DOMAIN c
        /\ \A x \in DOMAIN c : w[x] = c[x]
        /\ \A x \in DOMAIN o : x \notin DOMAIN c => w[x] = o[x]
    BY <1>1, <1>3, <1>4, <1>b, <1>c
  <1> HIDE DEF u, v
  <1>6. /\ w.op = o.op /\ w.draft = o.draft /\ w.fresh = o.fresh /\ w.uploaded = o.uploaded
        /\ w.stale = o.stale /\ (o.op = "update" => w.seen = o.seen)
    BY <1>d, <1>5
  <1>7. w.step \in {"lock", "write", "clean"} /\ w.locks \in SUBSET Subjects
        /\ (w.step = "clean" => "doomed" \in DOMAIN w)
    <2>1. o.locks \in SUBSET Subjects
      BY <1>d DEF Request, Asked, Prepared
    <2> QED BY <1>d, <1>5, <2>1
  <1>8. OldImage(w) = OldImage(o)
    BY <1>6 DEF OldImage
  <1>9. Request(w)
    <2>1. {"op", "step", "locks", "draft", "fresh", "uploaded", "stale"} \subseteq DOMAIN w
          /\ (w.op = "update" => "seen" \in DOMAIN w) /\ w.op \in {"create", "update"}
      BY <1>d, <1>5, <1>6
    <2>2. /\ o.op = "create" => \E qs \in SUBSET Questions : o.draft \in [qs -> NewQuestions]
          /\ o.op = "update" => (\E q \in Questions : o.draft \in [{q} -> Changes]) /\ o.seen \in BankRows
      BY <1>d DEF Request, Asked, Prepared
    <2>3. /\ o.fresh \in [Imports(o.draft) -> Images] /\ IsInjective(o.fresh)
          /\ o.uploaded = {o.fresh[q] : q \in DOMAIN o.fresh}
          /\ o.stale = {OldImage(o)} \ ({None} \cup
                                 {Resolved(o.draft[q], q, OldImage(o), o.fresh) : q \in DOMAIN o.draft})
      BY <1>d DEF Request, Asked, Prepared
    <2>4. Asked(w)
      BY <1>6, <1>7, <2>1, <2>2 DEF Asked
    <2>5. Prepared(w)
      BY <1>6, <1>8, <2>1, <2>3 DEF Prepared
    <2> QED BY <2>1, <2>4, <2>5 DEF Request
  <1> QED BY <1>2, <1>3, <1>6, <1>9, <1>b, <1>c DEF Keeps, u, v

LEMMA RollsBack ==
    ASSUME BankTypes, NEW e \in Editors, Filling(e), RollBackWith(e)
    PROVE  /\ OnlyMoves(e) /\ Request(editor'[e]) /\ editor'[e].op = editor[e].op /\ editor'[e].draft = editor[e].draft
           /\ editor'[e].step = "clean" /\ editor'[e].locks = {} /\ editor'[e].doomed = editor[e].uploaded
  <1> DEFINE c == [step |-> "clean", locks |-> {}, doomed |-> editor[e].uploaded]
  <1>1. DOMAIN c = {"step", "locks", "doomed"} /\ c.step = "clean" /\ c.locks = {} /\ c.doomed = editor[e].uploaded
    OBVIOUS
  <1>2. Step(e, c)
    BY DEF RollBackWith
  <1> HIDE DEF c
  <1> QED BY <1>1, <1>2, GoesOn DEF Keeps

\* The locks and counts of an open transaction.
LEMMA LockingTyped ==
    ASSUME BankTypes, NEW e \in Editors, Filling(e), NEW L \in SUBSET Subjects, Step(e, [locks |-> L])
    PROVE  /\ OnlyMoves(e) /\ Keeps(e) /\ Request(editor'[e]) /\ editor'[e].step = editor[e].step
           /\ editor'[e].locks = L /\ editor'[e].uploaded = editor[e].uploaded
  <1> DEFINE c == [locks |-> L]
  <1>1. DOMAIN c = {"locks"} /\ c.locks = L
    OBVIOUS
  <1>2. "step" \in DOMAIN editor[e]
    BY DEF BankTypes, Request
  <1> HIDE DEF c
  <1>3. Step(e, c)
    BY DEF c
  <1> QED BY <1>1, <1>2, <1>3, GoesOn

LEMMA CountingTyped ==
    ASSUME BankTypes, NEW e \in Editors, Filling(e), Step(e, [step |-> "write"])
    PROVE  /\ OnlyMoves(e) /\ Keeps(e) /\ Request(editor'[e]) /\ editor'[e].step = "write"
           /\ editor'[e].locks = editor[e].locks /\ editor'[e].uploaded = editor[e].uploaded
  <1> DEFINE c == [step |-> "write"]
  <1>1. DOMAIN c = {"step"} /\ c.step = "write"
    OBVIOUS
  <1>2. "locks" \in DOMAIN editor[e]
    BY DEF BankTypes, Request, Asked, Filling, Saving, Rest
  <1> HIDE DEF c
  <1>3. Step(e, c)
    BY DEF c
  <1> QED BY <1>1, <1>2, <1>3, GoesOn

\* The media of a create or an update.
LEMMA PreparingTyped ==
    ASSUME BankTypes, NEW e \in Editors, NEW qs \in SUBSET Questions, NEW fresh \in [qs -> Images],
           PrepareMedia(e, fresh)
    PROVE  /\ BankTypes' /\ OnlyMoves(e) /\ Keeps(e) /\ Saving(e) /\ ~Filling(e) /\ Filling(e)'
           /\ editor'[e].step = "lock" /\ editor'[e].locks = editor[e].locks
           /\ editor'[e].uploaded = {fresh[q] : q \in DOMAIN fresh}
           /\ UNCHANGED <<bank, strayed>>
  <1> DEFINE u == editor[e]
             new == {fresh[q] : q \in DOMAIN fresh}
             old == OldImage(u)
             stale == {old} \ ({None} \cup {Resolved(u.draft[q], q, old, fresh) : q \in DOMAIN u.draft})
             c == [step |-> "lock", fresh |-> fresh, uploaded |-> new, stale |-> stale]
             v == Amended(u, c)
  <1>1. DOMAIN editor = Editors /\ Request(u) /\ u.step = "media"
    BY DEF BankTypes, PrepareMedia
  <1>2. Step(e, c) /\ UNCHANGED <<bank, strayed>> /\ DOMAIN fresh = Imports(u.draft) /\ IsInjective(fresh)
    BY DEF PrepareMedia, OldImage
  <1>3. u.op \in {"create", "update"} /\ {"op", "step", "locks", "draft"} \subseteq DOMAIN u
        /\ (u.op = "update" => "seen" \in DOMAIN u /\ u.seen \in BankRows /\ \E q \in Questions : u.draft \in [{q} -> Changes])
        /\ (u.op = "create" => \E s \in SUBSET Questions : u.draft \in [s -> NewQuestions])
        /\ u.locks \in SUBSET Subjects
    BY <1>1 DEF Request, Asked, Prepared
  <1>4. DOMAIN c = {"step", "fresh", "uploaded", "stale"} /\ c.step = "lock" /\ c.fresh = fresh /\ c.uploaded = new
        /\ c.stale = stale
    OBVIOUS
  <1> HIDE DEF c, stale, new
  <1>5. /\ DOMAIN v = DOMAIN u \cup DOMAIN c
        /\ \A x \in DOMAIN c : v[x] = c[x]
        /\ \A x \in DOMAIN u : x \notin DOMAIN c => v[x] = u[x]
    BY AmendedFields
  <1> HIDE DEF v
  <1>6. /\ v.op = u.op /\ v.draft = u.draft /\ v.locks = u.locks /\ (u.op = "update" => v.seen = u.seen)
        /\ v.step = "lock" /\ v.fresh = fresh /\ v.uploaded = new /\ v.stale = stale
        /\ {"op", "step", "locks", "draft", "fresh", "uploaded", "stale"} \subseteq DOMAIN v
        /\ (u.op = "update" => "seen" \in DOMAIN v)
    BY <1>3, <1>4, <1>5
  <1>7. OldImage(v) = old
    BY <1>6 DEF OldImage
  <1>8. fresh \in [Imports(u.draft) -> Images]
    BY <1>2
  <1>9. /\ v.fresh \in [Imports(v.draft) -> Images] /\ IsInjective(v.fresh)
        /\ v.uploaded = {v.fresh[q] : q \in DOMAIN v.fresh}
        /\ v.stale = {OldImage(v)} \ ({None} \cup
                                 {Resolved(v.draft[q], q, OldImage(v), v.fresh) : q \in DOMAIN v.draft})
    BY <1>2, <1>6, <1>7, <1>8 DEF stale, new
  <1> HIDE DEF u
  <1>10. Request(v)
    BY <1>3, <1>6, <1>9 DEF Request, Asked, Prepared
  <1>11. OnlyMoves(e) /\ editor'[e] = v
    BY <1>1, <1>2, StepMoves DEF v, u
  <1>12. BankTypes'
    BY <1>2, <1>10, <1>11 DEF BankTypes, OnlyMoves
  <1> QED BY <1>1, <1>2, <1>3, <1>6, <1>11, <1>12 DEF Keeps, Saving, Filling, Rest, u, new

LEMMA ResolvedImage ==
    ASSUME NEW form, NEW q, NEW old, NEW fresh
    PROVE  /\ form.image \in {"keep", "text"} => Resolved(form, q, old, fresh) = old
           /\ form.image = "clear" => Resolved(form, q, old, fresh) = None
           /\ form.image = "import" => Resolved(form, q, old, fresh) = fresh[q]
           /\ form.image \notin {"keep", "text", "clear", "import"} => Resolved(form, q, old, fresh) = form.image
  BY DEF Resolved

LEMMA ResolvedTyped ==
    ASSUME NEW form, form.image \in Images \cup {"keep", "text", "clear", "import"}, NEW q, NEW old \in Images \cup {None},
           NEW fresh, form.image = "import" => fresh[q] \in Images
    PROVE  Resolved(form, q, old, fresh) \in Images \cup {None}
  BY ResolvedImage

\* What a create that finds its parents and its ids free writes.
LEMMA CreateWrites ==
    ASSUME BankTypes, NEW e \in Editors, Writes(e), editor[e].op = "create",
           \A q \in DOMAIN editor[e].draft : q \notin There,
           bank' = [q \in Questions |-> IF q \in DOMAIN editor[e].draft THEN NewRow(e, q) ELSE bank[q]]
    PROVE  /\ bank' \in [Questions -> BankRows \cup {NoQuestion}]
           /\ \A s \in Subjects : InFreePool(bank', s) \subseteq InFreePool(bank, s) \cup Gains(e)[s]
           /\ \A q \in Questions : q \in There' =>
                 \/ q \in There /\ bank'[q].image = bank[q].image
                 \/ /\ q \in DOMAIN editor[e].draft
                    /\ bank'[q].image = Resolved(editor[e].draft[q], q, None, editor[e].fresh)
  <1> DEFINE d == editor[e].draft
  <1>1. Request(editor[e]) /\ editor[e].step = "write" /\ editor[e].op = "create"
    BY DEF BankTypes, Writes
  <1>2. PICK qs \in SUBSET Questions : d \in [qs -> NewQuestions]
    BY <1>1 DEF Request, Asked
  <1>3. editor[e].fresh \in [Imports(d) -> Images]
    BY <1>1 DEF Request, Prepared
  <1>4. ASSUME NEW q \in qs
        PROVE  /\ NewRow(e, q) \in BankRows /\ NewRow(e, q).subject = d[q].subject /\ ~NewRow(e, q).featured
               /\ NewRow(e, q).free = (d[q].pool = "free")
               /\ NewRow(e, q).image = Resolved(d[q], q, None, editor[e].fresh)
    <2> DEFINE i == Resolved(d[q], q, None, editor[e].fresh)
    <2>1. d[q] \in NewQuestions
      BY <1>2
    <2>2. d[q].image \in Images \cup {"clear", "import"} /\ d[q].subject \in Subjects
          /\ d[q].parent \in Questions \cup {None} /\ d[q].words \in BOOLEAN
      BY <2>1 DEF NewQuestions
    <2>3. d[q].image = "import" => editor[e].fresh[q] \in Images
      BY <1>2, <1>3 DEF Imports
    <2>4. i \in Images \cup {None}
      BY <2>2, <2>3, ResolvedTyped
    <2>5. NewRow(e, q) = [there |-> TRUE, subject |-> d[q].subject, free |-> d[q].pool = "free", featured |-> FALSE,
                          parent |-> d[q].parent, image |-> i, words |-> d[q].words]
      BY DEF NewRow
    <2> HIDE DEF i, d
    <2>6. NewRow(e, q) \in BankRows
      BY <2>2, <2>4, <2>5 DEF BankRows
    <2> QED BY <2>5, <2>6 DEF i, d
  <1>5. DOMAIN d = qs
    BY <1>2
  <1>6. bank' = [q \in Questions |-> IF q \in qs THEN NewRow(e, q) ELSE bank[q]]
    BY <1>5
  <1>7. bank \in [Questions -> BankRows \cup {NoQuestion}]
    BY DEF BankTypes
  <1>8. bank' \in [Questions -> BankRows \cup {NoQuestion}]
    BY <1>4, <1>6, <1>7
  <1>9. ASSUME NEW s \in Subjects, NEW q \in InFreePool(bank', s)
        PROVE  q \in InFreePool(bank, s) \cup Gains(e)[s]
    <2>1. q \in Questions /\ bank'[q].subject = s /\ (bank'[q].free \/ bank'[q].featured) /\ bank'[q].there
      BY DEF InFreePool
    <2>2. CASE q \in qs
      <3>1. d[q].subject = s /\ d[q].pool = "free"
        BY <1>4, <1>6, <2>1, <2>2
      <3>2. q \in {p \in DOMAIN d : d[p].pool = "free" /\ d[p].subject = s}
        BY <1>5, <2>2, <3>1
      <3>3. Gains(e)[s] = {p \in DOMAIN d : d[p].pool = "free" /\ d[p].subject = s}
        BY <1>1 DEF Gains
      <3> QED BY <3>2, <3>3
    <2>3. CASE q \notin qs
      BY <1>6, <2>1, <2>3 DEF InFreePool
    <2> QED BY <2>2, <2>3
  <1>10. ASSUME NEW q \in Questions, q \in There'
         PROVE  \/ q \in There /\ bank'[q].image = bank[q].image
                \/ q \in DOMAIN d /\ bank'[q].image = Resolved(d[q], q, None, editor[e].fresh)
    <2>1. bank'[q].there
      BY <1>10 DEF There
    <2>2. CASE q \in qs
      BY <1>4, <1>5, <1>6, <2>2
    <2>3. CASE q \notin qs
      BY <1>6, <2>1, <2>3 DEF There
    <2> QED BY <2>2, <2>3
  <1> QED BY <1>8, <1>9, <1>10

LEMMA NewImageTyped ==
    ASSUME BankTypes, NEW e \in Editors, Writes(e), editor[e].op = "update", NEW q \in There,
           editor[e].draft \in [{q} -> Changes]
    PROVE  NewImage(e, q) \in Images \cup {None}
  <1> DEFINE form == editor[e].draft[q]
             seen == editor[e].seen.image
             fresh == editor[e].fresh
  <1>1. Request(editor[e]) /\ editor[e].step = "write" /\ editor[e].seen \in BankRows
    BY DEF BankTypes, Writes, Request, Asked
  <1>2. form \in Changes
    OBVIOUS
  <1>3. form.image \in Images \cup {"keep", "text", "clear", "import"}
    BY <1>2 DEF Changes
  <1>4. fresh \in [Imports(editor[e].draft) -> Images]
    BY <1>1 DEF Request, Prepared
  <1>5. form.image = "import" => fresh[q] \in Images
    BY <1>4 DEF Imports
  <1>6. bank[q] \in BankRows
    BY DEF BankTypes, There, NoQuestion
  <1>7. seen \in Images \cup {None} /\ bank[q].image \in Images \cup {None}
    BY <1>1, <1>6 DEF BankRows
  <1>8. \A old \in Images \cup {None} : Resolved(form, q, old, fresh) \in Images \cup {None}
    BY <1>3, <1>5, ResolvedTyped
  <1> QED BY <1>7, <1>8 DEF NewImage

\* What an update writes: a row that moved on since it was read, or is featured, counts as strayed.
LEMMA UpdateWrites ==
    ASSUME BankTypes, NEW e \in Editors, WriteUpdate(e), Writes(e), NEW q \in Questions,
           editor[e].draft \in [{q} -> Changes], Writable(e, q)
    PROVE  /\ bank' \in [Questions -> BankRows \cup {NoQuestion}]
           /\ strayed \subseteq strayed'
           /\ \A s \in Subjects \ strayed' : InFreePool(bank', s) \subseteq InFreePool(bank, s) \cup Gains(e)[s]
           /\ \A p \in Questions : p # q => bank'[p] = bank[p]
           /\ bank'[q].there /\ bank'[q].image = NewImage(e, q)
           /\ Committed(e, Step(e, [step |-> "clean", locks |-> {}, doomed |-> editor[e].stale]), Restored(e, q))
  <1> DEFINE d == editor[e].draft
             form == d[q]
             i == NewImage(e, q)
             w == IF Rewrites(e, q) THEN form.words ELSE bank[q].words
             subject == IF form.subject = 0 THEN bank[q].subject ELSE form.subject
             row == [bank[q] EXCEPT !.subject = subject, !.free = TargetFree(e, q), !.image = i, !.words = w]
             drifted == bank[q].subject # editor[e].seen.subject \/ bank[q].free # editor[e].seen.free
  <1>1. DOMAIN d = {q} /\ (CHOOSE x \in DOMAIN d : TRUE) = q /\ q \in There
    BY DEF Writable
  <1>2. /\ editor[e].op = "update" /\ bank' = [bank EXCEPT ![q] = row]
        /\ strayed' = strayed \cup (IF drifted \/ row.featured THEN {row.subject} ELSE {})
        /\ Committed(e, Step(e, [step |-> "clean", locks |-> {}, doomed |-> editor[e].stale]), Restored(e, q))
    BY <1>1 DEF WriteUpdate
  <1>3. Request(editor[e]) /\ editor[e].step = "write" /\ editor[e].seen \in BankRows
    BY <1>2 DEF BankTypes, Writes, Request, Asked
  <1>4. form \in Changes
    BY <1>1
  <1>5. form.subject \in Subjects \cup {0} /\ form.words \in BOOLEAN
    BY <1>4 DEF Changes
  <1>8. bank \in [Questions -> BankRows \cup {NoQuestion}] /\ bank[q] \in BankRows
    BY <1>1 DEF BankTypes, There, NoQuestion
  <1>9. bank[q].subject \in Subjects /\ bank[q].words \in BOOLEAN
    BY <1>8 DEF BankRows
  <1>10. i \in Images \cup {None}
    BY <1>1, <1>2, NewImageTyped
  <1>11. subject \in Subjects /\ TargetFree(e, q) \in BOOLEAN /\ w \in BOOLEAN
    <2>1. editor[e].seen.free \in BOOLEAN
      BY <1>3 DEF BankRows
    <2> QED BY <1>5, <1>9, <2>1 DEF TargetFree
  <1> DEFINE free == TargetFree(e, q)
  <1>12. subject = IF form.subject = 0 THEN bank[q].subject ELSE form.subject
    OBVIOUS
  <1>13. free = TargetFree(e, q)
    OBVIOUS
  <1> HIDE DEF i, subject, free, w
  <1>14. row = [bank[q] EXCEPT !.subject = subject, !.free = free, !.image = i, !.words = w]
    BY <1>13
  <1>15. /\ row \in BankRows /\ row.there /\ row.subject = subject /\ row.free = free /\ row.image = i
         /\ row.featured = bank[q].featured
    BY <1>8, <1>10, <1>11, <1>13 DEF BankRows
  <1> HIDE DEF row
  <1>16. bank' \in [Questions -> BankRows \cup {NoQuestion}] /\ bank'[q] = row
         /\ \A p \in Questions : p # q => bank'[p] = bank[p]
    BY <1>2, <1>8, <1>15
  <1>17. ASSUME NEW s \in Subjects \ strayed', NEW p \in InFreePool(bank', s)
         PROVE  p \in InFreePool(bank, s) \cup Gains(e)[s]
    <2>1. p \in Questions /\ bank'[p].subject = s /\ (bank'[p].free \/ bank'[p].featured) /\ bank'[p].there
      BY DEF InFreePool
    <2>2. CASE p # q
      BY <1>16, <2>1, <2>2 DEF InFreePool
    <2>3. CASE p = q
      <3>1. row.subject = s /\ (row.free \/ row.featured)
        BY <1>16, <2>1, <2>3
      <3>2. ~drifted /\ ~row.featured
        BY <1>2, <1>17, <3>1
      <3>3. TargetFree(e, q) /\ TargetSubject(e, q) = s
        BY <1>12, <1>13, <1>15, <3>1, <3>2 DEF TargetSubject
      <3>4. Gains(e)[s] = {x \in DOMAIN d : TargetFree(e, x) /\ TargetSubject(e, x) = s}
        BY <1>2 DEF Gains
      <3> QED BY <1>1, <2>3, <3>3, <3>4
    <2> QED BY <2>2, <2>3
  <1>18. strayed \subseteq strayed'
    BY <1>2
  <1> QED BY <1>2, <1>15, <1>16, <1>17, <1>18 DEF i

\* A transaction that committed and is taken for failed, or ends as it should.
LEMMA CommittedEnds ==
    ASSUME NEW e \in Editors, NEW answer, NEW restored, Committed(e, answer, restored)
    PROVE  /\ forsaken \cup restored \subseteq forsaken'
           /\ \/ answer /\ forsaken' = forsaken \cup restored
              \/ RollBackWith(e) /\ forsaken' = forsaken \cup restored \cup editor[e].uploaded
  BY DEF Committed

\* Deleting and featuring; featuring strays.
LEMMA DeleteWrites ==
    ASSUME BankTypes, NEW q \in Questions,
           bank' = [c \in Questions |-> IF c = q THEN NoQuestion
                                        ELSE IF c \in Children(q) THEN [bank[c] EXCEPT !.parent = None] ELSE bank[c]]
    PROVE  /\ bank' \in [Questions -> BankRows \cup {NoQuestion}]
           /\ \A s \in Subjects : InFreePool(bank', s) \subseteq InFreePool(bank, s)
           /\ q \notin There'
           /\ \A p \in Questions : p \in There' => p \in There /\ bank'[p].image = bank[p].image
  <1>1. bank \in [Questions -> BankRows \cup {NoQuestion}]
    BY DEF BankTypes
  <1>2. ASSUME NEW c \in Questions, c \in Children(q)
        PROVE  /\ [bank[c] EXCEPT !.parent = None] \in BankRows
               /\ [bank[c] EXCEPT !.parent = None].subject = bank[c].subject
               /\ [bank[c] EXCEPT !.parent = None].free = bank[c].free
               /\ [bank[c] EXCEPT !.parent = None].featured = bank[c].featured
               /\ [bank[c] EXCEPT !.parent = None].image = bank[c].image /\ bank[c].there
    <2>1. bank[c] \in BankRows /\ bank[c].there
      BY <1>1, <1>2 DEF Children, There, NoQuestion
    <2> QED BY <2>1 DEF BankRows
  <1>3. bank' \in [Questions -> BankRows \cup {NoQuestion}]
    BY <1>1, <1>2
  <1>4. ASSUME NEW p \in Questions, bank'[p].there
        PROVE  /\ p # q /\ bank[p].there /\ bank'[p].image = bank[p].image /\ bank'[p].subject = bank[p].subject
               /\ bank'[p].free = bank[p].free /\ bank'[p].featured = bank[p].featured
    <2>1. p # q
      BY <1>4 DEF NoQuestion
    <2> QED BY <1>2, <1>4, <2>1
  <1> QED BY <1>3, <1>4 DEF InFreePool, There

LEMMA ToggleWrites ==
    ASSUME BankTypes, NEW e \in Editors, WriteToggle(e)
    PROVE  /\ BankTypes' /\ OnlyMoves(e) /\ editor'[e] = Waiting /\ strayed \subseteq strayed'
           /\ \A s \in Subjects \ strayed' : InFreePool(bank', s) \subseteq InFreePool(bank, s)
           /\ \A p \in Questions : p \in There' => p \in There /\ bank'[p].image = bank[p].image
  <1> DEFINE qs == editor[e].target \cap There
  <1>1. /\ bank' = [q \in Questions |-> IF q \in qs THEN [bank[q] EXCEPT !.featured = editor[e].on] ELSE bank[q]]
        /\ strayed' = strayed \cup (IF editor[e].on THEN {bank[q].subject : q \in qs} ELSE {})
        /\ Done(e)
    BY DEF WriteToggle
  <1>2. editor[e].on \in BOOLEAN
    BY DEF BankTypes, Request, Asked, WriteToggle
  <1>3. bank \in [Questions -> BankRows \cup {NoQuestion}]
    BY DEF BankTypes
  <1>4. PICK on \in BOOLEAN : on = editor[e].on
    BY <1>2
  <1>5. ASSUME NEW q \in qs
        PROVE  LET row == [bank[q] EXCEPT !.featured = on] IN
               /\ row \in BankRows /\ row.there /\ row.subject = bank[q].subject /\ row.free = bank[q].free
               /\ row.image = bank[q].image /\ row.featured = on /\ bank[q].there
    <2>1. bank[q] \in BankRows /\ bank[q].there
      BY <1>3 DEF There, NoQuestion
    <2> QED BY <2>1 DEF BankRows
  <1>6. qs \subseteq Questions
    BY DEF There
  <1>7. PICK Q : Q = qs
    OBVIOUS
  <1>8. bank' = [q \in Questions |-> IF q \in Q THEN [bank[q] EXCEPT !.featured = on] ELSE bank[q]]
    BY <1>1, <1>4, <1>7
  <1>9. \A q \in Q : LET row == [bank[q] EXCEPT !.featured = on] IN
               /\ row \in BankRows /\ row.there /\ row.subject = bank[q].subject /\ row.free = bank[q].free
               /\ row.image = bank[q].image /\ row.featured = on /\ bank[q].there
    BY <1>5, <1>7
  <1>10. strayed' = strayed \cup (IF on THEN {bank[q].subject : q \in Q} ELSE {}) /\ Q \subseteq Questions
    BY <1>1, <1>4, <1>6, <1>7
  <1> HIDE DEF qs
  <1>11. bank' \in [Questions -> BankRows \cup {NoQuestion}]
    BY <1>3, <1>8, <1>9
  <1>12. DOMAIN editor = Editors
    BY DEF BankTypes
  <1>13. OnlyMoves(e) /\ editor'[e] = Waiting /\ Request(editor'[e])
    BY <1>1, <1>12, DoneMoves
  <1>14. BankTypes'
    BY <1>11, <1>13 DEF BankTypes, OnlyMoves
  <1>15. ASSUME NEW s \in Subjects \ strayed', NEW p \in InFreePool(bank', s)
         PROVE  p \in InFreePool(bank, s)
    <2>1. p \in Questions /\ bank'[p].subject = s /\ (bank'[p].free \/ bank'[p].featured) /\ bank'[p].there
      BY DEF InFreePool
    <2>2. CASE p \in Q
      <3>1. bank[p].subject = s /\ bank[p].there /\ bank'[p].free = bank[p].free /\ bank'[p].featured = on
        BY <1>8, <1>9, <2>1, <2>2
      <3>2. ~on
        BY <1>10, <1>15, <2>2, <3>1
      <3> QED BY <2>1, <3>1, <3>2 DEF InFreePool
    <2>3. CASE p \notin Q
      BY <1>8, <2>1, <2>3 DEF InFreePool
    <2> QED BY <2>2, <2>3
  <1>16. ASSUME NEW p \in Questions, p \in There'
         PROVE  p \in There /\ bank'[p].image = bank[p].image
    <2>1. bank'[p].there
      BY <1>16 DEF There
    <2> QED BY <1>8, <1>9, <2>1 DEF There
  <1>17. strayed \subseteq strayed'
    BY <1>10
  <1> QED BY <1>13, <1>14, <1>15, <1>16, <1>17

----------------------------------------------------------------------------
(* The subject locks and the cap of the free pool.                         *)

LEMMA SmallestIn ==
    ASSUME NEW S \in SUBSET Nat, S # {}
    PROVE  Min(S) \in S /\ \A y \in S : Min(S) <= y
  <1>1. \E x \in S : \A y \in S : ~(<<y, x>> \in OpToRel(<, Nat))
    BY NatLessThanWellFounded, WFMin, Zenon
  <1>2. PICK x \in S : \A y \in S : ~(<<y, x>> \in OpToRel(<, Nat))
    BY <1>1, Zenon
  <1>3. ASSUME NEW y \in S PROVE x <= y
    <2>1. x \in Nat /\ y \in Nat
      OBVIOUS
    <2>2. ~(y < x)
      BY <1>2, <2>1, Zenon DEF OpToRel
    <2> QED BY <2>1, <2>2
  <1> QED BY <1>3 DEF Min

LEMMA SameGains ==
    ASSUME NEW e \in Editors, Saving(e), Keeps(e)
    PROVE  Gains(e)' = Gains(e) /\ LockScopes(e)' = LockScopes(e)
  <1>1. editor[e].op \in {"create", "update"}
    BY DEF Saving
  <1>2. ASSUME editor[e].op = "create" PROVE Gains(e)' = Gains(e)
    BY <1>2 DEF Keeps, Gains
  <1>3. ASSUME editor[e].op = "update" PROVE Gains(e)' = Gains(e)
    BY <1>3 DEF Keeps, Gains, TargetFree, TargetSubject
  <1>4. Gains(e)' = Gains(e)
    BY <1>1, <1>2, <1>3
  <1> QED BY <1>1, <1>4 DEF Keeps, LockScopes

\* Nothing about a request that did not move is another.
LEMMA OthersStay ==
    ASSUME NEW e \in Editors, OnlyMoves(e), NEW f \in Editors, f # e
    PROVE  /\ editor'[f] = editor[f] /\ Rest(f)' = Rest(f) /\ Saving(f)' = Saving(f) /\ Filling(f)' = Filling(f)
           /\ Writes(f)' = Writes(f)
           /\ Gains(f)' = Gains(f) /\ LockScopes(f)' = LockScopes(f)
  <1>1. editor'[f] = editor[f]
    BY DEF OnlyMoves
  <1>2. Gains(f)' = Gains(f)
    BY <1>1 DEF Gains, TargetFree, TargetSubject
  <1> QED BY <1>1, <1>2 DEF Rest, Saving, Filling, Writes, LockScopes

\* What LocksTaken asks of one request.
LocksOf(e) ==
    \/ Rest(e)
    \/ ~Filling(e) /\ editor[e].locks = {}
    \/ /\ Filling(e) /\ editor[e].locks \subseteq LockScopes(e)
       /\ \A s \in editor[e].locks, t \in LockScopes(e) \ editor[e].locks : s < t
       /\ Writes(e) => editor[e].locks = LockScopes(e)

LEMMA LocksMove ==
    ASSUME LocksTaken, NEW e \in Editors, OnlyMoves(e), LocksOf(e)',
           ~Rest(e)' => \A s \in editor'[e].locks : \A f \in Editors \ {e} : ~Rest(f) => s \notin editor[f].locks
    PROVE  LocksTaken'
  <1>1. \A f \in Editors : LocksOf(f)'
    <2> SUFFICES ASSUME NEW f \in Editors, f # e PROVE LocksOf(f)'
      OBVIOUS
    <2>1. LocksOf(f)
      BY DEF LocksTaken, LocksOf
    <2> QED BY <2>1, OthersStay DEF LocksOf
  <1>2. \A f, g \in Editors : f # g /\ ~Rest(f)' /\ ~Rest(g)' => editor'[f].locks \cap editor'[g].locks = {}
    <2> SUFFICES ASSUME NEW f \in Editors, NEW g \in Editors, f # g, ~Rest(f)', ~Rest(g)'
                 PROVE  editor'[f].locks \cap editor'[g].locks = {}
      OBVIOUS
    <2>1. CASE f # e /\ g # e
      BY <2>1, OthersStay DEF LocksTaken
    <2>2. CASE f = e
      BY <2>2, OthersStay
    <2>3. CASE g = e
      BY <2>3, OthersStay
    <2> QED BY <2>1, <2>2, <2>3
  <1> QED BY <1>1, <1>2 DEF LocksTaken, LocksOf

\* A request without locks takes none by resting, beginning, preparing or rolling back.
LEMMA LocksDropped ==
    ASSUME LocksTaken, NEW e \in Editors, OnlyMoves(e),
           Rest(e)' \/ (editor'[e].locks = {} /\ (Filling(e)' => editor'[e].step = "lock"))
    PROVE  LocksTaken'
  <1>1. LocksOf(e)'
    BY DEF LocksOf, Writes, Filling
  <1> QED BY <1>1, LocksMove

\* The smallest subject missing is one nobody else holds.
LEMMA LocksGrow ==
    ASSUME BankTypes, LocksTaken, NEW e \in Editors, LockSubject(e)
    PROVE  LocksTaken' /\ BankTypes' /\ OnlyMoves(e) /\ Filling(e) /\ Keeps(e) /\ ~Writes(e)'
           /\ editor'[e].step = "lock" /\ editor'[e].uploaded = editor[e].uploaded
  <1> DEFINE L == editor[e].locks
             n == NextLock(e)
             left == LockScopes(e) \ L
  <1>1. editor[e].step = "lock" /\ LockScopes(e) # L /\ UNCHANGED bank
        /\ (\A f \in Editors \ {e} : ~Rest(f) => n \notin editor[f].locks)
        /\ Step(e, [locks |-> L \cup {n}])
    BY DEF LockSubject
  <1>2. Filling(e) /\ L \in SUBSET Subjects
    BY <1>1 DEF BankTypes, Request, Asked, Filling, Saving, Rest
  <1>3. L \subseteq LockScopes(e) /\ \A s \in L, t \in left : s < t
    BY <1>2 DEF LocksTaken, Filling, Saving
  <1>4. left \in SUBSET Nat /\ left # {} /\ LockScopes(e) \subseteq Subjects
    <2>1. LockScopes(e) \subseteq Subjects
      <3>1. editor[e].op = "update" => editor[e].seen.subject \in Subjects
        BY <1>2 DEF BankTypes, Request, Asked, Filling, Saving, Rest, BankRows
      <3> QED BY <3>1 DEF LockScopes
    <2> QED BY <1>1, <1>3, <2>1, QuestionBankAssumption
  <1>5. n \in left /\ \A t \in left : n <= t
    BY <1>4, SmallestIn DEF NextLock
  <1>6. L \cup {n} \in SUBSET Subjects
    BY <1>2, <1>4, <1>5
  <1> DEFINE M == L \cup {n}
  <1>7. M = L \cup {n} /\ M \in SUBSET Subjects /\ Step(e, [locks |-> M])
    BY <1>1, <1>6
  <1> HIDE DEF M
  <1>8. OnlyMoves(e) /\ Keeps(e) /\ Request(editor'[e]) /\ editor'[e].step = editor[e].step
        /\ editor'[e].locks = M /\ editor'[e].uploaded = editor[e].uploaded
    BY <1>2, <1>7, LockingTyped
  <1>9. BankTypes'
    BY <1>1, <1>8 DEF BankTypes, OnlyMoves
  <1>10. LockScopes(e)' = LockScopes(e)
    BY <1>2, <1>8, SameGains DEF Filling
  <1>11. \A s \in M, t \in LockScopes(e) \ M : s < t
    <2> SUFFICES ASSUME NEW s \in M, NEW t \in LockScopes(e) \ M PROVE s < t
      OBVIOUS
    <2>1. t \in left /\ t # n /\ t \in Nat /\ n \in Nat
      BY <1>4, <1>5, <1>7
    <2>2. CASE s = n
      BY <1>5, <2>1, <2>2
    <2>3. CASE s \in L
      BY <1>3, <2>1, <2>3
    <2> QED BY <1>7, <2>2, <2>3
  <1>12. M \subseteq LockScopes(e)
    BY <1>3, <1>5, <1>7
  <1>13. Filling(e)' /\ ~Writes(e)'
    BY <1>1, <1>2, <1>8 DEF Filling, Saving, Rest, Keeps, Writes
  <1>14. LocksOf(e)'
    BY <1>8, <1>10, <1>11, <1>12, <1>13 DEF LocksOf
  <1>15. \A s \in M : \A f \in Editors \ {e} : ~Rest(f) => s \notin editor[f].locks
    <2>1. ~Rest(e)
      BY <1>2 DEF Filling, Saving
    <2>2. \A s \in L : \A f \in Editors \ {e} : ~Rest(f) => s \notin editor[f].locks
      BY <2>1 DEF LocksTaken
    <2> QED BY <1>1, <1>7, <2>2
  <1> QED BY <1>1, <1>2, <1>8, <1>9, <1>13, <1>14, <1>15, LocksMove

LEMMA NoCycle == ASSUME BankTypes, LocksTaken PROVE NoLockCycle
  <1> SUFFICES ASSUME NEW e \in Editors, NEW f \in Editors, e # f, WaitsFor(e, f), WaitsFor(f, e)
               PROVE  FALSE
    BY DEF NoLockCycle
  <1>1. ASSUME NEW g \in Editors, ~Rest(g), editor[g].step = "lock", LockScopes(g) # editor[g].locks
        PROVE  /\ Filling(g) /\ NextLock(g) \in LockScopes(g) \ editor[g].locks
               /\ NextLock(g) \in Nat /\ \A s \in editor[g].locks : s < NextLock(g)
    <2>1. Filling(g)
      BY <1>1 DEF BankTypes, Request, Asked, Filling, Saving, Rest
    <2>2. editor[g].locks \subseteq LockScopes(g)
          /\ \A s \in editor[g].locks, t \in LockScopes(g) \ editor[g].locks : s < t
      BY <2>1 DEF LocksTaken, Filling, Saving
    <2>3. LockScopes(g) \subseteq Subjects
      <3>1. editor[g].op = "update" => editor[g].seen.subject \in Subjects
        BY <1>1 DEF BankTypes, Request, Asked, Rest, BankRows
      <3> QED BY <3>1 DEF LockScopes
    <2>4. LockScopes(g) \ editor[g].locks \in SUBSET Nat /\ LockScopes(g) \ editor[g].locks # {}
      BY <1>1, <2>2, <2>3, QuestionBankAssumption
    <2>5. NextLock(g) \in LockScopes(g) \ editor[g].locks
      BY <2>4, SmallestIn DEF NextLock
    <2> QED BY <2>1, <2>2, <2>4, <2>5
  <1>2. NextLock(e) \in Nat /\ NextLock(f) \in Nat /\ NextLock(f) < NextLock(e)
    BY <1>1 DEF WaitsFor
  <1>3. NextLock(e) < NextLock(f)
    BY <1>1 DEF WaitsFor
  <1> QED BY <1>2, <1>3

----------------------------------------------------------------------------
\* Where what was not strayed only loses questions, or gains those a writing transaction counted.
LEMMA PoolFinite ==
    ASSUME BankTypes
    PROVE  /\ \A s : IsFiniteSet(InFreePool(bank, s))
           /\ \A e \in Editors, s \in Subjects : Saving(e) => IsFiniteSet(Gains(e)[s])
  <1>1. \A s : InFreePool(bank, s) \subseteq Questions
    BY DEF InFreePool
  <1>2. ASSUME NEW e \in Editors, NEW s \in Subjects, Saving(e) PROVE Gains(e)[s] \subseteq Questions
    <2>1. DOMAIN editor[e].draft \subseteq Questions
      BY <1>2 DEF BankTypes, Request, Asked, Saving, Rest
    <2> QED BY <1>2, <2>1 DEF Gains, Saving
  <1> QED BY <1>1, <1>2, FS_Subset, QuestionBankAssumption

LEMMA CountUnion ==
    ASSUME NEW A, NEW B, NEW G, IsFiniteSet(B), IsFiniteSet(G), A \subseteq B \cup G
    PROVE  Cardinality(A) <= Cardinality(B \ G) + Cardinality(G)
           /\ Cardinality(A) \in Nat /\ Cardinality(B \ G) \in Nat /\ Cardinality(G) \in Nat
  <1>1. IsFiniteSet(B \ G) /\ IsFiniteSet((B \ G) \cup G)
    BY FS_Subset, FS_Union
  <1>2. A \subseteq (B \ G) \cup G /\ (B \ G) \cap G = {}
    OBVIOUS
  <1>3. Cardinality((B \ G) \cup G) = Cardinality(B \ G) + Cardinality(G) - Cardinality((B \ G) \cap G)
    BY <1>1, FS_Union
  <1>4. Cardinality((B \ G) \cap G) = 0
    BY <1>2, FS_EmptySet
  <1>5. IsFiniteSet(A) /\ Cardinality(A) <= Cardinality((B \ G) \cup G)
    BY <1>1, <1>2, FS_Subset
  <1>6. Cardinality(A) \in Nat /\ Cardinality(B \ G) \in Nat /\ Cardinality(G) \in Nat
    BY <1>1, <1>5, FS_CardinalityType
  <1> QED BY <1>3, <1>4, <1>5, <1>6

LEMMA PoolKept ==
    ASSUME PoolInv, NEW e \in Editors, OnlyMoves(e), strayed \subseteq strayed', ~Writes(e)',
           \A s \in Subjects \ strayed' :
               InFreePool(bank', s) \subseteq InFreePool(bank, s) \cup (IF Writes(e) THEN Gains(e)[s] ELSE {})
    PROVE  RoomLeft' /\ FreePoolCapped'
  <1>1. ASSUME NEW s \in Subjects \ strayed' PROVE Cardinality(InFreePool(bank', s)) <= PoolCap
    <2>1. s \notin strayed /\ IsFiniteSet(InFreePool(bank, s)) /\ Cardinality(InFreePool(bank, s)) <= PoolCap
      BY PoolFinite DEF PoolInv, FreePoolCapped
    <2>2. PoolCap \in Nat
      BY QuestionBankAssumption
    <2>3. CASE ~Writes(e) \/ Gains(e)[s] = {}
      <3>1. InFreePool(bank', s) \subseteq InFreePool(bank, s)
        BY <2>3
      <3>2. Cardinality(InFreePool(bank', s)) <= Cardinality(InFreePool(bank, s))
            /\ IsFiniteSet(InFreePool(bank', s))
        BY <2>1, <3>1, FS_Subset
      <3>3. Cardinality(InFreePool(bank', s)) \in Nat /\ Cardinality(InFreePool(bank, s)) \in Nat
        BY <2>1, <3>2, FS_CardinalityType
      <3> QED BY <2>1, <2>2, <3>2, <3>3
    <2>4. CASE Writes(e) /\ Gains(e)[s] # {}
      <3>1. IsFiniteSet(Gains(e)[s])
        BY <2>4, PoolFinite DEF PoolInv, Writes
      <3>2. Cardinality(InFreePool(bank, s) \ Gains(e)[s]) + Cardinality(Gains(e)[s]) <= PoolCap
        BY <2>1, <2>4 DEF PoolInv, RoomLeft
      <3>3. InFreePool(bank', s) \subseteq InFreePool(bank, s) \cup Gains(e)[s]
        BY <2>4
      <3>4. /\ Cardinality(InFreePool(bank', s))
                  <= Cardinality(InFreePool(bank, s) \ Gains(e)[s]) + Cardinality(Gains(e)[s])
            /\ Cardinality(InFreePool(bank', s)) \in Nat
            /\ Cardinality(InFreePool(bank, s) \ Gains(e)[s]) \in Nat /\ Cardinality(Gains(e)[s]) \in Nat
        BY <2>1, <3>1, <3>3, CountUnion
      <3> QED BY <2>2, <3>2, <3>4
    <2> QED BY <2>3, <2>4
  <1>2. ASSUME NEW f \in Editors, NEW s \in Subjects \ strayed', Writes(f)', Gains(f)'[s] # {}
        PROVE  Cardinality(InFreePool(bank', s) \ Gains(f)'[s]) + Cardinality(Gains(f)'[s]) <= PoolCap
    <2>1. f # e /\ Writes(f) /\ Gains(f)' = Gains(f)
      BY <1>2, OthersStay
    <2>2. Cardinality(InFreePool(bank, s) \ Gains(f)[s]) + Cardinality(Gains(f)[s]) <= PoolCap
      BY <1>2, <2>1 DEF PoolInv, RoomLeft
    <2>3. InFreePool(bank', s) \subseteq InFreePool(bank, s)
      <3>1. CASE ~Writes(e)
        BY <3>1
      <3>2. CASE Writes(e)
        <4>1. ~Rest(e) /\ ~Rest(f) /\ Filling(e) /\ Filling(f)
          BY <2>1, <3>2 DEF Writes, Saving, Filling
        <4>2. editor[e].locks = LockScopes(e) /\ editor[f].locks = LockScopes(f)
              /\ editor[e].locks \cap editor[f].locks = {}
          BY <2>1, <3>2, <4>1 DEF PoolInv, LocksTaken
        <4>3. s \in LockScopes(f)
          BY <1>2, <2>1 DEF LockScopes
        <4>4. Gains(e)[s] = {}
          BY <4>2, <4>3 DEF LockScopes
        <4> QED BY <3>2, <4>4
      <3> QED BY <3>1, <3>2
    <2>4. IsFiniteSet(InFreePool(bank, s)) /\ IsFiniteSet(Gains(f)[s])
      BY <2>1, PoolFinite DEF PoolInv, Writes
    <2>5. InFreePool(bank', s) \ Gains(f)[s] \subseteq InFreePool(bank, s) \ Gains(f)[s]
          /\ IsFiniteSet(InFreePool(bank, s) \ Gains(f)[s])
      BY <2>3, <2>4, FS_Subset
    <2>6. Cardinality(InFreePool(bank', s) \ Gains(f)[s]) <= Cardinality(InFreePool(bank, s) \ Gains(f)[s])
          /\ IsFiniteSet(InFreePool(bank', s) \ Gains(f)[s])
      BY <2>5, FS_Subset
    <2>7. Cardinality(InFreePool(bank', s) \ Gains(f)[s]) \in Nat
          /\ Cardinality(InFreePool(bank, s) \ Gains(f)[s]) \in Nat /\ Cardinality(Gains(f)[s]) \in Nat
      BY <2>4, <2>5, <2>6, FS_CardinalityType
    <2>8. PoolCap \in Nat
      BY QuestionBankAssumption
    <2> QED BY <2>1, <2>2, <2>6, <2>7, <2>8
  <1>3. RoomLeft'
    BY <1>2 DEF RoomLeft
  <1>4. FreePoolCapped'
    BY <1>1 DEF FreePoolCapped
  <1> QED BY <1>3, <1>4

----------------------------------------------------------------------------
\* The steps of the bank, one by one.
LEMMA PoolStarts ==
    ASSUME PoolInv, NEW e \in Editors,
           \/ \E qs \in SUBSET Questions : \E draft \in [qs -> NewQuestions] : StartCreate(e, draft)
           \/ \E q \in Questions, form \in Changes : StartUpdate(e, q, form)
           \/ \E q \in Questions : StartDelete(e, q)
           \/ \E qs \in SUBSET Questions, on \in BOOLEAN : StartToggle(e, qs, on)
    PROVE  PoolInv'
  <1>1. /\ BankTypes' /\ OnlyMoves(e) /\ ~Rest(e)' /\ editor'[e].locks = {} /\ UNCHANGED <<bank, strayed>>
        /\ (editor'[e].op \in {"create", "update"} => editor'[e].step = "media")
    BY StartsTyped DEF PoolInv
  <1>2. ~Filling(e)' /\ ~Writes(e)'
    BY <1>1 DEF Filling, Writes, Saving
  <1>3. LocksTaken'
    BY <1>1, <1>2, LocksDropped DEF PoolInv
  <1>4. RoomLeft' /\ FreePoolCapped'
    BY <1>1, <1>2, PoolKept
  <1> QED BY <1>1, <1>3, <1>4 DEF PoolInv

LEMMA PoolPrepares ==
    ASSUME PoolInv, NEW e \in Editors, NEW qs \in SUBSET Questions, NEW fresh \in [qs -> Images],
           PrepareMedia(e, fresh)
    PROVE  PoolInv'
  <1>1. /\ BankTypes' /\ OnlyMoves(e) /\ Saving(e) /\ ~Filling(e) /\ editor'[e].step = "lock"
        /\ editor'[e].locks = editor[e].locks /\ UNCHANGED <<bank, strayed>>
    BY PreparingTyped DEF PoolInv
  <1>2. editor[e].locks = {}
    BY <1>1 DEF PoolInv, LocksTaken, Saving
  <1>3. ~Writes(e)'
    BY <1>1 DEF Writes
  <1>4. LocksTaken'
    BY <1>1, <1>2, LocksDropped DEF PoolInv
  <1>5. RoomLeft' /\ FreePoolCapped'
    BY <1>1, <1>3, PoolKept
  <1> QED BY <1>1, <1>4, <1>5 DEF PoolInv

\* A request that ends, or an open transaction that rolls back, leaves the rows alone.
LEMMA PoolRests ==
    ASSUME PoolInv, NEW e \in Editors, Done(e), UNCHANGED <<bank, strayed>>
    PROVE  PoolInv' /\ OnlyMoves(e) /\ editor'[e] = Waiting
  <1>1. OnlyMoves(e) /\ editor'[e] = Waiting /\ Request(editor'[e])
    BY DoneMoves DEF PoolInv, BankTypes
  <1>2. Rest(e)' /\ ~Writes(e)'
    BY <1>1 DEF Rest, Waiting, Writes, Saving
  <1>3. BankTypes'
    BY <1>1 DEF PoolInv, BankTypes, OnlyMoves
  <1>4. LocksTaken'
    BY <1>1, <1>2, LocksDropped DEF PoolInv
  <1>5. RoomLeft' /\ FreePoolCapped'
    BY <1>1, <1>2, PoolKept
  <1> QED BY <1>1, <1>3, <1>4, <1>5 DEF PoolInv

LEMMA PoolRollsBack ==
    ASSUME PoolInv, NEW e \in Editors, Filling(e), RollBackWith(e), UNCHANGED <<bank, strayed>>
    PROVE  PoolInv'
  <1>1. OnlyMoves(e) /\ Request(editor'[e]) /\ editor'[e].step = "clean" /\ editor'[e].locks = {}
    BY RollsBack DEF PoolInv
  <1>2. ~Filling(e)' /\ ~Writes(e)'
    BY <1>1 DEF Filling, Writes
  <1>3. BankTypes'
    BY <1>1 DEF PoolInv, BankTypes, OnlyMoves
  <1>4. LocksTaken'
    BY <1>1, <1>2, LocksDropped DEF PoolInv
  <1>5. RoomLeft' /\ FreePoolCapped'
    BY <1>1, <1>2, PoolKept
  <1> QED BY <1>3, <1>4, <1>5 DEF PoolInv

LEMMA PoolLocks ==
    ASSUME PoolInv, NEW e \in Editors, LockSubject(e)
    PROVE  PoolInv'
  <1>1. LocksTaken' /\ BankTypes' /\ OnlyMoves(e) /\ ~Writes(e)' /\ UNCHANGED <<bank, strayed>>
    BY LocksGrow DEF PoolInv, LockSubject
  <1>2. RoomLeft' /\ FreePoolCapped'
    BY <1>1, PoolKept
  <1> QED BY <1>1, <1>2 DEF PoolInv

LEMMA CountingFills ==
    ASSUME BankTypes, NEW e \in Editors, editor[e].step = "lock"
    PROVE  Filling(e)
  BY DEF BankTypes, Request, Asked, Filling, Saving, Rest

LEMMA PoolCounts ==
    ASSUME PoolInv, NEW e \in Editors, CountPool(e)
    PROVE  PoolInv'
  <1>1. editor[e].step = "lock" /\ LockScopes(e) = editor[e].locks /\ UNCHANGED <<bank, strayed>>
    BY DEF CountPool
  <1>2. Filling(e)
    BY <1>1, CountingFills DEF PoolInv
  <1>3. CASE RollBackWith(e)
    BY <1>1, <1>2, <1>3, PoolRollsBack
  <1>4. CASE HasRoom(e) /\ Step(e, [step |-> "write"])
    <2>1. /\ OnlyMoves(e) /\ Keeps(e) /\ Request(editor'[e]) /\ editor'[e].step = "write"
          /\ editor'[e].locks = editor[e].locks
      BY <1>2, <1>4, CountingTyped DEF PoolInv
    <2>2. BankTypes'
      BY <1>1, <2>1 DEF PoolInv, BankTypes, OnlyMoves
    <2>3. Gains(e)' = Gains(e) /\ LockScopes(e)' = LockScopes(e)
      BY <1>2, <2>1, SameGains DEF Filling
    <2>4. LocksOf(e)'
      <3>1. Filling(e)'
        BY <1>2, <2>1 DEF Filling, Saving, Rest, Keeps
      <3> QED BY <1>1, <2>1, <2>3, <3>1 DEF LocksOf
    <2>5. LocksTaken'
      <3>1. \A s \in editor'[e].locks : \A f \in Editors \ {e} : ~Rest(f) => s \notin editor[f].locks
        BY <1>2, <2>1 DEF PoolInv, LocksTaken, Filling, Saving
      <3> QED BY <2>1, <2>4, <3>1, LocksMove DEF PoolInv
    <2>6. RoomLeft'
      <3> SUFFICES ASSUME NEW f \in Editors, NEW s \in Subjects \ strayed', Writes(f)', Gains(f)'[s] # {}
                   PROVE  Cardinality(InFreePool(bank', s) \ Gains(f)'[s]) + Cardinality(Gains(f)'[s]) <= PoolCap
        BY DEF RoomLeft
      <3>1. CASE f = e
        BY <1>1, <1>4, <2>3, <3>1 DEF HasRoom
      <3>2. CASE f # e
        <4>1. Writes(f) /\ Gains(f)' = Gains(f)
          BY <2>1, <3>2, OthersStay
        <4>2. Cardinality(InFreePool(bank, s) \ Gains(f)[s]) + Cardinality(Gains(f)[s]) <= PoolCap
          BY <1>1, <4>1 DEF PoolInv, RoomLeft
        <4> QED BY <1>1, <4>1, <4>2
      <3> QED BY <3>1, <3>2
    <2>7. FreePoolCapped'
      BY <1>1 DEF PoolInv, FreePoolCapped, InFreePool
    <2> QED BY <2>2, <2>5, <2>6, <2>7 DEF PoolInv
  <1> QED BY <1>3, <1>4 DEF CountPool

LEMMA WritingFills ==
    ASSUME BankTypes, NEW e \in Editors, editor[e].step = "write", editor[e].op \in {"create", "update"}
    PROVE  Filling(e) /\ Writes(e)
  BY DEF Filling, Saving, Rest, Writes

\* What a transaction wrote, once its request is over or about to clean.
LEMMA PoolCommits ==
    ASSUME PoolInv, NEW e \in Editors, Filling(e), OnlyMoves(e), Request(editor'[e]),
           ~Filling(e)', Rest(e)' \/ editor'[e].locks = {}, Writes(e),
           bank' \in [Questions -> BankRows \cup {NoQuestion}], strayed \subseteq strayed',
           \A s \in Subjects \ strayed' : InFreePool(bank', s) \subseteq InFreePool(bank, s) \cup Gains(e)[s]
    PROVE  PoolInv'
  <1>1. ~Writes(e)'
    BY DEF Filling, Writes
  <1>2. BankTypes'
    BY DEF PoolInv, BankTypes, OnlyMoves
  <1>3. LocksTaken'
    BY LocksDropped DEF PoolInv
  <1>4. RoomLeft' /\ FreePoolCapped'
    BY <1>1, PoolKept
  <1> QED BY <1>2, <1>3, <1>4 DEF PoolInv

LEMMA PoolCreates ==
    ASSUME PoolInv, NEW e \in Editors, WriteCreate(e)
    PROVE  PoolInv'
  <1>1. editor[e].op = "create" /\ Filling(e) /\ Writes(e) /\ UNCHANGED strayed
    BY WritingFills DEF WriteCreate, PoolInv
  <1>2. CASE UNCHANGED bank /\ RollBackWith(e)
    BY <1>1, <1>2, PoolRollsBack
  <1>3. CASE /\ \A q \in DOMAIN editor[e].draft : q \notin There
             /\ bank' = [q \in Questions |-> IF q \in DOMAIN editor[e].draft THEN NewRow(e, q) ELSE bank[q]]
             /\ Done(e) \/ RollBackWith(e)
    <2>1. /\ bank' \in [Questions -> BankRows \cup {NoQuestion}]
          /\ \A s \in Subjects : InFreePool(bank', s) \subseteq InFreePool(bank, s) \cup Gains(e)[s]
      BY <1>1, <1>3, CreateWrites DEF PoolInv
    <2>2. OnlyMoves(e) /\ Request(editor'[e]) /\ ~Filling(e)' /\ (Rest(e)' \/ editor'[e].locks = {})
      <3>1. CASE Done(e)
        <4>1. OnlyMoves(e) /\ editor'[e] = Waiting /\ Request(editor'[e])
          BY <3>1, DoneMoves DEF PoolInv, BankTypes
        <4> QED BY <4>1 DEF Rest, Waiting, Filling, Saving
      <3>2. CASE RollBackWith(e)
        BY <1>1, <3>2, RollsBack DEF PoolInv, Filling
      <3> QED BY <1>3, <3>1, <3>2
    <2> QED BY <1>1, <2>1, <2>2, PoolCommits
  <1> QED BY <1>2, <1>3, CommittedEnds DEF WriteCreate

LEMMA PoolUpdates ==
    ASSUME PoolInv, NEW e \in Editors, WriteUpdate(e)
    PROVE  PoolInv'
  <1>1. editor[e].op = "update" /\ Filling(e) /\ Writes(e)
    BY WritingFills DEF WriteUpdate, PoolInv
  <1>2. PICK q \in Questions : editor[e].draft \in [{q} -> Changes]
    BY <1>1 DEF PoolInv, BankTypes, Request, Asked, Filling, Saving, Rest
  <1>3. (CHOOSE x \in DOMAIN editor[e].draft : TRUE) = q
    BY <1>2
  <1>4. CASE ~Writable(e, q)
    <2>1. RollBackWith(e) /\ UNCHANGED <<bank, strayed>>
      BY <1>3, <1>4 DEF WriteUpdate
    <2> QED BY <1>1, <2>1, PoolRollsBack
  <1>5. CASE Writable(e, q)
    <2> DEFINE c == [step |-> "clean", locks |-> {}, doomed |-> editor[e].stale]
    <2>1. /\ bank' \in [Questions -> BankRows \cup {NoQuestion}] /\ strayed \subseteq strayed'
          /\ \A s \in Subjects \ strayed' : InFreePool(bank', s) \subseteq InFreePool(bank, s) \cup Gains(e)[s]
          /\ Committed(e, Step(e, c), Restored(e, q))
      BY <1>1, <1>2, <1>5, UpdateWrites DEF PoolInv
    <2>2. DOMAIN c = {"step", "locks", "doomed"} /\ c.step = "clean" /\ c.locks = {}
      OBVIOUS
    <2>3. Step(e, c) \/ RollBackWith(e)
      BY <2>1 DEF Committed
    <2> HIDE DEF c
    <2>4. OnlyMoves(e) /\ Request(editor'[e]) /\ editor'[e].step = "clean" /\ editor'[e].locks = {}
      <3>1. CASE Step(e, c)
        BY <1>1, <2>2, <3>1, GoesOn DEF PoolInv
      <3>2. CASE RollBackWith(e)
        BY <1>1, <3>2, RollsBack DEF PoolInv
      <3> QED BY <2>3, <3>1, <3>2
    <2>5. ~Filling(e)'
      BY <2>4 DEF Filling
    <2> QED BY <1>1, <2>1, <2>4, <2>5, PoolCommits
  <1> QED BY <1>4, <1>5

LEMMA DeletingTyped ==
    ASSUME BankTypes, NEW e \in Editors, DeleteRow(e)
    PROVE  /\ BankTypes' /\ OnlyMoves(e) /\ (Rest(e)' \/ editor'[e].locks = editor[e].locks)
           /\ ~Rest(e) /\ ~Saving(e) /\ ~Saving(e)' /\ UNCHANGED strayed
           /\ \A s \in Subjects : InFreePool(bank', s) \subseteq InFreePool(bank, s)
           /\ \A p \in Questions : p \in There' => p \in There /\ bank'[p].image = bank[p].image
           /\ editor'[e] = Waiting \/ /\ editor'[e].step = "clean" /\ editor[e].target \notin There'
                                      /\ editor'[e].doomed = {editor[e].seen.image} \ {None}
  <1> DEFINE u == editor[e]
             q == u.target
  <1>1. u.op = "delete" /\ u.step = "write" /\ UNCHANGED strayed
    BY DEF DeleteRow
  <1>2. Request(u) /\ DOMAIN editor = Editors /\ q \in Questions /\ ~Rest(e) /\ ~Saving(e)
        /\ {"op", "step", "locks", "target", "seen"} \subseteq DOMAIN u
        /\ u.seen \in BankRows /\ u.locks \in SUBSET Subjects
    BY <1>1 DEF BankTypes, Request, Asked, Rest, Saving
  <1>3. CASE UNCHANGED bank /\ Done(e)
    <2>1. OnlyMoves(e) /\ editor'[e] = Waiting /\ Request(editor'[e])
      BY <1>2, <1>3, DoneMoves
    <2>2. BankTypes'
      BY <1>3, <2>1 DEF BankTypes, OnlyMoves
    <2> QED BY <1>1, <1>2, <1>3, <2>1, <2>2 DEF Rest, Waiting, Saving, There, InFreePool
  <1>4. CASE /\ bank' = [c \in Questions |-> IF c = q THEN NoQuestion
                                        ELSE IF c \in Children(q) THEN [bank[c] EXCEPT !.parent = None] ELSE bank[c]]
             /\ Step(e, [step |-> "clean", doomed |-> {u.seen.image} \ {None}])
    <2> DEFINE c == [step |-> "clean", doomed |-> {u.seen.image} \ {None}]
               v == Amended(u, c)
    <2>1. /\ bank' \in [Questions -> BankRows \cup {NoQuestion}]
          /\ \A s \in Subjects : InFreePool(bank', s) \subseteq InFreePool(bank, s)
          /\ q \notin There'
          /\ \A p \in Questions : p \in There' => p \in There /\ bank'[p].image = bank[p].image
      BY <1>2, <1>4, DeleteWrites
    <2>2. DOMAIN c = {"step", "doomed"} /\ c.step = "clean" /\ c.doomed = {u.seen.image} \ {None} /\ Step(e, c)
      BY <1>4
    <2> HIDE DEF c
    <2>3. OnlyMoves(e) /\ editor'[e] = v
      BY <1>2, <2>2, StepMoves
    <2>4. /\ DOMAIN v = DOMAIN u \cup DOMAIN c /\ \A x \in DOMAIN c : v[x] = c[x]
          /\ \A x \in DOMAIN u : x \notin DOMAIN c => v[x] = u[x]
      BY DEF Amended
    <2> HIDE DEF v
    <2>5. /\ v.op = "delete" /\ v.target = u.target /\ v.seen = u.seen /\ v.locks = u.locks /\ v.step = "clean"
          /\ v.doomed = {u.seen.image} \ {None}
          /\ {"op", "step", "locks", "target", "seen", "doomed"} \subseteq DOMAIN v
      BY <1>1, <1>2, <2>2, <2>4
    <2>6. Request(v)
      <3>1. Asked(v) /\ Prepared(v)
        BY <1>2, <2>5 DEF Asked, Prepared
      <3> QED BY <2>5, <3>1 DEF Request
    <2>7. BankTypes'
      BY <2>1, <2>3, <2>6 DEF BankTypes, OnlyMoves
    <2> QED BY <1>1, <1>2, <2>1, <2>3, <2>5, <2>7 DEF Rest, Saving
  <1> QED BY <1>3, <1>4 DEF DeleteRow

LEMMA PoolDeletes ==
    ASSUME PoolInv, NEW e \in Editors, DeleteRow(e)
    PROVE  PoolInv'
  <1>1. /\ BankTypes' /\ OnlyMoves(e) /\ (Rest(e)' \/ editor'[e].locks = editor[e].locks)
        /\ ~Rest(e) /\ ~Saving(e) /\ ~Saving(e)' /\ UNCHANGED strayed
        /\ \A s \in Subjects : InFreePool(bank', s) \subseteq InFreePool(bank, s)
    BY DeletingTyped DEF PoolInv
  <1>2. editor[e].locks = {}
    BY <1>1 DEF PoolInv, LocksTaken, Filling
  <1>3. ~Filling(e)' /\ ~Writes(e)'
    BY <1>1 DEF Filling, Writes
  <1>4. LocksTaken'
    BY <1>1, <1>2, <1>3, LocksDropped DEF PoolInv
  <1>5. RoomLeft' /\ FreePoolCapped'
    BY <1>1, <1>3, PoolKept
  <1> QED BY <1>1, <1>4, <1>5 DEF PoolInv

LEMMA PoolToggles ==
    ASSUME PoolInv, NEW e \in Editors, WriteToggle(e)
    PROVE  PoolInv'
  <1>1. /\ BankTypes' /\ OnlyMoves(e) /\ editor'[e] = Waiting /\ strayed \subseteq strayed'
        /\ \A s \in Subjects \ strayed' : InFreePool(bank', s) \subseteq InFreePool(bank, s)
    BY ToggleWrites DEF PoolInv
  <1>2. Rest(e)' /\ ~Writes(e)'
    BY <1>1 DEF Rest, Waiting, Writes, Saving
  <1>3. LocksTaken'
    BY <1>1, <1>2, LocksDropped DEF PoolInv
  <1>4. RoomLeft' /\ FreePoolCapped'
    BY <1>1, <1>2, PoolKept
  <1> QED BY <1>1, <1>3, <1>4 DEF PoolInv

\* Steps about the images, the answers and the history alone.
LEMMA PoolSame ==
    ASSUME PoolInv, UNCHANGED <<bank, editor, strayed>>
    PROVE  PoolInv'
  <1>1. BankTypes'
    BY DEF PoolInv, BankTypes
  <1>2. \A e \in Editors : Gains(e)' = Gains(e)
    BY DEF Gains, TargetFree, TargetSubject
  <1>3. LocksTaken'
    BY <1>2 DEF PoolInv, LocksTaken, LockScopes, Rest, Filling, Saving, Writes
  <1>4. RoomLeft' /\ FreePoolCapped'
    BY <1>2 DEF PoolInv, RoomLeft, FreePoolCapped, InFreePool, Writes, Saving, Rest
  <1> QED BY <1>1, <1>3, <1>4 DEF PoolInv

LEMMA PoolSteps == ASSUME PoolInv, BankSteps PROVE PoolInv'
  <1>1. ASSUME NEW e \in Editors, SaveSteps(e) PROVE PoolInv'
    <2>1. CASE LockSubject(e)
      BY <2>1, PoolLocks
    <2>2. CASE CountPool(e)
      BY <2>2, PoolCounts
    <2>3. CASE WriteCreate(e)
      BY <2>3, PoolCreates
    <2>4. CASE WriteUpdate(e)
      BY <2>4, PoolUpdates
    <2>5. CASE TransactionFails(e)
      <3>1. Filling(e) /\ RollBackWith(e) /\ UNCHANGED <<bank, strayed>>
        BY <2>5 DEF TransactionFails, Filling, Saving, Rest
      <3> QED BY <3>1, PoolRollsBack
    <2>6. CASE Clean(e) \/ EditorDies(e)
      BY <2>6, PoolRests DEF Clean, EditorDies
    <2> QED BY <1>1, <2>1, <2>2, <2>3, <2>4, <2>5, <2>6 DEF SaveSteps
  <1>2. ASSUME NEW e \in Editors, NEW left \in SUBSET Images, PrepareFails(e, left) PROVE PoolInv'
    BY <1>2, PoolRests DEF PrepareFails
  <1>3. ASSUME (\E x \in Images : UploadAsset(x)) \/ \E q \in Questions : Sit(q) PROVE PoolInv'
    BY <1>3, PoolSame DEF UploadAsset, Sit
  <1> QED BY <1>1, <1>2, <1>3, PoolStarts, PoolPrepares, PoolDeletes, PoolToggles DEF BankSteps

LEMMA BankBegins == BankInit => BankInv
  <1> SUFFICES ASSUME BankInit PROVE BankInv
    OBVIOUS
  <1>1. \A e \in Editors : editor[e] = Waiting
    BY DEF BankInit
  <1>2. \A e \in Editors : Request(editor[e]) /\ Rest(e) /\ ~Saving(e) /\ ~Filling(e) /\ ~Writes(e)
    BY <1>1 DEF Waiting, Request, Rest, Saving, Filling, Writes
  <1>3. bank \in [Questions -> BankRows \cup {NoQuestion}]
    <2> DEFINE First == [there : {TRUE}, subject : Subjects, free : BOOLEAN, featured : {FALSE},
                         image : Images \cup {None}, words : BOOLEAN, parent : {None}]
    <2>1. First \subseteq BankRows
      BY DEF BankRows
    <2>2. bank \in [Questions -> {NoQuestion} \cup First]
      BY DEF BankInit
    <2> HIDE DEF First
    <2> QED BY <2>1, <2>2
  <1>4. BankTypes
    <2>1. DOMAIN editor = Editors
      BY DEF BankInit
    <2> QED BY <1>2, <1>3, <2>1 DEF BankTypes
  <1>5. LocksTaken
    BY <1>2 DEF LocksTaken
  <1>6. RoomLeft /\ FreePoolCapped
    BY <1>2 DEF RoomLeft, FreePoolCapped, BankInit
  <1>7. \A e \in Editors : Uploads(e) = {} /\ Doomed(e) = {} /\ \A q \in Questions, x \in Images : ~Replaces(e, q, x)
    BY <1>1, <1>2 DEF Uploads, Doomed, Replaces, Waiting
  <1>8. \A q \in Questions, x \in Images : Shows(q, x) =>
          /\ x \in minted /\ x \in cloud
          /\ \A p \in Questions : Shows(p, x) => p = q
    <2> SUFFICES ASSUME NEW q \in Questions, NEW x \in Images, Shows(q, x)
                 PROVE  x \in minted /\ x \in cloud /\ \A p \in Questions : Shows(p, x) => p = q
      OBVIOUS
    <2>1. bank[q].there /\ bank[q].image = x /\ x # None
      BY DEF Shows, There
    <2>2. x \in cloud /\ x \in minted
      BY <2>1 DEF BankInit
    <2>3. ASSUME NEW p \in Questions, Shows(p, x) PROVE p = q
      <3>1. bank[p].there /\ bank[p].image = x
        BY <2>3 DEF Shows, There
      <3> QED BY <2>1, <3>1 DEF BankInit
    <2> QED BY <2>2, <2>3
  <1>9. cloud \cup Excused \subseteq minted
    BY DEF BankInit, Excused
  <1>10. ImagesApart
    BY <1>2, <1>7, <1>8, <1>9
    DEF ImagesApart, ShownApart, UploadsApart, DoomedApart, ReplacedApart, GivenHanded
  <1> QED BY <1>4, <1>5, <1>6, <1>10 DEF BankInv, PoolInv

\* The subject locks keep the cap of the free pool and never form a cycle, for any requests, questions
\* and subjects (question-pool.ts).
THEOREM FreePoolStaysGuarded == BankSpec => []FreePoolGuarded
  <1>1. BankInit => PoolInv
    BY BankBegins DEF BankInv
  <1>2. PoolInv /\ [BankSteps]_bankVars => PoolInv'
    <2>1. ASSUME PoolInv, UNCHANGED bankVars PROVE PoolInv'
      BY <2>1, PoolSame DEF bankVars
    <2> QED BY <2>1, PoolSteps
  <1>3. PoolInv => FreePoolGuarded
    BY NoCycle DEF PoolInv, FreePoolGuarded
  <1> QED BY <1>1, <1>2, <1>3, PTL DEF BankSpec

----------------------------------------------------------------------------
(* The images.                                                             *)

LEMMA OthersImages ==
    ASSUME NEW e \in Editors, OnlyMoves(e), NEW f \in Editors, f # e
    PROVE  /\ Uploads(f)' = Uploads(f) /\ Doomed(f)' = Doomed(f)
           /\ \A q \in Questions, x \in Images : Replaces(f, q, x)' = Replaces(f, q, x)
           /\ Excused \subseteq Excused' /\ GivenHanded(f) => GivenHanded(f)'
  <1>1. editor'[f] = editor[f] /\ Rest(f)' = Rest(f) /\ Saving(f)' = Saving(f) /\ Filling(f)' = Filling(f)
    BY OthersStay
  <1>2. Uploads(f)' = Uploads(f) /\ Doomed(f)' = Doomed(f)
    BY <1>1 DEF Uploads, Doomed
  <1>3. \A q \in Questions, x \in Images : Replaces(f, q, x)' = Replaces(f, q, x)
    BY <1>1 DEF Replaces
  <1>4. Excused \subseteq Excused' /\ GivenHanded(f) => GivenHanded(f)'
    BY <1>1 DEF GivenHanded
  <1> QED BY <1>2, <1>3, <1>4

LEMMA UploadedImages == ASSUME BankTypes, NEW e \in Editors PROVE Uploads(e) \subseteq Images
  <1>1. CASE ~Filling(e)
    BY <1>1 DEF Uploads
  <1>2. CASE Filling(e)
    BY <1>2 DEF BankTypes, Request, Prepared, Filling, Saving, Rest, Uploads
  <1> QED BY <1>1, <1>2

\* How images may move in a step of one request: what a question newly shows was sent back by a client
\* or imported by this request, which gives it away; what this request newly imports is new; what it is
\* to destroy nobody shows or holds; what it newly replaces is what a question shows; and what leaves
\* the provider was to be destroyed.
LEMMA ImagesMove ==
    ASSUME BankTypes, BankTypes', ImagesApart, NEW e \in Editors, OnlyMoves(e), Excused \subseteq Excused',
           minted \subseteq minted',
           cloud' \cup Excused' \subseteq minted',
           \A q \in Questions, x \in Images : Shows(q, x)' =>
               Shows(q, x) \/ x \in Excused' \/ (x \in Uploads(e) /\ x \notin Uploads(e)'),
           \A p, q \in Questions, x \in Images :
               Shows(p, x)' /\ Shows(q, x)' /\ p # q /\ x \notin Excused' => Shows(p, x) /\ Shows(q, x),
           \A x \in Uploads(e)' : x \in Images /\ (x \in Uploads(e) \/ (x \notin minted /\ x \in minted' /\ x \in cloud')),
           \A x \in Doomed(e)' :
               /\ x \in minted'
               /\ x \notin Excused' => /\ \A q \in Questions : ~Shows(q, x)'
                                      /\ x \notin Uploads(e)' /\ \A f \in Editors : f # e => x \notin Uploads(f),
           \A q \in Questions, x \in Images : Replaces(e, q, x)' => Replaces(e, q, x) \/ Shows(q, x),
           \A x \in cloud : x \in cloud' \/ x \in Excused' \/ x \in Doomed(e),
           GivenHanded(e)'
    PROVE  ImagesApart'
  <1>1. ShownApart'
    <2> SUFFICES ASSUME NEW q \in Questions, NEW x \in Images, Shows(q, x)'
                 PROVE  /\ x \in minted' /\ x \in cloud' \cup Excused'
                        /\ x \notin Excused' => \A p \in Questions : Shows(p, x)' => p = q
      BY DEF ShownApart
    <2>1. CASE x \in Excused'
      BY <2>1
    <2>2. CASE x \notin Excused'
      <3>1. x \in minted /\ x \in cloud \cup Excused /\ (Shows(q, x) \/ x \in Uploads(e))
        BY <2>2 DEF ImagesApart, ShownApart, UploadsApart
      <3>2. x \notin Doomed(e)
        BY <2>2, <3>1 DEF ImagesApart, DoomedApart
      <3>3. \A p \in Questions : Shows(p, x)' => p = q
        BY <2>2 DEF ImagesApart, ShownApart
      <3> QED BY <2>2, <3>1, <3>2, <3>3
    <2> QED BY <2>1, <2>2
  <1>2. ASSUME NEW f \in Editors, NEW x \in Uploads(f), x \notin Excused'
        PROVE  x \in minted' /\ x \in cloud' /\ (f # e \/ x \in Uploads(e)' => \A q \in Questions : ~Shows(q, x)')
    <2>1. x \in Images /\ x \in minted /\ x \in cloud
      BY <1>2, UploadedImages DEF ImagesApart, UploadsApart
    <2>2. x \notin Doomed(e)
      BY <1>2 DEF ImagesApart, DoomedApart
    <2>3. \A q \in Questions : ~Shows(q, x)
      BY <1>2 DEF ImagesApart, UploadsApart
    <2>4. x \in Uploads(e) => f = e
      BY <1>2 DEF ImagesApart, UploadsApart
    <2> QED BY <1>2, <2>1, <2>2, <2>3, <2>4
  <1>3. UploadsApart'
    <2> SUFFICES ASSUME NEW f \in Editors, NEW x \in Uploads(f)'
                 PROVE  /\ x \in minted' /\ x \in cloud' \cup Excused'
                        /\ x \notin Excused' => \A q \in Questions : ~Shows(q, x)'
                        /\ \A g \in Editors : x \in Uploads(g)' => g = f
      BY DEF UploadsApart
    <2>1. CASE x \in Uploads(f)
      <3>1. x \in minted
        BY <2>1 DEF ImagesApart, UploadsApart
      <3>2. \A g \in Editors : x \in Uploads(g)' => x \in Uploads(g)
        BY <3>1, OthersImages
      <3>3. \A g \in Editors : x \in Uploads(g)' => g = f
        BY <2>1, <3>2 DEF ImagesApart, UploadsApart
      <3> QED BY <1>2, <2>1, <3>1, <3>3
    <2>2. CASE x \notin Uploads(f)
      <3>1. f = e /\ x \notin minted /\ x \in minted' /\ x \in cloud' /\ x \in Images
        BY <2>2, OthersImages
      <3>2. \A g \in Editors : x \notin Uploads(g)
        BY <3>1 DEF ImagesApart, UploadsApart
      <3>3. \A g \in Editors : x \in Uploads(g)' => g = e
        BY <3>2, OthersImages
      <3>4. x \notin Excused' => \A q \in Questions : ~Shows(q, x)'
        BY <3>1, <3>2 DEF ImagesApart, ShownApart
      <3> QED BY <3>1, <3>3, <3>4
    <2> QED BY <2>1, <2>2
  <1>4. DoomedApart'
    <2> SUFFICES ASSUME NEW f \in Editors, NEW x \in Doomed(f)'
                 PROVE  /\ x \in minted'
                        /\ x \notin Excused' => /\ \A q \in Questions : ~Shows(q, x)'
                                               /\ \A g \in Editors : x \notin Uploads(g)'
      BY DEF DoomedApart
    <2>1. CASE f = e
      BY <2>1, OthersImages
    <2>2. CASE f # e
      <3>1. x \in Doomed(f)
        BY <2>2, OthersImages
      <3>2. /\ x \in minted
            /\ x \notin Excused => (\A q \in Questions : ~Shows(q, x)) /\ \A g \in Editors : x \notin Uploads(g)
        BY <3>1 DEF ImagesApart, DoomedApart
      <3>3. x \notin Excused' => \A g \in Editors : x \notin Uploads(g)'
        BY <3>2, OthersImages
      <3>4. ASSUME NEW q \in Questions, Shows(q, x)' PROVE x \in Images
        <4>1. bank'[q].there /\ bank'[q].image = x /\ x # None
          BY <3>4 DEF Shows, There
        <4>2. bank'[q] \in BankRows
          BY <4>1 DEF BankTypes, NoQuestion
        <4> QED BY <4>1, <4>2 DEF BankRows
      <3> QED BY <3>1, <3>2, <3>3, <3>4
    <2> QED BY <2>1, <2>2
  <1>5. ReplacedApart'
    <2> SUFFICES ASSUME NEW f \in Editors, NEW q \in Questions, NEW x \in Images, Replaces(f, q, x)'
                 PROVE  /\ x \in minted'
                        /\ x \notin Excused' => /\ \A p \in Questions : Shows(p, x)' => p = q
                                               /\ \A g \in Editors : x \notin Uploads(g)'
      BY DEF ReplacedApart
    <2>1. Replaces(f, q, x) \/ Shows(q, x)
      BY OthersImages
    <2>2. x \in minted
      BY <2>1 DEF ImagesApart, ReplacedApart, ShownApart
    <2>3. x \notin Excused' => \A g \in Editors : x \notin Uploads(g)
      BY <2>1 DEF ImagesApart, ReplacedApart, UploadsApart
    <2>4. x \notin Excused' => \A g \in Editors : x \notin Uploads(g)'
      BY <2>2, <2>3, OthersImages
    <2>5. x \notin Excused' => \A p \in Questions : Shows(p, x) => p = q
      BY <2>1 DEF ImagesApart, ReplacedApart, ShownApart
    <2>6. x \notin Excused' => \A p \in Questions : Shows(p, x)' => p = q
      BY <2>3, <2>5
    <2> QED BY <2>2, <2>4, <2>6
  <1>6. \A f \in Editors : GivenHanded(f)'
    BY OthersImages DEF ImagesApart
  <1> QED BY <1>1, <1>3, <1>4, <1>5, <1>6 DEF ImagesApart

\* Where no row changes: images are imported by others or destroyed as announced, and what this request
\* had imported it keeps or gives up.
LEMMA ImagesKeep ==
    ASSUME BankInv, PoolInv', NEW e \in Editors, OnlyMoves(e), UNCHANGED <<bank, Excused>>,
           minted \subseteq minted', cloud' \subseteq minted', cloud \ Doomed(e) \subseteq cloud',
           Uploads(e)' \subseteq Uploads(e), Doomed(e)' \subseteq Uploads(e), Uploads(e)' \cap Doomed(e)' = {},
           \A q \in Questions, x \in Images : Replaces(e, q, x)' => Replaces(e, q, x),
           GivenHanded(e)'
    PROVE  ImagesApart'
  <1>1. \A q \in Questions : \A x : Shows(q, x)' = Shows(q, x)
    BY DEF Shows, There
  <1>2. BankTypes /\ BankTypes' /\ ImagesApart
    BY DEF BankInv, PoolInv
  <1>3. cloud' \cup Excused' \subseteq minted'
    BY <1>2 DEF ImagesApart
  <1>4. \A x \in Uploads(e)' : x \in Images /\ x \in Uploads(e)
    BY <1>2, UploadedImages
  <1>5. ASSUME NEW x \in Doomed(e)'
        PROVE  /\ x \in minted'
               /\ x \notin Excused' => /\ \A q \in Questions : ~Shows(q, x)'
                                      /\ x \notin Uploads(e)' /\ \A f \in Editors : f # e => x \notin Uploads(f)
    BY <1>1, <1>2 DEF ImagesApart, UploadsApart
  <1> QED BY <1>1, <1>2, <1>3, <1>4, <1>5, ImagesMove

LEMMA WaitingImages ==
    ASSUME NEW e \in Editors, editor'[e] = Waiting
    PROVE  /\ Uploads(e)' = {} /\ Doomed(e)' = {} /\ GivenHanded(e)'
           /\ \A q \in Questions, x \in Images : ~Replaces(e, q, x)'
  BY DEF Waiting, Uploads, Doomed, GivenHanded, Replaces, Filling, Saving, Rest

LEMMA ImagesRest ==
    ASSUME BankInv, PoolInv', NEW e \in Editors, OnlyMoves(e), editor'[e] = Waiting, UNCHANGED <<bank, Excused>>,
           minted \subseteq minted', cloud' \subseteq minted', cloud \ Doomed(e) \subseteq cloud'
    PROVE  ImagesApart'
  BY WaitingImages, ImagesKeep

\* A transaction taken for failed destroys next what it had imported.
LEMMA RolledBack ==
    ASSUME BankInv, NEW e \in Editors, Filling(e), RollBackWith(e), Excused \subseteq Excused'
    PROVE  /\ OnlyMoves(e) /\ Uploads(e)' = {} /\ Doomed(e)' = Uploads(e) /\ GivenHanded(e)'
           /\ \A q \in Questions, x \in Images : ~Replaces(e, q, x)'
  <1>1. /\ OnlyMoves(e) /\ editor'[e].op = editor[e].op /\ editor'[e].draft = editor[e].draft
        /\ editor'[e].step = "clean" /\ editor'[e].doomed = editor[e].uploaded
    BY RollsBack DEF BankInv, PoolInv
  <1>2. Uploads(e)' = {} /\ Doomed(e)' = Uploads(e) /\ \A q \in Questions, x \in Images : ~Replaces(e, q, x)'
    BY <1>1 DEF Uploads, Doomed, Replaces, Filling
  <1>3. GivenHanded(e)'
    BY <1>1 DEF GivenHanded, BankInv, ImagesApart, Filling, Saving
  <1> QED BY <1>1, <1>2, <1>3

LEMMA ImagesRollBack ==
    ASSUME BankInv, PoolInv', NEW e \in Editors, Filling(e), RollBackWith(e), UNCHANGED <<bank, cloud, minted, Excused>>
    PROVE  ImagesApart'
  <1>1. /\ OnlyMoves(e) /\ Uploads(e)' = {} /\ Doomed(e)' = Uploads(e) /\ GivenHanded(e)'
        /\ \A q \in Questions, x \in Images : ~Replaces(e, q, x)'
    BY RolledBack
  <1>2. cloud \subseteq minted
    BY DEF BankInv, ImagesApart
  <1> QED BY <1>1, <1>2, ImagesKeep

\* An open transaction that stays open.
LEMMA ImagesGoOn ==
    ASSUME BankInv, PoolInv', NEW e \in Editors, OnlyMoves(e), Keeps(e), Filling(e), editor'[e].step \in {"lock", "write"},
           editor'[e].uploaded = editor[e].uploaded, UNCHANGED <<bank, cloud, minted, Excused>>
    PROVE  ImagesApart'
  <1>1. Filling(e)'
    BY DEF Keeps, Filling, Saving, Rest
  <1>2. Uploads(e)' = Uploads(e) /\ Doomed(e)' = {}
    BY <1>1 DEF Uploads, Doomed
  <1>3. \A q \in Questions, x \in Images : Replaces(e, q, x)' => Replaces(e, q, x)
    BY DEF Replaces, Keeps, Filling, Saving
  <1>4. GivenHanded(e)'
    BY DEF GivenHanded, BankInv, ImagesApart, Filling, Keeps
  <1>5. cloud \subseteq minted
    BY DEF BankInv, ImagesApart
  <1> QED BY <1>2, <1>3, <1>4, <1>5, ImagesKeep

\* The images no request is about.
LEMMA ImagesSame ==
    ASSUME BankInv, UNCHANGED <<bank, editor, Excused>>, cloud \subseteq cloud', minted \subseteq minted', cloud' \subseteq minted'
    PROVE  ImagesApart'
  <1>1. /\ \A q, x : Shows(q, x)' = Shows(q, x)
        /\ \A e \in Editors : /\ Uploads(e)' = Uploads(e) /\ Doomed(e)' = Doomed(e) /\ GivenHanded(e)' = GivenHanded(e)
                              /\ \A q, x : Replaces(e, q, x)' = Replaces(e, q, x)
    BY DEF Shows, There, Uploads, Doomed, GivenHanded, Replaces, Filling, Saving, Rest
  <1>2. ShownApart'
    BY <1>1 DEF BankInv, ImagesApart, ShownApart
  <1>3. UploadsApart'
    BY <1>1 DEF BankInv, ImagesApart, UploadsApart
  <1>4. DoomedApart'
    BY <1>1 DEF BankInv, ImagesApart, DoomedApart
  <1>5. ReplacedApart'
    BY <1>1 DEF BankInv, ImagesApart, ReplacedApart
  <1> QED BY <1>1, <1>2, <1>3, <1>4, <1>5 DEF BankInv, ImagesApart

LEMMA StepFields ==
    ASSUME DOMAIN editor = Editors, NEW e \in Editors, NEW c, Step(e, c)
    PROVE  \A x \in DOMAIN c : editor'[e][x] = c[x]
  <1>1. editor'[e] = Amended(editor[e], c)
    BY StepMoves
  <1> QED BY <1>1 DEF Amended

\* A request that begins hands over images the provider stores.
LEMMA StartsImages ==
    ASSUME BankInv, PoolInv', NEW e \in Editors,
           \/ \E qs \in SUBSET Questions : \E draft \in [qs -> NewQuestions] : StartCreate(e, draft)
           \/ \E q \in Questions, form \in Changes : StartUpdate(e, q, form)
           \/ \E q \in Questions : StartDelete(e, q)
           \/ \E qs \in SUBSET Questions, on \in BOOLEAN : StartToggle(e, qs, on)
    PROVE  ImagesApart'
  <1>1. /\ BankTypes /\ BankTypes' /\ ImagesApart /\ OnlyMoves(e) /\ UNCHANGED bank
        /\ (editor'[e].op \in {"create", "update"} => editor'[e].step = "media") /\ editor'[e].step # "clean"
    BY StartsTyped DEF BankInv, PoolInv
  <1>2. Uploads(e)' = {} /\ Doomed(e)' = {}
    BY <1>1 DEF Uploads, Doomed, Filling, Saving
  <1>3. ASSUME UNCHANGED <<cloud, minted>>, Excused \subseteq Excused', Excused' \subseteq Excused \cup cloud, GivenHanded(e)',
               \A q \in Questions, x \in Images : Replaces(e, q, x)' => Shows(q, x)
        PROVE  ImagesApart'
    <2>1. cloud' \cup Excused' \subseteq minted'
      BY <1>1, <1>3 DEF ImagesApart
    <2>2. \A q \in Questions : \A x : Shows(q, x)' = Shows(q, x)
      BY <1>1 DEF Shows, There
    <2> QED BY <1>1, <1>2, <1>3, <2>1, <2>2, ImagesMove
  <1>4. DOMAIN editor = Editors
    BY <1>1 DEF BankTypes
  <1>5. ASSUME NEW qs \in SUBSET Questions, NEW draft \in [qs -> NewQuestions], StartCreate(e, draft)
        PROVE  ImagesApart'
    <2> DEFINE c == [op |-> "create", step |-> "media", draft |-> draft, locks |-> {}, doomed |-> {}]
    <2>1. /\ Step(e, c) /\ Excused' = Excused \cup Given(draft) /\ UNCHANGED <<cloud, minted>>
          /\ \A q \in qs : draft[q].image \in cloud \cup {"clear", "import"}
      BY <1>5 DEF StartCreate, Excused
    <2>2. DOMAIN c = {"op", "step", "draft", "locks", "doomed"} /\ c.op = "create" /\ c.draft = draft
      OBVIOUS
    <2> HIDE DEF c
    <2>3. editor'[e].op = "create" /\ editor'[e].draft = draft
      BY <1>4, <2>1, <2>2, StepFields
    <2>4. Given(draft) \subseteq cloud
      BY <2>1, QuestionBankAssumption DEF Given
    <2>5. GivenHanded(e)'
      <3> SUFFICES ASSUME NEW q \in qs PROVE draft[q].image \in Excused' \cup {"keep", "text", "clear", "import"}
        BY <2>3 DEF GivenHanded
      <3>1. draft[q].image \in Images \cup {"clear", "import"}
        <4>1. draft[q] \in NewQuestions
          OBVIOUS
        <4> QED BY <4>1 DEF NewQuestions
      <3> QED BY <2>1, <3>1 DEF Given
    <2>6. \A q \in Questions, x \in Images : ~Replaces(e, q, x)'
      BY <2>3 DEF Replaces
    <2> QED BY <1>3, <2>1, <2>4, <2>5, <2>6
  <1>6. ASSUME NEW q \in Questions, NEW form \in Changes, StartUpdate(e, q, form)
        PROVE  ImagesApart'
    <2> DEFINE draft == [x \in {q} |-> form]
               c == [op |-> "update", step |-> "media", draft |-> draft, seen |-> bank[q], locks |-> {}, doomed |-> {}]
    <2>1. /\ Step(e, c) /\ Excused' = Excused \cup Given(draft) /\ UNCHANGED <<cloud, minted>> /\ q \in There
          /\ form.image \in cloud \cup {"keep", "text", "clear", "import"}
      BY <1>6 DEF StartUpdate, Excused
    <2>2. /\ DOMAIN c = {"op", "step", "draft", "seen", "locks", "doomed"} /\ c.op = "update" /\ c.draft = draft
          /\ c.seen = bank[q]
      OBVIOUS
    <2>a. DOMAIN draft = {q} /\ draft[q] = form
      OBVIOUS
    <2> HIDE DEF c, draft
    <2>3. editor'[e].op = "update" /\ editor'[e].draft = draft /\ editor'[e].seen = bank[q]
      BY <1>4, <2>1, <2>2, StepFields
    <2>4. Given(draft) = {form.image} \cap Images
      BY <2>a DEF Given
    <2>5. Given(draft) \subseteq cloud
      BY <2>1, <2>4, QuestionBankAssumption
    <2>6. GivenHanded(e)'
      <3>1. form.image \in Images \cup {"keep", "text", "clear", "import"}
        BY DEF Changes
      <3> QED BY <2>1, <2>3, <2>4, <2>a, <3>1 DEF GivenHanded
    <2>7. \A p \in Questions, x \in Images : Replaces(e, p, x)' => Shows(p, x)
      BY <2>1, <2>3, <2>a DEF Replaces, Shows
    <2> QED BY <1>3, <2>1, <2>5, <2>6, <2>7
  <1>7. ASSUME NEW q \in Questions, StartDelete(e, q)
        PROVE  ImagesApart'
    <2> DEFINE c == [op |-> "delete", step |-> "write", target |-> q, seen |-> bank[q], locks |-> {}]
    <2>1. Step(e, c) /\ UNCHANGED <<cloud, minted, Excused>> /\ q \in There
      BY <1>7 DEF StartDelete, Excused
    <2>2. DOMAIN c = {"op", "step", "target", "seen", "locks"} /\ c.op = "delete" /\ c.target = q /\ c.seen = bank[q]
      OBVIOUS
    <2> HIDE DEF c
    <2>3. editor'[e].op = "delete" /\ editor'[e].target = q /\ editor'[e].seen = bank[q]
      BY <1>4, <2>1, <2>2, StepFields
    <2>4. GivenHanded(e)' /\ \A p \in Questions, x \in Images : Replaces(e, p, x)' => Shows(p, x)
      BY <2>1, <2>3 DEF GivenHanded, Saving, Replaces, Shows
    <2> QED BY <1>3, <2>1, <2>4
  <1>8. ASSUME NEW qs \in SUBSET Questions, NEW on \in BOOLEAN, StartToggle(e, qs, on)
        PROVE  ImagesApart'
    <2> DEFINE c == [op |-> "toggle", step |-> "write", target |-> qs, on |-> on, locks |-> {}]
    <2>1. Step(e, c) /\ UNCHANGED <<cloud, minted, Excused>>
      BY <1>8 DEF StartToggle, Excused
    <2>2. DOMAIN c = {"op", "step", "target", "on", "locks"} /\ c.op = "toggle"
      OBVIOUS
    <2> HIDE DEF c
    <2>3. editor'[e].op = "toggle"
      BY <1>4, <2>1, <2>2, StepFields
    <2>4. GivenHanded(e)' /\ \A p \in Questions, x \in Images : ~Replaces(e, p, x)'
      BY <2>3 DEF GivenHanded, Saving, Replaces
    <2> QED BY <1>3, <2>1, <2>4
  <1> QED BY <1>5, <1>6, <1>7, <1>8

\* What is imported was never handed out before.
LEMMA PreparedImages ==
    ASSUME BankInv, PoolInv', NEW e \in Editors, NEW qs \in SUBSET Questions, NEW fresh \in [qs -> Images],
           PrepareMedia(e, fresh)
    PROVE  ImagesApart'
  <1> DEFINE new == {fresh[q] : q \in DOMAIN fresh}
  <1>1. /\ BankTypes /\ BankTypes' /\ ImagesApart /\ OnlyMoves(e) /\ Keeps(e) /\ Saving(e) /\ Filling(e)'
        /\ editor'[e].step = "lock" /\ editor'[e].uploaded = new
        /\ UNCHANGED bank
    BY PreparingTyped DEF BankInv, PoolInv
  <1>2. /\ new \cap minted = {} /\ cloud' = cloud \cup new /\ minted' = minted \cup new /\ UNCHANGED Excused
        /\ editor[e].step = "media"
    BY DEF PrepareMedia, Excused
  <1>3. Uploads(e)' = new /\ new \subseteq Images /\ Doomed(e)' = {}
    BY <1>1 DEF Uploads, Doomed
  <1> HIDE DEF new
  <1>4. \A q \in Questions, x \in Images : Replaces(e, q, x)' => Replaces(e, q, x)
    BY <1>1, <1>2 DEF Replaces, Keeps, Saving
  <1>5. GivenHanded(e)'
    BY <1>1, <1>2 DEF GivenHanded, ImagesApart, Keeps
  <1>6. \A q \in Questions : \A x : Shows(q, x)' = Shows(q, x)
    BY <1>1 DEF Shows, There
  <1>7. cloud' \cup Excused' \subseteq minted' /\ minted \subseteq minted' /\ Excused \subseteq Excused'
    BY <1>1, <1>2 DEF ImagesApart
  <1>8. \A x \in Uploads(e)' : x \in Images /\ (x \in Uploads(e) \/ (x \notin minted /\ x \in minted' /\ x \in cloud'))
    BY <1>2, <1>3
  <1> QED BY <1>1, <1>2, <1>3, <1>4, <1>5, <1>6, <1>7, <1>8, ImagesMove

\* A question newly created or updated shows what a client sent back or what its own request imported.
LEMMA ResolvedFrom ==
    ASSUME BankInv, NEW e \in Editors, Writes(e), NEW q \in DOMAIN editor[e].draft, NEW old, NEW x \in Images, x # None,
           x = Resolved(editor[e].draft[q], q, old, editor[e].fresh)
    PROVE  \/ x = old /\ editor[e].draft[q].image \in {"keep", "text"}
           \/ x \in Excused
           \/ q \in DOMAIN editor[e].fresh /\ x = editor[e].fresh[q] /\ x \in Uploads(e)
  <1> DEFINE form == editor[e].draft[q]
             fresh == editor[e].fresh
  <1>1. Filling(e) /\ Request(editor[e]) /\ GivenHanded(e)
    BY DEF BankInv, PoolInv, BankTypes, ImagesApart, Writes, Filling
  <1>2. form.image \in Excused \cup {"keep", "text", "clear", "import"}
    BY <1>1 DEF GivenHanded, Filling
  <1>3. CASE form.image \in {"keep", "text"}
    BY <1>3, ResolvedImage
  <1>4. CASE form.image = "clear"
    BY <1>4, ResolvedImage
  <1>5. CASE form.image = "import"
    <2>1. x = fresh[q]
      BY <1>5, ResolvedImage
    <2>2. DOMAIN fresh = Imports(editor[e].draft) /\ editor[e].uploaded = {fresh[p] : p \in DOMAIN fresh}
      BY <1>1 DEF Request, Prepared, Filling, Saving, Rest
    <2>3. q \in DOMAIN fresh
      BY <1>5, <2>2 DEF Imports
    <2> QED BY <1>1, <2>1, <2>2, <2>3 DEF Uploads
  <1>6. CASE form.image \notin {"keep", "text", "clear", "import"}
    BY <1>2, <1>6, ResolvedImage
  <1> QED BY <1>3, <1>4, <1>5, <1>6

LEMMA CreatedImages ==
    ASSUME BankInv, PoolInv', NEW e \in Editors, WriteCreate(e)
    PROVE  ImagesApart'
  <1> DEFINE d == editor[e].draft
             fresh == editor[e].fresh
  <1>1. /\ editor[e].op = "create" /\ Filling(e) /\ Writes(e) /\ UNCHANGED <<cloud, minted, handed>>
        /\ BankTypes /\ BankTypes' /\ ImagesApart /\ cloud \cup Excused \subseteq minted
    BY WritingFills DEF WriteCreate, BankInv, PoolInv, ImagesApart
  <1>2. CASE UNCHANGED <<bank, forsaken>> /\ RollBackWith(e)
    <2>1. UNCHANGED Excused
      BY <1>1, <1>2 DEF Excused
    <2> QED BY <1>1, <1>2, <2>1, ImagesRollBack
  <1>3. CASE /\ \A q \in DOMAIN d : q \notin There
             /\ bank' = [q \in Questions |-> IF q \in DOMAIN d THEN NewRow(e, q) ELSE bank[q]]
             /\ Committed(e, Done(e), {})
    <2>1. \A q \in Questions : q \in There' =>
              \/ q \in There /\ bank'[q].image = bank[q].image
              \/ q \in DOMAIN d /\ bank'[q].image = Resolved(d[q], q, None, fresh)
      BY <1>1, <1>3, CreateWrites
    <2>2. /\ Excused \subseteq Excused' /\ Excused' \subseteq Excused \cup Uploads(e)
          /\ Done(e) \/ (RollBackWith(e) /\ Uploads(e) \subseteq Excused')
      BY <1>1, <1>3, CommittedEnds DEF Committed, Excused, Uploads
    <2>3. ASSUME NEW q \in Questions, NEW x \in Images, Shows(q, x)', x \notin Excused
          PROVE  Shows(q, x) \/ (q \in DOMAIN fresh /\ x = fresh[q] /\ x \in Uploads(e))
      <3>1. q \in There' /\ bank'[q].image = x /\ x # None
        BY <2>3 DEF Shows
      <3>2. CASE q \in There /\ bank'[q].image = bank[q].image
        BY <3>1, <3>2 DEF Shows
      <3>3. CASE q \in DOMAIN d /\ bank'[q].image = Resolved(d[q], q, None, fresh)
        BY <1>1, <2>3, <3>1, <3>3, ResolvedFrom
      <3> QED BY <2>1, <3>1, <3>2, <3>3
    <2>4. ASSUME NEW p \in Questions, NEW q \in Questions, NEW x \in Images, Shows(p, x)', Shows(q, x)', p # q,
                 x \notin Excused
          PROVE  Shows(p, x) /\ Shows(q, x)
      <3>1. x \in Uploads(e) => ~Shows(p, x) /\ ~Shows(q, x)
        BY <1>1, <2>4 DEF ImagesApart, UploadsApart
      <3>2. IsInjective(fresh)
        BY <1>1 DEF BankTypes, Request, Prepared, Filling, Saving, Rest
      <3>3. p \in DOMAIN fresh /\ q \in DOMAIN fresh => fresh[p] # fresh[q]
        BY <2>4, <3>2 DEF IsInjective
      <3> QED BY <2>3, <2>4, <3>1, <3>3
    <2>5. /\ OnlyMoves(e) /\ Uploads(e)' = {} /\ Doomed(e)' \subseteq Uploads(e) \cap Excused' /\ GivenHanded(e)'
          /\ \A q \in Questions, x \in Images : ~Replaces(e, q, x)'
      <3>1. CASE Done(e)
        <4>1. OnlyMoves(e) /\ editor'[e] = Waiting
          BY <1>1, <3>1, DoneMoves DEF BankTypes
        <4> QED BY <4>1, WaitingImages
      <3>2. CASE RollBackWith(e) /\ Uploads(e) \subseteq Excused'
        BY <1>1, <2>2, <3>2, RolledBack
      <3> QED BY <2>2, <3>1, <3>2
    <2>6. Uploads(e) \subseteq minted
      BY <1>1 DEF ImagesApart, UploadsApart
    <2>7. cloud' \cup Excused' \subseteq minted' /\ \A x \in Doomed(e)' : x \in minted' /\ x \in Excused'
      BY <1>1, <2>2, <2>5, <2>6
    <2> QED BY <1>1, <2>2, <2>3, <2>4, <2>5, <2>7, ImagesMove
  <1> QED BY <1>2, <1>3 DEF WriteCreate

\* What an update comes to show it showed before, was sent back, its request imported, or it restored.
LEMMA UpdateShows ==
    ASSUME BankInv, NEW e \in Editors, Writes(e), editor[e].op = "update", NEW q \in There, DOMAIN editor[e].draft = {q},
           NEW x \in Images, x # None, x = NewImage(e, q)
    PROVE  x = bank[q].image \/ x \in Excused \/ x \in Uploads(e) \/ x \in Restored(e, q)
  <1>1. CASE Rewrites(e, q)
    <2>1. x = Resolved(editor[e].draft[q], q, editor[e].seen.image, editor[e].fresh)
      BY <1>1 DEF NewImage
    <2>2. editor[e].draft[q].image # "keep"
      BY <1>1 DEF Rewrites
    <2>3. editor[e].draft[q].image = "text" \/ x \in Excused \/ x \in Uploads(e)
      BY <2>1, <2>2, ResolvedFrom
    <2> QED BY <1>1, <2>3 DEF Restored
  <1>2. CASE ~Rewrites(e, q) /\ q \in Explaining
    BY <1>2 DEF NewImage
  <1>3. CASE ~Rewrites(e, q) /\ q \notin Explaining
    <2>1. x = Resolved(editor[e].draft[q], q, bank[q].image, editor[e].fresh)
      BY <1>3 DEF NewImage
    <2> QED BY <2>1, ResolvedFrom
  <1> QED BY <1>1, <1>2, <1>3

\* An update never shows what its form replaced, as the row was read.
LEMMA UpdateDrops ==
    ASSUME NEW e \in Editors, NEW q, NEW x, x # None, x = editor[e].seen.image,
           x # Resolved(editor[e].draft[q], q, x, editor[e].fresh),
           q \in Explaining /\ ~Rewrites(e, q) => x # bank[q].image
    PROVE  x # NewImage(e, q)
  <1>1. CASE Rewrites(e, q) \/ q \in Explaining
    BY <1>1 DEF NewImage
  <1>2. CASE ~Rewrites(e, q) /\ q \notin Explaining
    <2> SUFFICES ASSUME x = Resolved(editor[e].draft[q], q, bank[q].image, editor[e].fresh)
                 PROVE  FALSE
      BY <1>2 DEF NewImage
    <2>1. editor[e].draft[q].image \in {"keep", "text"}
      BY DEF Resolved
    <2> QED BY <2>1, ResolvedImage
  <1> QED BY <1>1, <1>2

\* What an update restores its row showed when it was read.
LEMMA RestoresSeen ==
    ASSUME NEW e \in Editors, NEW q, NEW x \in Restored(e, q)
    PROVE  x = editor[e].seen.image /\ x # None
  <1>1. Rewrites(e, q) /\ editor[e].draft[q].image = "text" /\ x = NewImage(e, q) /\ x # None
    BY DEF Restored
  <1>2. x = Resolved(editor[e].draft[q], q, editor[e].seen.image, editor[e].fresh)
    BY <1>1 DEF NewImage
  <1> QED BY <1>1, <1>2, ResolvedImage

\* What an update replaces goes only if its question shows something else.
LEMMA UpdatedImages ==
    ASSUME BankInv, PoolInv', NEW e \in Editors, WriteUpdate(e)
    PROVE  ImagesApart'
  <1> DEFINE d == editor[e].draft
             fresh == editor[e].fresh
  <1>1. /\ editor[e].op = "update" /\ Filling(e) /\ Writes(e) /\ UNCHANGED <<cloud, minted, handed>>
        /\ BankTypes /\ BankTypes' /\ ImagesApart /\ cloud \cup Excused \subseteq minted
    BY WritingFills DEF WriteUpdate, BankInv, PoolInv, ImagesApart
  <1>2. PICK q \in Questions : d \in [{q} -> Changes]
    BY <1>1 DEF BankTypes, Request, Asked, Filling, Saving, Rest
  <1>3. (CHOOSE x \in DOMAIN d : TRUE) = q /\ DOMAIN d = {q}
    BY <1>2
  <1>4. CASE ~Writable(e, q)
    <2>1. RollBackWith(e) /\ UNCHANGED <<bank, forsaken>>
      BY <1>3, <1>4 DEF WriteUpdate
    <2>2. UNCHANGED Excused
      BY <1>1, <2>1 DEF Excused
    <2> QED BY <1>1, <2>1, <2>2, ImagesRollBack
  <1>5. CASE Writable(e, q)
    <2> DEFINE c == [step |-> "clean", locks |-> {}, doomed |-> editor[e].stale]
    <2>1. /\ \A p \in Questions : p # q => bank'[p] = bank[p]
          /\ bank'[q].there /\ bank'[q].image = NewImage(e, q)
          /\ Committed(e, Step(e, c), Restored(e, q))
      BY <1>1, <1>2, <1>5, UpdateWrites
    <2>2. DOMAIN c = {"step", "locks", "doomed"} /\ c.step = "clean" /\ c.locks = {} /\ c.doomed = editor[e].stale
      OBVIOUS
    <2> HIDE DEF c
    <2>3. /\ Excused \subseteq Excused' /\ Excused' \subseteq Excused \cup Uploads(e) \cup Restored(e, q)
          /\ Restored(e, q) \subseteq Excused'
          /\ Step(e, c) \/ (RollBackWith(e) /\ Uploads(e) \subseteq Excused')
      BY <1>1, <2>1, CommittedEnds DEF Committed, Excused, Uploads
    <2>4. /\ OnlyMoves(e) /\ Uploads(e)' = {} /\ Doomed(e)' \subseteq editor[e].stale \cup (Uploads(e) \cap Excused')
          /\ GivenHanded(e)' /\ \A p \in Questions, x \in Images : ~Replaces(e, p, x)'
      <3>1. CASE Step(e, c)
        <4>1. OnlyMoves(e) /\ Keeps(e) /\ editor'[e].step = "clean" /\ editor'[e].doomed = editor[e].stale
          BY <1>1, <2>2, <3>1, GoesOn
        <4>2. /\ Uploads(e)' = {} /\ Doomed(e)' = editor[e].stale
              /\ \A p \in Questions, x \in Images : ~Replaces(e, p, x)'
          BY <4>1 DEF Uploads, Doomed, Replaces, Filling
        <4>3. GivenHanded(e)'
          BY <1>1, <2>3, <4>1 DEF GivenHanded, ImagesApart, Keeps, Filling
        <4> QED BY <4>1, <4>2, <4>3
      <3>2. CASE RollBackWith(e) /\ Uploads(e) \subseteq Excused'
        BY <1>1, <2>3, <3>2, RolledBack
      <3> QED BY <2>3, <3>1, <3>2
    <2>5. editor[e].seen.image \in Images \cup {None}
      <3>1. editor[e].seen \in BankRows
        BY <1>1 DEF BankTypes, Request, Asked, Filling, Saving, Rest
      <3> QED BY <3>1 DEF BankRows
    <2>6. ASSUME NEW p \in Questions, p # q, NEW x PROVE Shows(p, x)' = Shows(p, x)
      BY <2>1, <2>6 DEF Shows, There
    <2>7. ASSUME NEW x \in Images, Shows(q, x)', x \notin Excused'
          PROVE  Shows(q, x) \/ x \in Uploads(e)
      <3>1. x # None /\ x = NewImage(e, q) /\ q \in There
        BY <1>5, <2>1, <2>7 DEF Shows, Writable
      <3>2. x = bank[q].image \/ x \in Uploads(e)
        BY <1>1, <1>3, <2>3, <2>7, <3>1, UpdateShows
      <3> QED BY <3>1, <3>2 DEF Shows
    <2>8. ASSUME NEW p \in Questions, NEW x \in Images, Shows(p, x)', Shows(q, x)', p # q, x \notin Excused'
          PROVE  Shows(p, x) /\ Shows(q, x)
      <3>1. x \in Uploads(e) => ~Shows(p, x)
        BY <1>1, <2>3, <2>8 DEF ImagesApart, UploadsApart
      <3> QED BY <2>6, <2>7, <2>8, <3>1
    <2>9. ASSUME NEW x, x # None, x = editor[e].seen.image
          PROVE  /\ x \in minted /\ x \in Images
                 /\ x \notin Excused => (\A p \in Questions : Shows(p, x) => p = q)
                                        /\ \A f \in Editors : x \notin Uploads(f)
      <3>1. x \in Images
        BY <2>5, <2>9
      <3>2. Replaces(e, q, x)
        BY <1>1, <1>3, <2>9 DEF Replaces, Filling, Saving
      <3> QED BY <1>1, <3>1, <3>2 DEF ImagesApart, ReplacedApart
    <2>10. ASSUME NEW x \in editor[e].stale, x \notin Excused'
           PROVE  /\ x \in minted /\ \A p \in Questions : ~Shows(p, x)'
                  /\ \A f \in Editors : x \notin Uploads(f)
      <3>1. x = editor[e].seen.image /\ x # None /\ x # Resolved(d[q], q, x, fresh)
        <4>1. editor[e].stale = {editor[e].seen.image} \ ({None} \cup
                  {Resolved(d[p], p, editor[e].seen.image, fresh) : p \in DOMAIN d})
          BY <1>1 DEF BankTypes, Request, Prepared, Filling, Saving, Rest, OldImage
        <4> QED BY <1>3, <2>10, <4>1
      <3>2. /\ x \in minted /\ (\A p \in Questions : Shows(p, x) => p = q)
            /\ \A f \in Editors : x \notin Uploads(f)
        BY <2>3, <2>9, <2>10, <3>1
      <3>3. ~(q \in Explaining /\ ~Rewrites(e, q))
        <4>1. d[q].image # "keep"
          BY <3>1, ResolvedImage
        <4>2. Explained(editor[e].seen)
          BY <3>1 DEF Explained
        <4> QED BY <4>1, <4>2 DEF Rewrites
      <3>4. ~Shows(q, x)'
        BY <2>1, <3>1, <3>3, UpdateDrops DEF Shows
      <3> QED BY <2>6, <3>2, <3>4
    <2>11. \A p \in Questions, x \in Images : Shows(p, x)' =>
               Shows(p, x) \/ x \in Excused' \/ (x \in Uploads(e) /\ x \notin Uploads(e)')
      BY <2>4, <2>6, <2>7
    <2>12. \A p, r \in Questions, x \in Images :
               Shows(p, x)' /\ Shows(r, x)' /\ p # r /\ x \notin Excused' => Shows(p, x) /\ Shows(r, x)
      <3> SUFFICES ASSUME NEW p \in Questions, NEW r \in Questions, NEW x \in Images,
                          Shows(p, x)', Shows(r, x)', p # r, x \notin Excused'
                   PROVE  Shows(p, x) /\ Shows(r, x)
        OBVIOUS
      <3>1. CASE p = q
        BY <2>8, <3>1
      <3>2. CASE r = q
        BY <2>8, <3>2
      <3>3. CASE p # q /\ r # q
        BY <2>6, <3>3
      <3> QED BY <3>1, <3>2, <3>3
    <2>13. Uploads(e) \subseteq minted /\ Restored(e, q) \subseteq minted
      BY <1>1, <2>9, RestoresSeen DEF ImagesApart, UploadsApart
    <2>14. cloud' \cup Excused' \subseteq minted'
      BY <1>1, <2>3, <2>13
    <2>15. ASSUME NEW x \in Doomed(e)'
           PROVE  /\ x \in minted'
                  /\ x \notin Excused' => /\ \A p \in Questions : ~Shows(p, x)'
                                         /\ x \notin Uploads(e)' /\ \A f \in Editors : f # e => x \notin Uploads(f)
      BY <1>1, <2>4, <2>10, <2>13, <2>14
    <2> QED BY <1>1, <2>3, <2>4, <2>11, <2>12, <2>14, <2>15, ImagesMove
  <1> QED BY <1>4, <1>5

LEMMA DeletedImages ==
    ASSUME BankInv, PoolInv', NEW e \in Editors, DeleteRow(e)
    PROVE  ImagesApart'
  <1>a. editor[e].target \in Questions
    BY DEF BankInv, PoolInv, BankTypes, Request, Asked, DeleteRow
  <1>b. PICK q \in Questions : q = editor[e].target
    BY <1>a
  <1>c. PICK x0 : x0 = editor[e].seen.image
    OBVIOUS
  <1>1. /\ BankTypes /\ BankTypes' /\ ImagesApart /\ OnlyMoves(e) /\ ~Saving(e)'
        /\ \A p \in Questions : p \in There' => p \in There /\ bank'[p].image = bank[p].image
        /\ editor'[e] = Waiting \/ (editor'[e].step = "clean" /\ q \notin There' /\ editor'[e].doomed = {x0} \ {None})
        /\ cloud \cup Excused \subseteq minted
    BY <1>b, <1>c, DeletingTyped DEF BankInv, PoolInv, ImagesApart
  <1>2. editor[e].op = "delete" /\ editor[e].step = "write" /\ UNCHANGED <<cloud, minted, Excused>>
    BY DEF DeleteRow, Excused
  <1>3. \A p \in Questions : \A x : Shows(p, x)' => Shows(p, x)
    BY <1>1 DEF Shows
  <1>4. Uploads(e)' = {} /\ GivenHanded(e)'
    BY <1>1 DEF Uploads, GivenHanded, Filling
  <1>5. \A p \in Questions, x \in Images : ~Replaces(e, p, x)'
    BY <1>1 DEF Replaces, Waiting, Rest
  <1>6. ASSUME NEW x \in Doomed(e)'
        PROVE  /\ x \in minted'
               /\ x \notin Excused' => /\ \A p \in Questions : ~Shows(p, x)'
                                      /\ x \notin Uploads(e)' /\ \A f \in Editors : f # e => x \notin Uploads(f)
    <2>1. x = x0 /\ x # None /\ q \notin There'
      BY <1>1, <1>6 DEF Doomed, Waiting
    <2>2. q \in Questions /\ editor[e].seen \in BankRows /\ ~Rest(e)
      BY <1>1, <1>2 DEF BankTypes, Request, Asked, Rest
    <2>3. x \in Images
      BY <1>c, <2>1, <2>2 DEF BankRows
    <2>4. Replaces(e, q, x)
      BY <1>2, <1>b, <1>c, <2>1, <2>2 DEF Replaces
    <2>5. x \in minted /\ (x \notin Excused => (\A p \in Questions : Shows(p, x) => p = q)
                                              /\ \A f \in Editors : x \notin Uploads(f))
      BY <1>1, <2>2, <2>3, <2>4 DEF ImagesApart, ReplacedApart
    <2>6. ~Shows(q, x)'
      BY <2>1 DEF Shows
    <2> QED BY <1>2, <1>3, <1>4, <2>5, <2>6
  <1> QED BY <1>1, <1>2, <1>3, <1>4, <1>5, <1>6, ImagesMove

LEMMA ToggledImages ==
    ASSUME BankInv, PoolInv', NEW e \in Editors, WriteToggle(e)
    PROVE  ImagesApart'
  <1>1. /\ BankTypes /\ BankTypes' /\ ImagesApart /\ OnlyMoves(e) /\ editor'[e] = Waiting
        /\ \A p \in Questions : p \in There' => p \in There /\ bank'[p].image = bank[p].image
        /\ UNCHANGED <<cloud, minted, Excused>> /\ cloud \cup Excused \subseteq minted
    BY ToggleWrites DEF BankInv, PoolInv, ImagesApart, WriteToggle, Excused
  <1>2. \A p \in Questions : \A x : Shows(p, x)' => Shows(p, x)
    BY <1>1 DEF Shows
  <1>3. /\ Uploads(e)' = {} /\ Doomed(e)' = {} /\ GivenHanded(e)'
        /\ \A q \in Questions, x \in Images : ~Replaces(e, q, x)'
    BY <1>1, WaitingImages
  <1> QED BY <1>1, <1>2, <1>3, ImagesMove

LEMMA ImagesSteps == ASSUME BankInv, PoolInv', BankSteps PROVE ImagesApart'
  <1>1. BankTypes /\ cloud \subseteq minted
    BY DEF BankInv, PoolInv, ImagesApart
  <1>2. ASSUME NEW e \in Editors, SaveSteps(e) PROVE ImagesApart'
    <2>1. CASE LockSubject(e)
      <3>1. /\ OnlyMoves(e) /\ Keeps(e) /\ Filling(e) /\ editor'[e].step = "lock"
            /\ editor'[e].uploaded = editor[e].uploaded
        BY <2>1, LocksGrow DEF BankInv, PoolInv
      <3>2. UNCHANGED <<bank, cloud, minted, Excused>>
        BY <2>1 DEF LockSubject, Excused
      <3> QED BY <3>1, <3>2, ImagesGoOn
    <2>2. CASE CountPool(e)
      <3>1. Filling(e) /\ UNCHANGED <<bank, cloud, minted, Excused>>
        BY <1>1, <2>2, CountingFills DEF CountPool, Excused
      <3>2. CASE RollBackWith(e)
        BY <3>1, <3>2, ImagesRollBack
      <3>3. CASE Step(e, [step |-> "write"])
        <4>1. OnlyMoves(e) /\ Keeps(e) /\ editor'[e].step = "write" /\ editor'[e].uploaded = editor[e].uploaded
          BY <1>1, <3>1, <3>3, CountingTyped
        <4> QED BY <3>1, <4>1, ImagesGoOn
      <3> QED BY <2>2, <3>2, <3>3 DEF CountPool
    <2>3. CASE WriteCreate(e)
      BY <2>3, CreatedImages
    <2>4. CASE WriteUpdate(e)
      BY <2>4, UpdatedImages
    <2>5. CASE TransactionFails(e)
      <3>1. Filling(e) /\ RollBackWith(e) /\ UNCHANGED <<bank, cloud, minted, Excused>>
        BY <2>5 DEF TransactionFails, Filling, Saving, Rest, Excused
      <3> QED BY <3>1, ImagesRollBack
    <2>6. CASE Clean(e)
      <3>1. /\ Done(e) /\ UNCHANGED <<bank, minted, Excused>> /\ cloud' = cloud \ editor[e].doomed
            /\ Doomed(e) = editor[e].doomed
        BY <2>6 DEF Clean, Doomed, Excused
      <3>2. OnlyMoves(e) /\ editor'[e] = Waiting
        BY <1>1, <3>1, DoneMoves DEF BankTypes
      <3>3. minted \subseteq minted' /\ cloud' \subseteq minted' /\ cloud \ Doomed(e) \subseteq cloud'
        BY <1>1, <3>1
      <3> QED BY <3>1, <3>2, <3>3, ImagesRest
    <2>7. CASE EditorDies(e)
      <3>1. Done(e) /\ UNCHANGED <<bank, cloud, minted, Excused>>
        BY <2>7 DEF EditorDies, Excused
      <3>2. OnlyMoves(e) /\ editor'[e] = Waiting
        BY <1>1, <3>1, DoneMoves DEF BankTypes
      <3>3. minted \subseteq minted' /\ cloud' \subseteq minted' /\ cloud \ Doomed(e) \subseteq cloud'
        BY <1>1, <3>1
      <3> QED BY <3>1, <3>2, <3>3, ImagesRest
    <2> QED BY <1>2, <2>1, <2>2, <2>3, <2>4, <2>5, <2>6, <2>7 DEF SaveSteps
  <1>3. ASSUME NEW e \in Editors, NEW left \in SUBSET Images, PrepareFails(e, left) PROVE ImagesApart'
    <2>1. Done(e) /\ UNCHANGED <<bank, Excused>> /\ cloud' = cloud \cup left /\ minted' = minted \cup left
      BY <1>3 DEF PrepareFails, Excused
    <2>2. OnlyMoves(e) /\ editor'[e] = Waiting
      BY <1>1, <2>1, DoneMoves DEF BankTypes
    <2>3. minted \subseteq minted' /\ cloud' \subseteq minted' /\ cloud \ Doomed(e) \subseteq cloud'
      BY <1>1, <2>1
    <2> QED BY <2>1, <2>2, <2>3, ImagesRest
  <1>4. ASSUME (\E x \in Images : UploadAsset(x)) \/ \E q \in Questions : Sit(q) PROVE ImagesApart'
    <2>1. UNCHANGED <<bank, editor, Excused>> /\ cloud \subseteq cloud' /\ minted \subseteq minted' /\ cloud' \subseteq minted'
      BY <1>1, <1>4 DEF UploadAsset, Sit, Excused
    <2> QED BY <2>1, ImagesSame
  <1> QED BY <1>2, <1>3, <1>4, StartsImages, PreparedImages, DeletedImages, ToggledImages DEF BankSteps

\* An image the server imported and no client sent back lasts as long as a question shows it, for any
\* requests, failures and crashes, except one that an update of the explanation's texts wrote back and
\* one of a commit whose answer was lost (questions.service.ts, cleanupQuestionAssets).
THEOREM ImportedImagesStay == BankSpec => []ImportedImagesLast
  <1>1. BankInv /\ [BankSteps]_bankVars => BankInv'
    <2> SUFFICES ASSUME BankInv, [BankSteps]_bankVars PROVE BankInv'
      OBVIOUS
    <2>1. CASE UNCHANGED bankVars
      <3>1. cloud \subseteq minted
        BY DEF BankInv, ImagesApart
      <3>2. UNCHANGED <<bank, editor, strayed, Excused, cloud, minted>>
        BY <2>1 DEF bankVars, Excused
      <3> QED BY <3>1, <3>2, PoolSame, ImagesSame DEF BankInv
    <2>2. CASE BankSteps
      BY <2>2, PoolSteps, ImagesSteps DEF BankInv
    <2> QED BY <2>1, <2>2
  <1>2. BankInv => ImportedImagesLast
    <2> SUFFICES ASSUME BankInv, NEW q \in There, bank[q].image # None
                 PROVE  bank[q].image \in cloud \cup Excused
      BY DEF ImportedImagesLast, Excused
    <2>1. bank[q] \in BankRows /\ q \in Questions
      BY DEF BankInv, PoolInv, BankTypes, There, NoQuestion
    <2>2. bank[q].image \in Images
      BY <2>1 DEF BankRows
    <2>3. Shows(q, bank[q].image)
      BY DEF Shows
    <2> QED BY <2>1, <2>2, <2>3 DEF BankInv, ImagesApart, ShownApart
  <1> QED BY <1>1, <1>2, BankBegins, PTL DEF BankSpec

----------------------------------------------------------------------------
(* The leases of one person's connections.                                 *)
Connections ==
    [pc : {"new", "claim", "takeover", "greeting", "open", "left", "closing", "closed"},
     refresh : {"off", "idle", "look", "take"}, alive : BOOLEAN, rank : Nat, endedBy : Conns]
Early == {"new", "claim", "takeover"}

LeaseTypes ==
    /\ conn \in [Conns -> Connections] /\ local \in [Processes -> Conns \cup {Gone}]
    /\ owner \in Conns \cup {Gone} /\ snatched \in BOOLEAN

\* Connections come in order.
InOrder ==
    /\ \A c, d \in Conns : d < c /\ conn[c].pc # "new" => conn[d].pc # "new"
    /\ \A p \in Processes : local[p] # Gone => conn[local[p]].pc # "new"

\* Who claimed has a rank of its own, no higher than there are claims; only who claimed refreshes.
Ranked ==
    /\ \A c \in Conns : /\ conn[c].rank <= Claims
                        /\ conn[c].pc \in Early => conn[c].rank = 0
                        /\ conn[c].refresh # "off" => conn[c].rank > 0
    /\ \A c, d \in Conns : conn[c].rank = conn[d].rank /\ conn[c].rank > 0 => c = d

\* Unless a lease was taken from a newer connection, the owner claimed last, and a connection was ended
\* by one that came later, or by one that claimed after it had.
OwnerLast == ~snatched /\ owner # Gone => \A c \in Conns : conn[c].rank <= conn[owner].rank
EndedByNewer ==
    ~snatched => \A c \in Conns :
        LET by == conn[c].endedBy IN
        by # c => by > c \/ (conn[c].rank > 0 /\ conn[by].rank > conn[c].rank)

LeaseInv == LeaseTypes /\ InOrder /\ Ranked /\ OwnerLast /\ EndedByNewer

LEMMA ClaimsTyped ==
    /\ IsFiniteSet({d \in Conns : conn[d].rank > 0}) /\ Claims \in Nat
  BY FS_Subset, FS_CardinalityType, RealtimeAssumption DEF Claims

\* A step that claims nothing and ends nobody.
LEMMA LeaseStays ==
    ASSUME LeaseInv, conn' \in [Conns -> Connections], owner' \in {owner, Gone}, UNCHANGED <<local, snatched>>,
           \A c \in Conns :
               /\ conn'[c].rank = conn[c].rank /\ conn'[c].endedBy = conn[c].endedBy
               /\ conn'[c].pc \in Early => conn[c].pc \in Early
               /\ conn'[c].pc = "new" <=> conn[c].pc = "new"
               /\ conn'[c].refresh # "off" => conn[c].refresh # "off"
    PROVE  LeaseInv'
  <1>1. LeaseTypes'
    BY DEF LeaseInv, LeaseTypes
  <1>2. InOrder'
    BY DEF LeaseInv, InOrder, LeaseTypes
  <1>3. Claims' = Claims
    BY DEF Claims
  <1>4. Ranked'
    BY <1>3 DEF LeaseInv, Ranked
  <1>5. OwnerLast'
    BY DEF LeaseInv, OwnerLast, LeaseTypes
  <1>6. EndedByNewer'
    <2>1. \A c \in Conns : conn[c].endedBy \in Conns
      BY DEF LeaseInv, LeaseTypes, Connections
    <2> QED BY <2>1 DEF LeaseInv, EndedByNewer
  <1> QED BY <1>1, <1>2, <1>4, <1>5, <1>6 DEF LeaseInv

LEMMA LeaseClaims ==
    ASSUME LeaseInv, NEW c \in Conns, conn[c].pc \in {"claim", "takeover"}, owner' = c, conn' = Holds(c),
           UNCHANGED <<local, snatched>>
    PROVE  LeaseInv'
  <1> DEFINE n == Claims + 1
             held == [conn[c] EXCEPT !.pc = "greeting", !.refresh = "idle", !.rank = n]
  <1>1. conn \in [Conns -> Connections] /\ conn[c] \in Connections /\ conn[c].rank = 0 /\ Claims \in Nat
    BY ClaimsTyped DEF LeaseInv, LeaseTypes, Ranked, Early
  <1>2. PICK k \in Nat : k = n
    BY <1>1
  <1>3. /\ held \in Connections /\ held.pc = "greeting" /\ held.refresh = "idle" /\ held.rank = k
        /\ held.endedBy = conn[c].endedBy
    BY <1>1, <1>2 DEF Connections
  <1>4. conn' = [conn EXCEPT ![c] = held]
    BY DEF Holds
  <1> HIDE DEF held
  <1>5. conn' \in [Conns -> Connections] /\ conn'[c] = held /\ \A d \in Conns : d # c => conn'[d] = conn[d]
    BY <1>1, <1>3, <1>4
  <1>6. LeaseTypes'
    BY <1>5 DEF LeaseInv, LeaseTypes
  <1>7. InOrder'
    <2>1. conn[c].pc # "new" /\ conn'[c].pc # "new"
      BY <1>3, <1>5
    <2>2. \A d \in Conns : conn'[d].pc # "new" <=> conn[d].pc # "new"
      BY <1>5, <2>1
    <2> QED BY <2>2 DEF LeaseInv, InOrder, LeaseTypes
  <1>8. Claims' = k
    <2> DEFINE S == {d \in Conns : conn[d].rank > 0}
               T == {d \in Conns : conn'[d].rank > 0}
    <2>1. T = S \cup {c} /\ c \notin S
      BY <1>1, <1>2, <1>3, <1>5
    <2>2. IsFiniteSet(S) /\ Claims = Cardinality(S)
      BY ClaimsTyped DEF Claims
    <2> HIDE DEF S
    <2>3. Cardinality(T) = Cardinality(S) + 1
      BY <2>1, <2>2, FS_AddElement
    <2> QED BY <1>2, <2>2, <2>3 DEF Claims
  <1>9. \A d \in Conns : conn[d].rank \in Nat /\ conn[d].rank <= Claims /\ conn[d].endedBy \in Conns
    BY <1>1 DEF LeaseInv, Ranked, Connections
  <1>10. \A d \in Conns : conn'[d].rank \in Nat /\ conn'[d].rank <= k /\ (d # c => conn'[d].rank < k)
    BY <1>1, <1>2, <1>3, <1>5, <1>9
  <1>11. Ranked'
    <2>1. ASSUME NEW d \in Conns
          PROVE  /\ conn'[d].rank <= Claims' /\ (conn'[d].pc \in Early => conn'[d].rank = 0)
                 /\ conn'[d].refresh # "off" => conn'[d].rank > 0
      <3>1. CASE d = c
        BY <1>2, <1>1, <1>3, <1>5, <1>8, <3>1 DEF Early
      <3>2. CASE d # c
        BY <1>5, <1>8, <1>10, <3>2 DEF LeaseInv, Ranked
      <3> QED BY <3>1, <3>2
    <2>2. ASSUME NEW d \in Conns, NEW f \in Conns, conn'[d].rank = conn'[f].rank, conn'[d].rank > 0
          PROVE  d = f
      <3>1. CASE d # c /\ f # c
        BY <1>5, <2>2, <3>1 DEF LeaseInv, Ranked
      <3>2. CASE d = c \/ f = c
        BY <1>3, <1>5, <1>10, <2>2, <3>2
      <3> QED BY <3>1, <3>2
    <2> QED BY <2>1, <2>2 DEF Ranked
  <1>12. OwnerLast'
    BY <1>3, <1>5, <1>10 DEF OwnerLast
  <1>13. EndedByNewer'
    <2> SUFFICES ASSUME ~snatched, NEW d \in Conns, conn'[d].endedBy # d
                 PROVE  conn'[d].endedBy > d
                        \/ (conn'[d].rank > 0 /\ conn'[conn'[d].endedBy].rank > conn'[d].rank)
      BY DEF EndedByNewer
    <2> DEFINE by == conn[d].endedBy
    <2>1. conn'[d].endedBy = by /\ by \in Conns
      BY <1>3, <1>5, <1>9
    <2>2. by > d \/ (conn[d].rank > 0 /\ conn[by].rank > conn[d].rank)
      BY <2>1 DEF LeaseInv, EndedByNewer
    <2>3. CASE conn[d].rank > 0 /\ conn[by].rank > conn[d].rank
      <3>1. d # c /\ by # c
        BY <1>1, <1>9, <2>1, <2>3
      <3> QED BY <1>5, <2>1, <2>3, <3>1
    <2> QED BY <2>1, <2>2, <2>3
  <1> QED BY <1>6, <1>7, <1>11, <1>12, <1>13 DEF LeaseInv

\* One connection is amended, and the lease is at most lost.
LEMMA OneAmended ==
    ASSUME LeaseInv, NEW c \in Conns, NEW r \in Connections, conn' = [conn EXCEPT ![c] = r],
           owner' \in {owner, Gone}, UNCHANGED <<local, snatched>>, r.rank = conn[c].rank,
           \/ r.endedBy = conn[c].endedBy
           \/ r.endedBy > c \/ (r.rank > 0 /\ conn[r.endedBy].rank > r.rank),
           r.pc \in Early => conn[c].pc \in Early, r.pc = "new" <=> conn[c].pc = "new",
           r.refresh # "off" => conn[c].refresh # "off"
    PROVE  LeaseInv'
  <1>1. conn \in [Conns -> Connections] /\ \A d \in Conns : conn[d].endedBy \in Conns /\ r.endedBy \in Conns
    BY DEF LeaseInv, LeaseTypes, Connections
  <1>2. conn' \in [Conns -> Connections] /\ conn'[c] = r /\ \A d \in Conns : d # c => conn'[d] = conn[d]
    BY <1>1
  <1>3. \A d \in Conns : conn'[d].rank = conn[d].rank
    BY <1>2
  <1>4. LeaseTypes'
    BY <1>2 DEF LeaseInv, LeaseTypes
  <1>5. InOrder'
    <2>1. \A d \in Conns : conn'[d].pc = "new" <=> conn[d].pc = "new"
      BY <1>2
    <2> QED BY <2>1 DEF LeaseInv, InOrder, LeaseTypes
  <1>6. Claims' = Claims
    <2>1. {d \in Conns : conn'[d].rank > 0} = {d \in Conns : conn[d].rank > 0}
      BY <1>3
    <2> QED BY <2>1 DEF Claims
  <1>7. Ranked'
    <2>1. \A d \in Conns : /\ conn'[d].rank <= Claims /\ (conn'[d].pc \in Early => conn'[d].rank = 0)
                           /\ conn'[d].refresh # "off" => conn'[d].rank > 0
      BY <1>2, <1>3 DEF LeaseInv, Ranked
    <2>2. \A d, f \in Conns : conn'[d].rank = conn'[f].rank /\ conn'[d].rank > 0 => d = f
      BY <1>3 DEF LeaseInv, Ranked
    <2> QED BY <1>6, <2>1, <2>2 DEF Ranked
  <1>8. OwnerLast'
    BY <1>3 DEF LeaseInv, OwnerLast, LeaseTypes
  <1>9. EndedByNewer'
    <2> SUFFICES ASSUME ~snatched, NEW d \in Conns, conn'[d].endedBy # d
                 PROVE  conn'[d].endedBy > d
                        \/ (conn'[d].rank > 0 /\ conn'[conn'[d].endedBy].rank > conn'[d].rank)
      BY DEF EndedByNewer
    <2>1. PICK by \in Conns : by = conn'[d].endedBy
      BY <1>1, <1>2
    <2>2. by > d \/ (conn[d].rank > 0 /\ conn[by].rank > conn[d].rank)
      <3>1. CASE conn'[d].endedBy = conn[d].endedBy
        BY <2>1, <3>1 DEF LeaseInv, EndedByNewer
      <3>2. CASE conn'[d].endedBy # conn[d].endedBy
        BY <1>2, <2>1, <3>2
      <3> QED BY <3>1, <3>2
    <2> QED BY <1>3, <2>1, <2>2
  <1> QED BY <1>4, <1>5, <1>7, <1>8, <1>9 DEF LeaseInv

\* The handlers of one connection that leave everybody else alone.
LEMMA QuietKeepsLease ==
    ASSUME LeaseInv, NEW c \in Conns,
           Greeted(c) \/ Refresh(c) \/ StopRefreshing(c) \/ Hangs(c)
           \/ (UNCHANGED <<local, snatched, owner>> /\ conn[c].pc = "claim"
               /\ \E pc \in {"takeover", "greeting"} : conn' = [conn EXCEPT ![c].pc = pc])
    PROVE  LeaseInv'
  <1>1. /\ conn \in [Conns -> Connections] /\ conn[c] \in Connections /\ conn[c].endedBy \in Conns
        /\ conn[c].alive \in BOOLEAN
    BY DEF LeaseInv, LeaseTypes, Connections
  <1>2. PICK b \in Connections : b = conn[c]
    BY <1>1
  <1>3. CASE Greeted(c)
    <2>1. PICK welcome \in BOOLEAN :
              conn' = [conn EXCEPT ![c].alive = @ /\ welcome,
                                   ![c].pc = IF conn[c].alive /\ welcome THEN "open" ELSE "left"]
      BY <1>3 DEF Greeted
    <2> DEFINE r == [b EXCEPT !.alive = @ /\ welcome, !.pc = IF b.alive /\ welcome THEN "open" ELSE "left"]
    <2>2. /\ r \in Connections /\ r.rank = b.rank /\ r.endedBy = b.endedBy /\ r.refresh = b.refresh
          /\ r.pc \in {"open", "left"}
      BY <1>2 DEF Connections
    <2>3. conn' = [conn EXCEPT ![c] = r]
      BY <1>1, <1>2, <2>1
    <2> HIDE DEF r
    <2>4. b.pc = "greeting" /\ UNCHANGED <<local, owner, snatched>>
      BY <1>2, <1>3 DEF Greeted
    <2> QED BY <1>2, <2>2, <2>3, <2>4, OneAmended DEF Early
  <1>4. CASE Refresh(c)
    <2> DEFINE r == [b EXCEPT !.refresh = "look"]
    <2>1. /\ r \in Connections /\ r.rank = b.rank /\ r.endedBy = b.endedBy /\ r.refresh = "look" /\ r.pc = b.pc
      BY <1>2 DEF Connections
    <2>2. conn' = [conn EXCEPT ![c] = r] /\ b.refresh = "idle" /\ UNCHANGED <<local, owner, snatched>>
      BY <1>1, <1>2, <1>4 DEF Refresh
    <2> HIDE DEF r
    <2> QED BY <1>2, <2>1, <2>2, OneAmended
  <1>5. CASE StopRefreshing(c)
    <2> DEFINE r == [b EXCEPT !.refresh = "off"]
    <2>1. /\ r \in Connections /\ r.rank = b.rank /\ r.endedBy = b.endedBy /\ r.refresh = "off" /\ r.pc = b.pc
      BY <1>2 DEF Connections
    <2>2. conn' = [conn EXCEPT ![c] = r] /\ UNCHANGED <<local, owner, snatched>>
      BY <1>1, <1>2, <1>5 DEF StopRefreshing
    <2> HIDE DEF r
    <2> QED BY <1>2, <2>1, <2>2, OneAmended
  <1>6. CASE Hangs(c)
    <2> DEFINE r == [b EXCEPT !.alive = FALSE, !.endedBy = IF @ = c THEN c ELSE @,
                              !.pc = IF @ = "open" THEN "closing" ELSE @]
    <2>1. /\ r \in Connections /\ r.rank = b.rank /\ r.endedBy = b.endedBy /\ r.refresh = b.refresh
          /\ r.pc = (IF b.pc = "open" THEN "closing" ELSE b.pc)
      BY <1>2 DEF Connections
    <2>2. conn' = [conn EXCEPT ![c] = r] /\ UNCHANGED <<local, owner, snatched>>
      BY <1>1, <1>2, <1>6 DEF Hangs, Closed
    <2> HIDE DEF r
    <2> QED BY <1>2, <2>1, <2>2, OneAmended DEF Early
  <1>7. CASE UNCHANGED <<local, snatched, owner>> /\ conn[c].pc = "claim"
             /\ \E pc \in {"takeover", "greeting"} : conn' = [conn EXCEPT ![c].pc = pc]
    <2>1. PICK pc \in {"takeover", "greeting"} : conn' = [conn EXCEPT ![c].pc = pc]
      BY <1>7
    <2> DEFINE r == [b EXCEPT !.pc = pc]
    <2>2. /\ r \in Connections /\ r.rank = b.rank /\ r.endedBy = b.endedBy /\ r.refresh = b.refresh /\ r.pc = pc
      BY <1>2 DEF Connections
    <2>3. conn' = [conn EXCEPT ![c] = r]
      BY <1>1, <1>2, <2>1
    <2> HIDE DEF r
    <2> QED BY <1>2, <1>7, <2>2, <2>3, OneAmended DEF Early
  <1> QED BY <1>3, <1>4, <1>5, <1>6, <1>7

\* Who looks and finds another owner claimed before that one did.
LEMMA LookKeepsLease ==
    ASSUME LeaseInv, NEW c \in Conns, Look(c)
    PROVE  LeaseInv'
  <1>1. /\ conn \in [Conns -> Connections] /\ conn[c] \in Connections /\ conn[c].refresh = "look"
        /\ conn[c].rank > 0 /\ UNCHANGED <<local, owner, snatched>>
    BY DEF LeaseInv, LeaseTypes, Ranked, Look
  <1>2. PICK b \in Connections : b = conn[c]
    BY <1>1
  <1>3. PICK tick \in {"off", "idle"} : tick = Ticking(c)
    BY DEF Ticking
  <1>4. CASE TakenByOther(c)
    <2>1. PICK o \in Conns : o = owner /\ o # c
      BY <1>4 DEF TakenByOther, LeaseInv, LeaseTypes
    <2> DEFINE r == [b EXCEPT !.alive = FALSE, !.endedBy = IF @ = c THEN o ELSE @,
                              !.pc = IF @ = "open" THEN "closing" ELSE @, !.refresh = tick]
    <2>2. /\ r \in Connections /\ r.rank = b.rank /\ r.endedBy \in {b.endedBy, o} /\ r.refresh = tick
          /\ r.pc = (IF b.pc = "open" THEN "closing" ELSE b.pc)
      BY <1>2, <1>3, <2>1 DEF Connections
    <2>3. conn' = [conn EXCEPT ![c] = r]
      BY <1>1, <1>2, <1>3, <1>4, <2>1 DEF Look, Closed
    <2> HIDE DEF r
    <2>4. CASE snatched
      <3>1. conn' \in [Conns -> Connections] /\ conn'[c] = r /\ \A d \in Conns : d # c => conn'[d] = conn[d]
        BY <1>1, <2>2, <2>3
      <3>2. \A d \in Conns : /\ conn'[d].rank = conn[d].rank /\ (conn'[d].pc = "new" <=> conn[d].pc = "new")
                             /\ conn'[d].pc \in Early => conn[d].pc \in Early
                             /\ conn'[d].refresh # "off" => conn[d].refresh # "off"
        BY <1>1, <1>2, <2>2, <3>1 DEF Early
      <3>3. Claims' = Claims
        <4>1. {d \in Conns : conn'[d].rank > 0} = {d \in Conns : conn[d].rank > 0}
          BY <3>2
        <4> QED BY <4>1 DEF Claims
      <3>4. Ranked' /\ InOrder'
        BY <1>1, <3>2, <3>3 DEF LeaseInv, Ranked, InOrder, LeaseTypes
      <3> QED BY <1>1, <2>4, <3>1, <3>4 DEF LeaseInv, LeaseTypes, OwnerLast, EndedByNewer
    <2>5. CASE ~snatched
      <3>1. conn[c].rank <= conn[o].rank
        <4>1. owner # Gone
          BY <1>4 DEF TakenByOther
        <4> QED BY <2>1, <2>5, <4>1 DEF LeaseInv, OwnerLast
      <3>2. conn[c].rank # conn[o].rank
        BY <1>1, <2>1 DEF LeaseInv, Ranked
      <3>3. conn[o].rank > conn[c].rank
        <4>1. conn[o].rank \in Nat /\ conn[c].rank \in Nat
          BY <1>1 DEF Connections
        <4> QED BY <3>1, <3>2, <4>1
      <3>4. \/ r.endedBy = conn[c].endedBy
            \/ r.endedBy > c \/ (r.rank > 0 /\ conn[r.endedBy].rank > r.rank)
        BY <1>1, <1>2, <2>2, <3>3
      <3> QED BY <1>1, <1>2, <1>3, <2>2, <2>3, <3>4, OneAmended DEF Early
    <2> QED BY <2>4, <2>5
  <1>5. CASE ~TakenByOther(c)
    <2> DEFINE r == [b EXCEPT !.refresh = "take"]
    <2>1. /\ r \in Connections /\ r.rank = b.rank /\ r.endedBy = b.endedBy /\ r.refresh = "take" /\ r.pc = b.pc
      BY <1>2 DEF Connections
    <2>2. conn' = [conn EXCEPT ![c] = r]
      BY <1>1, <1>2, <1>5 DEF Look
    <2> HIDE DEF r
    <2> QED BY <1>1, <1>2, <2>1, <2>2, OneAmended
  <1> QED BY <1>4, <1>5

\* Taking the lease back: from nobody who claimed later, or the history says so.
LEMMA TakeKeepsLease ==
    ASSUME LeaseInv, NEW c \in Conns, Take(c)
    PROVE  LeaseInv'
  <1>1. /\ conn \in [Conns -> Connections] /\ conn[c] \in Connections /\ conn[c].refresh = "take"
        /\ conn[c].rank > 0 /\ owner' = c /\ UNCHANGED local /\ snatched \in BOOLEAN
    BY DEF LeaseInv, LeaseTypes, Ranked, Take
  <1>2. PICK b \in Connections : b = conn[c]
    BY <1>1
  <1>3. PICK tick \in {"off", "idle"} : tick = Ticking(c)
    BY DEF Ticking
  <1> DEFINE r == [b EXCEPT !.refresh = tick]
  <1>4. /\ r \in Connections /\ r.rank = b.rank /\ r.endedBy = b.endedBy /\ r.refresh = tick /\ r.pc = b.pc
    BY <1>2, <1>3 DEF Connections
  <1>5. conn' = [conn EXCEPT ![c] = r]
    BY <1>1, <1>2, <1>3 DEF Take
  <1> HIDE DEF r
  <1>6. conn' \in [Conns -> Connections] /\ conn'[c] = r /\ \A d \in Conns : d # c => conn'[d] = conn[d]
    BY <1>1, <1>4, <1>5
  <1>7. \A d \in Conns : /\ conn'[d].rank = conn[d].rank /\ conn'[d].pc = conn[d].pc
                         /\ conn'[d].endedBy = conn[d].endedBy
                         /\ conn'[d].refresh # "off" => conn[d].refresh # "off"
    BY <1>1, <1>2, <1>4, <1>6
  <1>8. /\ snatched' \in BOOLEAN
        /\ ~snatched' => ~snatched /\ ~\E d \in Conns : conn[d].rank > conn[c].rank
    BY <1>1 DEF Take
  <1>9. LeaseTypes' /\ InOrder'
    BY <1>1, <1>6, <1>7, <1>8 DEF LeaseInv, LeaseTypes, InOrder
  <1>10. Claims' = Claims
    <2>1. {d \in Conns : conn'[d].rank > 0} = {d \in Conns : conn[d].rank > 0}
      BY <1>7
    <2> QED BY <2>1 DEF Claims
  <1>11. Ranked'
    BY <1>7, <1>10 DEF LeaseInv, Ranked
  <1>12. OwnerLast'
    <2>1. \A d \in Conns : conn[d].rank \in Nat
      BY <1>1 DEF Connections
    <2>2. ~snatched' => \A d \in Conns : conn[d].rank <= conn[c].rank
      BY <1>8, <2>1
    <2> QED BY <1>1, <1>7, <2>2 DEF OwnerLast
  <1>13. EndedByNewer'
    <2> SUFFICES ASSUME ~snatched', NEW d \in Conns, conn'[d].endedBy # d
                 PROVE  conn'[d].endedBy > d
                        \/ (conn'[d].rank > 0 /\ conn'[conn'[d].endedBy].rank > conn'[d].rank)
      BY DEF EndedByNewer
    <2>1. PICK by \in Conns : by = conn[d].endedBy
      BY <1>1 DEF Connections
    <2>2. by > d \/ (conn[d].rank > 0 /\ conn[by].rank > conn[d].rank)
      BY <1>7, <1>8, <2>1 DEF LeaseInv, EndedByNewer
    <2> QED BY <1>7, <2>1, <2>2
  <1> QED BY <1>9, <1>11, <1>12, <1>13 DEF LeaseInv

LEMMA ReleaseKeepsLease ==
    ASSUME LeaseInv, NEW c \in Conns, Release(c)
    PROVE  LeaseInv'
  <1>1. /\ conn \in [Conns -> Connections] /\ conn[c] \in Connections /\ conn[c].pc = "closing"
        /\ local \in [Processes -> Conns \cup {Gone}] /\ UNCHANGED snatched /\ owner' \in {owner, Gone}
    BY DEF LeaseInv, LeaseTypes, Release
  <1>2. PICK b \in Connections : b = conn[c]
    BY <1>1
  <1>3. PICK f \in {"off", "idle", "look", "take"} : f = (IF b.refresh = "idle" THEN "off" ELSE b.refresh)
    BY <1>2 DEF Connections
  <1> DEFINE r == [b EXCEPT !.pc = "closed", !.refresh = f]
  <1>4. /\ r \in Connections /\ r.rank = b.rank /\ r.endedBy = b.endedBy /\ r.refresh = f /\ r.pc = "closed"
    BY <1>2, <1>3 DEF Connections
  <1>5. conn' = [conn EXCEPT ![c] = r]
    BY <1>1, <1>2, <1>3 DEF Release
  <1> HIDE DEF r
  <1>6. conn' \in [Conns -> Connections] /\ conn'[c] = r /\ \A d \in Conns : d # c => conn'[d] = conn[d]
    BY <1>1, <1>4, <1>5
  <1>7. \A d \in Conns : /\ conn'[d].rank = conn[d].rank /\ (conn'[d].pc = "new" <=> conn[d].pc = "new")
                         /\ conn'[d].endedBy = conn[d].endedBy
                         /\ conn'[d].pc \in Early => conn[d].pc \in Early
                         /\ conn'[d].refresh # "off" => conn[d].refresh # "off"
    BY <1>1, <1>2, <1>3, <1>4, <1>6 DEF Early
  <1>8. /\ local' \in [Processes -> Conns \cup {Gone}]
        /\ \A p \in Processes : local'[p] \in {local[p], Gone}
    BY <1>1 DEF Release
  <1>9. LeaseTypes'
    BY <1>1, <1>6, <1>8 DEF LeaseInv, LeaseTypes
  <1>10. InOrder'
    <2>1. \A p \in Processes : local'[p] # Gone => local'[p] = local[p] /\ local[p] \in Conns
      BY <1>1, <1>8
    <2> QED BY <1>7, <2>1 DEF LeaseInv, InOrder
  <1>11. Claims' = Claims
    <2>1. {d \in Conns : conn'[d].rank > 0} = {d \in Conns : conn[d].rank > 0}
      BY <1>7
    <2> QED BY <2>1 DEF Claims
  <1>12. Ranked'
    BY <1>7, <1>11 DEF LeaseInv, Ranked
  <1>13. OwnerLast'
    BY <1>1, <1>7 DEF LeaseInv, OwnerLast, LeaseTypes
  <1>14. EndedByNewer'
    <2>1. \A d \in Conns : conn[d].endedBy \in Conns
      BY <1>1 DEF Connections
    <2> QED BY <1>1, <1>7, <2>1 DEF LeaseInv, EndedByNewer
  <1> QED BY <1>9, <1>10, <1>12, <1>13, <1>14 DEF LeaseInv

\* A connection that comes ends the one its process had, which came before it.
LEMMA ArriveKeepsLease ==
    ASSUME LeaseInv, NEW c \in Conns, NEW p \in Processes, Arrive(c, p)
    PROVE  LeaseInv'
  <1>1. /\ conn \in [Conns -> Connections] /\ conn[c] \in Connections /\ conn[c].pc = "new"
        /\ local \in [Processes -> Conns \cup {Gone}] /\ UNCHANGED <<snatched, owner>> /\ conn[c].rank = 0
        /\ local' = [local EXCEPT ![p] = c] /\ conn[c].refresh = "off"
        /\ \A d \in Conns : d < c => conn[d].pc # "new"
    BY DEF LeaseInv, LeaseTypes, Ranked, Arrive, Early, Connections
  <1>2. PICK base \in [Conns -> Connections] :
            /\ conn' = [base EXCEPT ![c].pc = "claim", ![c].alive = TRUE] /\ base[c] = conn[c]
            /\ \A d \in Conns : /\ base[d].rank = conn[d].rank /\ (base[d].pc = "new" <=> conn[d].pc = "new")
                                /\ base[d].endedBy = conn[d].endedBy \/ base[d].endedBy > d
                                /\ base[d].pc \in Early => conn[d].pc \in Early
                                /\ base[d].refresh = conn[d].refresh
    <2>1. CASE local[p] = Gone
      BY <1>1, <2>1 DEF Arrive
    <2>2. CASE local[p] # Gone
      <3>1. PICK a \in Conns : a = local[p] /\ conn[a].pc # "new"
        BY <1>1, <2>2 DEF LeaseInv, InOrder
      <3>2. c > a
        <4>1. a \in Nat /\ c \in Nat /\ a # c /\ ~(c < a)
          <5>1. c < a /\ conn[a].pc # "new" => conn[c].pc # "new"
            BY <3>1 DEF LeaseInv, InOrder
          <5> QED BY <1>1, <3>1, <5>1, RealtimeAssumption
        <4> QED BY <4>1
      <3>3. PICK b \in Connections : b = conn[a]
        BY <1>1
      <3> DEFINE r == [b EXCEPT !.alive = FALSE, !.endedBy = IF @ = a THEN c ELSE @,
                                !.pc = IF @ = "open" THEN "closing" ELSE @]
                 base == [conn EXCEPT ![a] = r]
      <3>4. /\ r \in Connections /\ r.rank = b.rank /\ r.endedBy \in {b.endedBy, c} /\ r.refresh = b.refresh
            /\ r.pc = (IF b.pc = "open" THEN "closing" ELSE b.pc)
        BY <3>3 DEF Connections
      <3>5. base = Closed(local[p], c)
        BY <1>1, <3>1, <3>3 DEF Closed
      <3>6. conn' = [base EXCEPT ![c].pc = "claim", ![c].alive = TRUE]
        BY <2>2, <3>5 DEF Arrive
      <3> HIDE DEF r
      <3>7. base \in [Conns -> Connections] /\ base[a] = r /\ \A d \in Conns : d # a => base[d] = conn[d]
        BY <1>1, <3>4
      <3> HIDE DEF base
      <3>8. base[c] = conn[c]
        BY <1>1, <3>1, <3>7
      <3>9. ASSUME NEW d \in Conns
            PROVE  /\ base[d].rank = conn[d].rank /\ (base[d].pc = "new" <=> conn[d].pc = "new")
                   /\ base[d].endedBy = conn[d].endedBy \/ base[d].endedBy > d
                   /\ base[d].pc \in Early => conn[d].pc \in Early
                   /\ base[d].refresh = conn[d].refresh
        <4>1. CASE d = a
          BY <3>1, <3>2, <3>3, <3>4, <3>7, <4>1 DEF Early
        <4>2. CASE d # a
          BY <3>7, <4>2
        <4> QED BY <4>1, <4>2
      <3> QED BY <3>6, <3>7, <3>8, <3>9
    <2> QED BY <2>1, <2>2
  <1>3. PICK b \in Connections : b = conn[c]
    BY <1>1
  <1> DEFINE r == [b EXCEPT !.pc = "claim", !.alive = TRUE]
  <1>4. /\ r \in Connections /\ r.rank = b.rank /\ r.endedBy = b.endedBy /\ r.refresh = b.refresh
        /\ r.pc = "claim"
    BY <1>3 DEF Connections
  <1>5. conn' = [base EXCEPT ![c] = r]
    BY <1>1, <1>2, <1>3
  <1> HIDE DEF r
  <1>6. conn' \in [Conns -> Connections] /\ conn'[c] = r /\ \A d \in Conns : d # c => conn'[d] = base[d]
    BY <1>2, <1>4, <1>5
  <1>7. ASSUME NEW d \in Conns
        PROVE  /\ conn'[d].rank = conn[d].rank
               /\ conn'[d].endedBy = conn[d].endedBy \/ conn'[d].endedBy > d
               /\ conn'[d].pc \in Early => conn[d].pc \in Early
               /\ conn'[d].refresh = conn[d].refresh
               /\ d # c => (conn'[d].pc = "new" <=> conn[d].pc = "new")
    <2>1. CASE d = c
      BY <1>1, <1>3, <1>4, <1>6, <2>1 DEF Early
    <2>2. CASE d # c
      BY <1>2, <1>6, <2>2
    <2> QED BY <2>1, <2>2
  <1>8. conn'[c].pc # "new" /\ c \in Nat /\ Conns \subseteq Nat
    BY <1>4, <1>6, RealtimeAssumption
  <1>9. local' \in [Processes -> Conns \cup {Gone}] /\ \A q \in Processes : local'[q] \in {local[q], c}
    BY <1>1
  <1>10. LeaseTypes'
    BY <1>1, <1>6, <1>9 DEF LeaseInv, LeaseTypes
  <1>11. InOrder'
    <2>1. ASSUME NEW d \in Conns, NEW e \in Conns, e < d, conn'[d].pc # "new"
          PROVE  conn'[e].pc # "new"
      <3>1. CASE d = c
        BY <1>1, <1>7, <1>8, <2>1, <3>1
      <3>2. CASE d # c
        BY <1>7, <1>8, <2>1, <3>2 DEF LeaseInv, InOrder
      <3> QED BY <3>1, <3>2
    <2>2. ASSUME NEW q \in Processes, local'[q] # Gone
          PROVE  conn'[local'[q]].pc # "new"
      <3>1. CASE local'[q] = c
        BY <1>8, <3>1
      <3>2. CASE local'[q] # c
        <4>1. PICK a \in Conns : a = local'[q] /\ a = local[q] /\ a # c
          BY <1>9, <2>2, <3>2
        <4>2. conn[a].pc # "new"
          BY <2>2, <4>1 DEF LeaseInv, InOrder
        <4> QED BY <1>7, <4>1, <4>2
      <3> QED BY <3>1, <3>2
    <2> QED BY <2>1, <2>2 DEF InOrder
  <1>12. Claims' = Claims
    <2>1. {d \in Conns : conn'[d].rank > 0} = {d \in Conns : conn[d].rank > 0}
      BY <1>7
    <2> QED BY <2>1 DEF Claims
  <1>13. Ranked'
    BY <1>7, <1>12 DEF LeaseInv, Ranked
  <1>14. OwnerLast'
    BY <1>1, <1>7 DEF LeaseInv, OwnerLast, LeaseTypes
  <1>15. EndedByNewer'
    <2> SUFFICES ASSUME ~snatched, NEW d \in Conns, conn'[d].endedBy # d
                 PROVE  conn'[d].endedBy > d
                        \/ (conn'[d].rank > 0 /\ conn'[conn'[d].endedBy].rank > conn'[d].rank)
      BY <1>1 DEF EndedByNewer
    <2>1. CASE conn'[d].endedBy > d
      BY <2>1
    <2>2. CASE conn'[d].endedBy = conn[d].endedBy
      <3>1. PICK by \in Conns : by = conn[d].endedBy
        BY <1>1 DEF Connections
      <3>2. by > d \/ (conn[d].rank > 0 /\ conn[by].rank > conn[d].rank)
        BY <2>2, <3>1 DEF LeaseInv, EndedByNewer
      <3> QED BY <1>7, <2>2, <3>1, <3>2
    <2> QED BY <1>7, <2>1, <2>2
  <1> QED BY <1>10, <1>11, <1>13, <1>14, <1>15 DEF LeaseInv

LEMMA LeaseStepsKeep ==
    ASSUME LeaseInv, LeaseSteps
    PROVE  LeaseInv'
  <1>1. CASE LeaseExpires
    <2>1. conn' \in [Conns -> Connections] /\ owner' \in {owner, Gone} /\ UNCHANGED <<conn, local, snatched>>
      BY <1>1 DEF LeaseExpires, LeaseInv, LeaseTypes
    <2> QED BY <2>1, LeaseStays
  <1>2. ASSUME NEW c \in Conns, Claim(c)
        PROVE  LeaseInv'
    <2>1. conn[c].pc = "claim" /\ UNCHANGED <<local, snatched>>
      BY <1>2 DEF Claim
    <2>2. CASE owner = Gone /\ owner' = c /\ conn' = Holds(c)
      BY <2>1, <2>2, LeaseClaims
    <2>3. CASE owner' = owner /\ conn' = [conn EXCEPT ![c].pc = "takeover"]
      BY <2>1, <2>3, QuietKeepsLease
    <2>4. CASE owner' = owner /\ conn' = [conn EXCEPT ![c].pc = "greeting"]
      BY <2>1, <2>4, QuietKeepsLease
    <2> QED BY <1>2, <2>2, <2>3, <2>4 DEF Claim
  <1>3. ASSUME NEW c \in Conns, TakeOver(c)
        PROVE  LeaseInv'
    BY <1>3, LeaseClaims DEF TakeOver
  <1> QED BY <1>1, <1>2, <1>3, QuietKeepsLease, LookKeepsLease, TakeKeepsLease, ReleaseKeepsLease,
             ArriveKeepsLease DEF LeaseSteps

LEMMA LeaseStarts == RtInit => LeaseInv
  <1> SUFFICES ASSUME RtInit
               PROVE  LeaseInv
    OBVIOUS
  <1>1. \A c \in Conns : /\ conn[c] \in Connections /\ conn[c].rank = 0 /\ conn[c].endedBy = c
                         /\ conn[c].pc = "new" /\ conn[c].refresh = "off"
    BY DEF RtInit, Connections
  <1>2. LeaseTypes
    BY <1>1 DEF RtInit, LeaseTypes
  <1>3. InOrder
    BY <1>1 DEF RtInit, InOrder
  <1>4. Ranked
    <2>1. Claims \in Nat
      BY ClaimsTyped
    <2> QED BY <1>1, <2>1 DEF Ranked
  <1>5. OwnerLast /\ EndedByNewer
    BY <1>1 DEF RtInit, OwnerLast, EndedByNewer
  <1> QED BY <1>2, <1>3, <1>4, <1>5 DEF LeaseInv

----------------------------------------------------------------------------
(* The session events between the processes.                               *)
Feeds == {"off", "subscribing", "on", "leaving"}
Copies == [event : Events, key : 1..2]
Lines == [known : BOOLEAN, live : BOOLEAN, inbox : Seq(Copies)]

FeedTypes ==
    /\ feed \in [Listeners -> Feeds]
    /\ channel \in [Processes -> Lines]
    /\ recent \in [Processes -> SUBSET (1..2)] /\ got \in [Processes -> [Events -> Nat]]
    /\ clash \in BOOLEAN

\* What a listener's step does to the subscription of its process.
LEMMA LineMoves ==
    ASSUME FeedTypes, NEW l \in Listeners, NEW p \in Processes, p = l[2],
           Subscribe(l) \/ Subscribed(l) \/ Unsubscribe(l) \/ Unsubscribed(l)
    PROVE  /\ channel' \in [Processes -> Lines] /\ \A q \in Processes : q # p => channel'[q] = channel[q]
           /\ channel'[p].inbox = channel[p].inbox
           /\ feed[l] = "off" => /\ channel'[p].known = channel[p].known
                              /\ channel'[p].live = (channel[p].live \/ ~channel[p].known)
           /\ feed[l] = "subscribing" => channel'[p].known = TRUE /\ channel'[p].live = channel[p].live
           /\ feed[l] = "on" =>
                  /\ channel'[p].known = channel[p].known
                  /\ channel'[p].live = (channel[p].live /\ ~(On(p) = {l} /\ channel[p].known))
           /\ feed[l] = "leaving" => channel'[p].known = FALSE /\ channel'[p].live = channel[p].live
  <1>1. channel \in [Processes -> Lines] /\ channel[p] \in Lines
    BY DEF FeedTypes
  <1>2. PICK c \in Lines : c = channel[p]
    BY <1>1
  <1>3. c.known \in BOOLEAN /\ c.live \in BOOLEAN
    BY DEF Lines
  <1>5. PICK last \in BOOLEAN : last <=> (On(p) = {l} /\ c.known)
    BY <1>3
  <1>6. CASE Subscribe(l)
    <2>0. feed[l] = "off"
      BY <1>6 DEF Subscribe
    <2> DEFINE d == [c EXCEPT !.live = @ \/ ~c.known]
    <2>1. d \in Lines /\ d.known = c.known /\ d.inbox = c.inbox /\ d.live = (c.live \/ ~c.known)
      BY <1>2, <1>3 DEF Lines
    <2>2. channel' = [channel EXCEPT ![p] = d]
      BY <1>1, <1>2, <1>6 DEF Subscribe
    <2> HIDE DEF d
    <2>4. channel' \in [Processes -> Lines] /\ channel'[p] = d /\ \A q \in Processes : q # p => channel'[q] = channel[q]
      BY <1>1, <2>1, <2>2
    <2> QED BY <1>2, <2>0, <2>1, <2>4
  <1>7. CASE Subscribed(l)
    <2>0. feed[l] = "subscribing"
      BY <1>7 DEF Subscribed
    <2> DEFINE d == [c EXCEPT !.known = TRUE]
    <2>1. d \in Lines /\ d.known = TRUE /\ d.inbox = c.inbox /\ d.live = c.live
      BY <1>2, <1>3 DEF Lines
    <2>2. channel' = [channel EXCEPT ![p] = d]
      BY <1>1, <1>2, <1>7 DEF Subscribed
    <2> HIDE DEF d
    <2>4. channel' \in [Processes -> Lines] /\ channel'[p] = d /\ \A q \in Processes : q # p => channel'[q] = channel[q]
      BY <1>1, <2>1, <2>2
    <2> QED BY <1>2, <2>0, <2>1, <2>4
  <1>8. CASE Unsubscribe(l)
    <2>0. feed[l] = "on"
      BY <1>8 DEF Unsubscribe
    <2> DEFINE d == [c EXCEPT !.live = @ /\ ~last]
    <2>1. d \in Lines /\ d.known = c.known /\ d.inbox = c.inbox /\ d.live = (c.live /\ ~last)
      BY <1>2, <1>3 DEF Lines
    <2>2. channel' = [channel EXCEPT ![p].live = @ /\ ~(On(p) = {l} /\ channel[p].known)]
      BY <1>8 DEF Unsubscribe
    <2>3. channel' = [channel EXCEPT ![p] = d]
      BY <1>1, <1>2, <1>3, <1>5, <2>2
    <2> HIDE DEF d
    <2>4. channel' \in [Processes -> Lines] /\ channel'[p] = d /\ \A q \in Processes : q # p => channel'[q] = channel[q]
      BY <1>1, <2>1, <2>3
    <2> QED BY <1>2, <1>5, <2>0, <2>1, <2>4
  <1>9. CASE Unsubscribed(l)
    <2>0. feed[l] = "leaving"
      BY <1>9 DEF Unsubscribed
    <2> DEFINE d == [c EXCEPT !.known = FALSE]
    <2>1. d \in Lines /\ d.known = FALSE /\ d.inbox = c.inbox /\ d.live = c.live
      BY <1>2, <1>3 DEF Lines
    <2>2. channel' = [channel EXCEPT ![p] = d]
      BY <1>1, <1>2, <1>9 DEF Unsubscribed
    <2> HIDE DEF d
    <2>4. channel' \in [Processes -> Lines] /\ channel'[p] = d /\ \A q \in Processes : q # p => channel'[q] = channel[q]
      BY <1>1, <2>1, <2>2
    <2> QED BY <1>2, <2>0, <2>1, <2>4
  <1> QED BY <1>6, <1>7, <1>8, <1>9

LEMMA FeedTyped ==
    ASSUME FeedTypes, FeedSteps
    PROVE  FeedTypes'
  <1> USE DEF FeedTypes
  <1>1. ASSUME NEW l \in Listeners, Subscribe(l) \/ Subscribed(l) \/ Unsubscribe(l) \/ Unsubscribed(l)
        PROVE  FeedTypes'
    <2>1. PICK p \in Processes : p = l[2]
      BY RealtimeAssumption
    <2>3. UNCHANGED <<recent, got>> /\ clash' \in BOOLEAN
      BY <1>1 DEF Subscribe, Subscribed, Unsubscribe, Unsubscribed
    <2>4. feed' \in [Listeners -> Feeds]
      BY <1>1 DEF Subscribe, Subscribed, Unsubscribe, Unsubscribed, Feeds
    <2>5. channel' \in [Processes -> Lines]
      BY <1>1, <2>1, LineMoves
    <2> QED BY <2>3, <2>4, <2>5
  <1>2. ASSUME NEW p \in Processes, FromRedis(p)
        PROVE  FeedTypes'
    <2>1. channel[p].inbox \in Seq(Copies) /\ channel[p].inbox # <<>>
      BY <1>2 DEF FromRedis, Lines
    <2>2. PICK m \in Copies : m = Head(channel[p].inbox)
      BY <2>1
    <2>3. m.event \in Events /\ m.key \in 1..2
      BY <2>2 DEF Copies
    <2>4. recent' \in [Processes -> SUBSET (1..2)]
      BY <1>2, <2>2 DEF FromRedis
    <2>5. got' \in [Processes -> [Events -> Nat]]
      <3>1. CASE got' = got
        BY <3>1
      <3>2. CASE got' = [got EXCEPT ![p][m.event] = @ + 1]
        <4>1. got[p] \in [Events -> Nat]
          OBVIOUS
        <4>2. [got[p] EXCEPT ![m.event] = @ + 1] \in [Events -> Nat]
          BY <2>3, <4>1
        <4> QED BY <3>2, <4>2
      <3> QED BY <1>2, <2>2, <3>1, <3>2 DEF FromRedis
    <2>6. channel' \in [Processes -> Lines]
      <3>1. Tail(channel[p].inbox) \in Seq(Copies)
        BY <2>1
      <3>2. channel' = [channel EXCEPT ![p].inbox = Tail(@)]
        BY <1>2 DEF FromRedis
      <3> QED BY <3>1, <3>2 DEF Lines
    <2> QED BY <1>2, <2>4, <2>5, <2>6 DEF FromRedis
  <1>3. ASSUME NEW p \in Processes, NEW e \in Events, NEW ms \in 1..2, Publish(p, e, ms)
        PROVE  FeedTypes'
    <2>1. got' \in [Processes -> [Events -> Nat]] /\ UNCHANGED feed /\ clash' \in BOOLEAN
      BY <1>3 DEF Publish
    <2>2. recent' \in [Processes -> SUBSET (1..2)]
      BY <1>3 DEF Publish, Remember
    <2>3. channel' \in [Processes -> Lines]
      <3>1. PICK reached \in BOOLEAN :
                channel' = [q \in Processes |-> IF reached /\ channel[q].live
                           THEN [channel[q] EXCEPT !.inbox = Append(@, [event |-> e, key |-> ms])]
                           ELSE channel[q]]
        BY <1>3 DEF Publish
      <3>2. [event |-> e, key |-> ms] \in Copies
        BY DEF Copies
      <3>3. ASSUME NEW q \in Processes
            PROVE  /\ channel[q] \in Lines
                   /\ [channel[q] EXCEPT !.inbox = Append(@, [event |-> e, key |-> ms])] \in Lines
        <4>1. channel[q] \in Lines /\ channel[q].inbox \in Seq(Copies)
          BY DEF Lines
        <4>2. PICK box \in Seq(Copies) : box = Append(channel[q].inbox, [event |-> e, key |-> ms])
          <5>1. Append(channel[q].inbox, [event |-> e, key |-> ms]) \in Seq(Copies)
            BY <3>2, <4>1, AppendProperties
          <5> QED BY <5>1
        <4>3. [channel[q] EXCEPT !.inbox = box] \in Lines
          BY <4>1 DEF Lines
        <4> QED BY <4>1, <4>2, <4>3
      <3> QED BY <3>1, <3>3
    <2> QED BY <2>1, <2>2, <2>3
  <1>4. ASSUME NEW p \in Processes, NEW ms \in 1..2, Forget(p, ms)
        PROVE  FeedTypes'
    BY <1>4 DEF Forget
  <1> QED BY <1>1, <1>2, <1>3, <1>4 DEF FeedSteps

\* A connection is thrown out only for one that came, or claimed, after it unless a refresh that found the
\* lease gone took it back from a newer connection (startLeaseRefresh), for any connections and processes.
THEOREM NewestStays == RtSpec => []NewestKept
  <1> DEFINE Inv == LeaseInv /\ FeedTypes
  <1>1. RtInit => Inv
    <2>1. RtInit => FeedTypes
      <3> SUFFICES ASSUME RtInit
                   PROVE  FeedTypes
        OBVIOUS
      <3>1. [known |-> FALSE, live |-> FALSE, inbox |-> <<>>] \in Lines
        BY DEF Lines
      <3> QED BY <3>1 DEF RtInit, FeedTypes, Feeds
    <2> QED BY <2>1, LeaseStarts
  <1>2. Inv /\ [RtSteps]_rtVars => Inv'
    <2> SUFFICES ASSUME Inv, [RtSteps]_rtVars
                 PROVE  Inv'
      OBVIOUS
    <2>1. UNCHANGED leaseVars => LeaseInv'
      BY DEF leaseVars, LeaseInv, LeaseTypes, InOrder, Ranked, OwnerLast, EndedByNewer, Claims
    <2>2. UNCHANGED feedVars => FeedTypes'
      BY DEF feedVars, FeedTypes
    <2>3. CASE LeaseSteps
      BY <2>2, <2>3, LeaseStepsKeep DEF LeaseSteps
    <2>4. CASE FeedSteps
      BY <2>1, <2>4, FeedTyped DEF FeedSteps
    <2>5. CASE QueueSteps \/ UNCHANGED rtVars
      <3>1. UNCHANGED leaseVars /\ UNCHANGED feedVars
        BY <2>5 DEF QueueSteps, Post, Flush, CloseSlow, rtVars
      <3> QED BY <2>1, <2>2, <3>1
    <2> QED BY <2>3, <2>4, <2>5 DEF RtSteps
  <1>3. Inv => NewestKept
    <2> SUFFICES ASSUME Inv
                 PROVE  NewestKept
      OBVIOUS
    <2>1. RtTypeOK
      BY DEF LeaseInv, LeaseTypes, Connections, FeedTypes, Feeds, RtTypeOK
    <2>2. \A c \in Conns : conn[c].endedBy \in Conns
      BY DEF LeaseInv, LeaseTypes, Connections
    <2> QED BY <2>1, <2>2 DEF LeaseInv, EndedByNewer, NewestKept
  <1> HIDE DEF Inv
  <1> QED BY <1>1, <1>2, <1>3, PTL DEF RtSpec

\* Unless a subscription crossed its undoing: a process with a settled listener knows of its subscription,
\* one with a listener has it, and while it is undone nobody listens.
Settled ==
    /\ \A l \in Listeners : /\ feed[l] = "on" => channel[l[2]].known /\ channel[l[2]].live
                            /\ feed[l] = "subscribing" => channel[l[2]].live
    /\ \A l, x \in Listeners : feed[l] = "leaving" /\ x[2] = l[2] => feed[x] \notin {"subscribing", "on"}
    /\ \A p \in Processes :
           channel[p].known => channel[p].live \/ \E l \in Listeners : l[2] = p /\ feed[l] = "leaving"

\* Unless two events had one key: what is on its way was not dispatched here, or its key is remembered.
Expected(p) ==
    LET box == channel[p].inbox IN
    /\ \A e \in Events : got[p][e] <= 1
    /\ \A i \in DOMAIN box : /\ Published(box[i].event)
                             /\ got[p][box[i].event] = 0 \/ box[i].key \in recent[p]
    /\ \A i, j \in DOMAIN box : i # j => box[i].key # box[j].key /\ box[i].event # box[j].event

FeedInv == FeedTypes /\ (~clash => Settled /\ \A p \in Processes : Expected(p))

LEMMA ListenersSettle ==
    ASSUME FeedTypes, Settled, NEW l \in Listeners, ~clash',
           Subscribe(l) \/ Subscribed(l) \/ Unsubscribe(l) \/ Unsubscribed(l)
    PROVE  Settled'
  <1>1. PICK p \in Processes : p = l[2]
    BY RealtimeAssumption
  <1>2. /\ channel' \in [Processes -> Lines] /\ \A q \in Processes : q # p => channel'[q] = channel[q]
        /\ feed[l] = "off" => /\ channel'[p].known = channel[p].known
                              /\ channel'[p].live = (channel[p].live \/ ~channel[p].known)
        /\ feed[l] = "subscribing" => channel'[p].known = TRUE /\ channel'[p].live = channel[p].live
        /\ feed[l] = "on" =>
               /\ channel'[p].known = channel[p].known
               /\ channel'[p].live = (channel[p].live /\ ~(On(p) = {l} /\ channel[p].known))
        /\ feed[l] = "leaving" => channel'[p].known = FALSE /\ channel'[p].live = channel[p].live
    BY <1>1, LineMoves
  <1>3. /\ channel \in [Processes -> Lines]
        /\ \A q \in Processes : channel[q].known \in BOOLEAN /\ channel[q].live \in BOOLEAN
    BY DEF FeedTypes, Lines
  <1>4. feed \in [Listeners -> Feeds] /\ \A x \in Listeners : x[2] \in Processes
    BY RealtimeAssumption DEF FeedTypes
  <1>5. CASE Subscribe(l)
    <2>1. /\ feed[l] = "off" /\ feed'[l] = (IF channel[p].known THEN "on" ELSE "subscribing")
          /\ \A x \in Listeners : x # l => feed'[x] = feed[x]
      BY <1>1, <1>4, <1>5 DEF Subscribe
    <2>2. \A x \in Listeners : x[2] = p => feed[x] # "leaving"
      BY <1>1, <1>5 DEF Subscribe
    <2>3. channel'[p].known = channel[p].known /\ channel'[p].live
      BY <1>2, <1>3, <2>1, <2>2 DEF Settled
    <2>4. \A x \in Listeners : /\ feed'[x] = "on" => channel'[x[2]].known /\ channel'[x[2]].live
                               /\ feed'[x] = "subscribing" => channel'[x[2]].live
      BY <1>1, <1>2, <1>3, <1>4, <2>1, <2>3 DEF Settled
    <2>5. \A x, y \in Listeners : feed'[x] = "leaving" /\ y[2] = x[2] => feed'[y] \notin {"subscribing", "on"}
      BY <1>1, <2>1, <2>2 DEF Settled
    <2>6. \A q \in Processes :
              channel'[q].known => channel'[q].live \/ \E x \in Listeners : x[2] = q /\ feed'[x] = "leaving"
      BY <1>2, <2>1, <2>3 DEF Settled
    <2> QED BY <2>4, <2>5, <2>6 DEF Settled
  <1>6. CASE Subscribed(l)
    <2>1. feed[l] = "subscribing" /\ feed'[l] = "on" /\ \A x \in Listeners : x # l => feed'[x] = feed[x]
      BY <1>4, <1>6 DEF Subscribed
    <2>2. channel'[p].known /\ channel'[p].live
      BY <1>1, <1>2, <2>1 DEF Settled
    <2>3. \A x \in Listeners : x[2] = p => feed[x] # "leaving"
      BY <1>1, <2>1 DEF Settled
    <2>4. \A x \in Listeners : /\ feed'[x] = "on" => channel'[x[2]].known /\ channel'[x[2]].live
                               /\ feed'[x] = "subscribing" => channel'[x[2]].live
      BY <1>1, <1>2, <1>4, <2>1, <2>2 DEF Settled
    <2>5. \A x, y \in Listeners : feed'[x] = "leaving" /\ y[2] = x[2] => feed'[y] \notin {"subscribing", "on"}
      BY <1>1, <2>1, <2>3 DEF Settled
    <2>6. \A q \in Processes :
              channel'[q].known => channel'[q].live \/ \E x \in Listeners : x[2] = q /\ feed'[x] = "leaving"
      BY <1>2, <2>1, <2>2 DEF Settled
    <2> QED BY <2>4, <2>5, <2>6 DEF Settled
  <1>7. CASE Unsubscribe(l)
    <2>1. feed[l] = "on" /\ channel[p].known /\ channel[p].live
      BY <1>1, <1>7 DEF Unsubscribe, Settled
    <2>2. /\ feed'[l] = (IF On(p) = {l} THEN "leaving" ELSE "off")
          /\ \A x \in Listeners : x # l => feed'[x] = feed[x]
      BY <1>1, <1>4, <1>7, <2>1 DEF Unsubscribe
    <2>3. channel'[p].known /\ (On(p) # {l} => channel'[p].live)
      BY <1>2, <2>1
    <2>4. \A x \in Listeners : x[2] = p => feed[x] # "leaving"
      BY <1>1, <2>1 DEF Settled
    <2>5. On(p) = {l} => \A x \in Listeners : x # l /\ x[2] = p => feed[x] \notin {"subscribing", "on"}
      BY DEF On
    <2>6. ASSUME NEW x \in Listeners
          PROVE  /\ feed'[x] = "on" => channel'[x[2]].known /\ channel'[x[2]].live
                 /\ feed'[x] = "subscribing" => channel'[x[2]].live
      <3>1. CASE x[2] = p
        BY <2>2, <2>3, <2>5, <3>1
      <3>2. CASE x[2] # p
        BY <1>1, <1>2, <1>4, <2>2, <3>2 DEF Settled
      <3> QED BY <3>1, <3>2
    <2>7. ASSUME NEW x \in Listeners, NEW y \in Listeners, feed'[x] = "leaving", y[2] = x[2]
          PROVE  feed'[y] \notin {"subscribing", "on"}
      <3>1. CASE x = l
        BY <1>1, <2>2, <2>5, <2>7, <3>1
      <3>2. CASE x # l
        BY <1>1, <2>2, <2>4, <2>7, <3>2 DEF Settled
      <3> QED BY <3>1, <3>2
    <2>8. ASSUME NEW q \in Processes, channel'[q].known
          PROVE  channel'[q].live \/ \E x \in Listeners : x[2] = q /\ feed'[x] = "leaving"
      <3>1. CASE q = p
        BY <1>1, <2>2, <2>3, <3>1
      <3>2. CASE q # p
        BY <1>1, <1>2, <2>2, <2>8, <3>2 DEF Settled
      <3> QED BY <3>1, <3>2
    <2> QED BY <2>6, <2>7, <2>8 DEF Settled
  <1>8. CASE Unsubscribed(l)
    <2>1. feed[l] = "leaving" /\ feed'[l] = "off" /\ \A x \in Listeners : x # l => feed'[x] = feed[x]
      BY <1>4, <1>8 DEF Unsubscribed
    <2>2. \A x \in Listeners : x[2] = p => feed'[x] \notin {"subscribing", "on"}
      BY <1>1, <2>1 DEF Settled
    <2>3. \A x \in Listeners : /\ feed'[x] = "on" => channel'[x[2]].known /\ channel'[x[2]].live
                               /\ feed'[x] = "subscribing" => channel'[x[2]].live
      BY <1>1, <1>2, <1>4, <2>1, <2>2 DEF Settled
    <2>4. \A x, y \in Listeners : feed'[x] = "leaving" /\ y[2] = x[2] => feed'[y] \notin {"subscribing", "on"}
      BY <2>1 DEF Settled
    <2>5. ASSUME NEW q \in Processes, channel'[q].known
          PROVE  channel'[q].live \/ \E x \in Listeners : x[2] = q /\ feed'[x] = "leaving"
      <3>1. q # p
        BY <1>2, <2>1, <2>5
      <3> QED BY <1>1, <1>2, <2>1, <2>5, <3>1 DEF Settled
    <2> QED BY <2>3, <2>4, <2>5 DEF Settled
  <1> QED BY <1>5, <1>6, <1>7, <1>8

\* What keeps the subscriptions keeps what their listeners rely on.
LEMMA LinesSettled ==
    ASSUME Settled, UNCHANGED feed,
           \A p \in Processes : channel'[p].known = channel[p].known /\ channel'[p].live = channel[p].live
    PROVE  Settled'
  <1>1. \A l \in Listeners : l[2] \in Processes
    BY RealtimeAssumption
  <1> QED BY <1>1 DEF Settled

LEMMA PublishArrives ==
    ASSUME FeedInv, NEW p \in Processes, NEW e \in Events, NEW ms \in 1..2, Publish(p, e, ms), ~clash'
    PROVE  Settled' /\ \A q \in Processes : Expected(q)'
  <1> USE DEF FeedInv
  <1>1. /\ ~clash /\ Settled /\ \A q \in Processes : Expected(q)
        /\ ~\E q \in Processes : \E m \in Range(channel[q].inbox) : m.key = ms
        /\ ~Published(e) /\ UNCHANGED feed
    BY DEF Publish, FeedTypes
  <1>2. /\ got \in [Processes -> [Events -> Nat]] /\ channel \in [Processes -> Lines]
        /\ recent \in [Processes -> SUBSET (1..2)]
        /\ \A q \in Processes : channel[q].inbox \in Seq(Copies)
    BY DEF FeedTypes, Lines
  <1>3. PICK new \in Copies : new = [event |-> e, key |-> ms]
    BY DEF Copies
  <1>4. new.event = e /\ new.key = ms
    BY <1>3
  <1>5. PICK reached \in BOOLEAN :
            channel' = [q \in Processes |-> IF reached /\ channel[q].live
                           THEN [channel[q] EXCEPT !.inbox = Append(@, new)]
                           ELSE channel[q]]
    BY <1>3 DEF Publish
  <1>6. ASSUME NEW q \in Processes
        PROVE  /\ channel'[q].known = channel[q].known /\ channel'[q].live = channel[q].live
               /\ channel'[q].inbox \in {channel[q].inbox, Append(channel[q].inbox, new)}
    <2>1. channel[q] \in Lines
      BY <1>2
    <2>2. channel'[q] = channel[q] \/ channel'[q] = [channel[q] EXCEPT !.inbox = Append(@, new)]
      BY <1>5
    <2> QED BY <2>1, <2>2 DEF Lines
  <1>7. Settled'
    BY <1>1, <1>6, LinesSettled
  <1>8. /\ \A q \in Processes : got[q][e] = 0
        /\ got' = [got EXCEPT ![p][e] = 1]
    <2>1. \A q \in Processes : got[q][e] \in Nat /\ ~(got[q][e] > 0)
      BY <1>1, <1>2 DEF Published
    <2> QED BY <2>1 DEF Publish
  <1>9. /\ \A q \in Processes, f \in Events : got'[q][f] = (IF q = p /\ f = e THEN 1 ELSE got[q][f])
    BY <1>2, <1>8
  <1>10. /\ ms \in recent'[p] /\ \A q \in Processes : recent[q] \subseteq recent'[q]
    BY <1>2 DEF Publish, Remember
  <1>11. \A f \in Events : Published(f) => Published(f)'
    BY <1>2, <1>8, <1>9 DEF Published
  <1>12. Published(e)'
    BY <1>9 DEF Published
  <1>13. ASSUME NEW q \in Processes
         PROVE  Expected(q)'
    <2>1. PICK box \in Seq(Copies) : box = channel[q].inbox
      BY <1>2
    <2>2. PICK more \in {box, Append(box, new)} : more = channel'[q].inbox
      BY <1>6, <2>1
    <2>3. ASSUME NEW i \in DOMAIN box
          PROVE  /\ box[i] \in Copies /\ box[i].event \in Events /\ box[i].event # e /\ box[i].key # ms
                 /\ Published(box[i].event)
                 /\ got[q][box[i].event] = 0 \/ box[i].key \in recent[q]
      <3>1. box[i] \in Copies /\ box[i] \in Range(box)
        BY <2>1 DEF Range
      <3>2. Published(box[i].event) /\ (got[q][box[i].event] = 0 \/ box[i].key \in recent[q])
        BY <1>1, <2>1 DEF Expected
      <3> QED BY <1>1, <2>1, <3>1, <3>2 DEF Copies
    <2>4. ASSUME NEW i \in DOMAIN more
          PROVE  (i \in DOMAIN box /\ more[i] = box[i]) \/ (i = Len(box) + 1 /\ more[i] = new)
      BY <2>2, AppendProperties
    <2>5. \A f \in Events : got'[q][f] <= 1
      BY <1>1, <1>9 DEF Expected
    <2>6. ASSUME NEW i \in DOMAIN more
          PROVE  Published(more[i].event)' /\ (got'[q][more[i].event] = 0 \/ more[i].key \in recent'[q])
      <3>1. CASE i \in DOMAIN box /\ more[i] = box[i]
        BY <1>9, <1>10, <1>11, <2>3, <3>1
      <3>2. CASE i = Len(box) + 1 /\ more[i] = new
        BY <1>4, <1>8, <1>9, <1>10, <1>12, <3>2
      <3> QED BY <2>4, <3>1, <3>2
    <2>7. ASSUME NEW i \in DOMAIN more, NEW j \in DOMAIN more, i # j
          PROVE  more[i].key # more[j].key /\ more[i].event # more[j].event
      <3>1. CASE i \in DOMAIN box /\ more[i] = box[i] /\ j \in DOMAIN box /\ more[j] = box[j]
        BY <1>1, <2>1, <2>7, <3>1 DEF Expected
      <3>2. CASE i \in DOMAIN box /\ more[i] = box[i] /\ more[j] = new
        BY <1>4, <2>3, <3>2
      <3>3. CASE j \in DOMAIN box /\ more[j] = box[j] /\ more[i] = new
        BY <1>4, <2>3, <3>3
      <3> QED BY <2>4, <2>7, <3>1, <3>2, <3>3
    <2> QED BY <2>2, <2>5, <2>6, <2>7 DEF Expected
  <1> QED BY <1>7, <1>13

LEMMA RedisArrives ==
    ASSUME FeedInv, NEW p \in Processes, FromRedis(p), ~clash'
    PROVE  Settled' /\ \A q \in Processes : Expected(q)'
  <1> USE DEF FeedInv
  <1>1. ~clash /\ Settled /\ (\A q \in Processes : Expected(q)) /\ UNCHANGED feed
    BY DEF FromRedis
  <1>2. /\ got \in [Processes -> [Events -> Nat]] /\ channel \in [Processes -> Lines]
        /\ recent \in [Processes -> SUBSET (1..2)]
        /\ \A q \in Processes : channel[q].inbox \in Seq(Copies)
    BY DEF FeedTypes, Lines
  <1>3. PICK box \in Seq(Copies) : box = channel[p].inbox /\ box # <<>>
    BY <1>2 DEF FromRedis
  <1>4. PICK m \in Copies : m = Head(box) /\ m = box[1]
    BY <1>3
  <1>5. m.event \in Events /\ 1 \in DOMAIN box
    BY <1>3, <1>4 DEF Copies
  <1>6. /\ \A q \in Processes : /\ channel'[q].known = channel[q].known /\ channel'[q].live = channel[q].live
                                /\ q # p => channel'[q].inbox = channel[q].inbox
        /\ channel'[p].inbox = Tail(box)
    <2>1. channel' = [channel EXCEPT ![p].inbox = Tail(@)]
      BY DEF FromRedis
    <2> QED BY <1>2, <1>3, <2>1 DEF Lines
  <1>7. Settled'
    BY <1>1, <1>6, LinesSettled
  <1>8. /\ \A q \in Processes : q # p => recent'[q] = recent[q] /\ got'[q] = got[q]
        /\ recent'[p] = recent[p] \ {m.key}
        /\ m.key \in recent[p] => got'[p] = got[p]
        /\ m.key \notin recent[p] => got'[p] = [got[p] EXCEPT ![m.event] = @ + 1]
    BY <1>2, <1>3, <1>4 DEF FromRedis
  <1>9. m.key \notin recent[p] => got[p][m.event] = 0
    BY <1>1, <1>3, <1>4, <1>5 DEF Expected
  <1>10. /\ \A f \in Events : f # m.event => got'[p][f] = got[p][f]
         /\ \A f \in Events : got[p][f] \in Nat /\ got[p][f] <= 1 /\ got'[p][f] <= 1
         /\ got'[p][m.event] = got[p][m.event] \/ got'[p][m.event] = 1
    <2>1. \A f \in Events : got[p][f] \in Nat /\ got[p][f] <= 1
      BY <1>1, <1>2 DEF Expected
    <2>2. CASE m.key \in recent[p]
      BY <1>8, <2>1, <2>2
    <2>3. CASE m.key \notin recent[p]
      <3>1. got[p] \in [Events -> Nat] /\ got[p][m.event] = 0 /\ got'[p] = [got[p] EXCEPT ![m.event] = @ + 1]
        BY <1>2, <1>8, <1>9, <2>3
      <3>2. got'[p][m.event] = 1 /\ \A f \in Events : f # m.event => got'[p][f] = got[p][f]
        BY <1>5, <3>1
      <3> QED BY <1>5, <2>1, <3>2
    <2> QED BY <2>1, <2>2, <2>3
  <1>11. \A f \in Events : Published(f) => Published(f)'
    <2> SUFFICES ASSUME NEW f \in Events, NEW q \in Processes, got[q][f] > 0
                 PROVE  got'[q][f] > 0
      BY DEF Published
    <2> QED BY <1>8, <1>10
  <1>12. ASSUME NEW q \in Processes, q # p
         PROVE  Expected(q)'
    <2>1. channel'[q].inbox = channel[q].inbox /\ recent'[q] = recent[q] /\ got'[q] = got[q]
      BY <1>6, <1>8, <1>12
    <2>2. \A i \in DOMAIN channel[q].inbox : channel[q].inbox[i].event \in Events
      <3>1. \A i \in DOMAIN channel[q].inbox : channel[q].inbox[i] \in Copies
        BY <1>2
      <3> QED BY <3>1 DEF Copies
    <2> QED BY <1>1, <1>11, <2>1, <2>2 DEF Expected
  <1>13. Expected(p)'
    <2>1. PICK rest \in Seq(Copies) : rest = Tail(box)
      <3>1. Tail(box) \in Seq(Copies)
        BY <1>3
      <3> QED BY <3>1
    <2>2. ASSUME NEW i \in DOMAIN rest
          PROVE  i + 1 \in DOMAIN box /\ rest[i] = box[i + 1] /\ i + 1 # 1 /\ rest[i].event \in Events
      <3>1. i + 1 \in DOMAIN box /\ rest[i] = box[i + 1] /\ i \in Nat \ {0}
        BY <1>3, <2>1
      <3>2. rest[i] \in Copies
        OBVIOUS
      <3> QED BY <3>1, <3>2 DEF Copies
    <2>3. \A i, j \in DOMAIN box : i # j => box[i].key # box[j].key /\ box[i].event # box[j].event
      BY <1>1, <1>3 DEF Expected
    <2>4. ASSUME NEW i \in DOMAIN rest
          PROVE  Published(rest[i].event)' /\ (got'[p][rest[i].event] = 0 \/ rest[i].key \in recent'[p])
      <3>1. rest[i].key # m.key /\ rest[i].event # m.event
        BY <1>4, <1>5, <2>2, <2>3
      <3>2. Published(rest[i].event) /\ (got[p][rest[i].event] = 0 \/ rest[i].key \in recent[p])
        BY <1>1, <1>3, <2>2 DEF Expected
      <3> QED BY <1>8, <1>10, <1>11, <2>2, <3>1, <3>2
    <2>5. ASSUME NEW i \in DOMAIN rest, NEW j \in DOMAIN rest, i # j
          PROVE  rest[i].key # rest[j].key /\ rest[i].event # rest[j].event
      <3>1. i \in Int /\ j \in Int /\ i + 1 # j + 1
        BY <2>5
      <3> QED BY <2>2, <2>3, <3>1
    <2>6. channel'[p].inbox = rest
      BY <1>6, <2>1
    <2> QED BY <1>10, <2>4, <2>5, <2>6 DEF Expected
  <1> QED BY <1>7, <1>12, <1>13

LEMMA ForgetArrives ==
    ASSUME FeedInv, NEW p \in Processes, NEW ms \in 1..2, Forget(p, ms), ~clash'
    PROVE  Settled' /\ \A q \in Processes : Expected(q)'
  <1> USE DEF FeedInv
  <1>1. /\ ~clash /\ Settled /\ (\A q \in Processes : Expected(q)) /\ UNCHANGED <<feed, channel, got>>
        /\ ~\E m \in Range(channel[p].inbox) : m.key = ms
    BY DEF Forget, FeedTypes
  <1>2. recent' = [recent EXCEPT ![p] = @ \ {ms}] /\ recent \in [Processes -> SUBSET (1..2)]
    BY DEF Forget, FeedTypes
  <1>3. \A i \in DOMAIN channel[p].inbox : channel[p].inbox[i].key # ms
    BY <1>1 DEF Range
  <1>4. \A q \in Processes : \A i \in DOMAIN channel[q].inbox :
            channel[q].inbox[i].key \in recent[q] => channel[q].inbox[i].key \in recent'[q]
    BY <1>2, <1>3
  <1>5. Settled'
    BY <1>1, LinesSettled
  <1>6. \A f : Published(f)' <=> Published(f)
    BY <1>1 DEF Published
  <1> QED BY <1>1, <1>4, <1>5, <1>6 DEF Expected

LEMMA FeedStepsArrive ==
    ASSUME FeedInv, FeedSteps
    PROVE  FeedInv'
  <1>1. FeedTypes /\ FeedTypes'
    BY FeedTyped DEF FeedInv
  <1>2. CASE clash'
    BY <1>1, <1>2 DEF FeedInv
  <1>3. ASSUME ~clash', NEW l \in Listeners, Subscribe(l) \/ Subscribed(l) \/ Unsubscribe(l) \/ Unsubscribed(l)
        PROVE  Settled' /\ \A p \in Processes : Expected(p)'
    <2>1. ~clash /\ UNCHANGED <<recent, got>>
      BY <1>1, <1>3 DEF Subscribe, Subscribed, Unsubscribe, Unsubscribed, FeedTypes
    <2>2. Settled'
      BY <1>1, <1>3, <2>1, ListenersSettle DEF FeedInv
    <2>3. PICK p \in Processes : p = l[2]
      BY RealtimeAssumption
    <2>4. \A q \in Processes : channel'[q].inbox = channel[q].inbox
      BY <1>1, <1>3, <2>3, LineMoves
    <2>5. \A f : Published(f)' <=> Published(f)
      BY <2>1 DEF Published
    <2> QED BY <2>1, <2>2, <2>4, <2>5 DEF Expected, FeedInv
  <1> QED BY <1>1, <1>2, <1>3, PublishArrives, RedisArrives, ForgetArrives DEF FeedSteps, FeedInv

----------------------------------------------------------------------------
(* The queue of a slow socket.                                             *)
Posts == Nat \X BOOLEAN
SlowSockets == [open : BOOLEAN, queue : Seq(Posts), flushing : BOOLEAN, sent : Seq(Posts), posted : Seq(Posts)]

\* Posts are numbered; what was sent and then the queue is a subsequence of them with every critical one.
Numbered == \A i \in DOMAIN out.posted : out.posted[i][1] = i
QueueInv == out \in SlowSockets /\ Numbered /\ NothingCriticalIsLost

Droppable(q) == {x \in Range(q) : ~x[2]}

LEMMA RangeIsFinite ==
    ASSUME NEW q \in Seq(Posts)
    PROVE  /\ IsFiniteSet(Range(q)) /\ IsFiniteSet(Droppable(q)) /\ Cardinality(Droppable(q)) \in Nat
           /\ Cardinality(Droppable(q)) <= Len(q)
  <1>1. PICK n \in Nat : n = Len(q)
    OBVIOUS
  <1>2. IsFiniteSet(1..n) /\ Cardinality(1..n) = n
    BY FS_Interval
  <1>3. q \in Surjection(1..n, Range(q))
    BY <1>1 DEF Range, Surjection
  <1>4. IsFiniteSet(Range(q)) /\ Cardinality(Range(q)) <= n
    BY <1>2, <1>3, FS_Surjection
  <1>5. Droppable(q) \subseteq Range(q)
    BY DEF Droppable
  <1>6. IsFiniteSet(Droppable(q)) /\ Cardinality(Droppable(q)) <= Cardinality(Range(q))
    BY <1>4, <1>5, FS_Subset
  <1>7. Cardinality(Droppable(q)) \in Nat /\ Cardinality(Range(q)) \in Nat
    BY <1>4, <1>6, FS_CardinalityType
  <1> QED BY <1>1, <1>4, <1>6, <1>7

LEMMA RangeAppend ==
    ASSUME NEW q \in Seq(Posts), NEW x \in Posts
    PROVE  /\ Append(q, x) \in Seq(Posts) /\ Range(Append(q, x)) = Range(q) \cup {x}
           /\ Len(Append(q, x)) = Len(q) + 1 /\ Append(q, x)[Len(q) + 1] = x
           /\ \A i \in 1..Len(q) : Append(q, x)[i] = q[i]
  <1>1. PICK r \in Seq(Posts) : r = Append(q, x)
    BY AppendProperties
  <1>2. Len(r) = Len(q) + 1 /\ r[Len(q) + 1] = x /\ \A i \in 1..Len(q) : r[i] = q[i]
    BY <1>1, AppendProperties
  <1>3. DOMAIN r = 1..(Len(q) + 1) /\ DOMAIN q = 1..Len(q) /\ Len(q) \in Nat
    BY <1>1, <1>2
  <1>4. Range(r) = Range(q) \cup {x}
    BY <1>2, <1>3 DEF Range
  <1> QED BY <1>1, <1>2, <1>4

\* Appending to what is queued appends to what is sent or queued.
LEMMA AppendLater ==
    ASSUME NEW s \in Seq(Posts), NEW q \in Seq(Posts), NEW x \in Posts
    PROVE  s \o Append(q, x) = Append(s \o q, x)
  OBVIOUS

LEMMA FlushedInOrder ==
    ASSUME NEW s \in Seq(Posts), NEW q \in Seq(Posts), NEW n \in 0..Len(q)
    PROVE  /\ SubSeq(q, 1, n) \in Seq(Posts) /\ SubSeq(q, n + 1, Len(q)) \in Seq(Posts)
           /\ (s \o SubSeq(q, 1, n)) \o SubSeq(q, n + 1, Len(q)) = s \o q
           /\ Range(SubSeq(q, n + 1, Len(q))) \subseteq Range(q)
           /\ n = Len(q) => SubSeq(q, n + 1, Len(q)) = <<>>
  <1>1. Len(q) \in Nat /\ n \in Nat /\ n <= Len(q) /\ DOMAIN q = 1..Len(q)
    OBVIOUS
  <1>2. PICK a \in Seq(Posts) : a = SubSeq(q, 1, n)
    <2>1. \A i \in 1..n : q[i] \in Posts
      BY <1>1
    <2>2. SubSeq(q, 1, n) \in Seq(Posts)
      BY <1>1, <2>1, SubSeqProperties
    <2> QED BY <2>2
  <1>3. PICK b \in Seq(Posts) : /\ b = SubSeq(q, n + 1, Len(q)) /\ Len(b) = Len(q) - n
                                /\ \A i \in 1..(Len(q) - n) : b[i] = q[i + n]
    <2>1. (\A i \in (n + 1)..Len(q) : q[i] \in Posts) /\ n + 1 \in Int /\ Len(q) \in Int
      BY <1>1
    <2>2. /\ SubSeq(q, n + 1, Len(q)) \in Seq(Posts)
          /\ Len(SubSeq(q, n + 1, Len(q))) = IF n + 1 <= Len(q) THEN Len(q) - (n + 1) + 1 ELSE 0
          /\ \A i \in 1..(Len(q) - (n + 1) + 1) : SubSeq(q, n + 1, Len(q))[i] = q[n + 1 + i - 1]
      BY <2>1, SubSeqProperties
    <2>3. Len(SubSeq(q, n + 1, Len(q))) = Len(q) - n
      <3>1. PICK k \in Nat : k = Len(q) /\ n <= k
        BY <1>1
      <3>2. CASE n = k
        <4>1. ~(n + 1 <= k) /\ k - n = 0
          BY <1>1, <3>2
        <4> QED BY <2>2, <3>1, <4>1
      <3>3. CASE n # k
        <4>1. n + 1 <= k /\ k - (n + 1) + 1 = k - n
          <5>1. n \in Nat
            BY <1>1
          <5>2. n <= k
            BY <3>1
          <5> QED BY <3>3, <5>1, <5>2
        <4> QED BY <2>2, <3>1, <4>1
      <3> QED BY <3>2, <3>3
    <2>4. \A i \in 1..(Len(q) - n) : SubSeq(q, n + 1, Len(q))[i] = q[i + n]
      BY <1>1, <2>2
    <2> QED BY <2>2, <2>3, <2>4
  <1>4. Range(b) \subseteq Range(q)
    <2>1. PICK k \in Nat : k = Len(q) - n /\ k + n = Len(q)
      <3>1. Len(q) - n \in Nat /\ (Len(q) - n) + n = Len(q)
        BY <1>1
      <3> QED BY <3>1
    <2>2. DOMAIN b = 1..k /\ \A i \in 1..k : i + n \in DOMAIN q /\ b[i] = q[i + n]
      <3>1. DOMAIN b = 1..k
        BY <1>3, <2>1
      <3>2. \A i \in 1..k : i + n \in 1..Len(q)
        BY <1>1, <2>1
      <3>3. \A i \in 1..k : b[i] = q[i + n]
        BY <1>3, <2>1
      <3> QED BY <1>1, <3>1, <3>2, <3>3
    <2> QED BY <2>2 DEF Range
  <1>5. (s \o a) \o b = s \o q
    <2>1. a \o b = SubSeq(q, 1, Len(q))
      <3>1. 1 \in 1..(Len(q) + 1) /\ n \in (1 - 1)..Len(q) /\ Len(q) \in n..Len(q)
        BY <1>1
      <3> QED BY <1>2, <1>3, <3>1, ConcatAdjacentSubSeq
    <2>2. a \o b = q
      BY <2>1, SubSeqFull
    <2>3. (s \o a) \o b = s \o (a \o b)
      BY ConcatAssociative
    <2> QED BY <2>2, <2>3
  <1>6. n = Len(q) => b = <<>>
    BY <1>1, <1>3
  <1> QED BY <1>2, <1>3, <1>4, <1>5, <1>6

LEMMA PostKeepsQueue ==
    ASSUME QueueInv, NEW critical \in BOOLEAN, Post(critical)
    PROVE  QueueInv'
  <1>1. PICK o \in SlowSockets : o = out
    BY DEF QueueInv
  <1>2. /\ o.open \in BOOLEAN /\ o.open = TRUE /\ o.queue \in Seq(Posts) /\ o.sent \in Seq(Posts)
        /\ o.posted \in Seq(Posts) /\ o.flushing \in BOOLEAN
    BY <1>1 DEF SlowSockets, Post
  <1>3. PICK x \in Posts : x = <<Len(o.posted) + 1, critical>>
    <2>1. Len(o.posted) + 1 \in Nat
      BY <1>2
    <2>2. <<Len(o.posted) + 1, critical>> \in Posts
      BY <2>1 DEF Posts
    <2> QED BY <2>2
  <1>4. PICK posted \in Seq(Posts) : posted = Append(o.posted, x)
    BY <1>2, RangeAppend
  <1>5. /\ Range(posted) = Range(o.posted) \cup {x} /\ x[1] = Len(o.posted) + 1 /\ x[2] = critical
        /\ \A i \in DOMAIN posted : posted[i][1] = i
    <2>1. /\ Range(posted) = Range(o.posted) \cup {x} /\ Len(posted) = Len(o.posted) + 1
          /\ posted[Len(o.posted) + 1] = x /\ \A i \in 1..Len(o.posted) : posted[i] = o.posted[i]
      BY <1>2, <1>4, RangeAppend
    <2>2. \A i \in 1..Len(o.posted) : o.posted[i][1] = i
      BY <1>1, <1>2 DEF QueueInv, Numbered
    <2>3. x[1] = Len(o.posted) + 1 /\ x[2] = critical
      BY <1>3
    <2> QED BY <1>2, <2>1, <2>2, <2>3
  <1>6. PICK reached \in Seq(Posts) : reached = o.sent \o o.queue
    BY <1>2, ConcatProperties
  <1>7. /\ o.queue # <<>> => o.flushing
        /\ {y \in Range(o.posted) : y[2]} \subseteq Range(reached)
        /\ Range(reached) \subseteq Range(o.posted)
        /\ \A i, j \in DOMAIN reached : i < j => reached[i][1] < reached[j][1]
        /\ Cardinality(Droppable(o.queue)) <= MaxQueue
    BY <1>1, <1>2, <1>6 DEF QueueInv, NothingCriticalIsLost, Droppable
  <1>8. CASE Full(critical)
    <2>1. PICK open \in BOOLEAN : open = (Len(o.queue) < TooSlow)
      <3>1. (Len(o.queue) < TooSlow) \in BOOLEAN
        OBVIOUS
      <3> QED BY <3>1
    <2> DEFINE n == [o EXCEPT !.posted = posted, !.open = open]
    <2>2. /\ n \in SlowSockets /\ n.posted = posted /\ n.queue = o.queue /\ n.sent = o.sent
          /\ n.flushing = o.flushing
      BY <1>1 DEF SlowSockets
    <2>3. out' = n
      BY <1>1, <1>3, <1>4, <1>8, <2>1 DEF Post
    <2> HIDE DEF n
    <2>4. ~critical
      BY <1>8 DEF Full
    <2>5. {y \in Range(posted) : y[2]} \subseteq Range(reached) /\ Range(reached) \subseteq Range(posted)
      BY <1>5, <1>7, <2>4
    <2>6. Numbered'
      BY <1>5, <2>2, <2>3 DEF Numbered
    <2>7. NothingCriticalIsLost'
      BY <1>6, <1>7, <2>2, <2>3, <2>5 DEF NothingCriticalIsLost, Droppable
    <2> QED BY <2>2, <2>3, <2>6, <2>7 DEF QueueInv
  <1>9. CASE ~Full(critical)
    <2>1. PICK queue \in Seq(Posts) : queue = Append(o.queue, x)
      BY <1>2, RangeAppend
    <2> DEFINE n == [o EXCEPT !.posted = posted, !.queue = queue, !.flushing = TRUE]
    <2>2. /\ n \in SlowSockets /\ n.posted = posted /\ n.queue = queue /\ n.sent = o.sent
          /\ n.flushing = TRUE
      BY <1>1 DEF SlowSockets
    <2>3. out' = n
      BY <1>1, <1>3, <1>4, <1>9, <2>1 DEF Post
    <2> HIDE DEF n
    <2>4. PICK more \in Seq(Posts) :
              /\ more = o.sent \o queue /\ more = Append(reached, x) /\ Range(more) = Range(reached) \cup {x}
              /\ Len(more) = Len(reached) + 1 /\ more[Len(reached) + 1] = x
              /\ \A i \in 1..Len(reached) : more[i] = reached[i]
      <3>1. PICK more \in Seq(Posts) : more = Append(reached, x)
        BY RangeAppend
      <3>2. o.sent \o queue = more
        BY <1>2, <1>6, <2>1, <3>1, AppendLater
      <3>3. /\ Range(more) = Range(reached) \cup {x} /\ Len(more) = Len(reached) + 1
            /\ more[Len(reached) + 1] = x /\ \A i \in 1..Len(reached) : more[i] = reached[i]
        BY <3>1, RangeAppend
      <3> QED BY <3>1, <3>2, <3>3
    <2>5. {y \in Range(posted) : y[2]} \subseteq Range(more) /\ Range(more) \subseteq Range(posted)
      BY <1>5, <1>7, <2>4
    <2>6. ASSUME NEW i \in DOMAIN more, NEW j \in DOMAIN more, i < j
          PROVE  more[i][1] < more[j][1]
      <3>1. i \in 1..Len(reached) /\ more[i] = reached[i]
        BY <2>4, <2>6
      <3>2. CASE j \in 1..Len(reached)
        BY <1>7, <2>4, <2>6, <3>1, <3>2
      <3>3. CASE j = Len(reached) + 1
        <4>1. PICK k \in DOMAIN o.posted : reached[i] = o.posted[k]
          <5>1. reached[i] \in Range(reached)
            BY <3>1 DEF Range
          <5>2. reached[i] \in Range(o.posted)
            BY <1>7, <5>1
          <5> QED BY <5>2 DEF Range
        <4>2. k \in 1..Len(o.posted) /\ o.posted[k][1] = k
          BY <1>1, <1>2, <4>1 DEF QueueInv, Numbered
        <4> QED BY <1>2, <1>5, <2>4, <3>1, <3>3, <4>1, <4>2
      <3> QED BY <2>4, <2>6, <3>2, <3>3
    <2>7. Cardinality(Droppable(queue)) <= MaxQueue
      <3>1. CASE critical
        <4>1. Droppable(queue) = Droppable(o.queue)
          <5>1. Range(queue) = Range(o.queue) \cup {x}
            BY <1>2, <2>1, RangeAppend
          <5> QED BY <1>5, <3>1, <5>1 DEF Droppable
        <4> QED BY <1>7, <4>1
      <3>2. CASE ~critical
        <4>1. Len(o.queue) < MaxQueue /\ MaxQueue \in Nat /\ Len(o.queue) \in Nat
          BY <1>1, <1>2, <1>9, <3>2, RealtimeAssumption DEF Full
        <4>2. Len(queue) = Len(o.queue) + 1
          BY <1>2, <2>1, RangeAppend
        <4>3. Cardinality(Droppable(queue)) <= Len(queue) /\ Cardinality(Droppable(queue)) \in Nat
          BY RangeIsFinite
        <4> QED BY <4>1, <4>2, <4>3
      <3> QED BY <3>1, <3>2
    <2>8. Numbered'
      BY <1>5, <2>2, <2>3 DEF Numbered
    <2>9. NothingCriticalIsLost'
      <3>1. out'.queue = queue /\ out'.sent \o out'.queue = more /\ out'.posted = posted /\ out'.flushing = TRUE
        BY <2>2, <2>3, <2>4
      <3>2. Cardinality({y \in Range(out'.queue) : ~y[2]}) <= MaxQueue
        BY <2>7, <3>1 DEF Droppable
      <3> QED BY <2>5, <2>6, <3>1, <3>2 DEF NothingCriticalIsLost
    <2> QED BY <2>2, <2>3, <2>8, <2>9 DEF QueueInv
  <1> QED BY <1>8, <1>9

LEMMA FlushKeepsQueue ==
    ASSUME QueueInv, Flush
    PROVE  QueueInv'
  <1>1. PICK o \in SlowSockets : o = out
    BY DEF QueueInv
  <1>2. /\ o.open = TRUE /\ o.queue \in Seq(Posts) /\ o.sent \in Seq(Posts) /\ o.posted \in Seq(Posts)
    BY <1>1 DEF SlowSockets, Flush
  <1>3. PICK n \in 0..Len(o.queue) :
            out' = [o EXCEPT !.sent = @ \o SubSeq(o.queue, 1, n),
                             !.queue = SubSeq(@, n + 1, Len(@)),
                             !.flushing = n < Len(o.queue)]
    BY <1>1 DEF Flush
  <1>4. PICK queue \in Seq(Posts), sent \in Seq(Posts), flushing \in BOOLEAN :
            /\ queue = SubSeq(o.queue, n + 1, Len(o.queue)) /\ sent = o.sent \o SubSeq(o.queue, 1, n)
            /\ flushing = (n < Len(o.queue)) /\ (flushing <=> n < Len(o.queue))
    <2>1. SubSeq(o.queue, 1, n) \in Seq(Posts) /\ SubSeq(o.queue, n + 1, Len(o.queue)) \in Seq(Posts)
      BY <1>2, FlushedInOrder
    <2>2. o.sent \o SubSeq(o.queue, 1, n) \in Seq(Posts)
      BY <1>2, <2>1, ConcatProperties
    <2>3. (n < Len(o.queue)) \in BOOLEAN
      OBVIOUS
    <2> QED BY <2>1, <2>2, <2>3
  <1>5. /\ sent \o queue = o.sent \o o.queue /\ Range(queue) \subseteq Range(o.queue)
        /\ n = Len(o.queue) => queue = <<>>
    BY <1>2, <1>4, FlushedInOrder
  <1> DEFINE s == [o EXCEPT !.sent = sent, !.queue = queue, !.flushing = flushing]
  <1>6. /\ s \in SlowSockets /\ s.posted = o.posted /\ s.queue = queue /\ s.sent = sent
        /\ s.flushing = flushing /\ s.open = o.open
    BY DEF SlowSockets
  <1>7. out' = s
    BY <1>1, <1>3, <1>4
  <1> HIDE DEF s
  <1>8. queue # <<>> => flushing
    <2>1. n \in Nat /\ Len(o.queue) \in Nat /\ n <= Len(o.queue)
      BY <1>2
    <2>2. n < Len(o.queue) \/ n = Len(o.queue)
      BY <2>1
    <2> QED BY <1>4, <1>5, <2>2
  <1>9. Cardinality(Droppable(queue)) <= MaxQueue
    <2>1. Droppable(queue) \subseteq Droppable(o.queue)
      BY <1>5 DEF Droppable
    <2>2. /\ IsFiniteSet(Droppable(o.queue)) /\ Cardinality(Droppable(o.queue)) \in Nat
          /\ Cardinality(Droppable(queue)) \in Nat
      BY <1>2, RangeIsFinite
    <2>3. Cardinality(Droppable(queue)) <= Cardinality(Droppable(o.queue))
      BY <2>1, <2>2, FS_Subset
    <2>4. Cardinality(Droppable(o.queue)) <= MaxQueue /\ MaxQueue \in Nat
      BY <1>1, <1>2, RealtimeAssumption DEF QueueInv, NothingCriticalIsLost, Droppable
    <2> QED BY <2>2, <2>3, <2>4
  <1>10. Numbered'
    BY <1>1, <1>6, <1>7 DEF QueueInv, Numbered
  <1>11. PICK reached \in Seq(Posts) : reached = o.sent \o o.queue
    BY <1>2, ConcatProperties
  <1>12. NothingCriticalIsLost'
    <2>1. /\ {y \in Range(o.posted) : y[2]} \subseteq Range(reached)
          /\ Range(reached) \subseteq Range(o.posted)
          /\ \A i, j \in DOMAIN reached : i < j => reached[i][1] < reached[j][1]
      BY <1>1, <1>2, <1>11 DEF QueueInv, NothingCriticalIsLost
    <2>2. sent \o queue = reached
      BY <1>5, <1>11
    <2> QED BY <1>6, <1>7, <1>8, <1>9, <2>1, <2>2 DEF NothingCriticalIsLost, Droppable
  <1> QED BY <1>6, <1>7, <1>10, <1>12 DEF QueueInv

LEMMA QueueStepsKeep ==
    ASSUME QueueInv, QueueSteps
    PROVE  QueueInv'
  <1>1. CASE CloseSlow
    <2>1. PICK o \in SlowSockets : o = out
      BY DEF QueueInv
    <2> DEFINE s == [o EXCEPT !.open = FALSE, !.queue = <<>>, !.flushing = FALSE]
    <2>2. s \in SlowSockets /\ s.open = FALSE /\ s.posted = o.posted
      <3>1. <<>> \in Seq(Posts)
        OBVIOUS
      <3> QED BY <3>1 DEF SlowSockets
    <2>3. out' = s
      BY <1>1, <2>1 DEF CloseSlow
    <2> HIDE DEF s
    <2> QED BY <2>1, <2>2, <2>3 DEF QueueInv, Numbered, NothingCriticalIsLost
  <1> QED BY <1>1, PostKeepsQueue, FlushKeepsQueue DEF QueueSteps

\* No process hands an event to its listeners twice, a process with a settled listener has its subscription,
\* and an open slow socket gets every critical event in order, sent or with a flush to come, with no more
\* than MaxQueue others waiting (SessionManager), for any processes, listeners, events and queue bounds.
THEOREM EventsGetThere == RtSpec => []EventsArrive
  <1> DEFINE Inv == FeedInv /\ QueueInv
  <1>1. RtInit => Inv
    <2> SUFFICES ASSUME RtInit
                 PROVE  Inv
      OBVIOUS
    <2>1. [known |-> FALSE, live |-> FALSE, inbox |-> <<>>] \in Lines
      BY DEF Lines
    <2>2. FeedTypes
      BY <2>1 DEF RtInit, FeedTypes, Feeds
    <2>3. Settled
      BY RealtimeAssumption DEF RtInit, Settled
    <2>4. \A p \in Processes : Expected(p)
      BY DEF RtInit, Expected
    <2>5. out = [open |-> TRUE, queue |-> <<>>, flushing |-> FALSE, sent |-> <<>>, posted |-> <<>>]
      BY DEF RtInit
    <2>6. /\ out \in SlowSockets /\ out.queue = <<>> /\ out.sent = <<>> /\ out.posted = <<>>
      BY <2>5 DEF SlowSockets
    <2>7. Range(<<>>) = {} /\ {x \in {} : ~x[2]} = {} /\ Cardinality({}) = 0
      BY FS_EmptySet DEF Range
    <2>8. Numbered
      BY <2>6 DEF Numbered
    <2>9. NothingCriticalIsLost
      <3>1. Cardinality({x \in Range(out.queue) : ~x[2]}) <= MaxQueue
        <4>1. {x \in Range(out.queue) : ~x[2]} = {}
          BY <2>6, <2>7
        <4>2. Cardinality({x \in Range(out.queue) : ~x[2]}) = 0
          BY <2>7, <4>1
        <4> QED BY <4>2, RealtimeAssumption
      <3> QED BY <2>6, <2>7, <3>1 DEF NothingCriticalIsLost
    <2> QED BY <2>2, <2>3, <2>4, <2>6, <2>8, <2>9 DEF FeedInv, QueueInv
  <1>2. Inv /\ [RtSteps]_rtVars => Inv'
    <2> SUFFICES ASSUME Inv, [RtSteps]_rtVars
                 PROVE  Inv'
      OBVIOUS
    <2>1. UNCHANGED feedVars => FeedInv'
      BY DEF feedVars, FeedInv, FeedTypes, Settled, Expected, Published
    <2>2. UNCHANGED out => QueueInv'
      BY DEF QueueInv, Numbered, NothingCriticalIsLost
    <2>3. CASE LeaseSteps \/ UNCHANGED rtVars
      <3>1. UNCHANGED feedVars /\ UNCHANGED out
        BY <2>3 DEF LeaseSteps, rtVars
      <3> QED BY <2>1, <2>2, <3>1
    <2>4. CASE FeedSteps
      BY <2>2, <2>4, FeedStepsArrive DEF FeedSteps
    <2>5. CASE QueueSteps
      <3>1. UNCHANGED feedVars
        BY <2>5 DEF QueueSteps, Post, Flush, CloseSlow
      <3> QED BY <2>1, <2>5, <3>1, QueueStepsKeep
    <2> QED BY <2>3, <2>4, <2>5 DEF RtSteps
  <1>3. Inv => EventsArrive
    BY RealtimeAssumption DEF FeedInv, Settled, Expected, QueueInv, EventsArrive, DeliveredOnce
  <1> HIDE DEF Inv
  <1> QED BY <1>1, <1>2, <1>3, PTL DEF RtSpec

=============================================================================

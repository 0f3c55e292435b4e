----------------------- MODULE ExamLifecycleProofs -----------------------
(***************************************************************************)
(* What TLAPS proves about ExamLifecycle for every set of subjects, scopes *)
(* and requests, every limit and every bound.                              *)
(***************************************************************************)
EXTENDS ExamLifecycle, FiniteSetTheorems, SequenceTheorems, TLAPS

USE ScopesAssumption, SubjectsAssumption, LimitsAssumption, OpsAssumption, BoundsAssumption

NotFresh(i) == ~Live(exams[i]) \/ Overdue(exams[i])

\* What no step changes in a row.
Fixed(e, f) ==
    /\ f.scope = e.scope /\ f.number = e.number /\ f.original = e.original
    /\ f.attempt = e.attempt /\ f.limit = e.limit /\ f.free = e.free /\ f.day = e.day
    /\ f.late = e.late

\* An exam that ended, or ran out of time, does not come back.
Onward(e, f) ==
    /\ ~Live(e) => ~Live(f)
    /\ Live(f) => f.age >= e.age

\* Steps that add no row.
SameRows ==
    /\ exams' \in Seq(Exam) /\ Len(exams') = Len(exams)
    /\ \A i \in Ids : Fixed(exams[i], exams'[i]) /\ Onward(exams[i], exams'[i])

(***************************************************************************)
(* Rows.                                                                   *)
(***************************************************************************)
LEMMA RowType ==
  ASSUME TypeOK
  PROVE  /\ Len(exams) \in Nat /\ Ids = 1..Len(exams)
         /\ \A i \in Ids : exams[i] \in Exam
         /\ IsFiniteSet(Ids)
<1>1. Len(exams) \in Nat /\ Ids = 1..Len(exams) /\ \A i \in Ids : exams[i] \in Exam
  BY LenProperties, ElementOfSeq DEF TypeOK, Ids
<1> QED
  BY <1>1, FS_Interval

LEMMA IdleType ==
  /\ Idle \in RequestTypes
  /\ Idle.pc = "idle" /\ Idle.op = "none" /\ Idle.original = 0 /\ Idle.free = FALSE
<1> (CHOOSE s \in Scopes : TRUE) \in Scopes
  OBVIOUS
<1> QED
  BY DEF Idle, RequestTypes, PCs

LEMMA InitType == Init => TypeOK
<1>1. <<>> \in Seq(Exam) /\ Len(<<>>) = 0
  BY EmptySeq
<1> QED
  BY <1>1, IdleType DEF Init, TypeOK

LEMMA EndedFacts ==
  ASSUME NEW e \in Exam, NEW status \in ExamStatus \ {"IN_PROGRESS"}
  PROVE  /\ Ended(e, status) \in Exam /\ Ended(e, status).status = status
         /\ Fixed(e, Ended(e, status)) /\ Onward(e, Ended(e, status))
<1> DEFINE f == Ended(e, status)
<1>1. f = [e EXCEPT !.status = status, !.age = InTime]
  BY DEF Ended
<1>2. InTime \in InTime..Expired /\ status \in ExamStatus
  BY DEF InTime, Expired
<1>3. f \in Exam /\ f.status = status
  BY <1>1, <1>2 DEF Exam
<1>4. Fixed(e, f)
  BY <1>1 DEF Exam, Fixed
<1>5. ~Live(f)
  BY <1>3 DEF Live
<1> QED
  BY <1>3, <1>4, <1>5 DEF Onward

LEMMA AbandonedFacts ==
  ASSUME TypeOK, NEW ids, exams' = Abandoned(ids)
  PROVE  /\ SameRows
         /\ \A i \in Ids \ ids : exams'[i] = exams[i]
         /\ \A i \in Ids \cap ids : exams'[i].status = "ABANDONED"
<1>1. Len(exams) \in Nat /\ Ids = 1..Len(exams) /\ \A i \in Ids : exams[i] \in Exam
  BY RowType
<1>2. \A i \in Ids : /\ Ended(exams[i], "ABANDONED") \in Exam
                     /\ Ended(exams[i], "ABANDONED").status = "ABANDONED"
                     /\ Fixed(exams[i], Ended(exams[i], "ABANDONED"))
                     /\ Onward(exams[i], Ended(exams[i], "ABANDONED"))
  BY <1>1, EndedFacts DEF ExamStatus
<1>3. exams' \in [1..Len(exams) -> Exam]
  BY <1>1, <1>2 DEF Abandoned
<1>4. exams' \in Seq(Exam) /\ Len(exams') = Len(exams)
  BY <1>1, <1>3, SeqDef, LenProperties
<1>5. \A i \in Ids : Fixed(exams[i], exams[i]) /\ Onward(exams[i], exams[i])
  <2>1. \A e \in Exam : e.age \in Int
    BY DEF Exam, InTime, Expired
  <2> QED
    BY <1>1, <2>1 DEF Fixed, Onward
<1> QED
  BY <1>2, <1>4, <1>5 DEF Abandoned, SameRows

RowsOf(s) == {i \in Ids : exams[i].scope = s}
Numbers(s) == {exams[i].number : i \in RowsOf(s)}
Attempts(o) == {exams[i].attempt : i \in RetakesOf(o)}

\* How many retakes an exam may have.
Most(o) == IF exams[o].scope \in Full THEN Max({FreeRetakes, exams[o].limit})
                                      ELSE exams[o].limit

RowsOK ==
    /\ \A i \in Ids : exams[i].original \in 0..Len(exams) /\ exams[i].day <= day
    /\ day <= changes

\* The exam a request is about, and what it may do to it.
ExamHolds(r) ==
    /\ req[r].pc \in {"expire", "resume", "heal", "unread", "submit", "abandon", "retake"}
          => req[r].exam \in Ids
    /\ req[r].pc \in {"expire", "heal"} => NotFresh(req[r].exam)
    /\ req[r].pc \in {"resume", "unread"} => exams[req[r].exam].scope = req[r].scope
    /\ req[r].pc = "abandon" /\ req[r].op # "abandon" => NotFresh(req[r].exam)

\* Where an operation may be, and which exam a retake repeats.
OpHolds(r) ==
    /\ req[r].op = "start" => req[r].scope \notin Daily
    /\ req[r].op = "daily" => req[r].scope \in Daily
    /\ req[r].op = "retake" => req[r].original \in Ids /\ req[r].limit <= Most(req[r].original)
    /\ req[r].op # "retake" => req[r].original = 0
    /\ req[r].pc \in {"find", "expire", "resume", "heal", "unread", "check"}
          => req[r].op \in {"start", "daily"}
    /\ req[r].pc = "load" => req[r].op = "start"
    /\ req[r].pc \in {"number", "insert"} => req[r].op \in {"start", "daily", "retake"}
    /\ req[r].pc = "retake" => req[r].op = "retake"
    /\ req[r].day <= day

\* A number read before the insert is no more than one ahead.
NumberHolds(r) ==
    /\ req[r].pc = "insert" => req[r].number \in 1..(Cardinality(RowsOf(req[r].scope)) + 1)
    /\ req[r].pc \in {"number", "insert"} /\ req[r].op = "retake"
          => /\ req[r].attempt \in 2..(Cardinality(RetakesOf(req[r].original)) + 2)
             /\ req[r].attempt <= req[r].limit + 1

RequestOK(r) == ExamHolds(r) /\ OpHolds(r) /\ NumberHolds(r)

Inv == /\ TypeOK
       /\ RowsOK
       /\ \A r \in Requests : RequestOK(r)
       /\ SessionsNumbered /\ RetakesBounded

(***************************************************************************)
(* Greatest elements, and sets of rows.                                    *)
(***************************************************************************)
LEMMA MaxPair ==
  ASSUME NEW a \in Nat, NEW b \in Nat
  PROVE  Max({a, b}) \in Nat /\ a <= Max({a, b}) /\ b <= Max({a, b})
<1>1. Max({a, b}) = CHOOSE x \in {a, b} : \A y \in {a, b} : x >= y
  BY DEF Max
<1>2. \E x \in {a, b} : \A y \in {a, b} : x >= y
  OBVIOUS
<1>3. Max({a, b}) \in {a, b} /\ \A y \in {a, b} : Max({a, b}) >= y
  BY <1>1, <1>2
<1> QED
  BY <1>3

LEMMA MaxUpTo == ASSUME NEW k \in Nat PROVE Max({0} \cup 1..k) = k
<1> DEFINE S == {0} \cup 1..k
<1>1. S = 0..k
  OBVIOUS
<1>2. Max(S) = CHOOSE x \in S : \A y \in S : x >= y
  BY DEF Max
<1>3. k \in S /\ \A y \in S : k >= y
  BY <1>1
<1>4. Max(S) \in S /\ \A y \in S : Max(S) >= y
  <2> HIDE DEF S
  <2> QED
    BY <1>2, <1>3
<1> QED
  BY <1>1, <1>3, <1>4

LEMMA MostType ==
  ASSUME TypeOK, NEW o \in Ids
  PROVE  Most(o) \in Nat /\ exams[o].limit <= Most(o) /\ (exams[o].scope \in Full => FreeRetakes <= Most(o))
<1>1. exams[o].limit \in Nat
  BY RowType DEF Exam
<1> QED
  BY <1>1, MaxPair DEF Most

LEMMA SetsFinite ==
  ASSUME TypeOK, NEW ids \in SUBSET Ids
  PROVE  IsFiniteSet(ids) /\ Cardinality(ids) \in Nat
BY RowType, FS_Subset, FS_CardinalityType

\* Adding one of two alternatives to a set of that many.
LEMMA NumberIsNext ==
  ASSUME NEW k \in Nat, NEW n \in 1..(k + 1), n \notin 1..k
  PROVE  n = k + 1 /\ (1..k) \cup {n} = 1..(k + 1)
OBVIOUS

LEMMA NextNumber ==
  ASSUME TypeOK, SessionsNumbered, NEW s \in Scopes
  PROVE  NextExamSessionNumber(s) = Cardinality(RowsOf(s)) + 1
<1>1. RowsOf(s) \in SUBSET Ids
  BY DEF RowsOf
<1>2. Cardinality(RowsOf(s)) \in Nat
  BY <1>1, SetsFinite
<1>3. Numbers(s) = 1..Cardinality(RowsOf(s))
  BY DEF SessionsNumbered, Numbers, RowsOf
<1>4. NextExamSessionNumber(s) = Max({0} \cup Numbers(s)) + 1
  BY DEF NextExamSessionNumber, Numbers, RowsOf
<1> QED
  BY <1>2, <1>3, <1>4, MaxUpTo

(***************************************************************************)
(* Rows only grow.                                                         *)
(***************************************************************************)
Grows ==
    /\ Ids \subseteq Ids' /\ Len(exams) <= Len(exams')
    /\ \A i \in Ids : Fixed(exams[i], exams'[i]) /\ Onward(exams[i], exams'[i])

LEMMA SameRowsGrow == ASSUME TypeOK, SameRows PROVE Grows /\ Ids' = Ids
<1>1. Len(exams) \in Nat /\ Ids = 1..Len(exams)
  BY RowType
<1>2. Ids' = 1..Len(exams')
  BY LenProperties DEF SameRows, Ids
<1> QED
  BY <1>1, <1>2 DEF SameRows, Grows

\* The fields a later step of a request reads.
SameRequest(q, p) ==
    /\ p.op = q.op /\ p.pc = q.pc /\ p.scope = q.scope /\ p.exam = q.exam
    /\ p.original = q.original /\ p.attempt = q.attempt /\ p.number = q.number
    /\ p.limit = q.limit /\ p.day = q.day /\ p.free = q.free

LEMMA GrowSets ==
  ASSUME TypeOK, TypeOK', Grows
  PROVE  /\ \A s : Cardinality(RowsOf(s)) \in Nat /\ Cardinality(RowsOf(s)') \in Nat
                   /\ Cardinality(RowsOf(s)) <= Cardinality(RowsOf(s)')
         /\ \A o : Cardinality(RetakesOf(o)) \in Nat /\ Cardinality(RetakesOf(o)') \in Nat
                   /\ Cardinality(RetakesOf(o)) <= Cardinality(RetakesOf(o)')
         /\ \A o \in Ids : Most(o)' = Most(o) /\ (NotFresh(o) => NotFresh(o)')
<1>1. IsFiniteSet(Ids')
  BY LenProperties, FS_Interval DEF TypeOK, Ids
<1>2. ASSUME NEW s PROVE RowsOf(s) \subseteq RowsOf(s)' /\ RowsOf(s)' \subseteq Ids'
  BY DEF RowsOf, Grows, Fixed
<1>3. ASSUME NEW o PROVE RetakesOf(o) \subseteq RetakesOf(o)' /\ RetakesOf(o)' \subseteq Ids'
  BY DEF RetakesOf, Grows, Fixed
<1>4. ASSUME NEW S, NEW T, S \subseteq T, T \subseteq Ids'
      PROVE  Cardinality(S) \in Nat /\ Cardinality(T) \in Nat /\ Cardinality(S) <= Cardinality(T)
  <2>1. IsFiniteSet(T) /\ IsFiniteSet(S) /\ Cardinality(S) <= Cardinality(T)
    BY <1>1, <1>4, FS_Subset
  <2> QED
    BY <2>1, FS_CardinalityType
<1>5. ASSUME NEW o \in Ids PROVE Most(o)' = Most(o) /\ (NotFresh(o) => NotFresh(o)')
  <2>1. Fixed(exams[o], exams'[o]) /\ Onward(exams[o], exams'[o])
    BY DEF Grows
  <2>2. Most(o)' = Most(o)
    BY <2>1 DEF Most, Fixed
  <2>3. exams[o].age \in Int /\ exams'[o].age \in Int
    <3>1. exams[o] \in Exam /\ o \in Ids'
      BY RowType DEF Grows
    <3>2. exams'[o] \in Exam
      BY <3>1, LenProperties, ElementOfSeq DEF TypeOK, Ids
    <3> QED
      BY <3>1, <3>2 DEF Exam, InTime, Expired
  <2>4. NotFresh(o) => NotFresh(o)'
    BY <2>1, <2>3 DEF NotFresh, Onward, Overdue, InGrace
  <2> QED
    BY <2>2, <2>4
<1> QED
  BY <1>2, <1>3, <1>4, <1>5

LEMMA OthersOK ==
  ASSUME TypeOK, TypeOK', Grows, day <= day', NEW s \in Requests, RequestOK(s),
         SameRequest(req[s], req'[s])
  PROVE  RequestOK(s)'
<1>1. ExamHolds(s)'
  BY GrowSets DEF RequestOK, ExamHolds, SameRequest, Grows, Fixed
<1>2. OpHolds(s)'
  <2>1. day \in Int /\ day' \in Int /\ req[s].day \in Int
    BY DEF TypeOK, RequestTypes
  <2> QED
    BY <2>1, GrowSets DEF RequestOK, OpHolds, SameRequest, Grows
<1>3. NumberHolds(s)'
  BY GrowSets DEF RequestOK, NumberHolds, SameRequest
<1> QED
  BY <1>1, <1>2, <1>3 DEF RequestOK

(***************************************************************************)
(* Steps that add no row.                                                  *)
(***************************************************************************)
LEMMA SameRowsInv ==
  ASSUME Inv, SameRows, TypeOK', day <= day', day' <= changes', \A s \in Requests : RequestOK(s)'
  PROVE  Inv'
<1> TypeOK /\ Grows /\ Ids' = Ids /\ day \in Nat /\ day' \in Nat
  BY SameRowsGrow DEF Inv, TypeOK
<1>0. \A i \in Ids : Fixed(exams[i], exams'[i])
  BY DEF Grows
<1>1. RowsOK'
  <2>1. \A i \in Ids : exams[i].day \in Nat
    BY RowType DEF Exam
  <2> QED
    BY <1>0, <2>1 DEF Inv, RowsOK, Fixed, SameRows
<1>2. SessionsNumbered'
  <2> SUFFICES ASSUME NEW s \in Scopes PROVE Numbers(s)' = 1..Cardinality(RowsOf(s)')
    BY DEF SessionsNumbered, Numbers, RowsOf
  <2>1. RowsOf(s)' = RowsOf(s) /\ Numbers(s)' = Numbers(s)
    BY <1>0 DEF RowsOf, Numbers, Fixed
  <2> QED
    BY <2>1 DEF Inv, SessionsNumbered, Numbers, RowsOf
<1>3. RetakesBounded'
  <2> SUFFICES ASSUME NEW o \in Ids
               PROVE  /\ Attempts(o)' = 2..(Cardinality(RetakesOf(o)') + 1)
                      /\ Cardinality(RetakesOf(o)') <= Most(o)'
    BY DEF RetakesBounded, Attempts, Most
  <2>1. RetakesOf(o)' = RetakesOf(o)
    BY <1>0 DEF RetakesOf, Fixed
  <2>2. Attempts(o)' = Attempts(o)
    BY <1>0, <2>1 DEF Attempts, RetakesOf, Fixed
  <2>3. Most(o)' = Most(o)
    BY <1>0 DEF Most, Fixed
  <2> QED
    BY <2>1, <2>2, <2>3 DEF Inv, RetakesBounded, Attempts, Most
<1> QED
  BY <1>1, <1>2, <1>3 DEF Inv

LEMMA MoveInv ==
  ASSUME Inv, SameRows, UNCHANGED <<user, day>>, req' \in [Requests -> RequestTypes],
         NEW r \in Requests, \A s \in Requests \ {r} : req'[s] = req[s], RequestOK(r)'
  PROVE  Inv'
<1> TypeOK
  BY DEF Inv
<1>1. TypeOK'
  BY DEF TypeOK, SameRows, user
<1>2. day <= day'
  BY DEF TypeOK
<1>3. ASSUME NEW s \in Requests PROVE RequestOK(s)'
  <2>1. CASE s # r
    BY <1>1, <1>2, <2>1, OthersOK, SameRowsGrow DEF Inv, SameRequest
  <2> QED
    BY <2>1
<1>4. day' <= changes'
  BY DEF Inv, RowsOK, user
<1> QED
  BY <1>1, <1>2, <1>3, <1>4, SameRowsInv

LEMMA RowsUnchanged == ASSUME TypeOK, UNCHANGED exams PROVE SameRows
<1>1. \A e \in Exam : e.age \in Int
  BY DEF Exam, InTime, Expired
<1> QED
  BY <1>1, RowType DEF SameRows, TypeOK, Fixed, Onward

LEMMA SameSets ==
  ASSUME exams' = exams
  PROVE  /\ Ids' = Ids
         /\ \A x : /\ RowsOf(x)' = RowsOf(x) /\ RetakesOf(x)' = RetakesOf(x)
                  /\ Most(x)' = Most(x) /\ (NotFresh(x)' <=> NotFresh(x))
BY DEF Ids, RowsOf, RetakesOf, Most, NotFresh

LEMMA EndFacts ==
  ASSUME TypeOK, NEW r \in Requests, EndRequest(r), day' = day
  PROVE  /\ req' \in [Requests -> RequestTypes] /\ req'[r] = Idle
         /\ \A s \in Requests \ {r} : req'[s] = req[s]
         /\ RequestOK(r)'
<1>1. /\ req' \in [Requests -> RequestTypes] /\ req'[r] = Idle
      /\ \A s \in Requests \ {r} : req'[s] = req[s]
  BY IdleType DEF EndRequest, TypeOK
<1>2. Idle.day = 0
  BY DEF Idle
<1>3. RequestOK(r)'
  BY <1>1, <1>2, IdleType DEF RequestOK, ExamHolds, OpHolds, NumberHolds, TypeOK
<1> QED
  BY <1>1, <1>3

LEMMA GotoFacts ==
  ASSUME TypeOK, NEW r \in Requests, NEW pc \in PCs, Goto(r, pc)
  PROVE  /\ req' \in [Requests -> RequestTypes]
         /\ req'[r] = [req[r] EXCEPT !.pc = pc]
         /\ \A s \in Requests \ {r} : req'[s] = req[s]
<1>0. req[r] \in RequestTypes
  BY DEF TypeOK
<1>1. [req[r] EXCEPT !.pc = pc] \in RequestTypes
  BY <1>0 DEF RequestTypes
<1>2. req' = [req EXCEPT ![r] = [req[r] EXCEPT !.pc = pc]]
  BY DEF Goto, TypeOK
<1> QED
  BY <1>1, <1>2 DEF TypeOK

LEMMA NotResumedFacts ==
  ASSUME Inv, NEW r \in Requests, req[r].pc \in {"find", "expire", "heal", "unread"}, NotResumed(r),
         day' = day
  PROVE  /\ req' \in [Requests -> RequestTypes] /\ RequestOK(r)'
         /\ \A s \in Requests \ {r} : req'[s] = req[s]
         /\ req'[r] = Idle \/ req'[r].pc = "check"
<1> TypeOK /\ RequestOK(r)
  BY DEF Inv
<1>1. CASE EndRequest(r)
  BY <1>1, EndFacts
<1>2. CASE req' = [req EXCEPT ![r].pc = "check", ![r].exam = 0]
  <2> DEFINE q == [req[r] EXCEPT !.pc = "check", !.exam = 0]
  <2>0. req[r] \in RequestTypes /\ "check" \in PCs /\ 0 \in Nat
    BY DEF TypeOK, PCs
  <2>1. /\ q \in RequestTypes /\ q.pc = "check" /\ q.op = req[r].op /\ q.scope = req[r].scope
        /\ q.original = req[r].original /\ q.day = req[r].day
    BY <2>0 DEF RequestTypes
  <2>2. req' = [req EXCEPT ![r] = q]
    BY <1>2 DEF TypeOK, RequestTypes
  <2> HIDE DEF q
  <2>3. /\ req' \in [Requests -> RequestTypes] /\ req'[r] = q
        /\ \A s \in Requests \ {r} : req'[s] = req[s]
    BY <2>1, <2>2 DEF TypeOK
  <2>4. RequestOK(r)'
    BY <2>1, <2>3 DEF RequestOK, ExamHolds, OpHolds, NumberHolds
  <2> QED
    BY <2>1, <2>3, <2>4
<1> QED
  BY <1>1, <1>2 DEF NotResumed

LEMMA RequestStartInv ==
  ASSUME Inv, NEW r \in Requests, NEW s \in Scopes, RequestStart(r, s)
  PROVE  Inv'
<1> TypeOK
  BY DEF Inv
<1> DEFINE op == IF s \in Daily THEN "daily" ELSE "start"
           q == [Idle EXCEPT !.op = op, !.pc = "find", !.scope = s]
<1>1. /\ q \in RequestTypes /\ q.pc = "find" /\ q.op = op /\ q.scope = s
      /\ q.original = 0 /\ q.day = 0
  BY DEF Idle, RequestTypes, PCs, AllOps
<1>2. req' = [req EXCEPT ![r] = q] /\ exams' = Abandoned(Stale) /\ UNCHANGED <<user, day>>
  BY DEF RequestStart
<1> HIDE DEF q
<1>3. /\ req' \in [Requests -> RequestTypes] /\ req'[r] = q
      /\ \A x \in Requests \ {r} : req'[x] = req[x]
  BY <1>1, <1>2 DEF TypeOK
<1>4. RequestOK(r)'
  BY <1>1, <1>2, <1>3 DEF RequestOK, ExamHolds, OpHolds, NumberHolds, TypeOK
<1> QED
  BY <1>2, <1>3, <1>4, AbandonedFacts, MoveInv

LEMMA FindSessionInv == ASSUME Inv, NEW r \in Requests, FindSession(r) PROVE Inv'
<1> TypeOK /\ RequestOK(r)
  BY DEF Inv
<1> DEFINE s == req[r].scope
<1>1. PICK long \in BOOLEAN :
        LET found == Resumable(s) \ PastCeiling(s, long) IN
        /\ exams' = Abandoned(PastCeiling(s, long))
        /\ IF found = {}
           THEN NotResumed(r)
           ELSE \E i \in found :
                  req' = [req EXCEPT ![r].exam = i,
                                     ![r].pc = IF Overdue(exams[i]) THEN "expire" ELSE "resume"]
  BY DEF FindSession
<1>2. SameRows /\ UNCHANGED <<user, day>> /\ req[r].pc = "find"
  BY <1>1, AbandonedFacts DEF FindSession
<1>3. CASE NotResumed(r)
  BY <1>2, <1>3, NotResumedFacts, MoveInv
<1>4. ASSUME NEW i \in Resumable(s), NEW pc \in {"expire", "resume"},
             req' = [req EXCEPT ![r].exam = i, ![r].pc = pc],
             pc = "expire" => Overdue(exams[i])
      PROVE  Inv'
  <2> i \in Ids /\ exams[i].scope = s
    BY DEF Resumable
  <2> DEFINE q == [req[r] EXCEPT !.exam = i, !.pc = pc]
  <2>0. req[r] \in RequestTypes /\ i \in Nat /\ pc \in PCs
    BY RowType DEF TypeOK, PCs
  <2>1. /\ q \in RequestTypes /\ q.pc = pc /\ q.op = req[r].op /\ q.scope = req[r].scope
        /\ q.original = req[r].original /\ q.day = req[r].day /\ q.exam = i
    BY <2>0 DEF RequestTypes
  <2>2. req' = [req EXCEPT ![r] = q]
    BY <1>4 DEF TypeOK, RequestTypes
  <2> HIDE DEF q
  <2>3. /\ req' \in [Requests -> RequestTypes] /\ req'[r] = q
        /\ \A x \in Requests \ {r} : req'[x] = req[x]
    BY <2>1, <2>2 DEF TypeOK
  <2>4. i \in Ids' /\ (pc = "expire" => NotFresh(i)') /\ exams'[i].scope = s
    <3>1. TypeOK'
      BY <1>2, <2>3 DEF TypeOK, SameRows, user
    <3>2. exams'[i].scope = s
      BY <1>2 DEF SameRows, Fixed
    <3> QED
      BY <1>2, <1>4, <3>1, <3>2, SameRowsGrow, GrowSets DEF NotFresh
  <2>5. RequestOK(r)'
    BY <1>2, <1>4, <2>1, <2>3, <2>4 DEF RequestOK, ExamHolds, OpHolds, NumberHolds
  <2> QED
    BY <1>2, <2>3, <2>5, MoveInv
<1> QED
  BY <1>1, <1>3, <1>4

\* Steps that read: the rows and the user stay as they are.
LEMMA ResumeSessionInv == ASSUME Inv, NEW r \in Requests, ResumeSession(r) PROVE Inv'
<1> TypeOK /\ RequestOK(r) /\ SameRows
  BY RowsUnchanged DEF Inv, ResumeSession
<1>1. CASE EndRequest(r)
  BY <1>1, EndFacts, MoveInv DEF ResumeSession
<1>2. CASE ~(Live(exams[req[r].exam]) /\ ~Overdue(exams[req[r].exam])) /\ Goto(r, "heal")
  <2> DEFINE q == [req[r] EXCEPT !.pc = "heal"]
  <2>1. /\ req' \in [Requests -> RequestTypes] /\ req'[r] = q
        /\ \A s \in Requests \ {r} : req'[s] = req[s]
    BY <1>2, GotoFacts DEF PCs
  <2>2. /\ q.pc = "heal" /\ q.op = req[r].op /\ q.scope = req[r].scope /\ q.exam = req[r].exam
        /\ q.original = req[r].original /\ q.day = req[r].day
    BY DEF TypeOK, RequestTypes
  <2> HIDE DEF q
  <2>3. RequestOK(r)'
    BY <1>2, <2>1, <2>2 DEF ResumeSession, RequestOK, ExamHolds, OpHolds, NumberHolds, NotFresh, Ids
  <2> QED
    BY <2>1, <2>3, MoveInv DEF ResumeSession
<1> QED
  BY <1>1, <1>2 DEF ResumeSession

LEMMA ResumeFailsInv == ASSUME Inv, NEW r \in Requests, ResumeFails(r) PROVE Inv'
<1> TypeOK /\ RequestOK(r) /\ SameRows
  BY RowsUnchanged DEF Inv, ResumeFails
<1> DEFINE q == [req[r] EXCEPT !.pc = "unread"]
<1>1. /\ req' \in [Requests -> RequestTypes] /\ req'[r] = q
      /\ \A s \in Requests \ {r} : req'[s] = req[s]
  BY GotoFacts DEF ResumeFails, PCs
<1>2. /\ q.pc = "unread" /\ q.op = req[r].op /\ q.scope = req[r].scope /\ q.exam = req[r].exam
      /\ q.original = req[r].original /\ q.day = req[r].day
  BY DEF TypeOK, RequestTypes
<1> HIDE DEF q
<1>3. RequestOK(r)'
  BY <1>1, <1>2 DEF ResumeFails, RequestOK, ExamHolds, OpHolds, NumberHolds, Ids
<1> QED
  BY <1>1, <1>3, MoveInv DEF ResumeFails

LEMMA HealFailsInv == ASSUME Inv, NEW r \in Requests, HealFails(r) PROVE Inv'
<1> TypeOK /\ SameRows
  BY RowsUnchanged DEF Inv, HealFails
<1> QED
  BY NotResumedFacts, MoveInv DEF HealFails

LEMMA ForceAbandonInv == ASSUME Inv, NEW r \in Requests, ForceAbandon(r) PROVE Inv'
<1> TypeOK /\ RequestOK(r)
  BY DEF Inv
<1>1. SameRows /\ UNCHANGED <<user, day>>
  BY AbandonedFacts DEF ForceAbandon
<1>2. CASE EndRequest(r)
  BY <1>1, <1>2, EndFacts, MoveInv
<1>3. CASE req[r].pc # "abandon" /\ NotResumed(r)
  BY <1>1, <1>3, NotResumedFacts, MoveInv DEF ForceAbandon
<1> QED
  BY <1>2, <1>3 DEF ForceAbandon

LEMMA CheckEligibilityInv == ASSUME Inv, NEW r \in Requests, CheckEligibility(r) PROVE Inv'
<1> TypeOK /\ RequestOK(r) /\ SameRows
  BY RowsUnchanged DEF Inv, CheckEligibility
<1>1. CASE EndRequest(r)
  BY <1>1, EndFacts, MoveInv DEF CheckEligibility
<1>2. CASE Goto(r, "load")
  <2> DEFINE q == [req[r] EXCEPT !.pc = "load"]
  <2>1. /\ req' \in [Requests -> RequestTypes] /\ req'[r] = q
        /\ \A s \in Requests \ {r} : req'[s] = req[s]
    BY <1>2, GotoFacts DEF PCs
  <2>2. /\ q.pc = "load" /\ q.op = req[r].op /\ q.scope = req[r].scope
        /\ q.original = req[r].original /\ q.day = req[r].day
    BY DEF TypeOK, RequestTypes
  <2> HIDE DEF q
  <2>3. RequestOK(r)'
    BY <2>1, <2>2 DEF CheckEligibility, RequestOK, ExamHolds, OpHolds, NumberHolds
  <2> QED
    BY <2>1, <2>3, MoveInv DEF CheckEligibility
<1> QED
  BY <1>1, <1>2 DEF CheckEligibility

LEMMA LoadUserInv == ASSUME Inv, NEW r \in Requests, LoadUser(r) PROVE Inv'
<1> TypeOK /\ RequestOK(r) /\ SameRows
  BY RowsUnchanged DEF Inv, LoadUser
<1> DEFINE limit == IF ~premium /\ req[r].scope \in Full THEN FreeRetakes ELSE MaxRetakes
           q == [req[r] EXCEPT !.pc = "number", !.free = ~premium, !.limit = limit, !.day = day]
<1>0. req[r] \in RequestTypes /\ limit \in Nat /\ day \in Nat /\ (~premium) \in BOOLEAN
  BY DEF TypeOK
<1>1. /\ q \in RequestTypes /\ q.pc = "number" /\ q.op = req[r].op /\ q.scope = req[r].scope
      /\ q.original = req[r].original /\ q.day = day
  BY <1>0 DEF RequestTypes, PCs
<1>2. req' = [req EXCEPT ![r] = q]
  BY <1>0 DEF LoadUser, TypeOK, RequestTypes
<1> HIDE DEF q
<1>3. /\ req' \in [Requests -> RequestTypes] /\ req'[r] = q
      /\ \A s \in Requests \ {r} : req'[s] = req[s]
  BY <1>1, <1>2 DEF TypeOK
<1>4. RequestOK(r)'
  BY <1>0, <1>1, <1>3 DEF LoadUser, RequestOK, ExamHolds, OpHolds, NumberHolds
<1> QED
  BY <1>3, <1>4, MoveInv DEF LoadUser

LEMMA CheckDailyInv == ASSUME Inv, NEW r \in Requests, CheckDailyChallenge(r) PROVE Inv'
<1> TypeOK /\ RequestOK(r) /\ SameRows
  BY RowsUnchanged DEF Inv, CheckDailyChallenge
<1>1. CASE EndRequest(r)
  BY <1>1, EndFacts, MoveInv DEF CheckDailyChallenge
<1>2. CASE req' = [req EXCEPT ![r].pc = "number", ![r].day = day]
  <2> DEFINE q == [req[r] EXCEPT !.pc = "number", !.day = day]
  <2>0. req[r] \in RequestTypes /\ day \in Nat
    BY DEF TypeOK
  <2>1. /\ q \in RequestTypes /\ q.pc = "number" /\ q.op = req[r].op /\ q.scope = req[r].scope
        /\ q.original = req[r].original /\ q.day = day
    BY <2>0 DEF RequestTypes, PCs
  <2>2. req' = [req EXCEPT ![r] = q]
    BY <1>2 DEF TypeOK, RequestTypes
  <2> HIDE DEF q
  <2>3. /\ req' \in [Requests -> RequestTypes] /\ req'[r] = q
        /\ \A s \in Requests \ {r} : req'[s] = req[s]
    BY <2>1, <2>2 DEF TypeOK
  <2>4. RequestOK(r)'
    BY <2>0, <2>1, <2>3 DEF CheckDailyChallenge, RequestOK, ExamHolds, OpHolds, NumberHolds
  <2> QED
    BY <2>3, <2>4, MoveInv DEF CheckDailyChallenge
<1> QED
  BY <1>1, <1>2 DEF CheckDailyChallenge

LEMMA TakeNumberInv == ASSUME Inv, NEW r \in Requests, TakeNumber(r) PROVE Inv'
<1> TypeOK /\ RequestOK(r) /\ SameRows
  BY RowsUnchanged DEF Inv, TakeNumber
<1> DEFINE n == NextExamSessionNumber(req[r].scope)
           q == [req[r] EXCEPT !.pc = "insert", !.number = n]
<1>0. req[r] \in RequestTypes /\ req[r].scope \in Scopes
  BY DEF TypeOK, RequestTypes
<1>a. Cardinality(RowsOf(req[r].scope)) \in Nat
  BY SetsFinite DEF RowsOf
<1>b. n = Cardinality(RowsOf(req[r].scope)) + 1
  BY <1>0, NextNumber DEF Inv
<1>1. n \in 1..(Cardinality(RowsOf(req[r].scope)) + 1) /\ n \in Nat
  BY <1>a, <1>b
<1> HIDE DEF n
<1>2. /\ q \in RequestTypes /\ q.pc = "insert" /\ q.op = req[r].op /\ q.scope = req[r].scope
      /\ q.original = req[r].original /\ q.day = req[r].day /\ q.number = n
      /\ q.attempt = req[r].attempt /\ q.limit = req[r].limit
  BY <1>0, <1>1 DEF RequestTypes, PCs
<1>3. req' = [req EXCEPT ![r] = q]
  BY DEF TakeNumber, TypeOK, RequestTypes, n
<1> HIDE DEF q
<1>4. /\ req' \in [Requests -> RequestTypes] /\ req'[r] = q
      /\ \A s \in Requests \ {r} : req'[s] = req[s]
  BY <1>2, <1>3 DEF TypeOK
<1>5. exams' = exams /\ UNCHANGED <<user, day>> /\ req[r].pc = "number"
  BY DEF TakeNumber
<1>6. RequestOK(r)'
  BY <1>1, <1>2, <1>4, <1>5, SameSets DEF RequestOK, ExamHolds, OpHolds, NumberHolds
<1> QED
  BY <1>4, <1>5, <1>6, MoveInv

LEMMA InsertCollidesInv == ASSUME Inv, NEW r \in Requests, InsertCollides(r) PROVE Inv'
<1> TypeOK /\ RequestOK(r) /\ SameRows
  BY RowsUnchanged DEF Inv, InsertCollides
<1>0. req[r] \in RequestTypes /\ UNCHANGED <<user, day>> /\ exams' = exams /\ req[r].pc = "insert"
  BY DEF TypeOK, InsertCollides
<1>1. CASE EndRequest(r)
  BY <1>0, <1>1, EndFacts, MoveInv
<1>2. ASSUME NEW q \in RequestTypes, req' = [req EXCEPT ![r] = q], q.pc \in {"number", "find"},
             req[r].op # "retake", q.op = req[r].op, q.scope = req[r].scope,
             q.original = req[r].original, q.day = req[r].day
      PROVE  Inv'
  <2>1. /\ req' \in [Requests -> RequestTypes] /\ req'[r] = q
        /\ \A s \in Requests \ {r} : req'[s] = req[s]
    BY <1>2 DEF TypeOK
  <2>2. RequestOK(r)'
    BY <1>0, <1>2, <2>1 DEF RequestOK, ExamHolds, OpHolds, NumberHolds
  <2> QED
    BY <1>0, <2>1, <2>2, MoveInv
<1>3. CASE req[r].op # "retake" /\ req' = [req EXCEPT ![r].pc = "find", ![r].again = TRUE]
  <2> DEFINE q == [req[r] EXCEPT !.pc = "find", !.again = TRUE]
  <2>1. /\ q \in RequestTypes /\ q.pc = "find" /\ q.op = req[r].op /\ q.scope = req[r].scope
        /\ q.original = req[r].original /\ q.day = req[r].day
    BY <1>0 DEF RequestTypes, PCs
  <2>2. req' = [req EXCEPT ![r] = q]
    BY <1>0, <1>3 DEF RequestTypes, TypeOK
  <2> HIDE DEF q
  <2> QED
    BY <1>2, <1>3, <2>1, <2>2
<1>4. CASE req[r].op = "daily" /\ req' = [req EXCEPT ![r].pc = "number", ![r].tries = @ + 1]
  <2> DEFINE tries == req[r].tries + 1
             q == [req[r] EXCEPT !.pc = "number", !.tries = tries]
  <2>0. tries \in Nat
    BY <1>0 DEF RequestTypes
  <2> HIDE DEF tries
  <2>1. /\ q \in RequestTypes /\ q.pc = "number" /\ q.op = req[r].op /\ q.scope = req[r].scope
        /\ q.original = req[r].original /\ q.day = req[r].day
    BY <1>0, <2>0 DEF RequestTypes, PCs
  <2>2. req' = [req EXCEPT ![r] = q]
    BY <1>0, <1>4 DEF RequestTypes, TypeOK, tries
  <2> HIDE DEF q
  <2> QED
    BY <1>2, <1>4, <2>1, <2>2
<1> QED
  BY <1>1, <1>3, <1>4 DEF InsertCollides

LEMMA SubmitRows == ASSUME Inv, NEW r \in Requests, SubmitExam(r) PROVE SameRows
<1> TypeOK
  BY DEF Inv
<1> DEFINE i == req[r].exam
           e == Ended(exams[i], "COMPLETED")
<1>1. i \in Ids
  BY DEF SubmitExam, Inv, RequestOK, ExamHolds
<1>2. e \in Exam /\ Fixed(exams[i], e) /\ Onward(exams[i], e)
  BY <1>1, EndedFacts, RowType DEF ExamStatus
<1>3. CASE exams' = exams
  BY <1>3, RowsUnchanged
<1>4. CASE exams' = [exams EXCEPT ![i] = Ended(@, "COMPLETED")]
  <2>1. exams' = [exams EXCEPT ![i] = e]
    BY <1>4
  <2>2. /\ exams' \in Seq(Exam) /\ Len(exams') = Len(exams)
        /\ \A j \in Ids : exams'[j] = IF j = i THEN e ELSE exams[j]
    <3> HIDE DEF e, i
    <3> QED
      BY <1>1, <1>2, <2>1, ExceptSeq, RowType DEF TypeOK
  <2>3. \A j \in Ids : Fixed(exams[j], exams[j]) /\ Onward(exams[j], exams[j])
    BY RowsUnchanged, RowType DEF Fixed, Onward, Exam, InTime, Expired
  <2> QED
    BY <1>2, <2>2, <2>3 DEF SameRows
<1> QED
  BY <1>3, <1>4 DEF SubmitExam

LEMMA SubmitExamInv == ASSUME Inv, NEW r \in Requests, SubmitExam(r) PROVE Inv'
BY SubmitRows, EndFacts, MoveInv DEF SubmitExam, Inv

\* A request that names an exam of the user's.
LEMMA NamesInv ==
  ASSUME Inv, NEW r \in Requests, NEW i \in Ids,
         NEW op \in {"submit", "abandon", "open"}, NEW pc \in {"submit", "abandon"},
         Names(r, op, pc, i), op = "open" => NotFresh(i), op = "submit" <=> pc = "submit",
         UNCHANGED <<exams, user, day>>
  PROVE  Inv'
<1> TypeOK /\ SameRows
  BY RowsUnchanged DEF Inv
<1> DEFINE q == [Idle EXCEPT !.op = op, !.pc = pc, !.exam = i]
<1>1. /\ q \in RequestTypes /\ q.pc = pc /\ q.op = op /\ q.exam = i
      /\ q.original = 0 /\ q.day = 0
  <2>1. i \in Nat /\ op \in AllOps /\ pc \in PCs
    BY RowType DEF AllOps, PCs
  <2> QED
    BY <2>1, IdleType DEF RequestTypes, Idle
<1>2. req' = [req EXCEPT ![r] = q]
  BY DEF Names
<1> HIDE DEF q
<1>3. /\ req' \in [Requests -> RequestTypes] /\ req'[r] = q
      /\ \A x \in Requests \ {r} : req'[x] = req[x]
  BY <1>1, <1>2 DEF TypeOK
<1>4. Ids' = Ids /\ (NotFresh(i) => NotFresh(i)') /\ day' = day
  BY DEF Ids, NotFresh
<1>5. RequestOK(r)'
  BY <1>1, <1>3, <1>4 DEF RequestOK, ExamHolds, OpHolds, NumberHolds, TypeOK
<1> QED
  BY <1>3, <1>5, MoveInv

LEMMA RequestRetakeInv ==
  ASSUME Inv, NEW r \in Requests, NEW i \in Ids, RequestRetake(r, i)
  PROVE  Inv'
<1> TypeOK /\ SameRows
  BY RowsUnchanged DEF Inv, RequestRetake
<1> DEFINE o == OriginalOf(i)
           limit == EffectiveMaxRetakes(o)
           q == [Idle EXCEPT !.op = "retake", !.pc = "retake", !.exam = i,
                             !.scope = exams[o].scope, !.original = o, !.limit = limit]
<1>1. o \in Ids
  BY RowType DEF OriginalOf, Retake, Inv, RowsOK
<1>2. o \in Nat /\ i \in Nat /\ exams[o].scope \in Scopes /\ exams[o].limit \in Nat
  BY <1>1, RowType DEF Exam
<1>3. limit \in Nat /\ limit <= Most(o)
  <2>1. premium \/ exams[o].scope \in Full
    BY DEF RequestRetake
  <2> HIDE DEF o
  <2> QED
    BY <1>1, <1>2, <2>1, MostType DEF EffectiveMaxRetakes
<1>4. req' = [req EXCEPT ![r] = q]
  BY DEF RequestRetake
<1> HIDE DEF o, limit
<1>5. /\ q \in RequestTypes /\ q.pc = "retake" /\ q.op = "retake" /\ q.exam = i
      /\ q.original = o /\ q.limit = limit /\ q.day = 0
  BY <1>2, <1>3, IdleType DEF RequestTypes, Idle, AllOps, PCs
<1> HIDE DEF q
<1>6. /\ req' \in [Requests -> RequestTypes] /\ req'[r] = q
      /\ \A x \in Requests \ {r} : req'[x] = req[x]
  BY <1>4, <1>5 DEF TypeOK
<1>7. exams' = exams /\ UNCHANGED <<user, day>>
  BY DEF RequestRetake
<1>9. RequestOK(r)'
  BY <1>1, <1>3, <1>5, <1>6, <1>7, SameSets DEF RequestOK, ExamHolds, OpHolds, NumberHolds, TypeOK
<1> QED
  BY <1>6, <1>7, <1>9, MoveInv

LEMMA CheckRetakeInv == ASSUME Inv, NEW r \in Requests, CheckRetakeEligibility(r) PROVE Inv'
<1> TypeOK /\ RequestOK(r) /\ SameRows
  BY RowsUnchanged DEF Inv, CheckRetakeEligibility
<1>0. /\ req[r] \in RequestTypes /\ UNCHANGED <<user, day>> /\ exams' = exams
      /\ req[r].pc = "retake" /\ day \in Nat
  BY DEF TypeOK, CheckRetakeEligibility
<1>1. CASE EndRequest(r)
  BY <1>0, <1>1, EndFacts, MoveInv
<1>2. CASE /\ RetakesLeft(req[r]) > 0
           /\ req' = [req EXCEPT ![r].pc = "number",
                                 ![r].attempt = Cardinality(RetakesOf(req[r].original)) + 2,
                                 ![r].day = day]
  <2> DEFINE k == Cardinality(RetakesOf(req[r].original))
             q == [req[r] EXCEPT !.pc = "number", !.attempt = k + 2, !.day = day]
  <2>1. k \in Nat /\ req[r].limit \in Nat
    BY <1>0, SetsFinite DEF RetakesOf, RequestTypes
  <2>2. k + 2 <= req[r].limit + 1 /\ k + 2 \in 2..(k + 2) /\ k + 2 \in Nat
    BY <1>2, <2>1 DEF RetakesLeft
  <2>3. req' = [req EXCEPT ![r] = q]
    BY <1>0, <1>2 DEF TypeOK, RequestTypes
  <2> HIDE DEF k
  <2>4. /\ q \in RequestTypes /\ q.pc = "number" /\ q.op = req[r].op /\ q.scope = req[r].scope
        /\ q.original = req[r].original /\ q.day = day /\ q.attempt = k + 2
        /\ q.limit = req[r].limit
    BY <1>0, <2>2 DEF RequestTypes, PCs
  <2> HIDE DEF q
  <2>5. /\ req' \in [Requests -> RequestTypes] /\ req'[r] = q
        /\ \A s \in Requests \ {r} : req'[s] = req[s]
    BY <2>3, <2>4 DEF TypeOK
  <2>7. RequestOK(r)'
    BY <1>0, <2>2, <2>4, <2>5, SameSets DEF RequestOK, ExamHolds, OpHolds, NumberHolds, k
  <2> QED
    BY <1>0, <2>5, <2>7, MoveInv
<1> QED
  BY <1>1, <1>2 DEF CheckRetakeEligibility

(***************************************************************************)
(* What goes on around the requests.                                       *)
(***************************************************************************)
LEMMA OvertakenFacts ==
  ASSUME NEW reqs \in [Requests -> RequestTypes]
  PROVE  /\ Overtaken(reqs) \in [Requests -> RequestTypes]
         /\ \A s \in Requests : /\ SameRequest(reqs[s], Overtaken(reqs)[s])
                                /\ reqs[s].overtaken => Overtaken(reqs)[s].overtaken
                                /\ reqs[s].pc = "idle" => Overtaken(reqs)[s] = reqs[s]
<1>1. ASSUME NEW s \in Requests
      PROVE  /\ [reqs[s] EXCEPT !.overtaken = TRUE] \in RequestTypes
             /\ SameRequest(reqs[s], [reqs[s] EXCEPT !.overtaken = TRUE])
             /\ [reqs[s] EXCEPT !.overtaken = TRUE].overtaken
             /\ SameRequest(reqs[s], reqs[s])
  <2>1. reqs[s] \in RequestTypes
    OBVIOUS
  <2> QED
    BY <2>1 DEF RequestTypes, SameRequest
<1> QED
  BY <1>1 DEF Overtaken

LEMMA AroundInv ==
  ASSUME Inv, SameRows, TypeOK', day <= day', day' <= changes',
         \A s \in Requests : SameRequest(req[s], req'[s])
  PROVE  Inv'
BY OthersOK, SameRowsGrow, SameRowsInv DEF Inv

LEMMA TimePassesRows ==
  ASSUME TypeOK, NEW i \in Ids, TimePasses(i)
  PROVE  SameRows /\ \A j \in Ids : exams'[j] # exams[j] => exams'[j].status = exams[j].status
<1> DEFINE age == exams[i].age + 1
           e == [exams[i] EXCEPT !.age = age]
<1>1. exams[i] \in Exam /\ Ids = 1..Len(exams)
  BY RowType
<1>2. age \in InTime..Expired /\ age >= exams[i].age
  BY <1>1 DEF TimePasses, Exam, InTime, Expired
<1>3. exams' = [exams EXCEPT ![i] = e]
  BY <1>1 DEF TimePasses, Exam, TypeOK
<1> HIDE DEF age
<1>4. e \in Exam /\ e.age = age /\ e.status = exams[i].status /\ Fixed(exams[i], e)
  BY <1>1, <1>2 DEF Exam, Fixed
<1>5. Onward(exams[i], e)
  BY <1>2, <1>4 DEF Onward, Live
<1> HIDE DEF e
<1>6. /\ exams' \in Seq(Exam) /\ Len(exams') = Len(exams)
      /\ \A j \in Ids : exams'[j] = IF j = i THEN e ELSE exams[j]
  BY <1>1, <1>3, <1>4, ExceptSeq DEF TypeOK
<1>7. \A j \in Ids : Fixed(exams[j], exams[j]) /\ Onward(exams[j], exams[j])
  <2>1. \A d \in Exam : d.age \in Int
    BY DEF Exam, InTime, Expired
  <2> QED
    BY <2>1, RowType DEF Fixed, Onward
<1> QED
  BY <1>4, <1>5, <1>6, <1>7 DEF SameRows

LEMMA EnvironmentInv == ASSUME Inv, Environment PROVE Inv'
<1> TypeOK
  BY DEF Inv
<1>0. /\ day \in Nat /\ changes \in Nat /\ day <= changes
      /\ \A s \in Requests : SameRequest(req[s], req[s])
  BY DEF Inv, RowsOK, TypeOK, SameRequest
<1>1. ASSUME SameRows, UNCHANGED <<user, day, req>> PROVE Inv'
  <2>1. TypeOK' /\ UNCHANGED <<day, changes, req>>
    BY <1>1 DEF TypeOK, SameRows, user
  <2> QED
    BY <1>0, <1>1, <2>1, AroundInv
<1>2. ASSUME NEW i \in Ids, TimePasses(i) PROVE Inv'
  BY <1>1, <1>2, TimePassesRows DEF TimePasses
<1>3. CASE StaleExamCleanup
  BY <1>1, <1>3, AbandonedFacts DEF StaleExamCleanup
<1>4. CASE ResetFreeExamCredits
  <2>1. TypeOK'
    <3>1. Len(exams) \in 0..Len(exams)
      BY RowType
    <3>2. changes' \in 0..MaxChanges
      BY <1>4 DEF ResetFreeExamCredits, TypeOK
    <3> QED
      BY <1>4, <3>1, <3>2 DEF ResetFreeExamCredits, TypeOK
  <2>2. day' = day /\ changes' = changes + 1 /\ req' = req /\ exams' = exams
    BY <1>4 DEF ResetFreeExamCredits
  <2> QED
    BY <1>0, <2>1, <2>2, RowsUnchanged, AroundInv
<1>5. CASE ChangePremium
  <2>1. /\ day' = day /\ changes' = changes + 1 /\ req' = Overtaken(req) /\ exams' = exams
        /\ premium' = ~premium /\ changes < MaxChanges /\ UNCHANGED <<used, taken, resetAt>>
    BY <1>5 DEF ChangePremium
  <2>2. req' \in [Requests -> RequestTypes] /\ \A s \in Requests : SameRequest(req[s], req'[s])
    BY <2>1, OvertakenFacts DEF TypeOK
  <2>3. premium' \in BOOLEAN
    BY <2>1
  <2>4. changes' \in 0..MaxChanges
    BY <2>1 DEF TypeOK
  <2>5. TypeOK'
    BY <2>1, <2>2, <2>3, <2>4 DEF TypeOK
  <2> QED
    BY <1>0, <2>1, <2>2, <2>5, RowsUnchanged, AroundInv
<1>6. CASE Midnight
  <2>1. /\ day' = day + 1 /\ changes' = changes + 1 /\ req' = req /\ exams' = exams
        /\ changes < MaxChanges /\ UNCHANGED <<used, taken, resetAt, premium>>
    BY <1>6 DEF Midnight
  <2>2. changes' \in 0..MaxChanges /\ day' \in 0..MaxChanges
    BY <1>0, <2>1 DEF TypeOK
  <2>3. TypeOK'
    BY <2>1, <2>2 DEF TypeOK
  <2> QED
    BY <1>0, <2>1, <2>3, RowsUnchanged, AroundInv
<1> QED
  BY <1>2, <1>3, <1>4, <1>5, <1>6 DEF Environment

(***************************************************************************)
(* The insert.                                                             *)
(***************************************************************************)
LEMMA AppendFacts ==
  ASSUME TypeOK, NEW e \in Exam, exams' = Append(exams, e)
  PROVE  LET n == Len(exams) + 1 IN
         /\ exams' \in Seq(Exam) /\ Len(exams') = n /\ n \in Nat /\ n \notin Ids
         /\ Ids' = Ids \cup {n} /\ exams'[n] = e
         /\ \A i \in Ids : exams'[i] = exams[i]
         /\ Grows
<1> DEFINE n == Len(exams) + 1
<1>1. Ids = 1..Len(exams) /\ Len(exams) \in Nat
  BY RowType
<1>2. /\ exams' \in Seq(Exam) /\ Len(exams') = n
      /\ \A i \in Ids : exams'[i] = exams[i]
      /\ exams'[n] = e
  BY <1>1, AppendProperties DEF TypeOK
<1>3. Ids' = 1..n
  BY <1>2, LenProperties DEF Ids
<1>4. Ids' = Ids \cup {n} /\ n \notin Ids
  BY <1>1, <1>3
<1>5. \A i \in Ids : Fixed(exams[i], exams[i]) /\ Onward(exams[i], exams[i])
  <2>1. \A d \in Exam : d.age \in Int
    BY DEF Exam, InTime, Expired
  <2> QED
    BY <2>1, RowType DEF Fixed, Onward
<1>6. Grows
  BY <1>1, <1>2, <1>4, <1>5 DEF Grows
<1> QED
  BY <1>1, <1>2, <1>4, <1>6

LEMMA NewExamFacts ==
  ASSUME TypeOK, NEW r \in Requests
  PROVE  LET q == req[r]
             e == NewExam(q)
         IN  /\ e \in Exam
             /\ e.scope = q.scope /\ e.number = q.number /\ e.original = q.original
             /\ e.attempt = q.attempt /\ e.limit = q.limit /\ e.free = q.free
             /\ e.day = q.day /\ e.late = q.overtaken /\ e.status = "IN_PROGRESS" /\ e.age = InTime
<1>1. req[r] \in RequestTypes /\ InTime \in InTime..Expired /\ "IN_PROGRESS" \in ExamStatus
  BY DEF TypeOK, InTime, Expired, ExamStatus
<1> QED
  BY <1>1 DEF NewExam, RequestTypes, Exam

LEMMA CreateRequests ==
  ASSUME TypeOK, NEW r \in Requests, CreateExam(r)
  PROVE  /\ req' \in [Requests -> RequestTypes] /\ req'[r] = Idle
         /\ \A s \in Requests \ {r} : /\ SameRequest(req[s], req'[s])
                                      /\ req[s].overtaken => req'[s].overtaken
<1> DEFINE ended == [req EXCEPT ![r] = Idle]
<1>1. /\ ended \in [Requests -> RequestTypes] /\ ended[r] = Idle
      /\ \A s \in Requests \ {r} : ended[s] = req[s]
  BY IdleType DEF TypeOK
<1>2. req' = ended \/ req' = Overtaken(ended)
  BY DEF CreateExam
<1>3. \A s \in Requests : SameRequest(req[s], req[s])
  BY DEF SameRequest
<1> HIDE DEF ended
<1> QED
  BY <1>1, <1>2, <1>3, OvertakenFacts, IdleType

LEMMA CreateTypes == ASSUME Inv, NEW r \in Requests, CreateExam(r) PROVE TypeOK'
<1> TypeOK
  BY DEF Inv
<1> DEFINE s == req[r].scope
<1>1. s \in Scopes /\ IsFiniteSet(SubjectsOf[s])
  <2>1. s \in Scopes
    BY DEF TypeOK, RequestTypes
  <2> QED
    BY <2>1, FS_Subset
<1>2. Size(s) \in Nat
  BY <1>1, FS_CardinalityType DEF Size
<1>3. used' \in Nat /\ taken' \in [Subjects -> Nat]
  <2>1. CASE UNCHANGED <<used, taken>>
    BY <2>1 DEF TypeOK
  <2>2. CASE /\ used' = used + Size(s)
             /\ taken' = [x \in Subjects |-> IF x \in SubjectsOf[s] THEN taken[x] + 1 ELSE taken[x]]
    BY <1>2, <2>2 DEF TypeOK
  <2> QED
    BY <2>1, <2>2 DEF CreateExam, ChargeCredits
<1>4. exams' \in Seq(Exam) /\ Len(exams') = Len(exams) + 1
  BY NewExamFacts, AppendFacts DEF CreateExam
<1>5. UNCHANGED <<premium, resetAt, changes, day>> /\ req' \in [Requests -> RequestTypes]
  BY CreateRequests DEF CreateExam
<1>6. resetAt' \in 0..Len(exams')
  BY <1>4, <1>5, RowType DEF TypeOK
<1> QED
  BY <1>3, <1>4, <1>5, <1>6 DEF TypeOK

LEMMA CreateExamInv == ASSUME Inv, NEW r \in Requests, CreateExam(r) PROVE Inv'
<1> DEFINE q == req[r]
           n == Len(exams) + 1
<1>0. TypeOK /\ TypeOK' /\ RequestOK(r) /\ q \in RequestTypes /\ q.pc = "insert" /\ ~Collides(q)
  BY CreateTypes DEF Inv, TypeOK, CreateExam
<1>1. /\ n \in Nat /\ n \notin Ids /\ Ids' = Ids \cup {n} /\ Len(exams') = n
      /\ \A i \in Ids : exams'[i] = exams[i]
      /\ exams'[n] = NewExam(q) /\ Grows
  BY <1>0, NewExamFacts, AppendFacts DEF CreateExam
<1>2. UNCHANGED <<day, changes>> /\ day \in Nat
  BY <1>0 DEF CreateExam, TypeOK
<1>3. ASSUME NEW s \in Requests PROVE RequestOK(s)'
  <2>1. CASE s = r
    <3>1. Idle.day = 0 /\ req'[r] = Idle
      BY <1>0, CreateRequests DEF Idle
    <3> QED
      BY <1>2, <2>1, <3>1, IdleType DEF RequestOK, ExamHolds, OpHolds, NumberHolds
  <2>2. CASE s # r
    <3>1. SameRequest(req[s], req'[s]) /\ day <= day'
      BY <1>0, <1>2, <2>2, CreateRequests
    <3> QED
      BY <1>0, <1>1, <3>1, OthersOK DEF Inv
  <2> QED
    BY <2>1, <2>2
<1>4. q.original \in Ids \cup {0} /\ (q.op # "retake" => q.original = 0)
  BY <1>0 DEF RequestOK, OpHolds
<1>5. RowsOK'
  <2>1. Ids = 1..Len(exams) /\ Len(exams) \in Nat
    BY <1>0, RowType
  <2>2. NewExam(q).original \in 0..n /\ NewExam(q).day <= day
    BY <1>0, <1>4, <2>1, NewExamFacts DEF RequestOK, OpHolds
  <2>3. \A i \in Ids : exams[i].original \in 0..n /\ exams[i].day <= day
    BY <2>1 DEF Inv, RowsOK
  <2> QED
    BY <1>1, <1>2, <2>2, <2>3 DEF Inv, RowsOK
<1>6. SessionsNumbered'
  <2> SUFFICES ASSUME NEW s \in Scopes PROVE Numbers(s)' = 1..Cardinality(RowsOf(s)')
    BY DEF SessionsNumbered, Numbers, RowsOf
  <2>1. Numbers(s) = 1..Cardinality(RowsOf(s))
    BY DEF Inv, SessionsNumbered, Numbers, RowsOf
  <2>2. IsFiniteSet(RowsOf(s)) /\ Cardinality(RowsOf(s)) \in Nat
    BY <1>0, SetsFinite DEF RowsOf
  <2>3. CASE s # q.scope
    <3>1. RowsOf(s)' = RowsOf(s)
      BY <1>0, <1>1, <2>3, NewExamFacts DEF RowsOf
    <3>2. Numbers(s)' = Numbers(s)
      BY <1>1, <3>1 DEF Numbers, RowsOf
    <3> QED
      BY <2>1, <3>1, <3>2
  <2>4. CASE s = q.scope
    <3>1. RowsOf(s)' = RowsOf(s) \cup {n} /\ n \notin RowsOf(s)
      BY <1>0, <1>1, <2>4, NewExamFacts DEF RowsOf
    <3>2. Cardinality(RowsOf(s)') = Cardinality(RowsOf(s)) + 1
      BY <2>2, <3>1, FS_AddElement
    <3>3. Numbers(s)' = Numbers(s) \cup {q.number}
      <4>1. exams'[n].number = q.number
        BY <1>0, <1>1, NewExamFacts
      <4> QED
        BY <1>1, <3>1, <4>1 DEF Numbers, RowsOf
    <3>4. q.number \notin Numbers(s)
      BY <1>0, <2>4 DEF Collides, Numbers, RowsOf
    <3>5. q.number \in 1..(Cardinality(RowsOf(s)) + 1)
      BY <1>0, <2>4 DEF RequestOK, NumberHolds
    <3> QED
      BY <2>1, <2>2, <3>2, <3>3, <3>4, <3>5, NumberIsNext
  <2> QED
    BY <2>3, <2>4
<1>7. RetakesBounded'
  <2> SUFFICES ASSUME NEW o \in Ids'
               PROVE  /\ Attempts(o)' = 2..(Cardinality(RetakesOf(o)') + 1)
                      /\ Cardinality(RetakesOf(o)') <= Most(o)'
    BY DEF RetakesBounded, Attempts, Most
  <2>1. CASE o = n
    <3>1. RetakesOf(o)' = {}
      <4>1. \A i \in Ids : exams[i].original # n
        BY <1>0, RowType DEF Inv, RowsOK
      <4>2. q.original # n
        BY <1>0, <1>1, <1>4, RowType
      <4>3. exams'[n].original # n
        BY <1>0, <1>1, <4>2, NewExamFacts
      <4>4. \A i \in Ids' : exams'[i].original # n
        BY <1>1, <4>1, <4>3
      <4> QED
        BY <2>1, <4>4 DEF RetakesOf
    <3>2. Attempts(o)' = {} /\ Cardinality(RetakesOf(o)') = 0
      BY <3>1, FS_EmptySet DEF Attempts
    <3>3. Most(o)' \in Nat
      <4>1. exams'[n].limit \in Nat
        BY <1>0, <1>1, NewExamFacts DEF Exam
      <4> QED
        BY <2>1, <4>1, MaxPair DEF Most
    <3> QED
      BY <3>2, <3>3
  <2>2. CASE o \in Ids
    <3>1. /\ Attempts(o) = 2..(Cardinality(RetakesOf(o)) + 1)
          /\ Cardinality(RetakesOf(o)) <= Most(o)
      BY <2>2 DEF Inv, RetakesBounded, Attempts, Most
    <3>2. IsFiniteSet(RetakesOf(o)) /\ Cardinality(RetakesOf(o)) \in Nat
      BY <1>0, SetsFinite DEF RetakesOf
    <3>3. Most(o)' = Most(o) /\ Most(o) \in Nat
      BY <1>0, <1>1, <2>2, GrowSets, MostType
    <3>4. CASE q.original # o
      <4>1. RetakesOf(o)' = RetakesOf(o)
        BY <1>0, <1>1, <3>4, NewExamFacts DEF RetakesOf
      <4>2. Attempts(o)' = Attempts(o)
        BY <1>1, <4>1 DEF Attempts, RetakesOf
      <4> QED
        BY <3>1, <3>3, <4>1, <4>2
    <3>5. CASE q.original = o
      <4>1. RetakesOf(o)' = RetakesOf(o) \cup {n} /\ n \notin RetakesOf(o)
        BY <1>0, <1>1, <3>5, NewExamFacts DEF RetakesOf
      <4>2. Cardinality(RetakesOf(o)') = Cardinality(RetakesOf(o)) + 1
        BY <3>2, <4>1, FS_AddElement
      <4>3. exams'[n].attempt = q.attempt
        BY <1>0, <1>1, NewExamFacts
      <4>4. Attempts(o)' = Attempts(o) \cup {q.attempt}
        BY <1>1, <4>1, <4>3 DEF Attempts, RetakesOf
      <4>5. q.original # 0
        BY <1>0, <2>2, <3>5, RowType
      <4>6. q.attempt \notin Attempts(o)
        BY <1>0, <3>5, <4>5 DEF Collides, Attempts, RetakesOf
      <4>7. /\ q.attempt \in 2..(Cardinality(RetakesOf(o)) + 2)
            /\ q.attempt <= q.limit + 1 /\ q.limit <= Most(o) /\ q.limit \in Nat
        BY <1>0, <1>4, <3>5, <4>5 DEF RequestOK, NumberHolds, OpHolds, RequestTypes
      <4> HIDE DEF q, n
      <4>8. q.attempt = Cardinality(RetakesOf(o)) + 2
        BY <3>1, <3>2, <4>6, <4>7
      <4> QED
        BY <3>1, <3>2, <3>3, <4>2, <4>4, <4>7, <4>8
    <3> QED
      BY <3>4, <3>5
  <2> QED
    BY <1>1, <2>1, <2>2
<1> QED
  BY <1>0, <1>3, <1>5, <1>6, <1>7 DEF Inv

(***************************************************************************)
(* The invariant holds.                                                    *)
(***************************************************************************)
LEMMA InitInv == Init => Inv
<1> SUFFICES ASSUME Init PROVE Inv
  OBVIOUS
<1>1. TypeOK
  BY InitType
<1>2. Ids = {}
  BY DEF Init, Ids
<1>3. RowsOK
  BY <1>2 DEF RowsOK, Init
<1>4. \A s : RowsOf(s) = {}
  BY <1>2 DEF RowsOf
<1>5. SessionsNumbered
  <2>1. \A s : Numbers(s) = {} /\ Cardinality(RowsOf(s)) = 0
    BY <1>4, FS_EmptySet DEF Numbers
  <2>2. 1..0 = {}
    OBVIOUS
  <2>3. \A s : Numbers(s) = 1..Cardinality(RowsOf(s))
    BY <2>1, <2>2
  <2> QED
    BY <2>3 DEF SessionsNumbered, Numbers, RowsOf
<1>6. RetakesBounded
  BY <1>2 DEF RetakesBounded
<1>7. ASSUME NEW r \in Requests PROVE RequestOK(r)
  <2>1. req[r] = Idle /\ Idle.day = 0 /\ day = 0
    BY DEF Init, Idle
  <2> QED
    BY <2>1, IdleType DEF RequestOK, ExamHolds, OpHolds, NumberHolds
<1> QED
  BY <1>1, <1>3, <1>5, <1>6, <1>7 DEF Inv

LEMMA ArrivalInv == ASSUME Inv, NEW r \in Requests, Arrival(r) PROVE Inv'
<1>1. ASSUME NEW i \in Ids, RequestSubmit(r, i) PROVE Inv'
  BY <1>1, NamesInv DEF RequestSubmit
<1>2. ASSUME NEW i \in Ids, RequestAbandon(r, i) PROVE Inv'
  BY <1>2, NamesInv DEF RequestAbandon
<1>3. ASSUME NEW i \in Ids, OpenExam(r, i) PROVE Inv'
  BY <1>3, NamesInv DEF OpenExam, NotFresh
<1> QED
  BY <1>1, <1>2, <1>3, RequestStartInv, RequestRetakeInv DEF Arrival

LEMMA StepInv == ASSUME Inv, NEW r \in Requests, Step(r) PROVE Inv'
<1>1. CASE FindSession(r) \/ ResumeSession(r) \/ ResumeFails(r) \/ ForceAbandon(r) \/ HealFails(r)
  BY <1>1, FindSessionInv, ResumeSessionInv, ResumeFailsInv, ForceAbandonInv, HealFailsInv
<1>2. CASE CheckEligibility(r) \/ LoadUser(r) \/ CheckDailyChallenge(r)
  BY <1>2, CheckEligibilityInv, LoadUserInv, CheckDailyInv
<1>3. CASE TakeNumber(r) \/ CreateExam(r) \/ InsertCollides(r)
  BY <1>3, TakeNumberInv, CreateExamInv, InsertCollidesInv
<1>4. CASE SubmitExam(r) \/ CheckRetakeEligibility(r)
  BY <1>4, SubmitExamInv, CheckRetakeInv
<1> QED
  BY <1>1, <1>2, <1>3, <1>4 DEF Step

LEMMA NextInv == ASSUME Inv, [Next]_vars PROVE Inv'
<1>1. CASE UNCHANGED vars
  <2>1. TypeOK' /\ UNCHANGED <<exams, day, changes, req>>
    BY <1>1 DEF Inv, TypeOK, vars, user
  <2>2. \A s \in Requests : SameRequest(req[s], req'[s])
    BY <2>1 DEF SameRequest
  <2>3. day <= day' /\ day' <= changes'
    BY <2>1 DEF Inv, RowsOK, TypeOK
  <2> QED
    BY <2>1, <2>2, <2>3, RowsUnchanged, AroundInv DEF Inv
<1> QED
  BY <1>1, ArrivalInv, StepInv, EnvironmentInv DEF Next

LEMMA InvHolds == Spec => []Inv
BY InitInv, NextInv, PTL DEF Spec

\* However starts, daily challenges and retakes overlap, the sessions of a scope
\* are numbered without a gap or a double, and no exam is retaken more often than
\* its limit allows (getNextExamSessionNumber, checkRetakeEligibility).
THEOREM SessionsAndRetakesCount == Spec => []AttemptsNumbered
<1>1. Inv => AttemptsNumbered
  BY DEF Inv, AttemptsNumbered
<1> QED
  BY <1>1, InvHolds, PTL

\* Whatever overlaps, an exam that still has time is abandoned only by its user,
\* or by a start of its own scope that failed to read it or whose ceiling is lower
\* than the time it was given (reuseOrExpireInProgressExam, staleExamCleanup).
THEOREM FreshExamsStay == Spec => FreshExamsKept
<1> DEFINE Allowed(r, i) ==
              \/ req[r].op = "abandon" /\ req[r].exam = i /\ req'[r] = Idle
              \/ /\ req[r].scope = exams[i].scope
                 /\ \/ req[r].pc = "unread" /\ req[r].exam = i
                    \/ req[r].pc = "find" /\ exams[i].scope \in Longer
<1>1. ASSUME Inv, [Next]_vars, NEW i \in Ids, FreshEnds(i)
      PROVE  \E r \in Requests : Allowed(r, i)
  <2> TypeOK /\ exams[i] \in Exam /\ exams'[i] # exams[i]
    BY <1>1, RowType DEF Inv, Live, FreshEnds
  <2> ~NotFresh(i) /\ Live(exams[i]) /\ exams'[i].status = "ABANDONED"
    BY <1>1 DEF FreshEnds, NotFresh, Overdue, InTime, InGrace
  <2>1. ASSUME NEW ids, exams' = Abandoned(ids) PROVE i \in ids
    BY <2>1, AbandonedFacts
  <2>2. i \notin Stale
    BY <1>1 DEF FreshEnds, Stale, InTime, Expired
  <2>3. ~StaleExamCleanup
    BY <2>1, <2>2 DEF StaleExamCleanup
  <2>4. ASSUME NEW j \in Ids, TimePasses(j) PROVE FALSE
    BY <1>1, <2>4, TimePassesRows DEF Live
  <2>5. PICK r \in Requests : Step(r) \/ Arrival(r)
    <3>1. ~Environment
      BY <2>3, <2>4 DEF Environment, ResetFreeExamCredits, ChangePremium, Midnight
    <3>2. ~UNCHANGED vars
      BY DEF vars
    <3> QED
      BY <1>1, <3>1, <3>2 DEF Next
  <2>6. CASE FindSession(r)
    <3> PICK long \in BOOLEAN : exams' = Abandoned(PastCeiling(req[r].scope, long))
      BY <2>6 DEF FindSession
    <3>1. i \in PastCeiling(req[r].scope, long)
      BY <2>1
    <3>2. req[r].pc = "find" /\ req[r].scope = exams[i].scope
      BY <2>6, <3>1 DEF FindSession, PastCeiling, Resumable
    <3>3. exams[i].scope \in Longer
      BY <1>1, <3>1, <3>2 DEF FreshEnds, PastCeiling, NotFresh, InTime, Expired
    <3> QED
      BY <3>2, <3>3
  <2>7. ~CreateExam(r)
    BY NewExamFacts, AppendFacts DEF CreateExam
  <2>8. ~SubmitExam(r)
    <3> SUFFICES ASSUME SubmitExam(r) PROVE FALSE
      OBVIOUS
    <3>1. req[r].exam \in Ids /\ exams' = [exams EXCEPT ![req[r].exam] = Ended(@, "COMPLETED")]
      BY <1>1 DEF SubmitExam, Inv, RequestOK, ExamHolds
    <3>2. exams'[i] = Ended(exams[i], "COMPLETED")
      BY <3>1 DEF Ids
    <3> QED
      BY <1>1, <3>2, EndedFacts DEF ExamStatus
  <2>9. ASSUME NEW s \in Scopes PROVE ~RequestStart(r, s)
    BY <2>1, <2>2 DEF RequestStart
  <2>10. CASE ForceAbandon(r)
    <3>1. req[r].exam = i
      BY <2>1, <2>10 DEF ForceAbandon
    <3>2. CASE req[r].pc = "abandon"
      <4>1. req[r].op = "abandon"
        BY <1>1, <3>1, <3>2 DEF Inv, RequestOK, ExamHolds
      <4>2. req'[r] = Idle
        BY <2>10, <3>2 DEF ForceAbandon, EndRequest, TypeOK
      <4> QED
        BY <3>1, <4>1, <4>2
    <3>3. CASE req[r].pc # "abandon"
      <4>1. req[r].pc = "unread"
        BY <1>1, <2>10, <3>1, <3>3 DEF ForceAbandon, Inv, RequestOK, ExamHolds
      <4>2. req[r].scope = exams[i].scope
        BY <1>1, <3>1, <4>1 DEF Inv, RequestOK, ExamHolds
      <4> QED
        BY <3>1, <4>1, <4>2
    <3> QED
      BY <3>2, <3>3
  <2>11. FindSession(r) \/ ForceAbandon(r)
    <3>1. CASE Step(r)
      BY <3>1, <2>7, <2>8 DEF Step, ResumeSession, ResumeFails, HealFails, CheckEligibility,
         LoadUser, CheckDailyChallenge, TakeNumber, InsertCollides, CheckRetakeEligibility
    <3>2. CASE Arrival(r)
      BY <3>2, <2>9 DEF Arrival, RequestSubmit, RequestAbandon, OpenExam, RequestRetake
    <3> QED
      BY <2>5, <3>1, <3>2
  <2> QED
    BY <2>6, <2>10, <2>11
<1>2. Inv /\ [Next]_vars
      => [\A i \in Ids : FreshEnds(i) =>
            \E r \in Requests :
               \/ req[r].op = "abandon" /\ req[r].exam = i /\ req'[r] = Idle
               \/ /\ req[r].scope = exams[i].scope
                  /\ \/ req[r].pc = "unread" /\ req[r].exam = i
                     \/ req[r].pc = "find" /\ exams[i].scope \in Longer]_vars
  BY <1>1
<1> QED
  BY <1>2, InvHolds, PTL DEF Spec, FreshExamsKept

(***************************************************************************)
(* Credits.                                                                *)
(***************************************************************************)
PairsIn(ids, e) == {c \in ids \X Subjects : c[2] \in SubjectsOf[e[c[1]].scope]}

Charged == {i \in Ids : exams[i].free /\ i > resetAt}
With(x) == {i \in Charged : x \in SubjectsOf[exams[i].scope]}

LEMMA PairsFinite ==
  ASSUME NEW ids, IsFiniteSet(ids), NEW e, NEW sub \in SUBSET ids
  PROVE  /\ IsFiniteSet(PairsIn(ids, e)) /\ Cardinality(PairsIn(ids, e)) \in Nat
         /\ Cardinality(PairsIn(sub, e)) \in Nat
         /\ Cardinality(PairsIn(sub, e)) <= Cardinality(PairsIn(ids, e))
<1>1. IsFiniteSet(ids \X Subjects)
  BY FS_Product
<1>2. PairsIn(ids, e) \in SUBSET (ids \X Subjects)
  BY DEF PairsIn
<1>3. PairsIn(sub, e) \in SUBSET PairsIn(ids, e)
  BY DEF PairsIn
<1>4. IsFiniteSet(PairsIn(ids, e))
  BY <1>1, <1>2, FS_Subset
<1>5. IsFiniteSet(PairsIn(sub, e)) /\ Cardinality(PairsIn(sub, e)) <= Cardinality(PairsIn(ids, e))
  BY <1>3, <1>4, FS_Subset
<1> QED
  BY <1>4, <1>5, FS_CardinalityType

\* One more exam costs as many credits as it has subjects.
LEMMA PairsGrow ==
  ASSUME NEW ids, IsFiniteSet(ids), NEW e, NEW f, NEW n, n \notin ids,
         \A i \in ids : f[i].scope = e[i].scope, f[n].scope \in Scopes
  PROVE  /\ Size(f[n].scope) \in Nat
         /\ Cardinality(PairsIn(ids \cup {n}, f))
              = Cardinality(PairsIn(ids, e)) + Size(f[n].scope)
<1> DEFINE S == SubjectsOf[f[n].scope]
           new == {n} \X S
<1>1. IsFiniteSet(S) /\ S \subseteq Subjects
  BY FS_Subset
<1>2. IsFiniteSet(new) /\ Cardinality(new) = Cardinality(S) /\ Cardinality(S) \in Nat
  <2>1. IsFiniteSet({n}) /\ Cardinality({n}) = 1
    BY FS_Singleton
  <2>2. Cardinality(S) \in Nat
    BY <1>1, FS_CardinalityType
  <2>3. IsFiniteSet(new) /\ Cardinality(new) = 1 * Cardinality(S)
    <3> HIDE DEF S
    <3> QED
      BY <1>1, <2>1, FS_Product
  <2> HIDE DEF S, new
  <2> QED
    BY <2>2, <2>3
<1>3. PairsIn(ids \cup {n}, f) = PairsIn(ids, e) \cup new
  BY <1>1 DEF PairsIn
<1>4. PairsIn(ids, e) \cap new = {}
  BY DEF PairsIn
<1>5. IsFiniteSet(PairsIn(ids, e)) /\ Cardinality(PairsIn(ids, e)) \in Nat
  BY PairsFinite
<1>6. Cardinality(PairsIn(ids, e) \cup new) = Cardinality(PairsIn(ids, e)) + Cardinality(new) - 0
  <2> HIDE DEF new
  <2> QED
    BY <1>2, <1>4, <1>5, FS_Union, FS_EmptySet
<1>7. Size(f[n].scope) = Cardinality(S)
  BY DEF Size
<1>8. Cardinality(PairsIn(ids \cup {n}, f)) = Cardinality(PairsIn(ids, e) \cup new)
  BY <1>3
<1>9. Cardinality(PairsIn(ids, e) \cup new) = Cardinality(PairsIn(ids, e)) + Cardinality(S)
  <2> HIDE DEF new, S
  <2> QED
    BY <1>2, <1>5, <1>6
<1> HIDE DEF new, S
<1> QED
  BY <1>2, <1>7, <1>8, <1>9

LEMMA PairsSame ==
  ASSUME NEW ids, NEW e, NEW f, \A i \in ids : f[i].scope = e[i].scope
  PROVE  PairsIn(ids, f) = PairsIn(ids, e)
BY DEF PairsIn

\* The steps of a request that create no exam add no row and change no credit.
LEMMA StepRows ==
  ASSUME Inv, NEW r \in Requests, Step(r), ~CreateExam(r)
  PROVE  SameRows /\ UNCHANGED <<user, day>>
<1> TypeOK
  BY DEF Inv
<1>1. ASSUME UNCHANGED exams PROVE SameRows
  BY <1>1, RowsUnchanged
<1>2. ASSUME NEW ids, exams' = Abandoned(ids) PROVE SameRows
  BY <1>2, AbandonedFacts
<1>3. CASE FindSession(r) \/ ForceAbandon(r)
  BY <1>2, <1>3 DEF FindSession, ForceAbandon
<1>4. CASE SubmitExam(r)
  BY <1>4, SubmitRows DEF SubmitExam
<1>5. CASE ResumeSession(r) \/ CheckEligibility(r) \/ LoadUser(r) \/ CheckDailyChallenge(r)
           \/ TakeNumber(r) \/ InsertCollides(r) \/ CheckRetakeEligibility(r)
  BY <1>1, <1>5 DEF ResumeSession, CheckEligibility, LoadUser, CheckDailyChallenge,
     TakeNumber, InsertCollides, CheckRetakeEligibility
<1>6. CASE ResumeFails(r) \/ HealFails(r)
  BY <1>1, <1>6 DEF ResumeFails, HealFails
<1> QED
  BY <1>3, <1>4, <1>5, <1>6 DEF Step

LEMMA ArrivalRows ==
  ASSUME Inv, NEW r \in Requests, Arrival(r)
  PROVE  SameRows /\ UNCHANGED <<user, day>>
<1> TypeOK
  BY DEF Inv
<1>1. ASSUME UNCHANGED exams PROVE SameRows
  BY <1>1, RowsUnchanged
<1>2. ASSUME NEW ids, exams' = Abandoned(ids) PROVE SameRows
  BY <1>2, AbandonedFacts
<1> QED
  BY <1>1, <1>2 DEF Arrival, RequestStart, RequestSubmit, RequestAbandon, OpenExam,
     RequestRetake

\* What a step may do to the rows and to the credits.
LEMMA NextKinds ==
  ASSUME Inv, [Next]_vars
  PROVE  \/ SameRows /\ UNCHANGED <<used, taken, resetAt>>
         \/ ResetFreeExamCredits
         \/ \E r \in Requests : CreateExam(r)
<1> TypeOK
  BY DEF Inv
<1>1. ASSUME UNCHANGED exams PROVE SameRows
  BY <1>1, RowsUnchanged
<1>2. ASSUME NEW r \in Requests, Step(r), ~CreateExam(r)
      PROVE  SameRows /\ UNCHANGED <<used, taken, resetAt>>
  BY <1>2, StepRows DEF user
<1>3. ASSUME NEW r \in Requests, Arrival(r) PROVE SameRows /\ UNCHANGED <<used, taken, resetAt>>
  BY <1>3, ArrivalRows DEF user
<1>4. CASE Environment
  <2>1. ASSUME NEW i \in Ids, TimePasses(i) PROVE SameRows /\ UNCHANGED <<used, taken, resetAt>>
    BY <2>1, TimePassesRows DEF TimePasses, user
  <2>2. CASE StaleExamCleanup
    BY <2>2, AbandonedFacts DEF StaleExamCleanup, user
  <2>3. CASE ChangePremium \/ Midnight
    BY <1>1, <2>3 DEF ChangePremium, Midnight
  <2> QED
    BY <1>4, <2>1, <2>2, <2>3 DEF Environment
<1>5. CASE UNCHANGED vars
  BY <1>1, <1>5 DEF vars, user
<1> QED
  BY <1>2, <1>3, <1>4, <1>5 DEF Next

LEMMA CreateCharge ==
  ASSUME Inv, NEW r \in Requests, CreateExam(r)
  PROVE  LET n == Len(exams) + 1
             q == req[r]
         IN  /\ n \notin Ids /\ Ids' = Ids \cup {n} /\ q.scope \in Scopes /\ n > resetAt
             /\ \A i \in Ids : exams'[i] = exams[i]
             /\ exams'[n] = NewExam(q) /\ exams'[n].scope = q.scope /\ exams'[n].free = q.free
             /\ Charged' = IF q.free THEN Charged \cup {n} ELSE Charged
             /\ IsFiniteSet(Charged) /\ Charged \subseteq Ids /\ UNCHANGED resetAt
<1> DEFINE n == Len(exams) + 1
           q == req[r]
<1> TypeOK
  BY DEF Inv
<1>1. /\ n \in Nat /\ n \notin Ids /\ Ids' = Ids \cup {n}
      /\ \A i \in Ids : exams'[i] = exams[i]
      /\ exams'[n] = NewExam(q)
  BY NewExamFacts, AppendFacts DEF CreateExam
<1>2. exams'[n].scope = q.scope /\ exams'[n].free = q.free /\ q.scope \in Scopes
  BY <1>1, NewExamFacts DEF TypeOK, RequestTypes
<1>3. resetAt' = resetAt /\ n > resetAt
  BY RowType DEF CreateExam, TypeOK
<1>4. Charged' = IF q.free THEN Charged \cup {n} ELSE Charged
  <2>1. Charged' = {i \in Ids \cup {n} : exams'[i].free /\ i > resetAt}
    BY <1>1, <1>3 DEF Charged
  <2>2. \A i \in Ids : exams'[i].free = exams[i].free
    BY <1>1
  <2> HIDE DEF n, q
  <2>3. CASE q.free
    BY <1>1, <1>2, <1>3, <2>1, <2>2, <2>3 DEF Charged
  <2>4. CASE ~q.free
    BY <1>1, <1>2, <1>3, <2>1, <2>2, <2>4 DEF Charged
  <2> QED
    BY <2>3, <2>4
<1>5. Charged \subseteq Ids
  BY DEF Charged
<1> QED
  BY <1>1, <1>2, <1>3, <1>4, <1>5, SetsFinite

LEMMA CreditsInit == Init => CreditsMatchExams
<1> SUFFICES ASSUME Init PROVE CreditsMatchExams
  OBVIOUS
<1>1. Ids = {}
  BY DEF Init, Ids
<1>2. Charged = {} /\ \A x : With(x) = {}
  BY <1>1 DEF Charged, With
<1>3. PairsIn({}, exams) = {}
  BY DEF PairsIn
<1>4. CreditsOf(Charged) = 0
  BY <1>2, <1>3, FS_EmptySet DEF CreditsOf, PairsIn
<1>5. \A x \in Subjects : taken[x] = Cardinality(With(x))
  BY <1>2, FS_EmptySet DEF Init
<1> QED
  BY <1>4, <1>5 DEF Init, CreditsMatchExams, Charged, With

LEMMA CreditsNext ==
  ASSUME Inv, CreditsMatchExams, [Next]_vars
  PROVE  CreditsMatchExams'
<1> TypeOK
  BY DEF Inv
<1>0. /\ used = Cardinality(PairsIn(Charged, exams))
      /\ \A x \in Subjects : taken[x] = Cardinality(With(x))
  BY DEF CreditsMatchExams, Charged, With, CreditsOf, PairsIn
<1> SUFFICES /\ used' = Cardinality(PairsIn(Charged', exams'))
             /\ \A x \in Subjects : taken'[x] = Cardinality(With(x)')
  BY DEF CreditsMatchExams, Charged, With, CreditsOf, PairsIn
<1>1. CASE SameRows /\ UNCHANGED <<used, taken, resetAt>>
  <2>1. Ids' = Ids /\ \A i \in Ids : Fixed(exams[i], exams'[i])
    BY <1>1, SameRowsGrow DEF SameRows
  <2>2. Charged' = Charged /\ \A i \in Charged : exams'[i].scope = exams[i].scope
    BY <1>1, <2>1 DEF Charged, Fixed
  <2>3. PairsIn(Charged, exams') = PairsIn(Charged, exams)
    BY <2>2, PairsSame
  <2>4. \A x \in Subjects : With(x)' = With(x)
    BY <2>2 DEF With
  <2> QED
    BY <1>0, <1>1, <2>2, <2>3, <2>4
<1>2. CASE ResetFreeExamCredits
  <2>1. Charged' = {}
    BY <1>2, RowType DEF ResetFreeExamCredits, Charged, Ids
  <2>2. PairsIn({}, exams') = {} /\ \A x : With(x)' = {}
    BY <2>1 DEF PairsIn, With
  <2>3. used' = 0 /\ \A x \in Subjects : taken'[x] = 0
    BY <1>2 DEF ResetFreeExamCredits
  <2> QED
    BY <2>1, <2>2, <2>3, FS_EmptySet
<1>3. ASSUME NEW r \in Requests, CreateExam(r)
      PROVE  /\ used' = Cardinality(PairsIn(Charged', exams'))
             /\ \A x \in Subjects : taken'[x] = Cardinality(With(x)')
  <2> DEFINE n == Len(exams) + 1
             q == req[r]
             s == q.scope
  <2>1. /\ n \notin Charged /\ Ids' = Ids \cup {n} /\ s \in Scopes
        /\ \A i \in Charged : exams'[i] = exams[i]
        /\ exams'[n].scope = s
        /\ Charged' = IF q.free THEN Charged \cup {n} ELSE Charged
        /\ IsFiniteSet(Charged)
    BY <1>3, CreateCharge
  <2>2. ChargeCredits(r)
    BY <1>3 DEF CreateExam
  <2> HIDE DEF n
  <2>3. CASE ~q.free
    <3>1. Charged' = Charged /\ UNCHANGED <<used, taken>>
      BY <2>1, <2>2, <2>3 DEF ChargeCredits
    <3>2. PairsIn(Charged, exams') = PairsIn(Charged, exams)
      BY <2>1, PairsSame
    <3>3. \A x \in Subjects : With(x)' = With(x)
      BY <2>1, <3>1 DEF With
    <3> QED
      BY <1>0, <3>1, <3>2, <3>3
  <2>4. CASE q.free
    <3>1. /\ used' = used + Size(s)
          /\ taken' = [x \in Subjects |-> IF x \in SubjectsOf[s] THEN taken[x] + 1 ELSE taken[x]]
      BY <2>2, <2>4 DEF ChargeCredits
    <3>2. Charged' = Charged \cup {n}
      BY <2>1, <2>4
    <3>3. Cardinality(PairsIn(Charged \cup {n}, exams'))
            = Cardinality(PairsIn(Charged, exams)) + Size(s)
      BY <2>1, PairsGrow
    <3>4. ASSUME NEW x \in Subjects PROVE taken'[x] = Cardinality(With(x)')
      <4>1. IsFiniteSet(With(x)) /\ n \notin With(x)
        BY <2>1, FS_Subset DEF With
      <4>2. With(x)' = IF x \in SubjectsOf[s] THEN With(x) \cup {n} ELSE With(x)
        BY <2>1, <3>2 DEF With
      <4>3. Cardinality(With(x) \cup {n}) = Cardinality(With(x)) + 1
        BY <4>1, FS_AddElement
      <4> QED
        BY <1>0, <3>1, <4>2, <4>3
    <3> QED
      BY <1>0, <3>1, <3>2, <3>3, <3>4
  <2> QED
    BY <2>3, <2>4
<1> QED
  BY <1>1, <1>2, <1>3, NextKinds

\* The free credits used, and the subjects they were used for, are exactly those
\* of the exams started with them since the last reset (createExam's transaction).
THEOREM CreditsAreExams == Spec => []CreditsMatchExams
BY CreditsInit, CreditsNext, InvHolds, PTL DEF Spec

(***************************************************************************)
(* The limits.                                                             *)
(***************************************************************************)
RealOn(d)  == {i \in Ids : exams[i].scope \notin Daily /\ ~Retake(exams[i]) /\ exams[i].day = d}
DailyOn(d) == {i \in Ids : exams[i].scope \in Daily /\ ~Retake(exams[i]) /\ exams[i].day = d}

RealCost(d)  == CreditsOf(RealOn(d))
RealOK(d, s) == RealCost(d) + Size(s) <= PremiumCredits
FreeOK(s)    == used + Size(s) <= FreeCredits /\ \A x \in SubjectsOf[s] : taken[x] = 0

\* What a request's check found still holds, unless a change overtook it.
StartHolds(r) ==
    req[r].op = "start" /\ ~req[r].overtaken =>
        /\ req[r].pc = "load" => IF premium THEN RealOK(day, req[r].scope)
                                            ELSE FreeOK(req[r].scope)
        /\ req[r].pc \in {"number", "insert"} => IF req[r].free THEN FreeOK(req[r].scope)
                                                 ELSE RealOK(req[r].day, req[r].scope)

DailyHolds(r) ==
    req[r].op = "daily" /\ ~req[r].overtaken /\ req[r].pc \in {"number", "insert"}
        => DailyOn(req[r].day) = {}

Checked(r) ==
    /\ StartHolds(r) /\ DailyHolds(r)
    /\ req[r].op \in {"daily", "retake"} => ~req[r].free

OnTime       == {i \in Ids : ~exams[i].late /\ ~Retake(exams[i])}
FreeOnTime   == {i \in OnTime : exams[i].free /\ i > resetAt}
PremiumOn(d) == {i \in OnTime : exams[i].day = d /\ exams[i].scope \notin Daily /\ ~exams[i].free}
OneOf(d)     == {i \in OnTime : exams[i].day = d /\ exams[i].scope \in Daily}

FreeLimits ==
    /\ CreditsOf(FreeOnTime) <= FreeCredits
    /\ \A i, j \in FreeOnTime :
          i # j => SubjectsOf[exams[i].scope] \cap SubjectsOf[exams[j].scope] = {}
PremiumLimit(d) == CreditsOf(PremiumOn(d)) <= PremiumCredits
DailyLimit(d)   == Cardinality(OneOf(d)) <= 1

Limits == FreeLimits /\ \A d \in Nat : PremiumLimit(d) /\ DailyLimit(d)

LEMMA LimitsEnough == ASSUME TypeOK, Limits PROVE LimitsExcused
<1> DEFINE charged == {i \in OnTime : exams[i].free /\ i > resetAt}
           real(d) == {i \in {j \in OnTime : exams[j].day = d} :
                         exams[i].scope \notin Daily /\ ~exams[i].free}
           daily(d) == {i \in {j \in OnTime : exams[j].day = d} : exams[i].scope \in Daily}
<1>1. charged = FreeOnTime /\ \A d : real(d) = PremiumOn(d) /\ daily(d) = OneOf(d)
  BY DEF FreeOnTime, PremiumOn, OneOf
<1>2. 0..day \subseteq Nat
  BY DEF TypeOK
<1>3. \A d \in 0..day : CreditsOf(real(d)) <= PremiumCredits /\ Cardinality(daily(d)) <= 1
  BY <1>1, <1>2 DEF Limits, PremiumLimit, DailyLimit
<1>4. /\ CreditsOf(charged) <= FreeCredits
      /\ \A i, j \in charged :
            i # j => SubjectsOf[exams[i].scope] \cap SubjectsOf[exams[j].scope] = {}
  BY <1>1 DEF Limits, FreeLimits
<1> QED
  BY <1>3, <1>4, SMTT(30) DEF LimitsExcused, OnTime

\* The credits of a set of rows that keep their scopes.
LEMMA SameCost ==
  ASSUME NEW S, NEW T, T = S, \A i \in S : exams'[i].scope = exams[i].scope
  PROVE  Cardinality(PairsIn(T, exams')) = CreditsOf(S)
BY PairsSame DEF CreditsOf, PairsIn

LEMMA CostIs == \A S : CreditsOf(S) = Cardinality(PairsIn(S, exams))
BY DEF CreditsOf, PairsIn

LEMMA SameLimits ==
  ASSUME TypeOK, SameRows
  PROVE  /\ \A d : RealCost(d)' = RealCost(d) /\ DailyOn(d)' = DailyOn(d)
         /\ Limits /\ resetAt' = resetAt => Limits'
<1>1. Ids' = Ids /\ \A i \in Ids : Fixed(exams[i], exams'[i])
  BY SameRowsGrow DEF SameRows
<1>2. \A d : RealOn(d)' = RealOn(d) /\ DailyOn(d)' = DailyOn(d)
  BY <1>1 DEF RealOn, DailyOn, Fixed, Retake
<1>3. ASSUME NEW d PROVE RealCost(d)' = RealCost(d)
  <2>1. PairsIn(RealOn(d)', exams') = PairsIn(RealOn(d), exams)
    BY <1>1, <1>2 DEF PairsIn, RealOn, Fixed
  <2> QED
    BY <2>1 DEF RealCost, CreditsOf, PairsIn
<1>4. ASSUME Limits, resetAt' = resetAt PROVE Limits'
  <2>1. OnTime' = OnTime
    BY <1>1 DEF OnTime, Fixed, Retake
  <2>2. FreeOnTime' = FreeOnTime /\ FreeOnTime \subseteq Ids
    BY <1>1, <1>4, <2>1 DEF FreeOnTime, OnTime, Fixed
  <2>3. \A d : PremiumOn(d)' = PremiumOn(d) /\ OneOf(d)' = OneOf(d) /\ PremiumOn(d) \subseteq Ids
    BY <1>1, <2>1 DEF PremiumOn, OneOf, OnTime, Fixed
  <2>4. PairsIn(FreeOnTime', exams') = PairsIn(FreeOnTime, exams)
    BY <1>1, <2>2 DEF PairsIn, Fixed
  <2>5. \A d : PairsIn(PremiumOn(d)', exams') = PairsIn(PremiumOn(d), exams)
    BY <1>1, <2>3 DEF PairsIn, Fixed
  <2>6. FreeLimits'
    <3>1. CreditsOf(FreeOnTime)' = CreditsOf(FreeOnTime)
      BY <2>4 DEF CreditsOf, PairsIn
    <3> QED
      BY <1>1, <1>4, <2>2, <3>1 DEF FreeLimits, Limits, Fixed
  <2>7. ASSUME NEW d \in Nat PROVE PremiumLimit(d)' /\ DailyLimit(d)'
    <3>1. CreditsOf(PremiumOn(d))' = CreditsOf(PremiumOn(d))
      BY <2>5 DEF CreditsOf, PairsIn
    <3> QED
      BY <1>4, <2>3, <3>1 DEF Limits, PremiumLimit, DailyLimit
  <2> QED
    BY <2>6, <2>7 DEF Limits
<1> QED
  BY <1>2, <1>3, <1>4

\* What a step leaves of its request.
Kept(q, p) ==
    /\ p.op = q.op /\ p.scope = q.scope /\ p.free = q.free /\ p.overtaken = q.overtaken

Quiet(p) ==
    /\ p.pc \notin {"load", "number", "insert"}
    /\ p.op \in {"daily", "retake"} => ~p.free

LEMMA IdleQuiet == Quiet(Idle)
BY DEF Quiet, Idle

LEMMA QuietChecked == ASSUME NEW r \in Requests, Quiet(req'[r]) PROVE Checked(r)'
BY DEF Quiet, Checked, StartHolds, DailyHolds

LEMMA OthersMove ==
  ASSUME TypeOK, NEW r \in Requests, Step(r), ~CreateExam(r), NEW s \in Requests \ {r}
  PROVE  req'[s] = req[s]
<1>1. CASE FindSession(r) \/ ForceAbandon(r) \/ ResumeSession(r) \/ CheckEligibility(r)
  BY <1>1 DEF FindSession, ForceAbandon, ResumeSession, CheckEligibility, NotResumed, EndRequest,
     Goto, TypeOK
<1>2. CASE LoadUser(r) \/ CheckDailyChallenge(r) \/ TakeNumber(r) \/ InsertCollides(r)
  BY <1>2 DEF LoadUser, CheckDailyChallenge, TakeNumber, InsertCollides, EndRequest, TypeOK
<1>3. CASE SubmitExam(r) \/ CheckRetakeEligibility(r)
  BY <1>3 DEF SubmitExam, CheckRetakeEligibility, EndRequest, TypeOK
<1>4. CASE ResumeFails(r) \/ HealFails(r)
  BY <1>4 DEF ResumeFails, HealFails, NotResumed, EndRequest, Goto, TypeOK
<1> QED
  BY <1>1, <1>2, <1>3, <1>4 DEF Step

\* The steps that do not reach the transaction.
LEMMA QuietSteps ==
  ASSUME TypeOK, NEW r \in Requests, Checked(r),
         \/ FindSession(r) \/ ForceAbandon(r) \/ ResumeSession(r) \/ SubmitExam(r)
         \/ ResumeFails(r) \/ HealFails(r)
  PROVE  Checked(r)'
<1>0. req[r] \in RequestTypes
  BY DEF TypeOK
<1>1. CASE EndRequest(r)
  <2>1. req'[r] = Idle
    BY <1>1 DEF EndRequest, TypeOK
  <2> QED
    BY <2>1, IdleQuiet, QuietChecked
<1>2. CASE req' = [req EXCEPT ![r].pc = "check", ![r].exam = 0]
  <2>1. req'[r].pc = "check" /\ req'[r].op = req[r].op /\ req'[r].free = req[r].free
    BY <1>0, <1>2 DEF TypeOK, RequestTypes
  <2> QED
    BY <2>1, QuietChecked DEF Quiet, Checked
<1>3. ASSUME NEW pc \in {"heal", "unread"}, Goto(r, pc) PROVE Checked(r)'
  <2>1. req'[r].pc = pc /\ req'[r].op = req[r].op /\ req'[r].free = req[r].free
    BY <1>0, <1>3 DEF TypeOK, RequestTypes, Goto
  <2> QED
    BY <2>1, QuietChecked DEF Quiet, Checked
<1>4. ASSUME NEW i \in Ids, NEW pc \in {"expire", "resume"},
             req' = [req EXCEPT ![r].exam = i, ![r].pc = pc]
      PROVE  Checked(r)'
  <2>1. req'[r].pc = pc /\ req'[r].op = req[r].op /\ req'[r].free = req[r].free
    BY <1>0, <1>4 DEF TypeOK, RequestTypes
  <2> QED
    BY <1>4, <2>1, QuietChecked DEF Quiet, Checked
<1>5. CASE FindSession(r)
  <2>1. \/ NotResumed(r)
        \/ \E i \in Ids : req' = [req EXCEPT ![r].exam = i,
                                             ![r].pc = IF Overdue(exams[i]) THEN "expire" ELSE "resume"]
    BY <1>5 DEF FindSession, Resumable
  <2>2. ASSUME NEW i \in Ids,
               req' = [req EXCEPT ![r].exam = i,
                                  ![r].pc = IF Overdue(exams[i]) THEN "expire" ELSE "resume"]
        PROVE  Checked(r)'
    <3> DEFINE pc == IF Overdue(exams[i]) THEN "expire" ELSE "resume"
    <3>1. pc \in {"expire", "resume"} /\ req' = [req EXCEPT ![r].exam = i, ![r].pc = pc]
      BY <2>2
    <3> HIDE DEF pc
    <3> QED
      BY <1>4, <3>1
  <2> QED
    BY <1>1, <1>2, <2>1, <2>2 DEF NotResumed
<1> QED
  BY <1>1, <1>2, <1>3, <1>5 DEF ForceAbandon, ResumeSession, SubmitExam, ResumeFails, HealFails,
     NotResumed

\* What the checks read has not changed.
LEMMA SameChecks ==
  ASSUME UNCHANGED <<exams, used, taken>>
  PROVE  /\ \A d, s : RealOK(d, s)' <=> RealOK(d, s)
         /\ \A s : FreeOK(s)' <=> FreeOK(s)
         /\ \A d : DailyOn(d)' = DailyOn(d)
<1>1. \A d : RealOn(d)' = RealOn(d) /\ DailyOn(d)' = DailyOn(d)
  BY DEF RealOn, DailyOn, Ids
<1>2. \A d : RealCost(d)' = RealCost(d)
  BY <1>1 DEF RealCost, CreditsOf
<1> QED
  BY <1>1, <1>2 DEF RealOK, FreeOK

LEMMA EligibilityChecked ==
  ASSUME TypeOK, NEW r \in Requests, Checked(r), CheckEligibility(r) PROVE Checked(r)'
<1>0. req[r] \in RequestTypes /\ UNCHANGED <<exams, used, taken, premium, day>>
  BY DEF TypeOK, CheckEligibility, user
<1>1. CASE EndRequest(r)
  <2>1. req'[r] = Idle
    BY <1>1 DEF EndRequest, TypeOK
  <2> QED
    BY <2>1, IdleQuiet, QuietChecked
<1>2. CASE Eligible(req[r].scope) /\ Goto(r, "load")
  <2>1. req'[r].pc = "load" /\ Kept(req[r], req'[r]) /\ req[r].op = "start"
    BY <1>0, <1>2 DEF TypeOK, RequestTypes, Goto, Kept, CheckEligibility
  <2>2. RealOn(day) = RealToday
    BY DEF RealOn, RealToday
  <2>3. IF premium THEN RealOK(day, req[r].scope) ELSE FreeOK(req[r].scope)
    BY <1>2, <2>2 DEF Eligible, RealOK, RealCost, FreeOK
  <2> QED
    BY <1>0, <2>1, <2>3, SameChecks DEF Checked, StartHolds, DailyHolds, Kept
<1> QED
  BY <1>1, <1>2 DEF CheckEligibility

LEMMA LoadChecked ==
  ASSUME Inv, NEW r \in Requests, Checked(r), LoadUser(r) PROVE Checked(r)'
<1>0. req[r] \in RequestTypes /\ UNCHANGED <<exams, used, taken>> /\ req[r].op = "start"
  BY DEF Inv, TypeOK, LoadUser, user, RequestOK, OpHolds
<1>1. /\ req'[r].pc = "number" /\ req'[r].op = "start" /\ req'[r].scope = req[r].scope
      /\ req'[r].free = ~premium /\ req'[r].day = day /\ req'[r].overtaken = req[r].overtaken
  BY <1>0 DEF Inv, TypeOK, RequestTypes, LoadUser
<1>2. ~req[r].overtaken => IF premium THEN RealOK(day, req[r].scope) ELSE FreeOK(req[r].scope)
  BY <1>0 DEF LoadUser, Checked, StartHolds
<1> QED
  BY <1>0, <1>1, <1>2, SameChecks DEF Checked, StartHolds, DailyHolds

LEMMA DailyChecked ==
  ASSUME TypeOK, NEW r \in Requests, Checked(r), CheckDailyChallenge(r) PROVE Checked(r)'
<1>0. req[r] \in RequestTypes /\ UNCHANGED <<exams, used, taken>>
  BY DEF TypeOK, CheckDailyChallenge, user
<1>1. CASE EndRequest(r)
  <2>1. req'[r] = Idle
    BY <1>1 DEF EndRequest, TypeOK
  <2> QED
    BY <2>1, IdleQuiet, QuietChecked
<1>2. CASE ~AttemptedToday /\ req' = [req EXCEPT ![r].pc = "number", ![r].day = day]
  <2>1. req'[r].pc = "number" /\ req'[r].day = day /\ Kept(req[r], req'[r]) /\ req[r].op = "daily"
    BY <1>0, <1>2 DEF TypeOK, RequestTypes, Kept, CheckDailyChallenge
  <2>2. DailyOn(day) = {}
    BY <1>2 DEF DailyOn, AttemptedToday
  <2> QED
    BY <1>0, <2>1, <2>2, SameChecks DEF Checked, StartHolds, DailyHolds, Kept
<1> QED
  BY <1>1, <1>2 DEF CheckDailyChallenge

LEMMA NumberChecked ==
  ASSUME TypeOK, NEW r \in Requests, Checked(r), TakeNumber(r) PROVE Checked(r)'
<1>0. req[r] \in RequestTypes /\ UNCHANGED <<exams, used, taken>> /\ req[r].pc = "number"
  BY DEF TypeOK, TakeNumber, user
<1>1. req'[r].pc = "insert" /\ req'[r].day = req[r].day /\ Kept(req[r], req'[r])
  BY <1>0 DEF TypeOK, RequestTypes, Kept, TakeNumber
<1> QED
  BY <1>0, <1>1, SameChecks DEF Checked, StartHolds, DailyHolds, Kept

LEMMA CollisionChecked ==
  ASSUME TypeOK, NEW r \in Requests, Checked(r), InsertCollides(r) PROVE Checked(r)'
<1>0. req[r] \in RequestTypes /\ UNCHANGED <<exams, used, taken>> /\ req[r].pc = "insert"
  BY DEF TypeOK, InsertCollides, user
<1>1. CASE EndRequest(r)
  <2>1. req'[r] = Idle
    BY <1>1 DEF EndRequest, TypeOK
  <2> QED
    BY <2>1, IdleQuiet, QuietChecked
<1>2. CASE req[r].op = "daily" /\ req' = [req EXCEPT ![r].pc = "number", ![r].tries = @ + 1]
  <2>1. req'[r].pc = "number" /\ req'[r].day = req[r].day /\ Kept(req[r], req'[r])
    BY <1>0, <1>2 DEF TypeOK, RequestTypes, Kept
  <2> QED
    BY <1>0, <1>2, <2>1, SameChecks DEF Checked, StartHolds, DailyHolds, Kept
<1>3. CASE req' = [req EXCEPT ![r].pc = "find", ![r].again = TRUE]
  <2>1. req'[r].pc = "find" /\ Kept(req[r], req'[r])
    BY <1>0, <1>3 DEF TypeOK, RequestTypes, Kept
  <2> QED
    BY <2>1, QuietChecked DEF Checked, Quiet, Kept
<1> QED
  BY <1>1, <1>2, <1>3 DEF InsertCollides

LEMMA RetakeChecked ==
  ASSUME Inv, NEW r \in Requests, Checked(r), CheckRetakeEligibility(r) PROVE Checked(r)'
<1>0. req[r] \in RequestTypes /\ req[r].op = "retake"
  BY DEF Inv, TypeOK, CheckRetakeEligibility, RequestOK, OpHolds
<1>1. CASE EndRequest(r)
  <2>1. req'[r] = Idle
    BY <1>1 DEF EndRequest, TypeOK, Inv
  <2> QED
    BY <2>1, IdleQuiet, QuietChecked
<1>2. CASE req' = [req EXCEPT ![r].pc = "number",
                              ![r].attempt = Cardinality(RetakesOf(req[r].original)) + 2,
                              ![r].day = day]
  <2>1. Kept(req[r], req'[r])
    BY <1>0, <1>2 DEF Inv, TypeOK, RequestTypes, Kept
  <2> QED
    BY <1>0, <2>1 DEF Checked, StartHolds, DailyHolds, Kept
<1> QED
  BY <1>1, <1>2 DEF CheckRetakeEligibility

LEMMA ArrivalChecked ==
  ASSUME TypeOK, NEW r \in Requests, Arrival(r)
  PROVE  Checked(r)' /\ \A s \in Requests \ {r} : req'[s] = req[s]
<1>1. ASSUME NEW i, NEW op, NEW pc \in {"submit", "abandon"}, Names(r, op, pc, i)
      PROVE  Checked(r)' /\ \A s \in Requests \ {r} : req'[s] = req[s]
  <2>1. /\ req'[r].pc = pc /\ req'[r].free = FALSE
        /\ \A s \in Requests \ {r} : req'[s] = req[s]
    BY <1>1 DEF Names, Idle, TypeOK
  <2> QED
    BY <1>1, <2>1, QuietChecked DEF Quiet
<1>2. ASSUME NEW s \in Scopes, RequestStart(r, s)
      PROVE  Checked(r)' /\ \A x \in Requests \ {r} : req'[x] = req[x]
  <2>1. /\ req'[r].pc = "find" /\ req'[r].free = FALSE
        /\ \A x \in Requests \ {r} : req'[x] = req[x]
    BY <1>2 DEF RequestStart, Idle, TypeOK
  <2> QED
    BY <2>1, QuietChecked DEF Quiet
<1>3. ASSUME NEW i \in Ids, RequestRetake(r, i)
      PROVE  Checked(r)' /\ \A s \in Requests \ {r} : req'[s] = req[s]
  <2>1. /\ req'[r].pc = "retake" /\ req'[r].free = FALSE
        /\ \A x \in Requests \ {r} : req'[x] = req[x]
    BY <1>3 DEF RequestRetake, Idle, TypeOK
  <2> QED
    BY <2>1, QuietChecked DEF Quiet
<1> QED
  BY <1>1, <1>2, <1>3 DEF Arrival, RequestSubmit, RequestAbandon, OpenExam

\* A step of another request, and one of a user, an admin or the clock.
LEMMA OthersChecked ==
  ASSUME TypeOK, SameRows, UNCHANGED <<used, taken, premium, day>>, NEW s \in Requests, Checked(s),
         req'[s] = req[s]
  PROVE  Checked(s)'
<1>1. \A d : RealCost(d)' = RealCost(d) /\ DailyOn(d)' = DailyOn(d)
  BY SameLimits
<1>2. \A d, x : RealOK(d, x)' <=> RealOK(d, x)
  BY <1>1 DEF RealOK
<1>3. \A x : FreeOK(x)' <=> FreeOK(x)
  BY DEF FreeOK
<1> QED
  BY <1>1, <1>2, <1>3 DEF Checked, StartHolds, DailyHolds

LEMMA CostType == ASSUME TypeOK PROVE \A S \in SUBSET Ids : CreditsOf(S) \in Nat
<1> SUFFICES ASSUME NEW S \in SUBSET Ids PROVE CreditsOf(S) \in Nat
  OBVIOUS
<1>1. Cardinality(PairsIn(S, exams)) \in Nat
  BY SetsFinite, PairsFinite
<1> QED
  BY <1>1, CostIs

LEMMA NoCost == CreditsOf({}) = 0
<1>1. PairsIn({}, exams) = {}
  BY DEF PairsIn
<1> QED
  BY <1>1, CostIs, FS_EmptySet

LEMMA SizeType == ASSUME NEW s \in Scopes PROVE Size(s) \in Nat
<1>1. IsFiniteSet(SubjectsOf[s])
  BY FS_Subset
<1> QED
  BY <1>1, FS_CardinalityType DEF Size

LEMMA ResetChecked ==
  ASSUME Inv, ResetFreeExamCredits, NEW s \in Requests, Checked(s) PROVE Checked(s)'
<1> TypeOK
  BY DEF Inv
<1>1. /\ UNCHANGED <<exams, premium, day, req>> /\ used' = 0
      /\ \A x \in Subjects : taken'[x] = 0
  BY DEF ResetFreeExamCredits
<1>2. SameRows
  BY <1>1, RowsUnchanged
<1>3. \A d, x : (RealOK(d, x)' <=> RealOK(d, x)) /\ DailyOn(d)' = DailyOn(d)
  BY <1>2, SameLimits DEF RealOK
<1>4. ASSUME NEW x \in Scopes, FreeOK(x) PROVE FreeOK(x)'
  <2>1. Size(x) \in Nat /\ used \in Nat /\ SubjectsOf[x] \subseteq Subjects
    BY SizeType DEF TypeOK
  <2> QED
    BY <1>1, <1>4, <2>1 DEF FreeOK
<1>5. req[s].scope \in Scopes
  BY DEF TypeOK, RequestTypes
<1> QED
  BY <1>1, <1>3, <1>4, <1>5 DEF Checked, StartHolds, DailyHolds

LEMMA ResetLimits == ASSUME Inv, Limits, ResetFreeExamCredits PROVE Limits'
<1> TypeOK
  BY DEF Inv
<1>1. exams' = exams /\ resetAt' = Len(exams)
  BY DEF ResetFreeExamCredits
<1>2. FreeOnTime' = {}
  BY <1>1, RowType DEF FreeOnTime, OnTime, Ids
<1>3. \A d : PremiumOn(d)' = PremiumOn(d) /\ OneOf(d)' = OneOf(d)
  BY <1>1 DEF PremiumOn, OneOf, OnTime, Ids
<1>4. \A d : CreditsOf(PremiumOn(d))' = CreditsOf(PremiumOn(d))
  BY <1>1, <1>3 DEF CreditsOf
<1>5. CreditsOf(FreeOnTime)' = 0
  BY <1>1, <1>2, NoCost DEF CreditsOf
<1> QED
  BY <1>2, <1>3, <1>4, <1>5 DEF Limits, FreeLimits, PremiumLimit, DailyLimit

LEMMA PremiumChecked ==
  ASSUME TypeOK, ChangePremium, NEW s \in Requests, Checked(s) PROVE Checked(s)'
<1>1. UNCHANGED <<exams, used, taken, day>> /\ req' = Overtaken(req)
  BY DEF ChangePremium
<1>2. CASE req[s].op \in {"start", "daily"} /\ req[s].pc \in {"load", "number", "insert"}
  <2>1. req'[s] = [req[s] EXCEPT !.overtaken = TRUE] /\ req[s] \in RequestTypes
    BY <1>1, <1>2 DEF Overtaken, TypeOK
  <2>2. req'[s].overtaken /\ req'[s].op = req[s].op /\ req'[s].free = req[s].free
    BY <2>1 DEF RequestTypes
  <2> QED
    BY <2>2 DEF Checked, StartHolds, DailyHolds
<1>3. CASE ~(req[s].op \in {"start", "daily"} /\ req[s].pc \in {"load", "number", "insert"})
  <2>1. req'[s] = req[s]
    BY <1>1, <1>3 DEF Overtaken
  <2> QED
    BY <1>3, <2>1 DEF Checked, StartHolds, DailyHolds
<1> QED
  BY <1>2, <1>3

\* At midnight the day has no exams yet.
LEMMA MidnightChecked ==
  ASSUME Inv, Midnight, NEW s \in Requests, Checked(s) PROVE Checked(s)'
<1> TypeOK
  BY DEF Inv
<1>1. UNCHANGED <<exams, used, taken, premium, req>> /\ day' = day + 1
  BY DEF Midnight
<1>2. ASSUME NEW x \in Scopes, RealOK(day, x) PROVE RealOK(day + 1, x)
  <2>1. RealOn(day + 1) = {}
    <3>1. \A i \in Ids : exams[i].day <= day /\ exams[i].day \in Nat /\ day \in Nat
      BY RowType DEF Inv, RowsOK, Exam, TypeOK
    <3> QED
      BY <3>1 DEF RealOn
  <2>2. RealCost(day + 1) = 0
    BY <2>1, NoCost DEF RealCost
  <2>3. RealOn(day) \in SUBSET Ids
    BY DEF RealOn
  <2>4. RealCost(day) \in Nat /\ Size(x) \in Nat
    BY <2>3, CostType, SizeType DEF RealCost
  <2> QED
    BY <1>2, <2>2, <2>4 DEF RealOK
<1>3. req[s].scope \in Scopes
  BY DEF TypeOK, RequestTypes
<1>4. CASE req[s].op = "start" /\ ~req[s].overtaken /\ req[s].pc = "load" /\ premium
  <2>1. RealOK(day + 1, req[s].scope)
    BY <1>2, <1>3, <1>4 DEF Checked, StartHolds
  <2> QED
    BY <1>1, <1>4, <2>1, SameChecks DEF Checked, StartHolds, DailyHolds
<1>5. CASE ~(req[s].op = "start" /\ ~req[s].overtaken /\ req[s].pc = "load" /\ premium)
  BY <1>1, <1>5, SameChecks DEF Checked, StartHolds, DailyHolds
<1> QED
  BY <1>4, <1>5

LEMMA CreateChecked ==
  ASSUME Inv, NEW r \in Requests, CreateExam(r), NEW s \in Requests, Checked(r), Checked(s)
  PROVE  Checked(s)'
<1> TypeOK
  BY DEF Inv
<1>1. req'[r] = Idle /\ \A x \in Requests \ {r} : SameRequest(req[x], req'[x])
  BY CreateRequests
<1>2. CASE s = r
  BY <1>1, <1>2, IdleQuiet, QuietChecked
<1>3. CASE s # r /\ req[r].op # "retake"
  <2> DEFINE ended == [req EXCEPT ![r] = Idle]
  <2>1. req'[s] = Overtaken(ended)[s] /\ ended[s] = req[s] /\ req[s] \in RequestTypes
    BY <1>3 DEF CreateExam, TypeOK
  <2> HIDE DEF ended
  <2>2. CASE req[s].op \in {"start", "daily"} /\ req[s].pc \in {"load", "number", "insert"}
    <3>1. req'[s] = [req[s] EXCEPT !.overtaken = TRUE]
      BY <2>1, <2>2 DEF Overtaken
    <3>2. req'[s].overtaken /\ req'[s].op = req[s].op /\ req'[s].free = req[s].free
      BY <2>1, <3>1 DEF RequestTypes
    <3> QED
      BY <3>2 DEF Checked, StartHolds, DailyHolds
  <2>3. CASE ~(req[s].op \in {"start", "daily"} /\ req[s].pc \in {"load", "number", "insert"})
    <3>1. req'[s] = req[s]
      BY <2>1, <2>3 DEF Overtaken
    <3> QED
      BY <2>3, <3>1 DEF Checked, StartHolds, DailyHolds
  <2> QED
    BY <2>2, <2>3
<1>4. CASE s # r /\ req[r].op = "retake"
  <2>1. /\ req'[s] = req[s] /\ ~req[r].free
        /\ req[r].original \in Ids
    BY <1>4 DEF CreateExam, TypeOK, Checked, Inv, RequestOK, OpHolds
  <2>2. UNCHANGED <<used, taken, premium, day>>
    BY <2>1 DEF CreateExam, ChargeCredits
  <2>3. /\ Ids' = Ids \cup {Len(exams) + 1}
        /\ \A i \in Ids : exams'[i] = exams[i]
        /\ exams'[Len(exams) + 1].original # 0
    <3>1. req[r].original # 0
      BY <2>1, RowType
    <3> QED
      BY <3>1, CreateCharge, NewExamFacts
  <2>4. \A d : RealOn(d)' = RealOn(d) /\ DailyOn(d)' = DailyOn(d)
    BY <2>3 DEF RealOn, DailyOn, Retake
  <2>5. \A d : PairsIn(RealOn(d)', exams') = PairsIn(RealOn(d), exams)
    BY <2>3, <2>4 DEF PairsIn, RealOn
  <2>6. \A d : RealCost(d)' = RealCost(d)
    BY <2>5 DEF RealCost, CreditsOf, PairsIn
  <2>7. \A d, x : (RealOK(d, x)' <=> RealOK(d, x)) /\ (FreeOK(x)' <=> FreeOK(x))
    BY <2>2, <2>6 DEF RealOK, FreeOK
  <2> QED
    BY <2>1, <2>2, <2>4, <2>7 DEF Checked, StartHolds, DailyHolds
<1> QED
  BY <1>2, <1>3, <1>4

\* An exam created late, or again, is none the limits are about.
LEMMA CreateExcused ==
  ASSUME Inv, Limits, NEW r \in Requests, CreateExam(r),
         req[r].overtaken \/ req[r].original # 0
  PROVE  Limits'
<1> DEFINE n == Len(exams) + 1
<1> TypeOK
  BY DEF Inv
<1>1. /\ n \notin Ids /\ Ids' = Ids \cup {n} /\ resetAt' = resetAt
      /\ \A i \in Ids : exams'[i] = exams[i]
      /\ exams'[n].late = req[r].overtaken /\ exams'[n].original = req[r].original
  BY CreateCharge, NewExamFacts
<1> HIDE DEF n
<1>2. OnTime' = OnTime /\ OnTime \subseteq Ids
  BY <1>1 DEF OnTime, Retake
<1>3. FreeOnTime' = FreeOnTime /\ FreeOnTime \subseteq Ids
  BY <1>1, <1>2 DEF FreeOnTime
<1>4. \A d : PremiumOn(d)' = PremiumOn(d) /\ OneOf(d)' = OneOf(d) /\ PremiumOn(d) \subseteq Ids
  BY <1>1, <1>2 DEF PremiumOn, OneOf
<1>5. PairsIn(FreeOnTime', exams') = PairsIn(FreeOnTime, exams)
  BY <1>1, <1>3 DEF PairsIn
<1>6. \A d : PairsIn(PremiumOn(d)', exams') = PairsIn(PremiumOn(d), exams)
  BY <1>1, <1>4 DEF PairsIn
<1>7. CreditsOf(FreeOnTime)' = CreditsOf(FreeOnTime)
  BY <1>5 DEF CreditsOf, PairsIn
<1>8. \A d : CreditsOf(PremiumOn(d))' = CreditsOf(PremiumOn(d))
  BY <1>6 DEF CreditsOf, PairsIn
<1>9. FreeLimits'
  BY <1>1, <1>3, <1>7 DEF Limits, FreeLimits
<1> QED
  BY <1>4, <1>8, <1>9 DEF Limits, PremiumLimit, DailyLimit

\* One that is on time passed its check, and the check still holds.
LEMMA CreateOnTime ==
  ASSUME Inv, CreditsMatchExams, Limits, NEW r \in Requests, Checked(r), CreateExam(r),
         ~req[r].overtaken, req[r].original = 0
  PROVE  Limits'
<1> DEFINE n == Len(exams) + 1
           q == req[r]
<1> TypeOK
  BY DEF Inv
<1>1. /\ n \notin Ids /\ Ids' = Ids \cup {n} /\ resetAt' = resetAt /\ n > resetAt
      /\ \A i \in Ids : exams'[i] = exams[i]
      /\ exams'[n].late = q.overtaken /\ exams'[n].original = q.original
      /\ exams'[n].scope = q.scope /\ exams'[n].free = q.free /\ exams'[n].day = q.day
      /\ q.scope \in Scopes /\ q.free \in BOOLEAN /\ q.day \in Nat
  <2>1. q \in RequestTypes
    BY DEF TypeOK
  <2>2. q.scope \in Scopes /\ q.free \in BOOLEAN /\ q.day \in Nat
    BY <2>1 DEF RequestTypes
  <2> HIDE DEF q
  <2> QED
    BY <2>2, CreateCharge, NewExamFacts DEF q
<1>2. /\ q.op \in {"start", "daily"}
      /\ q.op = "start" => q.scope \notin Daily
      /\ q.op = "daily" => q.scope \in Daily /\ ~q.free
      /\ q.pc = "insert"
  <2>1. q.op = "retake" => q.original \in 1..Len(exams)
    BY RowType DEF Inv, RequestOK, OpHolds
  <2> QED
    BY <2>1, RowType DEF CreateExam, Inv, RequestOK, OpHolds, Checked
<1> HIDE DEF n, q
<1>3. OnTime' = OnTime \cup {n} /\ OnTime \subseteq Ids
  BY <1>1 DEF OnTime, Retake, q
<1>4. /\ FreeOnTime' = (IF q.free THEN FreeOnTime \cup {n} ELSE FreeOnTime)
      /\ FreeOnTime \subseteq Ids
  <2>1. FreeOnTime' = {i \in OnTime \cup {n} : exams'[i].free /\ i > resetAt}
    BY <1>1, <1>3 DEF FreeOnTime
  <2>2. CASE q.free
    BY <1>1, <1>3, <2>1, <2>2 DEF FreeOnTime
  <2>3. CASE ~q.free
    BY <1>1, <1>3, <2>1, <2>3 DEF FreeOnTime
  <2> QED
    BY <1>3, <2>2, <2>3 DEF FreeOnTime
<1>5. ASSUME NEW d
      PROVE  /\ PremiumOn(d)' = (IF d = q.day /\ q.scope \notin Daily /\ ~q.free
                                 THEN PremiumOn(d) \cup {n} ELSE PremiumOn(d))
             /\ OneOf(d)' = (IF d = q.day /\ q.scope \in Daily
                             THEN OneOf(d) \cup {n} ELSE OneOf(d))
             /\ PremiumOn(d) \subseteq Ids
  <2>1. /\ PremiumOn(d)' = {i \in OnTime \cup {n} : exams'[i].day = d /\ exams'[i].scope \notin Daily
                                                     /\ ~exams'[i].free}
        /\ OneOf(d)' = {i \in OnTime \cup {n} : exams'[i].day = d /\ exams'[i].scope \in Daily}
    BY <1>3 DEF PremiumOn, OneOf
  <2> QED
    BY <1>1, <1>3, <2>1 DEF PremiumOn, OneOf
<1>6. ASSUME NEW S \in SUBSET Ids
      PROVE  /\ CreditsOf(S) \in Nat
             /\ Cardinality(PairsIn(S, exams')) = CreditsOf(S)
             /\ Cardinality(PairsIn(S \cup {n}, exams')) = CreditsOf(S) + Size(q.scope)
  <2>1. IsFiniteSet(S) /\ n \notin S /\ \A i \in S : exams'[i].scope = exams[i].scope
    BY <1>1, SetsFinite
  <2>2. PairsIn(S, exams') = PairsIn(S, exams)
    BY <2>1, PairsSame
  <2>3. Cardinality(PairsIn(S \cup {n}, exams')) = Cardinality(PairsIn(S, exams)) + Size(q.scope)
    BY <1>1, <2>1, PairsGrow
  <2> QED
    BY <2>2, <2>3, CostType, CostIs
<1>7. Size(q.scope) \in Nat
  BY <1>1, SizeType
<1>8. CreditsOf(FreeOnTime)' = Cardinality(PairsIn(FreeOnTime', exams'))
  BY DEF CreditsOf, PairsIn
<1>9. FreeLimits'
  <2>1. CASE ~q.free
    BY <1>1, <1>4, <1>6, <1>8, <2>1 DEF Limits, FreeLimits
  <2>2. CASE q.free
    <3>1. FreeOK(q.scope)
      BY <1>2, <2>2 DEF Checked, StartHolds, q
    <3>2. FreeOnTime \subseteq Charged /\ Charged \subseteq Ids
      BY DEF FreeOnTime, OnTime, Charged
    <3>3. used = CreditsOf(Charged) /\ \A x \in Subjects : taken[x] = Cardinality(With(x))
      BY DEF CreditsMatchExams, Charged, With
    <3>4. CreditsOf(FreeOnTime) <= used /\ used \in Nat
      <4>1. IsFiniteSet(Charged)
        BY <3>2, SetsFinite
      <4> QED
        BY <3>2, <3>3, <4>1, PairsFinite, CostIs DEF TypeOK
    <3>5. CreditsOf(FreeOnTime)' = CreditsOf(FreeOnTime) + Size(q.scope)
      BY <1>4, <1>6, <1>8, <2>2
    <3>6. CreditsOf(FreeOnTime)' <= FreeCredits
      <4>1. CreditsOf(FreeOnTime) \in Nat
        BY <1>4, <1>6
      <4>2. used + Size(q.scope) <= FreeCredits
        BY <3>1 DEF FreeOK
      <4> QED
        BY <1>7, <3>4, <3>5, <4>1, <4>2
    <3>7. \A i \in FreeOnTime : SubjectsOf[exams[i].scope] \cap SubjectsOf[q.scope] = {}
      <4> SUFFICES ASSUME NEW i \in FreeOnTime,
                          NEW x \in SubjectsOf[exams[i].scope] \cap SubjectsOf[q.scope]
                   PROVE  FALSE
        OBVIOUS
      <4>1. x \in Subjects /\ taken[x] = 0
        BY <1>1, <3>1 DEF FreeOK
      <4>2. i \in With(x) /\ With(x) \in SUBSET Ids
        BY <3>2 DEF With
      <4>3. Cardinality(With(x)) = 0 /\ IsFiniteSet(With(x))
        BY <3>3, <4>1, <4>2, SetsFinite
      <4> QED
        BY <4>2, <4>3, FS_EmptySet
    <3>8. \A i, j \in FreeOnTime' :
            i # j => SubjectsOf[exams'[i].scope] \cap SubjectsOf[exams'[j].scope] = {}
      BY <1>1, <1>4, <2>2, <3>7 DEF Limits, FreeLimits
    <3> QED
      BY <3>6, <3>8 DEF FreeLimits
  <2> QED
    BY <1>1, <2>1, <2>2
<1>10. ASSUME NEW d \in Nat PROVE PremiumLimit(d)'
  <2>1. CreditsOf(PremiumOn(d))' = Cardinality(PairsIn(PremiumOn(d)', exams'))
    BY DEF CreditsOf, PairsIn
  <2>2. PremiumLimit(d)
    BY DEF Limits
  <2>3. CASE d = q.day /\ q.scope \notin Daily /\ ~q.free
    <3>1. RealOK(d, q.scope)
      BY <1>2, <2>3 DEF Checked, StartHolds, q
    <3>2. PremiumOn(d) \subseteq RealOn(d) /\ RealOn(d) \subseteq Ids
      BY DEF PremiumOn, OnTime, RealOn
    <3>3. IsFiniteSet(RealOn(d))
      BY <3>2, SetsFinite
    <3>4. CreditsOf(PremiumOn(d)) <= RealCost(d) /\ RealCost(d) \in Nat
      BY <3>2, <3>3, PairsFinite, CostIs DEF RealCost
    <3>5. CreditsOf(PremiumOn(d))' = CreditsOf(PremiumOn(d)) + Size(q.scope)
      BY <1>5, <1>6, <2>1, <2>3
    <3> QED
      <4>1. CreditsOf(PremiumOn(d)) \in Nat
        BY <1>5, <1>6
      <4>2. RealCost(d) + Size(q.scope) <= PremiumCredits
        BY <3>1 DEF RealOK
      <4>3. CreditsOf(PremiumOn(d))' <= PremiumCredits
        BY <1>7, <3>4, <3>5, <4>1, <4>2
      <4> QED
        BY <4>3 DEF PremiumLimit
  <2>4. CASE ~(d = q.day /\ q.scope \notin Daily /\ ~q.free)
    BY <1>5, <1>6, <2>1, <2>2, <2>4 DEF PremiumLimit
  <2> QED
    BY <2>3, <2>4
<1>11. ASSUME NEW d \in Nat PROVE DailyLimit(d)'
  <2>1. CASE d = q.day /\ q.scope \in Daily
    <3>1. DailyOn(d) = {}
      BY <1>2, <2>1 DEF Checked, DailyHolds, q
    <3>2. OneOf(d) = {}
      BY <3>1 DEF OneOf, OnTime, DailyOn
    <3>3. OneOf(d)' = {n}
      BY <1>5, <2>1, <3>2
    <3> QED
      <4>1. Cardinality({n}) = 1
        BY FS_Singleton
      <4>2. Cardinality(OneOf(d)') = 1
        BY <3>3, <4>1
      <4> QED
        BY <4>2 DEF DailyLimit
  <2>2. CASE ~(d = q.day /\ q.scope \in Daily)
    BY <1>5, <2>2 DEF Limits, DailyLimit
  <2> QED
    BY <2>1, <2>2
<1> QED
  BY <1>9, <1>10, <1>11 DEF Limits

Checks == Limits /\ \A r \in Requests : Checked(r)

LEMMA ChecksInit == Init => Checks
<1> SUFFICES ASSUME Init PROVE Checks
  OBVIOUS
<1>1. Ids = {}
  BY DEF Init, Ids
<1>2. FreeOnTime = {} /\ \A d : PremiumOn(d) = {} /\ OneOf(d) = {}
  BY <1>1 DEF FreeOnTime, PremiumOn, OneOf, OnTime
<1>3. Limits
  BY <1>2, NoCost, FS_EmptySet DEF Limits, FreeLimits, PremiumLimit, DailyLimit
<1>4. \A r \in Requests : Checked(r)
  BY DEF Init, Checked, StartHolds, DailyHolds, Idle
<1> QED
  BY <1>3, <1>4 DEF Checks

LEMMA StepChecks ==
  ASSUME Inv, Checks, NEW r \in Requests, Step(r), ~CreateExam(r) PROVE Checks'
<1> TypeOK
  BY DEF Inv
<1>1. SameRows /\ UNCHANGED <<used, taken, premium, resetAt, day>>
  BY StepRows DEF user
<1>2. Limits'
  BY <1>1, SameLimits DEF Checks
<1>3. Checked(r)'
  BY QuietSteps, EligibilityChecked, LoadChecked, DailyChecked, NumberChecked, CollisionChecked,
     RetakeChecked DEF Step, Checks
<1>4. ASSUME NEW s \in Requests \ {r} PROVE Checked(s)'
  BY <1>1, <1>4, OthersMove, OthersChecked DEF Checks
<1> QED
  BY <1>2, <1>3, <1>4 DEF Checks

LEMMA ArrivalChecks == ASSUME Inv, Checks, NEW r \in Requests, Arrival(r) PROVE Checks'
<1> TypeOK
  BY DEF Inv
<1>1. SameRows /\ UNCHANGED <<used, taken, premium, resetAt, day>>
  BY ArrivalRows DEF user
<1>2. Limits'
  BY <1>1, SameLimits DEF Checks
<1>3. ASSUME NEW s \in Requests \ {r} PROVE Checked(s)'
  BY <1>1, <1>3, ArrivalChecked, OthersChecked DEF Checks
<1> QED
  BY <1>2, <1>3, ArrivalChecked DEF Checks

LEMMA EnvironmentChecks == ASSUME Inv, Checks, Environment PROVE Checks'
<1> TypeOK
  BY DEF Inv
<1>1. ASSUME SameRows, UNCHANGED <<used, taken, premium, resetAt, day, req>> PROVE Checks'
  BY <1>1, SameLimits, OthersChecked DEF Checks
<1>2. ASSUME NEW i \in Ids, TimePasses(i) PROVE Checks'
  BY <1>1, <1>2, TimePassesRows DEF TimePasses, user
<1>3. CASE StaleExamCleanup
  BY <1>1, <1>3, AbandonedFacts DEF StaleExamCleanup, user
<1>4. CASE ResetFreeExamCredits
  BY <1>4, ResetChecked, ResetLimits DEF Checks
<1>5. CASE ChangePremium \/ Midnight
  <2>1. SameRows /\ resetAt' = resetAt
    BY <1>5, RowsUnchanged DEF ChangePremium, Midnight
  <2> QED
    BY <1>5, <2>1, SameLimits, PremiumChecked, MidnightChecked DEF Checks
<1> QED
  BY <1>2, <1>3, <1>4, <1>5 DEF Environment

LEMMA ChecksNext == ASSUME Inv, CreditsMatchExams, Checks, [Next]_vars PROVE Checks'
<1> TypeOK
  BY DEF Inv
<1>1. ASSUME NEW r \in Requests, CreateExam(r) PROVE Checks'
  <2>1. Limits'
    BY <1>1, CreateExcused, CreateOnTime DEF Checks
  <2> QED
    BY <1>1, <2>1, CreateChecked DEF Checks
<1>2. CASE UNCHANGED vars
  <2>1. SameRows /\ UNCHANGED <<used, taken, premium, resetAt, day, req>>
    BY <1>2, RowsUnchanged DEF vars, user
  <2> QED
    BY <2>1, SameLimits, OthersChecked DEF Checks
<1> QED
  BY <1>1, <1>2, StepChecks, ArrivalChecks, EnvironmentChecks DEF Next

\* The free credits and their different subjects, premium's subjects a day and the one
\* daily challenge (checkExamEligibility) are kept among the exams whose request nothing
\* overtook between its check and its insert.
THEOREM LimitsHoldOnTime == Spec => []LimitsExcused
<1>1. Spec => [](Inv /\ CreditsMatchExams)
  BY InvHolds, CreditsAreExams, PTL
<1>2. Inv /\ CreditsMatchExams /\ Checks /\ [Next]_vars => Checks'
  BY ChecksNext
<1>3. Inv /\ Checks => LimitsExcused
  BY LimitsEnough DEF Inv, Checks
<1> QED
  BY <1>1, <1>2, <1>3, ChecksInit, PTL DEF Spec
=============================================================================

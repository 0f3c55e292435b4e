---------------------------- MODULE ExamLifecycle ----------------------------
(***************************************************************************)
(* One user's solo exams and daily challenges: started, resumed, opened,   *)
(* submitted, retaken, abandoned, and swept when they are stale, by        *)
(* requests that overlap (two tabs, a phone that syncs, a retry).          *)
(*                                                                         *)
(* Every step of a request is a statement or a transaction at READ         *)
(* COMMITTED.  A transaction that takes a number and creates an exam is    *)
(* two steps, the read of the number and the insert with its commit: an    *)
(* insert waits for an uncommitted row it collides with, so whoever        *)
(* commits first wins, and everything else it writes appears with the row. *)
(*                                                                         *)
(* The limits are checked before that transaction, against rows another    *)
(* request may be about to add.  A row that was created after such a       *)
(* change carries the mark "late".                                         *)
(*                                                                         *)
(* The submission lock and the start rate limit live in a cache whose      *)
(* absence the code tolerates: neither is here.  Practice and mixed exams, *)
(* which have no limits, are not here either; duels are in Collaboration.  *)
(*                                                                         *)
(* An operator no action uses is a plausible mistake in the operator it    *)
(* precedes.                                                               *)
(***************************************************************************)
EXTENDS Integers, Sequences, FiniteSetsExt

CONSTANTS
    Requests,       \* slots for the requests in flight
    Subjects,
    Scopes,         \* nameScopeKeys: a type of exam and its subjects
    SubjectsOf,     \* the subjects of a scope
    Daily,          \* the scopes that are daily challenges
    Full,           \* the real exams with as many subjects as there can be
    Longest,        \* the scopes that last FULL_EXAM_DURATION_SECONDS
    Longer,         \* the scopes an institution configures to last longer
    FreeCredits,    \* FREE_TOTAL_SUBJECT_CREDITS
    PremiumCredits, \* premium's subjects a day
    MaxRetakes,     \* EXAM_CONFIG.MAX_RETAKES
    FreeRetakes,    \* freeFullRealTotalAttempts - 1
    DailyTries,     \* MAX_TX_RETRIES
    Ops,            \* what users, admins and jobs do
    MaxExams,       \* bound: rows
    MaxChanges      \* bound: midnights, resets of the credits, changes of premium

AllOps == {"start", "daily", "submit", "retake", "abandon", "open", "premium", "reset", "fail"}

ASSUME ScopesAssumption ==
    /\ Daily \subseteq Scopes
    /\ Full \subseteq Scopes \ Daily
    /\ SubjectsOf \in [Scopes -> SUBSET Subjects]
    /\ Scopes # {}
ASSUME CeilingAssumption ==
    Longest \subseteq Scopes \ Daily /\ Longer \subseteq Scopes \ (Daily \cup Longest)
ASSUME SubjectsAssumption == IsFiniteSet(Subjects)
ASSUME LimitsAssumption ==
    /\ FreeCredits \in Nat /\ PremiumCredits \in Nat
    /\ MaxRetakes \in Nat /\ FreeRetakes \in Nat
    /\ DailyTries \in Nat \ {0}
ASSUME OpsAssumption == Ops \subseteq AllOps
ASSUME BoundsAssumption == MaxExams \in Nat /\ MaxChanges \in Nat

VARIABLES
    exams,    \* the Exam rows, in the order of their ids
    used,     \* User.freeSubjectCreditsUsed
    taken,    \* User.freeSubjectsTaken, how often each subject is in it
    premium,  \* User.isPremium
    resetAt,  \* how many exams there were when an admin last reset the credits
    changes,  \* midnights, resets and changes of premium so far
    day,      \* today
    req       \* the requests in flight

user == <<used, taken, premium, resetAt, changes>>
vars == <<exams, user, day, req>>

ExamStatus == {"IN_PROGRESS", "COMPLETED", "ABANDONED"}

\* An exam in progress is within its time, or past it but still within the
\* grace of an offline submission, or past that too.
InTime  == 0
InGrace == 1
Expired == 2

Exam == [scope : Scopes, number : Nat, status : ExamStatus, original : Nat, attempt : Nat,
         limit : Nat, free : BOOLEAN, day : Nat, age : InTime..Expired, late : BOOLEAN]

PCs == {"idle", "find", "expire", "resume", "heal", "unread", "check", "load", "retake",
        "number", "insert", "submit", "abandon"}

RequestTypes ==
    [op : AllOps \cup {"none"}, pc : PCs, scope : Scopes, exam : Nat, original : Nat,
     attempt : Nat, number : Nat, limit : Nat, free : BOOLEAN, day : Nat, tries : Nat,
     again : BOOLEAN, overtaken : BOOLEAN]

Idle == [op |-> "none", pc |-> "idle", scope |-> CHOOSE s \in Scopes : TRUE, exam |-> 0,
         original |-> 0, attempt |-> 1, number |-> 0, limit |-> 0, free |-> FALSE, day |-> 0,
         tries |-> 0, again |-> FALSE, overtaken |-> FALSE]

Init ==
    /\ exams = <<>>
    /\ used = 0
    /\ taken = [s \in Subjects |-> 0]
    /\ premium \in BOOLEAN
    /\ resetAt = 0
    /\ changes = 0
    /\ day = 0
    /\ req = [r \in Requests |-> Idle]

Ids      == DOMAIN exams
Size(s)  == Cardinality(SubjectsOf[s])
Live(e)  == e.status = "IN_PROGRESS"
Retake(e) == e.original # 0

Arrives(r, op) == op \in Ops /\ req[r].pc = "idle"
Goto(r, pc)    == req' = [req EXCEPT ![r].pc = pc]
EndRequest(r)  == req' = [req EXCEPT ![r] = Idle]

\* What an exam's age was no longer matters when it has ended.
Ended(e, status) == [e EXCEPT !.status = status, !.age = InTime]

Abandoned(ids) ==
    [i \in Ids |-> IF i \in ids THEN Ended(exams[i], "ABANDONED") ELSE exams[i]]

(***************************************************************************)
(* Stale exams: past the offline grace.  The job and every start sweep     *)
(* them; both repeat the status in the update.                             *)
(***************************************************************************)
Stale == {i \in Ids : Live(exams[i]) /\ exams[i].age = Expired}

StaleExamCleanup ==
    /\ Stale # {}
    /\ exams' = Abandoned(Stale)
    /\ UNCHANGED <<user, day, req>>

(***************************************************************************)
(* startExam and startDailyChallenge.  First the user's stale exams are    *)
(* swept, then the scope is looked at.                                     *)
(***************************************************************************)
RequestStart(r, s) ==
    LET op == IF s \in Daily THEN "daily" ELSE "start" IN
    /\ Arrives(r, op)
    /\ exams' = Abandoned(Stale)
    /\ req' = [req EXCEPT ![r] = [Idle EXCEPT !.op = op, !.pc = "find", !.scope = s]]
    /\ UNCHANGED <<user, day>>

\* Without a session to resume: the checks, or the refusal of a start whose
\* insert collided.
NotResumed(r) ==
    IF req[r].again THEN EndRequest(r)
                    ELSE req' = [req EXCEPT ![r].pc = "check", ![r].exam = 0]

OverdueAlways(e) == Live(e)

Overdue(e) == e.age >= InGrace

\* The exams of the scope a start may resume: no retakes.
Resumable(s) == {i \in Ids : Live(exams[i]) /\ exams[i].scope = s /\ ~Retake(exams[i])}

\* The blanket expiry takes what is older than a full exam by default: an exam
\* of that length past its time, a shorter one some time after its grace, and
\* one configured to be longer whether its time is up or not.
PastCeiling(s, long) ==
    {i \in Resumable(s) : \/ s \in Longest \cup Longer /\ Overdue(exams[i])
                          \/ long /\ (s \in Longer \/ exams[i].age = Expired)}

FindSession(r) ==
    LET s == req[r].scope IN
    /\ req[r].pc = "find"
    /\ \E long \in BOOLEAN :
         LET found == Resumable(s) \ PastCeiling(s, long) IN
         /\ exams' = Abandoned(PastCeiling(s, long))
         /\ IF found = {}
            THEN NotResumed(r)
            ELSE \E i \in found :
                   req' = [req EXCEPT ![r].exam = i,
                                      ![r].pc = IF Overdue(exams[i]) THEN "expire"
                                                                     ELSE "resume"]
    /\ UNCHANGED <<user, day>>

\* getExamQuestions: an exam it cannot show is taken for a corrupted one.
ResumeSession(r) ==
    LET e == exams[req[r].exam] IN
    /\ req[r].pc = "resume"
    /\ IF Live(e) /\ ~Overdue(e) THEN EndRequest(r) ELSE Goto(r, "heal")
    /\ UNCHANGED <<exams, user, day>>

\* So is one it fails to read, whatever the error: a question that is gone, or
\* a database that did not answer.
ResumeFails(r) ==
    /\ "fail" \in Ops
    /\ req[r].pc = "resume"
    /\ Goto(r, "unread")
    /\ UNCHANGED <<exams, user, day>>

\* The updates that name the exam's id and nothing else.
ForceAbandon(r) ==
    /\ req[r].pc \in {"expire", "heal", "unread", "abandon"}
    /\ exams' = Abandoned({req[r].exam})
    /\ IF req[r].pc = "abandon" THEN EndRequest(r) ELSE NotResumed(r)
    /\ UNCHANGED <<user, day>>

\* The update of the self-healing fails: the start goes on all the same.
HealFails(r) ==
    /\ "fail" \in Ops
    /\ req[r].pc \in {"heal", "unread"}
    /\ NotResumed(r)
    /\ UNCHANGED <<exams, user, day>>

(***************************************************************************)
(* checkExamEligibility, and the check of the day's challenge.             *)
(***************************************************************************)
RealToday ==
    {i \in Ids : exams[i].scope \notin Daily /\ ~Retake(exams[i]) /\ exams[i].day = day}

\* The sum of the sizes: a credit for each subject of each exam.
CreditsOf(ids) ==
    Cardinality({c \in ids \X Subjects : c[2] \in SubjectsOf[exams[c[1]].scope]})

EligibleBySum(s) ==
    IF premium
    THEN CreditsOf(RealToday) + Size(s) <= PremiumCredits
    ELSE used + Size(s) <= FreeCredits

Eligible(s) ==
    IF premium
    THEN CreditsOf(RealToday) + Size(s) <= PremiumCredits
    ELSE /\ used + Size(s) <= FreeCredits
         /\ \A subject \in SubjectsOf[s] : taken[subject] = 0

CheckEligibility(r) ==
    /\ req[r].pc = "check"
    /\ req[r].op = "start"
    /\ IF Eligible(req[r].scope) THEN Goto(r, "load") ELSE EndRequest(r)
    /\ UNCHANGED <<exams, user, day>>

\* startExam reads isPremium a second time.
LoadUser(r) ==
    LET free == ~premium IN
    /\ req[r].pc = "load"
    /\ req' = [req EXCEPT ![r].pc = "number",
                          ![r].free = free,
                          ![r].limit = IF free /\ req[r].scope \in Full THEN FreeRetakes
                                                                        ELSE MaxRetakes,
                          ![r].day = day]
    /\ UNCHANGED <<exams, user, day>>

AttemptedToday == \E i \in Ids : exams[i].scope \in Daily /\ exams[i].day = day

CheckDailyChallenge(r) ==
    /\ req[r].pc = "check"
    /\ req[r].op = "daily"
    /\ IF AttemptedToday
       THEN EndRequest(r)
       ELSE req' = [req EXCEPT ![r].pc = "number", ![r].day = day]
    /\ UNCHANGED <<exams, user, day>>

(***************************************************************************)
(* The transaction that creates an exam.                                   *)
(***************************************************************************)
NextExamSessionNumber(s) ==
    Max({0} \cup {exams[i].number : i \in {j \in Ids : exams[j].scope = s}}) + 1

TakeNumber(r) ==
    /\ req[r].pc = "number"
    /\ req' = [req EXCEPT ![r].pc = "insert",
                          ![r].number = NextExamSessionNumber(req[r].scope)]
    /\ UNCHANGED <<exams, user, day>>

NewExam(q) ==
    [scope |-> q.scope, number |-> q.number, status |-> "IN_PROGRESS",
     original |-> q.original, attempt |-> q.attempt, limit |-> q.limit, free |-> q.free,
     day |-> q.day, age |-> InTime, late |-> q.overtaken]

\* The unique constraints: a scope's session numbers, an original's attempts,
\* and one exam in progress in a scope.
Collides(q) ==
    \E i \in Ids :
        \/ exams[i].scope = q.scope /\ (exams[i].number = q.number \/ Live(exams[i]))
        \/ q.original # 0 /\ exams[i].original = q.original /\ exams[i].attempt = q.attempt

ChargeCredits(r) ==
    LET s == req[r].scope IN
    IF req[r].free
    THEN /\ used' = used + Size(s)
         /\ taken' = [x \in Subjects |-> IF x \in SubjectsOf[s] THEN taken[x] + 1 ELSE taken[x]]
    ELSE UNCHANGED <<used, taken>>

\* What the checks of the requests in flight read has changed.
Overtaken(reqs) ==
    [q \in Requests |->
        IF reqs[q].op \in {"start", "daily"} /\ reqs[q].pc \in {"load", "number", "insert"}
        THEN [reqs[q] EXCEPT !.overtaken = TRUE]
        ELSE reqs[q]]

\* A free start pays for its subjects in the transaction that creates the exam.
CreateExam(r) ==
    LET ended == [req EXCEPT ![r] = Idle] IN
    /\ req[r].pc = "insert"
    /\ ~Collides(req[r])
    /\ exams' = Append(exams, NewExam(req[r]))
    /\ ChargeCredits(r)
    /\ req' = IF req[r].op = "retake" THEN ended ELSE Overtaken(ended)
    /\ UNCHANGED <<premium, resetAt, changes, day>>

CollisionCharged(r) ==
    /\ req[r].pc = "insert"
    /\ Collides(req[r])
    /\ req[r].op = "start"
    /\ ChargeCredits(r)
    /\ req' = [req EXCEPT ![r].pc = "find", ![r].again = TRUE]
    /\ UNCHANGED <<exams, premium, resetAt, changes, day>>

\* P2002: a daily challenge starts its transaction again, then it and a start
\* look for the session they collided with, once; a retake fails.
InsertCollides(r) ==
    /\ req[r].pc = "insert"
    /\ Collides(req[r])
    /\ \/ /\ req[r].op = "retake"
          /\ EndRequest(r)
       \/ /\ req[r].op = "daily"
          /\ req[r].tries + 1 < DailyTries
          /\ req' = [req EXCEPT ![r].pc = "number", ![r].tries = @ + 1]
       \/ /\ req[r].op = "daily" => req[r].tries + 1 = DailyTries
          /\ req[r].op # "retake"
          /\ req' = [req EXCEPT ![r].pc = "find", ![r].again = TRUE]
    /\ UNCHANGED <<exams, user, day>>

(***************************************************************************)
(* submitExam: the read and its checks, then the claim.  What the claim    *)
(* awards is in Collaboration.                                             *)
(***************************************************************************)
Names(r, op, pc, i) ==
    /\ Arrives(r, op)
    /\ req' = [req EXCEPT ![r] = [Idle EXCEPT !.op = op, !.pc = pc, !.exam = i]]

RequestSubmit(r, i) ==
    /\ Live(exams[i]) /\ exams[i].age # Expired
    /\ Names(r, "submit", "submit", i)
    /\ UNCHANGED <<exams, user, day>>

SubmitExam(r) ==
    LET i == req[r].exam IN
    /\ req[r].pc = "submit"
    /\ exams' = IF Live(exams[i]) THEN [exams EXCEPT ![i] = Ended(@, "COMPLETED")] ELSE exams
    /\ EndRequest(r)
    /\ UNCHANGED <<user, day>>

(***************************************************************************)
(* retakeExam: the original and the user are read, then the eligibility    *)
(* (checkRetakeEligibility), then the transaction.                         *)
(***************************************************************************)
OriginalOf(i) == IF Retake(exams[i]) THEN exams[i].original ELSE i

EffectiveMaxRetakes(o) == IF premium THEN exams[o].limit ELSE FreeRetakes

RequestRetake(r, i) ==
    LET o == OriginalOf(i) IN
    /\ Arrives(r, "retake")
    /\ premium \/ exams[o].scope \in Full
    /\ req' = [req EXCEPT ![r] = [Idle EXCEPT !.op = "retake", !.pc = "retake", !.exam = i,
                                             !.scope = exams[o].scope, !.original = o,
                                             !.limit = EffectiveMaxRetakes(o)]]
    /\ UNCHANGED <<exams, user, day>>

RetakesOf(o) == {i \in Ids : exams[i].original = o}

RetakesLeftAfterCompletion(q) ==
    q.limit - Cardinality({i \in RetakesOf(q.original) : exams[i].status = "COMPLETED"})

RetakesLeft(q) == q.limit - Cardinality(RetakesOf(q.original))

CheckRetakeEligibility(r) ==
    LET q == req[r] IN
    /\ q.pc = "retake"
    /\ IF exams[q.exam].status = "COMPLETED" /\ RetakesLeft(q) > 0
       THEN req' = [req EXCEPT ![r].pc = "number",
                               ![r].attempt = Cardinality(RetakesOf(q.original)) + 2,
                               ![r].day = day]
       ELSE EndRequest(r)
    /\ UNCHANGED <<exams, user, day>>

(***************************************************************************)
(* abandonExam, and getExamQuestions when it is late: an exam whose time   *)
(* is up is abandoned, the offline grace notwithstanding.                  *)
(***************************************************************************)
RequestAbandon(r, i) ==
    /\ Live(exams[i])
    /\ Names(r, "abandon", "abandon", i)
    /\ UNCHANGED <<exams, user, day>>

OpenExam(r, i) ==
    /\ Live(exams[i]) /\ Overdue(exams[i])
    /\ Names(r, "open", "abandon", i)
    /\ UNCHANGED <<exams, user, day>>

(***************************************************************************)
(* What goes on around the exams.                                          *)
(***************************************************************************)
\* An admin resets every free user's credits.
ResetFreeExamCredits ==
    /\ "reset" \in Ops
    /\ ~premium /\ used > 0
    /\ changes < MaxChanges
    /\ changes' = changes + 1
    /\ used' = 0
    /\ taken' = [s \in Subjects |-> 0]
    /\ resetAt' = Len(exams)
    /\ UNCHANGED <<exams, premium, day, req>>

ChangePremium ==
    /\ "premium" \in Ops
    /\ changes < MaxChanges
    /\ changes' = changes + 1
    /\ premium' = ~premium
    /\ req' = Overtaken(req)
    /\ UNCHANGED <<exams, used, taken, resetAt, day>>

TimePasses(i) ==
    /\ Live(exams[i]) /\ exams[i].age < Expired
    /\ exams' = [exams EXCEPT ![i].age = @ + 1]
    /\ UNCHANGED <<user, day, req>>

Midnight ==
    /\ changes < MaxChanges
    /\ changes' = changes + 1
    /\ day' = day + 1
    /\ UNCHANGED <<exams, used, taken, premium, resetAt, req>>

(***************************************************************************)
(* The specification.                                                      *)
(***************************************************************************)
Step(r) ==
    \/ FindSession(r) \/ ResumeSession(r) \/ ResumeFails(r) \/ ForceAbandon(r) \/ HealFails(r)
    \/ CheckEligibility(r) \/ LoadUser(r) \/ CheckDailyChallenge(r)
    \/ TakeNumber(r) \/ CreateExam(r) \/ InsertCollides(r)
    \/ SubmitExam(r) \/ CheckRetakeEligibility(r)

\* Starts stop when the rows may reach the bound.
Arrival(r) ==
    \/ \E s \in Scopes : Len(exams) < MaxExams /\ RequestStart(r, s)
    \/ \E i \in Ids :
          \/ RequestSubmit(r, i) \/ RequestAbandon(r, i) \/ OpenExam(r, i)
          \/ Len(exams) < MaxExams /\ RequestRetake(r, i)

Environment ==
    \/ \E i \in Ids : TimePasses(i)
    \/ StaleExamCleanup \/ ResetFreeExamCredits \/ ChangePremium \/ Midnight

Next ==
    \/ \E r \in Requests : Step(r) \/ Arrival(r)
    \/ Environment

Spec == Init /\ [][Next]_vars

(***************************************************************************)
(* Properties.                                                             *)
(***************************************************************************)
TypeOK ==
    /\ exams \in Seq(Exam)
    /\ used \in Nat
    /\ taken \in [Subjects -> Nat]
    /\ premium \in BOOLEAN
    /\ resetAt \in 0..Len(exams)
    /\ changes \in 0..MaxChanges
    /\ day \in 0..MaxChanges
    /\ req \in [Requests -> RequestTypes]

\* A scope's sessions, retakes included, carry the numbers 1, 2, 3 ... once
\* each, although the number is read before the insert and nothing locks it.
SessionsNumbered ==
    \A s \in Scopes :
        LET rows == {i \in Ids : exams[i].scope = s} IN
        {exams[i].number : i \in rows} = 1..Cardinality(rows)

\* The retakes of an exam are its attempts 2, 3 ..., as many as the exam or the
\* user's plan allows, although they are counted before the insert.
RetakesBounded ==
    \A o \in Ids :
        LET rows == RetakesOf(o)
            most == IF exams[o].scope \in Full THEN Max({FreeRetakes, exams[o].limit})
                                               ELSE exams[o].limit
        IN
        /\ {exams[i].attempt : i \in rows} = 2..(Cardinality(rows) + 1)
        /\ Cardinality(rows) <= most

\* Numbers read before an insert and checked by nothing but unique keys still have no
\* gap and no double.
AttemptsNumbered == TypeOK /\ SessionsNumbered /\ RetakesBounded

\* The free credits are those of the exams started with them since the last
\* reset: none is paid for an exam that was not created, none is free.
CreditsMatchExams ==
    LET charged == {i \in Ids : exams[i].free /\ i > resetAt} IN
    /\ used = CreditsOf(charged)
    /\ \A x \in Subjects :
          taken[x] = Cardinality({i \in charged : x \in SubjectsOf[exams[i].scope]})

\* The limits hold among the exams whose request nothing overtook: the lifetime
\* credits and their different subjects, premium's subjects a day, the one
\* daily challenge.  Only starts that overlap exceed them.
LimitsExcused ==
    LET onTime  == {i \in Ids : ~exams[i].late /\ ~Retake(exams[i])}
        charged == {i \in onTime : exams[i].free /\ i > resetAt}
        on(d)   == {i \in onTime : exams[i].day = d}
    IN
    /\ CreditsOf(charged) <= FreeCredits
    /\ \A i, j \in charged :
          i # j => SubjectsOf[exams[i].scope] \cap SubjectsOf[exams[j].scope] = {}
    /\ \A d \in 0..day :
          /\ CreditsOf({i \in on(d) : exams[i].scope \notin Daily /\ ~exams[i].free})
                <= PremiumCredits
          /\ Cardinality({i \in on(d) : exams[i].scope \in Daily}) <= 1

FreshEnds(i) ==
    Live(exams[i]) /\ exams[i].age = InTime /\ exams'[i].status = "ABANDONED"

\* An exam that still has time is abandoned by its user, or by a start of its own
\* scope: one that failed to read it, or whose ceiling is lower than the time
\* the institution gives.  Never by a sweep, by an opening, by the check of its time or by
\* a read that found it changed, however stale what they read was.
FreshExamsKept ==
    [][\A i \in Ids : FreshEnds(i) =>
          \E r \in Requests :
             \/ req[r].op = "abandon" /\ req[r].exam = i /\ req'[r] = Idle
             \/ /\ req[r].scope = exams[i].scope
                /\ \/ req[r].pc = "unread" /\ req[r].exam = i
                   \/ req[r].pc = "find" /\ exams[i].scope \in Longer]_vars

\* The blanket expiry never ends an exam that still has time (a comment's claim).
CeilingIsGenerous ==
    [][\A i \in Ids : FreshEnds(i) => \A r \in Requests : req[r].pc = "find" => req'[r] = req[r]]_vars

\* Only corrupted exams are abandoned by a start (a comment's claim): a
\* completed one is not.
CompletedStays ==
    [][\A i \in Ids : exams[i].status = "COMPLETED" => exams'[i].status = "COMPLETED"]_vars

\* One daily challenge a day.
DailyOnce ==
    \A d \in 0..day :
        Cardinality({i \in Ids : exams[i].scope \in Daily /\ exams[i].day = d}) <= 1
=============================================================================

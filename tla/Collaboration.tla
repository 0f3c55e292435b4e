--------------------------- MODULE Collaboration ---------------------------
(***************************************************************************)
(* The 1v1 duel: one CollaborationSession row, its SessionParticipant rows,*)
(* the exam dealt to each participant, and the requests, sockets and       *)
(* timers that write them.                                                 *)
(*                                                                         *)
(* Postgres runs at READ COMMITTED.  A request is a transaction that takes *)
(* row locks one at a time, reads what others have committed, and makes    *)
(* its writes visible together when it commits.  A row is taken by an      *)
(* UPDATE of it or by SELECT .. FOR UPDATE; the finalization of a          *)
(* submission never takes the session row before its very last write, and  *)
(* that is where the interleavings of this module come from.               *)
(*                                                                         *)
(* The Redis join, start and submit locks are not modelled: the code runs  *)
(* without them when Redis is down, and with them allows fewer behaviours. *)
(*                                                                         *)
(* An operator no action uses (HasRoomOffByOne, JoinableStale, ...) is a   *)
(* plausible mistake in the operator it precedes; README.md says which     *)
(* property notices it.                                                    *)
(***************************************************************************)
EXTENDS Integers, FiniteSets

CONSTANTS
    Users,      \* the people who hold the session's code
    Host,       \* the one who created it
    Requests,   \* slots for requests in flight: how many run at once
    Scores,     \* the scores an exam can earn
    Names,      \* the custom names a session can carry
    NoReq,      \* nobody holds the row
    Ops,        \* the operations the clients and the network perform
    CacheUp     \* Redis answers

AllOps == {"join", "start", "leave", "cancel", "rename", "submit",
           "finished", "abandon", "socket", "late", "abort", "restart"}

ASSUME UsersAssumption == Host \in Users /\ IsFiniteSet(Users)
ASSUME RequestsAssumption == NoReq \notin Requests
ASSUME ScoresAssumption == Scores \subseteq Nat /\ 0 \in Scores
ASSUME NamesAssumption == Names # {}
ASSUME OpsAssumption == Ops \subseteq AllOps /\ CacheUp \in BOOLEAN

VARIABLES
    status,       \* CollaborationSession.status, "NONE" before it exists
    name,         \* CollaborationSession.customName
    seat,         \* SessionParticipant.participantState, "ABSENT" without a row
    finishedAt,   \* SessionParticipant.finishedAt is set
    tally,        \* SessionParticipant.score
    finalRank,    \* SessionParticipant.finalRank, 0 for null
    exam,         \* Exam.status of the participant's duel exam, "NONE" without a row
    score,        \* Exam.score
    awards,       \* how many times the exam's SP were added to the user's totals
    completions,  \* how many commits reported sessionCompletedNow
    late,         \* the exams' time, both grace periods included, is over
    socket,       \* the user has a live websocket
    grace,        \* the user's disconnect-grace timer
    sessionLock,  \* who holds the session row
    seatLock,     \* who holds the participant's row
    examLock,     \* who holds the exam's row
    questionLock, \* who holds the rows of the questions both exams share
    req           \* the requests in flight

room  == <<status, name, seat, finishedAt, tally, finalRank>>
exams == <<exam, score, awards>>
locks == <<sessionLock, seatLock, examLock, questionLock>>
net   == <<late, socket, grace>>
vars  == <<room, exams, completions, net, locks, req>>

MaxParticipants == 2   \* COLLAB_LIMITS.MAX_PARTICIPANTS_V1
MaxCompletions  == 3   \* bound: completions are counted up to here

Statuses   == {"NONE", "WAITING", "IN_PROGRESS", "COMPLETED", "CANCELLED"}
SeatStates == {"ABSENT", "JOINED", "READY", "DISCONNECTED", "FINISHED"}
ExamStates == {"NONE", "IN_PROGRESS", "COMPLETED", "ABANDONED"}
Holders    == Requests \cup {NoReq}

Seated == {u \in Users : seat[u] # "ABSENT"}

Min2(a, b) == IF a < b THEN a ELSE b

(***************************************************************************)
(* Requests.  pc says what the request does next: "lock" waits for the     *)
(* session row, "apply" holds it, "claim" .. "close" are the statements of *)
(* submitExam's transaction and of finalizeCollaborationSubmission,        *)
(* "write" is abandonExam's update.                                        *)
(***************************************************************************)
NoStanding == [u \in Users |-> [score |-> 0, rank |-> 0]]

AnyName == CHOOSE n \in Names : TRUE

Request(op, u, pc, seen, s, n) ==
    [op |-> op, user |-> u, pc |-> pc, seen |-> seen, score |-> s, name |-> n,
     standings |-> NoStanding]

Idle == Request("none", Host, "idle", "NONE", 0, AnyName)

Standings == [Users -> [score : Nat, rank : Nat]]

RequestTypes ==
    [op : AllOps \cup {"none"}, user : Users,
     pc : {"idle", "lock", "apply", "claim", "grade", "check", "seat", "mark",
           "tally", "rank", "close", "commit", "write"},
     seen : Statuses, score : Nat, name : Names, standings : Standings]

\* The rows a request gives back when its transaction ends.
FreeSeats(r) == [u \in Users |-> IF seatLock[u] = r THEN NoReq ELSE seatLock[u]]
FreeExams(r) == [u \in Users |-> IF examLock[u] = r THEN NoReq ELSE examLock[u]]

FreeRow(row, r) == IF row = r THEN NoReq ELSE row

EndRequest(r) ==
    /\ sessionLock' = FreeRow(sessionLock, r)
    /\ seatLock' = FreeSeats(r)
    /\ examLock' = FreeExams(r)
    /\ questionLock' = FreeRow(questionLock, r)
    /\ req' = [req EXCEPT ![r] = Idle]

\* The transaction is rolled back: none of its writes was visible.
Rollback(r) ==
    /\ EndRequest(r)
    /\ UNCHANGED <<room, exams, completions, net>>

Init ==
    /\ status = "NONE"
    /\ name = AnyName
    /\ seat = [u \in Users |-> "ABSENT"]
    /\ finishedAt = [u \in Users |-> FALSE]
    /\ tally = [u \in Users |-> 0]
    /\ finalRank = [u \in Users |-> 0]
    /\ exam = [u \in Users |-> "NONE"]
    /\ score = [u \in Users |-> 0]
    /\ awards = [u \in Users |-> 0]
    /\ completions = 0
    /\ late = FALSE
    /\ socket = [u \in Users |-> FALSE]
    /\ grace = [u \in Users |-> "none"]
    /\ sessionLock = NoReq
    /\ seatLock = [u \in Users |-> NoReq]
    /\ examLock = [u \in Users |-> NoReq]
    /\ questionLock = NoReq
    /\ req = [r \in Requests |-> Idle]

(***************************************************************************)
(* createSession: one transaction of fresh rows, nobody can see half of it.*)
(***************************************************************************)
CreateSession ==
    /\ status = "NONE"
    /\ status' = "WAITING"
    /\ name' \in Names
    /\ seat' = [seat EXCEPT ![Host] = "JOINED"]
    /\ UNCHANGED <<finishedAt, tally, finalRank, exams, completions, net, locks, req>>

(***************************************************************************)
(* join, start, leave, cancel and rename read the session, queue for its   *)
(* row, and read it again once they hold it.                               *)
(***************************************************************************)
RequestSession(r, op, u, n) ==
    /\ op \in Ops
    /\ req[r].pc = "idle"
    /\ status # "NONE"
    /\ req' = [req EXCEPT ![r] = Request(op, u, "lock", status, 0, n)]
    /\ UNCHANGED <<room, exams, completions, net, locks>>

LockSession(r) ==
    /\ req[r].pc = "lock"
    /\ sessionLock = NoReq
    /\ sessionLock' = r
    /\ req' = [req EXCEPT ![r].pc = "apply"]
    /\ UNCHANGED <<room, exams, completions, net, seatLock, examLock, questionLock>>

Apply(r, op) ==
    /\ req[r].pc = "apply"
    /\ req[r].op = op
    /\ EndRequest(r)

HasRoomOffByOne == Cardinality(Seated) <= MaxParticipants

HasRoom == Cardinality(Seated) < MaxParticipants

JoinableStale(r) == req[r].seen = "WAITING" /\ req[r].user \notin Seated /\ HasRoom

Joinable(r) == status = "WAITING" /\ req[r].user \notin Seated /\ HasRoom

JoinSession(r) ==
    LET u == req[r].user IN
    /\ Apply(r, "join")
    /\ IF Joinable(r)
       THEN seat' = [seat EXCEPT ![u] = "JOINED"]
       ELSE UNCHANGED seat
    /\ UNCHANGED <<status, name, finishedAt, tally, finalRank, exams, completions, net>>

Active == {u \in Seated : seat[u] # "DISCONNECTED"}

StartableStale(r) ==
    /\ req[r].user = Host
    /\ req[r].seen = "WAITING"
    /\ Cardinality(Active) = MaxParticipants

Startable(r) ==
    /\ req[r].user = Host
    /\ status = "WAITING"
    /\ Cardinality(Active) = MaxParticipants

StartSession(r) ==
    /\ Apply(r, "start")
    /\ IF Startable(r)
       THEN /\ exam' = [u \in Users |-> IF u \in Seated THEN "IN_PROGRESS" ELSE exam[u]]
            /\ status' = "IN_PROGRESS"
            /\ seat' = [u \in Users |-> IF seat[u] \in {"JOINED", "DISCONNECTED"}
                                        THEN "READY" ELSE seat[u]]
       ELSE UNCHANGED <<exam, status, seat>>
    /\ UNCHANGED <<name, finishedAt, tally, finalRank, score, awards, completions, net>>

\* leaveSession writes DISCONNECTED over whatever the participant's state was.
LeaveSession(r) ==
    LET u == req[r].user IN
    /\ Apply(r, "leave")
    /\ \/ /\ status = "WAITING" /\ u \in Seated /\ u = Host
          /\ status' = "CANCELLED"
          /\ UNCHANGED seat
       \/ /\ status = "WAITING" /\ u \in Seated /\ u # Host
          /\ seatLock[u] = NoReq
          /\ seat' = [seat EXCEPT ![u] = "ABSENT"]
          /\ UNCHANGED status
       \/ /\ status = "IN_PROGRESS" /\ u \in Seated
          /\ seatLock[u] = NoReq
          /\ seat' = [seat EXCEPT ![u] = "DISCONNECTED"]
          /\ UNCHANGED status
       \/ /\ u \notin Seated \/ status \notin {"WAITING", "IN_PROGRESS"}
          /\ UNCHANGED <<status, seat>>
    /\ UNCHANGED <<name, finishedAt, tally, finalRank, exams, completions, net>>

Cancellable(r) == req[r].user = Host /\ status \in {"WAITING", "IN_PROGRESS"}

\* The exams of a cancelled duel stay as they are.
CancelSession(r) ==
    /\ Apply(r, "cancel")
    /\ status' = IF Cancellable(r) THEN "CANCELLED" ELSE status
    /\ UNCHANGED <<name, seat, finishedAt, tally, finalRank, exams, completions, net>>

RenamableStale(r) == req[r].user = Host /\ req[r].seen = "WAITING"

Renamable(r) == req[r].user = Host /\ status = "WAITING"

UpdateSessionName(r) ==
    /\ Apply(r, "rename")
    /\ name' = IF Renamable(r) THEN req[r].name ELSE name
    /\ UNCHANGED <<status, seat, finishedAt, tally, finalRank, exams, completions, net>>

(***************************************************************************)
(* submitExam for a duel exam.  The exam is read, and its time checked,    *)
(* before the transaction; the transaction claims it with an update that   *)
(* is conditional on IN_PROGRESS, then updates the statistics of the       *)
(* questions, whose rows the two exams of a duel share.                    *)
(***************************************************************************)
RequestSubmit(r, u, s) ==
    /\ "submit" \in Ops
    /\ req[r].pc = "idle"
    /\ exam[u] = "IN_PROGRESS"
    /\ ~late
    /\ req' = [req EXCEPT ![r] = Request("submit", u, "claim", "NONE", s, AnyName)]
    /\ UNCHANGED <<room, exams, completions, net, locks>>

Claimable(u) == exam[u] = "IN_PROGRESS"

ClaimExam(r) ==
    LET u == req[r].user IN
    /\ req[r].pc = "claim"
    /\ examLock[u] = NoReq
    /\ Claimable(u)
    /\ examLock' = [examLock EXCEPT ![u] = r]
    /\ req' = [req EXCEPT ![r].pc = "grade"]
    /\ UNCHANGED <<room, exams, completions, net, sessionLock, seatLock, questionLock>>

ClaimLostRetries(r) ==
    LET u == req[r].user IN
    /\ req[r].pc = "claim"
    /\ examLock[u] = NoReq
    /\ ~Claimable(u)
    /\ UNCHANGED vars

\* Somebody else finished the exam first: the stored result is returned.
ClaimLost(r) ==
    LET u == req[r].user IN
    /\ req[r].pc = "claim"
    /\ examLock[u] = NoReq
    /\ ~Claimable(u)
    /\ Rollback(r)

UpdateQuestionStatsUnlocked(r) ==
    /\ req[r].pc = "grade"
    /\ questionLock = NoReq
    /\ req' = [req EXCEPT ![r].pc = "check"]
    /\ UNCHANGED <<room, exams, completions, net, locks>>

UpdateQuestionStats(r) ==
    /\ req[r].pc = "grade"
    /\ questionLock = NoReq
    /\ questionLock' = r
    /\ req' = [req EXCEPT ![r].pc = "check"]
    /\ UNCHANGED <<room, exams, completions, net, sessionLock, seatLock, examLock>>

(***************************************************************************)
(* markParticipantFinished, the "finished" event of the websocket: allowed *)
(* once the user's exam is COMPLETED, it runs the same finalization.       *)
(***************************************************************************)
RequestFinished(r, u) ==
    /\ "finished" \in Ops
    /\ req[r].pc = "idle"
    /\ socket[u]
    /\ status \in {"IN_PROGRESS", "COMPLETED"}
    /\ exam[u] = "COMPLETED"
    /\ req' = [req EXCEPT ![r] = Request("finished", u, "check", "NONE", score[u], AnyName)]
    /\ UNCHANGED <<room, exams, completions, net, locks>>

(***************************************************************************)
(* finalizeCollaborationSubmission.                                        *)
(***************************************************************************)
\* What the commit of a submission writes about the exam itself.
CommitExam(r) ==
    LET u == req[r].user IN
    IF req[r].op = "submit"
    THEN /\ exam' = [exam EXCEPT ![u] = "COMPLETED"]
         /\ score' = [score EXCEPT ![u] = req[r].score]
         /\ awards' = [awards EXCEPT ![u] = @ + 1]
    ELSE UNCHANGED exams

RefuseButKeepExam(r) ==
    /\ req[r].pc = "check"
    /\ status \notin {"IN_PROGRESS", "COMPLETED"}
    /\ CommitExam(r)
    /\ EndRequest(r)
    /\ UNCHANGED <<room, completions, net>>

\* A session that is not active refuses the submission, and the rollback
\* takes the grading and the SP with it.
RefuseFinalization(r) ==
    /\ req[r].pc = "check"
    /\ status \notin {"IN_PROGRESS", "COMPLETED"}
    /\ Rollback(r)

ReadSession(r) ==
    /\ req[r].pc = "check"
    /\ status \in {"IN_PROGRESS", "COMPLETED"}
    /\ req' = [req EXCEPT ![r].pc = "seat", ![r].seen = status]
    /\ UNCHANGED <<room, exams, completions, net, locks>>

AlreadyFinished(r) ==
    /\ req[r].pc = "seat"
    /\ seat[req[r].user] = "FINISHED"
    /\ CommitExam(r)
    /\ EndRequest(r)
    /\ UNCHANGED <<room, completions, net>>

ReadParticipant(r) ==
    /\ req[r].pc = "seat"
    /\ req[r].user \in Seated
    /\ seat[req[r].user] # "FINISHED"
    /\ req' = [req EXCEPT ![r].pc = "mark"]
    /\ UNCHANGED <<room, exams, completions, net, locks>>

MarkFinished(r) ==
    LET u == req[r].user IN
    /\ req[r].pc = "mark"
    /\ seatLock[u] = NoReq
    /\ seatLock' = [seatLock EXCEPT ![u] = r]
    /\ req' = [req EXCEPT ![r].pc = "tally"]
    /\ UNCHANGED <<room, exams, completions, net, sessionLock, examLock, questionLock>>

\* The participants as this transaction sees them: its own row, not yet
\* committed, is FINISHED.
AllFinished(r) == \A v \in Seated \ {req[r].user} : seat[v] = "FINISHED"

\* The score the standings give a participant: 0 unless its exam is COMPLETED.
StandingScore(r, v) ==
    IF v = req[r].user /\ req[r].op = "submit" THEN req[r].score
    ELSE IF exam[v] = "COMPLETED" THEN score[v] ELSE 0

AheadByPosition(r, v) ==
    {w \in Seated : \/ StandingScore(r, w) > StandingScore(r, v)
                    \/ StandingScore(r, w) = StandingScore(r, v) /\ w = Host /\ v # Host}

Ahead(r, v) == {w \in Seated : StandingScore(r, w) > StandingScore(r, v)}

\* Equal scores share a rank, and the next rank counts everybody ahead.
ComputeStandings(r) ==
    [v \in Users |->
        IF v \in Seated
        THEN [score |-> StandingScore(r, v),
              rank  |-> 1 + Cardinality(Ahead(r, v))]
        ELSE [score |-> 0, rank |-> 0]]

\* Reads what the other participants have committed, and, when all of them
\* have finished, the exams that rank them.
CountFinished(r) ==
    /\ req[r].pc = "tally"
    /\ req' = [req EXCEPT ![r].pc = IF AllFinished(r) THEN "rank" ELSE "commit",
                         ![r].standings = IF AllFinished(r) THEN ComputeStandings(r)
                                          ELSE NoStanding]
    /\ UNCHANGED <<room, exams, completions, net, locks>>

CommitFinished(r) ==
    LET u == req[r].user IN
    /\ req[r].pc = "commit"
    /\ seat' = [seat EXCEPT ![u] = "FINISHED"]
    /\ finishedAt' = [finishedAt EXCEPT ![u] = TRUE]
    /\ tally' = [tally EXCEPT ![u] = req[r].score]
    /\ CommitExam(r)
    /\ EndRequest(r)
    /\ UNCHANGED <<status, name, finalRank, completions, net>>

RankParticipants(r) ==
    /\ req[r].pc = "rank"
    /\ \A v \in Seated : seatLock[v] \in {NoReq, r}
    /\ seatLock' = [v \in Users |-> IF v \in Seated THEN r ELSE seatLock[v]]
    /\ req' = [req EXCEPT ![r].pc = "close"]
    /\ UNCHANGED <<room, exams, completions, net, sessionLock, examLock, questionLock>>

\* The status read at the start decides, not the status the row has now.
CompleteSession(r) ==
    LET u == req[r].user IN
    /\ req[r].pc = "close"
    /\ \/ /\ req[r].seen = "COMPLETED"
          /\ UNCHANGED <<status, completions>>
       \/ /\ req[r].seen # "COMPLETED"
          /\ sessionLock = NoReq
          /\ status' = "COMPLETED"
          /\ completions' = Min2(completions + 1, MaxCompletions)
    /\ seat' = [seat EXCEPT ![u] = "FINISHED"]
    /\ finishedAt' = [finishedAt EXCEPT ![u] = TRUE]
    /\ tally' = [v \in Users |-> IF v \in Seated THEN req[r].standings[v].score ELSE tally[v]]
    /\ finalRank' = [v \in Users |-> IF v \in Seated THEN req[r].standings[v].rank ELSE finalRank[v]]
    /\ CommitExam(r)
    /\ EndRequest(r)
    /\ UNCHANGED <<name, net>>

(***************************************************************************)
(* abandonExam checks the status, then updates the exam by id alone.       *)
(***************************************************************************)
RequestAbandon(r, u) ==
    /\ "abandon" \in Ops
    /\ req[r].pc = "idle"
    /\ exam[u] = "IN_PROGRESS"
    /\ req' = [req EXCEPT ![r] = Request("abandon", u, "write", "NONE", 0, AnyName)]
    /\ UNCHANGED <<room, exams, completions, net, locks>>

AbandonExam(r) ==
    LET u == req[r].user IN
    /\ req[r].pc = "write"
    /\ examLock[u] = NoReq
    /\ exam' = [exam EXCEPT ![u] = "ABANDONED"]
    /\ EndRequest(r)
    /\ UNCHANGED <<room, score, awards, completions, net>>

(***************************************************************************)
(* Time, and the stale-exam job: a conditional update of the exams whose   *)
(* duration and both grace periods have passed.                            *)
(***************************************************************************)
TimePasses ==
    /\ "late" \in Ops
    /\ ~late
    /\ \E u \in Users : exam[u] # "NONE"
    /\ late' = TRUE
    /\ UNCHANGED <<room, exams, completions, socket, grace, locks, req>>

StaleExamCleanup(u) ==
    /\ late
    /\ exam[u] = "IN_PROGRESS"
    /\ examLock[u] = NoReq
    /\ exam' = [exam EXCEPT ![u] = "ABANDONED"]
    /\ UNCHANGED <<room, score, awards, completions, net, locks, req>>

(***************************************************************************)
(* Sockets.  Connecting, the ready event and a heartbeat that is due for a *)
(* database sync all write READY over any state but FINISHED.              *)
(***************************************************************************)
MarkReady(u) ==
    seat' = [seat EXCEPT ![u] = IF @ \in {"ABSENT", "FINISHED"} THEN @ ELSE "READY"]

SocketConnected(u) ==
    /\ "socket" \in Ops
    /\ ~socket[u]
    /\ u \in Seated
    /\ seatLock[u] = NoReq
    /\ socket' = [socket EXCEPT ![u] = TRUE]
    /\ MarkReady(u)
    /\ UNCHANGED <<status, name, finishedAt, tally, finalRank, exams, completions,
                   late, grace, locks, req>>

Heartbeat(u) ==
    /\ socket[u]
    /\ seatLock[u] = NoReq
    /\ seat[u] \in {"JOINED", "DISCONNECTED"}
    /\ MarkReady(u)
    /\ UNCHANGED <<status, name, finishedAt, tally, finalRank, exams, completions,
                   net, locks, req>>

\* Bound: a user has at most one grace timer running.
SocketDisconnected(u) ==
    /\ socket[u]
    /\ grace[u] = "none"
    /\ socket' = [socket EXCEPT ![u] = FALSE]
    /\ grace' = [grace EXCEPT ![u] = "armed"]
    /\ UNCHANGED <<room, exams, completions, late, locks, req>>

\* The timer fires: it reads the session's status, then the presence key,
\* which a live socket keeps alive and a closed one leaves to expire.
GraceExpires(u) ==
    /\ grace[u] = "armed"
    /\ \/ /\ status # "IN_PROGRESS" \/ CacheUp
          /\ grace' = [grace EXCEPT ![u] = "none"]
       \/ /\ status = "IN_PROGRESS"
          /\ ~(CacheUp /\ socket[u])
          /\ grace' = [grace EXCEPT ![u] = "due"]
    /\ UNCHANGED <<room, exams, completions, late, socket, locks, req>>

\* The update that follows has no condition on the state it overwrites.
GraceDisconnects(u) ==
    /\ grace[u] = "due"
    /\ seatLock[u] = NoReq
    /\ grace' = [grace EXCEPT ![u] = "none"]
    /\ seat' = [seat EXCEPT ![u] = IF @ = "ABSENT" THEN @ ELSE "DISCONNECTED"]
    /\ UNCHANGED <<status, name, finishedAt, tally, finalRank, exams, completions,
                   late, socket, locks, req>>

(***************************************************************************)
(* Failures.  A transaction may time out or lose its connection; Postgres  *)
(* breaks a cycle of waits by aborting one of its transactions; a restart  *)
(* of the process ends every request, socket and timer.                    *)
(***************************************************************************)
AbortRequest(r) ==
    /\ "abort" \in Ops
    /\ req[r].pc # "idle"
    /\ Rollback(r)

\* The requests that hold a row r is waiting for.
BlockedBy(r) ==
    LET q == req[r]
        u == q.user
        waits ==
          CASE q.pc = "lock"  -> {sessionLock}
            [] q.pc = "claim" -> {examLock[u]}
            [] q.pc = "write" -> {examLock[u]}
            [] q.pc = "grade" -> {questionLock}
            [] q.pc = "mark"  -> {seatLock[u]}
            [] q.pc = "rank"  -> {seatLock[v] : v \in Seated}
            [] q.pc = "close" -> IF q.seen = "COMPLETED" THEN {} ELSE {sessionLock}
            [] q.pc = "apply" -> IF q.op = "leave" /\ u \in Seated
                                   /\ status \in {"WAITING", "IN_PROGRESS"}
                                   /\ ~(status = "WAITING" /\ u = Host)
                                 THEN {seatLock[u]} ELSE {}
            [] OTHER -> {}
    IN waits \ {NoReq, r}

\* Some set of requests can only wait for one another.
Deadlocked(r) ==
    \E C \in SUBSET Requests :
        /\ r \in C
        /\ \A c \in C : BlockedBy(c) \cap C # {}

BreakDeadlock(r) ==
    /\ Deadlocked(r)
    /\ Rollback(r)

Restart ==
    /\ "restart" \in Ops
    /\ status # "NONE"
    /\ socket' = [u \in Users |-> FALSE]
    /\ grace' = [u \in Users |-> "none"]
    /\ sessionLock' = NoReq
    /\ seatLock' = [u \in Users |-> NoReq]
    /\ examLock' = [u \in Users |-> NoReq]
    /\ questionLock' = NoReq
    /\ req' = [r \in Requests |-> Idle]
    /\ UNCHANGED <<room, exams, completions, late>>

(***************************************************************************)
(* The specification.                                                      *)
(***************************************************************************)
\* One statement of a request that is under way.
Step(r) ==
    \/ LockSession(r) \/ JoinSession(r) \/ StartSession(r) \/ LeaveSession(r)
    \/ CancelSession(r) \/ UpdateSessionName(r)
    \/ ClaimExam(r) \/ ClaimLost(r) \/ UpdateQuestionStats(r)
    \/ RefuseFinalization(r) \/ ReadSession(r) \/ AlreadyFinished(r)
    \/ ReadParticipant(r) \/ MarkFinished(r) \/ CountFinished(r) \/ CommitFinished(r)
    \/ RankParticipants(r) \/ CompleteSession(r) \/ AbandonExam(r)

Arrive(r) ==
    \/ \E op \in {"join", "start", "leave", "cancel"}, u \in Users :
            RequestSession(r, op, u, name)
    \/ \E u \in Users, n \in Names : RequestSession(r, "rename", u, n)
    \/ \E u \in Users, s \in Scores : RequestSubmit(r, u, s)
    \/ \E u \in Users : RequestFinished(r, u) \/ RequestAbandon(r, u)

UserEvent(u) ==
    \/ StaleExamCleanup(u) \/ SocketConnected(u) \/ Heartbeat(u)
    \/ SocketDisconnected(u) \/ GraceExpires(u) \/ GraceDisconnects(u)

Next ==
    \/ CreateSession
    \/ \E r \in Requests : Arrive(r) \/ Step(r) \/ AbortRequest(r) \/ BreakDeadlock(r)
    \/ \E u \in Users : UserEvent(u)
    \/ TimePasses
    \/ Restart

Spec == Init /\ [][Next]_vars

\* Postgres grants a row to its waiters in the order they came, so a request
\* whose next statement is enabled again and again gets to run it.
Fairness ==
    \A r \in Requests : SF_vars(Step(r)) /\ WF_vars(BreakDeadlock(r))

FairSpec == Spec /\ Fairness

(***************************************************************************)
(* Properties.                                                             *)
(***************************************************************************)
TypeOK ==
    /\ status \in Statuses
    /\ name \in Names
    /\ seat \in [Users -> SeatStates]
    /\ finishedAt \in [Users -> BOOLEAN]
    /\ tally \in [Users -> Nat]
    /\ finalRank \in [Users -> Nat]
    /\ exam \in [Users -> ExamStates]
    /\ score \in [Users -> Nat]
    /\ awards \in [Users -> Nat]
    /\ completions \in 0..MaxCompletions
    /\ late \in BOOLEAN
    /\ socket \in [Users -> BOOLEAN]
    /\ grace \in [Users -> {"none", "armed", "due"}]
    /\ sessionLock \in Holders
    /\ seatLock \in [Users -> Holders]
    /\ examLock \in [Users -> Holders]
    /\ questionLock \in Holders
    /\ req \in [Requests -> RequestTypes]

\* A duel never seats a third player, however many race for the last seat
\* (the count is taken under the session's row lock).
SeatsBounded == Cardinality(Seated) <= MaxParticipants

\* Exams exist exactly for the players who were seated when the duel
\* started: nobody who left, or joined late, holds one, both players hold one
\* or neither, and a duel that runs or has been completed has dealt them.
ExamsMatchSeats ==
    /\ \A u \in Users : exam[u] # "NONE" => u \in Seated
    /\ status \in {"NONE", "WAITING"} => \A u \in Users : exam[u] = "NONE"
    /\ status \in {"IN_PROGRESS", "COMPLETED"} => \E u \in Users : exam[u] # "NONE"
    /\ (\E u \in Users : exam[u] # "NONE") =>
          /\ Cardinality(Seated) = MaxParticipants
          /\ \A u \in Seated : exam[u] # "NONE"

\* Nobody races past the two seats, and exams are dealt to those who hold them.
SeatsKept == SeatsBounded /\ ExamsMatchSeats

\* The SP of an exam are added to the user's totals at most once, whatever
\* submissions, retries, abandons and clean-ups overlap.
AwardedOnce == \A u \in Users : awards[u] <= 1

\* Grading, SP and the participant's finish are one transaction: nobody is
\* recorded as finished without the SP, and no SP is given for a submission
\* the session refused.
FinishedIffAwarded ==
    \A u \in Users : finishedAt[u] <=> awards[u] = 1

\* A duel is completed only when both players have finished, and then each of
\* them has a place.
CompletedIsDecided ==
    status = "COMPLETED" =>
        \A u \in Seated : finishedAt[u] /\ finalRank[u] \in 1..MaxParticipants

\* What a submission settles is settled once and for both: points, finish and completion.
AwardsSettled == TypeOK /\ AwardedOnce /\ FinishedIffAwarded /\ CompletedIsDecided

\* The places of a completed duel order the recorded scores: more points, a
\* better place; equal points, the same place.
RanksFollowScores ==
    status = "COMPLETED" =>
        \A u, v \in Seated : tally[u] > tally[v] <=> finalRank[u] < finalRank[v]

\* A duel both of whose players have finished is not left in progress.
NoStrandedDuel ==
    status = "IN_PROGRESS" => \E u \in Seated : ~finishedAt[u]

\* The completion of a duel is reported once.
CompletedOnce == completions <= 1

\* An exam whose SP were awarded is not abandoned.
AwardedNotAbandoned ==
    \A u \in Users : awards[u] > 0 => exam[u] # "ABANDONED"

\* A completed duel stays completed: a cancellation that was waiting for the
\* row when the last player finished has no effect.
CompletedIsFinal == [][status = "COMPLETED" => status' = "COMPLETED"]_vars

\* A cancelled duel stays cancelled.
CancelledIsFinal == [][status = "CANCELLED" => status' = "CANCELLED"]_vars

\* An exam is dealt once: a second start, or a start that waited behind
\* another one, never reopens an exam.
DealtOnce ==
    [][\A u \in Users : exam[u] # "NONE" /\ exam[u] # exam'[u] => exam'[u] # "IN_PROGRESS"]_vars

\* No request that queued for a row undoes what was decided while it waited.
NothingUndone == CompletedIsFinal /\ DealtOnce

\* The room's name is fixed once the duel has left the waiting room.
NameFrozen == [][status \notin {"NONE", "WAITING"} => name' = name]_vars

\* Every request is answered: requests that wait for one another's rows do
\* not wait forever.
RequestsEnd == \A r \in Requests : req[r].pc # "idle" ~> req[r].pc = "idle"

(***************************************************************************)
(* The duel as its contract sees it.                                       *)
(***************************************************************************)
Phase ==
    CASE status = "NONE" -> "none"
      [] status = "WAITING" -> "open"
      [] status = "IN_PROGRESS" -> "live"
      [] status = "CANCELLED" -> "void"
      [] OTHER -> "decided"

Contract == INSTANCE DuelContract
    WITH People <- Users, Owner <- Host,
         phase <- Phase, players <- Seated, done <- {u \in Users : finishedAt[u]}

\* Every behaviour of the rows, requests and timers is a behaviour of the
\* contract: a duel is decided by the last hand-in and by nothing else, its
\* players are fixed once it is live, and no hand-in is lost or undone.
ImplementsContract == Contract!Spec
=============================================================================

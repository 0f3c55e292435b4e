------------------------ MODULE CollaborationProofs ------------------------
(***************************************************************************)
(* What TLAPS proves about Collaboration for every set of users, requests  *)
(* and scores.                                                             *)
(***************************************************************************)
EXTENDS Collaboration, FiniteSetTheorems, TLAPS

Finalizing == {"grade", "check", "seat", "mark", "tally", "rank", "close", "commit"}

(***************************************************************************)
(* The strengthening.  RequestInv says what a request under way can rely   *)
(* on, RecordInv how the exam, the SP and the participant's row agree.     *)
(***************************************************************************)
RequestOK(r) ==
    LET q == req[r]
        u == q.user IN
    /\ q.pc = "apply" => sessionLock = r
    /\ q.pc \in {"claim", "grade"} => q.op = "submit"
    /\ q.pc \in Finalizing =>
          /\ q.op \in {"submit", "finished"}
          /\ status \notin {"NONE", "WAITING"}
          /\ u \in Seated
          /\ q.op = "submit" => examLock[u] = r /\ exam[u] = "IN_PROGRESS"
          /\ q.op = "finished" => finishedAt[u]
    /\ q.pc = "write" => exam[u] # "NONE"
    /\ q.pc \in {"seat", "mark", "tally", "rank", "close", "commit"} =>
          /\ q.seen \in {"IN_PROGRESS", "COMPLETED"}
          /\ q.seen = "COMPLETED" => status = "COMPLETED"
    /\ q.pc \in {"rank", "close"} =>
          /\ \A v \in Seated \ {u} : finishedAt[v]
          /\ \A v \in Seated : q.standings[v].rank \in 1..MaxParticipants

RequestInv == \A r \in Requests : RequestOK(r)

RecordOK(u) ==
    /\ exam[u] \in {"NONE", "IN_PROGRESS"} => awards[u] = 0
    /\ exam[u] = "COMPLETED" => awards[u] = 1
    /\ awards[u] \in {0, 1}
    /\ finishedAt[u] <=> awards[u] = 1
    /\ seat[u] = "FINISHED" => finishedAt[u]

HostSeated ==
    /\ status # "NONE" => Host \in Seated
    /\ status = "NONE" => Seated = {}

\* The part of the invariant that speaks of the committed rows alone.
RowInv ==
    /\ \A u \in Users : RecordOK(u)
    /\ SeatsBounded
    /\ ExamsMatchSeats
    /\ HostSeated
    /\ CompletedIsDecided

Inv == TypeOK /\ RequestInv /\ RowInv

(***************************************************************************)
(* Types.                                                                  *)
(***************************************************************************)
USE DEF MaxParticipants, MaxCompletions, HasRoom, Joinable, Active, Startable,
        Cancellable, Renamable, Claimable, Ahead

LEMMA RequestType ==
  ASSUME NEW op \in AllOps \cup {"none"}, NEW u \in Users,
         NEW pc \in {"idle", "lock", "claim", "check", "write"},
         NEW seen \in Statuses, NEW s \in Nat, NEW n \in Names
  PROVE  Request(op, u, pc, seen, s, n) \in RequestTypes
<1>1. NoStanding \in Standings
  BY DEF NoStanding, Standings
<1> QED
  BY <1>1 DEF Request, RequestTypes

LEMMA AnyNameType == AnyName \in Names
  BY NamesAssumption DEF AnyName

LEMMA IdleType == Idle \in RequestTypes
  BY RequestType, AnyNameType, UsersAssumption DEF Idle, Statuses

LEMMA StandingsType ==
  ASSUME TypeOK, NEW r \in Requests
  PROVE  ComputeStandings(r) \in Standings
<1>1. ASSUME NEW v \in Users PROVE StandingScore(r, v) \in Nat
  BY DEF StandingScore, TypeOK, RequestTypes
<1>2. ASSUME NEW v \in Users
      PROVE Cardinality({w \in Seated : StandingScore(r, w) > StandingScore(r, v)}) \in Nat
  <2>1. {w \in Seated : StandingScore(r, w) > StandingScore(r, v)} \subseteq Users
    BY DEF Seated
  <2> QED
    BY <2>1, UsersAssumption, FS_Subset, FS_CardinalityType
<1> QED
  BY <1>1, <1>2 DEF ComputeStandings, Standings

\* Nobody is ahead of himself, so a place is at most the number of players.
LEMMA RankBound ==
  ASSUME TypeOK, SeatsBounded, NEW r \in Requests, NEW v \in Seated
  PROVE  ComputeStandings(r)[v].rank \in 1..MaxParticipants
<1> DEFINE ahead == {w \in Seated : StandingScore(r, w) > StandingScore(r, v)}
<1>1. v \in Users /\ IsFiniteSet(Seated)
  BY UsersAssumption, FS_Subset DEF Seated
<1>2. StandingScore(r, v) \in Nat
  BY <1>1 DEF StandingScore, TypeOK, RequestTypes
<1>3. ahead \subseteq Seated \ {v}
  BY <1>2
<1>4. Cardinality(Seated \ {v}) = Cardinality(Seated) - 1 /\ IsFiniteSet(Seated \ {v})
  BY <1>1, FS_RemoveElement
<1>5. Cardinality(ahead) <= Cardinality(Seated \ {v}) /\ IsFiniteSet(ahead)
  BY <1>3, <1>4, FS_Subset
<1>6. Cardinality(ahead) \in Nat /\ Cardinality(Seated) \in Nat
  BY <1>1, <1>5, FS_CardinalityType
<1>7. Cardinality(ahead) \in 0..1
  BY <1>4, <1>5, <1>6 DEF SeatsBounded
<1>8. ComputeStandings(r)[v].rank = 1 + Cardinality(ahead)
  BY <1>1 DEF ComputeStandings
<1> QED
  BY <1>7, <1>8

LEMMA EndRequestType ==
  ASSUME TypeOK, NEW r \in Requests, EndRequest(r)
  PROVE  /\ sessionLock' \in Holders
         /\ seatLock' \in [Users -> Holders]
         /\ examLock' \in [Users -> Holders]
         /\ questionLock' \in Holders
         /\ req' \in [Requests -> RequestTypes]
  BY IdleType DEF TypeOK, EndRequest, FreeRow, FreeSeats, FreeExams, Holders

LEMMA CommitExamType ==
  ASSUME TypeOK, NEW r \in Requests, CommitExam(r)
  PROVE  /\ exam' \in [Users -> ExamStates]
         /\ score' \in [Users -> Nat]
         /\ awards' \in [Users -> Nat]
<1> DEFINE u == req[r].user
<1>1. u \in Users /\ req[r].score \in Nat
  BY DEF TypeOK, RequestTypes
<1>2. CASE req[r].op = "submit"
  BY <1>1, <1>2 DEF TypeOK, CommitExam, ExamStates
<1>3. CASE req[r].op # "submit"
  BY <1>3 DEF TypeOK, CommitExam, exams
<1> QED
  BY <1>2, <1>3

LEMMA RollbackType ==
  ASSUME TypeOK, NEW r \in Requests, Rollback(r)
  PROVE  TypeOK'
  BY EndRequestType DEF Rollback, TypeOK, room, exams, net

LEMMA ArriveType ==
  ASSUME TypeOK, NEW r \in Requests, Arrive(r)
  PROVE  TypeOK'
<1>1. ASSUME NEW op \in AllOps, NEW u \in Users, NEW n \in Names, RequestSession(r, op, u, n)
      PROVE  TypeOK'
  <2>1. Request(op, u, "lock", status, 0, n) \in RequestTypes
    BY RequestType DEF TypeOK
  <2> QED
    BY <1>1, <2>1 DEF RequestSession, TypeOK, room, exams, net, locks
<1>2. ASSUME NEW u \in Users, NEW s \in Scores, RequestSubmit(r, u, s)
      PROVE  TypeOK'
  <2>1. Request("submit", u, "claim", "NONE", s, AnyName) \in RequestTypes
    BY RequestType, AnyNameType, ScoresAssumption DEF AllOps, Statuses
  <2> QED
    BY <1>2, <2>1 DEF RequestSubmit, TypeOK, room, exams, net, locks
<1>3. ASSUME NEW u \in Users, RequestFinished(r, u)
      PROVE  TypeOK'
  <2>1. Request("finished", u, "check", "NONE", score[u], AnyName) \in RequestTypes
    BY RequestType, AnyNameType DEF AllOps, Statuses, TypeOK
  <2> QED
    BY <1>3, <2>1 DEF RequestFinished, TypeOK, room, exams, net, locks
<1>4. ASSUME NEW u \in Users, RequestAbandon(r, u)
      PROVE  TypeOK'
  <2>1. Request("abandon", u, "write", "NONE", 0, AnyName) \in RequestTypes
    BY RequestType, AnyNameType DEF AllOps, Statuses
  <2> QED
    BY <1>4, <2>1 DEF RequestAbandon, TypeOK, room, exams, net, locks
<1>5. name \in Names
  BY DEF TypeOK
<1> QED
  BY <1>1, <1>2, <1>3, <1>4, <1>5 DEF Arrive, AllOps

LEMMA StepType ==
  ASSUME TypeOK, NEW r \in Requests, Step(r)
  PROVE  TypeOK'
<1> DEFINE u == req[r].user
<1>u. u \in Users /\ req[r] \in RequestTypes
  BY DEF TypeOK, RequestTypes
<1>1. CASE LockSession(r)
  BY <1>1, <1>u DEF LockSession, TypeOK, RequestTypes, Holders, room, exams, net
<1>2. CASE JoinSession(r)
  BY <1>2, <1>u, EndRequestType DEF JoinSession, Apply, TypeOK, SeatStates, exams, net
<1>3. CASE StartSession(r)
  BY <1>3, <1>u, EndRequestType
     DEF StartSession, Apply, TypeOK, SeatStates, ExamStates, Statuses, net
<1>4. CASE LeaveSession(r)
  BY <1>4, <1>u, EndRequestType
     DEF LeaveSession, Apply, TypeOK, SeatStates, Statuses, exams, net
<1>5. CASE CancelSession(r)
  BY <1>5, EndRequestType DEF CancelSession, Apply, TypeOK, Statuses, exams, net
<1>6. CASE UpdateSessionName(r)
  BY <1>6, <1>u, EndRequestType
     DEF UpdateSessionName, Apply, TypeOK, RequestTypes, exams, net
<1>7. CASE ClaimExam(r)
  BY <1>7, <1>u DEF ClaimExam, TypeOK, RequestTypes, Holders, room, exams, net
<1>8. CASE ClaimLost(r)
  BY <1>8, RollbackType DEF ClaimLost
<1>9. CASE UpdateQuestionStats(r)
  BY <1>9, <1>u DEF UpdateQuestionStats, TypeOK, RequestTypes, Holders, room, exams, net
<1>10. CASE RefuseFinalization(r)
  BY <1>10, RollbackType DEF RefuseFinalization
<1>11. CASE AlreadyFinished(r)
  BY <1>11, EndRequestType, CommitExamType DEF AlreadyFinished, TypeOK, room, net
<1>12. CASE ReadSession(r)
  BY <1>12, <1>u DEF ReadSession, TypeOK, RequestTypes, room, exams, net, locks
<1>12a. CASE ReadParticipant(r)
  BY <1>12a, <1>u DEF ReadParticipant, TypeOK, RequestTypes, room, exams, net, locks
<1>13. CASE MarkFinished(r)
  BY <1>13, <1>u DEF MarkFinished, TypeOK, RequestTypes, Holders, room, exams, net
<1>14. CASE CommitFinished(r)
  <2>1. req[r].score \in Nat
    BY <1>u DEF RequestTypes
  <2> QED
    BY <1>14, <1>u, <2>1, EndRequestType, CommitExamType
       DEF CommitFinished, TypeOK, SeatStates, net
<1>15. CASE CountFinished(r)
  <2>1. NoStanding \in Standings
    BY DEF NoStanding, Standings
  <2> QED
    BY <1>15, <1>u, <2>1, StandingsType
       DEF CountFinished, TypeOK, RequestTypes, room, exams, net, locks
<1>16. CASE RankParticipants(r)
  BY <1>16, <1>u
     DEF RankParticipants, TypeOK, RequestTypes, Holders, room, exams, net
<1>17. CASE CompleteSession(r)
  <2>1. /\ tally' \in [Users -> Nat]
        /\ finalRank' \in [Users -> Nat]
    BY <1>17, <1>u DEF CompleteSession, TypeOK, RequestTypes, Standings
  <2>2. completions' \in 0..MaxCompletions
    BY <1>17 DEF CompleteSession, TypeOK, Min2
  <2>3. status' \in Statuses
    BY <1>17 DEF CompleteSession, TypeOK, Statuses
  <2> QED
    BY <1>17, <1>u, <2>1, <2>2, <2>3, EndRequestType, CommitExamType
       DEF CompleteSession, TypeOK, SeatStates, net
<1>18. CASE AbandonExam(r)
  BY <1>18, <1>u, EndRequestType DEF AbandonExam, TypeOK, ExamStates, room, net
<1> QED
  BY <1>1, <1>2, <1>3, <1>4, <1>5, <1>6, <1>7, <1>8, <1>9, <1>10, <1>11, <1>12, <1>12a,
     <1>13, <1>14, <1>15, <1>16, <1>17, <1>18 DEF Step

LEMMA UserEventType ==
  ASSUME TypeOK, NEW u \in Users, UserEvent(u)
  PROVE  TypeOK'
<1>1. CASE StaleExamCleanup(u)
  BY <1>1 DEF StaleExamCleanup, TypeOK, ExamStates, room, net, locks
<1>2. CASE SocketConnected(u)
  BY <1>2 DEF SocketConnected, MarkReady, TypeOK, SeatStates, exams, locks
<1>3. CASE Heartbeat(u)
  BY <1>3 DEF Heartbeat, MarkReady, TypeOK, SeatStates, exams, net, locks
<1>4. CASE SocketDisconnected(u)
  BY <1>4 DEF SocketDisconnected, TypeOK, room, exams, locks
<1>5. CASE GraceExpires(u)
  BY <1>5 DEF GraceExpires, TypeOK, room, exams, locks
<1>6. CASE GraceDisconnects(u)
  BY <1>6 DEF GraceDisconnects, TypeOK, SeatStates, exams, locks
<1> QED
  BY <1>1, <1>2, <1>3, <1>4, <1>5, <1>6 DEF UserEvent

\* Every variable keeps its type: statuses stay statuses, a row is held by a
\* request or by nobody, and a request's record stays well formed.
THEOREM TypeCorrect == Spec => []TypeOK
<1>1. Init => TypeOK
  <2> SUFFICES ASSUME Init PROVE TypeOK
    OBVIOUS
  <2>1. /\ status \in Statuses /\ name \in Names
        /\ sessionLock \in Holders /\ questionLock \in Holders
    BY AnyNameType DEF Init, Statuses, Holders
  <2>2. /\ seat \in [Users -> SeatStates] /\ exam \in [Users -> ExamStates]
        /\ grace \in [Users -> {"none", "armed", "due"}]
    BY DEF Init, SeatStates, ExamStates
  <2>3. /\ finishedAt \in [Users -> BOOLEAN] /\ socket \in [Users -> BOOLEAN]
        /\ late \in BOOLEAN
    BY DEF Init
  <2>4. /\ tally \in [Users -> Nat] /\ finalRank \in [Users -> Nat]
        /\ score \in [Users -> Nat] /\ awards \in [Users -> Nat]
        /\ completions \in 0..MaxCompletions
    BY DEF Init
  <2>5. /\ seatLock \in [Users -> Holders] /\ examLock \in [Users -> Holders]
        /\ req \in [Requests -> RequestTypes]
    BY IdleType DEF Init, Holders
  <2> QED
    BY <2>1, <2>2, <2>3, <2>4, <2>5 DEF TypeOK
<1>2. TypeOK /\ [Next]_vars => TypeOK'
  <2> SUFFICES ASSUME TypeOK, [Next]_vars PROVE TypeOK'
    OBVIOUS
  <2>1. CASE CreateSession
    BY <2>1, UsersAssumption
       DEF CreateSession, TypeOK, Statuses, SeatStates, exams, net, locks
  <2>2. ASSUME NEW r \in Requests, Arrive(r) PROVE TypeOK'
    BY <2>2, ArriveType
  <2>3. ASSUME NEW r \in Requests, Step(r) PROVE TypeOK'
    BY <2>3, StepType
  <2>4. ASSUME NEW r \in Requests, AbortRequest(r) \/ BreakDeadlock(r) PROVE TypeOK'
    BY <2>4, RollbackType DEF AbortRequest, BreakDeadlock
  <2>5. ASSUME NEW u \in Users, UserEvent(u) PROVE TypeOK'
    BY <2>5, UserEventType
  <2>6. CASE TimePasses
    BY <2>6 DEF TimePasses, TypeOK, room, exams, locks
  <2>7. CASE Restart
    BY <2>7, IdleType DEF Restart, TypeOK, Holders, room, exams
  <2>8. CASE UNCHANGED vars
    BY <2>8 DEF vars, TypeOK, room, exams, net, locks
  <2> QED
    BY <2>1, <2>2, <2>3, <2>4, <2>5, <2>6, <2>7, <2>8 DEF Next
<1> QED
  BY <1>1, <1>2, PTL DEF Spec

(***************************************************************************)
(* Frames: what a step must leave alone for the invariant to carry over.   *)
(***************************************************************************)
LEMMA QuietRows ==
  ASSUME RowInv, UNCHANGED <<status, seat, finishedAt, finalRank, exam, awards>>
  PROVE  RowInv'
  BY DEF RowInv, RecordOK, SeatsBounded, ExamsMatchSeats, HostSeated,
         CompletedIsDecided, Seated

LEMMA SeatedFinite ==
  /\ IsFiniteSet(Seated)
  /\ \A S \in SUBSET Seated : /\ IsFiniteSet(S)
                              /\ Cardinality(S) \in Nat
                              /\ Cardinality(S) <= Cardinality(Seated)
  BY UsersAssumption, FS_Subset, FS_CardinalityType DEF Seated

\* A request keeps what it relies on when the others' steps keep its rows,
\* the players of a duel under way, and the finishes already recorded.
LEMMA OtherRequest ==
  ASSUME NEW r \in Requests, RequestOK(r), TypeOK,
         req'[r] = req[r],
         sessionLock = r => sessionLock' = r,
         \A u \in Users : examLock[u] = r => examLock'[u] = r /\ exam'[u] = exam[u],
         status \notin {"NONE", "WAITING"} =>
            status' \notin {"NONE", "WAITING"} /\ Seated' = Seated,
         status = "COMPLETED" => status' = "COMPLETED",
         \A u \in Users : finishedAt[u] => finishedAt'[u],
         \A u \in Users : exam[u] # "NONE" => exam'[u] # "NONE"
  PROVE  RequestOK(r)'
<1> DEFINE q == req[r]
           u == q.user
<1>1. u \in Users /\ Seated \subseteq Users
  BY DEF TypeOK, RequestTypes, Seated
<1>2. CASE q.pc \in Finalizing
  BY <1>1, <1>2 DEF RequestOK, Finalizing
<1>3. CASE q.pc \notin Finalizing
  BY <1>1, <1>3 DEF RequestOK, Finalizing
<1> QED
  BY <1>2, <1>3

LEMMA IdleRequest ==
  ASSUME NEW r \in Requests, req'[r] = Idle
  PROVE  RequestOK(r)'
  BY DEF RequestOK, Idle, Request, Finalizing

\* The end of a request gives back its own rows only.
LEMMA EndRequestFrame ==
  ASSUME TypeOK, NEW r \in Requests, EndRequest(r)
  PROVE  /\ req'[r] = Idle
         /\ \A t \in Requests \ {r} :
               /\ req'[t] = req[t]
               /\ sessionLock = t => sessionLock' = t
               /\ \A u \in Users : examLock[u] = t => examLock'[u] = t
  BY DEF TypeOK, EndRequest, FreeRow, FreeExams

LEMMA RollbackInv ==
  ASSUME Inv, NEW r \in Requests, Rollback(r)
  PROVE  RequestInv' /\ RowInv'
<1>1. RowInv'
  BY QuietRows DEF Rollback, Inv, room, exams
<1>2. RequestOK(r)'
  BY EndRequestFrame, IdleRequest DEF Rollback, Inv
<1>3. ASSUME NEW t \in Requests \ {r} PROVE RequestOK(t)'
  BY <1>3, EndRequestFrame, OtherRequest
     DEF Rollback, Inv, RequestInv, room, exams, Seated
<1> QED
  BY <1>1, <1>2, <1>3 DEF RequestInv

(***************************************************************************)
(* Steps that change no committed row.                                     *)
(***************************************************************************)
LEMMA ArriveInv ==
  ASSUME Inv, NEW r \in Requests, Arrive(r)
  PROVE  RequestInv' /\ RowInv'
<1>0. UNCHANGED <<room, exams, locks>>
  BY DEF Arrive, RequestSession, RequestSubmit, RequestFinished, RequestAbandon
<1>1. RowInv'
  BY <1>0, QuietRows DEF Inv, room, exams
<1>2. RequestOK(r)'
  <2>1. ASSUME NEW op \in AllOps, NEW u \in Users, NEW n \in Names,
               RequestSession(r, op, u, n)
        PROVE  RequestOK(r)'
    BY <2>1 DEF RequestSession, RequestOK, Request, Finalizing, Inv, TypeOK
  <2>2. ASSUME NEW u \in Users, NEW s \in Scores, RequestSubmit(r, u, s)
        PROVE  RequestOK(r)'
    BY <2>2 DEF RequestSubmit, RequestOK, Request, Finalizing, Inv, TypeOK
  <2>3. ASSUME NEW u \in Users, RequestFinished(r, u)
        PROVE  RequestOK(r)'
    <3>1. u \in Seated /\ finishedAt[u]
      BY <2>3 DEF RequestFinished, Inv, RowInv, RecordOK, ExamsMatchSeats
    <3> QED
      BY <2>3, <3>1 DEF RequestFinished, RequestOK, Request, Finalizing, Inv,
                        TypeOK, room, exams, Seated
  <2>4. ASSUME NEW u \in Users, RequestAbandon(r, u)
        PROVE  RequestOK(r)'
    BY <2>4 DEF RequestAbandon, RequestOK, Request, Finalizing, Inv, TypeOK, exams
  <2>5. name \in Names
    BY DEF Inv, TypeOK
  <2> QED
    BY <2>1, <2>2, <2>3, <2>4, <2>5 DEF Arrive, AllOps
<1>3. ASSUME NEW t \in Requests \ {r} PROVE RequestOK(t)'
  <2>1. req'[t] = req[t]
    BY <1>3 DEF Arrive, RequestSession, RequestSubmit, RequestFinished,
                RequestAbandon, Inv, TypeOK
  <2> QED
    BY <1>0, <1>3, <2>1, OtherRequest
       DEF Inv, RequestInv, room, exams, locks, Seated
<1> QED
  BY <1>1, <1>2, <1>3 DEF RequestInv

LEMMA LockSessionInv ==
  ASSUME Inv, NEW r \in Requests, LockSession(r)
  PROVE  RequestInv' /\ RowInv'
<1>1. RowInv'
  BY QuietRows DEF LockSession, Inv, room, exams
<1>2. RequestOK(r)'
  BY DEF LockSession, RequestOK, Finalizing, Inv, RequestInv, TypeOK, RequestTypes, room, exams, locks, Seated
<1>3. ASSUME NEW t \in Requests \ {r} PROVE RequestOK(t)'
  BY <1>3, OtherRequest, RequestsAssumption
     DEF LockSession, Inv, RequestInv, TypeOK, room, exams, locks, Seated
<1> QED
  BY <1>1, <1>2, <1>3 DEF RequestInv

LEMMA ClaimExamInv ==
  ASSUME Inv, NEW r \in Requests, ClaimExam(r)
  PROVE  RequestInv' /\ RowInv'
<1>1. RowInv'
  BY QuietRows DEF ClaimExam, Inv, room, exams
<1>2. RequestOK(r)'
  <2> DEFINE u == req[r].user
  <2>1. u \in Users /\ exam[u] = "IN_PROGRESS" /\ RequestOK(r) /\ req[r].op = "submit"
    BY DEF ClaimExam, Inv, RequestInv, RequestOK, TypeOK, RequestTypes
  <2>2. u \in Seated /\ status \notin {"NONE", "WAITING"}
    BY <2>1 DEF Inv, RowInv, ExamsMatchSeats
  <2>3. req'[r] = [req[r] EXCEPT !.pc = "grade"] /\ examLock'[u] = r
    BY <2>1 DEF ClaimExam, Inv, TypeOK
  <2> QED
    BY <2>1, <2>2, <2>3 DEF ClaimExam, RequestOK, Finalizing, TypeOK, RequestTypes,
                            Inv, room, exams, Seated
<1>3. ASSUME NEW t \in Requests \ {r} PROVE RequestOK(t)'
  BY <1>3, OtherRequest, RequestsAssumption
     DEF ClaimExam, Inv, RequestInv, TypeOK, room, exams, locks, Seated
<1> QED
  BY <1>1, <1>2, <1>3 DEF RequestInv

LEMMA UpdateQuestionStatsInv ==
  ASSUME Inv, NEW r \in Requests, UpdateQuestionStats(r)
  PROVE  RequestInv' /\ RowInv'
<1>1. RowInv'
  BY QuietRows DEF UpdateQuestionStats, Inv, room, exams
<1>2. RequestOK(r)'
  BY DEF UpdateQuestionStats, RequestOK, Finalizing, Inv, RequestInv, TypeOK, RequestTypes, room, exams, locks, Seated
<1>3. ASSUME NEW t \in Requests \ {r} PROVE RequestOK(t)'
  BY <1>3, OtherRequest
     DEF UpdateQuestionStats, Inv, RequestInv, TypeOK, room, exams, locks, Seated
<1> QED
  BY <1>1, <1>2, <1>3 DEF RequestInv

LEMMA ReadSessionInv ==
  ASSUME Inv, NEW r \in Requests, ReadSession(r)
  PROVE  RequestInv' /\ RowInv'
<1>1. RowInv'
  BY QuietRows DEF ReadSession, Inv, room, exams
<1>2. RequestOK(r)'
  BY DEF ReadSession, RequestOK, Finalizing, Inv, RequestInv, TypeOK, RequestTypes, room, exams, locks, Seated
<1>3. ASSUME NEW t \in Requests \ {r} PROVE RequestOK(t)'
  BY <1>3, OtherRequest
     DEF ReadSession, Inv, RequestInv, TypeOK, room, exams, locks, Seated
<1> QED
  BY <1>1, <1>2, <1>3 DEF RequestInv

LEMMA ReadParticipantInv ==
  ASSUME Inv, NEW r \in Requests, ReadParticipant(r)
  PROVE  RequestInv' /\ RowInv'
<1>1. RowInv'
  BY QuietRows DEF ReadParticipant, Inv, room, exams
<1>2. RequestOK(r)'
  BY DEF ReadParticipant, RequestOK, Finalizing, Inv, RequestInv, TypeOK, RequestTypes, room, exams, locks, Seated
<1>3. ASSUME NEW t \in Requests \ {r} PROVE RequestOK(t)'
  BY <1>3, OtherRequest
     DEF ReadParticipant, Inv, RequestInv, TypeOK, room, exams, locks, Seated
<1> QED
  BY <1>1, <1>2, <1>3 DEF RequestInv

LEMMA MarkFinishedInv ==
  ASSUME Inv, NEW r \in Requests, MarkFinished(r)
  PROVE  RequestInv' /\ RowInv'
<1>1. RowInv'
  BY QuietRows DEF MarkFinished, Inv, room, exams
<1>2. RequestOK(r)'
  BY DEF MarkFinished, RequestOK, Finalizing, Inv, RequestInv, TypeOK, RequestTypes, room, exams, locks, Seated
<1>3. ASSUME NEW t \in Requests \ {r} PROVE RequestOK(t)'
  BY <1>3, OtherRequest
     DEF MarkFinished, Inv, RequestInv, TypeOK, room, exams, locks, Seated
<1> QED
  BY <1>1, <1>2, <1>3 DEF RequestInv

LEMMA CountFinishedInv ==
  ASSUME Inv, NEW r \in Requests, CountFinished(r)
  PROVE  RequestInv' /\ RowInv'
<1>1. RowInv'
  BY QuietRows DEF CountFinished, Inv, room, exams
<1>2. RequestOK(r)'
  <2>1. AllFinished(r) => \A v \in Seated \ {req[r].user} : finishedAt[v]
    BY DEF AllFinished, Inv, RowInv, RecordOK, Seated
  <2>2. ASSUME NEW v \in Seated
        PROVE  ComputeStandings(r)[v].rank \in 1..MaxParticipants
    BY <2>2, RankBound DEF Inv, RowInv
  <2>3. /\ req[r] \in RequestTypes /\ RequestOK(r) /\ req[r].pc = "tally"
        /\ req'[r].op = req[r].op
        /\ req'[r].user = req[r].user /\ req'[r].seen = req[r].seen
        /\ \/ /\ AllFinished(r) /\ req'[r].pc = "rank"
              /\ req'[r].standings = ComputeStandings(r)
           \/ req'[r].pc = "commit"
    BY DEF CountFinished, Inv, TypeOK, RequestInv, RequestTypes
  <2>4. UNCHANGED <<status, seat, finishedAt, exam, examLock, Seated>>
    BY DEF CountFinished, room, exams, locks, Seated
  <2> QED
    BY <2>1, <2>2, <2>3, <2>4 DEF RequestOK, Finalizing
<1>3. ASSUME NEW t \in Requests \ {r} PROVE RequestOK(t)'
  BY <1>3, OtherRequest
     DEF CountFinished, Inv, RequestInv, TypeOK, room, exams, locks, Seated
<1> QED
  BY <1>1, <1>2, <1>3 DEF RequestInv

LEMMA RankParticipantsInv ==
  ASSUME Inv, NEW r \in Requests, RankParticipants(r)
  PROVE  RequestInv' /\ RowInv'
<1>1. RowInv'
  BY QuietRows DEF RankParticipants, Inv, room, exams
<1>2. RequestOK(r)'
  <2>1. /\ req[r] \in RequestTypes /\ RequestOK(r) /\ req[r].pc = "rank"
        /\ req'[r].pc = "close" /\ req'[r].op = req[r].op
        /\ req'[r].user = req[r].user /\ req'[r].seen = req[r].seen
        /\ req'[r].standings = req[r].standings
    BY DEF RankParticipants, Inv, TypeOK, RequestInv, RequestTypes
  <2>2. UNCHANGED <<status, seat, finishedAt, exam, examLock, Seated>>
    BY DEF RankParticipants, room, exams, Seated
  <2> QED
    BY <2>1, <2>2 DEF RequestOK, Finalizing
<1>3. ASSUME NEW t \in Requests \ {r} PROVE RequestOK(t)'
  BY <1>3, OtherRequest
     DEF RankParticipants, Inv, RequestInv, TypeOK, room, exams, locks, Seated
<1> QED
  BY <1>1, <1>2, <1>3 DEF RequestInv

(***************************************************************************)
(* Steps that write the rows.                                              *)
(***************************************************************************)
LEMMA JoinSessionInv ==
  ASSUME Inv, NEW r \in Requests, JoinSession(r)
  PROVE  RequestInv' /\ RowInv'
<1> DEFINE u == req[r].user
<1>0. /\ u \in Users /\ EndRequest(r) /\ TypeOK /\ RowInv /\ RequestOK(r)
  BY DEF JoinSession, Apply, Inv, RequestInv, TypeOK, RequestTypes
<1>1. RowInv'
  <2>1. CASE UNCHANGED seat
    BY <1>0, <2>1, QuietRows DEF JoinSession, exams
  <2>2. CASE /\ status = "WAITING" /\ u \notin Seated
             /\ Cardinality(Seated) < MaxParticipants
             /\ seat' = [seat EXCEPT ![u] = "JOINED"]
    <3>1. Seated' = Seated \cup {u}
      BY <1>0, <2>2 DEF Seated, TypeOK
    <3>2. Cardinality(Seated') = Cardinality(Seated) + 1 /\ Cardinality(Seated) \in Nat
      BY <2>2, <3>1, SeatedFinite, FS_AddElement, FS_CardinalityType
    <3> QED
      BY <1>0, <2>2, <3>1, <3>2 DEF JoinSession, RowInv, RecordOK, SeatsBounded,
         ExamsMatchSeats, HostSeated, CompletedIsDecided, exams, TypeOK
  <2> QED
    BY <2>1, <2>2 DEF JoinSession
<1>2. RequestOK(r)'
  BY <1>0, EndRequestFrame, IdleRequest
<1>3. ASSUME NEW t \in Requests \ {r} PROVE RequestOK(t)'
  BY <1>0, <1>3, EndRequestFrame, OtherRequest
     DEF JoinSession, Inv, RequestInv, exams, Seated
<1> QED
  BY <1>1, <1>2, <1>3 DEF RequestInv

LEMMA StartSessionInv ==
  ASSUME Inv, NEW r \in Requests, StartSession(r)
  PROVE  RequestInv' /\ RowInv'
<1> DEFINE u == req[r].user
<1>0. /\ u \in Users /\ EndRequest(r) /\ TypeOK /\ RowInv /\ RequestOK(r)
  BY DEF StartSession, Apply, Inv, RequestInv, TypeOK, RequestTypes
<1> DEFINE active == {v \in Seated : seat[v] # "DISCONNECTED"}
<1>4. CASE UNCHANGED <<exam, status, seat>>
  <2>1. RowInv'
    BY <1>0, <1>4, QuietRows DEF StartSession
  <2>2. ASSUME NEW t \in Requests \ {r} PROVE RequestOK(t)'
    BY <1>0, <1>4, <2>2, EndRequestFrame, OtherRequest
       DEF StartSession, Inv, RequestInv, Seated
  <2> QED
    BY <1>0, <2>1, <2>2, EndRequestFrame, IdleRequest DEF RequestInv
<1>5. CASE ~UNCHANGED <<exam, status, seat>>
  <2>1. /\ status = "WAITING" /\ status' = "IN_PROGRESS"
        /\ Cardinality(active) = MaxParticipants
        /\ exam' = [v \in Users |-> IF v \in Seated THEN "IN_PROGRESS" ELSE exam[v]]
        /\ seat' = [v \in Users |-> IF seat[v] \in {"JOINED", "DISCONNECTED"}
                                    THEN "READY" ELSE seat[v]]
    BY <1>5 DEF StartSession
  <2>2. Seated' = Seated
    BY <2>1 DEF Seated
  <2>3. Cardinality(Seated) = MaxParticipants
    <3>1. active \in SUBSET Seated /\ Seated \in SUBSET Seated
      OBVIOUS
    <3>2. Cardinality(active) <= Cardinality(Seated) /\ Cardinality(Seated) \in Nat
      BY <3>1, SeatedFinite
    <3> QED
      BY <1>0, <2>1, <3>2 DEF RowInv, SeatsBounded
  <2>4. \A v \in Users : exam[v] = "NONE" /\ awards[v] = 0
    BY <1>0, <2>1 DEF RowInv, ExamsMatchSeats, RecordOK
  <2>5. ASSUME NEW v \in Users PROVE RecordOK(v)'
    BY <1>0, <2>1, <2>4, <2>5 DEF StartSession, RowInv, RecordOK
  <2>6. RowInv'
    BY <1>0, <2>1, <2>2, <2>3, <2>5 DEF RowInv, SeatsBounded, ExamsMatchSeats,
       HostSeated, CompletedIsDecided, Seated
  <2>7. ASSUME NEW t \in Requests \ {r} PROVE RequestOK(t)'
    <3>1. req'[t] = req[t] /\ req[t].pc # "write" /\ req[t].pc \notin Finalizing
      BY <1>0, <2>1, <2>4, <2>7, EndRequestFrame
         DEF Inv, RequestInv, RequestOK, TypeOK, RequestTypes
    <3> QED
      BY <1>0, <2>7, <3>1, EndRequestFrame
         DEF Inv, RequestInv, RequestOK, Finalizing
  <2> QED
    BY <1>0, <2>6, <2>7, EndRequestFrame, IdleRequest DEF RequestInv
<1> QED
  BY <1>4, <1>5

LEMMA LeaveSessionInv ==
  ASSUME Inv, NEW r \in Requests, LeaveSession(r)
  PROVE  RequestInv' /\ RowInv'
<1> DEFINE u == req[r].user
<1>0. /\ u \in Users /\ EndRequest(r) /\ TypeOK /\ RowInv /\ RequestOK(r)
  BY DEF LeaveSession, Apply, Inv, RequestInv, TypeOK, RequestTypes
<1>a. UNCHANGED <<finishedAt, finalRank, exam, score, awards>>
  BY DEF LeaveSession, exams
<1>1. RowInv'
  <2>1. CASE /\ status = "WAITING" /\ status' = "CANCELLED" /\ UNCHANGED seat
    BY <1>0, <1>a, <2>1 DEF RowInv, RecordOK, SeatsBounded, ExamsMatchSeats,
       HostSeated, CompletedIsDecided, Seated
  <2>2. CASE /\ status = "WAITING" /\ u # Host /\ UNCHANGED status
             /\ seat' = [seat EXCEPT ![u] = "ABSENT"]
    <3>1. Seated' = Seated \ {u}
      BY <1>0, <2>2 DEF Seated, TypeOK
    <3>2. Cardinality(Seated') <= MaxParticipants
      <4>1. Seated' \in SUBSET Seated
        BY <3>1
      <4>2. Seated \in SUBSET Seated
        OBVIOUS
      <4> QED
        BY <1>0, <4>1, <4>2, SeatedFinite DEF RowInv, SeatsBounded
    <3> QED
      BY <1>0, <1>a, <2>2, <3>1, <3>2 DEF RowInv, RecordOK, SeatsBounded,
         ExamsMatchSeats, HostSeated, CompletedIsDecided, TypeOK
  <2>3. CASE /\ status = "IN_PROGRESS" /\ u \in Seated /\ UNCHANGED status
             /\ seat' = [seat EXCEPT ![u] = "DISCONNECTED"]
    <3>1. Seated' = Seated
      BY <1>0, <2>3 DEF Seated, TypeOK
    <3> QED
      BY <1>0, <1>a, <2>3, <3>1 DEF RowInv, RecordOK, SeatsBounded,
         ExamsMatchSeats, HostSeated, CompletedIsDecided, TypeOK
  <2>4. CASE UNCHANGED <<status, seat>>
    BY <1>0, <1>a, <2>4, QuietRows
  <2> QED
    BY <2>1, <2>2, <2>3, <2>4 DEF LeaveSession
<1>2. RequestOK(r)'
  BY <1>0, EndRequestFrame, IdleRequest
<1>4. status \notin {"NONE", "WAITING"} =>
         status' \notin {"NONE", "WAITING"} /\ Seated' = Seated
  BY <1>0 DEF LeaveSession, Seated, TypeOK
<1>5. status = "COMPLETED" => status' = "COMPLETED"
  BY DEF LeaveSession
<1>3. ASSUME NEW t \in Requests \ {r} PROVE RequestOK(t)'
  BY <1>0, <1>a, <1>3, <1>4, <1>5, EndRequestFrame, OtherRequest DEF Inv, RequestInv
<1> QED
  BY <1>1, <1>2, <1>3 DEF RequestInv

LEMMA CancelSessionInv ==
  ASSUME Inv, NEW r \in Requests, CancelSession(r)
  PROVE  RequestInv' /\ RowInv'
<1> DEFINE u == req[r].user
<1>0. /\ u \in Users /\ EndRequest(r) /\ TypeOK /\ RowInv /\ RequestOK(r)
  BY DEF CancelSession, Apply, Inv, RequestInv, TypeOK, RequestTypes
<1>1. RowInv'
  BY <1>0 DEF CancelSession, RowInv, RecordOK, SeatsBounded, ExamsMatchSeats,
     HostSeated, CompletedIsDecided, Seated, exams
<1>2. RequestOK(r)'
  BY <1>0, EndRequestFrame, IdleRequest
<1>3. ASSUME NEW t \in Requests \ {r} PROVE RequestOK(t)'
  BY <1>0, <1>3, EndRequestFrame, OtherRequest
     DEF CancelSession, Inv, RequestInv, exams, Seated
<1> QED
  BY <1>1, <1>2, <1>3 DEF RequestInv

LEMMA UpdateSessionNameInv ==
  ASSUME Inv, NEW r \in Requests, UpdateSessionName(r)
  PROVE  RequestInv' /\ RowInv'
<1> DEFINE u == req[r].user
<1>0. /\ u \in Users /\ EndRequest(r) /\ TypeOK /\ RowInv /\ RequestOK(r)
  BY DEF UpdateSessionName, Apply, Inv, RequestInv, TypeOK, RequestTypes
<1>1. RowInv'
  BY <1>0, QuietRows DEF UpdateSessionName, exams
<1>2. RequestOK(r)'
  BY <1>0, EndRequestFrame, IdleRequest
<1>3. ASSUME NEW t \in Requests \ {r} PROVE RequestOK(t)'
  BY <1>0, <1>3, EndRequestFrame, OtherRequest
     DEF UpdateSessionName, Inv, RequestInv, exams, Seated
<1> QED
  BY <1>1, <1>2, <1>3 DEF RequestInv

\* A finalizing submission holds its exam, so nobody else relies on it.
LEMMA ExamHeldAlone ==
  ASSUME Inv, NEW r \in Requests, req[r].pc \in Finalizing, req[r].op = "submit",
         NEW t \in Requests \ {r}
  PROVE  examLock[req[r].user] # t
  BY DEF Inv, RequestInv, RequestOK

LEMMA AlreadyFinishedInv ==
  ASSUME Inv, NEW r \in Requests, AlreadyFinished(r)
  PROVE  RequestInv' /\ RowInv'
<1> DEFINE u == req[r].user
<1>0. /\ u \in Users /\ EndRequest(r) /\ TypeOK /\ RowInv /\ RequestOK(r)
  BY DEF AlreadyFinished, Inv, RequestInv, TypeOK, RequestTypes
<1>a. req[r].op # "submit" /\ UNCHANGED exams
  BY <1>0 DEF AlreadyFinished, RowInv, RecordOK, RequestOK, Finalizing, CommitExam
<1>1. RowInv'
  BY <1>0, <1>a, QuietRows DEF AlreadyFinished, room, exams
<1>2. RequestOK(r)'
  BY <1>0, EndRequestFrame, IdleRequest
<1>3. ASSUME NEW t \in Requests \ {r} PROVE RequestOK(t)'
  BY <1>0, <1>a, <1>3, EndRequestFrame, OtherRequest
     DEF AlreadyFinished, Inv, RequestInv, room, exams, Seated
<1> QED
  BY <1>1, <1>2, <1>3 DEF RequestInv

LEMMA CommitFinishedInv ==
  ASSUME Inv, NEW r \in Requests, CommitFinished(r)
  PROVE  RequestInv' /\ RowInv'
<1> DEFINE u == req[r].user
<1>0. /\ u \in Users /\ EndRequest(r) /\ TypeOK /\ RowInv /\ RequestOK(r)
  BY DEF CommitFinished, Inv, RequestInv, TypeOK, RequestTypes
<1>a. /\ status \notin {"NONE", "WAITING"} /\ u \in Seated
      /\ req[r].op \in {"submit", "finished"} /\ req[r].pc \in Finalizing
      /\ req[r].op = "submit" => exam[u] = "IN_PROGRESS" /\ awards[u] = 0
      /\ req[r].op = "finished" => finishedAt[u] /\ awards[u] = 1
  BY <1>0 DEF CommitFinished, RequestOK, Finalizing, RowInv, RecordOK
<1>b. Seated' = Seated
  BY <1>0, <1>a DEF CommitFinished, Seated, TypeOK
<1>c. \A v \in Users : finishedAt[v] => finishedAt'[v]
  BY <1>0 DEF CommitFinished, TypeOK
<1>d. \A v \in Users : RecordOK(v)'
  BY <1>0, <1>a DEF CommitFinished, CommitExam, RowInv, RecordOK, TypeOK, exams
<1>e. \A v \in Users : exam[v] # "NONE" <=> exam'[v] # "NONE"
  BY <1>0, <1>a DEF CommitFinished, CommitExam, TypeOK, exams
<1>1. RowInv'
  BY <1>0, <1>b, <1>c, <1>d, <1>e DEF CommitFinished, RowInv, SeatsBounded,
     ExamsMatchSeats, HostSeated, CompletedIsDecided, Seated
<1>2. RequestOK(r)'
  BY <1>0, EndRequestFrame, IdleRequest
<1>3. ASSUME NEW t \in Requests \ {r} PROVE RequestOK(t)'
  <2>1. \A v \in Users : examLock[v] = t => exam'[v] = exam[v]
    BY <1>0, <1>a, <1>3, ExamHeldAlone DEF CommitFinished, CommitExam, exams, TypeOK
  <2> QED
    BY <1>0, <1>a, <1>b, <1>c, <1>e, <1>3, <2>1, EndRequestFrame, OtherRequest
       DEF CommitFinished, Inv, RequestInv
<1> QED
  BY <1>1, <1>2, <1>3 DEF RequestInv

LEMMA CompleteSessionInv ==
  ASSUME Inv, NEW r \in Requests, CompleteSession(r)
  PROVE  RequestInv' /\ RowInv'
<1> DEFINE u == req[r].user
<1>0. /\ u \in Users /\ EndRequest(r) /\ TypeOK /\ RowInv /\ RequestOK(r)
  BY DEF CompleteSession, Inv, RequestInv, TypeOK, RequestTypes
<1>a. /\ status \notin {"NONE", "WAITING"} /\ u \in Seated
      /\ req[r].op \in {"submit", "finished"} /\ req[r].pc \in Finalizing
      /\ req[r].op = "submit" => exam[u] = "IN_PROGRESS" /\ awards[u] = 0
      /\ req[r].op = "finished" => finishedAt[u] /\ awards[u] = 1
  BY <1>0 DEF CompleteSession, RequestOK, Finalizing, RowInv, RecordOK
<1>b. Seated' = Seated
  BY <1>0, <1>a DEF CompleteSession, Seated, TypeOK
<1>c. \A v \in Users : finishedAt[v] => finishedAt'[v]
  BY <1>0 DEF CompleteSession, TypeOK
<1>d. \A v \in Users : RecordOK(v)'
  BY <1>0, <1>a DEF CompleteSession, CommitExam, RowInv, RecordOK, TypeOK, exams
<1>e. \A v \in Users : exam[v] # "NONE" <=> exam'[v] # "NONE"
  BY <1>0, <1>a DEF CompleteSession, CommitExam, TypeOK, exams
<1>f. status' = "COMPLETED"
  BY <1>0 DEF CompleteSession, RequestOK
<1>g. Cardinality(Seated) = MaxParticipants /\ \A v \in Seated : exam[v] # "NONE"
  <2>1. exam[u] # "NONE"
    BY <1>0, <1>a DEF RowInv, RecordOK
  <2> QED
    BY <1>0, <2>1 DEF RowInv, ExamsMatchSeats
<1>h. \A v \in Seated : finishedAt'[v] /\ finalRank'[v] \in 1..MaxParticipants
  BY <1>0 DEF CompleteSession, RequestOK, TypeOK, Seated
<1>1. RowInv'
  BY <1>0, <1>a, <1>b, <1>d, <1>e, <1>f, <1>g, <1>h DEF RowInv, SeatsBounded,
     ExamsMatchSeats, HostSeated, CompletedIsDecided, Seated
<1>2. RequestOK(r)'
  BY <1>0, EndRequestFrame, IdleRequest
<1>3. ASSUME NEW t \in Requests \ {r} PROVE RequestOK(t)'
  <2>1. \A v \in Users : examLock[v] = t => exam'[v] = exam[v]
    BY <1>0, <1>a, <1>3, ExamHeldAlone DEF CompleteSession, CommitExam, exams, TypeOK
  <2> QED
    BY <1>0, <1>a, <1>b, <1>c, <1>e, <1>3, <2>1, EndRequestFrame, OtherRequest
       DEF CompleteSession, Inv, RequestInv
<1> QED
  BY <1>1, <1>2, <1>3 DEF RequestInv

LEMMA AbandonExamInv ==
  ASSUME Inv, NEW r \in Requests, AbandonExam(r)
  PROVE  RequestInv' /\ RowInv'
<1> DEFINE u == req[r].user
<1>0. /\ u \in Users /\ EndRequest(r) /\ TypeOK /\ RowInv /\ RequestOK(r)
  BY DEF AbandonExam, Inv, RequestInv, TypeOK, RequestTypes
<1>a. exam[u] # "NONE" /\ examLock[u] = NoReq
  BY <1>0 DEF AbandonExam, RequestOK
<1>1. RowInv'
  BY <1>0, <1>a DEF AbandonExam, RowInv, RecordOK, SeatsBounded, ExamsMatchSeats,
     HostSeated, CompletedIsDecided, Seated, room, TypeOK
<1>2. RequestOK(r)'
  BY <1>0, EndRequestFrame, IdleRequest
<1>3. ASSUME NEW t \in Requests \ {r} PROVE RequestOK(t)'
  BY <1>0, <1>a, <1>3, EndRequestFrame, OtherRequest, RequestsAssumption
     DEF AbandonExam, Inv, RequestInv, room, Seated, TypeOK
<1> QED
  BY <1>1, <1>2, <1>3 DEF RequestInv

\* The seats a socket or a timer writes stay seats.
LEMMA UserEventInv ==
  ASSUME Inv, NEW u \in Users, UserEvent(u)
  PROVE  RequestInv' /\ RowInv'
<1>0. TypeOK /\ RowInv /\ RequestInv /\ UNCHANGED <<status, finishedAt, finalRank, locks, req>>
  BY DEF Inv, UserEvent, StaleExamCleanup, SocketConnected, Heartbeat,
         SocketDisconnected, GraceExpires, GraceDisconnects, room
<1>1. Seated' = Seated
  BY <1>0 DEF UserEvent, StaleExamCleanup, SocketConnected, Heartbeat, SocketDisconnected,
         GraceExpires, GraceDisconnects, MarkReady, Seated, TypeOK, room
<1>2. CASE StaleExamCleanup(u)
  <2>1. RowInv'
    BY <1>0, <1>1, <1>2 DEF StaleExamCleanup, RowInv, RecordOK, SeatsBounded,
       ExamsMatchSeats, HostSeated, CompletedIsDecided, room, TypeOK
  <2>2. ASSUME NEW t \in Requests PROVE RequestOK(t)'
    BY <1>0, <1>1, <1>2, <2>2, OtherRequest, RequestsAssumption
       DEF StaleExamCleanup, RequestInv, locks, TypeOK
  <2> QED
    BY <2>1, <2>2 DEF RequestInv
<1>3. CASE ~StaleExamCleanup(u)
  <2>1. UNCHANGED exams
    BY <1>3 DEF UserEvent, SocketConnected, Heartbeat, SocketDisconnected,
                GraceExpires, GraceDisconnects
  <2>2. \A v \in Users : seat'[v] = "FINISHED" => seat[v] = "FINISHED"
    BY <1>0, <1>3 DEF UserEvent, SocketConnected, Heartbeat, SocketDisconnected,
         GraceExpires, GraceDisconnects, MarkReady, TypeOK, room
  <2>3. RowInv'
    BY <1>0, <1>1, <2>1, <2>2 DEF RowInv, RecordOK, SeatsBounded,
       ExamsMatchSeats, HostSeated, CompletedIsDecided, exams
  <2>4. ASSUME NEW t \in Requests PROVE RequestOK(t)'
    BY <1>0, <1>1, <2>1, <2>4, OtherRequest DEF RequestInv, locks, exams
  <2> QED
    BY <2>3, <2>4 DEF RequestInv
<1> QED
  BY <1>2, <1>3

LEMMA StepInv ==
  ASSUME Inv, NEW r \in Requests, Step(r)
  PROVE  RequestInv' /\ RowInv'
  BY LockSessionInv, JoinSessionInv, StartSessionInv, LeaveSessionInv,
     CancelSessionInv, UpdateSessionNameInv, ClaimExamInv, RollbackInv,
     UpdateQuestionStatsInv, AlreadyFinishedInv, ReadSessionInv, ReadParticipantInv, MarkFinishedInv,
     CommitFinishedInv, CountFinishedInv, RankParticipantsInv, CompleteSessionInv,
     AbandonExamInv
  DEF Step, ClaimLost, RefuseFinalization

LEMMA InitInv == Init => RequestInv /\ RowInv
<1> SUFFICES ASSUME Init PROVE RequestInv /\ RowInv
  OBVIOUS
<1>1. RequestInv
  BY DEF Init, RequestInv, RequestOK, Idle, Request, Finalizing
<1>2. Seated = {}
  BY DEF Init, Seated
<1>3. RowInv
  BY <1>2, FS_EmptySet DEF Init, RowInv, RecordOK, SeatsBounded, ExamsMatchSeats,
     HostSeated, CompletedIsDecided
<1> QED
  BY <1>1, <1>3

LEMMA NextInv == TypeOK /\ Inv /\ [Next]_vars => RequestInv' /\ RowInv'
<1> SUFFICES ASSUME Inv, [Next]_vars PROVE RequestInv' /\ RowInv'
  OBVIOUS
<1>1. CASE CreateSession
  <2>1. Seated = {} /\ Seated' = {Host}
    BY <1>1, UsersAssumption DEF CreateSession, Inv, RowInv, HostSeated, TypeOK, Seated
  <2>2. Cardinality(Seated') = 1
    BY <2>1, FS_Singleton
  <2>3. \A v \in Users : exam[v] = "NONE"
    BY <1>1 DEF CreateSession, Inv, RowInv, ExamsMatchSeats
  <2>4. RowInv'
    BY <1>1, <2>1, <2>2, <2>3 DEF CreateSession, Inv, RowInv, RecordOK, SeatsBounded,
       ExamsMatchSeats, HostSeated, CompletedIsDecided, TypeOK, exams
  <2>5. ASSUME NEW t \in Requests PROVE RequestOK(t)'
    BY <1>1, <2>5, OtherRequest DEF CreateSession, Inv, RequestInv, exams, locks
  <2> QED
    BY <2>4, <2>5 DEF RequestInv
<1>2. ASSUME NEW r \in Requests, Arrive(r) PROVE RequestInv' /\ RowInv'
  BY <1>2, ArriveInv
<1>3. ASSUME NEW r \in Requests, Step(r) PROVE RequestInv' /\ RowInv'
  BY <1>3, StepInv
<1>4. ASSUME NEW r \in Requests, AbortRequest(r) \/ BreakDeadlock(r)
      PROVE  RequestInv' /\ RowInv'
  BY <1>4, RollbackInv DEF AbortRequest, BreakDeadlock
<1>5. ASSUME NEW u \in Users, UserEvent(u) PROVE RequestInv' /\ RowInv'
  BY <1>5, UserEventInv
<1>6. CASE TimePasses \/ UNCHANGED vars
  <2>1. UNCHANGED <<room, exams, locks, req>>
    BY <1>6 DEF TimePasses, vars
  <2>2. RowInv'
    BY <2>1, QuietRows DEF Inv, room, exams
  <2>3. ASSUME NEW t \in Requests PROVE RequestOK(t)'
    BY <2>1, <2>3, OtherRequest DEF Inv, RequestInv, room, exams, locks, Seated
  <2> QED
    BY <2>2, <2>3 DEF RequestInv
<1>7. CASE Restart
  <2>1. RowInv'
    BY <1>7, QuietRows DEF Restart, Inv, room, exams
  <2>2. ASSUME NEW t \in Requests PROVE RequestOK(t)'
    BY <1>7, <2>2, IdleRequest DEF Restart
  <2> QED
    BY <2>1, <2>2 DEF RequestInv
<1> QED
  BY <1>1, <1>2, <1>3, <1>4, <1>5, <1>6, <1>7 DEF Next

(***************************************************************************)
(* Theorems.                                                               *)
(***************************************************************************)
\* The strengthening is an invariant: requests can rely on the rows they
\* hold, and exam, SP and participant agree in every committed state.
THEOREM Invariance == Spec => []Inv
<1>1. Init /\ TypeOK => Inv
  BY InitInv DEF Inv
<1>2. TypeOK /\ TypeOK' /\ Inv /\ [Next]_vars => Inv'
  BY NextInv DEF Inv
<1> QED
  BY <1>1, <1>2, TypeCorrect, PTL DEF Spec

\* However many players race for the last seat, two get one.
THEOREM AtMostTwoPlayers == Spec => []SeatsBounded
<1>1. Inv => SeatsBounded
  BY DEF Inv, RowInv
<1> QED
  BY <1>1, Invariance, PTL

\* Exams are dealt to the two seated players, or to nobody.
THEOREM ExamsDealtToPlayers == Spec => []ExamsMatchSeats
<1>1. Inv => ExamsMatchSeats
  BY DEF Inv, RowInv
<1> QED
  BY <1>1, Invariance, PTL

\* The two seats and the exams dealt to them, together.
THEOREM SeatsAreKept == Spec => []SeatsKept
  BY AtMostTwoPlayers, ExamsDealtToPlayers, PTL DEF SeatsKept

\* The SP of a duel exam are awarded once, whatever submissions overlap.
THEOREM SpAwardedOnce == Spec => []AwardedOnce
<1>1. Inv => AwardedOnce
  BY DEF Inv, RowInv, RecordOK, AwardedOnce
<1> QED
  BY <1>1, Invariance, PTL

\* A participant is recorded as finished exactly when the SP were awarded:
\* the submission is all or nothing.
THEOREM FinishAndAwardAgree == Spec => []FinishedIffAwarded
<1>1. Inv => FinishedIffAwarded
  BY DEF Inv, RowInv, RecordOK, FinishedIffAwarded
<1> QED
  BY <1>1, Invariance, PTL

\* A duel is completed only with both players finished and placed.
THEOREM CompletionIsDecided == Spec => []CompletedIsDecided
<1>1. Inv => CompletedIsDecided
  BY DEF Inv, RowInv
<1> QED
  BY <1>1, Invariance, PTL

\* Types, points, finish and completion together: what a submission settles.
THEOREM SubmissionsSettle == Spec => []AwardsSettled
  BY TypeCorrect, SpAwardedOnce, FinishAndAwardAgree, CompletionIsDecided, PTL DEF AwardsSettled

(***************************************************************************)
(* Steps the rows never take.                                              *)
(***************************************************************************)
LEMMA StatusStep ==
  ASSUME Inv, [Next]_vars
  PROVE  /\ status = "COMPLETED" => status' = "COMPLETED"
         /\ \A u \in Users : exam[u] # "NONE" /\ exam[u] # exam'[u] => exam'[u] # "IN_PROGRESS"
<1> DEFINE Goal == /\ status = "COMPLETED" => status' = "COMPLETED"
                  /\ \A u \in Users : exam[u] # "NONE" /\ exam[u] # exam'[u]
                                       => exam'[u] # "IN_PROGRESS"
<1>1. CASE CreateSession \/ TimePasses \/ Restart \/ UNCHANGED vars
  BY <1>1 DEF CreateSession, TimePasses, Restart, vars, room, exams
<1>2. ASSUME NEW r \in Requests, Arrive(r) \/ AbortRequest(r) \/ BreakDeadlock(r)
      PROVE  Goal
  BY <1>2 DEF Arrive, RequestSession, RequestSubmit, RequestFinished, RequestAbandon,
              AbortRequest, BreakDeadlock, Rollback, room, exams
<1>3. ASSUME NEW r \in Requests, Step(r) PROVE Goal
  <2>1. CASE StartSession(r)
    <3>1. status = "WAITING" => \A u \in Users : exam[u] = "NONE"
      BY DEF Inv, RowInv, ExamsMatchSeats
    <3> QED
      BY <2>1, <3>1 DEF StartSession
  <2>2. CASE CommitFinished(r) \/ CompleteSession(r) \/ AlreadyFinished(r)
    BY <2>2 DEF CommitFinished, CompleteSession, AlreadyFinished, CommitExam, Inv,
                TypeOK, room, exams
  <2>3. CASE LeaveSession(r) \/ CancelSession(r) \/ JoinSession(r) \/ UpdateSessionName(r)
    BY <2>3 DEF LeaveSession, CancelSession, JoinSession, UpdateSessionName, exams
  <2>4. CASE AbandonExam(r)
    BY <2>4 DEF AbandonExam, Inv, TypeOK, room
  <2>5. CASE ~(\/ StartSession(r) \/ CommitFinished(r) \/ CompleteSession(r)
               \/ AlreadyFinished(r) \/ LeaveSession(r) \/ CancelSession(r)
               \/ JoinSession(r) \/ UpdateSessionName(r) \/ AbandonExam(r))
    BY <1>3, <2>5 DEF Step, LockSession, ClaimExam, ClaimLost, UpdateQuestionStats,
       RefuseFinalization, ReadSession, ReadParticipant, MarkFinished, CountFinished, RankParticipants,
       Rollback, room, exams
  <2> QED
    BY <2>1, <2>2, <2>3, <2>4, <2>5
<1>4. ASSUME NEW u \in Users, UserEvent(u) PROVE Goal
  BY <1>4 DEF UserEvent, StaleExamCleanup, SocketConnected, Heartbeat,
     SocketDisconnected, GraceExpires, GraceDisconnects, Inv, TypeOK, room, exams
<1> QED
  BY <1>1, <1>2, <1>3, <1>4 DEF Next

\* No request, timer or job takes a duel out of COMPLETED.
THEOREM CompletedStays == Spec => CompletedIsFinal
<1>1. Inv /\ [Next]_vars => [status = "COMPLETED" => status' = "COMPLETED"]_vars
  BY StatusStep
<1> QED
  BY <1>1, Invariance, PTL DEF Spec, CompletedIsFinal

\* No exam is dealt twice or reopened.
THEOREM ExamsDealtOnce == Spec => DealtOnce
<1>1. Inv /\ [Next]_vars =>
        [\A u \in Users : exam[u] # "NONE" /\ exam[u] # exam'[u] => exam'[u] # "IN_PROGRESS"]_vars
  BY StatusStep
<1> QED
  BY <1>1, Invariance, PTL DEF Spec, DealtOnce

\* What was decided while a request waited stays decided.
THEOREM NothingIsUndone == Spec => NothingUndone
  BY CompletedStays, ExamsDealtOnce DEF NothingUndone

\* Only a rename that finds the duel waiting, under its row lock, changes the name.
THEOREM NameStaysFrozen == Spec => NameFrozen
<1>1. Inv /\ [Next]_vars => [status \notin {"NONE", "WAITING"} => name' = name]_vars
  <2> SUFFICES ASSUME Inv, Next, status \notin {"NONE", "WAITING"} PROVE name' = name
    BY DEF vars, room
  <2>1. CASE CreateSession
    BY <2>1 DEF CreateSession
  <2>2. CASE TimePasses \/ Restart
    BY <2>2 DEF TimePasses, Restart, room
  <2>3. ASSUME NEW r \in Requests, Arrive(r) \/ AbortRequest(r) \/ BreakDeadlock(r)
        PROVE  name' = name
    BY <2>3 DEF Arrive, RequestSession, RequestSubmit, RequestFinished, RequestAbandon,
                AbortRequest, BreakDeadlock, Rollback, room
  <2>4. ASSUME NEW r \in Requests, Step(r) PROVE name' = name
    <3>1. CASE UpdateSessionName(r)
      BY <3>1 DEF UpdateSessionName, Renamable
    <3>2. CASE ~UpdateSessionName(r)
      BY <2>4, <3>2 DEF Step, LockSession, JoinSession, StartSession, LeaveSession, CancelSession,
         ClaimExam, ClaimLost, UpdateQuestionStats, RefuseFinalization, ReadSession, AlreadyFinished,
         ReadParticipant, MarkFinished, CountFinished, CommitFinished, RankParticipants,
         CompleteSession, AbandonExam, CommitExam, Rollback, room
    <3> QED
      BY <3>1, <3>2
  <2>5. ASSUME NEW u \in Users, UserEvent(u) PROVE name' = name
    BY <2>5 DEF UserEvent, StaleExamCleanup, SocketConnected, Heartbeat,
       SocketDisconnected, GraceExpires, GraceDisconnects, MarkReady, room
  <2> QED
    BY <2>1, <2>2, <2>3, <2>4, <2>5 DEF Next
<1> QED
  BY <1>1, Invariance, PTL DEF Spec, NameFrozen

(***************************************************************************)
(* The contract.                                                           *)
(***************************************************************************)
HandedIn == {u \in Users : finishedAt[u]}

LEMMA ContractStutter ==
  ASSUME UNCHANGED <<status, finishedAt, Seated>>
  PROVE  UNCHANGED Contract!contract
  BY DEF Contract!contract, Phase

LEMMA ContractStep ==
  ASSUME NEW p \in Users,
         Contract!Enter(p) \/ Contract!Leave(p) \/ Contract!HandIn(p) \/ Contract!Decide(p)
  PROVE  [Contract!Next]_(Contract!contract)
  BY DEF Contract!Next

LEMMA CommitFinishedContract ==
  ASSUME Inv, NEW r \in Requests, CommitFinished(r)
  PROVE  [Contract!Next]_(Contract!contract)
<1> DEFINE u == req[r].user
<1>1. /\ u \in Users /\ u \in Seated /\ TypeOK /\ CompletedIsDecided
      /\ status \notin {"NONE", "WAITING"} /\ UNCHANGED status
  BY DEF CommitFinished, Inv, RowInv, RequestInv, RequestOK, Finalizing, TypeOK, RequestTypes
<1>2. Seated' = Seated
  BY <1>1 DEF CommitFinished, Seated, TypeOK
<1>3. CASE finishedAt[u]
  <2>1. finishedAt' = finishedAt
    BY <1>1, <1>3 DEF CommitFinished, TypeOK
  <2> QED
    BY <1>1, <1>2, <2>1, ContractStutter
<1>4. CASE ~finishedAt[u]
  <2>1. HandedIn' = HandedIn \cup {u} /\ u \notin HandedIn
    BY <1>1, <1>4 DEF CommitFinished, TypeOK, HandedIn
  <2>2. status \in {"IN_PROGRESS", "CANCELLED"}
    BY <1>1, <1>4 DEF CompletedIsDecided, TypeOK, Statuses
  <2>4. PICK p \in Users : p = u
    BY <1>1
  <2>3. Contract!HandIn(p)
    BY <1>1, <1>2, <2>1, <2>2, <2>4 DEF Contract!HandIn, Phase, HandedIn
  <2> QED
    BY <2>3, ContractStep
<1> QED
  BY <1>3, <1>4

LEMMA CompleteSessionContract ==
  ASSUME Inv, NEW r \in Requests, CompleteSession(r)
  PROVE  [Contract!Next]_(Contract!contract)
<1> DEFINE u == req[r].user
<1>1. /\ u \in Users /\ u \in Seated /\ TypeOK /\ CompletedIsDecided /\ RequestOK(r)
      /\ status \notin {"NONE", "WAITING"} /\ req[r].pc = "close"
  BY DEF CompleteSession, Inv, RowInv, RequestInv, RequestOK, Finalizing, TypeOK, RequestTypes
<1>2. Seated' = Seated
  BY <1>1 DEF CompleteSession, Seated, TypeOK
<1>3. HandedIn' = HandedIn \cup {u} /\ status' = "COMPLETED"
  BY <1>1 DEF CompleteSession, TypeOK, HandedIn, RequestOK
<1>4. CASE status = "COMPLETED"
  <2>1. finishedAt' = finishedAt
    BY <1>1, <1>4 DEF CompleteSession, TypeOK, CompletedIsDecided
  <2> QED
    BY <1>2, <1>3, <1>4, <2>1, ContractStutter
<1>5. CASE status # "COMPLETED"
  <2>1. Seated \subseteq HandedIn \cup {u}
    BY <1>1 DEF RequestOK, HandedIn, Seated
  <2>2. status \in {"IN_PROGRESS", "CANCELLED"}
    BY <1>1, <1>5 DEF TypeOK, Statuses
  <2>4. PICK p \in Users : p = u
    BY <1>1
  <2>3. Contract!Decide(p)
    BY <1>1, <1>2, <1>3, <2>1, <2>2, <2>4 DEF Contract!Decide, Phase, HandedIn
  <2> QED
    BY <2>3, ContractStep
<1> QED
  BY <1>4, <1>5

\* The steps that hold the session's row: entering, leaving, beginning, voiding.
LEMMA ApplyContract ==
  ASSUME Inv, NEW r \in Requests,
         \/ JoinSession(r) \/ StartSession(r) \/ LeaveSession(r) \/ CancelSession(r)
  PROVE  [Contract!Next]_(Contract!contract)
<1> DEFINE u == req[r].user
<1>1. u \in Users /\ TypeOK /\ RowInv
  BY DEF Inv, TypeOK, RequestTypes
<1>2. UNCHANGED finishedAt
  BY DEF JoinSession, StartSession, LeaveSession, CancelSession
<1>3. CASE JoinSession(r)
  <2>1. CASE UNCHANGED seat
    BY <1>2, <1>3, <2>1, ContractStutter DEF JoinSession, Seated
  <2>2. CASE seat' # seat
    <3>1. /\ status = "WAITING" /\ u \notin Seated /\ UNCHANGED status
          /\ Cardinality(Seated) < MaxParticipants
      BY <1>3, <2>2 DEF JoinSession
    <3>2. Seated' = Seated \cup {u}
      BY <1>1, <1>3, <2>2 DEF JoinSession, Seated, TypeOK
    <3>3. Phase = "open" /\ UNCHANGED <<Phase, HandedIn>>
      BY <1>2, <3>1 DEF Phase, HandedIn
    <3>5. Seated = {Host} /\ u # Host
      <4>1. Host \in Seated /\ IsFiniteSet(Seated)
        BY <1>1, <3>1, SeatedFinite DEF RowInv, HostSeated
      <4>2. Cardinality(Seated \ {Host}) = Cardinality(Seated) - 1
        BY <4>1, FS_RemoveElement
      <4>3. Cardinality(Seated \ {Host}) \in Nat /\ IsFiniteSet(Seated \ {Host})
        BY <4>1, SeatedFinite
      <4>4. Cardinality(Seated) \in Nat
        BY <4>1, FS_CardinalityType
      <4>5. Seated \ {Host} = {}
        BY <3>1, <4>2, <4>3, <4>4, FS_EmptySet
      <4> QED
        BY <3>1, <4>1, <4>5
    <3>4. Contract!Enter(u)
      BY <3>1, <3>2, <3>3, <3>5 DEF Contract!Enter, HandedIn
    <3> QED
      BY <1>1, <3>4, ContractStep
  <2> QED
    BY <2>1, <2>2
<1>4. CASE StartSession(r)
  <2>1. Seated' = Seated
    BY <1>4 DEF StartSession, Seated
  <2>2. CASE UNCHANGED status
    BY <1>2, <2>1, <2>2, ContractStutter
  <2>3. CASE status' # status
    <3>1. status = "WAITING" /\ status' = "IN_PROGRESS"
      BY <1>4, <2>3 DEF StartSession
    <3>2. \E v \in Users : exam'[v] # "NONE"
      BY <1>4, <3>1, UsersAssumption, <1>1 DEF StartSession, RowInv, HostSeated
    <3>3. Cardinality(Seated) = MaxParticipants
      BY <1>4, <2>1, <3>2, StartSessionInv DEF RowInv, ExamsMatchSeats
    <3>4. Phase = "open" /\ Phase' = "live" /\ UNCHANGED HandedIn
      BY <1>2, <3>1 DEF Phase, HandedIn
    <3>6. Seated # {Host}
      <4>1. Cardinality({Host}) = 1
        BY FS_Singleton
      <4> QED
        BY <3>3, <4>1
    <3>5. Contract!Begin
      BY <2>1, <3>4, <3>6 DEF Contract!Begin, HandedIn
    <3> QED
      BY <3>5 DEF Contract!Next
  <2> QED
    BY <2>2, <2>3
<1>5. CASE LeaveSession(r)
  <2>1. CASE /\ status = "WAITING" /\ status' = "CANCELLED" /\ UNCHANGED seat
    <3>1. Contract!Void
      BY <1>2, <2>1 DEF Contract!Void, Phase, Seated
    <3> QED
      BY <3>1 DEF Contract!Next
  <2>2. CASE /\ status = "WAITING" /\ u \in Seated /\ u # Host /\ UNCHANGED status
             /\ seat' = [seat EXCEPT ![u] = "ABSENT"]
    <3>1. Seated' = Seated \ {u}
      BY <1>1, <2>2 DEF Seated, TypeOK
    <3>2. Contract!Leave(u)
      BY <1>2, <2>2, <3>1 DEF Contract!Leave, Phase
    <3> QED
      BY <1>1, <3>2 DEF Contract!Next
  <2>3. CASE /\ u \in Seated /\ UNCHANGED status
             /\ seat' = [seat EXCEPT ![u] = "DISCONNECTED"]
    <3>1. Seated' = Seated
      BY <1>1, <2>3 DEF Seated, TypeOK
    <3> QED
      BY <1>2, <2>3, <3>1, ContractStutter
  <2>4. CASE UNCHANGED <<status, seat>>
    BY <1>2, <2>4, ContractStutter DEF Seated
  <2> QED
    BY <1>5, <2>1, <2>2, <2>3, <2>4 DEF LeaveSession
<1>6. CASE CancelSession(r)
  <2>1. CASE UNCHANGED status
    BY <1>2, <1>6, <2>1, ContractStutter DEF CancelSession, Seated
  <2>2. CASE status' # status
    <3>1. Contract!Void
      BY <1>2, <1>6, <2>2 DEF Contract!Void, Phase, CancelSession, Seated
    <3> QED
      BY <3>1 DEF Contract!Next
  <2> QED
    BY <2>1, <2>2
<1> QED
  BY <1>3, <1>4, <1>5, <1>6

\* Rows, locks and timers implement the contract: every behaviour of the
\* duel, for any number of users and requests, is a behaviour of it.
THEOREM ContractImplemented == Spec => ImplementsContract
<1>1. Init => Contract!Init
  BY DEF Init, Contract!Init, Phase, Seated
<1>2. Inv /\ [Next]_vars => [Contract!Next]_(Contract!contract)
  <2> SUFFICES ASSUME Inv, [Next]_vars PROVE [Contract!Next]_(Contract!contract)
    OBVIOUS
  <2>1. CASE CreateSession
    <3>1. Seated = {} /\ Seated' = {Host}
      BY <2>1, UsersAssumption DEF CreateSession, Inv, RowInv, HostSeated, TypeOK, Seated
    <3>2. Contract!Open
      BY <2>1, <3>1 DEF CreateSession, Contract!Open, Phase
    <3> QED
      BY <3>2 DEF Contract!Next
  <2>2. ASSUME NEW r \in Requests, Arrive(r) \/ AbortRequest(r) \/ BreakDeadlock(r)
        PROVE  [Contract!Next]_(Contract!contract)
    BY <2>2, ContractStutter DEF Arrive, RequestSession, RequestSubmit, RequestFinished,
       RequestAbandon, AbortRequest, BreakDeadlock, Rollback, room, Seated
  <2>3. ASSUME NEW r \in Requests, Step(r)
        PROVE  [Contract!Next]_(Contract!contract)
    <3>1. CASE \/ JoinSession(r) \/ StartSession(r) \/ LeaveSession(r) \/ CancelSession(r)
      BY <3>1, ApplyContract
    <3>2. CASE CommitFinished(r)
      BY <3>2, CommitFinishedContract
    <3>3. CASE CompleteSession(r)
      BY <3>3, CompleteSessionContract
    <3>4. CASE ~(\/ JoinSession(r) \/ StartSession(r) \/ LeaveSession(r) \/ CancelSession(r)
                 \/ CommitFinished(r) \/ CompleteSession(r))
      BY <2>3, <3>4, ContractStutter DEF Step, LockSession, UpdateSessionName, ClaimExam,
         ClaimLost, UpdateQuestionStats, RefuseFinalization, AlreadyFinished, ReadSession,
         ReadParticipant, MarkFinished, CountFinished, RankParticipants, AbandonExam, Rollback, room, Seated
    <3> QED
      BY <3>1, <3>2, <3>3, <3>4
  <2>4. ASSUME NEW u \in Users, UserEvent(u)
        PROVE  [Contract!Next]_(Contract!contract)
    <3>1. UNCHANGED <<status, finishedAt>>
      BY <2>4 DEF UserEvent, StaleExamCleanup, SocketConnected, Heartbeat,
         SocketDisconnected, GraceExpires, GraceDisconnects, room
    <3>2. Seated' = Seated
      BY <2>4 DEF UserEvent, StaleExamCleanup, SocketConnected, Heartbeat,
         SocketDisconnected, GraceExpires, GraceDisconnects, MarkReady, Seated,
         Inv, TypeOK, room
    <3> QED
      BY <3>1, <3>2, ContractStutter
  <2>5. CASE TimePasses \/ Restart \/ UNCHANGED vars
    BY <2>5, ContractStutter DEF TimePasses, Restart, vars, room, Seated
  <2> QED
    BY <2>1, <2>2, <2>3, <2>4, <2>5 DEF Next
<1> QED
  BY <1>1, <1>2, Invariance, PTL DEF Spec, ImplementsContract, Contract!Spec

(***************************************************************************)
(* A duel nobody leaves and no connection drops out of.                    *)
(***************************************************************************)
Settling == {"check", "seat", "mark", "tally", "rank", "close", "commit"}

Ordered(standings) ==
    \A v, w \in Seated :
        standings[v].score > standings[w].score <=> standings[v].rank < standings[w].rank

\* The submissions of a duel queue for the rows of the questions they share, so what
\* one of them has seen of the other player stays true until it commits.
QuietRequest(r) ==
    LET q == req[r] IN
    /\ q.pc # "idle" => q.op \notin {"leave", "finished"}
    /\ q.pc \in Settling => questionLock = r
    /\ q.pc = "commit" => \E v \in Seated \ {q.user} : ~finishedAt[v]
    /\ q.pc \in {"rank", "close"} => Ordered(q.standings)

Connected(u) == ~socket[u] /\ grace[u] = "none" /\ (finishedAt[u] => seat[u] = "FINISHED")

Quiet ==
    /\ \A u \in Users : Connected(u)
    /\ \A r \in Requests : QuietRequest(r)
    /\ NoStrandedDuel /\ RanksFollowScores

LEMMA StandingsOrdered ==
  ASSUME TypeOK, NEW r \in Requests PROVE Ordered(ComputeStandings(r))
<1> SUFFICES ASSUME NEW v \in Seated, NEW w \in Seated
             PROVE  ComputeStandings(r)[v].score > ComputeStandings(r)[w].score
                      <=> ComputeStandings(r)[v].rank < ComputeStandings(r)[w].rank
  BY DEF Ordered
<1> DEFINE above(x) == {y \in Seated : StandingScore(r, y) > StandingScore(r, x)}
<1>1. \A x \in Seated : x \in Users /\ StandingScore(r, x) \in Nat
  BY DEF StandingScore, TypeOK, RequestTypes, Seated
<1>2. \A x \in Seated : /\ ComputeStandings(r)[x].score = StandingScore(r, x)
                        /\ ComputeStandings(r)[x].rank = 1 + Cardinality(above(x))
  BY <1>1 DEF ComputeStandings
<1>3. \A x \in Seated : IsFiniteSet(above(x)) /\ Cardinality(above(x)) \in Nat
  <2> SUFFICES ASSUME NEW x \in Seated
               PROVE  IsFiniteSet(above(x)) /\ Cardinality(above(x)) \in Nat
    OBVIOUS
  <2>1. above(x) \in SUBSET Seated
    OBVIOUS
  <2> HIDE DEF above
  <2> QED
    BY <2>1, SeatedFinite
<1>4. CASE StandingScore(r, v) > StandingScore(r, w)
  <2>1. above(v) \subseteq above(w) \ {v} /\ v \in above(w)
    BY <1>1, <1>4
  <2> HIDE DEF above
  <2>2. Cardinality(above(w) \ {v}) = Cardinality(above(w)) - 1 /\ IsFiniteSet(above(w) \ {v})
    BY <1>3, <2>1, FS_RemoveElement
  <2>3. Cardinality(above(v)) <= Cardinality(above(w) \ {v})
    BY <2>1, <2>2, FS_Subset
  <2> QED
    BY <1>1, <1>2, <1>3, <1>4, <2>2, <2>3
<1>5. CASE ~(StandingScore(r, v) > StandingScore(r, w))
  <2>1. above(w) \subseteq above(v)
    BY <1>1, <1>5
  <2> HIDE DEF above
  <2>2. Cardinality(above(w)) <= Cardinality(above(v))
    BY <1>3, <2>1, FS_Subset
  <2> QED
    BY <1>1, <1>2, <1>3, <1>5, <2>2
<1> QED
  BY <1>4, <1>5

LEMMA QuietOther ==
  ASSUME NEW t \in Requests, RequestOK(t), QuietRequest(t), req'[t] = req[t],
         questionLock = t => questionLock' = t /\ finishedAt' = finishedAt,
         status \notin {"NONE", "WAITING"} => Seated' = Seated
  PROVE  QuietRequest(t)'
<1>1. CASE req[t].pc \in Settling
  <2>1. Seated' = Seated /\ questionLock' = t /\ finishedAt' = finishedAt
    BY <1>1 DEF RequestOK, QuietRequest, Settling, Finalizing
  <2> QED
    BY <1>1, <2>1 DEF QuietRequest, Ordered
<1>2. CASE req[t].pc \notin Settling
  BY <1>2 DEF QuietRequest, Settling
<1> QED
  BY <1>1, <1>2

LEMMA QuietIdle == ASSUME NEW r \in Requests, req'[r] = Idle PROVE QuietRequest(r)'
BY DEF QuietRequest, Idle, Request, Settling

\* The end of a request leaves the question rows to the others.
LEMMA QuietEnd ==
  ASSUME TypeOK, NEW r \in Requests, EndRequest(r)
  PROVE  /\ req'[r] = Idle
         /\ \A t \in Requests \ {r} : req'[t] = req[t] /\ (questionLock = t => questionLock' = t)
BY DEF TypeOK, EndRequest, FreeRow

\* The steps that change no committed row of the participants.
LEMMA QuietStill ==
  ASSUME Inv, Quiet, UNCHANGED <<status, finishedAt, tally, finalRank, socket, grace>>,
         seat' = seat, \A t \in Requests : QuietRequest(t)'
  PROVE  Quiet'
<1>1. Seated' = Seated
  BY DEF Seated
<1> QED
  BY <1>1 DEF Quiet, Connected, NoStrandedDuel, RanksFollowScores

LEMMA QuietRollback == ASSUME Inv, Quiet, NEW r \in Requests, Rollback(r) PROVE Quiet'
<1>1. EndRequest(r) /\ UNCHANGED <<room, exams, net>> /\ TypeOK
  BY DEF Rollback, Inv
<1>2. ASSUME NEW t \in Requests PROVE QuietRequest(t)'
  BY <1>1, QuietEnd, QuietIdle, QuietOther DEF room, Seated, Inv, RequestInv, Quiet
<1> QED
  BY <1>1, <1>2, QuietStill DEF room, net

LEMMA QuietArrive ==
  ASSUME Inv, Quiet, {"leave", "socket"} \cap Ops = {}, NEW r \in Requests, Arrive(r)
  PROVE  Quiet'
<1>1. UNCHANGED <<room, exams, net, locks>> /\ req[r].pc = "idle" /\ TypeOK
      /\ \A t \in Requests \ {r} : req'[t] = req[t]
  BY DEF Arrive, RequestSession, RequestSubmit, RequestFinished, RequestAbandon, Inv, TypeOK
<1>2. QuietRequest(r)'
  <2>1. ASSUME NEW op \in Ops, NEW u \in Users, NEW n \in Names, RequestSession(r, op, u, n),
               op # "finished"
        PROVE  QuietRequest(r)'
    <3>1. req'[r].pc = "lock" /\ req'[r].op = op /\ op # "leave"
      BY <1>1, <2>1 DEF RequestSession, Request, TypeOK
    <3> QED
      BY <2>1, <3>1 DEF QuietRequest, Settling
  <2>2. ASSUME NEW u \in Users, NEW s \in Scores, RequestSubmit(r, u, s) PROVE QuietRequest(r)'
    <3>1. req'[r].pc = "claim" /\ req'[r].op = "submit"
      BY <1>1, <2>2 DEF RequestSubmit, Request, TypeOK
    <3> QED
      BY <3>1 DEF QuietRequest, Settling
  <2>3. ASSUME NEW u \in Users, RequestFinished(r, u) PROVE FALSE
    BY <2>3 DEF RequestFinished, Quiet, Connected
  <2>4. ASSUME NEW u \in Users, RequestAbandon(r, u) PROVE QuietRequest(r)'
    <3>1. req'[r].pc = "write" /\ req'[r].op = "abandon"
      BY <1>1, <2>4 DEF RequestAbandon, Request, TypeOK
    <3> QED
      BY <3>1 DEF QuietRequest, Settling
  <2>5. name \in Names
    BY DEF Inv, TypeOK
  <2> QED
    BY <2>1, <2>2, <2>3, <2>4, <2>5 DEF Arrive, RequestSession
<1>3. ASSUME NEW t \in Requests PROVE QuietRequest(t)'
  BY <1>1, <1>2, QuietOther DEF room, locks, Seated, Inv, RequestInv, Quiet
<1> QED
  BY <1>1, <1>3, QuietStill DEF room, net

\* A request goes on without a write to the rows others see.
LEMMA QuietOnward ==
  ASSUME Inv, Quiet, NEW r \in Requests,
         UNCHANGED <<status, seat, finishedAt, tally, finalRank, net>>,
         \A t \in Requests \ {r} : req'[t] = req[t] /\ (questionLock = t => questionLock' = t),
         QuietRequest(r)'
  PROVE  Quiet'
<1>1. ASSUME NEW t \in Requests PROVE QuietRequest(t)'
  BY QuietOther DEF Seated, Inv, RequestInv, Quiet
<1> QED
  BY <1>1, QuietStill DEF net

LEMMA QuietWaits ==
  ASSUME Inv, Quiet, NEW r \in Requests,
         \/ LockSession(r) \/ ClaimExam(r) \/ UpdateQuestionStats(r) \/ ReadSession(r)
         \/ ReadParticipant(r) \/ MarkFinished(r) \/ CountFinished(r) \/ RankParticipants(r)
  PROVE  Quiet'
<1> TypeOK /\ QuietRequest(r) /\ RequestOK(r)
  BY DEF Inv, RequestInv, Quiet
<1>0. req[r] \in RequestTypes /\ req[r].user \in Users
  BY DEF TypeOK, RequestTypes
<1>1. CASE LockSession(r) \/ ClaimExam(r)
  <2>1. /\ req'[r].op = req[r].op /\ req'[r].pc \in {"apply", "grade"} /\ req[r].pc # "idle"
        /\ \A t \in Requests \ {r} : req'[t] = req[t]
    BY <1>1, <1>0 DEF LockSession, ClaimExam, TypeOK, RequestTypes
  <2>2. QuietRequest(r)'
    BY <2>1 DEF QuietRequest, Settling
  <2> QED
    BY <1>1, <2>1, <2>2, QuietOnward DEF LockSession, ClaimExam, room
<1>2. CASE UpdateQuestionStats(r)
  <2>1. /\ req'[r].op = req[r].op /\ req'[r].pc = "check" /\ req[r].pc # "idle"
        /\ questionLock = NoReq /\ questionLock' = r
        /\ \A t \in Requests \ {r} : req'[t] = req[t]
    BY <1>2, <1>0 DEF UpdateQuestionStats, TypeOK, RequestTypes
  <2>2. QuietRequest(r)'
    BY <2>1 DEF QuietRequest, Settling
  <2> QED
    BY <1>2, <2>1, <2>2, RequestsAssumption, QuietOnward DEF UpdateQuestionStats, room
<1>3. CASE ReadSession(r) \/ ReadParticipant(r) \/ MarkFinished(r)
  <2>1. /\ req'[r].op = req[r].op /\ req'[r].pc \in {"seat", "mark", "tally"}
        /\ req[r].pc \in {"check", "seat", "mark"} /\ questionLock' = questionLock
        /\ \A t \in Requests \ {r} : req'[t] = req[t]
    BY <1>3, <1>0 DEF ReadSession, ReadParticipant, MarkFinished, TypeOK, RequestTypes, locks
  <2>2. QuietRequest(r)'
    BY <2>1 DEF QuietRequest, Settling
  <2> QED
    BY <1>3, <2>1, <2>2, QuietOnward DEF ReadSession, ReadParticipant, MarkFinished, room
<1>4. CASE CountFinished(r)
  <2>1. /\ req'[r].op = req[r].op /\ req'[r].user = req[r].user /\ req[r].pc = "tally"
        /\ questionLock' = questionLock
        /\ \/ ~AllFinished(r) /\ req'[r].pc = "commit"
           \/ req'[r].pc = "rank" /\ req'[r].standings = ComputeStandings(r)
        /\ \A t \in Requests \ {r} : req'[t] = req[t]
    BY <1>4, <1>0 DEF CountFinished, TypeOK, RequestTypes, locks
  <2>2. UNCHANGED <<status, seat, finishedAt, tally, finalRank, net, Seated>>
    BY <1>4 DEF CountFinished, room, Seated
  <2>3. ~AllFinished(r) => \E v \in Seated \ {req[r].user} : ~finishedAt[v]
    BY DEF AllFinished, Quiet, Connected, Seated
  <2>4. questionLock = r /\ req[r].op \notin {"leave", "finished"}
    BY <2>1 DEF QuietRequest, Settling
  <2>5. QuietRequest(r)'
    BY <2>1, <2>2, <2>3, <2>4, StandingsOrdered DEF QuietRequest, Settling, Ordered
  <2> QED
    BY <2>1, <2>2, <2>5, QuietOnward
<1>5. CASE RankParticipants(r)
  <2>1. /\ req'[r].op = req[r].op /\ req'[r].standings = req[r].standings
        /\ req'[r].pc = "close" /\ req[r].pc = "rank" /\ questionLock' = questionLock
        /\ \A t \in Requests \ {r} : req'[t] = req[t]
    BY <1>5, <1>0 DEF RankParticipants, TypeOK, RequestTypes
  <2>2. UNCHANGED <<status, seat, finishedAt, tally, finalRank, net, Seated>>
    BY <1>5 DEF RankParticipants, room, Seated
  <2>3. QuietRequest(r)'
    BY <2>1, <2>2 DEF QuietRequest, Settling, Ordered
  <2> QED
    BY <2>1, <2>2, <2>3, QuietOnward
<1> QED
  BY <1>1, <1>2, <1>3, <1>4, <1>5

\* The requests after one of them ended.
LEMMA QuietEnded ==
  ASSUME Inv, Quiet, NEW r \in Requests, EndRequest(r),
         finishedAt' = finishedAt \/ questionLock = r,
         status \notin {"NONE", "WAITING"} => Seated' = Seated
  PROVE  \A t \in Requests : QuietRequest(t)'
<1> TypeOK
  BY DEF Inv
<1> SUFFICES ASSUME NEW t \in Requests PROVE QuietRequest(t)'
  OBVIOUS
<1>1. CASE t = r
  BY <1>1, QuietEnd, QuietIdle
<1>2. CASE t # r
  BY <1>2, QuietEnd, QuietOther DEF Inv, RequestInv, Quiet
<1> QED
  BY <1>1, <1>2

LEMMA QuietApply ==
  ASSUME Inv, Quiet, NEW r \in Requests,
         \/ JoinSession(r) \/ StartSession(r) \/ LeaveSession(r) \/ CancelSession(r)
         \/ UpdateSessionName(r)
  PROVE  Quiet'
<1> DEFINE u == req[r].user
<1>1. /\ TypeOK /\ RowInv /\ u \in Users /\ EndRequest(r) /\ Inv'
      /\ UNCHANGED <<finishedAt, tally, finalRank, net>>
  <2>1. Step(r)
    BY DEF Step
  <2>2. Inv'
    BY <2>1, StepInv, StepType DEF Inv
  <2> QED
    BY <2>2 DEF JoinSession, StartSession, LeaveSession, CancelSession, UpdateSessionName, Apply,
       Inv, TypeOK, RequestTypes
<1>2. ~LeaveSession(r)
  BY DEF LeaveSession, Apply, Quiet, QuietRequest
<1>3. status \notin {"NONE", "WAITING"} => Seated' = Seated
  BY <1>2 DEF JoinSession, StartSession, CancelSession, UpdateSessionName, Seated
<1>4. \A t \in Requests : QuietRequest(t)'
  BY <1>1, <1>3, QuietEnded
<1>5. ASSUME NEW v \in Users PROVE Connected(v)'
  <2>1. finishedAt[v] => seat[v] = "FINISHED"
    BY DEF Quiet, Connected
  <2>2. finishedAt[v] => seat'[v] = "FINISHED"
    BY <1>1, <1>2, <2>1 DEF JoinSession, StartSession, CancelSession, UpdateSessionName, Seated, TypeOK
  <2> QED
    BY <1>1, <2>2 DEF Quiet, Connected, net
<1>6. NoStrandedDuel'
  <2>1. CASE status' = "IN_PROGRESS" /\ status # "IN_PROGRESS"
    <3>1. status = "WAITING"
      BY <1>2, <2>1 DEF JoinSession, StartSession, CancelSession, UpdateSessionName
    <3>2. \A v \in Users : ~finishedAt[v]
      BY <1>1, <3>1 DEF RowInv, ExamsMatchSeats, RecordOK
    <3>3. Host \in Seated'
      BY <1>1, <2>1 DEF Inv, RowInv, HostSeated
    <3> QED
      BY <1>1, <3>2, <3>3, UsersAssumption DEF NoStrandedDuel
  <2>2. CASE status' = "IN_PROGRESS" /\ status = "IN_PROGRESS"
    BY <1>1, <1>3, <2>2 DEF Quiet, NoStrandedDuel
  <2> QED
    BY <2>1, <2>2 DEF NoStrandedDuel
<1>7. RanksFollowScores'
  <2>1. status' = "COMPLETED" => status = "COMPLETED"
    BY <1>2 DEF JoinSession, StartSession, CancelSession, UpdateSessionName
  <2> QED
    BY <1>1, <1>3, <2>1 DEF Quiet, RanksFollowScores
<1> QED
  BY <1>4, <1>5, <1>6, <1>7 DEF Quiet

\* A submission commits while the other player is still at it.
LEMMA QuietCommit ==
  ASSUME Inv, Quiet, NEW r \in Requests, CommitFinished(r) PROVE Quiet'
<1> DEFINE u == req[r].user
<1>1. /\ TypeOK /\ RowInv /\ RequestOK(r) /\ QuietRequest(r) /\ u \in Users /\ req[r].pc = "commit"
  BY DEF CommitFinished, Inv, RequestInv, Quiet, TypeOK, RequestTypes
<1>2. /\ EndRequest(r) /\ seat' = [seat EXCEPT ![u] = "FINISHED"]
      /\ finishedAt' = [finishedAt EXCEPT ![u] = TRUE] /\ UNCHANGED <<status, net>>
  BY DEF CommitFinished
<1>3. /\ questionLock = r /\ u \in Seated /\ status # "COMPLETED"
      /\ \E v \in Seated \ {u} : ~finishedAt[v]
  BY <1>1 DEF QuietRequest, Settling, RequestOK, Finalizing, RowInv, CompletedIsDecided
<1>4. Seated' = Seated
  BY <1>1, <1>2, <1>3 DEF Seated, TypeOK
<1>5. \A t \in Requests : QuietRequest(t)'
  BY <1>2, <1>3, <1>4, QuietEnded
<1>6. ASSUME NEW v \in Users PROVE Connected(v)'
  BY <1>1, <1>2 DEF Quiet, Connected, TypeOK, net
<1>7. NoStrandedDuel' /\ RanksFollowScores'
  BY <1>1, <1>2, <1>3, <1>4 DEF NoStrandedDuel, RanksFollowScores, TypeOK, Seated
<1> QED
  BY <1>5, <1>6, <1>7 DEF Quiet

LEMMA QuietComplete ==
  ASSUME Inv, Quiet, NEW r \in Requests, CompleteSession(r) PROVE Quiet'
<1> DEFINE u == req[r].user
           standings == req[r].standings
<1>1. /\ TypeOK /\ RequestOK(r) /\ QuietRequest(r) /\ u \in Users /\ req[r].pc = "close"
  BY DEF CompleteSession, Inv, RequestInv, Quiet, TypeOK, RequestTypes
<1>2. /\ EndRequest(r) /\ seat' = [seat EXCEPT ![u] = "FINISHED"]
      /\ finishedAt' = [finishedAt EXCEPT ![u] = TRUE] /\ UNCHANGED net
      /\ tally' = [v \in Users |-> IF v \in Seated THEN standings[v].score ELSE tally[v]]
      /\ finalRank' = [v \in Users |-> IF v \in Seated THEN standings[v].rank ELSE finalRank[v]]
  BY DEF CompleteSession
<1>3. /\ questionLock = r /\ u \in Seated /\ status' = "COMPLETED" /\ Ordered(standings)
  BY <1>1 DEF CompleteSession, QuietRequest, Settling, RequestOK, Finalizing
<1>4. Seated' = Seated /\ Seated \subseteq Users
  BY <1>1, <1>2, <1>3 DEF Seated, TypeOK
<1>5. \A t \in Requests : QuietRequest(t)'
  BY <1>2, <1>3, <1>4, QuietEnded
<1>6. ASSUME NEW v \in Users PROVE Connected(v)'
  BY <1>1, <1>2 DEF Quiet, Connected, TypeOK, net
<1>7. \A v \in Seated : tally'[v] = standings[v].score /\ finalRank'[v] = standings[v].rank
  BY <1>2, <1>4
<1> HIDE DEF standings
<1>8. NoStrandedDuel' /\ RanksFollowScores'
  BY <1>3, <1>4, <1>7 DEF NoStrandedDuel, RanksFollowScores, Ordered
<1> QED
  BY <1>5, <1>6, <1>8 DEF Quiet

LEMMA QuietStep == ASSUME Inv, Quiet, NEW r \in Requests, Step(r) PROVE Quiet'
<1>1. CASE ClaimLost(r) \/ RefuseFinalization(r)
  BY <1>1, QuietRollback DEF ClaimLost, RefuseFinalization
<1>2. CASE AlreadyFinished(r) \/ AbandonExam(r)
  <2>1. EndRequest(r) /\ UNCHANGED <<room, net>>
    BY <1>2 DEF AlreadyFinished, AbandonExam
  <2>2. \A t \in Requests : QuietRequest(t)'
    BY <2>1, QuietEnded DEF room, Seated
  <2> QED
    BY <2>1, <2>2, QuietStill DEF room, net
<1> QED
  BY <1>1, <1>2, QuietWaits, QuietApply, QuietCommit, QuietComplete DEF Step

LEMMA QuietNext ==
  ASSUME Inv, Quiet, {"leave", "socket"} \cap Ops = {}, [Next]_vars PROVE Quiet'
<1> TypeOK
  BY DEF Inv
<1>1. ASSUME NEW r \in Requests, AbortRequest(r) \/ BreakDeadlock(r) PROVE Quiet'
  BY <1>1, QuietRollback DEF AbortRequest, BreakDeadlock
<1>2. CASE CreateSession
  <2>1. Seated = {} /\ Seated' = {Host} /\ status = "NONE" /\ status' = "WAITING"
        /\ seat' = [seat EXCEPT ![Host] = "JOINED"]
        /\ UNCHANGED <<finishedAt, tally, finalRank, net, locks, req>>
    BY <1>2, UsersAssumption DEF CreateSession, Inv, RowInv, HostSeated, TypeOK, Seated
  <2>2. \A t \in Requests : QuietRequest(t)'
    BY <2>1, QuietOther DEF Inv, RequestInv, Quiet, locks
  <2>3. ~finishedAt[Host]
    BY <1>2, UsersAssumption DEF CreateSession, Inv, RowInv, ExamsMatchSeats, RecordOK
  <2>4. ASSUME NEW u \in Users PROVE Connected(u)'
    BY <2>1, <2>3 DEF Quiet, Connected, TypeOK, net
  <2> QED
    BY <2>1, <2>2, <2>4 DEF Quiet, NoStrandedDuel, RanksFollowScores
<1>3. ASSUME NEW u \in Users, UserEvent(u) PROVE Quiet'
  <2>1. StaleExamCleanup(u)
    BY <1>3 DEF UserEvent, SocketConnected, Heartbeat, SocketDisconnected, GraceExpires,
       GraceDisconnects, Quiet, Connected
  <2>2. UNCHANGED <<room, net, locks, req>>
    BY <2>1 DEF StaleExamCleanup
  <2>3. \A t \in Requests : QuietRequest(t)'
    BY <2>2, QuietOther DEF Inv, RequestInv, Quiet, room, locks, Seated
  <2> QED
    BY <2>2, <2>3, QuietStill DEF room, net
<1>4. CASE TimePasses \/ UNCHANGED vars
  <2>1. UNCHANGED <<room, socket, grace, locks, req>>
    BY <1>4 DEF TimePasses, vars, net
  <2>2. \A t \in Requests : QuietRequest(t)'
    BY <2>1, QuietOther DEF Inv, RequestInv, Quiet, room, locks, Seated
  <2> QED
    BY <2>1, <2>2, QuietStill DEF room
<1>5. CASE Restart
  <2>1. /\ UNCHANGED room /\ \A u \in Users : ~socket'[u] /\ grace'[u] = "none"
        /\ \A t \in Requests : req'[t] = Idle
    BY <1>5 DEF Restart
  <2>2. \A t \in Requests : QuietRequest(t)'
    BY <2>1, QuietIdle
  <2>3. Seated' = Seated
    BY <2>1 DEF room, Seated
  <2> QED
    BY <2>1, <2>2, <2>3 DEF Quiet, Connected, NoStrandedDuel, RanksFollowScores, room
<1> QED
  BY <1>1, <1>2, <1>3, <1>4, <1>5, QuietArrive, QuietStep DEF Next

LEMMA QuietInit == Init => Quiet
<1> SUFFICES ASSUME Init PROVE Quiet
  OBVIOUS
<1>1. \A r \in Requests : QuietRequest(r)
  BY DEF Init, QuietRequest, Idle, Request, Settling
<1>2. \A u \in Users : Connected(u)
  BY DEF Init, Connected
<1> QED
  BY <1>1, <1>2 DEF Init, Quiet, NoStrandedDuel, RanksFollowScores

LEMMA AlwaysQuiet == ASSUME {"leave", "socket"} \cap Ops = {} PROVE Spec => []Quiet
<1>1. Inv /\ Quiet /\ [Next]_vars => Quiet'
  BY QuietNext
<1> QED
  BY <1>1, QuietInit, Invariance, PTL DEF Spec

\* A duel that nobody leaves and no connection drops out of is decided by its last
\* submission, however the two submissions, an abandon and the clean-up overlap: the
\* question rows both exams share keep either one from missing the other.  (A leave or
\* a dropped connection can strand it: the finish it overwrites is counted no more.)
THEOREM NoDuelStranded ==
  ASSUME {"leave", "socket"} \cap Ops = {} PROVE Spec => []NoStrandedDuel
<1>1. Quiet => NoStrandedDuel
  BY DEF Quiet
<1> QED
  BY <1>1, AlwaysQuiet, PTL

\* And the places of a completed duel order the recorded scores, ties included.
THEOREM RanksMatchScores ==
  ASSUME {"leave", "socket"} \cap Ops = {} PROVE Spec => []RanksFollowScores
<1>1. Quiet => RanksFollowScores
  BY DEF Quiet
<1> QED
  BY <1>1, AlwaysQuiet, PTL

CountedOnce == completions = IF status = "COMPLETED" THEN 1 ELSE 0

LEMMA CountedNext == ASSUME Inv, Quiet, CountedOnce, [Next]_vars PROVE CountedOnce'
<1>1. ASSUME UNCHANGED completions, status' = status \/ "COMPLETED" \notin {status, status'}
      PROVE  CountedOnce'
  BY <1>1 DEF CountedOnce
<1>2. ASSUME NEW r \in Requests, Arrive(r) \/ AbortRequest(r) \/ BreakDeadlock(r) PROVE CountedOnce'
  BY <1>1, <1>2 DEF Arrive, RequestSession, RequestSubmit, RequestFinished, RequestAbandon,
     AbortRequest, BreakDeadlock, Rollback, room
<1>3. ASSUME NEW r \in Requests, CompleteSession(r) PROVE CountedOnce'
  <2> DEFINE u == req[r].user
  <2>1. /\ RequestOK(r) /\ QuietRequest(r) /\ RecordOK(u) /\ CompletedIsDecided /\ req[r].pc = "close"
    BY <1>3 DEF CompleteSession, Inv, RequestInv, RowInv, Quiet, TypeOK, RequestTypes
  <2>2. u \in Seated /\ ~finishedAt[u]
    BY <2>1 DEF RequestOK, QuietRequest, RecordOK, Finalizing
  <2>3. status # "COMPLETED" /\ req[r].seen # "COMPLETED"
    BY <2>1, <2>2 DEF CompletedIsDecided, RequestOK
  <2>4. completions = 0
    BY <2>3 DEF CountedOnce
  <2>5. status' = "COMPLETED" /\ completions' = Min2(completions + 1, MaxCompletions)
    BY <1>3, <2>3 DEF CompleteSession
  <2> QED
    BY <2>4, <2>5 DEF CountedOnce, Min2
<1>4. ASSUME NEW r \in Requests, Step(r), ~CompleteSession(r) PROVE CountedOnce'
  BY <1>1, <1>4 DEF Step, LockSession, JoinSession, StartSession, LeaveSession, CancelSession,
     UpdateSessionName, ClaimExam, ClaimLost, UpdateQuestionStats, RefuseFinalization, ReadSession,
     AlreadyFinished, ReadParticipant, MarkFinished, CountFinished, CommitFinished,
     RankParticipants, AbandonExam, Rollback, room
<1>5. ASSUME NEW u \in Users, UserEvent(u) PROVE CountedOnce'
  BY <1>1, <1>5 DEF UserEvent, StaleExamCleanup, SocketConnected, Heartbeat, SocketDisconnected,
     GraceExpires, GraceDisconnects, room
<1>6. CASE CreateSession \/ TimePasses \/ Restart \/ UNCHANGED vars
  BY <1>1, <1>6 DEF CreateSession, TimePasses, Restart, vars, room
<1> QED
  BY <1>2, <1>3, <1>4, <1>5, <1>6 DEF Next

\* Its completion is reported once, by the submission that decided it.
THEOREM CompletionReportedOnce ==
  ASSUME {"leave", "socket"} \cap Ops = {} PROVE Spec => []CompletedOnce
<1>1. Init => CountedOnce
  BY DEF Init, CountedOnce
<1>2. Inv /\ Quiet /\ CountedOnce /\ [Next]_vars => CountedOnce'
  BY CountedNext
<1>3. CountedOnce => CompletedOnce
  BY DEF CountedOnce, CompletedOnce
<1> QED
  BY <1>1, <1>2, <1>3, AlwaysQuiet, Invariance, PTL DEF Spec

(***************************************************************************)
(* A duel whose players may leave and drop, and abandon nothing: a score   *)
(* that was handed in is the one every ranking uses.                       *)
(***************************************************************************)
ScoredRequest(r) ==
    LET q == req[r] IN
    /\ q.pc # "write"
    /\ q.pc \in Settling /\ q.op = "finished" => q.score = score[q.user]
    /\ q.pc \in {"rank", "close"} =>
          /\ Ordered(q.standings)
          /\ \A v \in Seated : q.standings[v].score = IF v = q.user THEN q.score ELSE score[v]

Handed == \A u \in Users : finishedAt[u] => exam[u] = "COMPLETED" /\ tally[u] = score[u]

Scored == Handed /\ (\A r \in Requests : ScoredRequest(r)) /\ RanksFollowScores

\* A request goes on to count on scores that were handed in.
LEMMA ScoredOther ==
  ASSUME TypeOK, NEW t \in Requests, RequestOK(t), ScoredRequest(t), req'[t] = req[t],
         \A u \in Users : finishedAt[u] => score'[u] = score[u],
         status \notin {"NONE", "WAITING"} => Seated' = Seated
  PROVE  ScoredRequest(t)'
<1>1. req[t].user \in Users /\ Seated \subseteq Users
  BY DEF TypeOK, RequestTypes, Seated
<1>2. CASE req[t].pc \in Settling
  <2>1. Seated' = Seated /\ (req[t].op = "finished" => finishedAt[req[t].user])
    BY <1>2 DEF RequestOK, Settling, Finalizing
  <2>2. req[t].pc \in {"rank", "close"} => \A v \in Seated \ {req[t].user} : finishedAt[v]
    BY DEF RequestOK
  <2> QED
    BY <1>1, <2>1, <2>2 DEF ScoredRequest, Ordered
<1>3. CASE req[t].pc \notin Settling
  BY <1>3 DEF ScoredRequest, Settling
<1> QED
  BY <1>2, <1>3

LEMMA ScoredIdle == ASSUME NEW r \in Requests, req'[r] = Idle PROVE ScoredRequest(r)'
BY DEF ScoredRequest, Idle, Request, Settling

LEMMA ScoredStill ==
  ASSUME Inv, Scored, UNCHANGED <<finishedAt, tally, finalRank, score>>,
         \A u \in Users : exam[u] = "COMPLETED" => exam'[u] = "COMPLETED",
         status \notin {"NONE", "WAITING"} => Seated' = Seated,
         status' = "COMPLETED" => status = "COMPLETED",
         \A t \in Requests : ScoredRequest(t)'
  PROVE  Scored'
<1>1. Handed'
  BY DEF Scored, Handed
<1>2. RanksFollowScores'
  BY DEF Scored, RanksFollowScores
<1> QED
  BY <1>1, <1>2 DEF Scored

\* What leaves the requests as they are.
LEMMA ScoredEvent ==
  ASSUME Inv, Scored, UNCHANGED <<finishedAt, tally, finalRank, score>>,
         \A u \in Users : exam[u] = "COMPLETED" => exam'[u] = "COMPLETED",
         status \notin {"NONE", "WAITING"} => Seated' = Seated,
         status' = "COMPLETED" => status = "COMPLETED",
         \A t \in Requests : req'[t] = req[t] \/ req'[t] = Idle \/ ScoredRequest(t)'
  PROVE  Scored'
<1>1. ASSUME NEW t \in Requests PROVE ScoredRequest(t)'
  <2>1. TypeOK /\ RequestOK(t) /\ ScoredRequest(t)
    BY DEF Inv, RequestInv, Scored
  <2> QED
    BY <2>1, ScoredIdle, ScoredOther
<1> QED
  BY <1>1, ScoredStill

LEMMA ScoredArrive ==
  ASSUME Inv, Scored, "abandon" \notin Ops, NEW r \in Requests, Arrive(r) PROVE Scored'
<1>1. UNCHANGED <<room, exams>> /\ TypeOK /\ \A t \in Requests \ {r} : req'[t] = req[t]
  BY DEF Arrive, RequestSession, RequestSubmit, RequestFinished, RequestAbandon, Inv, TypeOK
<1>2. ScoredRequest(r)'
  <2>1. ASSUME NEW op, NEW u \in Users, NEW n, RequestSession(r, op, u, n) PROVE ScoredRequest(r)'
    <3>1. req'[r].pc = "lock"
      BY <1>1, <2>1 DEF RequestSession, Request, TypeOK
    <3> QED
      BY <3>1 DEF ScoredRequest, Settling
  <2>2. ASSUME NEW u \in Users, NEW s \in Scores, RequestSubmit(r, u, s) PROVE ScoredRequest(r)'
    <3>1. req'[r].pc = "claim"
      BY <1>1, <2>2 DEF RequestSubmit, Request, TypeOK
    <3> QED
      BY <3>1 DEF ScoredRequest, Settling
  <2>3. ASSUME NEW u \in Users, RequestFinished(r, u) PROVE ScoredRequest(r)'
    <3>1. req'[r].pc = "check" /\ req'[r].user = u /\ req'[r].score = score[u]
      BY <1>1, <2>3 DEF RequestFinished, Request, TypeOK
    <3> QED
      BY <1>1, <3>1 DEF ScoredRequest, exams
  <2>4. ASSUME NEW u \in Users, RequestAbandon(r, u) PROVE FALSE
    BY <2>4 DEF RequestAbandon
  <2> QED
    BY <2>1, <2>2, <2>3, <2>4 DEF Arrive
<1> QED
  BY <1>1, <1>2, ScoredEvent DEF room, exams, Seated

\* The statements that write nothing others see.
LEMMA ScoredWaits ==
  ASSUME Inv, Scored, NEW r \in Requests,
         \/ LockSession(r) \/ ClaimExam(r) \/ UpdateQuestionStats(r) \/ ReadSession(r)
         \/ ReadParticipant(r) \/ MarkFinished(r) \/ CountFinished(r) \/ RankParticipants(r)
  PROVE  Scored'
<1> DEFINE u == req[r].user
<1>1. /\ TypeOK /\ RowInv /\ RequestOK(r) /\ ScoredRequest(r) /\ Handed
      /\ req[r] \in RequestTypes /\ u \in Users
  BY DEF Inv, RequestInv, Scored, TypeOK, RequestTypes
<1>2. UNCHANGED <<room, exams>> /\ Seated' = Seated /\ \A t \in Requests \ {r} : req'[t] = req[t]
  <2>1. UNCHANGED <<room, exams>>
    BY DEF LockSession, ClaimExam, UpdateQuestionStats, ReadSession, ReadParticipant, MarkFinished,
       CountFinished, RankParticipants
  <2>2. \A t \in Requests \ {r} : req'[t] = req[t]
    BY <1>1 DEF LockSession, ClaimExam, UpdateQuestionStats, ReadSession, ReadParticipant,
       MarkFinished, CountFinished, RankParticipants, TypeOK
  <2> QED
    BY <2>1, <2>2 DEF room, Seated
<1>3. ScoredRequest(r)'
  <2>1. CASE LockSession(r) \/ ClaimExam(r)
    <3>1. req'[r].pc \in {"apply", "grade"}
      BY <1>1, <2>1 DEF LockSession, ClaimExam, TypeOK, RequestTypes
    <3> QED
      BY <3>1 DEF ScoredRequest, Settling
  <2>2. CASE UpdateQuestionStats(r)
    <3>1. req'[r].pc = "check" /\ req'[r].op = "submit"
      BY <1>1, <2>2 DEF UpdateQuestionStats, RequestOK, TypeOK, RequestTypes
    <3> QED
      BY <3>1 DEF ScoredRequest
  <2>3. CASE ReadSession(r) \/ ReadParticipant(r) \/ MarkFinished(r)
    <3>1. /\ req'[r].op = req[r].op /\ req'[r].user = u /\ req'[r].score = req[r].score
          /\ req'[r].pc \in {"seat", "mark", "tally"} /\ req[r].pc \in Settling
      BY <1>1, <2>3 DEF ReadSession, ReadParticipant, MarkFinished, TypeOK, RequestTypes, Settling
    <3> QED
      BY <1>1, <1>2, <3>1 DEF ScoredRequest, exams
  <2>4. CASE CountFinished(r)
    <3>1. /\ req'[r].op = req[r].op /\ req'[r].user = u /\ req'[r].score = req[r].score
          /\ req[r].pc = "tally"
          /\ \/ req'[r].pc = "commit"
             \/ AllFinished(r) /\ req'[r].pc = "rank" /\ req'[r].standings = ComputeStandings(r)
      BY <1>1, <2>4 DEF CountFinished, TypeOK, RequestTypes
    <3>2. ASSUME AllFinished(r), NEW v \in Seated
          PROVE  ComputeStandings(r)[v].score = IF v = u THEN req[r].score ELSE score[v]
      <4>1. v \in Users /\ ComputeStandings(r)[v].score = StandingScore(r, v)
        BY DEF ComputeStandings, Seated
      <4>2. v # u => exam[v] = "COMPLETED"
        BY <1>1, <3>2, <4>1 DEF AllFinished, Handed, RowInv, RecordOK
      <4>3. req[r].op # "submit" => exam[u] = "COMPLETED" /\ req[r].score = score[u]
        BY <1>1, <3>1 DEF RequestOK, ScoredRequest, Handed, Finalizing, Settling
      <4> QED
        BY <4>1, <4>2, <4>3 DEF StandingScore
    <3>3. Ordered(ComputeStandings(r))
      BY <1>1, StandingsOrdered
    <3>4. req[r].op = "finished" => req[r].score = score[u]
      BY <1>1, <3>1 DEF ScoredRequest, Settling
    <3> QED
      BY <1>2, <3>1, <3>2, <3>3, <3>4 DEF ScoredRequest, Ordered, exams
  <2>5. CASE RankParticipants(r)
    <3>1. /\ req'[r].op = req[r].op /\ req'[r].user = u /\ req'[r].score = req[r].score
          /\ req'[r].standings = req[r].standings /\ req'[r].pc = "close" /\ req[r].pc = "rank"
      BY <1>1, <2>5 DEF RankParticipants, TypeOK, RequestTypes
    <3> QED
      BY <1>1, <1>2, <3>1 DEF ScoredRequest, Ordered, Settling, exams
  <2> QED
    BY <2>1, <2>2, <2>3, <2>4, <2>5
<1> QED
  BY <1>2, <1>3, ScoredEvent DEF room, exams

\* Leave, cancel and the others that hold the session; a start finds nothing handed in.
LEMMA ScoredApply ==
  ASSUME Inv, Scored, NEW r \in Requests,
         \/ JoinSession(r) \/ StartSession(r) \/ LeaveSession(r) \/ CancelSession(r)
         \/ UpdateSessionName(r)
  PROVE  Scored'
<1>1. /\ TypeOK /\ RowInv /\ EndRequest(r) /\ UNCHANGED <<finishedAt, tally, finalRank, score>>
  BY DEF JoinSession, StartSession, LeaveSession, CancelSession, UpdateSessionName, Apply, Inv, exams
<1>2. status' = "COMPLETED" => status = "COMPLETED"
  BY DEF JoinSession, StartSession, LeaveSession, CancelSession, UpdateSessionName
<1>3. status \notin {"NONE", "WAITING"} => Seated' = Seated
  BY <1>1 DEF JoinSession, StartSession, LeaveSession, CancelSession, UpdateSessionName, Seated, TypeOK
<1>4. ASSUME NEW u \in Users, exam[u] = "COMPLETED" PROVE exam'[u] = "COMPLETED"
  BY <1>1, <1>4 DEF JoinSession, StartSession, LeaveSession, CancelSession, UpdateSessionName,
     RowInv, ExamsMatchSeats, exams
<1>5. \A t \in Requests : req'[t] = req[t] \/ req'[t] = Idle
  BY <1>1 DEF EndRequest, TypeOK
<1> QED
  BY <1>1, <1>2, <1>3, <1>4, <1>5, ScoredEvent

\* A commit changes no score that was handed in: whoever submits has not finished.
LEMMA ScoredWrites ==
  ASSUME Inv, Scored, NEW r \in Requests, CommitExam(r), EndRequest(r), req[r].pc \in Settling
  PROVE  /\ \A u \in Users : finishedAt[u] => exam'[u] = "COMPLETED" /\ score'[u] = score[u]
         /\ exam'[req[r].user] = "COMPLETED" /\ score'[req[r].user] = req[r].score
         /\ req[r].op = "submit" => ~finishedAt[req[r].user]
         /\ Seated' = Seated => \A t \in Requests : ScoredRequest(t)'
<1> DEFINE u == req[r].user
<1>1. /\ TypeOK /\ RowInv /\ RequestOK(r) /\ ScoredRequest(r) /\ Handed /\ u \in Users
  BY DEF Inv, RequestInv, Scored, TypeOK, RequestTypes
<1>2. req[r].op = "submit" => exam[u] = "IN_PROGRESS"
  BY <1>1 DEF RequestOK, Settling, Finalizing
<1>3. req[r].op # "submit" => finishedAt[u] /\ req[r].score = score[u]
  BY <1>1 DEF RequestOK, ScoredRequest, Settling, Finalizing
<1>4. req[r].op = "submit" => ~finishedAt[u]
  BY <1>1, <1>2 DEF Handed
<1>5. /\ \A v \in Users : finishedAt[v] => exam'[v] = "COMPLETED" /\ score'[v] = score[v]
      /\ exam'[u] = "COMPLETED" /\ score'[u] = req[r].score
  <2>1. CASE req[r].op = "submit"
    BY <1>1, <1>4, <2>1 DEF CommitExam, Handed, TypeOK
  <2>2. CASE req[r].op # "submit"
    BY <1>1, <1>3, <2>2 DEF CommitExam, Handed, exams
  <2> QED
    BY <2>1, <2>2
<1>6. ASSUME Seated' = Seated, NEW t \in Requests PROVE ScoredRequest(t)'
  <2>1. req'[t] = req[t] \/ req'[t] = Idle
    BY <1>1 DEF EndRequest, TypeOK
  <2>2. RequestOK(t) /\ ScoredRequest(t)
    BY DEF Inv, RequestInv, Scored
  <2> QED
    BY <1>1, <1>5, <1>6, <2>1, <2>2, ScoredIdle, ScoredOther
<1> QED
  BY <1>4, <1>5, <1>6

LEMMA ScoredCommit ==
  ASSUME Inv, Scored, NEW r \in Requests, AlreadyFinished(r) \/ CommitFinished(r) PROVE Scored'
<1> DEFINE u == req[r].user
<1>1. /\ TypeOK /\ RowInv /\ RequestOK(r) /\ Handed /\ u \in Users
      /\ CommitExam(r) /\ EndRequest(r) /\ req[r].pc \in Settling /\ u \in Seated
  BY DEF AlreadyFinished, CommitFinished, Inv, RequestInv, Scored, TypeOK, RequestTypes, RequestOK,
     Settling, Finalizing
<1>2. Seated' = Seated
  BY <1>1 DEF AlreadyFinished, CommitFinished, room, Seated, TypeOK
<1>3. UNCHANGED <<status, finalRank>>
  BY DEF AlreadyFinished, CommitFinished, room
<1>4. /\ \A v \in Users : finishedAt[v] => exam'[v] = "COMPLETED" /\ score'[v] = score[v]
      /\ exam'[u] = "COMPLETED" /\ score'[u] = req[r].score
      /\ \A t \in Requests : ScoredRequest(t)'
  BY <1>1, <1>2, ScoredWrites
<1>5. ASSUME NEW v \in Users, finishedAt'[v] PROVE exam'[v] = "COMPLETED" /\ tally'[v] = score'[v]
  <2>1. CASE AlreadyFinished(r)
    BY <1>1, <1>4, <1>5, <2>1 DEF AlreadyFinished, room, Handed
  <2>2. CASE CommitFinished(r) /\ v = u
    BY <1>1, <1>4, <2>2 DEF CommitFinished, TypeOK
  <2>3. CASE CommitFinished(r) /\ v # u
    BY <1>1, <1>4, <1>5, <2>3 DEF CommitFinished, Handed, TypeOK
  <2> QED
    BY <2>1, <2>2, <2>3
<1>6. RanksFollowScores'
  <2> SUFFICES ASSUME status = "COMPLETED", NEW v \in Seated PROVE tally'[v] = tally[v]
    BY <1>2, <1>3 DEF Scored, RanksFollowScores
  <2>1. v \in Users /\ finishedAt[v]
    BY <1>1 DEF RowInv, CompletedIsDecided, Seated
  <2>2. finishedAt'[v]
    BY <1>1, <2>1 DEF AlreadyFinished, CommitFinished, room, TypeOK
  <2> QED
    BY <1>1, <1>4, <1>5, <2>1, <2>2 DEF Handed
<1> QED
  BY <1>4, <1>5, <1>6 DEF Scored, Handed

LEMMA ScoredComplete ==
  ASSUME Inv, Scored, NEW r \in Requests, CompleteSession(r) PROVE Scored'
<1> DEFINE u == req[r].user
           standings == req[r].standings
<1>1. /\ TypeOK /\ RowInv /\ RequestOK(r) /\ ScoredRequest(r) /\ Handed /\ u \in Users
      /\ CommitExam(r) /\ EndRequest(r) /\ req[r].pc = "close" /\ u \in Seated
  BY DEF CompleteSession, Inv, RequestInv, Scored, TypeOK, RequestTypes, RequestOK, Finalizing
<1>2. /\ finishedAt' = [finishedAt EXCEPT ![u] = TRUE] /\ seat' = [seat EXCEPT ![u] = "FINISHED"]
      /\ tally' = [v \in Users |-> IF v \in Seated THEN standings[v].score ELSE tally[v]]
      /\ finalRank' = [v \in Users |-> IF v \in Seated THEN standings[v].rank ELSE finalRank[v]]
  BY DEF CompleteSession
<1>3. Seated' = Seated /\ Seated \subseteq Users
  BY <1>1, <1>2 DEF Seated, TypeOK
<1>4. /\ \A v \in Users : finishedAt[v] => exam'[v] = "COMPLETED" /\ score'[v] = score[v]
      /\ exam'[u] = "COMPLETED" /\ score'[u] = req[r].score
      /\ \A t \in Requests : ScoredRequest(t)'
  BY <1>1, <1>3, ScoredWrites DEF Settling
<1>5. /\ \A v \in Seated : tally'[v] = standings[v].score /\ finalRank'[v] = standings[v].rank
      /\ Ordered(standings)
      /\ \A v \in Seated : standings[v].score = IF v = u THEN req[r].score ELSE score[v]
  BY <1>1, <1>2, <1>3 DEF ScoredRequest
<1> HIDE DEF standings
<1>6. ASSUME NEW v \in Users, finishedAt'[v] PROVE exam'[v] = "COMPLETED" /\ tally'[v] = score'[v]
  <2>1. v = u \/ finishedAt[v]
    BY <1>1, <1>2, <1>6 DEF TypeOK
  <2>2. v \in Seated
    BY <1>1, <2>1 DEF Handed, RowInv, ExamsMatchSeats
  <2> QED
    BY <1>4, <1>5, <2>1, <2>2
<1>7. RanksFollowScores'
  BY <1>3, <1>5 DEF RanksFollowScores, Ordered
<1> QED
  BY <1>4, <1>6, <1>7 DEF Scored, Handed

LEMMA ScoredRollback == ASSUME Inv, Scored, NEW r \in Requests, Rollback(r) PROVE Scored'
<1>1. UNCHANGED <<room, exams>> /\ \A t \in Requests : req'[t] = req[t] \/ req'[t] = Idle
  BY DEF Rollback, EndRequest, Inv, TypeOK
<1> QED
  BY <1>1, ScoredEvent DEF room, exams, Seated

LEMMA ScoredStep == ASSUME Inv, Scored, NEW r \in Requests, Step(r) PROVE Scored'
<1>1. CASE ClaimLost(r) \/ RefuseFinalization(r)
  BY <1>1, ScoredRollback DEF ClaimLost, RefuseFinalization
<1>2. ~AbandonExam(r)
  BY DEF AbandonExam, Scored, ScoredRequest
<1> QED
  BY <1>1, <1>2, ScoredWaits, ScoredApply, ScoredCommit, ScoredComplete DEF Step

LEMMA ScoredNext ==
  ASSUME Inv, Scored, "abandon" \notin Ops, [Next]_vars PROVE Scored'
<1> TypeOK /\ RowInv /\ Handed
  BY DEF Inv, Scored
<1>1. ASSUME NEW r \in Requests, AbortRequest(r) \/ BreakDeadlock(r) PROVE Scored'
  BY <1>1, ScoredRollback DEF AbortRequest, BreakDeadlock
<1>2. CASE CreateSession
  BY <1>2, ScoredEvent DEF CreateSession, exams
<1>3. ASSUME NEW u \in Users, UserEvent(u) PROVE Scored'
  <2>1. UNCHANGED <<status, finishedAt, tally, finalRank, score, req>>
    BY <1>3 DEF UserEvent, StaleExamCleanup, SocketConnected, Heartbeat, SocketDisconnected,
       GraceExpires, GraceDisconnects, room, exams
  <2>2. Seated' = Seated
    BY <1>3 DEF UserEvent, StaleExamCleanup, SocketConnected, Heartbeat, SocketDisconnected,
       GraceExpires, GraceDisconnects, MarkReady, Seated, TypeOK, room
  <2>3. \A v \in Users : exam[v] = "COMPLETED" => exam'[v] = "COMPLETED"
    BY <1>3 DEF UserEvent, StaleExamCleanup, SocketConnected, Heartbeat, SocketDisconnected,
       GraceExpires, GraceDisconnects, TypeOK, exams
  <2> QED
    BY <2>1, <2>2, <2>3, ScoredEvent
<1>4. CASE TimePasses \/ UNCHANGED vars
  BY <1>4, ScoredEvent DEF TimePasses, vars, room, exams, Seated
<1>5. CASE Restart
  BY <1>5, ScoredEvent DEF Restart, room, exams, Seated
<1> QED
  BY <1>1, <1>2, <1>3, <1>4, <1>5, ScoredArrive, ScoredStep DEF Next

\* Players may leave, drop, come back and send "finished" again while the other one
\* submits, and a duel may be cancelled under a submission: as long as nobody abandons an
\* exam, the places of a completed duel order the recorded scores
\* (finalizeCollaborationSubmission ranks by the exams, and none that was handed in changes).
THEOREM RanksSurviveDrops == ASSUME "abandon" \notin Ops PROVE Spec => []RanksFollowScores
<1>1. Init => Scored
  <2> SUFFICES ASSUME Init PROVE Scored
    OBVIOUS
  <2>1. \A r \in Requests : ScoredRequest(r)
    BY DEF Init, ScoredRequest, Idle, Request, Settling
  <2> QED
    BY <2>1 DEF Init, Scored, Handed, RanksFollowScores
<1>2. Inv /\ Scored /\ [Next]_vars => Scored'
  BY ScoredNext
<1>3. Scored => RanksFollowScores
  BY DEF Scored
<1> QED
  BY <1>1, <1>2, <1>3, Invariance, PTL DEF Spec
=============================================================================

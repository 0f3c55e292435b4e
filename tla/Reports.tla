------------------------------ MODULE Reports ------------------------------
(***************************************************************************)
(* One student's report on one question: filed, withdrawn while pending,   *)
(* reviewed and resolved by administrators, deleted by a superadmin.       *)
(*                                                                         *)
(* The administrator's transaction reads the report without a lock and     *)
(* writes it later with its audit entry and the student's notification;    *)
(* the update holds the row to the commit, so these are one step.  Notes,  *)
(* listings and the access check are left out; the student has report     *)
(* notifications switched on.                                              *)
(***************************************************************************)
EXTENDS Integers, Sequences, SequencesExt

CONSTANTS
    Reviewers,     \* requests of administrators
    MaxFiled,      \* bound of the model: reports filed
    MaxDecisions   \* bound of the model: audited decisions on one report

VARIABLES
    report,     \* the QuestionReport row
    trail,      \* audit entries about it; history: how many of them their requests had seen
    told,       \* statuses the student was notified of
    reviewer,   \* the administrators' requests
    author,     \* the report the student is withdrawing, and how many decisions on it there were
    withdrawn,  \* history: how many decisions the student had seen of the report that was withdrawn
    filed       \* reports filed so far

reportVars == <<report, trail, told, reviewer, author, withdrawn, filed>>

NoReport == [status |-> "gone"]
Idle_ == [step |-> "idle"]
NoWish == [id |-> 0, known |-> 0]

ReportInit ==
    /\ report = NoReport /\ trail = <<>> /\ told = {} /\ withdrawn = 0 /\ filed = 0
    /\ reviewer = [a \in Reviewers |-> Idle_] /\ author = NoWish

\* createReport: one per student, question and issue, a new row each time.
FileReport ==
    /\ report = NoReport /\ filed < MaxFiled
    /\ report' = [status |-> "PENDING", id |-> filed + 1, reviewed |-> FALSE, reviewedBy |-> "nobody", resolvedBy |-> "nobody"]
    /\ filed' = filed + 1 /\ trail' = <<>> /\ told' = {} /\ withdrawn' = 0
    /\ UNCHANGED <<reviewer, author>>

\* deleteReport: the status is read, then the row with that id is deleted.
StartWithdraw ==
    /\ author = NoWish /\ report.status = "PENDING"
    /\ author' = [id |-> report.id, known |-> Len(trail)]
    /\ UNCHANGED <<report, trail, told, reviewer, withdrawn, filed>>
Withdraw ==
    /\ author # NoWish
    /\ author' = NoWish
    /\ IF report = NoReport \/ report.id # author.id THEN UNCHANGED <<report, withdrawn>>
       ELSE report' = NoReport /\ withdrawn' = author.known
    /\ UNCHANGED <<trail, told, reviewer, filed>>

\* A mistake of the kind DecisionsStand excludes: no refusal of a resolved report.
StartAnyReview(a, status) ==
    /\ reviewer[a] = Idle_ /\ report # NoReport /\ report.status # status
    /\ reviewer' = [reviewer EXCEPT ![a] = [step |-> "write", seen |-> report, next |-> status, known |-> Len(trail)]]
    /\ UNCHANGED <<report, trail, told, author, withdrawn, filed>>

\* updateReportStatus, the read and its refusals.
StartReview(a, status) ==
    /\ reviewer[a] = Idle_ /\ report # NoReport
    /\ report.status # status /\ report.status # "RESOLVED"
    /\ reviewer' = [reviewer EXCEPT ![a] = [step |-> "write", seen |-> report, next |-> status, known |-> Len(trail)]]
    /\ UNCHANGED <<report, trail, told, author, withdrawn, filed>>

\* The update, the audit entry and the notification, which a second one of the same status is not.
WriteReview(a) ==
    LET w == reviewer[a] IN
    /\ w.step = "write" /\ Len(trail) < MaxDecisions
    /\ reviewer' = [reviewer EXCEPT ![a] = Idle_]
    /\ IF report = NoReport \/ report.id # w.seen.id
       THEN UNCHANGED <<report, trail, told>>
       ELSE /\ report' = [report EXCEPT !.status = w.next, !.reviewed = TRUE,
                              !.reviewedBy = IF w.next = "REVIEWED" \/ w.seen.reviewedBy = "nobody" THEN a ELSE @,
                              !.resolvedBy = IF w.next = "RESOLVED" THEN a ELSE @]
            /\ trail' = Append(trail, [status |-> w.next, by |-> a, known |-> w.known])
            /\ told' = told \cup {w.next}
    /\ UNCHANGED <<author, withdrawn, filed>>

\* hardDeleteReport, by a superadmin, audited under another action.
HardDelete ==
    /\ report # NoReport
    /\ report' = NoReport /\ trail' = <<>> /\ told' = {} /\ withdrawn' = 0
    /\ UNCHANGED <<reviewer, author, filed>>

ReportSteps ==
    \/ FileReport \/ StartWithdraw \/ Withdraw \/ HardDelete
    \/ \E a \in Reviewers : WriteReview(a) \/ \E status \in {"REVIEWED", "RESOLVED"} : StartReview(a, status)

ReportSpec == ReportInit /\ [][ReportSteps]_reportVars

\* The decisions on a report stand.  Whatever requests cross, the row shows the last decision and who
\* resolved it, and the student has been told of every one; a decision that follows a final one, or
\* repeats one, had been asked for before that was taken, and so had a withdrawal before the first
\* (updateReportStatus and deleteReport refuse by a status they read without a lock).
DecisionsStand ==
    /\ told = {trail[k].status : k \in DOMAIN trail}
    /\ report # NoReport =>
          IF trail = <<>> THEN report.status = "PENDING"
          ELSE /\ report.status = Last(trail).status
               /\ report.status = "RESOLVED" => report.resolvedBy = Last(trail).by
    /\ \A k \in DOMAIN trail : k + 1 \in DOMAIN trail /\ trail[k].status \in {"RESOLVED", trail[k + 1].status}
          => trail[k + 1].known < k
    /\ withdrawn = 0

=============================================================================

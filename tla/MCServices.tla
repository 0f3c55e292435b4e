---------------------------- MODULE MCServices ----------------------------
(* The services that share no state, side by side for TLC.  The scene says  *)
(* which of them moves; the others rest in their first state.               *)
EXTENDS Streaks, Notifications, Realtime, Mail, QuestionBank, Bookmarks, Reports

CONSTANTS
    Scenes,     \* the scenes to play
    MaxCalls,   \* bound: requests in a scene of the question bank
    e1, e2, c1, c2, r1, r2, p1, p2, x1, x2, x3, q1, q2, i1, i2, i3

VARIABLES scene, calls

vars == <<streakVars, noteVars, rtVars, mailVars, bankVars, markVars, reportVars, scene, calls>>

ListenersOf == {<<1, p1>>, <<2, p1>>, <<3, p2>>}
TwoWarnings == <<2, 1>>
FlaggedTogether == {<<i1, i2>>}
Kind == "STREAK"

\* Requests are alike, and so are submissions or editors.
SlotSymmetry == Permutations({c1, c2}) \cup Permutations({e1, e2})

(***************************************************************************)
(* The states a scene begins in.                                           *)
(***************************************************************************)
NoteScenes == {"inbox", "notices", "preferences"}
MailScenes == {"campaigns", "reminders", "script", "broadcasts", "alerts", "passwords"}
BankScenes == {"pool", "pictures"}

\* In the inbox the kind of row is muted, and some are created all the same.
NoteStart ==
    /\ NoteInit
    /\ scene # "notices" => ~person.premium /\ ~person.member
    /\ \A c \in Categories : preferences[c] <=> ~(scene = "inbox" /\ c = Kind)
    /\ scene \notin NoteScenes => ~person.premium

\* Who receives e-mail: somebody each job of the scene has a reason to write to.
MailStart ==
    /\ MailInit /\ spent.mishaps = (IF scene = "campaigns" THEN MaxMishaps ELSE 0)
    /\ \A p \in People : LET u == user[p] IN
          CASE scene = "campaigns" -> ~u.member /\ u.fewMarks /\ ~u.medic
            [] scene \in {"script", "broadcasts"} -> ~u.tried /\ u.born = 1
            [] OTHER -> u.born = 1 /\ u.tried /\ u.fewMarks /\ ~u.medic /\ ~u.muted /\ (scene # "reminders" => u.member)

Pictured_ == [there |-> TRUE, subject |-> 1, free |-> FALSE, featured |-> FALSE, image |-> x1, words |-> TRUE, parent |-> None]
BankStart ==
    /\ BankInit
    /\ CASE scene = "pool" -> (\A q \in There : bank[q].image = None /\ bank[q].words) /\ (q2 \in There => q1 \in There) /\ breaks = MaxBreaks
         [] scene = "pictures" -> breaks = 0 /\ \E p \in Questions : bank = [q \in Questions |-> IF q = p THEN Pictured_ ELSE NoQuestion]
         [] OTHER -> There = {} /\ breaks = 0

Init ==
    /\ scene \in Scenes /\ calls = 0
    /\ StreakInit /\ NoteStart /\ RtInit /\ MailStart /\ BankStart /\ MarkInit /\ ReportInit
    /\ scene # "bookmarks" => ~member

(***************************************************************************)
(* Streaks.  What is in flight, a transaction or a job, sees one midnight  *)
(* at most; collaboration exams, of which only the count matters, are      *)
(* submitted on the last day.                                              *)
(***************************************************************************)
InFlight == {submit[e].day : e \in {x \in Exams : submit[x].pc # "idle"}}
            \cup (IF sweep.pc = "idle" THEN {} ELSE {sweep.day})
StreakMoves ==
    /\ StreakNext
    /\ today' # today => InFlight \subseteq {today}
    /\ \A e \in Exams : submit'[e].pc = "begun" /\ submit'[e].collab => today = MaxDay

(***************************************************************************)
(* Notifications and e-mail.                                               *)
(***************************************************************************)
\* Announcements for everybody or for premium users, of one institution's verified users or not.
Aimed ==
    \A a \in Announcements : notices'[a] # NoNotice =>
        notices'[a].audience # "FREE" /\ notices'[a].verifiedOnly = notices'[a].scoped
NoteNext ==
    \/ scene = "inbox" /\ \/ \E r \in Clients : RowSteps(r, <<Kind, 1>>)
                          \/ SocketSteps \/ AgeRow(<<Kind, 1>>) \/ CleanUp
    \/ scene = "notices" /\ ((\E r \in Clients : NoticeSteps(r)) \/ SocketSteps \/ (AdminSteps /\ Aimed) \/ ChangePerson)
    \/ scene = "preferences" /\ \E r \in Clients : PreferenceSteps(r)

JobsOf == CASE scene = "script" -> {<<"script", 17>>}
            [] scene = "broadcasts" -> {"script"} \X (Scripts \ {17})
            [] OTHER -> {<<scene, 0>>}
\* Two runs of a job at once, and a third after them; two of a broadcast, one after the other.
Overlap ==
    IF scene = "broadcasts" THEN Active = {} /\ spent.starts < 2
    ELSE spent.starts = 2 => Active = {}
MailMoves ==
    \/ \E r \in Runs : RunSteps(r)
    \/ \E r \in Runs, j \in JobsOf : Overlap /\ StartRun(r, j)
    \/ scene \in {"campaigns", "reminders", "alerts"} /\ NextDay
    \/ scene \in {"campaigns", "reminders"} /\ \E p \in People : TakeExam(p)
    \/ scene = "script" /\ \E p \in People : ToggleMuted(p)
    \/ scene = "broadcasts" /\ SwitchMail
    \/ scene = "alerts" /\ \E p \in People : EndMembership(p)
    \/ scene = "passwords" /\ \E p \in People : NewPassword(p) \/ ChangeGrowsOld(p)

(***************************************************************************)
(* The question bank.  Ids of images are handed out in a fixed order.      *)
(***************************************************************************)
Order == <<x1, x2, x3>>
Unminted == {k \in DOMAIN Order : Order[k] \notin minted}
Fresh == IF Unminted = {} THEN {} ELSE {Order[Min(Unminted)]}

Plain == [subject |-> 1, pool |-> "bank", image |-> "clear", words |-> TRUE, parent |-> None]
Drafts == IF scene = "pool" THEN {[Plain EXCEPT !.subject = s, !.pool = "free"] : s \in Subjects}
          ELSE {[Plain EXCEPT !.image = "import", !.parent = q1], [Plain EXCEPT !.image = x1]}
Forms == IF scene = "pool"
         THEN {[Same EXCEPT !.subject = 2], [Same EXCEPT !.pool = "free"], [Same EXCEPT !.pool = "bank"],
               [Same EXCEPT !.subject = 1, !.pool = "free"]}
         ELSE {[Same EXCEPT !.image = x] : x \in {x1, x2, "text", "import"}} \cup {[Same EXCEPT !.image = "clear", !.words = FALSE]}

Called == calls < (IF scene = "pool" THEN 2 ELSE MaxCalls) /\ calls' = calls + 1
Calls(e) ==
    /\ Called
    /\ \/ \E qs \in SUBSET Questions : \E draft \in [qs -> Drafts] :
              Cardinality(qs) \in (IF scene = "pool" THEN {1, 2} ELSE {1}) /\ StartCreate(e, draft)
       \/ \E q \in Questions, form \in Forms : StartUpdate(e, q, form)
       \/ scene = "pictures" /\ \E q \in Questions : StartDelete(e, q)
       \/ scene = "pool" /\ \E q \in Questions, on \in BOOLEAN : StartToggle(e, {q}, on)
BankNext ==
    \/ \E e \in Editors : Calls(e)
    \/ scene = "pictures" /\ Called /\ \E x \in Fresh : UploadAsset(x)
    \/ /\ UNCHANGED calls
       /\ \/ \E e \in Editors : \/ SaveSteps(e) \/ DeleteRow(e) \/ WriteToggle(e)
                                \/ \E qs \in SUBSET Questions : \E fresh \in [qs -> Fresh] : PrepareMedia(e, fresh)
                                \/ scene = "pictures" /\ PrepareFails(e, Fresh)
          \/ scene = "pictures" /\ \E q \in Questions : Sit(q)

(***************************************************************************)
(* One scene moves.                                                        *)
(***************************************************************************)
Others(mine) ==
    /\ mine # "streak" => UNCHANGED streakVars
    /\ mine # "notes" => UNCHANGED noteVars
    /\ mine # "realtime" => UNCHANGED rtVars
    /\ mine # "mail" => UNCHANGED mailVars
    /\ mine # "bank" => UNCHANGED <<bankVars, calls>>
    /\ mine # "marks" => UNCHANGED markVars
    /\ mine # "reports" => UNCHANGED reportVars

Next ==
    /\ \/ scene = "streak" /\ StreakMoves /\ Others("streak")
       \/ scene \in NoteScenes /\ NoteNext /\ Others("notes")
       \/ /\ Others("realtime")
          /\ \/ scene = "lease" /\ LeaseSteps
             \/ scene = "feed" /\ ~clash /\ FeedSteps
             \/ scene = "slow" /\ QueueSteps
       \/ scene \in MailScenes /\ MailMoves /\ Others("mail")
       \/ scene \in BankScenes /\ BankNext /\ Others("bank")
       \/ scene = "bookmarks" /\ MarkSteps /\ Others("marks")
       \/ scene = "reports" /\ ReportSteps /\ Others("reports")
    /\ UNCHANGED scene

Spec == Init /\ [][Next]_vars
============================================================================

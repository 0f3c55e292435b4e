------------------------------- MODULE Mail -------------------------------
(***************************************************************************)
(* The e-mails the jobs and the broadcast scripts send: who is chosen, what *)
(* the e-mail log says of them, the providers and the log row written      *)
(* after one accepts.                                                      *)
(*                                                                         *)
(* A run (a cron job of a process, or a script) reads its people and the   *)
(* log up front and then sends letter by letter.  Nothing keeps two        *)
(* processes from running the same job, a provider may accept a letter and *)
(* answer nothing, a log row may not be written and a process may die.     *)
(* The two reads of a leg (people, log) are one step: between them nothing *)
(* can happen that would not be the same before or after both.  Time is    *)
(* counted in days; texts, addresses and counters are left out.            *)
(***************************************************************************)
EXTENDS Integers, FiniteSets, Sequences, Listings

CONSTANTS
    People,          \* user ids
    Runs,            \* processes that run jobs and scripts
    Batch,           \* BATCH_SIZE of the jobs
    MinAge,          \* INACTIVITY_NUDGE_MIN_DAYS_SINCE_SIGNUP
    MaxNudges,       \* INACTIVITY_NUDGE_MAX_TOTAL
    NudgeCooldown,   \* INACTIVITY_NUDGE_COOLDOWN_DAYS
    PromptCooldown,  \* FREE_PROMPT_COOLDOWN_DAYS
    Thresholds,      \* MILESTONE_THRESHOLDS
    WarningDays,     \* WARNING_DAYS, a sequence
    MaxDate, MaxRows, MaxStarts, MaxMishaps, MaxExams, MaxChanges   \* bounds of the model

ASSUME MailAssumption ==
    /\ People \subseteq Nat /\ IsFiniteSet(People) /\ IsFiniteSet(Runs)
    /\ MaxNudges \in Nat \ {0} /\ PromptCooldown \in Nat /\ WarningDays \in Seq(Nat)
    /\ {MaxDate, MaxRows, MaxStarts, MaxMishaps, MaxExams, MaxChanges} \subseteq Nat

VARIABLES
    date,     \* the day it is
    enabled,   \* SystemSettings.emailEnabled
    user,      \* the columns of User and Subscription the jobs look at
    password,  \* PASSWORD_CHANGED audit rows: the log's length at each, how many are old enough
    log,       \* EmailLog
    run,       \* the runs under way
    mailbox,   \* history: the letters that reached somebody
    doubt,     \* history: people one of whose letters reached them and no row says so, or not of that day
    crowd,     \* history: how many runs were ever under way at once
    spent      \* the runs started and the mishaps so far, for the bounds

mailVars == <<date, enabled, user, password, log, run, mailbox, doubt, crowd, spent>>

None_ == 0   \* no tag
NoRun == [at |-> "idle", now |-> 0, legs |-> <<>>, todo |-> <<>>]

\* What a script sends: EmailType, audience, and whether its log rows keep the broadcast id.
Script(type, chosen(_), kept) == [type |-> type, people |-> {p \in People : chosen(user[p])}, kept |-> kept]
BookmarkExam == Script("WELCOME", LAMBDA u : u.able /\ u.member, FALSE)
BookmarkNudge == Script("NUDGE", LAMBDA u : u.able /\ u.fewMarks, FALSE)
FreeOutreach == Script("PROMPT", LAMBDA u : u.able /\ ~u.member /\ ~u.muted, FALSE)
MathematicsUpdate == Script("NOTICE", LAMBDA u : TRUE, FALSE)
MedicineOutreach == Script("PROMPT", LAMBDA u : u.able /\ ~u.muted /\ u.medic, FALSE)
PremiumDiscount == Script("PROMPT", LAMBDA u : u.able /\ ~u.member /\ ~u.muted, FALSE)
WhatsappGroup == Script("NOTICE", LAMBDA u : u.able /\ u.member, TRUE)
InterfaceForm == Script("NOTICE", LAMBDA u : u.able /\ ~u.muted, FALSE)
Scripts == 11..18
Broadcast(b) ==
    CASE b = 11 -> BookmarkExam [] b = 12 -> BookmarkNudge [] b = 13 -> FreeOutreach
      [] b = 14 -> MathematicsUpdate [] b = 15 -> MedicineOutreach [] b = 16 -> PremiumDiscount
      [] b = 17 -> WhatsappGroup [] b = 18 -> InterfaceForm

\* A job, or a script by its number, as the legs it goes through.
Program(job) ==
    CASE job[1] = "campaigns" -> << <<"welcome", None_>>, <<"nudge", None_>>, <<"milestone", None_>> >>
      [] job[1] = "alerts" -> [i \in 1..Len(WarningDays) |-> <<"warn", WarningDays[i]>>]
                           \o << <<"expired", None_>> >>
      [] job[1] = "reminders" -> << <<"reminders", None_>> >>
      [] job[1] = "passwords" -> << <<"passwords", None_>> >>
      [] job[1] = "script" -> <<job>>

MailInit ==
    /\ date = 1 /\ enabled = TRUE
    /\ user \in [People -> [able: {TRUE}, member: BOOLEAN, muted: BOOLEAN, tried: BOOLEAN, done: {0},
                            born: {0, 1}, lastSeen: {0}, reminded: {0}, ends: {1}, fewMarks: BOOLEAN,
                            medic: BOOLEAN]]
    /\ password = [p \in People |-> [made |-> <<>>, old |-> 0]]
    /\ log = <<>> /\ mailbox = <<>> /\ run = [r \in Runs |-> NoRun]
    /\ doubt = {} /\ crowd = 0 /\ spent \in [starts : {0}, mishaps : 0..MaxMishaps]

\* The rows that count: what a provider took, or a preview stood for.
Logged(p, types) == {i \in 1..Len(log) : log[i].to = p /\ log[i].type \in types /\ log[i].status = "sent"}
LoggedSince(p, types, day) == {i \in Logged(p, types) : log[i].day >= day}
LoggedWith(p, type, tag) == {i \in Logged(p, {type}) : log[i].stored = tag}

\* hasReceivedMarketingEmailToday.
Marketing == {"WELCOME", "PROMPT", "NUDGE", "MILESTONE"}
SameKindOnly(p, type, day) == LoggedSince(p, {type}, day) # {}
HadMarketing(p, type, day) == LoggedSince(p, Marketing, day) # {}

Letter(p, type, tag, from) == [to |-> p, type |-> type, tag |-> tag, from |-> from]

\* findMany({ orderBy, take }), and the letters to the people it finds, by ascending key.
Sooner(p, q, key) == key[p] < key[q] \/ (key[p] = key[q] /\ p < q)
Batched(S, key) == {p \in S : Cardinality({q \in S : Sooner(q, p, key)}) < Batch}
LettersTo(S, key, letter) ==
    LET listing == Sorted(S, LAMBDA p, q : Sooner(p, q, key))
    IN  [i \in 1..Cardinality(S) |-> letter[listing[i]]]
ById == [p \in People |-> p]
ByBirth == [p \in People |-> user[p].born]
ByExams == [p \in People |-> -user[p].done]
ToAll(type, tag) == [p \in People |-> Letter(p, type, tag, "job")]

\* The campaigns: guards on the person and on the log as read up front.
WelcomeLetters(day) ==
    LET found == Batched({p \in People : user[p].able /\ ~user[p].member /\ user[p].born >= day - 1}, ByBirth)
    IN  LettersTo({p \in found : Logged(p, {"WELCOME"}) = {} /\ ~user[p].muted}, ByBirth,
                  ToAll("WELCOME", None_))
NudgeLetters(day) ==
    LET found == Batched({p \in People : /\ user[p].able /\ ~user[p].member /\ ~user[p].tried
                                         /\ user[p].born <= day - MinAge}, ByBirth)
    IN  LettersTo({p \in found : /\ Cardinality(Logged(p, {"NUDGE"})) < MaxNudges
                                 /\ LoggedSince(p, {"NUDGE"}, day - NudgeCooldown) = {}
                                 /\ ~user[p].muted}, ByBirth,
                  ToAll("NUDGE", None_))
Uncelebrated(p) == {m \in Thresholds : user[p].done >= m /\ LoggedWith(p, "MILESTONE", m) = {}}
Highest(S) == CHOOSE m \in S : \A n \in S : n <= m
MilestoneLetters ==
    LET found == Batched({p \in People : /\ user[p].able /\ ~user[p].member /\ user[p].tried
                                         /\ \E m \in Thresholds : user[p].done >= m}, ByExams)
    IN  LettersTo({p \in found : Uncelebrated(p) # {} /\ ~user[p].muted}, ByExams,
                  [p \in People |-> Letter(p, "MILESTONE", Highest(Uncelebrated(p)), "job")])

\* runSubscriptionAlerts: a day of the calendar is one window.
WarningLetters(d, day) ==
    LET found == Batched({p \in People : user[p].member /\ user[p].ends = day + d - 1}, ById)
    IN  LettersTo({p \in found : user[p].able /\ LoggedWith(p, "WARNING", d) = {}}, ById,
                  ToAll("WARNING", d))
ExpiredLetters(day) ==
    LET found == Batched({p \in People : ~user[p].member /\ user[p].ends = day - 1}, ById)
    IN  LettersTo({p \in found : user[p].able /\ LoggedSince(p, {"EXPIRED"}, day - 1) = {}}, ById,
                  ToAll("EXPIRED", None_))

\* listPremiumReminderCandidates and listFreePromptCandidates (no freezers here).
AtRisk(p, day) == user[p].able /\ ~user[p].muted /\ user[p].lastSeen > 0 /\ user[p].lastSeen = day - 1
ReminderDue(p, day) == AtRisk(p, day) /\ user[p].member /\ user[p].reminded < day
PromptDue(p, day) == AtRisk(p, day) /\ ~user[p].member /\ user[p].tried
StreakLetters(day) ==
    LettersTo(Batched({p \in People : ReminderDue(p, day)}, ById), ById, ToAll("STREAK", None_))
PromptLetters(day) ==
    LET found == Batched({p \in People : PromptDue(p, day)}, ById)
    IN  LettersTo({p \in found : LoggedSince(p, {"PROMPT"}, day - PromptCooldown) = {}}, ById,
                  ToAll("PROMPT", None_))
ReminderLetters(day) == StreakLetters(day) \o PromptLetters(day)

\* runPasswordChangeAlertCheck: everybody with an old enough change, whatever was sent since.
PasswordLetters ==
    LettersTo(Batched({p \in People : password[p].old > 0}, ById), ById, ToAll("PASSWORD", None_))
ScriptLetters(b) ==
    LET s == Broadcast(b)
    IN  LettersTo({p \in s.people : LoggedWith(p, s.type, b) = {}}, ById,
                  [p \in People |-> Letter(p, s.type, b, "script")])

LettersOf(leg, day) ==
    CASE leg[1] = "welcome" -> WelcomeLetters(day)
      [] leg[1] = "nudge" -> NudgeLetters(day)
      [] leg[1] = "milestone" -> MilestoneLetters
      [] leg[1] = "warn" -> WarningLetters(leg[2], day)
      [] leg[1] = "expired" -> ExpiredLetters(day)
      [] leg[1] = "reminders" -> ReminderLetters(day)
      [] leg[1] = "passwords" -> PasswordLetters
      [] leg[1] = "script" -> ScriptLetters(leg[2])

Active == {r \in Runs : run[r].at # "idle"}
StartRun(r, job) ==
    /\ run[r].at = "idle"
    /\ spent.starts < MaxStarts
    /\ run' = [run EXCEPT ![r] = [at |-> "next", now |-> date, legs |-> Program(job), todo |-> <<>>]]
    /\ crowd' = IF Cardinality(Active) + 1 > crowd THEN crowd + 1 ELSE crowd
    /\ spent' = [spent EXCEPT !.starts = @ + 1]
    /\ UNCHANGED <<date, enabled, user, password, log, mailbox, doubt>>

ReadAudience(r) ==
    /\ run[r].at = "next" /\ run[r].todo = <<>>
    /\ run' = IF run[r].legs = <<>> THEN [run EXCEPT ![r] = NoRun]
              ELSE [run EXCEPT ![r].legs = Tail(@), ![r].todo = LettersOf(Head(run[r].legs), run[r].now)]
    /\ UNCHANGED <<date, enabled, user, password, log, mailbox, doubt, crowd, spent>>

Now_(r) == Head(run[r].todo)
Next_(r) == [run EXCEPT ![r].at = "next", ![r].todo = Tail(@)]
IsCampaign(l) == l.from = "job" /\ l.type \in {"WELCOME", "NUDGE", "MILESTONE"}

\* The changes made since the last alert; a young one puts all of them off.
Newest(p) == Len(password[p].made)
Unreported(p) == {i \in 1..Newest(p) : \A j \in Logged(p, {"PASSWORD"}) : password[p].made[i] >= j}
Alertable(p) == Unreported(p) # {} /\ Newest(p) <= password[p].old

Consider(r) ==
    /\ run[r].at = "next" /\ run[r].todo # <<>> /\ Len(log) < MaxRows
    /\ LET l == Now_(r)
           sent == IF l.type = "PASSWORD" THEN [l EXCEPT !.tag = Newest(l.to)] ELSE l
       IN  run' = IF \/ IsCampaign(l) /\ HadMarketing(l.to, l.type, run[r].now)
                     \/ l.type = "PASSWORD" /\ ~Alertable(l.to)
                  THEN Next_(r)
                  ELSE [run EXCEPT ![r].at = "first", ![r].todo = [run[r].todo EXCEPT ![1] = sent]]
    /\ UNCHANGED <<date, enabled, user, password, log, mailbox, doubt, crowd, spent>>

\* writeEmailLog stores the metadata of its own entry, not the letter's.
LogRow(l, status) ==
    [to |-> l.to, type |-> l.type, status |-> status, day |-> date,
     stored |-> IF l.from = "script" /\ Broadcast(l.tag).kept THEN l.tag ELSE None_]

\* A reminder is marked after its send returned, a suppressed one too.
AfterSend(r) == IF Now_(r).type = "STREAK" THEN [run EXCEPT ![r].at = "mark"] ELSE Next_(r)

\* TransactionalEmailService.send: a script with its own provider knows no suppression.
Critical(l) == l.type = "PASSWORD" \/ (l.from = "script" /\ Broadcast(l.tag).kept)
Suppress(r) ==
    /\ run[r].at = "first" /\ ~enabled /\ ~Critical(Now_(r))
    /\ log' = Append(log, LogRow(Now_(r), "suppressed"))
    /\ run' = AfterSend(r)
    /\ UNCHANGED <<date, enabled, user, password, mailbox, doubt, crowd, spent>>

Fallback(r) ==
    IF run[r].at = "first" /\ Now_(r).tag # 17
    THEN [run EXCEPT ![r].at = "second"]
    ELSE IF Now_(r).type = "PASSWORD" THEN [run EXCEPT ![r] = NoRun] ELSE Next_(r)
Attempting(r) == run[r].at = "second" \/ (run[r].at = "first" /\ (enabled \/ Critical(Now_(r))))
Mishap == spent.mishaps < MaxMishaps /\ spent' = [spent EXCEPT !.mishaps = @ + 1]
Deliver(r) == mailbox' = Append(mailbox, [letter |-> Now_(r), day |-> date])
Accept(r) ==
    /\ Attempting(r) /\ Deliver(r)
    /\ run' = [run EXCEPT ![r].at = "log"]
    /\ UNCHANGED <<date, enabled, user, password, log, doubt, crowd, spent>>
AcceptAndTimeOut(r) ==
    /\ Mishap /\ Attempting(r) /\ Deliver(r)
    /\ log' = Append(log, LogRow(Now_(r), "failed"))
    /\ doubt' = doubt \cup {Now_(r).to}
    /\ run' = Fallback(r)
    /\ UNCHANGED <<date, enabled, user, password, crowd>>
Refuse(r) ==
    /\ Mishap /\ Attempting(r)
    /\ log' = Append(log, LogRow(Now_(r), "failed"))
    /\ run' \in {Fallback(r), IF Now_(r).type = "PASSWORD" THEN [run EXCEPT ![r] = NoRun] ELSE Next_(r)}
    /\ UNCHANGED <<date, enabled, user, password, mailbox, doubt, crowd>>

LogSent(r) ==
    /\ run[r].at = "log"
    /\ log' = Append(log, LogRow(Now_(r), "sent"))
    /\ run' = AfterSend(r)
    /\ UNCHANGED <<date, enabled, user, password, mailbox, doubt, crowd, spent>>
LogLost(r) ==
    /\ Mishap /\ run[r].at = "log"
    /\ doubt' = doubt \cup {Now_(r).to}
    /\ run' = AfterSend(r)
    /\ UNCHANGED <<date, enabled, user, password, log, mailbox, crowd>>

\* markReminderSent; when it fails the send is not undone.  It marks the day the run began,
\* over a later one too: past midnight nothing says that today's reminder was sent.
MarkReminded(r) ==
    /\ run[r].at = "mark"
    /\ user' = [user EXCEPT ![Now_(r).to].reminded = run[r].now]
    /\ doubt' = IF run[r].now # date THEN doubt \cup {Now_(r).to} ELSE doubt
    /\ run' = Next_(r)
    /\ UNCHANGED <<date, enabled, password, log, mailbox, crowd, spent>>
MailDies(r) ==
    /\ Mishap /\ run[r].at # "idle"
    /\ doubt' = IF run[r].at \in {"log", "mark"} THEN doubt \cup {Now_(r).to} ELSE doubt
    /\ run' = [run EXCEPT ![r] = NoRun]
    /\ UNCHANGED <<date, enabled, user, password, log, mailbox, crowd>>

RunSteps(r) ==
    \/ ReadAudience(r) \/ Consider(r) \/ Suppress(r) \/ Accept(r) \/ AcceptAndTimeOut(r)
    \/ Refuse(r) \/ LogSent(r) \/ LogLost(r) \/ MarkReminded(r) \/ MailDies(r)

\* What people and the calendar do meanwhile.
TakeExam(p) ==
    /\ user[p].done < MaxExams
    /\ user' = [user EXCEPT ![p].done = @ + 1, ![p].tried = TRUE, ![p].lastSeen = date]
    /\ UNCHANGED <<date, enabled, password, log, run, mailbox, doubt, crowd, spent>>
ToggleMuted(p) ==
    /\ user' = [user EXCEPT ![p].muted = ~@]
    /\ UNCHANGED <<date, enabled, password, log, run, mailbox, doubt, crowd, spent>>
EndMembership(p) ==
    /\ user[p].member /\ user[p].ends < date
    /\ user' = [user EXCEPT ![p].member = FALSE]
    /\ UNCHANGED <<date, enabled, password, log, run, mailbox, doubt, crowd, spent>>
NewPassword(p) ==
    /\ Newest(p) < MaxChanges
    /\ password' = [password EXCEPT ![p].made = Append(@, Len(log))]
    /\ UNCHANGED <<date, enabled, user, log, run, mailbox, doubt, crowd, spent>>
ChangeGrowsOld(p) ==
    /\ password[p].old < Newest(p)
    /\ password' = [password EXCEPT ![p].old = @ + 1]
    /\ UNCHANGED <<date, enabled, user, log, run, mailbox, doubt, crowd, spent>>
SwitchMail ==
    /\ enabled' = ~enabled
    /\ UNCHANGED <<date, user, password, log, run, mailbox, doubt, crowd, spent>>
NextDay ==
    /\ date < MaxDate
    /\ date' = date + 1
    /\ UNCHANGED <<enabled, user, password, log, run, mailbox, doubt, crowd, spent>>

MailJobs == ({"campaigns", "alerts", "reminders", "passwords"} \X {None_}) \cup ({"script"} \X Scripts)
MailNext ==
    \/ \E r \in Runs : RunSteps(r) \/ \E j \in MailJobs : StartRun(r, j)
    \/ \E p \in People : \/ TakeExam(p) \/ ToggleMuted(p) \/ EndMembership(p)
                          \/ NewPassword(p) \/ ChangeGrowsOld(p)
    \/ SwitchMail \/ NextDay

MailSpec == MailInit /\ [][MailNext]_mailVars

-----------------------------------------------------------------------------
Received(p, chosen(_)) ==
    Cardinality({i \in 1..Len(mailbox) : mailbox[i].letter.to = p /\ chosen(mailbox[i])})

\* However often a job is run, and by however many processes at once, nobody whose
\* letters are all on record is welcomed, nudged or, on one day, mailed by the campaigns
\* more often than the limit, but for one letter for every further process
\* (marketing-campaigns.ts: what is read up front, the check before each letter).
CampaignsRationed ==
    \A p \in People \ doubt :
        /\ Received(p, LAMBDA m : IsCampaign(m.letter) /\ m.letter.type = "WELCOME") <= crowd
        /\ Received(p, LAMBDA m : IsCampaign(m.letter) /\ m.letter.type = "NUDGE") <= MaxNudges - 1 + crowd
        /\ \A d \in 1..MaxDate : Received(p, LAMBDA m : IsCampaign(m.letter) /\ m.day = d) <= crowd

\* The same for what is no campaign: a streak reminder a day, an upgrade prompt per
\* cooldown, a notice per expiry, an alert for the same latest password change, and the
\* one broadcast whose log rows say which broadcast they are of.
RemindersRationed ==
    \A p \in People \ doubt :
        /\ \A d \in 1..MaxDate :
              /\ Received(p, LAMBDA m : m.letter.type = "STREAK" /\ m.day = d) <= crowd
              /\ Received(p, LAMBDA m : /\ m.letter.from = "job" /\ m.letter.type = "PROMPT"
                                        /\ m.day \in d..(d + PromptCooldown)) <= crowd
        /\ Received(p, LAMBDA m : m.letter.type = "EXPIRED") <= crowd
        /\ \A n \in 1..MaxChanges : Received(p, LAMBDA m : m.letter.type = "PASSWORD" /\ m.letter.tag = n) <= crowd
        /\ Received(p, LAMBDA m : m.letter.from = "script" /\ m.letter.tag = 17) <= crowd

\* Whoever runs the jobs, and however often at once, nobody is mailed beyond the limits
\* the code reads from its log and its users before each letter.
OutreachRationed == CampaignsRationed /\ RemindersRationed

\* The claim of every broadcast script and of the milestone campaign: one who received a
\* letter is not sent it again by a later run (broadcast-bookmark-nudge.ts:18 "Skips users
\* who already received this broadcast (idempotent)", marketing-campaigns.ts:358).
ReceivedOnce ==
    \A p \in People \ doubt : crowd <= 1 =>
        \A i, j \in 1..Len(mailbox) :
            mailbox[i].letter.to = p /\ mailbox[i].letter.tag # None_ /\ mailbox[i].letter = mailbox[j].letter => i = j
=============================================================================

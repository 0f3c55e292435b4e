# StudyBond backend: a verification project in TLA+

The StudyBond backend serves exam practice: a Fastify application on Postgres
(through Prisma, at READ COMMITTED) and Redis, with websockets for 1v1 duels,
periodic jobs and a worker that projects study points (SP) onto leaderboards.
This directory models the parts of it in which several requests, timers, jobs
or workers write the same rows, checks the models with TLC on small instances,
and proves the main results for every instance with TLAPS.

Paths below are relative to the repository.

## 1. The system's parts

| Part | State it keeps | Operations | What is hard |
|---|---|---|---|
| **Duel sessions** `src/modules/collaboration` | `CollaborationSession`, `SessionParticipant`, the exam dealt to each player, presence keys, grace timers | create, join, start, leave, cancel, rename; finished and ready events; submit (through exams) | row locks taken in different orders, state read before the lock, timers that fire after a submission, READ COMMITTED |
| **Exams** `src/modules/exams` | `Exam`, `ExamAnswer`, counters, credits, the user's totals | start, daily challenge, submit, retake, abandon, sync of offline work; the stale-exam job | checks made outside the transaction that writes, retries, expiry against late answers |
| **Idempotency** `src/shared/idempotency` | `IdempotencyRecord` | execute a request under a key, expire records | a crash between the effect and the record, retries that overlap, records deleted under a running request |
| **Subscriptions** `src/modules/subscriptions`, `src/jobs/subscription-check.ts` | `SubscriptionPayment`, `Subscription`, entitlements, the user's premium flag | initiate, verify, webhook, expire | duplicate and late webhooks, a verification that overlaps one, renewal against expiry |
| **Authentication** `src/modules/auth`, `src/shared/auth`, `src/modules/users` | users, sessions, devices, refresh tokens, codes, the policy version | register, log in, verify, refresh, log out, reset and change password, delete the account | token rotation and replay, device limits, policy changes against tokens issued earlier, codes used twice |
| **Admin step-up and roles** `src/modules/admin` | step-up challenges and approvals, roles | request, verify, use; promote, demote | attempts counted by read then write, two verifications at once, superadmins counted without a lock |
| **Leaderboards** `src/modules/leaderboard`, `src/shared/leaderboard`, `src/workers` | the tables of points, the projection outbox, Redis hashes and sorted sets, the archive of weeks | earn, project, read, reconcile, reset weekly | a worker that dies between the effect and the mark, stale snapshots, ties at the end of a board, the weekly reset |
| **Streaks and achievements** `src/modules/streaks`, `src/shared/streaks`, `src/shared/achievements` | streak counters, freezers, unlocked achievements | advance on activity, use freezers, unlock, sweep broken streaks | midnight in Lagos, absolute values written from a stale read |
| **Notifications** `src/modules/notifications` | activity rows, announcements, receipts, preferences, sockets | create, read, dismiss, announce, patch, push | keys that deduplicate, a summary read before it is sent, patches that cross |
| **Websocket leases and session events** `session-manager.ts`, `websocket-handlers.ts` | one lease per player and session, subscriptions, a dedupe window, outbound queues | connect, refresh, take over, publish, flush | takeovers, a lease that expires under its holder, repeated events, slow sockets |
| **E-mail, campaigns, broadcasts** `src/shared/email`, `src/jobs`, `src/scripts` | `EmailLog`, reminder dates | send, fall back, run campaigns, alerts, reminders and scripts | two processes running one job, a provider that accepts and answers nothing, a log row not written |
| **Questions and bulk upload** `src/modules/questions` | questions, the free pool, images | create, update, delete, import, feature | advisory locks of subjects, images outside the transaction |
| **Bookmarks** `src/modules/bookmarks` | bookmarks that expire | save, save in bulk, remove, sweep | limits counted before an insert |
| **Reports** `src/modules/reports` | reports, audit entries, notifications | file, withdraw, review, delete | a status read without a lock |
| **Moderation, analytics, study, institutions, media, cache, rate limits** | configuration, rollups, counters | read, update | independent rows and input and output |

How they meet. A duel is started by the collaboration service, which writes
exams; the exams service submits them and calls back into the collaboration's
completion in the same transaction; that transaction also adds SP, advances the
streak, and writes an outbox row that the leaderboard worker projects. Most
mutating routes run inside the idempotency service. Subscriptions decide the
premium flag that exams and collaboration check before they start anything; a
change of that flag moves the account to another access mode, which closes its
sessions and forgets its devices. Completed exams, payments and jobs write
notifications and e-mails after they commit.

## 2. The plan

Modules, the most important behaviour first. A `Proofs` module holds theorems.

| Step | Modules | Subject | State |
|---|---|---|---|
| 1 | `Collaboration`, `DuelContract`, `CollaborationProofs` | the duel | checked and proved |
| 2 | `Idempotency`, `IdempotencyProofs` | overlapping and retried requests under one key, crashes, clean-up | checked and proved |
| 3 | `Subscriptions`, `SubscriptionsProofs` | verification, webhooks, expiry and the premium projection | checked and proved |
| 4 | `ExamLifecycle`, `ExamLifecycleProofs` | starts against the credits, submissions, expiry, retakes, the daily challenge | checked and proved |
| 5 | `AuthSessions`, `AuthSessionsProofs` | sign-ins, devices, refresh-token rotation, passwords and codes, policy changes | checked and proved |
| 6 | `StepUp`, `StepUpProofs` | the second factor of superadmins and the roles it guards | checked and proved |
| 7 | `Leaderboard`, `Listings`, `ProgressProofs` | the outbox, its worker, Redis, readers, reconciliation and the weekly reset | checked, with liveness, and proved |
| 8 | `Streaks`, `ProgressProofs` | streak arithmetic against the days studied, two submissions around midnight | checked and proved |
| 9 | `Realtime`, `Notifications`, `ServicesProofs` | leases, event fan-out, slow sockets; rows, announcements, pushes, preferences | checked and proved |
| 10 | `Mail`, `QuestionBank`, `Bookmarks`, `Reports`, `ServicesProofs`, `ProgressProofs` | jobs and scripts that write to people; content and its images; limits; decisions | checked and proved |

`Collaboration` composes the duel with the part of the exams module it calls
into, and implements `DuelContract`. `MCAccounts` runs `AuthSessions` and
`StepUp` side by side, and `MCServices` the modules of steps 8 to 10, which
share no state. The others stand alone and meet through one field each (the
premium flag, the exam's status, the outbox row), which the module that does not
own it lets the environment change.

Abstract specifications: the duel's contract is stated as a module and refined.
Elsewhere the promise is a property that compares a row with its history: paid
days for `Subscriptions`, points in one week or another for `Leaderboard`, days
studied for `Streaks`. For `Idempotency` at-most-once execution turned out to be
false of the code as soon as anything fails (section 5), so what is true is
stated and proved directly: repeats are counted against the failures that
excuse them.

Every safety property of a passing run is stated by a theorem, which assumes no
more than its run restricts (section 6).

## 3. The modules

Conventions. A request is a record in a slot of `Requests`; its `pc` names the
statement it runs next, and an action is one statement (or a run of statements
nothing can come between) of one request. Postgres is modelled at READ
COMMITTED: statements read what is committed when they run; a row that is
updated or selected FOR UPDATE is held, in a `...Lock` variable, until the
transaction ends; the writes of a transaction become visible together, in its
last step; a rollback leaves nothing. The cache is taken to be absent: its
locks and limits are advisory everywhere, and the code runs on without them,
so every behaviour with them is one without.

An operator no action uses (`JoinableStale` before `Joinable`,
`CollisionCharged` before `InsertCollides`, ...) is a plausible mistake in the
operator it precedes. Putting it in that operator's place breaks one of the
properties; `PROJECT.json` says which.

### Collaboration: the duel

`src/modules/collaboration/collaboration.service.ts`,
`collaboration-completion.ts`, `websocket-handlers.ts`, and from
`src/modules/exams/exams.service.ts` the submission, the abandonment and
the sweep of stale exams.

| State | Code |
|---|---|
| `status`, `name` | the `CollaborationSession` row |
| `seat`, `finishedAt`, `tally`, `finalRank` | the `SessionParticipant` rows |
| `exam`, `score` | the participant's `Exam` row |
| `sessionLock`, `seatLock`, `examLock`, `questionLock` | who holds which row |
| `socket`, `grace` | the live websocket and the disconnect-grace timer |
| `late` | the exams' duration and both grace periods are over |
| `awards`, `completions` | history: how often SP were added, how often `sessionCompletedNow` was reported |

`CreateSession` is `createSession`. Join, start, leave, cancel and rename are
three steps each, as they are in the code: `RequestSession` (the first read),
`LockSession` (SELECT FOR UPDATE) and the action that reads again and commits.
A submission is `RequestSubmit` (the read and the time check), `ClaimExam` or
`ClaimLost` (the conditional update), `UpdateQuestionStats`, and then
`finalizeCollaborationSubmission` statement by statement: `ReadSession` or
`RefuseFinalization`, `ReadParticipant` or `AlreadyFinished`, `MarkFinished`,
`CountFinished` and, if all have finished, `RankParticipants` and
`CompleteSession`, else `CommitFinished`. The websocket's "finished" event
(`RequestFinished`) enters the same path. `AbandonExam`, `StaleExamCleanup`,
the sockets, the heartbeats and the two halves of the grace timer are actions
of their own, and so are a failing transaction (`AbortRequest`), the deadlock
detector (`BreakDeadlock`) and a restart of the process.

`DuelContract` is what a duel promises without rows and requests: who plays,
who has handed in, when it is decided. Its `Decide` is allowed from "void": a
hand-in that was under way when the duel was cancelled may still decide it,
because the finalization read the session's status before the cancellation.

### Idempotency: one key

`src/shared/idempotency/idempotency.ts`. `record` is the
`IdempotencyRecord` of one (user, route, key); a request is `Arrive` (with the
clean-up one request in fifty runs), `Lookup`, `Create` and `Reread`, or
`Claim` of a retryable record, then `Compute` and `Complete` or `Fail`. Every
statement is a transaction of its own. `effects` is the history of what
`compute` committed; `excuses` counts the commits the service had no way to
remember. `Faults` chooses among a failing write of the outcome, an error
thrown after the commit, and a crash. Time is counted in times to live: a
request does not outlive the record it wrote (a day against seconds).

### Subscriptions: one user's premium

`src/modules/subscriptions/subscriptions.service.ts`,
`src/jobs/subscription-check.ts`, `src/shared/auth/accessPolicy.ts` and
the grants of `src/modules/admin`. `charge` and `paidAt` are what the
payment provider knows; `pay`, `sub`, `ents` and `user` are rows. A
verification is `VerifyTransaction` (the provider answers, and the answer may
be old when it is used), then `PersistUnsuccessfulPayment`, or
`applySuccessfulPaymentTx`: `FindPayment`, `CreatePayment` or `ClaimPayment`,
`GetLockedUser`, `ReadSubscription`, `LockSubscription`, `ApplyPayment`. The
webhook runs the same steps. The expiry job is `FindDue`, `RecheckDue`,
`MarkExpired`, `GetLockedUser`, `ExpireSubscription`. Logins and status
requests reconcile (`Reconcile`), admins grant and revoke. `Projection` is
`reconcilePremiumAccessTx`: which windows are active and how far those that
touch extend one another. History: `applied`, `overwritten`, `credits`.

PENDING stands for FAILED and ABANDONED too, which the code treats alike. The
provider always dates a success, so the fallback to the present time is left
out. The sessions and devices a change of access mode closes are in
`AuthSessions`.

### ExamLifecycle: one user's exams

`src/modules/exams/exams.service.ts`, `retake-handler.ts`,
`src/jobs/stale-exam-cleanup.ts` and the reset of the free credits. `exams` is
the sequence of the user's `Exam` rows; `used`, `taken` and `premium` are
columns of the user. A start is `RequestStart` (with the sweep of stale exams),
`FindSession` (with the blanket expiry of what is older than
FULL_EXAM_DURATION_SECONDS, although an institution may configure an exam to last
longer: `Longest`, `Longer`) and, if there is an exam to resume, `ResumeSession` or
`ResumeFails`, since any error of reading it leads to the forced abandonment of the
self-healing (`ForceAbandon`, which may fail too: `HealFails`), else
`CheckEligibility`, `LoadUser`, `TakeNumber` and `CreateExam` or `InsertCollides`.
A daily challenge differs in its check and in trying the transaction again. A retake
is `RequestRetake`, `CheckRetakeEligibility` and the same transaction. `SubmitExam` is here the
claim alone; the transaction behind it is in `Collaboration`. History: a row is
`late` when something its checks had read changed before its insert (another
exam was created, or the plan changed); `resetAt` says which exams are older
than the last reset of the credits.

An exam's `age` is in time, in the grace of an offline submission, or past it.

### AuthSessions: one account

`src/modules/auth/auth.service.ts`, `src/modules/users/users.service.ts`,
`src/shared/hooks/validateToken.ts`, `src/shared/auth/accessPolicy.ts`.
`user` is the `User` row with its codes, `sessions` and `devices` the rows of
those names, `covered` whether a subscription covers the present, `caller` the
requests in flight. A transaction that begins by selecting the user FOR UPDATE is
one action (`ResetPassword`, `VerifyDevice`, the premium projection
`SyncAccessMode`); what reads before such a transaction, or without one, takes
steps: a registration (`StartRegister`, `RegisterFresh`, `DeliverCode`), a
sign-in (`StartLogin`, then `CreateFreeSession` or `LoginManaged`), a refresh
(`StartRefresh`, `Rotate` or `Recheck`, `FinishRefresh`), a change of password,
the removal of a device. Codes cool down and expire (`AgeCode`). A device is known
by its fingerprint (`Alike`), else by its id, else by its binding hash (`Bound`), in
the order of the code. The role of the moment says whether a sign-in has to be the
only one, and `ChangeRole` changes it and ends no session.
History: `spent` (how often a code was accepted), the password a session
was opened with, `late` when it was no longer the user's, and `exempt` when it was
opened beside others under an administrator's role.

### StepUp: roles and the second factor

`src/modules/admin/admin-step-up.service.ts`, `admin.service.ts`. A session's
token carries the role it was issued with (`tab`), the row may hold another
(`role`). `ReadChallenge` reads and compares, `RecordFailure` and
`RecordApproval` write by id; a role change (`StartPromotion`, `StartDemotion`,
`CommitChange`) holds its session's challenge, reads its target, counts the
superadmins and commits later.

### Leaderboard: the points of one institution

`src/workers/leaderboard.worker.ts`, `src/shared/leaderboard/projection.ts`,
`src/modules/leaderboard/leaderboard.service.ts`. `stats`, `weeklySp`,
`archive` and `events` are tables, `redis` the hash and the two sorted sets,
`payload` the cached board, `job` what each process holds. `Earn` is a
submission's part; every process applies snapshots it read earlier, three
commands each (`Apply`): workers (`Claim`, `MarkProcessed`, `MarkFailed`,
`WorkerDies`), the reconciliation, readers that warm the projection
(`ReadBoard`), and the weekly reset statement by statement (`TakeLock`,
`ListRows`, `ArchiveWeek`, `CommitReset`, `FinishReset`). A reader's answer
from Redis is the operator `Projected`, with the fallback for ties at the end.
`Sorted` of `Listings` is what `orderBy` and `sort` give: the rows of a set as the
sequence in which each comes before the next. History: `overlapped`, when points
came in inside a reset. That every point is in one week compares the user's total
with the running totals of the archive (`RunningTotals`), which can be reasoned
about where a fold cannot.

### Streaks

`src/modules/exams/scoring-engine.ts`, `src/shared/streaks/domain.ts`,
`src/modules/streaks/streaks.service.ts`. A submission is `ReadStreak` and
`WriteStreak`, the sweep lists broken rows and clears them later, and midnight
may fall anywhere. `Status`, `NextCurrent`, `FreezersAwarded` and `Unlocked` are
the pure functions of `domain.ts`; the reference they are compared with is
the set of days with activity.

### Realtime, Notifications

`Realtime` (`websocket-handlers.ts`, `session-manager.ts`) has three parts that
share the processes: the lease of a connection (`Claim` or `TakeOver`, then the
timer's `Refresh`, `Look`, `Take`; expiry and release), session events
(`Publish`, `FromRedis`, `Remember` and `Forget` of the dedupe window, the
reference count of a subscription), and the queue of a slow socket (`Post`,
`Flush`, `CloseSlow`). `Notifications` models one person's inbox: rows created in
the transaction of their cause and keyed against repetition, reads and
dismissals that read before they write, announcements with their audiences and
receipts, patches that name some preferences, expiry, and after each change a
summary that is read in two statements and then pushed (`StartSummary`,
`ReadSummary`, `PushSummary`; `SummaryFails`). A socket's handshake (`Connect`) reads
a summary of its own and pushes it in the same steps, whatever was pushed meanwhile.
History: what was read before the last change is `stale`, and what a socket was
sent is `told` unless it was.

### Mail

`src/shared/email`, `src/jobs`, `src/scripts`. A run of a job or script
(`StartRun`) goes through its legs: `ReadAudience` computes the letters from the
tables as they are, `Consider` checks again what the code checks before each
letter, `Accept`, `AcceptAndTimeOut` and `Refuse` are the providers, `LogSent`
and `LogLost` the row written afterwards, `MarkReminded` the reminder's date. The
audiences and guards of each campaign, reminder, alert and script are operators of
their own. History: `mailbox` is what arrived; `doubt` holds the people to whom a
letter came that no row tells of, or only a mark of another day; `crowd` is the
greatest number of runs that were under way at once. `MailNext` lets any run
begin any job at any time; the scenes of `MCServices` say which.

### QuestionBank, Bookmarks, Reports

`QuestionBank` (`src/modules/questions`, the featured toggle of
`admin.service.ts`): checks and imports before the transaction
(`StartCreate`, `StartUpdate`, `PrepareMedia`), the advisory locks of subjects
one by one (`LockSubject`), the count and the write, and the destruction of
images after it (`Clean`); a failure or crash may come between any two, and a
commit whose answer is lost is taken for a failure (`Committed`). The image of a
question stands for any of its image fields. An explanation's (`Explaining`) is
written otherwise than the rest: an update that names only its texts writes its
image back as it was read before the transaction (`NewImage`, `Restored`).
`Bookmarks`: a save is `StartSave`, `LockStudent`, `CountSaved`, `InsertSaved`;
removals and the sweep take no lock. `Reports`: reviews and withdrawals read,
then write by id; each decision remembers how many before it its request had seen.

## 4. The runs that pass

| Run | Instance | Properties |
|---|---|---|
| `duel_room` | 3 people, 2 requests, 2 names; join, start, leave, cancel, rename | `SeatsKept`: two seats at most, and exams for exactly those who hold them. `NameFrozen`: no rename that queued behind a start succeeds. `ImplementsContract`: the refinement |
| `duel_submit` | 2 players, 3 requests, scores 0 and 1; join, start, cancel, submit, abandon, the stale-exam job, failing transactions | `AwardsSettled`: SP once, together with the finish, and a completed duel is decided. `NoStrandedDuel`: a duel whose last player has finished is closed. `NothingUndone`: no request that waited undoes a completion or deals again |
| `duel_drops` | 2 players, 2 requests, scores 0 and 1, cache down; join, start, submit, finished, sockets and grace timers | `RanksFollowScores`: places follow the scores, also with players who drop |
| `duel_live` | 2 players, 2 requests; join, start, leave, submit, failures, restarts; fair | `RequestsEnd`: every request ends |
| `idempotency_faults` | 2 requests, 2 payloads, 3 effects, 2 times to live, all faults; fair | `EffectsExcused`: one execution at a time, repeats only with an excuse. `AnswersTrue`: an answer is of a committed effect of one's own payload, and the same for all when nothing failed. `SettledStays`. `RequestsEnd` |
| `premium_pay` | 2 payments, 2 requests, 2 days, a payment buys 1; no grants; fair | `PaymentsApplied`: payments are applied with their row and their days add up. `PremiumIsCovered`. `NeverShortened`. `RequestsEnd` |
| `premium_grant` | 1 payment of 2 days, 2 requests, 4 days, 2 grants of 1 day; reversals, revocations, failing transactions; no expiry job | `CoveredIsPremium`: whoever is covered has the flag |
| `exam_day` | 2 requests, 2 subjects, a full real exam, configured to last longer than the default, and the daily challenge; reads that fail; starts while there are fewer than 2 exams, 1 midnight, reset or change of plan | `AttemptsNumbered`: no gap and no double. `CreditsMatchExams`. `LimitsExcused`: limits give way only to starts that overlap. `FreshExamsKept`: an exam with time left is ended by its user, or by a start of its scope that could not read it or whose ceiling is below its duration |
| `accounts` | 2 requests, 3 devices of which 2 look alike, 3 sessions, 2 codes; two superadmins with a session each, in six scenarios | `PremiumBounded`: one session that passes, beside those opened as an administrator, and the limit of devices. `OldPasswordsOut`. `CodesUsedOnce`. `RefreshConverges`. `GuessesBounded`. `SuperadminLeft` |
| `progress` | 3 people, 2 workers, 2 processes that reset, 1 reader, 1 outage or death (2 deaths in one scenario), 2 weeks, in six scenarios; fair | `PointsAccounted`: every point is in one week. `ReadsAgree`: Redis, where it is current, answers as the database, ties included. `BoardConverges`: it becomes current for good |
| `services` | 2 of each actor, in seventeen scenes | `ProgressKept`: streak and awards are those of the days and exams. `PushedIsTrue`: the last pushed summary is what is unread, unless it was read too early. `PreferencesKept`: a category is as the last patch that named it asked. `NewestKept`: connections lose their place to newer ones. `EventsArrive`: once to each process, and nothing critical lost while a socket keeps up. `OutreachRationed`. `FreePoolGuarded`: the cap, and no two requests that wait for each other. `ImportedImagesLast`: what a question shows is stored. `DecisionsStand`: the last decision shows, and one that overrides another had not seen it. `BookmarksRationed` |

`accounts`, `progress` and `services` begin by choosing a scenario, which says
which operations meet; one run then checks modules, or parts of one, that share
no state, without their product. `MCAccounts`: an account from nothing, sign-ins
from several devices, sign-ins of someone who is promoted and demoted, one
session's tokens, passwords, roles. `MCProgress`: the outbox, a worker whose
deaths only the reconciliation makes good, weeks, stale snapshots, a reset among
them, and every board of three people. `MCServices`: a streak; inbox,
announcements, preferences; lease, feed, slow socket; campaigns, reminders, one
script, all scripts, alerts, password alerts; the pool, the pictures; bookmarks;
reports.

Several properties are conjunctions of parts that are one promise, and each has
the type invariant of its module where there is one. A few carry an excuse:
`late`, `torn`, `overlapped`, `snatched`, `strayed`, `stale`, `lost`, `handed`,
`forsaken`, a session's `exempt` and `clash` are
history that becomes true when the code runs into a gap it leaves open
(section 5); the property says what holds while it has not. An excuse is as
narrow as the gap, per row, subject, image, category or socket where it can be, and
the mutants of `PROJECT.json` show that it does not hide other mistakes. The widest
is `strayed`: an update of a featured row, or of one that moved on, excuses its
subject's pool for good.

What a run does not reach. `duel_room` has no submissions, so the contract's `HandIn`
and `Decide` are covered by the theorem `ContractImplemented` and not by that run.
`BoardConverges` is exercised by the scenarios with stale snapshots, with a reset, and
with a worker that dies with its event's last attempt; in the others nothing but the
worker writes Redis.

Why the bounds are enough. A conflict in this code is between two transactions,
or between one transaction and a timer, a job or the clock; two requests show
each of them, and the third one in `duel_submit` lets a retry overlap both
players' submissions. A third person is there where a seat is contested, or
where a board is cut inside a tie. Two scores distinguish better, equal and
worse. In `Idempotency` a third effect allows a repeat of a repeat, and two
times to live let an expired record be replaced and its successor expire. In
`Subscriptions` a second payment makes "add up" mean something, and four days
let a grant start behind a subscription, and outlast it. In `ExamLifecycle` two
requests that both pass the bound add a third row, enough for an exam, its
retake and the start that collides with it; the free credits (4) allow two full
exams by count and refuse the second by subject, premium's credits (3) refuse a
second full exam, and one change in the environment is enough to separate a
check from its insert. In `AuthSessions` three devices exceed the limit of two
and hold two that are alike, two rotations make a token that is two behind, and
two accounts let a deleted one be registered again. A guess beyond the limit of
two needs the second clerk. A projection event has two attempts, so that two
deaths use up the last; four days let a streak break and begin again; two
processes and two connections show a takeover across processes. A batch of one
letter or bookmark has a next batch, and one mishap of the mail is enough to
make the next run repeat a letter. With two exams and three dates a run of the
reminders can cross midnight while somebody is at risk on both days. The cap of a
free pool is 1 and images are 3: the one that is shown, its replacement, and one handed out meanwhile.

The MC modules bound the scenarios further where more adds states and no cases:
a submission or sweep of streaks sees one midnight at most (Prisma ends a
transaction after seconds) and the collaboration exams, of which only the count
matters, come on the last day; two runs of a job overlap and a third follows; two
requests fill the free pool and three handle pictures; requests that differ in name
alone are taken for one another (`SlotSymmetry`); events and role changes
end where the history `clash` or `overlapped` has excused what they could break.

`premium_grant` leaves the expiry job out: with it, `CoveredIsPremium` fails,
as a consequence of the lost renewal of section 5. `duel_submit` leaves "leave"
and the grace timers out for the like reason: with them a duel can be stranded.

The runs other than those of the duel and of `Idempotency` switch the deadlock
check off: in them the clock, the payments, the exams or another bound is used
up and the system stops.

Fairness. A duel's and a subscription's requests are strongly fair: Postgres
queues the transactions that wait for a row and grants it in the order they
came, so a statement that can run again and again is not passed over for ever.
`BreakDeadlock` is weakly fair: a cycle of waits stands until the detector,
which runs on a timeout, breaks it. `Idempotency` holds no row between
statements, and the event loop runs what is ready: weak fairness of a request's
steps. `BoardFairness` is weak fairness of every worker, of the reconciliation,
of the readers and resets once begun, of the cached board's expiry and of
Redis' return: the worker and the reconciliation run on timers
(`leaderboard.worker.ts`), and what a process holds it gets on with. It assumes
nothing of submissions: `BoardConverges` follows because the bounds end them,
and says that once points stop changing the reconciliation catches up. Nothing
is assumed of clients, clocks, failures or restarts.

## 5. What the code does not guarantee

`mail_twice` is the run that refutes a sentence of the repository: a broadcast
script "skips users who already received this broadcast (idempotent)", but
`writeEmailLog` drops the metadata in which the broadcast's id is passed, and a
second run finds nothing to skip (`ReceivedOnce`). The sentences that the runs
below refute are quoted in the findings of `PROJECT.json`, with others that
need no run: no code writes `emailPreferences`, the prompts to subscribe do
not look at the daily cap, a resolved report may be reviewed again, and two ways in
which a question is left with an image that is gone.

Configurations kept beside the runs; TLC gives a counterexample for each:

- `Duel_leave.cfg`, `NoStrandedDuel`: a player who submits and then leaves the
  duel is DISCONNECTED again, the opponent's submission does not find everybody
  FINISHED, and the duel stays IN_PROGRESS. The grace timer overwrites FINISHED
  in the same way.
- `Idempotency_store.cfg`, `RetriesSafe`: when the write of COMPLETED fails
  after `compute` committed, the catch block stores the request as retryable and
  a retry under the same key repeats its effect.
- `Premium_twice.cfg`, `AppliedOnce`: a verification that asked the provider
  before the customer paid, and writes after the webhook applied the payment,
  turns SUCCESS into PENDING; the next verification extends the subscription
  again.
- `Premium_renew.cfg`, `PaidUntilEnd`: the expiry job marks a subscription
  EXPIRED by user id, after a renewal extended it.
- `Duel_finish.cfg`, `CompletedOnce`: the completion can be reported twice. A
  player leaves or drops after finishing, so that its "finished" event runs the
  finalization again, and this overlaps the opponent's submission.
- `Duel_abandon.cfg`, `AwardedNotAbandoned`: an abandonment that has checked
  the status overwrites a submission that commits before its update.
- `Duel_cancel.cfg`, `CancelledIsFinal`: a submission that had read the session
  before a cancellation completes the cancelled duel.
- `Idempotency_crash.cfg`, `BusyMeansRunning`: after a crash the key refuses
  retries until its record expires and is swept.
- `Exam_daily.cfg`, `DailyOnce`: two choices of subjects started at once are two
  daily challenges on one day.
- `Exam_ceiling.cfg`, `CeilingIsGenerous`: the ceiling of the blanket expiry is the
  default duration of a full exam; one an institution configures to last longer is
  abandoned by the next start of its subjects with time left.
- `Exam_heal.cfg`, `CompletedStays`: the self-healing of a start, and the
  user's abandonment, overwrite a submission.

Gaps the models show, and the properties above allow for:

- Accounts. A sign-in whose password was checked before a change or reset, or
  before a ban, stores its session after it; the failed delivery of a
  registration's code deletes the registration another request renewed; a
  removed device may keep a session that was being opened; two changes of
  password sign out both; a demotion ends no session, so that
  several opened as an administrator stay valid together. Two superadmins who demote
  each other at once leave none (`LastSuperadminStays`). Two correct
  verifications of a step-up code both answer a token, and a slow one replaces a
  challenge requested since.
- Exams. While a retake is in progress, a start of its scope is refused with
  409, because the search for a session to resume leaves retakes out and the
  unique index does not; opening an exam in the five minutes of grace abandons
  it, although a submission would still be accepted
  (`exams.service.ts:1743`); a start that fails to read the exam it would resume
  abandons it, whatever the error and however much time is left
  (`exams.service.ts:234-262`).
- Points and streaks. Points that come in inside a weekly reset are archived
  and stay, or are cleared without being archived; two submissions around
  midnight write a streak from the row the other has replaced; an event whose
  last attempt a worker does not survive is left to the reconciliation.
- Notifications and sockets. Summaries can be pushed out of order, the one a
  handshake read at its beginning last of all; the push of a change may fail after
  its commit; a patch of preferences writes back the categories it does not name; a
  change on one process is not pushed to a socket on another; a socket that closes in
  its handshake stays subscribed, and its lease is held until it expires; a
  lease found gone is taken back without a condition; two events of one type in
  one millisecond share a key, and an unsubscription that crosses a subscription
  silences it; a second insert of one key, caught as P2002, has aborted the
  caller's transaction by then (`notifications.service.ts:840`).
- E-mail. A run of the reminders that crosses midnight marks the day it began,
  over a newer mark too, and today's reminder may be sent again
  (`email-reminders.ts:74`, `streaks.service.ts:408-416`).
- Content. Featuring counts the pool otherwise and locks nothing; an update
  moves a row by a subject it read earlier; a public id sent back by a client
  may be shown by two questions and destroyed with one; images of a failed
  import stay with the provider. An update of an explanation's texts writes back an
  image that was replaced and destroyed since (`questions.service.ts:588`), and a
  commit whose answer is lost has its images destroyed (`questions.service.ts:391`). A
  withdrawal, or a second reviewer, overwrites a decision taken since it read the
  report.

## 6. The theorems

TLAPS checks them for every set of users, requests, payloads and scores, and
every bound, from the assumptions named in the modules. They say what the code
takes for granted: bounds, limits, scores and lengths are natural numbers, and
those that would stop everything at zero are not zero (a payment's days, a
code's guesses, the limit of devices); sentinels are no rows, people or requests,
and images are not the words a request uses for "keep", "text", "clear" and "import";
each socket is on a process of the system, and is no request; workers, readers and resets are
different processes; the operations and faults are
among those the module knows; what is counted is finite (users, people, subjects,
devices, clerks, questions, bookmarked items, connections, workers, runs of jobs);
and what is listed by id has natural numbers for ids. The theorems whose
property a run restricts carry the restriction as a hypothesis (below).

`CollaborationProofs` proves eighteen theorems: `TypeCorrect`, `Invariance`,
`AtMostTwoPlayers`, `ExamsDealtToPlayers`, `SpAwardedOnce`,
`FinishAndAwardAgree`, `CompletionIsDecided`, the action properties
`CompletedStays` and `ExamsDealtOnce`, their combinations `SeatsAreKept`,
`SubmissionsSettle` and `NothingIsUndone`, which are the runs' `SeatsKept`,
`AwardsSettled` and `NothingUndone`, then `NameStaysFrozen`, and
`ContractImplemented`, the refinement. The properties are not inductive: that a
commit awards SP once depends on what its request found several statements
earlier. `NoDuelStranded`, `RanksMatchScores` and `CompletionReportedOnce` assume
that nobody leaves and no connection drops (`"leave"` and `"socket"` not among
`Ops`), because a participant who has finished is otherwise made DISCONNECTED
again (section 5). Their invariant `Quiet` rests on a lock the code takes for
another reason: two players are dealt the same questions, so their submissions
queue for the statistics of those questions, and what one has seen of the other
player stays true until it commits. A submission that commits without closing
the duel therefore leaves somebody unfinished, and the places it computed are
those of the committed scores. `RanksSurviveDrops` says the same of the places for
players who leave, drop and send "finished" again, as `duel_drops` has them, where
"abandon" is not among `Ops`. It needs another argument (`Scored`): a score that was
handed in is never changed, every ranking uses it, and a commit that comes after a
completion repeats it.

The inductive invariant `Inv == TypeOK /\ RequestInv /\ RowInv` says
just that. `RequestInv` says what a request may rely on at each of its
statements: a submission past its claim holds the row of an exam that is still
in progress and whose player is seated; a finalization that saw COMPLETED is
right to this moment; one that is about to close the duel has every other player
finished and a place for each; a request that holds the session's row finds it
as it read it. `RowInv` says how the committed rows agree: an exam in
progress has no SP awarded, a completed one has them once, and a participant has
finished exactly when its SP were awarded. One lemma per action shows that it
keeps the part of the invariant it can disturb, and that it is a step of the
contract or a stutter.

`IdempotencyProofs` proves nine: `TypeCorrect`, `Invariance`,
`NeverTwoRunning`, `RepeatsAreExcused`, `AnswersFit`, `ReplaysAgree`, their
combinations `EffectsAreExcused` and `AnswersAreTrue`, and the action property
`SettledRecordsStay`. Its invariant adds that the request that executes has the
record to itself (`HolderOK`), that row ids are not used again (`ClaimsKnow`),
that stored and pending responses are of committed effects (`BodiesOK`), and
that whoever may execute next finds every commit so far excused (`Counted`).

`SubscriptionsProofs` proves type correctness and the four properties. The
invariant says what each transaction may rely on once it holds the payment, the
user or the subscription (what it read is what is there, the payment it is to
apply has not been), that each SUCCESS was applied, that the days paid for add
up to the period, and that the user's columns are a projection of the rows at
some moment up to now (`LastReconciled`): premium that has not run out is then
covered by a window. The projection chains windows that touch, so its lemmas
are about least and greatest elements of sets of days. `CoverIsPremium` assumes
that the expiry job is not among `Ops`, like its run, and adds `NoGap`: a window
still to begin is reached by an earlier one.

`ExamLifecycleProofs` proves the four properties, with failing reads and for any
exams configured to outlast the ceiling, from what a start knows at each statement
(`ExamHolds`, `OpHolds`, `NumberHolds`: which number is free,
what the checks counted) and what the rows know of one another (`RowsOK`). The
counts are cardinalities: credits are pairs of an exam and a subject, and the
session numbers of a scope are an initial segment.

`StepUpProofs` proves `GuessesBounded` by counting: wrong guesses answered
are those the challenge recorded, and at most one more for each
verification still between its read and its write. `AnotherLeft` is what makes
`SuperadminLeft` inductive: without an overlap, the one change under way has
a superadmin to leave behind.

`AuthSessionsProofs` proves the four properties of an account. Its invariant
joins them, because they lean on each other: which session is valid depends on
the policy version, which moves when premium does, which verifies or forgets
devices. A step amends one column, one session or one request, and lemmas say
what each such step keeps. `PremiumStaysBounded` holds while roles change: of two
sessions that pass, the later was opened under an administrator's role, because
a sign-in without one ends those before it. `Referring` adds, for `RefreshConverges`, that a
refresh in flight has seen no version its session did not have.

`ServicesProofs` proves eight, of five modules that share nothing. `Reports`:
whoever decides knows the decisions up to some point of the trail, and what the last of
them left was neither final nor what is decided now (`SawOpen`, `Remembers`); a
decision that contradicts its predecessor had therefore not seen it.
`QuestionBank`: whoever is about to write
into a free pool holds the subject's lock and has counted room that nobody
else has filled since (`RoomLeft`); locks are taken in ascending order; and
images are kept apart (`ImagesApart`): what one request has imported no question shows
and no other request destroys, and the image an update or a deletion read belongs to
its own question (`ReplacedApart`), so that writing it back is a restoration of what
others replaced or changes nothing. `Bookmarks`: a save that has counted holds the
row, and its room is left. `Notifications`: a summary that is
being read or about to be pushed, by a request or a handshake, is what is unread or is
known to be stale, and a socket shows what is unread unless somebody is about to tell
it more (`SummariesTrue`); a patch about to be written agrees with what was asked in
the categories it names, and elsewhere with what it read.
`Realtime`: connections come in order and claim with distinct ranks, the
owner is the last to have claimed (`OwnerLast`), a subscription is undone only
when nobody listens (`Settled`), a message on its way is either not dispatched
yet or its key is remembered (`Expected`), and what is sent and then queued is
a subsequence of the posts that misses no critical one.

`ProgressProofs` proves six, of three modules.

- `Streaks`: `StreaksAreKept`. The property compares counters with the days
  studied. `StreakInv` bounds a row's counter from above by the days studied so
  far, whoever overtook it (`RowCovered`), and, while the history is not torn, from
  below by the run of consecutive days that ends at its last one (`RunWithin`). It
  says so of the row, of what each submission has read unless another has
  replaced it (`ReadsTrue`), and knows of a listed row that the day before was
  missed (`SweepTrue`). Submissions under way are counted against the collaboration
  exams still to come (`CollabBudget`).
- `Leaderboard`: `BoardHolds`, `PointsStayAccounted`, `ReadsAlwaysAgree`.
  `BoardInv` has the shapes of rows and jobs, and three arguments. An outbox event
  that several workers hold was handed out once for each of them, so how often it
  was applied and how many still hold it together stay within its attempts
  (`AttemptsCounted`). The points of the archived weeks and of the running one add
  up to the total (`Booked`). A reset that has listed its rows knows everybody
  with points, and one that has copied them has in its archive row either the
  points still in the counters or those it has cleared already (`Knows`, `Copied`).
  `ReadsAgree` follows from the code of the readers rather than from the
  invariant: a strict total order lists a finite set in exactly one way, a
  person's place in it is the number of those ahead, and a board fetched from
  Redis with its ties complete and sorted again is the head of the database's.
- `Mail`: `MailHolds`, `OutreachStaysRationed`. For each kind of letter and each
  person whose letters are all on record, `Fair` balances the letters that
  arrived with the rows that say so, the runs that may still send one and the runs
  that have yet to record theirs. The last two are never more than `crowd`. Below the
  limit, every letter is on record or its run is about to record it; at the limit,
  what arrived and what may still be sent stay within the limit and one for
  each further run, because every one of these runs had found a number below
  it. A day's kind counts from the day on, and an alert's from its change on
  (`Live`); of these only the letter decided on counts, since the code checks again
  before each one. The lemmas on listings say that a job addresses nobody twice.

Model-checked only: the liveness properties `RequestsEnd` and `BoardConverges`,
which need fairness and ENABLED, out of the prover's reach. What a recursive
definition computes for every input would need induction over data, out of reach
too: no module declares a RECURSIVE operator, sums are stated by their running
totals and boards by their order.

## 7. What is not modelled

`PROJECT.json` lists every part and says what is left out of it. Not modelled,
and why:

- Question selection, grading and bookmark exams: selection is random and keeps
  nothing, grading is a comparison per answer, and a bookmark exam is created and
  submitted as the exams of `ExamLifecycle` are, without its limits.
- The rest of moderation, users, study and institutions: one row each, with its
  audit row in the same transaction, and read-only lists. Study sessions are
  completed without a condition and numbered by a read before the insert, but
  nothing depends on either.
- Analytics and integrity signals: read-only, and a rollup that is computed anew
  as a whole.
- Redis, cache and rate limits: the models take the cache as absent, or let it
  be lost, which the code tolerates; a rate limit refuses what a client need
  not send.
- Media, metrics, developer tools, templates: input and output. What the image
  provider keeps is part of `QuestionBank`.
- `src/src/modules/ai` and `src/src/jobs/cleanup.ts` are empty.

Within the modelled parts: the SP, streak and outbox writes of a submission are
one counter (`awards`) in `Collaboration` and have their statements in
`Leaderboard` and `Streaks`; practice and mixed exams, which have no limits; the
exam-session counter and the history cache, copies nobody decides by; token
formats and lockouts; texts, priorities and pages; the parsing and validation
of uploads; whom the streak-risk job picks to notify; a write of an idempotency
outcome of which it is unknown whether it committed; and every Redis lock
but that of the weekly reset, whose absence the code tolerates.

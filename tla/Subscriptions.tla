--------------------------- MODULE Subscriptions ---------------------------
(***************************************************************************)
(* One user's premium: the payments made for it, the Subscription they     *)
(* extend, the entitlements admins grant, and the premium flag on the user *)
(* that is projected from both.                                            *)
(*                                                                         *)
(* A payment is verified by the client and by the provider's webhook, each *)
(* as often as it likes; the expiry job, cancellations, admins and logins  *)
(* run at the same time.  Postgres runs at READ COMMITTED: a transaction   *)
(* takes row locks one at a time, reads what others have committed, and    *)
(* makes its writes visible together when it commits.  The verification    *)
(* takes payment, user, subscription; the expiry job takes subscription,   *)
(* user.                                                                   *)
(*                                                                         *)
(* Time is counted in days of an arbitrary length; Duration is what        *)
(* addMonthsClamped adds.  The sessions and devices that a change of mode  *)
(* closes belong to the authentication model.                              *)
(*                                                                         *)
(* An operator no action uses (ClaimablePending, ExtendFromPayment, ...)   *)
(* is a plausible mistake in the operator it precedes.                     *)
(***************************************************************************)
EXTENDS Integers, FiniteSets

CONSTANTS
    Payments,    \* the references the user's checkouts carry
    Renewing,    \* those whose customer asked for auto-renewal
    Requests,    \* slots for the requests and jobs in flight
    NoReq,       \* nobody holds the row
    NoSub,       \* the user has no subscription
    Duration,    \* days a payment buys
    GrantDays,   \* days an entitlement lasts
    Ops,         \* the operations clients, admins and jobs perform
    MaxTime,     \* bound: days that pass
    MaxGrants,   \* bound: entitlements
    MaxOverwrites  \* bound: successes of one payment overwritten

AllOps == {"initiate", "verify", "reverse", "cancel", "expire", "reconcile",
           "grant", "revoke", "abort"}

ASSUME PaymentsAssumption == Renewing \subseteq Payments /\ Payments # {}
ASSUME RequestsAssumption == NoReq \notin Requests
ASSUME DaysAssumption == Duration \in Nat \ {0} /\ GrantDays \in Nat \ {0}
ASSUME OpsAssumption == Ops \subseteq AllOps
ASSUME BoundsAssumption == MaxTime \in Nat /\ MaxGrants \in Nat /\ MaxOverwrites \in Nat

VARIABLES
    now,         \* the clock
    charge,      \* what the provider knows of the payment
    paidAt,      \* when it was paid
    pay,         \* SubscriptionPayment.status, "NONE" without a row
    sub,         \* the Subscription row
    ents,        \* the PremiumEntitlement rows
    user,        \* the premium columns of the User row
    applied,     \* how often each payment was applied to the subscription
    overwritten, \* how often a SUCCESS was overwritten by an earlier outcome
    credits,     \* payments applied since the subscription last started afresh
    payLock,     \* who holds the payment's row
    subLock,     \* who holds the subscription's row
    userLock,    \* who holds the user's row
    req          \* the requests in flight

provider == <<now, charge, paidAt>>
rows     == <<pay, sub, ents, user>>
counts   == <<applied, overwritten, credits>>
locks    == <<payLock, subLock, userLock>>
vars     == <<provider, rows, counts, locks, req>>

Charges == {"none", "open", "success", "reversed"}

\* PENDING stands for FAILED and ABANDONED too: the code treats them alike.
PaymentStatus == {"NONE", "PENDING", "SUCCESS", "REVERSED"}

Subscription(status, from, to, renew) ==
    [status |-> status, start |-> from, end |-> to, autoRenew |-> renew]

SubscriptionRows ==
    [status : {"ACTIVE", "EXPIRED"}, start : Nat, end : Nat, autoRenew : BOOLEAN]

ASSUME NoSubAssumption == NoSub \notin SubscriptionRows

Entitlements == [start : Nat, end : Nat, status : {"ACTIVE", "EXPIRED", "REVOKED"}]

Users == [isPremium : BOOLEAN, end : Nat, mode : {"FREE", "PREMIUM"}]

PCs == {"idle", "pending", "outcome", "find", "create", "claim", "lockUser", "readSub",
        "lockSub", "apply", "recheck", "markExpired", "cancel", "commit"}

RequestTypes ==
    [op : AllOps \cup {"none"}, pc : PCs, payment : Payments, outcome : PaymentStatus,
     paidAt : Nat, seen : SubscriptionRows \cup {NoSub}]

SomePayment == CHOOSE p \in Payments : TRUE

Idle == [op |-> "none", pc |-> "idle", payment |-> SomePayment, outcome |-> "NONE",
         paidAt |-> 0, seen |-> NoSub]

Init ==
    /\ now = 0
    /\ charge = [p \in Payments |-> "none"]
    /\ paidAt = [p \in Payments |-> 0]
    /\ pay = [p \in Payments |-> "NONE"]
    /\ sub = NoSub
    /\ ents = {}
    /\ user = [isPremium |-> FALSE, end |-> 0, mode |-> "FREE"]
    /\ applied = [p \in Payments |-> 0]
    /\ overwritten = [p \in Payments |-> 0]
    /\ credits = 0
    /\ payLock = [p \in Payments |-> NoReq]
    /\ subLock = NoReq
    /\ userLock = NoReq
    /\ req = [r \in Requests |-> Idle]

(***************************************************************************)
(* Requests and their locks.                                               *)
(***************************************************************************)
FreeRow(row, r) == IF row = r THEN NoReq ELSE row

EndRequest(r) ==
    /\ payLock' = [p \in Payments |-> FreeRow(payLock[p], r)]
    /\ subLock' = FreeRow(subLock, r)
    /\ userLock' = FreeRow(userLock, r)
    /\ req' = [req EXCEPT ![r] = Idle]

Rollback(r) ==
    /\ EndRequest(r)
    /\ UNCHANGED <<provider, rows, counts>>

Goto(r, pc) == req' = [req EXCEPT ![r].pc = pc]

Starts(r, op, pc) ==
    /\ op \in Ops
    /\ req[r].pc = "idle"
    /\ req' = [req EXCEPT ![r].op = op, ![r].pc = pc]

(***************************************************************************)
(* reconcilePremiumAccessTx: sources that are over expire, and the user    *)
(* gets the flag, the end and the access mode they add up to.              *)
(***************************************************************************)
Due(s, t) == s # NoSub /\ s.status = "ACTIVE" /\ s.end <= t

ExpireSub(s, t) == IF Due(s, t) THEN [s EXCEPT !.status = "EXPIRED"] ELSE s

ExpireEnts(es, t) ==
    {IF e.status = "ACTIVE" /\ e.end <= t THEN [e EXCEPT !.status = "EXPIRED"] ELSE e : e \in es}

Windows(s, es, t) ==
    {[from |-> w.start, to |-> w.end] :
        w \in {x \in es \cup ({s} \ {NoSub}) : x.status = "ACTIVE" /\ x.end > t}}

ActiveWindows(s, es, t) == {w \in Windows(s, es, t) : w.from <= t}

\* Windows that touch or overlap extend one another.
EffectiveEnd(s, es, t) ==
    LET ends == {w.to : w \in Windows(s, es, t)}
        Closed(e) == /\ \A w \in ActiveWindows(s, es, t) : w.to <= e
                     /\ \A w \in Windows(s, es, t) : w.from <= e => w.to <= e
    IN  CHOOSE e \in ends : Closed(e) /\ \A f \in ends : Closed(f) => e <= f

Projection(s, es, t) ==
    IF ActiveWindows(s, es, t) = {}
    THEN [isPremium |-> FALSE, end |-> 0, mode |-> "FREE"]
    ELSE [isPremium |-> TRUE, end |-> EffectiveEnd(s, es, t), mode |-> "PREMIUM"]

\* The rows after reconciling s and es.
Reconciled(s, es) ==
    /\ sub' = ExpireSub(s, now)
    /\ ents' = ExpireEnts(es, now)
    /\ user' = Projection(ExpireSub(s, now), ExpireEnts(es, now), now)

(***************************************************************************)
(* initiateSubscription: the provider opens the charge before the row is   *)
(* written; the customer gets the link afterwards.                         *)
(***************************************************************************)
InitiateSubscription(r, p) ==
    /\ "initiate" \in Ops
    /\ req[r].pc = "idle"
    /\ charge[p] = "none"
    /\ charge' = [charge EXCEPT ![p] = "open"]
    /\ req' = [req EXCEPT ![r].op = "initiate", ![r].pc = "pending", ![r].payment = p]
    /\ UNCHANGED <<now, paidAt, rows, counts, locks>>

UpsertPendingPayment(r) ==
    /\ req[r].pc = "pending"
    /\ payLock[req[r].payment] = NoReq
    /\ pay' = [pay EXCEPT ![req[r].payment] = "PENDING"]
    /\ EndRequest(r)
    /\ UNCHANGED <<provider, sub, ents, user, counts>>

(***************************************************************************)
(* verifySubscription and handleWebhook: ask the provider, then act on an  *)
(* answer that may be old by then.                                         *)
(***************************************************************************)
Outcome(p) ==
    CASE charge[p] = "success"  -> "SUCCESS"
      [] charge[p] = "reversed" -> "REVERSED"
      [] OTHER                  -> "PENDING"

\* The verifications whose answer is not, or no longer, a success.
Unpaid(p) == {r \in Requests : req[r].pc = "outcome" /\ req[r].payment = p}

VerifyTransaction(r, p) ==
    /\ "verify" \in Ops
    /\ req[r].pc = "idle"
    /\ charge[p] # "none"
    /\ charge[p] # "success" => overwritten[p] + Cardinality(Unpaid(p)) < MaxOverwrites
    /\ req' = [req EXCEPT ![r] = [op |-> "verify",
                                  pc |-> IF charge[p] = "success" THEN "find" ELSE "outcome",
                                  payment |-> p, outcome |-> Outcome(p),
                                  paidAt |-> paidAt[p], seen |-> NoSub]]
    /\ UNCHANGED <<provider, rows, counts, locks>>

\* The upsert does not look at the status it overwrites.
PersistUnsuccessfulPayment(r) ==
    LET p == req[r].payment IN
    /\ req[r].pc = "outcome"
    /\ payLock[p] = NoReq
    /\ overwritten' = IF pay[p] = "SUCCESS"
                      THEN [overwritten EXCEPT ![p] = @ + 1] ELSE overwritten
    /\ pay' = [pay EXCEPT ![p] = req[r].outcome]
    /\ EndRequest(r)
    /\ UNCHANGED <<provider, sub, ents, user, applied, credits>>

(***************************************************************************)
(* applySuccessfulPaymentTx.                                               *)
(***************************************************************************)
FindPayment(r) ==
    LET p == req[r].payment IN
    /\ req[r].pc = "find"
    /\ CASE pay[p] = "NONE"    -> Goto(r, "create") /\ UNCHANGED locks
         [] pay[p] = "SUCCESS" -> EndRequest(r)
         [] OTHER              -> Goto(r, "claim") /\ UNCHANGED locks
    /\ UNCHANGED <<provider, rows, counts>>

\* A create that loses aborts the transaction, the reread after it included.
CreatePayment(r) ==
    LET p == req[r].payment IN
    /\ req[r].pc = "create"
    /\ payLock[p] = NoReq
    /\ IF pay[p] = "NONE"
       THEN /\ payLock' = [payLock EXCEPT ![p] = r]
            /\ Goto(r, "lockUser")
            /\ UNCHANGED <<subLock, userLock>>
       ELSE EndRequest(r)
    /\ UNCHANGED <<provider, rows, counts>>

ClaimableByAnyone(p) == pay[p] # "NONE"

Claimable(p) == pay[p] # "SUCCESS"

ClaimPaymentRetries(r) ==
    LET p == req[r].payment IN
    /\ req[r].pc = "claim"
    /\ payLock[p] = NoReq
    /\ IF Claimable(p)
       THEN payLock' = [payLock EXCEPT ![p] = r] /\ Goto(r, "lockUser")
       ELSE UNCHANGED <<payLock, req>>
    /\ UNCHANGED <<provider, rows, counts, subLock, userLock>>

ClaimPayment(r) ==
    LET p == req[r].payment IN
    /\ req[r].pc = "claim"
    /\ payLock[p] = NoReq
    /\ IF Claimable(p)
       THEN /\ payLock' = [payLock EXCEPT ![p] = r]
            /\ Goto(r, "lockUser")
            /\ UNCHANGED <<subLock, userLock>>
       ELSE EndRequest(r)
    /\ UNCHANGED <<provider, rows, counts>>

AfterUserLock(r) == IF req[r].op = "verify" THEN "readSub" ELSE "commit"

GetUser(r) ==
    /\ req[r].pc = "lockUser"
    /\ Goto(r, AfterUserLock(r))
    /\ UNCHANGED <<provider, rows, counts, locks>>

\* getLockedAuthManagedUser: every change of premium queues here.
GetLockedUser(r) ==
    /\ req[r].pc = "lockUser"
    /\ userLock = NoReq
    /\ userLock' = r
    /\ Goto(r, AfterUserLock(r))
    /\ UNCHANGED <<provider, rows, counts, payLock, subLock>>

ReadSubscription(r) ==
    /\ req[r].pc = "readSub"
    /\ req' = [req EXCEPT ![r].seen = sub,
                          ![r].pc = IF sub = NoSub THEN "apply" ELSE "lockSub"]
    /\ UNCHANGED <<provider, rows, counts, locks>>

LockSubscription(r) ==
    /\ req[r].pc = "lockSub"
    /\ subLock = NoReq
    /\ subLock' = r
    /\ Goto(r, "apply")
    /\ UNCHANGED <<provider, rows, counts, payLock, userLock>>

IsExtension(s, paid) == s # NoSub /\ s.status = "ACTIVE" /\ s.end > paid

ExtendFromPayment(s, paid, renew) ==
    IF IsExtension(s, paid)
    THEN Subscription("ACTIVE", s.start, paid + Duration, renew)
    ELSE Subscription("ACTIVE", paid, paid + Duration, renew)

Extend(s, paid, renew) ==
    IF IsExtension(s, paid)
    THEN Subscription("ACTIVE", s.start, s.end + Duration, renew)
    ELSE Subscription("ACTIVE", paid, paid + Duration, renew)

ApplyPayment(r) ==
    LET p == req[r].payment
        s == req[r].seen
    IN
    /\ req[r].pc = "apply"
    /\ pay' = [pay EXCEPT ![p] = "SUCCESS"]
    /\ Reconciled(Extend(s, req[r].paidAt, p \in Renewing), ents)
    /\ applied' = [applied EXCEPT ![p] = @ + 1]
    /\ credits' = IF IsExtension(s, req[r].paidAt) THEN credits + 1 ELSE 1
    /\ EndRequest(r)
    /\ UNCHANGED <<provider, overwritten>>

(***************************************************************************)
(* cancelSubscription turns auto-renewal off.                              *)
(***************************************************************************)
RequestCancel(r) ==
    /\ sub # NoSub
    /\ Starts(r, "cancel", "cancel")
    /\ UNCHANGED <<provider, rows, counts, locks>>

CancelSubscription(r) ==
    /\ req[r].pc = "cancel"
    /\ subLock = NoReq
    /\ sub' = [sub EXCEPT !.autoRenew = FALSE]
    /\ EndRequest(r)
    /\ UNCHANGED <<provider, pay, ents, user, counts>>

(***************************************************************************)
(* expireDueSubscriptions: find the subscriptions that are due, then one   *)
(* transaction each: read it again, mark it, reconcile the user.           *)
(***************************************************************************)
FindDue(r) ==
    /\ Due(sub, now)
    /\ Starts(r, "expire", "recheck")
    /\ UNCHANGED <<provider, rows, counts, locks>>

RecheckDue(r) ==
    /\ req[r].pc = "recheck"
    /\ IF Due(sub, now)
       THEN Goto(r, "markExpired") /\ UNCHANGED locks
       ELSE EndRequest(r)
    /\ UNCHANGED <<provider, rows, counts>>

\* The update names the user only, not the status or the end just read.
MarkExpired(r) ==
    /\ req[r].pc = "markExpired"
    /\ subLock = NoReq
    /\ subLock' = r
    /\ Goto(r, "lockUser")
    /\ UNCHANGED <<provider, rows, counts, payLock, userLock>>

ExpireOnly(r) ==
    /\ req[r].pc = "commit"
    /\ req[r].op = "expire"
    /\ sub' = [sub EXCEPT !.status = "EXPIRED"]
    /\ EndRequest(r)
    /\ UNCHANGED <<provider, pay, ents, user, counts>>

ExpireSubscription(r) ==
    /\ req[r].pc = "commit"
    /\ req[r].op = "expire"
    /\ Reconciled([sub EXCEPT !.status = "EXPIRED"], ents)
    /\ EndRequest(r)
    /\ UNCHANGED <<provider, pay, counts>>

(***************************************************************************)
(* The transactions that hold the user's row and then reconcile: logins    *)
(* and status requests, the admin's grants and revocations.                *)
(***************************************************************************)
Granting == {r \in Requests : req[r].op = "grant"}

RequestReconcile(r, op) ==
    /\ op = "grant" => Cardinality(ents) + Cardinality(Granting) < MaxGrants
    /\ Starts(r, op, "lockUser")
    /\ UNCHANGED <<provider, rows, counts, locks>>

\* Expiring the subscription waits for its row.
SubWritable == Due(sub, now) => subLock = NoReq

Reconcile(r) ==
    /\ req[r].pc = "commit"
    /\ req[r].op = "reconcile"
    /\ SubWritable
    /\ Reconciled(sub, ents)
    /\ EndRequest(r)
    /\ UNCHANGED <<provider, pay, counts>>

\* A grant starts where the present coverage ends.
GrantStart(s, es) ==
    LET coverage == Projection(s, es, now) IN
    IF coverage.isPremium THEN coverage.end ELSE now

GrantOnly(r) ==
    LET from == GrantStart(ExpireSub(sub, now), ExpireEnts(ents, now)) IN
    /\ req[r].pc = "commit"
    /\ req[r].op = "grant"
    /\ SubWritable
    /\ ents' = ExpireEnts(ents, now) \cup {[start |-> from, end |-> from + GrantDays,
                                            status |-> "ACTIVE"]}
    /\ sub' = ExpireSub(sub, now)
    /\ user' = Projection(ExpireSub(sub, now), ExpireEnts(ents, now), now)
    /\ EndRequest(r)
    /\ UNCHANGED <<provider, pay, counts>>

GrantPremium(r) ==
    LET from == GrantStart(ExpireSub(sub, now), ExpireEnts(ents, now)) IN
    /\ req[r].pc = "commit"
    /\ req[r].op = "grant"
    /\ SubWritable
    /\ Reconciled(sub, ents \cup {[start |-> from, end |-> from + GrantDays,
                                   status |-> "ACTIVE"]})
    /\ EndRequest(r)
    /\ UNCHANGED <<provider, pay, counts>>

Revoked(es) ==
    {IF e.status = "ACTIVE" THEN [e EXCEPT !.status = "REVOKED"] ELSE e : e \in es}

\* With nothing to revoke the transaction, its first reconciliation included,
\* is rolled back.
RevokePremium(r) ==
    /\ req[r].pc = "commit"
    /\ req[r].op = "revoke"
    /\ SubWritable
    /\ IF \E e \in ExpireEnts(ents, now) : e.status = "ACTIVE"
       THEN Reconciled(sub, Revoked(ExpireEnts(ents, now)))
       ELSE UNCHANGED <<sub, ents, user>>
    /\ EndRequest(r)
    /\ UNCHANGED <<provider, pay, counts>>

(***************************************************************************)
(* The environment: customers, the clock, transactions that fail, and the  *)
(* deadlock detector.                                                      *)
(***************************************************************************)
Initiating(p) == \E r \in Requests : req[r].pc = "pending" /\ req[r].payment = p

Pay(p) ==
    /\ charge[p] = "open"
    /\ ~Initiating(p)
    /\ charge' = [charge EXCEPT ![p] = "success"]
    /\ paidAt' = [paidAt EXCEPT ![p] = now]
    /\ UNCHANGED <<now, rows, counts, locks, req>>

Reverse(p) ==
    /\ "reverse" \in Ops
    /\ charge[p] = "success"
    /\ charge' = [charge EXCEPT ![p] = "reversed"]
    /\ UNCHANGED <<now, paidAt, rows, counts, locks, req>>

Tick ==
    /\ now < MaxTime
    /\ now' = now + 1
    /\ UNCHANGED <<charge, paidAt, rows, counts, locks, req>>

\* A transaction that times out, loses its connection or meets a payment of
\* somebody else's e-mail address leaves nothing behind.
AbortRequest(r) ==
    /\ "abort" \in Ops
    /\ req[r].pc # "idle"
    /\ Rollback(r)

BlockedBy(r, s) ==
    CASE req[r].pc = "lockUser"                            -> userLock = s
      [] req[r].pc \in {"lockSub", "markExpired", "cancel"} -> subLock = s
      [] req[r].pc = "commit" /\ ~SubWritable              -> req[r].op # "expire" /\ subLock = s
      [] OTHER                                             -> FALSE

Deadlocked(r, s) == r # s /\ BlockedBy(r, s) /\ BlockedBy(s, r)

\* Postgres aborts one of two transactions that wait for each other.
BreakDeadlock(r) ==
    /\ \E s \in Requests : Deadlocked(r, s)
    /\ Rollback(r)

Step(r) ==
    \/ UpsertPendingPayment(r) \/ PersistUnsuccessfulPayment(r)
    \/ FindPayment(r) \/ CreatePayment(r) \/ ClaimPayment(r)
    \/ GetLockedUser(r) \/ ReadSubscription(r) \/ LockSubscription(r) \/ ApplyPayment(r)
    \/ CancelSubscription(r)
    \/ RecheckDue(r) \/ MarkExpired(r) \/ ExpireSubscription(r)
    \/ Reconcile(r) \/ GrantPremium(r) \/ RevokePremium(r)

Arrival(r) ==
    \/ \E p \in Payments : InitiateSubscription(r, p) \/ VerifyTransaction(r, p)
    \/ RequestCancel(r) \/ FindDue(r)
    \/ \E op \in {"reconcile", "grant", "revoke"} : RequestReconcile(r, op)

Environment ==
    \/ \E p \in Payments : Pay(p) \/ Reverse(p)
    \/ Tick

Next ==
    \/ \E r \in Requests : Step(r) \/ Arrival(r) \/ AbortRequest(r) \/ BreakDeadlock(r)
    \/ Environment

Spec == Init /\ [][Next]_vars

\* Postgres grants a row in the order of the requests for it, and finds deadlocks.
FairSpec ==
    /\ Spec
    /\ \A r \in Requests : SF_vars(Step(r))
    /\ WF_vars(\E r \in Requests : BreakDeadlock(r))

(***************************************************************************)
(* Properties.                                                             *)
(***************************************************************************)
TypeOK ==
    /\ now \in 0..MaxTime
    /\ charge \in [Payments -> Charges]
    /\ paidAt \in [Payments -> Nat]
    /\ pay \in [Payments -> PaymentStatus]
    /\ sub \in SubscriptionRows \cup {NoSub}
    /\ ents \in SUBSET Entitlements
    /\ user \in Users
    /\ applied \in [Payments -> Nat]
    /\ overwritten \in [Payments -> Nat]
    /\ credits \in Nat
    /\ payLock \in [Payments -> Requests \cup {NoReq}]
    /\ subLock \in Requests \cup {NoReq}
    /\ userLock \in Requests \cup {NoReq}
    /\ req \in [Requests -> RequestTypes]

\* A payment whose row says SUCCESS has been applied once more than its
\* success has been overwritten: however verifications and webhooks overlap,
\* the row and the subscription move together.
SuccessMeansApplied ==
    \A p \in Payments :
        applied[p] = overwritten[p] + (IF pay[p] = "SUCCESS" THEN 1 ELSE 0)

\* Payments add up: the period is as long as the payments applied in it, also
\* when two of them are verified at once.
PaidDaysAdd == sub # NoSub => sub.end = sub.start + Duration * credits

\* What is paid is applied, and the days of all of it add up.
PaymentsApplied == TypeOK /\ SuccessMeansApplied /\ PaidDaysAdd

Covered == ActiveWindows(sub, ents, now) # {}

\* Nobody is premium without a subscription or an entitlement that pays for it.
PremiumIsCovered == user.isPremium /\ now < user.end => Covered

\* Whoever is covered has the premium flag, at least up to where it is stored.
CoveredIsPremium == Covered => user.isPremium

Current(s) == s # NoSub /\ s.status = "ACTIVE" /\ s.end > now

\* No payment, grant, revocation or job ever shortens a current subscription.
NeverShortened == [][Current(sub) => sub' # NoSub /\ sub'.end >= sub.end]_vars

\* Every request ends, the one that Postgres aborts in a deadlock included.
RequestsEnd == \A r \in Requests : req[r].pc # "idle" ~> req[r].pc = "idle"

\* A payment extends the subscription once.
AppliedOnce == \A p \in Payments : applied[p] <= 1

\* Premium access stays active until the current period ends.
PaidUntilEnd == [][Current(sub) => sub'.status = "ACTIVE"]_vars
=============================================================================

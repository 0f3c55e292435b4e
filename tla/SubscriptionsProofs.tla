------------------------- MODULE SubscriptionsProofs -------------------------
(***************************************************************************)
(* What TLAPS proves about Subscriptions for every set of payments and     *)
(* requests, every length of a period and every bound.                     *)
(***************************************************************************)
EXTENDS Subscriptions, FiniteSetTheorems, TLAPS

USE PaymentsAssumption, RequestsAssumption, DaysAssumption, OpsAssumption, BoundsAssumption,
    NoSubAssumption

Settled == {"success", "reversed"}
Subscribed == SubscriptionRows \cup {NoSub}

\* Who holds which row.
HoldsPayment(r) ==
    req[r].op = "verify" /\ req[r].pc \in {"lockUser", "readSub", "lockSub", "apply"}
HoldsUser(r) == req[r].pc \in {"readSub", "lockSub", "apply", "commit"}
HoldsSub(r) ==
    \/ req[r].pc = "apply" /\ req[r].seen # NoSub
    \/ req[r].op = "expire" /\ req[r].pc \in {"lockUser", "commit"}

LocksHeld(r) ==
    /\ HoldsPayment(r) => payLock[req[r].payment] = r
    /\ HoldsUser(r) => userLock = r
    /\ HoldsSub(r) => subLock = r

\* Where an operation may be, and that the provider's answer it carries still holds.
OpHolds(r) ==
    /\ req[r].pc = "outcome" => req[r].op = "verify" /\ req[r].outcome \in {"PENDING", "REVERSED"}
    /\ req[r].pc \in {"find", "create", "claim", "readSub", "lockSub", "apply"}
          => req[r].op = "verify"
    /\ req[r].pc = "cancel" => req[r].op = "cancel"
    /\ req[r].pc \in {"recheck", "markExpired"} => req[r].op = "expire"
    /\ req[r].op \in {"cancel", "expire"} => sub # NoSub
AnswerHolds(r) ==
    /\ req[r].pc = "pending" => charge[req[r].payment] = "open"
    /\ req[r].op = "verify" /\ req[r].pc # "outcome"
          => charge[req[r].payment] \in Settled /\ req[r].paidAt <= now
    /\ HoldsPayment(r) => pay[req[r].payment] # "SUCCESS"

\* A cancellation may turn auto-renewal off between the read and the lock, nothing else.
SamePeriod(s, t) ==
    IF s = NoSub THEN t = NoSub
    ELSE t # NoSub /\ t.status = s.status /\ t.start = s.start /\ t.end = s.end

SeenHolds(r) ==
    /\ req[r].pc \in {"lockSub", "apply"} => SamePeriod(req[r].seen, sub)
    /\ req[r].pc = "lockSub" => req[r].seen # NoSub

RequestOK(r) == LocksHeld(r) /\ OpHolds(r) /\ AnswerHolds(r) /\ SeenHolds(r)

\* Only what the provider settled succeeds.
SuccessSettled ==
    \A p \in Payments : paidAt[p] <= now /\ (pay[p] = "SUCCESS" => charge[p] \in Settled)

\* Every period has a length, and the grants do not reach beyond all bounds.
PeriodOK(s, t) == s # NoSub => s.start <= t /\ s.start < s.end
GrantsOK(es) == /\ \A e \in es : e.start < e.end
                /\ \E b \in Nat : \A e \in es : e.end <= b

\* The user's columns are those of the last reconciliation.
LastReconciled == \E t \in 0..now : user = Projection(sub, ents, t)

Inv == /\ TypeOK
       /\ \A r \in Requests : RequestOK(r)
       /\ SuccessSettled
       /\ SuccessMeansApplied
       /\ PeriodOK(sub, now) /\ GrantsOK(ents)
       /\ PaidDaysAdd
       /\ LastReconciled

\* A window that is still to begin is preceded by one that reaches it.
NoGap(s, es, t) ==
    \A e \in es :
        e.status = "ACTIVE" /\ e.start > t =>
            \E v \in es \cup ({s} \ {NoSub}) :
                v.status = "ACTIVE" /\ v.start < e.start /\ e.start <= v.end

CoverInv == \E t \in 0..now :
                user = Projection(sub, ents, t) /\ NoGap(sub, ents, t) /\ PeriodOK(sub, t)

(***************************************************************************)
(* Sets of numbers have least and, when bounded, greatest elements.        *)
(***************************************************************************)
LEMMA NatMin ==
  ASSUME NEW T \in SUBSET Nat, T # {}
  PROVE  \E x \in T : \A y \in T : x <= y
<1> DEFINE Below == {1..x : x \in T}
<1>1. Below \subseteq FiniteSubsetsOf(Nat) /\ Below # {}
  <2>1. \A x \in T : IsFiniteSet(1..x) /\ 1..x \subseteq Nat
    BY FS_Interval
  <2> QED
    BY <2>1 DEF FiniteSubsetsOf
<1>2. \E B \in Below : \A C \in Below : <<C, B>> \notin StrictSubsetOrdering(Nat)
  <2> HIDE DEF Below
  <2> QED
    BY <1>1, FS_StrictSubsetOrderingWellFounded, WFMin
<1>3. PICK x \in T : \A y \in T : <<1..y, 1..x>> \notin StrictSubsetOrdering(Nat)
  BY <1>2
<1>4. ASSUME NEW y \in T, y < x PROVE FALSE
  <2>1. 1..y \subseteq 1..x /\ x \in 1..x /\ x \notin 1..y
    BY <1>4
  <2>2. <<1..y, 1..x>> \in (SUBSET Nat) \X (SUBSET Nat)
    OBVIOUS
  <2>3. 1..y # 1..x
    BY <2>1
  <2>4. <<1..y, 1..x>> \in StrictSubsetOrdering(Nat)
    BY <2>1, <2>2, <2>3, Zenon DEF StrictSubsetOrdering
  <2> QED
    BY <1>3, <2>4
<1> QED
  BY <1>4

LEMMA NatMax ==
  ASSUME NEW T \in SUBSET Nat, T # {}, NEW b \in Nat, \A x \in T : x <= b
  PROVE  \E x \in T : \A y \in T : y <= x
<1> DEFINE U == {n \in Nat : b - n \in T}
<1>1. U # {}
  <2>1. PICK x \in T : TRUE
    OBVIOUS
  <2>2. b - x \in Nat /\ b - (b - x) = x
    OBVIOUS
  <2> QED
    BY <2>1, <2>2
<1>2. PICK u \in U : \A v \in U : u <= v
  BY <1>1, NatMin
<1>3. \A y \in T : b - y \in U
  OBVIOUS
<1> QED
  BY <1>2, <1>3
(***************************************************************************)
(* The projection.                                                         *)
(***************************************************************************)
LEMMA WindowType ==
  ASSUME NEW s \in Subscribed, NEW es \in SUBSET Entitlements, NEW t \in Nat
  PROVE  /\ Windows(s, es, t) \subseteq [from : Nat, to : Nat]
         /\ \A w \in Windows(s, es, t) : w.to > t
<1> DEFINE Sources == es \cup ({s} \ {NoSub})
<1>1. \A x \in Sources : x.start \in Nat /\ x.end \in Nat
  BY DEF Subscribed, SubscriptionRows, Entitlements
<1> QED
  BY <1>1 DEF Windows

\* A window of s or es is one of an active source that is not over.
LEMMA WindowSource ==
  ASSUME NEW s, NEW es, NEW t
  PROVE  /\ \A x \in es \cup ({s} \ {NoSub}) : x.status = "ACTIVE" /\ x.end > t =>
                [from |-> x.start, to |-> x.end] \in Windows(s, es, t)
         /\ \A w \in Windows(s, es, t) : \E x \in es \cup ({s} \ {NoSub}) :
                x.status = "ACTIVE" /\ x.end > t /\ w = [from |-> x.start, to |-> x.end]
BY DEF Windows

\* EffectiveEnd is the least end that no window overlaps or touches.
LEMMA EffectiveEndLeast ==
  ASSUME NEW s \in Subscribed, NEW es \in SUBSET Entitlements, GrantsOK(es), NEW t \in Nat,
         ActiveWindows(s, es, t) # {}
  PROVE  /\ \E w \in Windows(s, es, t) : EffectiveEnd(s, es, t) = w.to
         /\ \A v \in Windows(s, es, t) :
               /\ \A w \in ActiveWindows(s, es, t) : w.to <= v.to
               /\ \A w \in Windows(s, es, t) : w.from <= v.to => w.to <= v.to
               => EffectiveEnd(s, es, t) <= v.to
<1> DEFINE W == Windows(s, es, t)
           ends == {w.to : w \in W}
           Closed(e) == /\ \A w \in ActiveWindows(s, es, t) : w.to <= e
                        /\ \A w \in W : w.from <= e => w.to <= e
           closed == {e \in ends : Closed(e)}
<1>1. ends \in SUBSET Nat /\ ends # {}
  BY WindowType DEF ActiveWindows
<1>2. \E b \in Nat : \A e \in ends : e <= b
  <2>1. PICK b \in Nat : \A e \in es : e.end <= b
    BY DEF GrantsOK
  <2>2. PICK c \in Nat : s # NoSub => s.end <= c
    BY DEF Subscribed, SubscriptionRows
  <2>3. \A x \in es \cup ({s} \ {NoSub}) : x.end \in Nat /\ x.end <= b + c
    BY <2>1, <2>2 DEF Entitlements, Subscribed, SubscriptionRows
  <2> QED
    BY <2>3, WindowSource
<1>3. PICK m \in ends : \A e \in ends : e <= m
  <2> HIDE DEF ends
  <2> QED
    BY <1>1, <1>2, NatMax
<1>4. m \in closed
  BY <1>3, WindowType DEF ActiveWindows
<1>5. \E e \in closed : \A f \in closed : e <= f
  <2>1. closed \in SUBSET Nat /\ closed # {}
    BY <1>1, <1>4
  <2> HIDE DEF closed
  <2> QED
    BY <2>1, NatMin
<1>6. EffectiveEnd(s, es, t) = CHOOSE e \in ends : Closed(e) /\ \A f \in ends : Closed(f) => e <= f
  BY DEF EffectiveEnd
<1>7. \E e \in ends : Closed(e) /\ \A f \in ends : Closed(f) => e <= f
  BY <1>5
<1>8. /\ EffectiveEnd(s, es, t) \in ends
      /\ \A f \in ends : Closed(f) => EffectiveEnd(s, es, t) <= f
  <2> HIDE DEF Closed, ends
  <2> QED
    BY <1>6, <1>7
<1> QED
  BY <1>8

LEMMA ProjectionType ==
  ASSUME NEW s \in Subscribed, NEW es \in SUBSET Entitlements, GrantsOK(es), NEW t \in Nat
  PROVE  Projection(s, es, t) \in Users
<1>1. CASE ActiveWindows(s, es, t) = {}
  BY <1>1 DEF Projection, Users
<1>2. CASE ActiveWindows(s, es, t) # {}
  <2>1. EffectiveEnd(s, es, t) \in Nat
    BY <1>2, EffectiveEndLeast, WindowType
  <2> QED
    BY <1>2, <2>1 DEF Projection, Users
<1> QED
  BY <1>1, <1>2

\* Whoever is premium at a reconciliation stays covered up to the stored end.
LEMMA ProjectionCovers ==
  ASSUME NEW s \in Subscribed, NEW es \in SUBSET Entitlements, GrantsOK(es),
         NEW t \in Nat, NEW u \in Nat, t <= u,
         Projection(s, es, t).isPremium, u < Projection(s, es, t).end
  PROVE  ActiveWindows(s, es, u) # {}
<1> DEFINE W == Windows(s, es, t)
           past == {e \in {w.to : w \in W} : e <= u}
<1> SUFFICES ASSUME ActiveWindows(s, es, u) = {} PROVE FALSE
  OBVIOUS
<1>1. ActiveWindows(s, es, t) # {} /\ u < EffectiveEnd(s, es, t)
  BY DEF Projection
<1>2. W \subseteq [from : Nat, to : Nat] /\ \A w \in W : w.to > t
  BY WindowType
<1>3. ASSUME NEW w \in W, w.from <= u PROVE w.to <= u
  <2>1. SUFFICES ASSUME w.to > u PROVE FALSE
    BY <1>2
  <2>2. w \in Windows(s, es, u)
    BY <2>1, WindowSource
  <2> QED
    BY <1>3, <2>2 DEF ActiveWindows
<1>4. past \in SUBSET Nat /\ past # {}
  BY <1>1, <1>2, <1>3 DEF ActiveWindows
<1>5. PICK f \in past : \A e \in past : e <= f
  <2>1. \A e \in past : e <= u
    OBVIOUS
  <2> HIDE DEF past
  <2> QED
    BY <1>4, <2>1, NatMax
<1>6. PICK v \in W : v.to = f
  OBVIOUS
<1>7. \A w \in ActiveWindows(s, es, t) : w.to <= f
  BY <1>2, <1>3, <1>5 DEF ActiveWindows
<1>8. \A w \in W : w.from <= f => w.to <= f
  BY <1>2, <1>3, <1>5
<1>9. EffectiveEnd(s, es, t) <= f
  BY <1>1, <1>6, <1>7, <1>8, EffectiveEndLeast
<1> QED
  BY <1>1, <1>2, <1>6, <1>9, EffectiveEndLeast

(***************************************************************************)
(* Requests.                                                               *)
(***************************************************************************)
LEMMA IdleType == Idle \in RequestTypes /\ Idle.pc = "idle" /\ Idle.op = "none"
<1> SomePayment \in Payments
  BY DEF SomePayment
<1> QED
  BY DEF Idle, RequestTypes, PCs, PaymentStatus

LEMMA InitType == Init => TypeOK
BY IdleType DEF Init, TypeOK, Charges, PaymentStatus, Users, Entitlements

LEMMA GotoFacts ==
  ASSUME TypeOK, NEW r \in Requests, NEW pc \in PCs, Goto(r, pc)
  PROVE  /\ req' \in [Requests -> RequestTypes]
         /\ req'[r].pc = pc /\ req'[r].op = req[r].op /\ req'[r].payment = req[r].payment
         /\ req'[r].seen = req[r].seen /\ req'[r].paidAt = req[r].paidAt
         /\ \A s \in Requests \ {r} : req'[s] = req[s]
<1>1. req[r] \in RequestTypes
  BY DEF TypeOK
<1>2. [req[r] EXCEPT !.pc = pc] \in RequestTypes
  BY <1>1 DEF RequestTypes
<1>3. req' = [req EXCEPT ![r] = [req[r] EXCEPT !.pc = pc]]
  BY DEF Goto, TypeOK
<1> QED
  BY <1>1, <1>2, <1>3 DEF TypeOK, RequestTypes

LEMMA StartsFacts ==
  ASSUME TypeOK, NEW r \in Requests, NEW op \in AllOps, NEW pc \in PCs,
         req' = [req EXCEPT ![r].op = op, ![r].pc = pc]
  PROVE  /\ req' \in [Requests -> RequestTypes]
         /\ req'[r].pc = pc /\ req'[r].op = op
         /\ \A s \in Requests \ {r} : req'[s] = req[s]
<1>1. req[r] \in RequestTypes
  BY DEF TypeOK
<1>2. [req[r] EXCEPT !.op = op, !.pc = pc] \in RequestTypes
  BY <1>1 DEF RequestTypes
<1>3. req' = [req EXCEPT ![r] = [req[r] EXCEPT !.op = op, !.pc = pc]]
  BY <1>1 DEF TypeOK, RequestTypes
<1> QED
  BY <1>1, <1>2, <1>3 DEF TypeOK, RequestTypes

LocksType == /\ payLock \in [Payments -> Requests \cup {NoReq}]
             /\ subLock \in Requests \cup {NoReq}
             /\ userLock \in Requests \cup {NoReq}

\* What r does leaves the rows another request holds with it.
KeepsLocks(s) ==
    /\ \A p \in Payments : payLock[p] = s => payLock'[p] = s
    /\ subLock = s => subLock' = s
    /\ userLock = s => userLock' = s

LEMMA EndRequestFacts ==
  ASSUME TypeOK, NEW r \in Requests, EndRequest(r)
  PROVE  /\ req' \in [Requests -> RequestTypes] /\ LocksType'
         /\ req'[r] = Idle
         /\ \A s \in Requests \ {r} : req'[s] = req[s] /\ KeepsLocks(s)
BY IdleType DEF EndRequest, FreeRow, TypeOK, LocksType, KeepsLocks

LEMMA IdleOK ==
  ASSUME NEW r \in Requests, req'[r] = Idle
  PROVE  RequestOK(r)'
BY IdleType DEF RequestOK, LocksHeld, OpHolds, AnswerHolds, SeenHolds, HoldsPayment, HoldsUser,
   HoldsSub

\* A request that does not move keeps what it knows.
LEMMA OthersOK ==
  ASSUME Inv, NEW s \in Requests, req'[s] = req[s], KeepsLocks(s),
         charge' = charge, now' = now,
         sub # NoSub => sub' # NoSub,
         HoldsUser(s) => SamePeriod(sub, sub'),
         HoldsPayment(s) => pay'[req[s].payment] # "SUCCESS"
  PROVE  RequestOK(s)'
<1> RequestOK(s) /\ req[s].payment \in Payments
  BY DEF Inv, TypeOK, RequestTypes
<1>1. LocksHeld(s)'
  BY DEF RequestOK, LocksHeld, HoldsPayment, HoldsUser, HoldsSub, KeepsLocks
<1>2. OpHolds(s)'
  BY DEF RequestOK, OpHolds
<1>3. AnswerHolds(s)'
  BY DEF RequestOK, AnswerHolds, HoldsPayment
<1>4. SeenHolds(s)'
  BY DEF RequestOK, SeenHolds, SamePeriod, HoldsUser
<1> QED
  BY <1>1, <1>2, <1>3, <1>4 DEF RequestOK

LEMMA InitInv == Init => Inv
<1> SUFFICES ASSUME Init PROVE Inv
  OBVIOUS
<1>1. TypeOK
  BY InitType
<1>2. ASSUME NEW r \in Requests PROVE RequestOK(r)
  BY IdleType, <1>2 DEF Init, RequestOK, LocksHeld, OpHolds, AnswerHolds, SeenHolds,
     HoldsPayment, HoldsUser, HoldsSub
<1>3. SuccessSettled /\ SuccessMeansApplied /\ PaidDaysAdd
  BY DEF Init, SuccessSettled, SuccessMeansApplied, PaidDaysAdd
<1>4. PeriodOK(sub, now) /\ GrantsOK(ents)
  BY DEF Init, PeriodOK, GrantsOK
<1>5. ActiveWindows(NoSub, {}, 0) = {}
  BY DEF ActiveWindows, Windows
<1>6. LastReconciled
  BY <1>5 DEF Init, LastReconciled, Projection
<1> QED
  BY <1>1, <1>2, <1>3, <1>4, <1>6 DEF Inv

(***************************************************************************)
(* Steps that read, wait or begin leave the rows as they are.              *)
(***************************************************************************)
LEMMA QuietInv ==
  ASSUME Inv, UNCHANGED <<provider, rows, counts>>,
         req' \in [Requests -> RequestTypes], LocksType',
         NEW r \in Requests, RequestOK(r)',
         \A s \in Requests \ {r} : req'[s] = req[s] /\ KeepsLocks(s)
  PROVE  Inv'
<1> UNCHANGED <<now, charge, paidAt, pay, sub, ents, user, applied, overwritten, credits>>
  BY DEF provider, rows, counts
<1>1. TypeOK'
  BY DEF Inv, TypeOK, LocksType
<1>2. ASSUME NEW s \in Requests PROVE RequestOK(s)'
  <2>1. CASE s # r
    <3>1. HoldsPayment(s) => pay'[req[s].payment] # "SUCCESS"
      BY <1>2 DEF Inv, RequestOK, AnswerHolds
    <3> QED
      BY <2>1, <3>1, OthersOK DEF SamePeriod
  <2> QED
    BY <2>1
<1>3. /\ SuccessSettled' /\ SuccessMeansApplied' /\ PeriodOK(sub, now)' /\ GrantsOK(ents)'
      /\ PaidDaysAdd' /\ LastReconciled'
  BY DEF Inv, SuccessSettled, SuccessMeansApplied, PeriodOK, GrantsOK, PaidDaysAdd, LastReconciled
<1> QED
  BY <1>1, <1>2, <1>3 DEF Inv

LEMMA RollbackInv ==
  ASSUME Inv, NEW r \in Requests, EndRequest(r), UNCHANGED <<provider, rows, counts>>
  PROVE  Inv'
BY EndRequestFacts, IdleOK, QuietInv DEF Inv

LEMMA ArrivalInv ==
  ASSUME Inv, NEW r \in Requests,
         \/ \E p \in Payments : VerifyTransaction(r, p)
         \/ RequestCancel(r) \/ FindDue(r)
         \/ \E op \in {"reconcile", "grant", "revoke"} : RequestReconcile(r, op)
  PROVE  Inv'
<1> TypeOK /\ req[r].payment \in Payments
  BY DEF Inv, TypeOK, RequestTypes
<1>1. CASE \E p \in Payments : VerifyTransaction(r, p)
  <2> PICK p \in Payments : VerifyTransaction(r, p)
    BY <1>1
  <2> DEFINE q == [op |-> "verify", pc |-> IF charge[p] = "success" THEN "find" ELSE "outcome",
                   payment |-> p, outcome |-> Outcome(p), paidAt |-> paidAt[p], seen |-> NoSub]
  <2>1. Outcome(p) \in PaymentStatus /\ (charge[p] # "success" => Outcome(p) \in {"PENDING", "REVERSED"})
    BY DEF Outcome, PaymentStatus, TypeOK, Charges
  <2>2. q \in RequestTypes
    BY <2>1 DEF RequestTypes, PCs, AllOps, TypeOK
  <2>3. req' = [req EXCEPT ![r] = q]
    BY DEF VerifyTransaction
  <2>4. req' \in [Requests -> RequestTypes] /\ req'[r] = q /\ \A s \in Requests \ {r} : req'[s] = req[s]
    BY <2>2, <2>3 DEF TypeOK
  <2>5. UNCHANGED <<now, charge, paidAt, pay, sub, payLock, subLock, userLock>>
    BY DEF VerifyTransaction, provider, rows, locks
  <2>6. RequestOK(r)'
    BY <2>1, <2>4, <2>5 DEF RequestOK, LocksHeld, OpHolds, AnswerHolds, SeenHolds,
       HoldsPayment, HoldsUser, HoldsSub, Settled, Inv, SuccessSettled, TypeOK
  <2> QED
    BY <2>4, <2>5, <2>6, QuietInv DEF VerifyTransaction, KeepsLocks, LocksType, TypeOK
<1>2. ASSUME NEW op \in {"cancel", "expire", "reconcile", "grant", "revoke"},
             NEW pc \in {"cancel", "recheck", "lockUser"}, Starts(r, op, pc),
             pc = "cancel" <=> op = "cancel", pc = "recheck" <=> op = "expire",
             op \in {"cancel", "expire"} => sub # NoSub,
             UNCHANGED <<provider, rows, counts, locks>>
      PROVE  Inv'
  <2>1. /\ req' \in [Requests -> RequestTypes] /\ req'[r].pc = pc /\ req'[r].op = op
        /\ \A s \in Requests \ {r} : req'[s] = req[s]
    <3>1. op \in AllOps /\ pc \in PCs /\ req' = [req EXCEPT ![r].op = op, ![r].pc = pc]
      BY <1>2 DEF Starts, AllOps, PCs
    <3> QED
      BY <3>1, StartsFacts
  <2>2. UNCHANGED <<now, charge, paidAt, pay, sub, payLock, subLock, userLock>>
    BY <1>2 DEF provider, rows, locks
  <2>3. RequestOK(r)'
    BY <1>2, <2>1, <2>2 DEF RequestOK, LocksHeld, OpHolds, AnswerHolds, SeenHolds,
       HoldsPayment, HoldsUser, HoldsSub
  <2> QED
    BY <1>2, <2>1, <2>2, <2>3, QuietInv DEF KeepsLocks, LocksType, TypeOK
<1>3. CASE RequestCancel(r)
  BY <1>2, <1>3 DEF RequestCancel
<1>4. CASE FindDue(r)
  BY <1>2, <1>4 DEF FindDue, Due
<1>5. CASE \E op \in {"reconcile", "grant", "revoke"} : RequestReconcile(r, op)
  BY <1>2, <1>5 DEF RequestReconcile
<1> QED
  BY <1>1, <1>3, <1>4, <1>5

LEMMA FindPaymentInv == ASSUME Inv, NEW r \in Requests, FindPayment(r) PROVE Inv'
<1> TypeOK /\ RequestOK(r)
  BY DEF Inv
<1>1. CASE EndRequest(r)
  BY <1>1, RollbackInv DEF FindPayment
<1>2. ASSUME NEW pc \in {"create", "claim"}, Goto(r, pc), UNCHANGED locks PROVE Inv'
  <2>1. /\ req' \in [Requests -> RequestTypes]
        /\ req'[r].pc = pc /\ req'[r].op = req[r].op /\ req'[r].payment = req[r].payment
        /\ req'[r].paidAt = req[r].paidAt
        /\ \A s \in Requests \ {r} : req'[s] = req[s]
    BY <1>2, GotoFacts DEF PCs
  <2>2. UNCHANGED <<now, charge, paidAt, pay, sub, payLock, subLock, userLock>>
    BY <1>2 DEF FindPayment, provider, rows, locks
  <2>3. RequestOK(r)'
    BY <1>2, <2>1, <2>2 DEF FindPayment, RequestOK, LocksHeld, OpHolds, AnswerHolds, SeenHolds,
       HoldsPayment, HoldsUser, HoldsSub
  <2> QED
    BY <2>1, <2>2, <2>3, QuietInv DEF FindPayment, KeepsLocks, LocksType, TypeOK
<1> QED
  BY <1>1, <1>2 DEF FindPayment

\* The create and the claim take the payment's row, which is not a success.
LEMMA TakePaymentInv ==
  ASSUME Inv, NEW r \in Requests, req[r].pc \in {"create", "claim"},
         payLock[req[r].payment] = NoReq, pay[req[r].payment] # "SUCCESS",
         payLock' = [payLock EXCEPT ![req[r].payment] = r], Goto(r, "lockUser"),
         UNCHANGED <<subLock, userLock>>, UNCHANGED <<provider, rows, counts>>
  PROVE  Inv'
<1> TypeOK /\ RequestOK(r) /\ req[r].payment \in Payments
  BY DEF Inv, TypeOK, RequestTypes
<1>1. /\ req' \in [Requests -> RequestTypes]
      /\ req'[r].pc = "lockUser" /\ req'[r].op = req[r].op /\ req'[r].payment = req[r].payment
      /\ req'[r].paidAt = req[r].paidAt
      /\ \A s \in Requests \ {r} : req'[s] = req[s]
  BY GotoFacts DEF PCs
<1>2. UNCHANGED <<now, charge, pay, sub>>
  BY DEF provider, rows
<1>3. RequestOK(r)'
  BY <1>1, <1>2 DEF RequestOK, LocksHeld, OpHolds, AnswerHolds, SeenHolds, HoldsPayment,
     HoldsUser, HoldsSub, TypeOK
<1>4. LocksType' /\ \A s \in Requests : KeepsLocks(s)
  BY DEF LocksType, KeepsLocks, TypeOK
<1> QED
  BY <1>1, <1>3, <1>4, QuietInv

LEMMA CreatePaymentInv == ASSUME Inv, NEW r \in Requests, CreatePayment(r) PROVE Inv'
<1>1. CASE EndRequest(r)
  BY <1>1, RollbackInv DEF CreatePayment
<1>2. CASE pay[req[r].payment] = "NONE"
  BY <1>2, TakePaymentInv DEF CreatePayment
<1> QED
  BY <1>1, <1>2 DEF CreatePayment

LEMMA ClaimPaymentInv == ASSUME Inv, NEW r \in Requests, ClaimPayment(r) PROVE Inv'
<1>1. CASE EndRequest(r)
  BY <1>1, RollbackInv DEF ClaimPayment
<1>2. CASE Claimable(req[r].payment)
  BY <1>2, TakePaymentInv DEF ClaimPayment, Claimable
<1> QED
  BY <1>1, <1>2 DEF ClaimPayment

LEMMA GetLockedUserInv == ASSUME Inv, NEW r \in Requests, GetLockedUser(r) PROVE Inv'
<1> TypeOK /\ RequestOK(r) /\ req[r].payment \in Payments
  BY DEF Inv, TypeOK, RequestTypes
<1> DEFINE pc == AfterUserLock(r)
<1>1. pc \in {"readSub", "commit"} /\ (pc = "readSub" <=> req[r].op = "verify")
  BY DEF AfterUserLock
<1>2. Goto(r, pc) /\ pc \in PCs
  BY <1>1 DEF GetLockedUser, PCs
<1>3. /\ req' \in [Requests -> RequestTypes]
      /\ req'[r].pc = pc /\ req'[r].op = req[r].op /\ req'[r].payment = req[r].payment
      /\ req'[r].seen = req[r].seen /\ req'[r].paidAt = req[r].paidAt
      /\ \A s \in Requests \ {r} : req'[s] = req[s]
  <2> HIDE DEF pc
  <2> QED
    BY <1>2, GotoFacts
<1>4. UNCHANGED <<now, charge, pay, sub, payLock, subLock>>
  BY DEF GetLockedUser, provider, rows
<1>5. RequestOK(r)'
  <2> HIDE DEF pc
  <2> QED
    BY <1>1, <1>3, <1>4 DEF GetLockedUser, RequestOK, LocksHeld, OpHolds, AnswerHolds, SeenHolds,
       HoldsPayment, HoldsUser, HoldsSub, TypeOK
<1>6. LocksType' /\ \A s \in Requests : KeepsLocks(s)
  BY DEF GetLockedUser, LocksType, KeepsLocks, TypeOK
<1> QED
  BY <1>3, <1>5, <1>6, QuietInv DEF GetLockedUser

LEMMA ReadSubscriptionInv == ASSUME Inv, NEW r \in Requests, ReadSubscription(r) PROVE Inv'
<1> TypeOK /\ RequestOK(r) /\ req[r] \in RequestTypes
  BY DEF Inv, TypeOK
<1> DEFINE pc == IF sub = NoSub THEN "apply" ELSE "lockSub"
           q == [req[r] EXCEPT !.seen = sub, !.pc = pc]
<1>1. q \in RequestTypes /\ q.pc = pc /\ q.seen = sub /\ q.op = req[r].op
      /\ q.payment = req[r].payment /\ q.paidAt = req[r].paidAt
  BY DEF RequestTypes, PCs, TypeOK
<1>2. req' = [req EXCEPT ![r] = q]
  BY DEF ReadSubscription, TypeOK, RequestTypes
<1>3. /\ req' \in [Requests -> RequestTypes] /\ req'[r] = q
      /\ \A s \in Requests \ {r} : req'[s] = req[s]
  <2> HIDE DEF q
  <2> QED
    BY <1>1, <1>2 DEF TypeOK
<1>4. UNCHANGED <<now, charge, pay, sub, payLock, subLock, userLock>>
  BY DEF ReadSubscription, provider, rows, locks
<1>5. RequestOK(r)'
  <2> HIDE DEF q
  <2> QED
    BY <1>1, <1>3, <1>4 DEF ReadSubscription, RequestOK, LocksHeld, OpHolds, AnswerHolds,
       SeenHolds, SamePeriod, HoldsPayment, HoldsUser, HoldsSub
<1> QED
  BY <1>3, <1>4, <1>5, QuietInv DEF ReadSubscription, KeepsLocks, LocksType, TypeOK

\* The steps that take the subscription's row.
LEMMA TakeSubInv ==
  ASSUME Inv, NEW r \in Requests, LockSubscription(r) \/ MarkExpired(r)
  PROVE  Inv'
<1> TypeOK /\ RequestOK(r) /\ req[r].payment \in Payments
  BY DEF Inv, TypeOK, RequestTypes
<1>1. PICK pc \in {"apply", "lockUser"} :
         /\ Goto(r, pc) /\ subLock = NoReq /\ subLock' = r /\ UNCHANGED <<payLock, userLock>>
         /\ UNCHANGED <<provider, rows, counts>>
         /\ pc = "apply" => req[r].pc = "lockSub"
         /\ pc = "lockUser" => req[r].pc = "markExpired"
  BY DEF LockSubscription, MarkExpired
<1>2. /\ req' \in [Requests -> RequestTypes]
      /\ req'[r].pc = pc /\ req'[r].op = req[r].op /\ req'[r].payment = req[r].payment
      /\ req'[r].seen = req[r].seen /\ req'[r].paidAt = req[r].paidAt
      /\ \A s \in Requests \ {r} : req'[s] = req[s]
  BY <1>1, GotoFacts DEF PCs
<1>3. UNCHANGED <<now, charge, pay, sub>>
  BY <1>1 DEF provider, rows
<1>4. RequestOK(r)'
  BY <1>1, <1>2, <1>3 DEF RequestOK, LocksHeld, OpHolds, AnswerHolds, SeenHolds, SamePeriod,
     HoldsPayment, HoldsUser, HoldsSub, TypeOK
<1>5. LocksType' /\ \A s \in Requests : KeepsLocks(s)
  BY <1>1 DEF LocksType, KeepsLocks, TypeOK
<1> QED
  BY <1>1, <1>2, <1>4, <1>5, QuietInv

LEMMA RecheckDueInv == ASSUME Inv, NEW r \in Requests, RecheckDue(r) PROVE Inv'
<1> TypeOK /\ RequestOK(r)
  BY DEF Inv
<1>1. CASE EndRequest(r)
  BY <1>1, RollbackInv DEF RecheckDue
<1>2. CASE Goto(r, "markExpired") /\ UNCHANGED locks
  <2>1. /\ req' \in [Requests -> RequestTypes]
        /\ req'[r].pc = "markExpired" /\ req'[r].op = req[r].op
        /\ \A s \in Requests \ {r} : req'[s] = req[s]
    BY <1>2, GotoFacts DEF PCs
  <2>2. UNCHANGED <<now, charge, paidAt, pay, sub, payLock, subLock, userLock>>
    BY <1>2 DEF RecheckDue, provider, rows, locks
  <2>3. RequestOK(r)'
    BY <1>2, <2>1, <2>2 DEF RecheckDue, RequestOK, LocksHeld, OpHolds, AnswerHolds, SeenHolds,
       HoldsPayment, HoldsUser, HoldsSub
  <2> QED
    BY <2>1, <2>2, <2>3, QuietInv DEF RecheckDue, KeepsLocks, LocksType, TypeOK
<1> QED
  BY <1>1, <1>2 DEF RecheckDue

(***************************************************************************)
(* Steps that change what the provider knows, or a payment's row.          *)
(***************************************************************************)
LEMMA InitiateInv ==
  ASSUME Inv, NEW r \in Requests, NEW p \in Payments, InitiateSubscription(r, p)
  PROVE  Inv'
<1> TypeOK /\ req[r] \in RequestTypes
  BY DEF Inv, TypeOK
<1> DEFINE q == [req[r] EXCEPT !.op = "initiate", !.pc = "pending", !.payment = p]
<1>1. q \in RequestTypes /\ q.pc = "pending" /\ q.op = "initiate" /\ q.payment = p
  BY DEF RequestTypes, PCs, AllOps
<1>2. req' = [req EXCEPT ![r] = q]
  BY DEF InitiateSubscription, TypeOK, RequestTypes
<1>3. /\ req' \in [Requests -> RequestTypes] /\ req'[r] = q
      /\ \A s \in Requests \ {r} : req'[s] = req[s]
  <2> HIDE DEF q
  <2> QED
    BY <1>1, <1>2 DEF TypeOK
<1>4. /\ UNCHANGED <<now, paidAt, pay, sub, ents, user, applied, overwritten, credits,
                     payLock, subLock, userLock>>
      /\ charge[p] = "none" /\ charge' = [charge EXCEPT ![p] = "open"]
  BY DEF InitiateSubscription, rows, counts, locks
<1>5. TypeOK'
  BY <1>3, <1>4 DEF TypeOK, Charges
<1>6. RequestOK(r)'
  <2> HIDE DEF q
  <2> QED
    BY <1>1, <1>3, <1>4 DEF RequestOK, LocksHeld, OpHolds, AnswerHolds, SeenHolds,
       HoldsPayment, HoldsUser, HoldsSub, TypeOK
<1>7. ASSUME NEW s \in Requests \ {r} PROVE RequestOK(s)'
  <2> RequestOK(s) /\ req'[s] = req[s] /\ req[s].payment \in Payments
    BY <1>3 DEF Inv, TypeOK, RequestTypes
  <2>1. LocksHeld(s)' /\ OpHolds(s)' /\ SeenHolds(s)'
    BY <1>4 DEF RequestOK, LocksHeld, OpHolds, SeenHolds, HoldsPayment, HoldsUser, HoldsSub
  <2>2. AnswerHolds(s)'
    BY <1>4 DEF RequestOK, AnswerHolds, HoldsPayment, Settled, TypeOK
  <2> QED
    BY <2>1, <2>2 DEF RequestOK
<1>8. SuccessSettled'
  BY <1>4 DEF Inv, SuccessSettled, Settled, TypeOK
<1>9. /\ SuccessMeansApplied' /\ PeriodOK(sub, now)' /\ GrantsOK(ents)'
      /\ PaidDaysAdd' /\ LastReconciled'
  BY <1>4 DEF Inv, SuccessMeansApplied, PeriodOK, GrantsOK, PaidDaysAdd, LastReconciled
<1> QED
  BY <1>5, <1>6, <1>7, <1>8, <1>9 DEF Inv

\* An outcome that is no success is written to a row nobody holds.
LEMMA OverwriteInv ==
  ASSUME Inv, NEW r \in Requests, NEW o \in PaymentStatus \ {"SUCCESS"}, EndRequest(r),
         pay' = [pay EXCEPT ![req[r].payment] = o],
         overwritten' = IF pay[req[r].payment] = "SUCCESS"
                        THEN [overwritten EXCEPT ![req[r].payment] = @ + 1] ELSE overwritten,
         UNCHANGED <<provider, sub, ents, user, applied, credits>>
  PROVE  Inv'
<1> DEFINE p == req[r].payment
<1> TypeOK /\ p \in Payments
  BY DEF Inv, TypeOK, RequestTypes
<1>1. UNCHANGED <<now, charge, paidAt, sub, ents, user, applied, credits>>
  BY DEF provider
<1>2. /\ req' \in [Requests -> RequestTypes] /\ LocksType' /\ req'[r] = Idle
      /\ \A s \in Requests \ {r} : req'[s] = req[s] /\ KeepsLocks(s)
  BY EndRequestFacts
<1>3. TypeOK'
  BY <1>1, <1>2 DEF TypeOK, LocksType
<1>4. ASSUME NEW s \in Requests \ {r} PROVE RequestOK(s)'
  <2>1. HoldsPayment(s) => pay'[req[s].payment] # "SUCCESS"
    BY DEF Inv, RequestOK, AnswerHolds, TypeOK, RequestTypes
  <2>2. SamePeriod(sub, sub')
    BY <1>1 DEF SamePeriod
  <2> QED
    BY <1>1, <1>2, <2>1, <2>2, OthersOK
<1>5. RequestOK(r)'
  BY <1>2, IdleOK
<1>6. SuccessSettled'
  BY <1>1 DEF Inv, SuccessSettled, TypeOK
<1>7. SuccessMeansApplied'
  <2> SUFFICES ASSUME NEW x \in Payments
               PROVE  applied'[x] = overwritten'[x] + (IF pay'[x] = "SUCCESS" THEN 1 ELSE 0)
    BY DEF SuccessMeansApplied
  <2>1. applied[x] = overwritten[x] + (IF pay[x] = "SUCCESS" THEN 1 ELSE 0)
    BY DEF Inv, SuccessMeansApplied
  <2> QED
    BY <1>1, <2>1 DEF TypeOK
<1>8. /\ PeriodOK(sub, now)' /\ GrantsOK(ents)' /\ PaidDaysAdd' /\ LastReconciled'
  BY <1>1 DEF Inv, PeriodOK, GrantsOK, PaidDaysAdd, LastReconciled
<1> QED
  BY <1>3, <1>4, <1>5, <1>6, <1>7, <1>8 DEF Inv

LEMMA UpsertPendingInv == ASSUME Inv, NEW r \in Requests, UpsertPendingPayment(r) PROVE Inv'
<1> TypeOK /\ RequestOK(r) /\ req[r].payment \in Payments
  BY DEF Inv, TypeOK, RequestTypes
<1>1. pay[req[r].payment] # "SUCCESS"
  BY DEF UpsertPendingPayment, RequestOK, AnswerHolds, Inv, SuccessSettled, Settled
<1> QED
  BY <1>1, OverwriteInv DEF UpsertPendingPayment, PaymentStatus, counts

LEMMA PersistUnsuccessfulInv ==
  ASSUME Inv, NEW r \in Requests, PersistUnsuccessfulPayment(r)
  PROVE  Inv'
<1>1. req[r].outcome \in PaymentStatus \ {"SUCCESS"}
  BY DEF PersistUnsuccessfulPayment, Inv, RequestOK, OpHolds, PaymentStatus
<1> QED
  BY <1>1, OverwriteInv DEF PersistUnsuccessfulPayment

\* The provider settles a payment, or reverses it; time passes.
LEMMA ProviderInv ==
  ASSUME Inv, UNCHANGED <<rows, counts, locks, req>>, now' \in 0..MaxTime, now <= now',
         charge' \in [Payments -> Charges], paidAt' \in [Payments -> Nat],
         \A p \in Payments :
            /\ paidAt'[p] <= now'
            /\ charge'[p] # charge[p] => charge'[p] \in Settled /\ ~Initiating(p)
  PROVE  Inv'
<1> TypeOK
  BY DEF Inv
<1> UNCHANGED <<pay, sub, ents, user, applied, overwritten, credits, payLock, subLock, userLock>>
  BY DEF rows, counts, locks
<1>1. TypeOK'
  BY DEF TypeOK
<1>2. ASSUME NEW s \in Requests PROVE RequestOK(s)'
  <2> RequestOK(s) /\ req[s] \in RequestTypes
    BY DEF Inv, TypeOK
  <2>1. LocksHeld(s)' /\ OpHolds(s)' /\ SeenHolds(s)'
    BY DEF RequestOK, LocksHeld, OpHolds, SeenHolds, HoldsPayment, HoldsUser, HoldsSub
  <2>2. AnswerHolds(s)'
    <3>1. req[s].pc = "pending" => charge'[req[s].payment] = "open"
      BY DEF RequestOK, AnswerHolds, Initiating, RequestTypes
    <3>2. req[s].paidAt <= now => req[s].paidAt <= now'
      BY DEF RequestTypes, TypeOK
    <3>3. charge[req[s].payment] \in Settled => charge'[req[s].payment] \in Settled
      BY DEF RequestTypes
    <3> QED
      BY <3>1, <3>2, <3>3 DEF RequestOK, AnswerHolds, HoldsPayment
  <2> QED
    BY <2>1, <2>2 DEF RequestOK
<1>3. SuccessSettled'
  BY DEF Inv, SuccessSettled
<1>4. SuccessMeansApplied' /\ GrantsOK(ents)' /\ PaidDaysAdd'
  BY DEF Inv, SuccessMeansApplied, GrantsOK, PaidDaysAdd
<1>5. PeriodOK(sub, now)'
  <2>1. sub # NoSub => sub.start \in Nat
    BY DEF TypeOK, SubscriptionRows
  <2> QED
    BY <2>1 DEF Inv, PeriodOK, TypeOK
<1>6. LastReconciled'
  <2>1. 0..now \subseteq 0..now'
    BY DEF TypeOK
  <2> QED
    BY <2>1 DEF Inv, LastReconciled
<1> QED
  BY <1>1, <1>2, <1>3, <1>4, <1>5, <1>6 DEF Inv

LEMMA EnvironmentInv == ASSUME Inv, Environment PROVE Inv'
<1> TypeOK /\ now' \in 0..MaxTime /\ now <= now'
  BY DEF Inv, Environment, Pay, Reverse, Tick, TypeOK
<1>0. \A p \in Payments : paidAt[p] <= now /\ paidAt[p] \in Nat
  BY DEF Inv, SuccessSettled, TypeOK
<1>1. ASSUME NEW p \in Payments, Pay(p) PROVE Inv'
  <2>1. UNCHANGED <<rows, counts, locks, req>> /\ now' = now
    BY <1>1 DEF Pay
  <2>2. charge' \in [Payments -> Charges] /\ paidAt' \in [Payments -> Nat]
    BY <1>1 DEF Pay, TypeOK, Charges
  <2>3. \A x \in Payments :
           /\ paidAt'[x] <= now'
           /\ charge'[x] # charge[x] => charge'[x] \in Settled /\ ~Initiating(x)
    BY <1>0, <1>1 DEF Pay, TypeOK, Settled
  <2> QED
    BY <2>1, <2>2, <2>3, ProviderInv
<1>2. ASSUME NEW p \in Payments, Reverse(p) PROVE Inv'
  <2>1. UNCHANGED <<rows, counts, locks, req>> /\ now' = now
    BY <1>2 DEF Reverse
  <2>2. charge' \in [Payments -> Charges] /\ paidAt' \in [Payments -> Nat]
    BY <1>2 DEF Reverse, TypeOK, Charges
  <2>3. ~Initiating(p)
    BY <1>2 DEF Reverse, Initiating, Inv, RequestOK, AnswerHolds
  <2>4. \A x \in Payments :
           /\ paidAt'[x] <= now'
           /\ charge'[x] # charge[x] => charge'[x] \in Settled /\ ~Initiating(x)
    BY <1>0, <1>2, <2>3 DEF Reverse, TypeOK, Settled
  <2> QED
    BY <2>1, <2>2, <2>4, ProviderInv
<1>3. CASE Tick
  <2>1. \A x \in Payments : paidAt'[x] <= now' /\ charge'[x] = charge[x]
    BY <1>0, <1>3 DEF Tick, TypeOK
  <2> QED
    BY <1>3, <2>1, ProviderInv DEF Tick, TypeOK
<1> QED
  BY <1>1, <1>2, <1>3 DEF Environment

(***************************************************************************)
(* Steps that commit a change of premium: they hold the user's row.        *)
(***************************************************************************)
LEMMA ExpireFacts ==
  ASSUME NEW s \in Subscribed, NEW es \in SUBSET Entitlements, GrantsOK(es), NEW t \in Nat,
         PeriodOK(s, t)
  PROVE  /\ ExpireSub(s, t) \in Subscribed /\ PeriodOK(ExpireSub(s, t), t)
         /\ ExpireEnts(es, t) \in SUBSET Entitlements /\ GrantsOK(ExpireEnts(es, t))
         /\ s = NoSub <=> ExpireSub(s, t) = NoSub
         /\ s # NoSub => ExpireSub(s, t).start = s.start /\ ExpireSub(s, t).end = s.end
<1>1. s # NoSub => [s EXCEPT !.status = "EXPIRED"] \in SubscriptionRows
  BY DEF Subscribed, SubscriptionRows
<1>2. /\ ExpireSub(s, t) \in Subscribed /\ (s = NoSub <=> ExpireSub(s, t) = NoSub)
      /\ s # NoSub => ExpireSub(s, t).start = s.start /\ ExpireSub(s, t).end = s.end
  BY <1>1 DEF ExpireSub, Due, Subscribed, SubscriptionRows
<1>3. PeriodOK(ExpireSub(s, t), t)
  BY <1>2 DEF PeriodOK
<1> DEFINE X(e) == IF e.status = "ACTIVE" /\ e.end <= t THEN [e EXCEPT !.status = "EXPIRED"] ELSE e
<1>4. \A e \in es : X(e) \in Entitlements /\ X(e).start = e.start /\ X(e).end = e.end
  BY DEF Entitlements
<1>5. ExpireEnts(es, t) = {X(e) : e \in es}
  BY DEF ExpireEnts
<1>6. ExpireEnts(es, t) \in SUBSET Entitlements
  <2> HIDE DEF X
  <2> QED
    BY <1>4, <1>5
<1>7. GrantsOK(ExpireEnts(es, t))
  <2> HIDE DEF X
  <2> QED
    BY <1>4, <1>5 DEF GrantsOK
<1> QED
  BY <1>2, <1>3, <1>6, <1>7

LEMMA ReconciledFacts ==
  ASSUME NEW s \in Subscribed, NEW es \in SUBSET Entitlements, GrantsOK(es), now \in Nat,
         PeriodOK(s, now), Reconciled(s, es)
  PROVE  /\ sub' \in Subscribed /\ ents' \in SUBSET Entitlements /\ user' \in Users
         /\ PeriodOK(sub', now) /\ GrantsOK(ents')
         /\ user' = Projection(sub', ents', now)
         /\ s = NoSub <=> sub' = NoSub
         /\ s # NoSub => sub'.start = s.start /\ sub'.end = s.end
<1>1. /\ sub' \in Subscribed /\ PeriodOK(sub', now)
      /\ ents' \in SUBSET Entitlements /\ GrantsOK(ents')
      /\ s = NoSub <=> sub' = NoSub
      /\ s # NoSub => sub'.start = s.start /\ sub'.end = s.end
  BY ExpireFacts DEF Reconciled
<1>2. user' = Projection(sub', ents', now)
  BY DEF Reconciled
<1>3. Projection(sub', ents', now) \in Users
  BY <1>1, ProjectionType
<1> QED
  BY <1>1, <1>2, <1>3

LEMMA CommitInv ==
  ASSUME Inv, NEW r \in Requests, HoldsUser(r), EndRequest(r), UNCHANGED provider,
         sub' \in Subscribed, ents' \in SUBSET Entitlements, user' \in Users,
         PeriodOK(sub', now), GrantsOK(ents'), user' = Projection(sub', ents', now),
         sub # NoSub => sub' # NoSub,
         pay' \in [Payments -> PaymentStatus], applied' \in [Payments -> Nat],
         overwritten' \in [Payments -> Nat], credits' \in Nat,
         \A s \in Requests \ {r} : HoldsPayment(s) => pay'[req[s].payment] # "SUCCESS",
         SuccessSettled', SuccessMeansApplied', PaidDaysAdd'
  PROVE  Inv'
<1> TypeOK
  BY DEF Inv
<1>1. UNCHANGED <<now, charge, paidAt>>
  BY DEF provider
<1>2. /\ req' \in [Requests -> RequestTypes] /\ LocksType' /\ req'[r] = Idle
      /\ \A s \in Requests \ {r} : req'[s] = req[s] /\ KeepsLocks(s)
  BY EndRequestFacts
<1>3. TypeOK'
  BY <1>1, <1>2 DEF TypeOK, LocksType, Subscribed
<1>4. ASSUME NEW s \in Requests \ {r} PROVE RequestOK(s)'
  <2>1. ~HoldsUser(s)
    BY DEF Inv, RequestOK, LocksHeld
  <2> QED
    BY <1>1, <1>2, <2>1, OthersOK
<1>5. RequestOK(r)'
  BY <1>2, IdleOK
<1>6. PeriodOK(sub, now)' /\ GrantsOK(ents)'
  BY <1>1 DEF PeriodOK, GrantsOK
<1>7. LastReconciled'
  BY <1>1 DEF LastReconciled, TypeOK
<1> QED
  BY <1>3, <1>4, <1>5, <1>6, <1>7 DEF Inv

\* Reconciling the subscription or the grants leaves the payments alone.
LEMMA ReconcileInv ==
  ASSUME Inv, NEW r \in Requests, req[r].pc = "commit", EndRequest(r),
         UNCHANGED <<provider, pay, counts>>,
         NEW s \in Subscribed, NEW es \in SUBSET Entitlements, GrantsOK(es),
         s = NoSub <=> sub = NoSub, s # NoSub => s.start = sub.start /\ s.end = sub.end,
         Reconciled(s, es)
  PROVE  Inv'
<1> TypeOK /\ now \in Nat
  BY DEF Inv, TypeOK
<1>1. UNCHANGED <<now, charge, paidAt, pay, applied, overwritten, credits>>
  BY DEF provider, counts
<1>2. PeriodOK(s, now)
  BY DEF Inv, PeriodOK
<1>3. /\ sub' \in Subscribed /\ ents' \in SUBSET Entitlements /\ user' \in Users
      /\ PeriodOK(sub', now) /\ GrantsOK(ents')
      /\ user' = Projection(sub', ents', now)
      /\ s = NoSub <=> sub' = NoSub
      /\ s # NoSub => sub'.start = s.start /\ sub'.end = s.end
  BY <1>2, ReconciledFacts
<1>4. SuccessSettled' /\ SuccessMeansApplied'
  BY <1>1 DEF Inv, SuccessSettled, SuccessMeansApplied
<1>5. PaidDaysAdd'
  BY <1>1, <1>3 DEF Inv, PaidDaysAdd
<1>6. \A q \in Requests \ {r} : HoldsPayment(q) => pay'[req[q].payment] # "SUCCESS"
  BY <1>1 DEF Inv, RequestOK, AnswerHolds
<1>7. HoldsUser(r)
  BY DEF HoldsUser
<1> QED
  BY <1>1, <1>3, <1>4, <1>5, <1>6, <1>7, CommitInv DEF TypeOK

LEMMA ExpireSubscriptionInv ==
  ASSUME Inv, NEW r \in Requests, ExpireSubscription(r)
  PROVE  Inv'
<1> DEFINE s == [sub EXCEPT !.status = "EXPIRED"]
<1>1. sub \in SubscriptionRows
  BY DEF ExpireSubscription, Inv, RequestOK, OpHolds, TypeOK
<1>2. s \in SubscriptionRows /\ s.start = sub.start /\ s.end = sub.end
  BY <1>1 DEF SubscriptionRows
<1>3. s \in Subscribed /\ s # NoSub /\ sub # NoSub
  BY <1>1, <1>2 DEF Subscribed
<1>4. Reconciled(s, ents)
  BY DEF ExpireSubscription
<1> HIDE DEF s
<1> QED
  BY <1>2, <1>3, <1>4, ReconcileInv DEF ExpireSubscription, Inv, TypeOK

LEMMA ReconcileStepInv == ASSUME Inv, NEW r \in Requests, Reconcile(r) PROVE Inv'
BY ReconcileInv DEF Reconcile, Inv, TypeOK, Subscribed

LEMMA GrantStartType ==
  ASSUME Inv
  PROVE  /\ GrantStart(ExpireSub(sub, now), ExpireEnts(ents, now)) \in Nat
         /\ ExpireSub(sub, now) \in Subscribed /\ ExpireEnts(ents, now) \in SUBSET Entitlements
         /\ GrantsOK(ExpireEnts(ents, now))
<1> now \in Nat /\ sub \in Subscribed /\ ents \in SUBSET Entitlements
  BY DEF Inv, TypeOK, Subscribed
<1>1. /\ ExpireSub(sub, now) \in Subscribed /\ ExpireEnts(ents, now) \in SUBSET Entitlements
      /\ GrantsOK(ExpireEnts(ents, now))
  BY ExpireFacts DEF Inv
<1>2. Projection(ExpireSub(sub, now), ExpireEnts(ents, now), now) \in Users
  BY <1>1, ProjectionType
<1> QED
  BY <1>1, <1>2 DEF GrantStart, Users

LEMMA GrantPremiumInv == ASSUME Inv, NEW r \in Requests, GrantPremium(r) PROVE Inv'
<1> DEFINE from == GrantStart(ExpireSub(sub, now), ExpireEnts(ents, now))
           e == [start |-> from, end |-> from + GrantDays, status |-> "ACTIVE"]
           es == ents \cup {e}
<1>1. from \in Nat
  BY GrantStartType
<1>2. e \in Entitlements /\ e.start < e.end
  <2> HIDE DEF from
  <2> QED
    BY <1>1 DEF Entitlements
<1>3. GrantsOK(es)
  <2>1. PICK b \in Nat : \A x \in ents : x.end <= b
    BY DEF Inv, GrantsOK
  <2>2. \A x \in es : x.end <= b + e.end
    <3> HIDE DEF e
    <3> QED
      BY <1>2, <2>1 DEF Entitlements, Inv, TypeOK
  <2>3. b + e.end \in Nat
    BY <1>2, <2>1 DEF Entitlements
  <2>4. \A x \in es : x.start < x.end
    <3> HIDE DEF e
    <3> QED
      BY <1>2 DEF Inv, GrantsOK
  <2> HIDE DEF e, es
  <2> QED
    BY <2>2, <2>3, <2>4 DEF GrantsOK
<1>4. es \in SUBSET Entitlements
  <2> HIDE DEF e
  <2> QED
    BY <1>2 DEF Inv, TypeOK
<1>5. Reconciled(sub, es)
  BY DEF GrantPremium
<1> HIDE DEF es
<1> QED
  BY <1>3, <1>4, <1>5, ReconcileInv DEF GrantPremium, Inv, TypeOK, Subscribed

LEMMA RevokedFacts ==
  ASSUME NEW es \in SUBSET Entitlements, GrantsOK(es)
  PROVE  Revoked(es) \in SUBSET Entitlements /\ GrantsOK(Revoked(es))
<1> DEFINE X(e) == IF e.status = "ACTIVE" THEN [e EXCEPT !.status = "REVOKED"] ELSE e
<1>1. \A e \in es : X(e) \in Entitlements /\ X(e).start = e.start /\ X(e).end = e.end
  BY DEF Entitlements
<1>2. Revoked(es) = {X(e) : e \in es}
  BY DEF Revoked
<1> HIDE DEF X
<1>3. GrantsOK(Revoked(es))
  BY <1>1, <1>2 DEF GrantsOK
<1> QED
  BY <1>1, <1>2, <1>3

LEMMA RevokePremiumInv == ASSUME Inv, NEW r \in Requests, RevokePremium(r) PROVE Inv'
<1>1. CASE UNCHANGED <<sub, ents, user>>
  BY <1>1, RollbackInv DEF RevokePremium, rows
<1>2. CASE Reconciled(sub, Revoked(ExpireEnts(ents, now)))
  <2>1. /\ Revoked(ExpireEnts(ents, now)) \in SUBSET Entitlements
        /\ GrantsOK(Revoked(ExpireEnts(ents, now)))
    BY GrantStartType, RevokedFacts
  <2> QED
    BY <1>2, <2>1, ReconcileInv DEF RevokePremium, Inv, TypeOK, Subscribed
<1> QED
  BY <1>1, <1>2 DEF RevokePremium

LEMMA SamePeriodWindows ==
  ASSUME NEW s \in Subscribed, NEW v \in Subscribed, SamePeriod(s, v), NEW es, NEW t
  PROVE  Projection(v, es, t) = Projection(s, es, t)
<1>1. Windows(v, es, t) = Windows(s, es, t)
  BY Zenon DEF Windows, SamePeriod
<1> QED
  BY <1>1 DEF Projection, ActiveWindows, EffectiveEnd

LEMMA CancelFacts ==
  ASSUME Inv, NEW r \in Requests, CancelSubscription(r)
  PROVE  sub \in SubscriptionRows /\ sub' \in SubscriptionRows /\ SamePeriod(sub, sub')
<1>1. sub \in SubscriptionRows
  BY DEF CancelSubscription, Inv, RequestOK, OpHolds, TypeOK
<1> QED
  BY <1>1 DEF CancelSubscription, SubscriptionRows, SamePeriod

LEMMA CancelSubscriptionInv == ASSUME Inv, NEW r \in Requests, CancelSubscription(r) PROVE Inv'
<1> TypeOK
  BY DEF Inv
<1>1. UNCHANGED <<now, charge, paidAt, pay, ents, user, applied, overwritten, credits>>
  BY DEF CancelSubscription, provider, counts
<1>2. sub \in SubscriptionRows /\ sub' \in SubscriptionRows /\ SamePeriod(sub, sub')
  BY CancelFacts
<1>3. sub # NoSub /\ sub' # NoSub /\ sub \in Subscribed /\ sub' \in Subscribed
  BY <1>2 DEF Subscribed
<1>4. /\ req' \in [Requests -> RequestTypes] /\ LocksType' /\ req'[r] = Idle
      /\ \A s \in Requests \ {r} : req'[s] = req[s] /\ KeepsLocks(s)
  BY EndRequestFacts DEF CancelSubscription
<1>5. TypeOK'
  BY <1>1, <1>2, <1>4 DEF TypeOK, LocksType
<1>6. ASSUME NEW s \in Requests \ {r} PROVE RequestOK(s)'
  <2>1. HoldsPayment(s) => pay'[req[s].payment] # "SUCCESS"
    BY <1>1 DEF Inv, RequestOK, AnswerHolds
  <2> QED
    BY <1>1, <1>2, <1>3, <1>4, <2>1, OthersOK
<1>7. RequestOK(r)'
  BY <1>4, IdleOK
<1>8. SuccessSettled' /\ SuccessMeansApplied' /\ GrantsOK(ents)'
  BY <1>1 DEF Inv, SuccessSettled, SuccessMeansApplied, GrantsOK
<1>9. PeriodOK(sub, now)' /\ PaidDaysAdd'
  BY <1>1, <1>2, <1>3 DEF Inv, PeriodOK, PaidDaysAdd, SamePeriod
<1>10. LastReconciled'
  <2>1. PICK t \in 0..now : user = Projection(sub, ents, t)
    BY DEF Inv, LastReconciled
  <2>2. Projection(sub', ents, t) = Projection(sub, ents, t)
    BY <1>2, <1>3, SamePeriodWindows
  <2> QED
    BY <1>1, <2>1, <2>2 DEF LastReconciled
<1> QED
  BY <1>5, <1>6, <1>7, <1>8, <1>9, <1>10 DEF Inv

\* What the payment extends is what was read before the row was locked.
LEMMA ApplyFacts ==
  ASSUME Inv, NEW r \in Requests, ApplyPayment(r)
  PROVE  LET p == req[r].payment
             paid == req[r].paidAt
             s == req[r].seen
             x == Extend(s, paid, p \in Renewing)
         IN  /\ p \in Payments /\ HoldsPayment(r) /\ HoldsUser(r) /\ SamePeriod(s, sub)
             /\ paid \in 0..now /\ charge[p] \in Settled /\ pay[p] # "SUCCESS"
             /\ s \in Subscribed /\ x \in SubscriptionRows /\ x # NoSub
             /\ IF IsExtension(s, paid)
                THEN sub # NoSub /\ x.start = sub.start /\ x.end = sub.end + Duration
                ELSE x.start = paid /\ x.end = paid + Duration
<1> DEFINE p == req[r].payment
           paid == req[r].paidAt
           s == req[r].seen
           x == Extend(s, paid, p \in Renewing)
<1>1. TypeOK /\ RequestOK(r) /\ req[r] \in RequestTypes /\ req[r].pc = "apply"
  BY DEF Inv, TypeOK, ApplyPayment
<1>2. /\ HoldsPayment(r) /\ HoldsUser(r) /\ SamePeriod(s, sub)
      /\ paid \in 0..now /\ charge[p] \in Settled /\ pay[p] # "SUCCESS"
  BY <1>1 DEF RequestOK, OpHolds, AnswerHolds, SeenHolds, HoldsPayment, HoldsUser, RequestTypes,
     TypeOK
<1>3. p \in Payments /\ paid \in Nat /\ s \in Subscribed /\ (p \in Renewing) \in BOOLEAN
  BY <1>1 DEF RequestTypes, Subscribed
<1>4. s # NoSub => s \in SubscriptionRows /\ s.start \in Nat /\ s.end \in Nat
  BY <1>3 DEF Subscribed, SubscriptionRows
<1>5. x \in SubscriptionRows
  BY <1>3, <1>4 DEF Extend, IsExtension, Subscription, SubscriptionRows
<1>6. x # NoSub
  BY <1>5
<1>7. IF IsExtension(s, paid)
      THEN sub # NoSub /\ x.start = sub.start /\ x.end = sub.end + Duration
      ELSE x.start = paid /\ x.end = paid + Duration
  BY <1>2 DEF Extend, IsExtension, Subscription, SamePeriod
<1> QED
  BY <1>2, <1>3, <1>5, <1>6, <1>7

LEMMA ApplyPaymentInv == ASSUME Inv, NEW r \in Requests, ApplyPayment(r) PROVE Inv'
<1> DEFINE p == req[r].payment
           paid == req[r].paidAt
           s == req[r].seen
           x == Extend(s, paid, p \in Renewing)
<1> TypeOK /\ now \in Nat
  BY DEF Inv, TypeOK
<1>1. /\ p \in Payments /\ HoldsPayment(r) /\ HoldsUser(r) /\ SamePeriod(s, sub)
      /\ paid \in 0..now /\ charge[p] \in Settled /\ pay[p] # "SUCCESS"
      /\ s \in Subscribed /\ x \in SubscriptionRows /\ x # NoSub
      /\ IF IsExtension(s, paid)
         THEN sub # NoSub /\ x.start = sub.start /\ x.end = sub.end + Duration
         ELSE x.start = paid /\ x.end = paid + Duration
  BY ApplyFacts
<1>2. /\ pay' = [pay EXCEPT ![p] = "SUCCESS"] /\ Reconciled(x, ents)
      /\ applied' = [applied EXCEPT ![p] = @ + 1]
      /\ credits' = IF IsExtension(s, paid) THEN credits + 1 ELSE 1
      /\ EndRequest(r) /\ UNCHANGED <<now, charge, paidAt, overwritten>>
  BY DEF ApplyPayment, provider
<1> HIDE DEF x, s, paid
<1>3. x \in Subscribed /\ x.start \in Nat /\ x.end \in Nat
  BY <1>1 DEF Subscribed, SubscriptionRows
<1>4. PeriodOK(x, now)
  <2>1. sub # NoSub => sub.start \in Nat /\ sub.end \in Nat /\ sub.start <= now /\ sub.start < sub.end
    BY DEF Inv, TypeOK, PeriodOK, SubscriptionRows
  <2> QED
    BY <1>1, <2>1 DEF PeriodOK
<1>5. /\ sub' \in Subscribed /\ ents' \in SUBSET Entitlements /\ user' \in Users
      /\ PeriodOK(sub', now) /\ GrantsOK(ents')
      /\ user' = Projection(sub', ents', now)
      /\ sub' # NoSub /\ sub'.start = x.start /\ sub'.end = x.end
  BY <1>1, <1>2, <1>3, <1>4, ReconciledFacts DEF Inv, TypeOK
<1>6. /\ pay' \in [Payments -> PaymentStatus] /\ applied' \in [Payments -> Nat]
      /\ overwritten' \in [Payments -> Nat] /\ credits' \in Nat
  BY <1>1, <1>2 DEF TypeOK, PaymentStatus
<1>7. ASSUME NEW q \in Requests \ {r}, HoldsPayment(q) PROVE pay'[req[q].payment] # "SUCCESS"
  <2>1. payLock[p] = r /\ payLock[req[q].payment] = q
    BY <1>1, <1>7 DEF Inv, RequestOK, LocksHeld
  <2>2. pay[req[q].payment] # "SUCCESS" /\ req[q].payment \in Payments
    BY <1>7 DEF Inv, RequestOK, AnswerHolds, TypeOK, RequestTypes
  <2> QED
    BY <1>1, <1>2, <2>1, <2>2 DEF TypeOK
<1>8. SuccessSettled'
  BY <1>1, <1>2 DEF Inv, SuccessSettled, TypeOK
<1>9. SuccessMeansApplied'
  <2> SUFFICES ASSUME NEW y \in Payments
               PROVE  applied'[y] = overwritten'[y] + (IF pay'[y] = "SUCCESS" THEN 1 ELSE 0)
    BY DEF SuccessMeansApplied
  <2>1. applied[y] = overwritten[y] + (IF pay[y] = "SUCCESS" THEN 1 ELSE 0)
    BY DEF Inv, SuccessMeansApplied
  <2> QED
    BY <1>1, <1>2, <2>1 DEF TypeOK
<1>10. PaidDaysAdd'
  <2>1. sub # NoSub => sub.end = sub.start + Duration * credits
    BY DEF Inv, PaidDaysAdd
  <2>2. CASE IsExtension(s, paid)
    <3>1. credits' = credits + 1 /\ sub'.start = sub.start /\ sub'.end = sub.end + Duration
      BY <1>1, <1>2, <1>5, <2>2
    <3>2. sub.end = sub.start + Duration * credits /\ sub.start \in Nat
      BY <1>1, <2>1, <2>2 DEF TypeOK, SubscriptionRows
    <3>3. credits \in Nat /\ Duration * (credits + 1) = Duration * credits + Duration
      BY DEF TypeOK
    <3>4. Duration * credits \in Nat
      BY <3>3
    <3> QED
      BY <3>1, <3>2, <3>3, <3>4 DEF PaidDaysAdd
  <2>3. CASE ~IsExtension(s, paid)
    BY <1>1, <1>2, <1>5, <2>3 DEF PaidDaysAdd
  <2> QED
    BY <2>2, <2>3
<1> QED
  BY <1>1, <1>2, <1>5, <1>6, <1>7, <1>8, <1>9, <1>10, CommitInv DEF provider

(***************************************************************************)
(* The invariant holds.                                                    *)
(***************************************************************************)
LEMMA StepInv == ASSUME Inv, NEW r \in Requests, Step(r) PROVE Inv'
<1>1. CASE UpsertPendingPayment(r) \/ PersistUnsuccessfulPayment(r)
  BY <1>1, UpsertPendingInv, PersistUnsuccessfulInv
<1>2. CASE FindPayment(r) \/ CreatePayment(r) \/ ClaimPayment(r)
  BY <1>2, FindPaymentInv, CreatePaymentInv, ClaimPaymentInv
<1>3. CASE GetLockedUser(r) \/ ReadSubscription(r) \/ LockSubscription(r) \/ MarkExpired(r)
  BY <1>3, GetLockedUserInv, ReadSubscriptionInv, TakeSubInv
<1>4. CASE ApplyPayment(r) \/ CancelSubscription(r) \/ RecheckDue(r)
  BY <1>4, ApplyPaymentInv, CancelSubscriptionInv, RecheckDueInv
<1>5. CASE ExpireSubscription(r) \/ Reconcile(r) \/ GrantPremium(r) \/ RevokePremium(r)
  BY <1>5, ExpireSubscriptionInv, ReconcileStepInv, GrantPremiumInv, RevokePremiumInv
<1> QED
  BY <1>1, <1>2, <1>3, <1>4, <1>5 DEF Step

LEMMA NextInv == ASSUME Inv, [Next]_vars PROVE Inv'
<1>1. ASSUME NEW r \in Requests, Step(r) PROVE Inv'
  BY <1>1, StepInv
<1>2. ASSUME NEW r \in Requests, Arrival(r) PROVE Inv'
  BY <1>2, ArrivalInv, InitiateInv DEF Arrival
<1>3. ASSUME NEW r \in Requests, AbortRequest(r) \/ BreakDeadlock(r) PROVE Inv'
  BY <1>3, RollbackInv DEF AbortRequest, BreakDeadlock, Rollback
<1>4. CASE Environment
  BY <1>4, EnvironmentInv
<1>5. CASE UNCHANGED vars
  <2>1. UNCHANGED <<now, charge, paidAt, pay, sub, ents, user, applied, overwritten, credits,
                    payLock, subLock, userLock, req>>
    BY <1>5 DEF vars, provider, rows, counts, locks
  <2>2. TypeOK' /\ SuccessSettled' /\ SuccessMeansApplied' /\ PaidDaysAdd' /\ LastReconciled'
        /\ PeriodOK(sub, now)' /\ GrantsOK(ents)'
    BY <2>1 DEF Inv, TypeOK, SuccessSettled, SuccessMeansApplied, PaidDaysAdd, LastReconciled,
       PeriodOK, GrantsOK
  <2>3. ASSUME NEW r \in Requests PROVE RequestOK(r)'
    BY <2>1 DEF Inv, RequestOK, LocksHeld, OpHolds, AnswerHolds, SeenHolds, HoldsPayment,
       HoldsUser, HoldsSub
  <2> QED
    BY <2>2, <2>3 DEF Inv
<1> QED
  BY <1>1, <1>2, <1>3, <1>4, <1>5 DEF Next

LEMMA InvHolds == Spec => []Inv
BY InitInv, NextInv, PTL DEF Spec

\* The state has its type, whatever requests, jobs and admins do.
THEOREM SubscriptionsTypes == Spec => []TypeOK
<1>1. Inv => TypeOK
  BY DEF Inv
<1> QED
  BY <1>1, InvHolds, PTL

\* Every success of a payment has extended the subscription, and the period is
\* as long as the payments in it (applySuccessfulPaymentTx).
THEOREM EveryPaymentApplied == Spec => []PaymentsApplied
<1>1. Inv => PaymentsApplied
  BY DEF Inv, PaymentsApplied
<1> QED
  BY <1>1, InvHolds, PTL

\* The premium flag, up to the end stored with it, is always paid for or granted
\* (reconcilePremiumAccessTx).
THEOREM PremiumPaidFor == Spec => []PremiumIsCovered
<1>1. Inv => PremiumIsCovered
  <2> SUFFICES ASSUME Inv, user.isPremium, now < user.end PROVE Covered
    BY DEF PremiumIsCovered
  <2>1. PICK t \in 0..now : user = Projection(sub, ents, t)
    BY DEF Inv, LastReconciled
  <2>2. t \in Nat /\ now \in Nat /\ t <= now /\ sub \in Subscribed /\ ents \in SUBSET Entitlements
    BY DEF Inv, TypeOK, Subscribed
  <2> QED
    BY <2>1, <2>2, ProjectionCovers DEF Covered, Inv
<1> QED
  BY <1>1, InvHolds, PTL

\* A payment extends a subscription that is still current.
LEMMA ExtendsCurrent ==
  ASSUME Inv, NEW r \in Requests, ApplyPayment(r), sub # NoSub, sub.status = "ACTIVE",
         sub.end > now
  PROVE  IsExtension(req[r].seen, req[r].paidAt)
<1>1. SamePeriod(req[r].seen, sub) /\ req[r].paidAt \in 0..now
  BY ApplyFacts
<1>2. now \in Nat /\ sub.end \in Nat
  BY DEF Inv, TypeOK, SubscriptionRows
<1>3. /\ req[r].seen # NoSub /\ req[r].seen.status = "ACTIVE" /\ req[r].seen.end = sub.end
  BY <1>1 DEF SamePeriod
<1>4. sub.end > req[r].paidAt
  BY <1>1, <1>2
<1> QED
  BY <1>3, <1>4 DEF IsExtension

LEMMA ReconciledEnd ==
  ASSUME Inv, NEW s \in Subscribed, NEW es, Reconciled(s, es), s # NoSub, PeriodOK(s, now)
  PROVE  sub' # NoSub /\ sub'.end = s.end
<1>1. ExpireSub(s, now) # NoSub /\ ExpireSub(s, now).end = s.end
  <2>1. {} \in SUBSET Entitlements /\ GrantsOK({}) /\ now \in Nat
    BY DEF GrantsOK, Inv, TypeOK
  <2> QED
    BY <2>1, ExpireFacts
<1> QED
  BY <1>1 DEF Reconciled

\* No payment, grant, revocation or job shortens a current subscription
\* (applySuccessfulPaymentTx, expireDueSubscriptions).
THEOREM CurrentNeverShortened == Spec => NeverShortened
<1>1. ASSUME Inv, [Next]_vars, Current(sub) PROVE sub' # NoSub /\ sub'.end >= sub.end
  <2> sub \in SubscriptionRows /\ sub.end \in Nat /\ sub # NoSub /\ sub \in Subscribed
    BY <1>1 DEF Current, Inv, TypeOK, SubscriptionRows, Subscribed
  <2>1. CASE UNCHANGED sub
    BY <2>1
  <2>2. ASSUME NEW r \in Requests, ApplyPayment(r) PROVE sub' # NoSub /\ sub'.end >= sub.end
    <3> DEFINE x == Extend(req[r].seen, req[r].paidAt, req[r].payment \in Renewing)
    <3>1. IsExtension(req[r].seen, req[r].paidAt)
      BY <1>1, <2>2, ExtendsCurrent DEF Current
    <3>2. x \in Subscribed /\ x # NoSub /\ x.start = sub.start /\ x.end = sub.end + Duration
      BY <1>1, <2>2, <3>1, ApplyFacts DEF Subscribed
    <3>3. Reconciled(x, ents)
      BY <2>2 DEF ApplyPayment
    <3>4. PeriodOK(x, now)
      BY <1>1, <3>2 DEF Inv, PeriodOK, SubscriptionRows
    <3>5. sub' # NoSub /\ sub'.end = x.end
      <4> HIDE DEF x
      <4> QED
        BY <1>1, <3>2, <3>3, <3>4, ReconciledEnd
    <3> QED
      BY <3>2, <3>5
  <2>3. ASSUME NEW r \in Requests, CancelSubscription(r) PROVE sub' # NoSub /\ sub'.end >= sub.end
    BY <1>1, <2>3, CancelFacts DEF SamePeriod
  <2>4. ASSUME NEW r \in Requests, ExpireSubscription(r) PROVE sub' # NoSub /\ sub'.end >= sub.end
    <3> DEFINE x == [sub EXCEPT !.status = "EXPIRED"]
    <3>1. x \in SubscriptionRows /\ x.start = sub.start /\ x.end = sub.end
      BY DEF SubscriptionRows
    <3>2. Reconciled(x, ents)
      BY <2>4 DEF ExpireSubscription
    <3>3. x \in Subscribed /\ x # NoSub /\ PeriodOK(x, now)
      BY <1>1, <3>1 DEF Subscribed, Inv, PeriodOK
    <3>4. sub' # NoSub /\ sub'.end = x.end
      <4> HIDE DEF x
      <4> QED
        BY <1>1, <3>2, <3>3, ReconciledEnd
    <3> QED
      BY <3>1, <3>4
  <2>5. ASSUME NEW es, Reconciled(sub, es) PROVE sub' # NoSub /\ sub'.end >= sub.end
    <3>1. sub' # NoSub /\ sub'.end = sub.end
      BY <1>1, <2>5, ReconciledEnd DEF Inv
    <3> QED
      BY <3>1
  <2>6. ASSUME NEW r \in Requests, Reconcile(r) \/ GrantPremium(r) \/ RevokePremium(r)
        PROVE  sub' # NoSub /\ sub'.end >= sub.end
    <3>1. (\E es : Reconciled(sub, es)) \/ UNCHANGED sub
      BY <2>6 DEF Reconcile, GrantPremium, RevokePremium
    <3> QED
      BY <3>1, <2>1, <2>5
  <2>7. ASSUME NEW r \in Requests, Step(r) PROVE sub' # NoSub /\ sub'.end >= sub.end
    <3>1. \/ UNCHANGED sub \/ ApplyPayment(r) \/ CancelSubscription(r) \/ ExpireSubscription(r)
          \/ Reconcile(r) \/ GrantPremium(r) \/ RevokePremium(r)
      BY <2>7 DEF Step, UpsertPendingPayment, PersistUnsuccessfulPayment, FindPayment,
         CreatePayment, ClaimPayment, GetLockedUser, ReadSubscription, LockSubscription,
         RecheckDue, MarkExpired, rows
    <3> QED
      BY <3>1, <2>1, <2>2, <2>3, <2>4, <2>6
  <2>8. \/ \E r \in Requests : Step(r)
        \/ UNCHANGED sub
    BY <1>1 DEF Next, Arrival, InitiateSubscription, VerifyTransaction, RequestCancel, FindDue,
       RequestReconcile, AbortRequest, BreakDeadlock, Rollback, Environment, Pay, Reverse, Tick,
       rows, vars
  <2> QED
    BY <2>1, <2>7, <2>8
<1>2. Inv /\ [Next]_vars => [Current(sub) => sub' # NoSub /\ sub'.end >= sub.end]_vars
  BY <1>1
<1> QED
  BY <1>2, InvHolds, PTL DEF Spec, NeverShortened

(***************************************************************************)
(* Whoever is covered is premium.  The expiry job is left out: marking a   *)
(* subscription expired that was renewed meanwhile, it opens a gap before  *)
(* a grant that starts where the subscription was to end.                  *)
(***************************************************************************)
Sources(s, es) == es \cup ({s} \ {NoSub})

NoExpiry == \A r \in Requests : req[r].op # "expire"

LEMMA NoExpiryNext ==
  ASSUME "expire" \notin Ops, TypeOK, NoExpiry, [Next]_vars
  PROVE  NoExpiry'
<1> SUFFICES ASSUME NEW s \in Requests PROVE req'[s].op # "expire"
  BY DEF NoExpiry
<1>0. req[s] \in RequestTypes /\ req[s].op # "expire"
  BY DEF NoExpiry, TypeOK
<1>1. ASSUME NEW r \in Requests, EndRequest(r) PROVE req'[s].op # "expire"
  BY <1>0, <1>1, EndRequestFacts, IdleType
<1>2. ASSUME NEW r \in Requests, NEW pc \in PCs, Goto(r, pc) PROVE req'[s].op # "expire"
  BY <1>0, <1>2, GotoFacts
<1>3. ASSUME NEW r \in Requests, Step(r) PROVE req'[s].op # "expire"
  <2>1. CASE ReadSubscription(r)
    <3>1. req'[s].op = req[s].op
      BY <2>1 DEF ReadSubscription, TypeOK, RequestTypes
    <3> QED
      BY <1>0, <3>1
  <2>2. AfterUserLock(r) \in PCs /\ {"create", "claim", "lockUser", "apply", "markExpired"} \subseteq PCs
    BY DEF AfterUserLock, PCs
  <2>3. EndRequest(r) \/ ReadSubscription(r) \/ \E pc \in PCs : Goto(r, pc)
    <3>1. CASE UpsertPendingPayment(r) \/ PersistUnsuccessfulPayment(r) \/ ApplyPayment(r)
               \/ CancelSubscription(r) \/ ExpireSubscription(r) \/ Reconcile(r) \/ GrantPremium(r)
               \/ RevokePremium(r)
      BY <3>1 DEF UpsertPendingPayment, PersistUnsuccessfulPayment, ApplyPayment,
         CancelSubscription, ExpireSubscription, Reconcile, GrantPremium, RevokePremium
    <3>2. CASE FindPayment(r) \/ CreatePayment(r) \/ ClaimPayment(r) \/ RecheckDue(r)
      BY <2>2, <3>2 DEF FindPayment, CreatePayment, ClaimPayment, RecheckDue
    <3>3. CASE GetLockedUser(r) \/ LockSubscription(r) \/ MarkExpired(r)
      BY <2>2, <3>3 DEF GetLockedUser, LockSubscription, MarkExpired
    <3> QED
      BY <1>3, <3>1, <3>2, <3>3 DEF Step
  <2> QED
    BY <1>1, <1>2, <2>1, <2>3
<1>4. ASSUME NEW r \in Requests, Arrival(r) PROVE req'[s].op # "expire"
  <2>1. ASSUME NEW p \in Payments, InitiateSubscription(r, p) PROVE req'[s].op # "expire"
    BY <1>0, <2>1 DEF InitiateSubscription, TypeOK, RequestTypes
  <2>2. ASSUME NEW p \in Payments, VerifyTransaction(r, p) PROVE req'[s].op # "expire"
    BY <1>0, <2>2 DEF VerifyTransaction, TypeOK
  <2>3. ASSUME NEW op \in Ops, NEW pc \in PCs, Starts(r, op, pc) PROVE req'[s].op # "expire"
    <3>1. op \in AllOps /\ req' = [req EXCEPT ![r].op = op, ![r].pc = pc]
      BY <2>3 DEF Starts
    <3>2. req'[r].op = op /\ \A q \in Requests \ {r} : req'[q] = req[q]
      BY <3>1, StartsFacts
    <3> QED
      BY <1>0, <3>2
  <2>4. {"cancel", "recheck", "lockUser"} \subseteq PCs
    BY DEF PCs
  <2>5. ASSUME NEW op, NEW pc \in PCs, Starts(r, op, pc) PROVE req'[s].op # "expire"
    BY <2>3, <2>5 DEF Starts
  <2> QED
    BY <1>4, <2>1, <2>2, <2>4, <2>5 DEF Arrival, RequestCancel, FindDue, RequestReconcile
<1>5. ASSUME NEW r \in Requests, AbortRequest(r) \/ BreakDeadlock(r) PROVE req'[s].op # "expire"
  BY <1>1, <1>5 DEF AbortRequest, BreakDeadlock, Rollback
<1>6. CASE Environment \/ UNCHANGED vars
  BY <1>0, <1>6 DEF Environment, Pay, Reverse, Tick, vars
<1> QED
  BY <1>3, <1>4, <1>5, <1>6 DEF Next

\* Time passing, or what is over expiring, opens no gap.
LEMMA NoGapExpire ==
  ASSUME NEW s \in Subscribed, NEW es \in SUBSET Entitlements, NEW t \in Nat, NEW u \in Nat,
         t <= u, NoGap(s, es, t)
  PROVE  NoGap(ExpireSub(s, u), ExpireEnts(es, u), u)
<1> DEFINE X(e) == IF e.status = "ACTIVE" /\ e.end <= u THEN [e EXCEPT !.status = "EXPIRED"] ELSE e
<1>0. ExpireEnts(es, u) = {X(e) : e \in es}
  BY DEF ExpireEnts
<1>1. SUFFICES ASSUME NEW d \in ExpireEnts(es, u), d.status = "ACTIVE", d.start > u
      PROVE  \E v \in ExpireEnts(es, u) \cup ({ExpireSub(s, u)} \ {NoSub}) :
                v.status = "ACTIVE" /\ v.start < d.start /\ d.start <= v.end
  BY DEF NoGap
<1>2. \A e \in es : X(e).status = "ACTIVE" => X(e) = e
  BY DEF Entitlements
<1>3. d \in es
  <2> HIDE DEF X
  <2> QED
    BY <1>0, <1>1, <1>2
<1>4. d.start \in Nat
  BY <1>3 DEF Entitlements
<1>5. PICK v \in es \cup ({s} \ {NoSub}) :
        v.status = "ACTIVE" /\ v.start < d.start /\ d.start <= v.end
  BY <1>1, <1>3, <1>4 DEF NoGap
<1>6. v.end \in Nat
  BY DEF Entitlements, Subscribed, SubscriptionRows
<1>7. v.end > u
  BY <1>1, <1>4, <1>5, <1>6
<1>8. CASE v \in es
  <2>1. X(v) = v
    BY <1>6, <1>7
  <2>2. v \in ExpireEnts(es, u)
    <3> HIDE DEF X
    <3> QED
      BY <1>0, <1>8, <2>1
  <2> QED
    BY <1>5, <2>2
<1>9. CASE v = s /\ s # NoSub
  <2>1. ExpireSub(s, u) = s
    BY <1>6, <1>7, <1>9 DEF ExpireSub, Due
  <2> QED
    BY <1>5, <1>9, <2>1
<1> QED
  BY <1>8, <1>9

\* Without gaps, whoever is covered later was covered before.
LEMMA CoveredBefore ==
  ASSUME NEW s \in Subscribed, NEW es \in SUBSET Entitlements, NEW t \in Nat, NEW u \in Nat,
         t <= u, NoGap(s, es, t), PeriodOK(s, t), ActiveWindows(s, es, u) # {}
  PROVE  ActiveWindows(s, es, t) # {}
<1> DEFINE live == {x \in Sources(s, es) : x.status = "ACTIVE" /\ x.end > t}
           starts == {x.start : x \in live}
<1>0. \A x \in Sources(s, es) : x.start \in Nat /\ x.end \in Nat
  BY DEF Sources, Entitlements, Subscribed, SubscriptionRows
<1>1. starts # {}
  <2>1. PICK w \in Windows(s, es, u) : w.from <= u
    BY DEF ActiveWindows
  <2>2. PICK x \in Sources(s, es) : x.status = "ACTIVE" /\ x.end > u
    BY WindowSource DEF Sources
  <2> QED
    BY <1>0, <2>2
<1>2. starts \in SUBSET Nat
  BY <1>0
<1>3. PICK m \in starts : \A n \in starts : m <= n
  <2> HIDE DEF starts
  <2> QED
    BY <1>1, <1>2, NatMin
<1>4. PICK x \in live : x.start = m
  OBVIOUS
<1>5. x.start <= t
  <2> SUFFICES ASSUME x.start > t PROVE FALSE
    BY <1>0
  <2>1. x \in es
    BY <1>0 DEF PeriodOK, Sources
  <2>2. PICK v \in Sources(s, es) : v.status = "ACTIVE" /\ v.start < x.start /\ x.start <= v.end
    BY <2>1 DEF NoGap, Sources
  <2>3. v \in live
    BY <1>0, <2>2
  <2> QED
    BY <1>0, <1>3, <1>4, <2>2, <2>3
<1>6. [from |-> x.start, to |-> x.end] \in Windows(s, es, t)
  BY <1>4, WindowSource DEF Sources
<1> QED
  BY <1>5, <1>6 DEF ActiveWindows

LEMMA CoverReconciled ==
  ASSUME Inv, now' = now, NEW s \in Subscribed, NEW es \in SUBSET Entitlements, GrantsOK(es),
         PeriodOK(s, now), NoGap(s, es, now), Reconciled(s, es)
  PROVE  CoverInv'
<1>1. now \in Nat /\ now <= now
  BY DEF Inv, TypeOK
<1>2. NoGap(sub', ents', now)
  BY <1>1, NoGapExpire DEF Reconciled
<1>3. PeriodOK(sub', now) /\ user' = Projection(sub', ents', now)
  BY <1>1, ReconciledFacts
<1> QED
  BY <1>1, <1>2, <1>3 DEF CoverInv

LEMMA NoGapNow ==
  ASSUME Inv, CoverInv
  PROVE  NoGap(sub, ents, now)
<1>1. PICK t \in 0..now : NoGap(sub, ents, t)
  BY DEF CoverInv
<1>2. \A e \in ents : e.start > now => e.start > t
  BY DEF Inv, TypeOK, Entitlements
<1> QED
  BY <1>1, <1>2 DEF NoGap

\* A grant starts where a window ends that began before.
LEMMA NoGapGrant ==
  ASSUME Inv, CoverInv,
         NEW from, from = GrantStart(ExpireSub(sub, now), ExpireEnts(ents, now)),
         NEW to \in Nat
  PROVE  NoGap(sub, ents \cup {[start |-> from, end |-> to, status |-> "ACTIVE"]}, now)
<1> DEFINE new == [start |-> from, end |-> to, status |-> "ACTIVE"]
           s == ExpireSub(sub, now)
           es == ExpireEnts(ents, now)
           cover == Projection(s, es, now)
<1>0. /\ now \in Nat /\ sub \in Subscribed /\ ents \in SUBSET Entitlements
      /\ s \in Subscribed /\ es \in SUBSET Entitlements /\ GrantsOK(es) /\ GrantsOK(ents)
      /\ PeriodOK(s, now) /\ NoGap(sub, ents, now)
  <2>1. now \in Nat /\ sub \in Subscribed /\ ents \in SUBSET Entitlements
    BY DEF Inv, TypeOK, Subscribed
  <2> QED
    BY <2>1, ExpireFacts, NoGapNow DEF Inv
<1>1. SUFFICES ASSUME NEW e \in ents \cup {new}, e.status = "ACTIVE", e.start > now
      PROVE  \E v \in (ents \cup {new}) \cup ({sub} \ {NoSub}) :
                v.status = "ACTIVE" /\ v.start < e.start /\ e.start <= v.end
  BY DEF NoGap
<1>2. CASE e \in ents
  BY <1>0, <1>1, <1>2 DEF NoGap
<1>3. CASE e = new
  <2>1. e.start = from /\ from > now
    BY <1>1, <1>3
  <2>2. from = IF cover.isPremium THEN cover.end ELSE now
    BY DEF GrantStart
  <2>3. cover.isPremium /\ from = cover.end
    BY <1>0, <2>1, <2>2
  <2>4. ActiveWindows(s, es, now) # {} /\ from = EffectiveEnd(s, es, now)
    BY <2>3 DEF Projection
  <2>5. PICK w \in Windows(s, es, now) : w.to = from
    BY <1>0, <2>4, EffectiveEndLeast
  <2>6. PICK v \in Sources(s, es) : v.status = "ACTIVE" /\ v.end > now /\ v.end = from
    BY <2>5, WindowSource DEF Sources
  <2>7. v.start < v.end
    BY <1>0, <2>6 DEF Sources, GrantsOK, PeriodOK
  <2>8. v \in Sources(sub, ents)
    <3>1. CASE v \in es
      <4> DEFINE X(d) == IF d.status = "ACTIVE" /\ d.end <= now
                         THEN [d EXCEPT !.status = "EXPIRED"] ELSE d
      <4>1. PICK d \in ents : v = X(d)
        BY <3>1 DEF ExpireEnts
      <4>2. v = d
        BY <1>0, <2>6, <4>1 DEF Entitlements
      <4> QED
        BY <4>2 DEF Sources
    <3>2. CASE v = s /\ s # NoSub
      <4>1. s = sub
        BY <1>0, <2>6, <3>2 DEF ExpireSub, Due, Subscribed, SubscriptionRows
      <4> QED
        BY <3>2, <4>1 DEF Sources
    <3> QED
      BY <2>6, <3>1, <3>2 DEF Sources
  <2>9. v.start < e.start /\ e.start <= v.end
    <3>1. v.end \in Nat
      BY <1>0, <2>6 DEF Sources, Entitlements, Subscribed, SubscriptionRows
    <3> QED
      BY <2>1, <2>6, <2>7, <3>1
  <2> QED
    BY <2>6, <2>8, <2>9 DEF Sources
<1> QED
  BY <1>2, <1>3

LEMMA CoverApply == ASSUME Inv, CoverInv, NEW r \in Requests, ApplyPayment(r) PROVE CoverInv'
<1> DEFINE paid == req[r].paidAt
           s == req[r].seen
           x == Extend(s, paid, req[r].payment \in Renewing)
<1>1. /\ SamePeriod(s, sub) /\ paid \in 0..now /\ x \in SubscriptionRows /\ x # NoSub
      /\ IF IsExtension(s, paid)
         THEN sub # NoSub /\ x.start = sub.start /\ x.end = sub.end + Duration
         ELSE x.start = paid /\ x.end = paid + Duration
  BY ApplyFacts
<1>2. x.status = "ACTIVE"
  BY DEF Extend, Subscription
<1>3. Reconciled(x, ents) /\ now' = now
  BY DEF ApplyPayment, provider
<1>4. sub # NoSub /\ sub.status = "ACTIVE" /\ sub.end > now => IsExtension(s, paid)
  BY ExtendsCurrent
<1> HIDE DEF x, s, paid
<1>5. now \in Nat /\ ents \in SUBSET Entitlements /\ x \in Subscribed
      /\ (sub # NoSub => sub.start \in Nat /\ sub.end \in Nat)
      /\ x.start \in Nat /\ x.end \in Nat
  BY <1>1 DEF Inv, TypeOK, SubscriptionRows, Subscribed
<1>6. PeriodOK(x, now)
  BY <1>1, <1>5 DEF PeriodOK, Inv
<1>7. NoGap(x, ents, now)
  <2> SUFFICES ASSUME NEW e \in ents, e.status = "ACTIVE", e.start > now
               PROVE  \E v \in ents \cup ({x} \ {NoSub}) :
                          v.status = "ACTIVE" /\ v.start < e.start /\ e.start <= v.end
    BY DEF NoGap
  <2>0. e.start \in Nat
    BY <1>5 DEF Entitlements
  <2>1. PICK v \in ents \cup ({sub} \ {NoSub}) :
          v.status = "ACTIVE" /\ v.start < e.start /\ e.start <= v.end
    BY NoGapNow DEF NoGap
  <2>2. CASE v \in ents
    BY <2>1, <2>2
  <2>3. CASE v = sub /\ sub # NoSub
    <3>1. sub.end > now
      BY <1>5, <2>0, <2>1, <2>3
    <3>2. IsExtension(s, paid)
      BY <1>4, <2>1, <2>3, <3>1
    <3>3. x.start < e.start /\ e.start <= x.end
      BY <1>1, <1>5, <2>0, <2>1, <2>3, <3>2
    <3> QED
      BY <1>1, <1>2, <3>3
  <2> QED
    BY <2>2, <2>3
<1> QED
  BY <1>3, <1>5, <1>6, <1>7, CoverReconciled DEF Inv

LEMMA CoverCancel == ASSUME Inv, CoverInv, NEW r \in Requests, CancelSubscription(r) PROVE CoverInv'
<1>1. sub \in SubscriptionRows /\ sub' \in SubscriptionRows /\ SamePeriod(sub, sub')
  BY CancelFacts
<1>2. sub # NoSub /\ sub' # NoSub /\ sub \in Subscribed /\ sub' \in Subscribed
  BY <1>1 DEF Subscribed
<1>3. UNCHANGED <<now, ents, user>>
  BY DEF CancelSubscription, provider
<1>4. PICK t \in 0..now :
        user = Projection(sub, ents, t) /\ NoGap(sub, ents, t) /\ PeriodOK(sub, t)
  BY DEF CoverInv
<1>5. Projection(sub', ents, t) = Projection(sub, ents, t)
  BY <1>1, <1>2, SamePeriodWindows
<1>6. PeriodOK(sub', t)
  BY <1>1, <1>2, <1>4 DEF PeriodOK, SamePeriod
<1>7. NoGap(sub', ents, t)
  <2> SUFFICES ASSUME NEW e \in ents, e.status = "ACTIVE", e.start > t
               PROVE  \E v \in ents \cup ({sub'} \ {NoSub}) :
                          v.status = "ACTIVE" /\ v.start < e.start /\ e.start <= v.end
    BY DEF NoGap
  <2>1. PICK v \in ents \cup ({sub} \ {NoSub}) :
          v.status = "ACTIVE" /\ v.start < e.start /\ e.start <= v.end
    BY <1>4 DEF NoGap
  <2> QED
    BY <1>1, <1>2, <2>1 DEF SamePeriod
<1> QED
  BY <1>3, <1>4, <1>5, <1>6, <1>7 DEF CoverInv

LEMMA CoverNext ==
  ASSUME Inv, CoverInv, NoExpiry, [Next]_vars
  PROVE  CoverInv'
<1>0. /\ now \in Nat /\ sub \in Subscribed /\ ents \in SUBSET Entitlements
      /\ GrantsOK(ents) /\ PeriodOK(sub, now) /\ NoGap(sub, ents, now)
  BY NoGapNow DEF Inv, TypeOK, Subscribed
<1>1. ASSUME UNCHANGED <<sub, ents, user>>, now' \in Nat, now <= now' PROVE CoverInv'
  <2>1. 0..now \subseteq 0..now'
    BY <1>0, <1>1
  <2> QED
    BY <1>1, <2>1 DEF CoverInv
<1>2. ASSUME NEW r \in Requests, Reconcile(r) PROVE CoverInv'
  BY <1>0, <1>2, CoverReconciled DEF Reconcile, provider
<1>3. ASSUME NEW r \in Requests, GrantPremium(r) PROVE CoverInv'
  <2> DEFINE from == GrantStart(ExpireSub(sub, now), ExpireEnts(ents, now))
             e == [start |-> from, end |-> from + GrantDays, status |-> "ACTIVE"]
             es == ents \cup {e}
  <2>1. from \in Nat
    BY GrantStartType
  <2>2. NoGap(sub, es, now)
    <3> HIDE DEF from
    <3>1. from = GrantStart(ExpireSub(sub, now), ExpireEnts(ents, now)) /\ from + GrantDays \in Nat
      BY <2>1 DEF from
    <3> QED
      BY <3>1, NoGapGrant
  <2>3. e \in Entitlements /\ e.start < e.end /\ e.end \in Nat
    <3> HIDE DEF from
    <3> QED
      BY <2>1 DEF Entitlements
  <2>4. Reconciled(sub, es) /\ now' = now
    BY <1>3 DEF GrantPremium, provider
  <2> HIDE DEF e
  <2>5. es \in SUBSET Entitlements /\ GrantsOK(es)
    <3>1. PICK b \in Nat : \A x \in ents : x.end <= b
      BY <1>0 DEF GrantsOK
    <3>2. \A x \in es : x.end <= b + e.end /\ x.start < x.end
      BY <1>0, <2>3, <3>1 DEF Entitlements, GrantsOK
    <3>3. b + e.end \in Nat
      BY <2>3
    <3>4. es \in SUBSET Entitlements
      BY <1>0, <2>3
    <3> HIDE DEF es
    <3> QED
      BY <3>2, <3>3, <3>4 DEF GrantsOK
  <2> HIDE DEF es
  <2> QED
    BY <1>0, <2>2, <2>4, <2>5, CoverReconciled
<1>4. ASSUME NEW r \in Requests, RevokePremium(r) PROVE CoverInv'
  <2> DEFINE es == Revoked(ExpireEnts(ents, now))
  <2>1. CASE UNCHANGED <<sub, ents, user>>
    BY <1>0, <1>1, <1>4, <2>1 DEF RevokePremium, provider
  <2>2. CASE Reconciled(sub, es)
    <3>1. es \in SUBSET Entitlements /\ GrantsOK(es)
      BY GrantStartType, RevokedFacts
    <3>2. \A e \in es : e.status # "ACTIVE"
      <4>1. ExpireEnts(ents, now) \in SUBSET Entitlements
        BY GrantStartType
      <4> QED
        BY <4>1 DEF Revoked, Entitlements
    <3>3. NoGap(sub, es, now)
      BY <3>2 DEF NoGap
    <3>4. now' = now
      BY <1>4 DEF RevokePremium, provider
    <3> HIDE DEF es
    <3> QED
      BY <1>0, <2>2, <3>1, <3>3, <3>4, CoverReconciled
  <2> QED
    BY <1>4, <2>1, <2>2 DEF RevokePremium
<1>5. ASSUME NEW r \in Requests, Step(r) PROVE CoverInv'
  <2>1. ~ExpireSubscription(r)
    BY DEF ExpireSubscription, NoExpiry
  <2>2. \/ UNCHANGED <<now, sub, ents, user>> \/ ApplyPayment(r) \/ CancelSubscription(r)
        \/ Reconcile(r) \/ GrantPremium(r) \/ RevokePremium(r)
    BY <1>5, <2>1 DEF Step, UpsertPendingPayment, PersistUnsuccessfulPayment, FindPayment,
       CreatePayment, ClaimPayment, GetLockedUser, ReadSubscription, LockSubscription,
       RecheckDue, MarkExpired, rows, provider
  <2> QED
    BY <1>0, <1>1, <1>2, <1>3, <1>4, <2>2, CoverApply, CoverCancel
<1>6. ASSUME NEW r \in Requests, Arrival(r) \/ AbortRequest(r) \/ BreakDeadlock(r) PROVE CoverInv'
  <2>1. UNCHANGED <<now, sub, ents, user>>
    BY <1>6 DEF Arrival, InitiateSubscription, VerifyTransaction, RequestCancel, FindDue,
       RequestReconcile, AbortRequest, BreakDeadlock, Rollback, rows, provider
  <2> QED
    BY <1>0, <1>1, <2>1
<1>7. CASE Environment \/ UNCHANGED vars
  <2>1. UNCHANGED <<sub, ents, user>> /\ now' \in Nat /\ now <= now'
    BY <1>0, <1>7 DEF Environment, Pay, Reverse, Tick, rows, provider, vars
  <2> QED
    BY <1>1, <2>1
<1> QED
  BY <1>5, <1>6, <1>7 DEF Next

\* Without the expiry job, whoever a subscription or an entitlement covers has
\* the premium flag, also before the next reconciliation: a grant that is still
\* to start leaves no gap (createPremiumEntitlementMutation, premium-coverage.ts).
THEOREM CoverIsPremium == ASSUME "expire" \notin Ops PROVE Spec => []CoveredIsPremium
<1>1. Init => NoExpiry /\ CoverInv
  <2>1. Init => NoExpiry
    BY IdleType DEF Init, NoExpiry
  <2>2. ActiveWindows(NoSub, {}, 0) = {}
    BY DEF ActiveWindows, Windows
  <2> QED
    BY <2>1, <2>2 DEF Init, CoverInv, Projection, NoGap, PeriodOK
<1>2. Inv /\ NoExpiry /\ CoverInv /\ [Next]_vars => NoExpiry' /\ CoverInv'
  BY NoExpiryNext, CoverNext DEF Inv
<1>3. Inv /\ CoverInv => CoveredIsPremium
  <2> SUFFICES ASSUME Inv, CoverInv, Covered PROVE user.isPremium
    BY DEF CoveredIsPremium
  <2>1. PICK t \in 0..now :
          user = Projection(sub, ents, t) /\ NoGap(sub, ents, t) /\ PeriodOK(sub, t)
    BY DEF CoverInv
  <2>2. ActiveWindows(sub, ents, t) # {}
    BY <2>1, CoveredBefore DEF Inv, TypeOK, Subscribed, Covered
  <2> QED
    BY <2>1, <2>2 DEF Projection
<1> QED
  BY <1>1, <1>2, <1>3, InvHolds, PTL DEF Spec
=============================================================================

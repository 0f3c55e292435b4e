--------------------------- MODULE AuthSessions ---------------------------
(***************************************************************************)
(* One person's account: registration, sign-in, the sessions and refresh   *)
(* tokens, the codes sent by e-mail, the premium devices, and what admins  *)
(* and the premium projection do to them.                                  *)
(*                                                                         *)
(* A transaction that begins by selecting the User row FOR UPDATE is one   *)
(* step: nothing it reads can change before it commits, and what it does   *)
(* to rows nobody locked commutes with its earlier statements.  A request  *)
(* that uses what it read before such a transaction, or without one, takes *)
(* a slot and several steps.  Refusals leave nothing, so a request that is *)
(* refused, or fails, simply ends (GiveUp).                                *)
(*                                                                         *)
(* isPremium and deviceAccessMode are written together and are one field.  *)
(* UserDevice.isActive and the audit log decide nothing and are left out;  *)
(* limits counted in the audit and e-mail logs may refuse at any time.     *)
(*                                                                         *)
(* An operator no action uses (RotateBlindly, ...) is a plausible mistake  *)
(* in the operator it precedes.                                            *)
(***************************************************************************)
EXTENDS Integers, Sequences, FiniteSets

CONSTANTS
    Callers,      \* slots for the requests in flight
    Devices,      \* the devices the person signs in from
    NoDevice,     \* the device of a free session
    Alike,        \* Alike[d]: devices that share a fingerprint with d
    Bound,        \* Bound[d]: devices that share a binding hash with d
    MaxDevices,   \* AUTH_CONFIG.MAX_DEVICES
    MaxOtps,      \* AUTH_CONFIG.MAX_OTP_REQUESTS_DAILY
    MaxAttempts,  \* AUTH_CONFIG.PASSWORD_RESET_MAX_VERIFY_ATTEMPTS
    MaxAccounts,  \* bound: accounts created for the e-mail address
    MaxSessions,  \* bound: sessions
    MaxVersion,   \* bound: rotations of a session's token
    MaxCodes,     \* bound: codes issued
    MaxPasswords, \* bound: passwords chosen
    MaxPolicy     \* bound: activations of premium

ASSUME DevicesAssumption ==
    /\ NoDevice \notin Devices /\ IsFiniteSet(Devices)
    /\ Alike \in [Devices -> SUBSET Devices] /\ Bound \in [Devices -> SUBSET Devices]
ASSUME LimitsAssumption == {MaxDevices, MaxOtps, MaxAttempts} \subseteq Nat \ {0}
ASSUME AuthBoundsAssumption ==
    /\ {MaxAccounts, MaxPolicy} \subseteq Nat \ {0}
    /\ {MaxSessions, MaxVersion, MaxCodes, MaxPasswords} \subseteq Nat

VARIABLES
    user,      \* the User row and the codes in it
    covered,   \* a subscription or entitlement covers the present
    sessions,  \* the UserSession rows in order of creation
    devices,   \* the UserDevice rows
    codes,     \* how many codes were issued
    spent,     \* history: how often each code was accepted
    caller     \* the requests in flight

authVars == <<user, covered, sessions, devices, codes, spent, caller>>

Code == [n: 0..MaxCodes, age: {"cooling", "live", "expired"}]
NoCode == [n |-> 0, age |-> "expired"]
Usable(code, n) == code.n = n /\ code.n # 0 /\ code.age # "expired"

NoUser(id) ==
    [id |-> id, status |-> "none", banned |-> FALSE, exempt |-> FALSE, premium |-> FALSE,
     policy |-> 0, pw |-> 0, otps |-> 0, email |-> NoCode, reset |-> NoCode, attempts |-> 0]

\* What is left to know of a session that is not active.
Ended == [active |-> FALSE, device |-> NoDevice, policy |-> 0, version |-> 0,
          pw |-> 0, aged |-> FALSE, late |-> FALSE, exempt |-> FALSE]

NoDevices == [d \in Devices |-> [status |-> "none", code |-> NoCode]]
Trusted == [status |-> "verified", code |-> NoCode]
Idle == [pc |-> "idle"]

AuthInit ==
    \E exempt, premium \in BOOLEAN, trusted \in SUBSET Devices :
        /\ user \in {NoUser(0),
                     [NoUser(1) EXCEPT !.status = "verified", !.exempt = exempt,
                                       !.premium = premium, !.policy = IF premium THEN 1 ELSE 0]}
        /\ trusted # {} => premium /\ ~exempt /\ Cardinality(trusted) <= MaxDevices
        /\ covered = user.premium
        /\ sessions = <<>>
        /\ devices = [d \in Devices |-> IF d \in trusted /\ user.premium THEN Trusted
                                                          ELSE NoDevices[d]]
        /\ codes = 0
        /\ spent = [n \in 1..MaxCodes |-> 0]
        /\ caller = [r \in Callers |-> Idle]

----------------------------------------------------------------------------
(* Sessions. *)

\* The session is one a request may use, as validateToken and refresh see it.
Valid(i) == sessions[i].active /\ sessions[i].policy = user.policy

Stale == user.premium /\ ~covered
Authorized(i) == i \in DOMAIN sessions /\ Valid(i) /\ ~user.banned /\ ~Stale

Keep(kept) == [i \in DOMAIN sessions |-> IF i \in kept THEN sessions[i] ELSE Ended]

\* It remembers whether the password was changed while it was opened, and
\* whether an admin opened it beside the others.
NewSession(d, policy, pw) ==
    [active |-> TRUE, device |-> d, policy |-> policy, version |-> 0, pw |-> pw,
     aged |-> FALSE, late |-> pw # user.pw, exempt |-> FALSE]
HasSlot == Len(sessions) < MaxSessions

Become(r, state) == caller' = [caller EXCEPT ![r] = state]
Free(r) == caller[r].pc = "idle"
At(r, pc) == caller[r].pc = pc

----------------------------------------------------------------------------
(* The premium projection: syncAuthAccessModeTx with what it is called on.  *)

SyncWithoutPolicy(premium) ==
    IF premium = user.premium THEN UNCHANGED <<user, sessions, devices>>
    ELSE /\ user' = [user EXCEPT !.premium = premium, !.otps = 0]
         /\ devices' = NoDevices
         /\ IF premium THEN sessions' = Keep({}) ELSE UNCHANGED sessions

SyncAccessMode(premium) ==
    IF premium = user.premium THEN UNCHANGED <<user, sessions, devices>>
    ELSE /\ user' = [user EXCEPT !.premium = premium, !.otps = 0,
                                 !.policy = IF premium THEN @ + 1 ELSE @]
         /\ devices' = NoDevices
         /\ IF premium THEN sessions' = Keep({}) ELSE UNCHANGED sessions

\* A payment or a grant takes effect.
GainCover ==
    /\ user.status # "none" /\ ~covered /\ user.policy < MaxPolicy
    /\ covered' = TRUE
    /\ SyncAccessMode(TRUE)
    /\ UNCHANGED <<codes, spent, caller>>

\* The last window ends; the columns of the user do not know yet.
LoseCover ==
    /\ covered /\ covered' = FALSE
    /\ UNCHANGED <<user, sessions, devices, codes, spent, caller>>

\* Whoever meets the stale columns reconciles them: a sign-in, a refresh, a
\* request's validation, the expiry job.
Reconcile ==
    /\ Stale
    /\ SyncAccessMode(covered)
    /\ UNCHANGED <<covered, codes, spent, caller>>

----------------------------------------------------------------------------
(* Codes by e-mail. *)

Fresh(age) == [n |-> codes + 1, age |-> age]
MayIssue == codes < MaxCodes /\ codes' = codes + 1

\* consumeOtpQuotaTx; a new day has set the count back (NewDay).
HasQuota == user.otps < MaxOtps

\* While the last code cools down the request succeeds and changes nothing.
IssueEmailCode ==
    /\ user.email.n = 0 \/ user.email.age # "cooling"
    /\ HasQuota /\ MayIssue
    /\ user' = [user EXCEPT !.otps = @ + 1, !.email = Fresh("cooling")]
    /\ UNCHANGED <<covered, sessions, devices, spent, caller>>

RegisterAgain == user.status = "unverified" /\ IssueEmailCode
LoginUnverified == user.status = "unverified" /\ ~user.banned /\ IssueEmailCode
ResendVerification == user.status = "unverified" /\ ~user.banned /\ IssueEmailCode

Accept(n) == spent' = [spent EXCEPT ![n] = @ + 1]

VerifyEmail(n) ==
    /\ user.status = "unverified" /\ ~user.banned /\ Usable(user.email, n) /\ HasSlot
    /\ user' = [user EXCEPT !.status = "verified", !.email = NoCode, !.otps = 0]
    /\ sessions' = Append(sessions, NewSession(NoDevice, user.policy, user.pw))
    /\ Accept(n)
    /\ UNCHANGED <<covered, devices, codes, caller>>

\* forgotPassword; resendResetPasswordOtp wants a reset that is pending.
PendingReset == user.reset.n # 0 /\ user.reset.age # "expired"
IssueResetCode ==
    /\ user.status = "verified"
    /\ ~(PendingReset /\ user.reset.age = "cooling")
    /\ MayIssue
    /\ user' = [user EXCEPT !.reset = Fresh("cooling"), !.attempts = 0]
    /\ UNCHANGED <<covered, sessions, devices, spent, caller>>
ForgotPassword == IssueResetCode
ResendReset == PendingReset /\ IssueResetCode

\* The user after a wrong code: the last attempt takes the code away.
AfterWrongCode ==
    IF user.attempts + 1 >= MaxAttempts
    THEN [user EXCEPT !.attempts = 0, !.reset = NoCode]
    ELSE [user EXCEPT !.attempts = @ + 1]

ResetFails ==
    /\ user.status = "verified" /\ PendingReset
    /\ user' = AfterWrongCode
    /\ UNCHANGED <<covered, sessions, devices, codes, spent, caller>>

ResetKeepsSessions == sessions
SessionsAfterReset == Keep({})

ResetKeepsCode == [user EXCEPT !.pw = @ + 1, !.attempts = 0, !.otps = 0]
UserAfterReset == [user EXCEPT !.pw = @ + 1, !.reset = NoCode, !.attempts = 0, !.otps = 0]

ResetPassword(n) ==
    /\ user.status = "verified" /\ Usable(user.reset, n) /\ user.pw < MaxPasswords
    /\ user' = UserAfterReset
    /\ sessions' = SessionsAfterReset
    /\ Accept(n)
    /\ UNCHANGED <<covered, devices, codes, caller>>

\* A code leaves its cooldown, or expires.
Older(code) == [code EXCEPT !.age = IF @ = "cooling" THEN "live" ELSE "expired"]
AgeCode ==
    /\ \/ user.email.age # "expired" /\ user' = [user EXCEPT !.email = Older(@)] /\ UNCHANGED devices
       \/ user.reset.age # "expired" /\ user' = [user EXCEPT !.reset = Older(@)] /\ UNCHANGED devices
       \/ \E d \in Devices :
            /\ devices[d].code.age # "expired"
            /\ devices' = [devices EXCEPT ![d].code = Older(@)]
            /\ UNCHANGED user
    /\ UNCHANGED <<covered, sessions, codes, spent, caller>>

NewDay ==
    /\ user.otps > 0
    /\ user' = [user EXCEPT !.otps = 0]
    /\ UNCHANGED <<covered, sessions, devices, codes, spent, caller>>

----------------------------------------------------------------------------
(* Registration of an address nobody has registered. *)

StartRegister(r) ==
    /\ Free(r) /\ user.status = "none"
    /\ Become(r, [pc |-> "register"])
    /\ UNCHANGED <<user, covered, sessions, devices, codes, spent>>

\* A second one meets the unique e-mail address and is refused.
RegisterFresh(r) ==
    /\ At(r, "register") /\ user.status = "none" /\ user.id < MaxAccounts /\ MayIssue
    /\ user' = [NoUser(user.id + 1) EXCEPT !.status = "unverified", !.otps = 1,
                                           !.email = Fresh("cooling")]
    /\ Become(r, [pc |-> "deliver", id |-> user.id + 1])
    /\ UNCHANGED <<covered, sessions, devices, spent>>

Gone == /\ user' = NoUser(user.id)
        /\ covered' = FALSE
        /\ sessions' = Keep({})
        /\ devices' = NoDevices

\* A registration whose code could not be sent is taken back, if it is still
\* not verified.
DeliverCode(r) ==
    /\ At(r, "deliver") /\ Become(r, Idle)
    /\ \/ UNCHANGED <<user, covered, sessions, devices>>
       \/ user.id = caller[r].id /\ user.status = "unverified" /\ Gone
    /\ UNCHANGED <<codes, spent>>

----------------------------------------------------------------------------
(* Sign-in. *)

\* The password is checked against the row as it is now.
StartLogin(r, d) ==
    /\ Free(r) /\ user.status = "verified" /\ ~user.banned
    /\ Become(r, IF user.premium
                 THEN [pc |-> "managed", id |-> user.id, pw |-> user.pw, device |-> d]
                 ELSE [pc |-> "free", id |-> user.id, pw |-> user.pw, policy |-> user.policy])
    /\ UNCHANGED <<user, covered, sessions, devices, codes, spent>>

CreateFreeSession(r) ==
    /\ At(r, "free") /\ user.id = caller[r].id /\ user.status # "none" /\ HasSlot
    /\ sessions' = Append(sessions, NewSession(NoDevice, caller[r].policy, caller[r].pw))
    /\ Become(r, Idle)
    /\ UNCHANGED <<user, covered, devices, codes, spent>>

\* The rows a search may come upon: verified ones first.
Found(ds) ==
    LET rows(status) == {e \in ds : devices[e].status = status} IN
    IF rows("verified") # {} THEN rows("verified") ELSE rows("pending")

\* The row of a device: its own, else one with the same fingerprint, else one
\* with the same binding hash.
Known(d) ==
    CASE devices[d].status # "none" -> {d}
      [] devices[d].status = "none" /\ Found(Alike[d]) # {} -> Found(Alike[d])
      [] OTHER -> Found(Bound[d])

Verified == {d \in Devices : devices[d].status = "verified"}
HasRoom == Cardinality(Verified) < MaxDevices

\* A removal that has not committed holds the sessions it ends.
Held == UNION {caller[r].held : r \in {s \in Callers : At(s, "remove")}}

CompleteLogin(e, rows, pw) ==
    /\ HasSlot
    /\ \A i \in Held : ~sessions[i].active
    /\ devices' = [rows EXCEPT ![e] = Trusted]
    /\ sessions' = Append(Keep({}), NewSession(e, user.policy, pw))

\* The other unverified devices are forgotten.
OnlyPending(e) == [d \in Devices |-> IF d # e /\ devices[d].status = "pending"
                                     THEN NoDevices[d] ELSE devices[d]]

\* The part of a managed sign-in that follows the reconciliation.
LoginManaged(r) ==
    LET d == caller[r].device
        pw == caller[r].pw IN
    /\ At(r, "managed") /\ user.id = caller[r].id /\ user.status = "verified"
    /\ ~user.banned /\ ~Stale
    /\ \/ /\ ~user.premium /\ HasSlot
          /\ sessions' = Append(sessions, NewSession(NoDevice, user.policy, pw))
          /\ UNCHANGED <<user, devices, codes>>
       \/ /\ user.premium /\ user.exempt /\ HasSlot
          /\ sessions' = Append(sessions,
                                [NewSession(d, user.policy, pw) EXCEPT !.exempt = TRUE])
          /\ UNCHANGED <<user, devices, codes>>
       \/ \E e \in Known(d) :
            /\ user.premium /\ ~user.exempt /\ devices[e].status = "verified"
            /\ CompleteLogin(e, devices, pw)
            /\ UNCHANGED <<user, codes>>
       \/ \E e \in IF Known(d) = {} THEN {d} ELSE Known(d) :
            /\ user.premium /\ ~user.exempt /\ devices[e].status # "verified"
            /\ \/ /\ Verified = {}
                  /\ CompleteLogin(e, OnlyPending(e), pw)
                  /\ UNCHANGED <<user, codes>>
               \/ /\ Verified # {} /\ (HasRoom \/ Known(d) # {})
                  /\ HasQuota /\ MayIssue
                  /\ user' = [user EXCEPT !.otps = @ + 1]
                  /\ devices' = [OnlyPending(e) EXCEPT
                                    ![e] = [status |-> "pending", code |-> Fresh("live")]]
                  /\ UNCHANGED sessions
    /\ Become(r, Idle)
    /\ UNCHANGED <<covered, spent>>

VerifyDevice(d, n) ==
    /\ user.status = "verified" /\ ~user.banned /\ ~Stale /\ user.premium
    /\ \E e \in Known(d) :
        /\ devices[e].status = "pending" /\ Usable(devices[e].code, n) /\ HasRoom
        /\ CompleteLogin(e, devices, user.pw)
    /\ Accept(n)
    /\ UNCHANGED <<user, covered, codes, caller>>

----------------------------------------------------------------------------
(* Refresh tokens.  A token names its session and the version it was issued *)
(* with; a client may come with any token it ever got.                      *)

EndSession(i) == sessions' = [sessions EXCEPT ![i] = Ended]

\* The refusals that end the session.
RefreshRevokes(i) ==
    /\ sessions[i].active /\ ~user.banned /\ ~Stale
    /\ sessions[i].policy # user.policy \/ sessions[i].aged
    /\ EndSession(i)
    /\ UNCHANGED <<user, covered, devices, codes, spent, caller>>

\* decideRefreshTokenRotation
Decision(version, v) ==
    CASE v = version -> "rotate"
      [] v = version - 1 -> "answered"
      [] OTHER -> "rejected"

StartRefresh(r, i, v) ==
    /\ Free(r) /\ Authorized(i) /\ ~sessions[i].aged /\ v <= sessions[i].version
    /\ LET decision == Decision(sessions[i].version, v) IN
       Become(r, [pc |-> decision, session |-> i, asked |-> v,
                  version |-> IF decision = "answered" THEN sessions[i].version ELSE v])
    /\ UNCHANGED <<user, covered, sessions, devices, codes, spent>>

RotateBlindly(i, v) == sessions[i].active
MayRotate(i, v) == sessions[i].active /\ sessions[i].version = v

Rotate(r) ==
    LET i == caller[r].session
        v == caller[r].asked IN
    /\ At(r, "rotate") /\ sessions[i].version < MaxVersion
    /\ IF MayRotate(i, v)
       THEN /\ sessions' = [sessions EXCEPT ![i].version = @ + 1]
            /\ Become(r, [caller[r] EXCEPT !.pc = "answered", !.version = v + 1])
       ELSE /\ Become(r, [caller[r] EXCEPT !.pc = "recheck"])
            /\ UNCHANGED sessions
    /\ UNCHANGED <<user, covered, devices, codes, spent>>

\* Another request may have rotated the same token just before.
Recheck(r) ==
    LET i == caller[r].session
        v == caller[r].asked IN
    /\ At(r, "recheck")
    /\ IF Valid(i) /\ ~user.banned /\ v = sessions[i].version - 1
       THEN Become(r, [caller[r] EXCEPT !.pc = "answered", !.version = sessions[i].version])
       ELSE Become(r, [caller[r] EXCEPT !.pc = "rejected"])
    /\ UNCHANGED <<user, covered, sessions, devices, codes, spent>>

FinishRefresh(r) ==
    /\ caller[r].pc \in {"answered", "rejected"} /\ Become(r, Idle)
    /\ UNCHANGED <<user, covered, sessions, devices, codes, spent>>

AgeSession(i) ==
    /\ sessions[i].active /\ ~sessions[i].aged
    /\ sessions' = [sessions EXCEPT ![i].aged = TRUE]
    /\ UNCHANGED <<user, covered, devices, codes, spent, caller>>

Logout(i) ==
    /\ Authorized(i) /\ EndSession(i)
    /\ UNCHANGED <<user, covered, devices, codes, spent, caller>>

----------------------------------------------------------------------------
(* Password changes, the account's end, and admins. *)

\* The current password is checked, and then the session is looked for.
StartChange(r, i) ==
    /\ Free(r) /\ Authorized(i)
    /\ Become(r, [pc |-> "change", session |-> i, id |-> user.id])
    /\ UNCHANGED <<user, covered, sessions, devices, codes, spent>>

FindCurrentSession(r) ==
    /\ At(r, "change") /\ sessions[caller[r].session].active
    /\ Become(r, [caller[r] EXCEPT !.pc = "store"])
    /\ UNCHANGED <<user, covered, sessions, devices, codes, spent>>

StoreChange(r) ==
    LET i == caller[r].session IN
    /\ At(r, "store") /\ user.id = caller[r].id /\ user.status # "none" /\ user.pw < MaxPasswords
    /\ user' = [user EXCEPT !.pw = @ + 1, !.reset = NoCode]
    /\ sessions' = [Keep({i}) EXCEPT ![i].pw = IF sessions[i].active THEN user.pw + 1 ELSE @]
    /\ Become(r, Idle)
    /\ UNCHANGED <<covered, devices, codes, spent>>

DeleteAccount(i) ==
    /\ Authorized(i) /\ ~user.exempt /\ Gone
    /\ UNCHANGED <<codes, spent, caller>>

BanUser ==
    /\ user.status # "none" /\ ~user.exempt /\ ~user.banned
    /\ user' = [user EXCEPT !.banned = TRUE]
    /\ sessions' = Keep({})
    /\ UNCHANGED <<covered, devices, codes, spent, caller>>

UnbanUser ==
    /\ user.banned
    /\ user' = [user EXCEPT !.banned = FALSE]
    /\ UNCHANGED <<covered, sessions, devices, codes, spent, caller>>

\* A superadmin promotes or demotes the person: their sessions go on.
ChangeRole ==
    /\ user.status # "none"
    /\ user' = [user EXCEPT !.exempt = ~@]
    /\ UNCHANGED <<covered, sessions, devices, codes, spent, caller>>

\* An admin removes a device: its sessions first, then its row.
StartRemoval(r, d) ==
    /\ Free(r) /\ devices[d].status # "none"
    /\ Become(r, [pc |-> "remove", device |-> d, policy |-> user.policy, id |-> user.id,
                  held |-> {i \in DOMAIN sessions : sessions[i].active /\ sessions[i].device = d}])
    /\ UNCHANGED <<user, covered, sessions, devices, codes, spent>>

FinishRemoval(r) ==
    /\ At(r, "remove") /\ devices[caller[r].device].status # "none"
    /\ user.policy = caller[r].policy /\ user.id = caller[r].id
    /\ sessions' = Keep(DOMAIN sessions \ caller[r].held)
    /\ devices' = [devices EXCEPT ![caller[r].device] = NoDevices[caller[r].device]]
    /\ Become(r, Idle)
    /\ UNCHANGED <<user, covered, codes, spent>>

\* A request is refused, or its transaction fails.
GiveUp(r) ==
    /\ caller[r].pc \notin {"idle", "deliver", "answered", "rejected"}
    /\ Become(r, Idle)
    /\ UNCHANGED <<user, covered, sessions, devices, codes, spent>>

----------------------------------------------------------------------------
\* The groups of steps, for runs that exercise some of them.
PremiumSteps == GainCover \/ LoseCover \/ Reconcile
RegistrationSteps ==
    \/ RegisterAgain \/ LoginUnverified \/ ResendVerification
    \/ \E n \in 1..codes : VerifyEmail(n)
    \/ \E r \in Callers : StartRegister(r) \/ RegisterFresh(r) \/ DeliverCode(r)
PasswordSteps ==
    \/ ForgotPassword \/ ResendReset \/ ResetFails
    \/ \E n \in 1..codes : ResetPassword(n)
    \/ \E r \in Callers :
        \/ FindCurrentSession(r) \/ StoreChange(r)
        \/ \E i \in DOMAIN sessions : StartChange(r, i)
SignInSteps ==
    \/ \E r \in Callers :
        \/ CreateFreeSession(r) \/ LoginManaged(r)
        \/ \E d \in Devices : StartLogin(r, d)
    \/ \E n \in 1..codes, d \in Devices : VerifyDevice(d, n)
RefreshSteps ==
    \/ \E i \in DOMAIN sessions : RefreshRevokes(i) \/ AgeSession(i)
    \/ \E r \in Callers :
        \/ Rotate(r) \/ Recheck(r) \/ FinishRefresh(r)
        \/ \E i \in DOMAIN sessions, v \in 0..MaxVersion : StartRefresh(r, i, v)
AccountSteps ==
    \/ BanUser \/ UnbanUser
    \/ \E i \in DOMAIN sessions : Logout(i) \/ DeleteAccount(i)
RemovalSteps ==
    \E r \in Callers : FinishRemoval(r) \/ \E d \in Devices : StartRemoval(r, d)
RoleSteps == ChangeRole
ClockSteps == AgeCode \/ NewDay
Refusals == \E r \in Callers : GiveUp(r)

AuthNext ==
    \/ PremiumSteps \/ RegistrationSteps \/ PasswordSteps \/ SignInSteps \/ RefreshSteps
    \/ AccountSteps \/ RemovalSteps \/ RoleSteps \/ ClockSteps \/ Refusals

AuthSpec == AuthInit /\ [][AuthNext]_authVars

----------------------------------------------------------------------------
(* Every variable holds a value of its type, and the counters and the last  *)
(* attempt's reset keep to the limits.                                      *)
AuthTypeOK ==
    /\ user.id \in 0..MaxAccounts /\ user.status \in {"none", "unverified", "verified"}
    /\ {user.banned, user.exempt, user.premium, covered} \subseteq BOOLEAN
    /\ user.policy \in 0..MaxPolicy /\ user.pw \in 0..MaxPasswords
    /\ user.otps \in 0..MaxOtps /\ user.attempts \in 0..(MaxAttempts - 1)
    /\ user.email \in Code /\ user.reset \in Code
    /\ sessions \in Seq([active: BOOLEAN, device: Devices \cup {NoDevice}, policy: 0..MaxPolicy,
                         version: 0..MaxVersion, pw: 0..MaxPasswords, aged: BOOLEAN, late: BOOLEAN,
                         exempt: BOOLEAN])
    /\ devices \in [Devices -> [status: {"none", "pending", "verified"}, code: Code]]
    /\ codes \in 0..MaxCodes

(* However sign-ins from several devices, their codes, removals, resets,     *)
(* activations and role changes overlap: a session of a premium account that *)
(* was not opened by an admin has ended all there were before it.  So of     *)
(* those sessions at most one passes validation, and any other that does was *)
(* opened since, while the account was an admin's (a demotion leaves those). *)
(* Only so many premium devices are registered.                              *)
PremiumBounded ==
    /\ AuthTypeOK
    /\ user.premium =>
          \A i, j \in DOMAIN sessions :
              Valid(i) /\ Valid(j) /\ j < i => sessions[i].exempt
    /\ Cardinality(Verified) <= MaxDevices

(* Changing or resetting the password ends the sessions of the old one: a    *)
(* session that passes validation was opened with today's password, or by a  *)
(* sign-in that had its password checked before the change and stored its    *)
(* session after it (the code leaves that gap open).                         *)
OldPasswordsOut ==
    \A i \in DOMAIN sessions : Valid(i) /\ ~sessions[i].late => sessions[i].pw = user.pw

(* A code by e-mail opens one door once, whichever requests race with it.    *)
CodesUsedOnce == \A n \in 1..MaxCodes : spent[n] <= 1

(* Refreshes that race converge: an answer carries the version the session   *)
(* has at that moment, and a token is rejected only when its session is over *)
(* or has been rotated twice since.                                          *)
RefreshConverges ==
    [][\A r \in Callers :
        LET s == caller'[r].session IN
        /\ caller[r].pc # "answered" /\ caller'[r].pc = "answered"
              => caller'[r].version = sessions'[s].version
        /\ caller[r].pc # "rejected" /\ caller'[r].pc = "rejected"
              => ~(sessions'[s].active /\ sessions'[s].policy = user'.policy /\ ~user'.banned)
                 \/ caller'[r].asked < sessions'[s].version - 1]_authVars
============================================================================

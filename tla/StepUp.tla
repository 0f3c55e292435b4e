------------------------------ MODULE StepUp ------------------------------
(***************************************************************************)
(* Roles, and the second factor superadmins need to change them.  A request *)
(* carries the role its token was issued with; the User row may hold        *)
(* another since.  A code sent by e-mail is exchanged for an approval of    *)
(* one session, and the approval for sensitive actions until it expires.    *)
(*                                                                         *)
(* Verifying a code reads the challenge, compares, and writes by its id;    *)
(* a role change locks the challenge of its session (it stores when the     *)
(* approval was used), reads its target, and writes the target by its id.   *)
(* Nothing else is locked.  Audit entries are left out; so is what replays  *)
(* a mutation (Idempotency).                                                *)
(***************************************************************************)
EXTENDS Integers, FiniteSets

CONSTANTS
    People,
    Tabs,       \* the sessions of admins
    Owner,      \* Owner[s]: whose session s is
    Clerks,     \* slots for the requests in flight
    MaxFails,   \* ADMIN_CONFIG.STEP_UP_MAX_FAILED_ATTEMPTS
    MaxOtpSent  \* bound: codes sent

ASSUME OwnerAssumption == Owner \in [Tabs -> People]
ASSUME ClerksAssumption == IsFiniteSet(Clerks)
ASSUME FailsAssumption == MaxFails \in Nat \ {0} /\ MaxOtpSent \in Nat

VARIABLES
    role,       \* User.role
    tab,        \* the sessions: active or not, and the role in the token
    challenge,  \* the AdminStepUpChallenge of each session
    clerk,      \* the requests in flight
    sent,       \* how many codes were sent
    guesses,    \* history: how many wrong guesses of each code were answered
    overlapped  \* history: two role changes were under way at once

stepVars == <<role, tab, challenge, clerk, sent, guesses, overlapped>>

Roles == {"USER", "ADMIN", "SUPERADMIN"}
Level == [USER |-> 0, ADMIN |-> 1, SUPERADMIN |-> 2]
HasRoleAtLeast(r, min) == Level[r] >= Level[min]

NoChallenge == [code |-> 0, usable |-> FALSE, approval |-> "none", fails |-> 0]
AtRest == [pc |-> "idle"]

StepInit ==
    /\ role \in [People -> Roles] /\ \E p \in People : role[p] = "SUPERADMIN"
    /\ tab = [s \in Tabs |-> [active |-> TRUE, role |-> role[Owner[s]]]]
    /\ challenge = [s \in Tabs |-> NoChallenge]
    /\ clerk = [c \in Clerks |-> AtRest]
    /\ sent = 0
    /\ guesses = [n \in 0..MaxOtpSent |-> 0]
    /\ overlapped = FALSE

Enter(c, state) == clerk' = [clerk EXCEPT ![c] = state]
IsAt(c, pc) == clerk[c].pc = pc

\* A role change that has not committed holds its session's challenge.
Changing == {c \in Clerks : IsAt(c, "change")}
Locked(s) == \E c \in Changing : clerk[c].tab = s
MayAct(s) == tab[s].active /\ HasRoleAtLeast(tab[s].role, "SUPERADMIN")

----------------------------------------------------------------------------
(* Sessions: a refresh puts the role of the row into the token.             *)

RefreshRole(s) ==
    /\ tab[s].active /\ tab[s].role # role[Owner[s]]
    /\ tab' = [tab EXCEPT ![s].role = role[Owner[s]]]
    /\ UNCHANGED <<role, challenge, clerk, sent, guesses, overlapped>>

EndTab(s) ==
    /\ tab[s].active
    /\ tab' = [tab EXCEPT ![s].active = FALSE]
    /\ UNCHANGED <<role, challenge, clerk, sent, guesses, overlapped>>

----------------------------------------------------------------------------
(* Challenges. *)

RequestChallenge(s) ==
    /\ MayAct(s) /\ ~Locked(s) /\ sent < MaxOtpSent
    /\ sent' = sent + 1
    /\ challenge' = [challenge EXCEPT ![s] =
                        [code |-> sent + 1, usable |-> TRUE, approval |-> "none", fails |-> 0]]
    /\ UNCHANGED <<role, tab, clerk, guesses, overlapped>>

\* A locked or expired challenge is refused, and so is one that was used.
ReadChallenge(c, s, right) ==
    /\ IsAt(c, "idle") /\ MayAct(s)
    /\ challenge[s].fails < MaxFails /\ challenge[s].usable
    /\ Enter(c, [pc |-> IF right THEN "right" ELSE "wrong", tab |-> s, seen |-> challenge[s]])
    /\ UNCHANGED <<role, tab, challenge, sent, guesses, overlapped>>

FailsRead(now, seen) == seen + 1
FailsAfter(now, seen) == now + 1

RecordFailure(c) ==
    LET s == clerk[c].tab IN
    /\ IsAt(c, "wrong") /\ ~Locked(s)
    /\ challenge' = [challenge EXCEPT ![s].fails = FailsAfter(@, clerk[c].seen.fails)]
    /\ guesses' = [guesses EXCEPT ![clerk[c].seen.code] = @ + 1]
    /\ Enter(c, AtRest)
    /\ UNCHANGED <<role, tab, sent, overlapped>>

\* Whatever the challenge holds by now becomes an approval.
RecordApproval(c) ==
    LET s == clerk[c].tab IN
    /\ IsAt(c, "right") /\ ~Locked(s)
    /\ challenge' = [challenge EXCEPT ![s] = [NoChallenge EXCEPT !.approval = "live"]]
    /\ Enter(c, AtRest)
    /\ UNCHANGED <<role, tab, sent, guesses, overlapped>>

ExpireChallenge(s) ==
    /\ \/ challenge[s].usable /\ challenge' = [challenge EXCEPT ![s].usable = FALSE]
       \/ challenge[s].approval = "live" /\ challenge' = [challenge EXCEPT ![s].approval = "none"]
    /\ UNCHANGED <<role, tab, clerk, sent, guesses, overlapped>>

----------------------------------------------------------------------------
(* Role changes. *)

Superadmins == {p \in People : role[p] = "SUPERADMIN"}

\* assertVerifiedForSensitiveActionTx, and the read of the target.
StartChangeOf(c, s, p, op, to) ==
    /\ IsAt(c, "idle") /\ MayAct(s) /\ challenge[s].approval = "live" /\ ~Locked(s)
    /\ Owner[s] # p
    /\ Enter(c, [pc |-> "change", tab |-> s, target |-> p, op |-> op, to |-> to, seen |-> role[p]])
    /\ overlapped' = (overlapped \/ Changing # {})
    /\ UNCHANGED <<role, tab, challenge, sent, guesses>>

StartPromotion(c, s, p) ==
    \E to \in {"ADMIN", "SUPERADMIN"} :
        /\ role[p] \notin {to, "SUPERADMIN"}
        /\ StartChangeOf(c, s, p, "promote", to)

AnyDemotion(p) == TRUE
\* Counted among the rows as they are; nobody is kept from changing them.
MayDemote(p) == role[p] = "SUPERADMIN" => Cardinality(Superadmins) > 1

StartDemotion(c, s, p) ==
    /\ role[p] # "USER" /\ MayDemote(p)
    /\ StartChangeOf(c, s, p, "demote", IF role[p] = "SUPERADMIN" THEN "ADMIN" ELSE "USER")

CommitChange(c) ==
    /\ IsAt(c, "change")
    /\ role' = [role EXCEPT ![clerk[c].target] = clerk[c].to]
    /\ Enter(c, AtRest)
    /\ UNCHANGED <<tab, challenge, sent, guesses, overlapped>>

\* The transaction fails before it commits.
AbortStep(c) ==
    /\ ~IsAt(c, "idle") /\ Enter(c, AtRest)
    /\ UNCHANGED <<role, tab, challenge, sent, guesses, overlapped>>

----------------------------------------------------------------------------
StepNext ==
    \/ \E s \in Tabs : RefreshRole(s) \/ EndTab(s) \/ RequestChallenge(s) \/ ExpireChallenge(s)
    \/ \E c \in Clerks :
        \/ RecordFailure(c) \/ RecordApproval(c) \/ CommitChange(c) \/ AbortStep(c)
        \/ \E s \in Tabs, right \in BOOLEAN : ReadChallenge(c, s, right)
        \/ \E s \in Tabs, p \in People : StartPromotion(c, s, p) \/ StartDemotion(c, s, p)

StepSpec == StepInit /\ [][StepNext]_stepVars

----------------------------------------------------------------------------
(* Every variable holds a value of its type.                                *)
StepTypeOK ==
    /\ role \in [People -> Roles]
    /\ tab \in [Tabs -> [active: BOOLEAN, role: Roles]]
    /\ challenge \in [Tabs -> [code: 0..MaxOtpSent, usable: BOOLEAN, approval: {"none", "live"},
                               fails: 0..(MaxFails + Cardinality(Clerks))]]
    /\ sent \in 0..MaxOtpSent /\ guesses \in [0..MaxOtpSent -> Nat] /\ overlapped \in BOOLEAN

(* A code survives only so many wrong guesses: the limit, and one more for    *)
(* every other verification that read the challenge before the last failure   *)
(* was counted.                                                              *)
GuessesBounded ==
    /\ StepTypeOK
    /\ \A n \in 0..MaxOtpSent : guesses[n] <= MaxFails + Cardinality(Clerks) - 1

(* Role changes never leave the system without a superadmin, even with       *)
(* tokens that still carry a role their owner has lost, unless two changes    *)
(* overlapped (the code counts the superadmins without locking them).        *)
SuperadminLeft == Superadmins = {} => overlapped

(* Not checked by a listed run, because two superadmins who demote each      *)
(* other at once refute it: a superadmin is always left.                     *)
LastSuperadminStays == Superadmins # {}
============================================================================

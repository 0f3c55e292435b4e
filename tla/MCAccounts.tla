---------------------------- MODULE MCAccounts ----------------------------
(* Accounts and admins for TLC.  The scenario, chosen at the start, says      *)
(* which operations meet; what a scenario leaves out stays at rest.           *)
EXTENDS AuthSessions, StepUp, TLC

CONSTANTS d1, d2, d3, a, b, s1, s2

VARIABLE scenario
vars == <<authVars, stepVars, scenario>>

MCAlike == [d \in Devices |-> IF d = d3 THEN {d1} ELSE {}]
MCBound == [d \in Devices |-> IF d = d3 THEN {d2} ELSE {}]
MCOwner == (s1 :> a) @@ (s2 :> b)

\* An account from nothing; sign-ins from several devices; sign-ins of someone
\* who is promoted and demoted; the tokens of a session; passwords; the roles and
\* the second factor of admins.
Scenarios == {"accounts", "devices", "admins", "tokens", "passwords", "roles"}

Init ==
    /\ scenario \in Scenarios
    /\ AuthInit /\ StepInit
    /\ scenario \in {"tokens", "passwords", "devices", "admins"} => user.status = "verified"
    /\ scenario = "devices" => ~user.exempt
    /\ scenario = "accounts" => user.status = "none"
    /\ scenario = "roles" => user.status = "none" /\ role[a] = "SUPERADMIN"
    /\ scenario # "roles" => \A p \in People : role[p] = "SUPERADMIN"

\* Two sessions and one device are enough where devices are not at stake.
OneDevice ==
    /\ Len(sessions') <= 2
    /\ \A r \in Callers : caller'[r].pc = "managed" => caller'[r].device = d1

\* One code, and no device that resembles another.
OneCode ==
    /\ codes' <= 1 /\ user'.policy <= 1
    /\ \A r \in Callers : caller'[r].pc = "managed" => caller'[r].device # d3

AuthSteps ==
    \/ scenario = "accounts" /\ (RegistrationSteps \/ AccountSteps \/ ClockSteps \/ Refusals)
    \/ scenario = "devices" /\ (SignInSteps \/ PremiumSteps \/ RemovalSteps \/ AgeCode \/ Refusals)
    \/ /\ scenario = "admins"
       /\ SignInSteps \/ RoleSteps \/ PremiumSteps
       /\ OneCode
    \/ /\ scenario = "tokens"
       /\ SignInSteps \/ RefreshSteps \/ AccountSteps \/ PremiumSteps \/ Refusals
       /\ OneDevice
    \/ /\ scenario = "passwords"
       /\ SignInSteps \/ PasswordSteps \/ ClockSteps \/ Refusals
       /\ OneDevice

Next ==
    /\ \/ AuthSteps /\ UNCHANGED stepVars
       \/ scenario = "roles" /\ ~overlapped /\ StepNext /\ UNCHANGED authVars
    /\ UNCHANGED scenario

Spec == Init /\ [][Next]_vars
============================================================================

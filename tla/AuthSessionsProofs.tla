------------------------- MODULE AuthSessionsProofs -------------------------
(***************************************************************************)
(* What TLAPS proves about AuthSessions when all of its steps interleave,  *)
(* for any devices, requests in flight, limits and bounds.                 *)
(***************************************************************************)
EXTENDS AuthSessions, FiniteSetTheorems, SequenceTheorems, TLAPS

USE DevicesAssumption, LimitsAssumption, AuthBoundsAssumption

Users ==
    [id: 0..MaxAccounts, status: {"none", "unverified", "verified"}, banned: BOOLEAN,
     exempt: BOOLEAN, premium: BOOLEAN, policy: 0..MaxPolicy, pw: 0..MaxPasswords,
     otps: 0..MaxOtps, email: Code, reset: Code, attempts: 0..(MaxAttempts - 1)]
Sessions ==
    [active: BOOLEAN, device: Devices \cup {NoDevice}, policy: 0..MaxPolicy,
     version: 0..MaxVersion, pw: 0..MaxPasswords, aged: BOOLEAN, late: BOOLEAN, exempt: BOOLEAN]
DeviceRows == [status: {"none", "pending", "verified"}, code: Code]

\* What a request in flight remembers.
Registering == [pc: {"register"}]
Delivering  == [pc: {"deliver"}, id: 0..MaxAccounts]
Managed     == [pc: {"managed"}, id: 0..MaxAccounts, pw: 0..MaxPasswords, device: Devices]
FreeLogin   == [pc: {"free"}, id: 0..MaxAccounts, pw: 0..MaxPasswords, policy: 0..MaxPolicy]
Refreshing  == [pc: {"rotate", "recheck", "answered", "rejected"}, session: Nat, asked: Nat,
                version: Nat]
Changing    == [pc: {"change", "store"}, session: Nat, id: 0..MaxAccounts]
Removing    == [pc: {"remove"}, device: Devices, policy: 0..MaxPolicy, id: 0..MaxAccounts,
                held: SUBSET Nat]
Requests == {Idle} \cup Registering \cup Delivering \cup Managed \cup FreeLogin \cup Refreshing
                \cup Changing \cup Removing

Types ==
    /\ user \in Users
    /\ covered \in BOOLEAN
    /\ sessions \in Seq(Sessions)
    /\ devices \in [Devices -> DeviceRows]
    /\ codes \in 0..MaxCodes
    /\ spent \in [1..MaxCodes -> Nat]
    /\ caller \in [Callers -> Requests]

(***************************************************************************)
(* Constants, rows and requests.                                           *)
(***************************************************************************)
LEMMA Bounds ==
  /\ MaxAccounts \in Nat /\ MaxAccounts >= 1 /\ MaxPolicy \in Nat /\ MaxPolicy >= 1
  /\ MaxSessions \in Nat /\ MaxVersion \in Nat /\ MaxCodes \in Nat /\ MaxPasswords \in Nat
  /\ MaxDevices \in Nat /\ MaxDevices >= 1 /\ MaxOtps \in Nat /\ MaxOtps >= 1
  /\ MaxAttempts \in Nat /\ MaxAttempts >= 1
OBVIOUS

LEMMA Initials ==
  /\ NoCode \in Code /\ NoCode.n = 0
  /\ \A id \in 0..MaxAccounts : NoUser(id) \in Users
  /\ Ended \in Sessions /\ ~Ended.active
  /\ NoDevices \in [Devices -> DeviceRows] /\ Trusted \in DeviceRows
<1>1. 0 \in 0..MaxCodes /\ 0 \in 0..MaxPolicy /\ 0 \in 0..MaxPasswords /\ 0 \in 0..MaxOtps
      /\ 0 \in 0..(MaxAttempts - 1) /\ 0 \in 0..MaxVersion
  BY Bounds
<1>2. NoCode \in Code /\ NoCode.n = 0
  BY <1>1 DEF NoCode, Code
<1> HIDE DEF NoCode
<1>3. \A id \in 0..MaxAccounts : NoUser(id) \in Users
  BY <1>1, <1>2 DEF NoUser, Users
<1>4. Ended \in Sessions /\ ~Ended.active
  BY <1>1 DEF Ended, Sessions
<1>5. NoDevices \in [Devices -> DeviceRows] /\ Trusted \in DeviceRows
  BY <1>2 DEF NoDevices, Trusted, DeviceRows
<1> QED
  BY <1>2, <1>3, <1>4, <1>5

LEMMA Fields ==
  ASSUME Types
  PROVE  /\ user.id \in 0..MaxAccounts /\ user.status \in {"none", "unverified", "verified"}
         /\ user.banned \in BOOLEAN /\ user.exempt \in BOOLEAN /\ user.premium \in BOOLEAN
         /\ user.policy \in 0..MaxPolicy /\ user.pw \in 0..MaxPasswords /\ user.otps \in 0..MaxOtps
         /\ user.email \in Code /\ user.reset \in Code /\ user.attempts \in 0..(MaxAttempts - 1)
BY DEF Types, Users

LEMMA RequestKinds ==
  ASSUME Types, NEW r \in Callers
  PROVE  /\ caller[r].pc = "managed" => caller[r] \in Managed
         /\ caller[r].pc = "free" => caller[r] \in FreeLogin
         /\ caller[r].pc \in {"rotate", "recheck", "answered", "rejected"} => caller[r] \in Refreshing
         /\ caller[r].pc \in {"change", "store"} => caller[r] \in Changing
         /\ caller[r].pc = "remove" => caller[r] \in Removing
<1>1. caller[r] \in Requests
  BY DEF Types
<1>2. Idle.pc = "idle"
  BY DEF Idle
<1> QED
  BY <1>1, <1>2 DEF Requests, Registering, Delivering, Managed, FreeLogin, Refreshing, Changing,
     Removing

LEMMA BecomeFacts ==
  ASSUME Types, NEW r \in Callers, NEW state \in Requests, Become(r, state)
  PROVE  /\ caller' \in [Callers -> Requests] /\ caller'[r] = state
         /\ \A s \in Callers \ {r} : caller'[s] = caller[s]
BY DEF Become, Types

LEMMA IdleState == Idle \in Requests /\ Idle.pc = "idle"
BY DEF Idle, Requests

(***************************************************************************)
(* Sessions.                                                               *)
(***************************************************************************)
LEMMA SessionType ==
  ASSUME Types
  PROVE  /\ Len(sessions) \in Nat /\ DOMAIN sessions = 1..Len(sessions)
         /\ \A i \in DOMAIN sessions : sessions[i] \in Sessions
BY LenProperties, ElementOfSeq DEF Types

LEMMA KeepFacts ==
  ASSUME Types, NEW kept
  PROVE  /\ Keep(kept) \in Seq(Sessions) /\ Len(Keep(kept)) = Len(sessions)
         /\ DOMAIN Keep(kept) = DOMAIN sessions
         /\ \A i \in DOMAIN sessions : Keep(kept)[i] = IF i \in kept THEN sessions[i] ELSE Ended
<1>1. Keep(kept) \in [1..Len(sessions) -> Sessions]
  BY SessionType, Initials DEF Keep
<1> QED
  BY <1>1, SessionType, SeqDef, LenProperties DEF Keep

LEMMA NewSessionFacts ==
  ASSUME Types, NEW d \in Devices \cup {NoDevice}, NEW policy \in 0..MaxPolicy,
         NEW pw \in 0..MaxPasswords
  PROVE  LET new == NewSession(d, policy, pw)
         IN  /\ new \in Sessions /\ new.active /\ new.policy = policy /\ new.pw = pw
             /\ new.late = (new.pw # user.pw)
<1>1. 0 \in 0..MaxVersion /\ (pw # user.pw) \in BOOLEAN
  BY Bounds
<1> QED
  BY <1>1 DEF NewSession, Sessions

LEMMA AppendFacts ==
  ASSUME NEW base \in Seq(Sessions), NEW new \in Sessions
  PROVE  LET all == Append(base, new)
             n == Len(base) + 1
         IN  /\ all \in Seq(Sessions) /\ DOMAIN all = DOMAIN base \cup {n} /\ n \notin DOMAIN base
             /\ all[n] = new /\ \A i \in DOMAIN base : all[i] = base[i]
<1> DEFINE all == Append(base, new)
           n == Len(base) + 1
<1>1. /\ all \in Seq(Sessions) /\ Len(all) = n /\ all[n] = new
      /\ \A i \in 1..Len(base) : all[i] = base[i]
      /\ Len(base) \in Nat
  BY AppendProperties, LenProperties
<1>2. DOMAIN base = 1..Len(base) /\ DOMAIN all = 1..n
  BY <1>1, LenProperties
<1> QED
  BY <1>1, <1>2

LEMMA ExceptFacts ==
  ASSUME Types, NEW i \in DOMAIN sessions, NEW s \in Sessions, sessions' = [sessions EXCEPT ![i] = s]
  PROVE  /\ sessions' \in Seq(Sessions) /\ DOMAIN sessions' = DOMAIN sessions
         /\ \A j \in DOMAIN sessions : sessions'[j] = IF j = i THEN s ELSE sessions[j]
BY ExceptSeq, SessionType, LenProperties DEF Types

(***************************************************************************)
(* The sessions of an account.                                             *)
(***************************************************************************)
Dead == \A i \in DOMAIN sessions : ~sessions[i].active

\* Only a verified account has sessions, and a free sign-in that was checked before
\* premium began brings an older policy.
FreeSignIn(r) ==
    caller[r].pc = "free" =>
        /\ caller[r].id <= user.id
        /\ caller[r].id = user.id /\ user.status # "none" =>
              /\ user.status = "verified" /\ caller[r].policy <= user.policy
              /\ user.premium => caller[r].policy < user.policy

Accounts == (user.status # "verified" => Dead) /\ \A r \in Callers : FreeSignIn(r)

\* Of the sessions that no admin opened the last is the only one, and all older ones ended.
OneValid ==
    user.premium =>
        \A i, j \in DOMAIN sessions : Valid(i) /\ Valid(j) /\ j < i => sessions[i].exempt

Room == Cardinality(Verified) <= MaxDevices

Inv == Types /\ Accounts /\ OneValid /\ OldPasswordsOut /\ Room

\* What a refresh has seen of its session.
Referring(r) ==
    caller[r].pc \in {"rotate", "recheck", "answered", "rejected"} =>
        /\ caller[r].session \in DOMAIN sessions
        /\ sessions[caller[r].session].active =>
              /\ caller[r].pc = "rotate" => caller[r].asked <= sessions[caller[r].session].version
              /\ caller[r].pc = "recheck" => caller[r].asked < sessions[caller[r].session].version

SameUser ==
    /\ user'.id = user.id /\ user'.status = user.status
    /\ user'.premium = user.premium /\ user'.policy = user.policy /\ user'.pw = user.pw

FewerSessions ==
    \A i \in DOMAIN sessions' :
        sessions'[i].active =>
            /\ i \in DOMAIN sessions /\ sessions[i].active
            /\ sessions'[i].policy = sessions[i].policy
            /\ sessions'[i].pw = sessions[i].pw /\ sessions'[i].late = sessions[i].late
            /\ sessions'[i].exempt = sessions[i].exempt

NoNewSignIn == \A s \in Callers : caller'[s] = caller[s] \/ caller'[s].pc # "free"

LEMMA RoomKept ==
  ASSUME Room, Verified' \subseteq Verified
  PROVE  Room'
<1>1. IsFiniteSet(Verified)
  BY FS_Subset DEF Verified
<1>2. Cardinality(Verified') <= Cardinality(Verified) /\ IsFiniteSet(Verified')
  BY <1>1, FS_Subset
<1> QED
  BY <1>1, <1>2, FS_CardinalityType, Bounds DEF Room

LEMMA SameDevices == ASSUME devices' = devices PROVE Verified' = Verified
BY DEF Verified

LEMMA SameSessions == ASSUME sessions' = sessions PROVE FewerSessions
BY DEF FewerSessions

\* The steps that open no session.
LEMMA KeepsInv ==
  ASSUME Inv, Types', SameUser, FewerSessions, NoNewSignIn, Verified' \subseteq Verified
  PROVE  Inv'
<1>1. Accounts'
  BY DEF Inv, Accounts, SameUser, FewerSessions, NoNewSignIn, FreeSignIn, Dead
<1>2. OneValid'
  BY DEF Inv, OneValid, SameUser, FewerSessions, Valid
<1>3. OldPasswordsOut'
  BY DEF Inv, OldPasswordsOut, SameUser, FewerSessions, Valid
<1> QED
  BY <1>1, <1>2, <1>3, RoomKept DEF Inv

\* The steps that end them all.
LEMMA DeadInv ==
  ASSUME Inv, Types', Dead', NoNewSignIn, Verified' \subseteq Verified, user'.id = user.id,
         \/ user'.status = "none"
         \/ /\ user'.status = user.status
            /\ \/ user'.premium = user.premium /\ user'.policy = user.policy
               \/ user'.policy = user.policy + 1
  PROVE  Inv'
<1>1. user.policy \in Int /\ user.id \in Int /\ user'.policy \in Int
  BY Fields DEF Inv, Types, Users
<1>2. ASSUME NEW r \in Callers, caller'[r] = caller[r] PROVE FreeSignIn(r)'
  <2>1. CASE caller[r].pc = "free"
    <3>1. caller[r].id \in Int /\ caller[r].policy \in Int
      BY <2>1, RequestKinds DEF Inv, FreeLogin
    <3> QED
      BY <1>1, <1>2, <3>1 DEF Inv, Accounts, FreeSignIn
  <2>2. CASE caller[r].pc # "free"
    BY <1>2, <2>2 DEF FreeSignIn
  <2> QED
    BY <2>1, <2>2
<1>3. Accounts'
  BY <1>2 DEF NoNewSignIn, FreeSignIn, Accounts
<1>4. OneValid' /\ OldPasswordsOut'
  BY DEF OneValid, OldPasswordsOut, Dead, Valid
<1> QED
  BY <1>3, <1>4, RoomKept DEF Inv

LEMMA KeepNone == ASSUME Types, sessions' = Keep({}) PROVE Dead' /\ sessions' \in Seq(Sessions)
BY KeepFacts, Initials DEF Dead

\* A session more.
LEMMA OpenInv ==
  ASSUME Inv, Types', NEW new \in Sessions, sessions' = Append(sessions, new),
         user'.id = user.id, user'.premium = user.premium,
         user'.policy = user.policy, user'.pw = user.pw,
         user'.status = user.status \/ user.status = "unverified",
         user'.status = "verified",
         new.late = (new.pw # user.pw),
         user.premium => new.policy # user.policy \/ Dead \/ new.exempt,
         NoNewSignIn, Verified' \subseteq Verified
  PROVE  Inv'
<1>1. PICK n \in Int :
               /\ DOMAIN sessions' = DOMAIN sessions \cup {n} /\ \A i \in DOMAIN sessions : i < n
               /\ sessions'[n] = new /\ \A i \in DOMAIN sessions : sessions'[i] = sessions[i]
  <2>1. sessions \in Seq(Sessions)
    BY DEF Inv, Types
  <2>2. DOMAIN sessions' = DOMAIN sessions \cup {Len(sessions) + 1}
        /\ Len(sessions) + 1 \notin DOMAIN sessions /\ sessions'[Len(sessions) + 1] = new
        /\ \A i \in DOMAIN sessions : sessions'[i] = sessions[i]
    BY <2>1, AppendFacts
  <2>3. Len(sessions) \in Nat /\ DOMAIN sessions = 1..Len(sessions)
    BY SessionType DEF Inv
  <2>4. Len(sessions) + 1 \in Int /\ \A i \in DOMAIN sessions : i < Len(sessions) + 1
    BY <2>3
  <2> QED
    BY <2>2, <2>4
<1>2. Accounts'
  BY DEF Inv, Accounts, NoNewSignIn, FreeSignIn
<1>3. OneValid'
  <2> SUFFICES ASSUME user'.premium, NEW i \in DOMAIN sessions', NEW j \in DOMAIN sessions',
                      Valid(i)', Valid(j)', j < i
               PROVE  sessions'[i].exempt
    BY DEF OneValid
  <2>1. CASE i = n
    <3>1. j # n /\ j \in DOMAIN sessions
      BY <1>1, <2>1
    <3>2. sessions'[j] = sessions[j] /\ sessions[j].active
      BY <1>1, <3>1 DEF Valid
    <3> QED
      BY <1>1, <2>1, <3>1, <3>2 DEF Valid, Dead
  <2>2. CASE i # n
    <3>1. i \in DOMAIN sessions /\ i < n /\ i \in Int
      BY <1>1, <2>2, SessionType DEF Inv
    <3>2. j \in DOMAIN sessions
      BY <1>1, <3>1
    <3> QED
      BY <1>1, <3>1, <3>2 DEF Inv, OneValid, Valid
  <2> QED
    BY <2>1, <2>2
<1>4. OldPasswordsOut'
  BY <1>1 DEF Inv, OldPasswordsOut, Valid
<1> QED
  BY <1>2, <1>3, <1>4, RoomKept DEF Inv

\* A session instead of the others.
LEMMA OnlyInv ==
  ASSUME Inv, Types', NEW new \in Sessions, sessions' = Append(Keep({}), new), user' = user,
         user.status = "verified", new.late = (new.pw # user.pw), NoNewSignIn, Room'
  PROVE  Inv'
<1>1. PICK n \in Int :
               /\ DOMAIN sessions' = DOMAIN sessions \cup {n} /\ sessions'[n] = new
               /\ \A i \in DOMAIN sessions \ {n} : ~sessions'[i].active
  <2>1. Keep({}) \in Seq(Sessions) /\ DOMAIN Keep({}) = DOMAIN sessions
        /\ \A i \in DOMAIN sessions : ~Keep({})[i].active
    BY KeepFacts, Initials DEF Inv
  <2> DEFINE base == Keep({})
             n == Len(base) + 1
  <2>2. DOMAIN sessions' = DOMAIN base \cup {n} /\ sessions'[n] = new
        /\ \A i \in DOMAIN base : sessions'[i] = base[i]
    <3>1. base \in Seq(Sessions)
      BY <2>1
    <3> HIDE DEF base
    <3> QED
      BY <3>1, AppendFacts DEF base
  <2>3. n \in Int
    BY <2>1, LenProperties
  <2> HIDE DEF base, n
  <2> QED
    BY <2>1, <2>2, <2>3 DEF base
<1>2. Accounts'
  BY DEF Inv, Accounts, NoNewSignIn, FreeSignIn
<1>3. OneValid'
  <2>1. \A i \in DOMAIN sessions' : Valid(i)' => i = n
    BY <1>1 DEF Valid
  <2> QED
    BY <2>1 DEF OneValid
<1>4. OldPasswordsOut'
  BY <1>1 DEF OldPasswordsOut, Valid
<1> QED
  BY <1>2, <1>3, <1>4 DEF Inv

LEMMA InitInv == AuthInit => Inv
<1> SUFFICES ASSUME AuthInit PROVE Inv
  OBVIOUS
<1>1. PICK exempt \in BOOLEAN, premium \in BOOLEAN, trusted \in SUBSET Devices :
        /\ user \in {NoUser(0),
                     [NoUser(1) EXCEPT !.status = "verified", !.exempt = exempt,
                                       !.premium = premium, !.policy = IF premium THEN 1 ELSE 0]}
        /\ trusted # {} => premium /\ ~exempt /\ Cardinality(trusted) <= MaxDevices
        /\ covered = user.premium
        /\ sessions = <<>>
        /\ devices = [d \in Devices |-> IF d \in trusted /\ user.premium THEN Trusted
                                                          ELSE NoDevices[d]]
        /\ codes = 0
        /\ spent = [n \in 1..MaxCodes |-> 0]
        /\ caller = [r \in Callers |-> Idle]
  BY DEF AuthInit
<1>2. user \in Users
  <2>1. NoUser(0) \in Users /\ NoUser(1) \in Users
    BY Initials, Bounds
  <2> DEFINE policy == IF premium THEN 1 ELSE 0
             u == NoUser(1)
  <2>2. policy \in 0..MaxPolicy
    BY Bounds
  <2> HIDE DEF policy, u
  <2>3. [u EXCEPT !.status = "verified", !.exempt = exempt, !.premium = premium,
                  !.policy = policy] \in Users
    BY <2>1, <2>2 DEF Users, u
  <2> QED
    BY <1>1, <2>1, <2>3 DEF policy, u
<1>3. devices \in [Devices -> DeviceRows]
  BY <1>1, Initials
<1>4. sessions \in Seq(Sessions) /\ DOMAIN sessions = {}
  BY <1>1, EmptySeq
<1>5. covered \in BOOLEAN /\ codes \in 0..MaxCodes /\ caller \in [Callers -> Requests]
  BY <1>1, <1>2, IdleState, Bounds DEF Users
<1>6. spent \in [1..MaxCodes -> Nat]
  BY <1>1
<1>7. Types
  BY <1>2, <1>3, <1>4, <1>5, <1>6 DEF Types
<1>8. Accounts /\ OneValid /\ OldPasswordsOut
  BY <1>1, <1>4, IdleState DEF Accounts, Dead, FreeSignIn, OneValid, OldPasswordsOut
<1>9. Room
  <2>1. Verified \subseteq trusted
    BY <1>1 DEF Verified, Trusted, NoDevices
  <2>2. CASE trusted = {}
    <3>1. Verified = {}
      BY <2>1, <2>2
    <3> QED
      BY <3>1, FS_EmptySet, Bounds DEF Room
  <2>3. CASE trusted # {}
    <3>1. IsFiniteSet(trusted)
      BY FS_Subset
    <3>2. IsFiniteSet(Verified) /\ Cardinality(Verified) <= Cardinality(trusted)
      BY <2>1, <3>1, FS_Subset
    <3> QED
      BY <1>1, <2>3, <3>1, <3>2, FS_CardinalityType, Bounds DEF Room
  <2> QED
    BY <2>2, <2>3
<1> QED
  BY <1>7, <1>8, <1>9 DEF Inv

(***************************************************************************)
(* Premium.                                                                *)
(***************************************************************************)
LEMMA SyncFacts ==
  ASSUME Inv, NEW premium \in BOOLEAN, SyncAccessMode(premium),
         premium => user.policy < MaxPolicy
  PROVE  /\ user' \in Users /\ devices' \in [Devices -> DeviceRows]
         /\ sessions' \in Seq(Sessions)
         /\ Verified' \subseteq Verified
         /\ \/ UNCHANGED <<user, sessions, devices>>
            \/ /\ ~premium /\ ~user'.premium /\ sessions' = sessions
               /\ user'.id = user.id /\ user'.status = user.status /\ user'.exempt = user.exempt
               /\ user'.policy = user.policy /\ user'.pw = user.pw
            \/ /\ Dead' /\ user'.id = user.id /\ user'.status = user.status
               /\ user'.policy = user.policy + 1
<1> Types
  BY DEF Inv
<1>1. CASE UNCHANGED <<user, sessions, devices>>
  BY <1>1 DEF Types, Verified
<1>2. CASE user' # user
  <2> DEFINE policy == IF premium THEN user.policy + 1 ELSE user.policy
  <2>1. /\ user' = [user EXCEPT !.premium = premium, !.otps = 0, !.policy = policy]
        /\ devices' = NoDevices
        /\ IF premium THEN sessions' = Keep({}) ELSE UNCHANGED sessions
    BY <1>2, Fields DEF SyncAccessMode, Types, Users
  <2>2. policy \in 0..MaxPolicy /\ 0 \in 0..MaxOtps
    BY Fields, Bounds
  <2>3. /\ user' \in Users /\ user'.premium = premium /\ user'.id = user.id
        /\ user'.status = user.status /\ user'.exempt = user.exempt /\ user'.pw = user.pw
        /\ user'.policy = policy
    <3> HIDE DEF policy
    <3> QED
      BY <2>1, <2>2 DEF Types, Users
  <2>4. devices' \in [Devices -> DeviceRows] /\ Verified' = {}
    BY <2>1, Initials DEF Verified, NoDevices
  <2>5. CASE premium
    BY <2>1, <2>3, <2>4, <2>5, KeepNone
  <2>6. CASE ~premium
    BY <2>1, <2>3, <2>4, <2>6 DEF Types
  <2> QED
    BY <2>5, <2>6
<1>3. CASE ~UNCHANGED <<user, sessions, devices>> /\ user' = user
  <2>1. user' = [user EXCEPT !.premium = premium, !.otps = 0,
                             !.policy = IF premium THEN @ + 1 ELSE @] /\ premium # user.premium
    BY <1>3 DEF SyncAccessMode
  <2>2. user'.premium = premium
    BY <2>1 DEF Types, Users
  <2> QED
    BY <1>3, <2>1, <2>2
<1> QED
  BY <1>1, <1>2, <1>3

LEMMA LosePremiumInv ==
  ASSUME Inv, Types', ~user'.premium, sessions' = sessions, user'.id = user.id,
         user'.status = user.status, user'.exempt = user.exempt, user'.policy = user.policy,
         user'.pw = user.pw, NoNewSignIn, Verified' \subseteq Verified
  PROVE  Inv'
<1>1. Accounts'
  BY DEF Inv, Accounts, NoNewSignIn, FreeSignIn, Dead
<1>2. OneValid' /\ OldPasswordsOut'
  BY DEF Inv, OneValid, OldPasswordsOut, Valid
<1> QED
  BY <1>1, <1>2, RoomKept DEF Inv

LEMMA PremiumInv == ASSUME Inv, PremiumSteps PROVE Inv'
<1> Types
  BY DEF Inv
<1>1. CASE LoseCover
  <2>1. UNCHANGED <<user, sessions, devices, codes, spent, caller>> /\ covered' = FALSE
    BY <1>1 DEF LoseCover
  <2>2. Types'
    BY <2>1 DEF Types
  <2> QED
    BY <2>1, <2>2, KeepsInv, SameSessions, SameDevices DEF SameUser, NoNewSignIn
<1>2. ASSUME NEW premium \in BOOLEAN, SyncAccessMode(premium), premium => user.policy < MaxPolicy,
             covered' \in BOOLEAN, UNCHANGED <<codes, spent, caller>>
      PROVE  Inv'
  <2>1. Types'
    BY <1>2, SyncFacts DEF Types
  <2>2. CASE UNCHANGED <<user, sessions, devices>>
    BY <1>2, <2>1, <2>2, KeepsInv, SameSessions, SameDevices DEF SameUser, NoNewSignIn
  <2>3. CASE ~UNCHANGED <<user, sessions, devices>>
    BY <1>2, <2>1, <2>3, SyncFacts, LosePremiumInv, DeadInv DEF NoNewSignIn
  <2> QED
    BY <2>2, <2>3
<1>3. CASE GainCover
  BY <1>2, <1>3 DEF GainCover
<1>4. CASE Reconcile
  <2>1. covered = FALSE /\ covered' = covered
    BY <1>4 DEF Reconcile, Stale, Types
  <2> QED
    BY <1>2, <1>4, <2>1 DEF Reconcile
<1> QED
  BY <1>1, <1>3, <1>4 DEF PremiumSteps

(***************************************************************************)
(* Codes, and what else changes a column of the user.                      *)
(***************************************************************************)
\* The columns that no session depends on.
LEMMA ColumnsInv ==
  ASSUME Inv, user' \in Users, SameUser, UNCHANGED <<covered, sessions, spent, caller>>,
         devices' \in [Devices -> DeviceRows], Verified' \subseteq Verified,
         codes' \in 0..MaxCodes
  PROVE  Inv'
<1>1. Types'
  BY DEF Inv, Types
<1> QED
  BY <1>1, KeepsInv, SameSessions DEF NoNewSignIn

LEMMA CodeFacts ==
  ASSUME Types
  PROVE  /\ codes < MaxCodes => /\ codes + 1 \in 0..MaxCodes
                                /\ Fresh("cooling") \in Code /\ Fresh("live") \in Code
         /\ \A code \in Code : Older(code) \in Code
<1>1. codes < MaxCodes => codes + 1 \in 0..MaxCodes
  BY Bounds DEF Types
<1>2. codes < MaxCodes => Fresh("cooling") \in Code /\ Fresh("live") \in Code
  BY <1>1 DEF Fresh, Code
<1>3. \A code \in Code : Older(code) \in Code
  BY DEF Older, Code
<1> QED
  BY <1>1, <1>2, <1>3

LEMMA IssueEmailInv == ASSUME Inv, IssueEmailCode PROVE Inv'
<1> Types
  BY DEF Inv
<1> DEFINE otps == user.otps + 1
           code == Fresh("cooling")
<1>1. /\ user' = [user EXCEPT !.otps = otps, !.email = code] /\ codes < MaxCodes /\ codes' = codes + 1
      /\ UNCHANGED <<covered, sessions, devices, spent, caller>>
      /\ user.otps < MaxOtps
  BY DEF IssueEmailCode, MayIssue, HasQuota, Types, Users
<1>2. otps \in 0..MaxOtps /\ code \in Code
  BY <1>1, Fields, Bounds, CodeFacts
<1> HIDE DEF otps, code
<1>3. user' \in Users /\ SameUser
  BY <1>1, <1>2 DEF Types, Users, SameUser
<1> QED
  BY <1>1, <1>3, ColumnsInv, SameDevices, CodeFacts DEF Types

LEMMA IssueResetInv == ASSUME Inv, IssueResetCode PROVE Inv'
<1> Types
  BY DEF Inv
<1> DEFINE code == Fresh("cooling")
<1>1. /\ user' = [user EXCEPT !.reset = code, !.attempts = 0] /\ codes < MaxCodes /\ codes' = codes + 1
      /\ UNCHANGED <<covered, sessions, devices, spent, caller>>
  BY DEF IssueResetCode, MayIssue
<1>2. 0 \in 0..(MaxAttempts - 1) /\ code \in Code
  BY <1>1, Bounds, CodeFacts
<1> HIDE DEF code
<1>3. user' \in Users /\ SameUser
  BY <1>1, <1>2 DEF Types, Users, SameUser
<1> QED
  BY <1>1, <1>3, ColumnsInv, SameDevices, CodeFacts DEF Types

LEMMA ResetFailsInv == ASSUME Inv, ResetFails PROVE Inv'
<1> Types
  BY DEF Inv
<1>1. user' = AfterWrongCode /\ UNCHANGED <<covered, sessions, devices, codes, spent, caller>>
  BY DEF ResetFails
<1>2. 0 \in 0..(MaxAttempts - 1) /\ NoCode \in Code
  BY Bounds, Initials
<1>3. user' \in Users /\ SameUser
  <2>1. CASE user.attempts + 1 >= MaxAttempts
    <3>1. user' = [user EXCEPT !.attempts = 0, !.reset = NoCode]
      BY <1>1, <2>1 DEF AfterWrongCode
    <3> QED
      BY <1>2, <3>1 DEF Types, Users, SameUser
  <2>2. CASE ~(user.attempts + 1 >= MaxAttempts)
    <3> DEFINE attempts == user.attempts + 1
    <3>1. user' = [user EXCEPT !.attempts = attempts]
      BY <1>1, <2>2 DEF AfterWrongCode, Types, Users
    <3>2. attempts \in 0..(MaxAttempts - 1)
      BY <2>2, Fields, Bounds
    <3> HIDE DEF attempts
    <3> QED
      BY <3>1, <3>2 DEF Types, Users, SameUser
  <2> QED
    BY <2>1, <2>2
<1> QED
  BY <1>1, <1>3, ColumnsInv, SameDevices DEF Types

LEMMA ClockInv == ASSUME Inv, ClockSteps PROVE Inv'
<1> Types
  BY DEF Inv
<1>1. CASE NewDay
  <2>1. user' = [user EXCEPT !.otps = 0] /\ 0 \in 0..MaxOtps
        /\ UNCHANGED <<covered, sessions, devices, codes, spent, caller>>
    BY <1>1, Bounds DEF NewDay
  <2>2. user' \in Users /\ SameUser
    BY <2>1 DEF Types, Users, SameUser
  <2> QED
    BY <2>1, <2>2, ColumnsInv, SameDevices DEF Types
<1>2. CASE AgeCode
  <2>1. UNCHANGED <<covered, sessions, codes, spent, caller>>
    BY <1>2 DEF AgeCode
  <2>2. CASE UNCHANGED devices /\ user' = [user EXCEPT !.email = Older(@)]
    <3>1. user' = [user EXCEPT !.email = Older(user.email)] /\ Older(user.email) \in Code
      BY <2>2, Fields, CodeFacts DEF Types, Users
    <3>2. user' \in Users /\ SameUser
      BY <3>1 DEF Types, Users, SameUser
    <3> QED
      BY <2>1, <2>2, <3>2, ColumnsInv, SameDevices DEF Types
  <2>3. CASE UNCHANGED devices /\ user' = [user EXCEPT !.reset = Older(@)]
    <3>1. user' = [user EXCEPT !.reset = Older(user.reset)] /\ Older(user.reset) \in Code
      BY <2>3, Fields, CodeFacts DEF Types, Users
    <3>2. user' \in Users /\ SameUser
      BY <3>1 DEF Types, Users, SameUser
    <3> QED
      BY <2>1, <2>3, <3>2, ColumnsInv, SameDevices DEF Types
  <2>4. ASSUME NEW d \in Devices, devices' = [devices EXCEPT ![d].code = Older(@)], UNCHANGED user
        PROVE  Inv'
    <3> DEFINE row == [devices[d] EXCEPT !.code = Older(devices[d].code)]
    <3>1. devices[d] \in DeviceRows /\ Older(devices[d].code) \in Code
      BY CodeFacts DEF Types, DeviceRows
    <3>2. row \in DeviceRows /\ row.status = devices[d].status
      BY <3>1 DEF DeviceRows
    <3>3. devices' = [devices EXCEPT ![d] = row]
      BY <2>4, <3>1 DEF Types, DeviceRows
    <3> HIDE DEF row
    <3>4. devices' \in [Devices -> DeviceRows] /\ Verified' = Verified
      BY <3>2, <3>3 DEF Types, Verified
    <3>5. user' \in Users /\ SameUser
      BY <2>4 DEF Types, SameUser
    <3> QED
      BY <2>1, <3>4, <3>5, ColumnsInv DEF Types
  <2> QED
    BY <1>2, <2>2, <2>3, <2>4 DEF AgeCode
<1> QED
  BY <1>1, <1>2 DEF ClockSteps

LEMMA AcceptType ==
  ASSUME Types, NEW n \in 1..codes, Accept(n)
  PROVE  /\ spent' \in [1..MaxCodes -> Nat] /\ spent'[n] = spent[n] + 1 /\ n \in 1..MaxCodes
         /\ \A m \in 1..MaxCodes : m # n => spent'[m] = spent[m]
<1>1. n \in 1..MaxCodes
  BY Bounds DEF Types
<1>2. spent[n] + 1 \in Nat
  <2>1. spent \in [1..MaxCodes -> Nat]
    BY DEF Types
  <2>2. spent[n] \in Nat
    BY <1>1, <2>1
  <2> QED
    BY <2>2
<1>3. spent' = [spent EXCEPT ![n] = spent[n] + 1]
  BY DEF Accept
<1> QED
  BY <1>1, <1>2, <1>3 DEF Types

(***************************************************************************)
(* Registration.                                                           *)
(***************************************************************************)
LEMMA VerifyEmailInv == ASSUME Inv, NEW n \in 1..codes, VerifyEmail(n) PROVE Inv'
<1> Types
  BY DEF Inv
<1> DEFINE new == NewSession(NoDevice, user.policy, user.pw)
<1>1. /\ user.status = "unverified"
      /\ user' = [user EXCEPT !.status = "verified", !.email = NoCode, !.otps = 0]
      /\ sessions' = Append(sessions, new)
      /\ Accept(n) /\ UNCHANGED <<covered, devices, codes, caller>>
  BY DEF VerifyEmail
<1>2. new \in Sessions /\ new.policy = user.policy /\ new.late = (new.pw # user.pw)
  BY NewSessionFacts, Fields
<1> HIDE DEF new
<1>3. /\ user' \in Users /\ user'.id = user.id /\ user'.exempt = user.exempt
      /\ user'.premium = user.premium /\ user'.policy = user.policy /\ user'.pw = user.pw
      /\ user'.status = "verified"
  <2>1. NoCode \in Code /\ 0 \in 0..MaxOtps
    BY Initials, Bounds
  <2> QED
    BY <1>1, <2>1 DEF Types, Users
<1>4. sessions' \in Seq(Sessions)
  BY <1>1, <1>2, AppendFacts DEF Types
<1>5. Types'
  BY <1>1, <1>3, <1>4, AcceptType DEF Types
<1>6. Dead
  BY <1>1 DEF Inv, Accounts
<1> QED
  BY <1>1, <1>2, <1>3, <1>5, <1>6, OpenInv, SameDevices DEF NoNewSignIn

LEMMA GoneFacts ==
  ASSUME Types, Gone
  PROVE  /\ user' \in Users /\ user'.id = user.id /\ user'.status = "none" /\ covered' \in BOOLEAN
         /\ sessions' \in Seq(Sessions) /\ Dead'
         /\ devices' \in [Devices -> DeviceRows] /\ Verified' = {}
<1>1. user' \in Users /\ user'.id = user.id /\ user'.status = "none"
  BY Initials, Fields DEF Gone, NoUser
<1>2. sessions' \in Seq(Sessions) /\ Dead'
  BY KeepNone DEF Gone
<1>3. devices' \in [Devices -> DeviceRows] /\ Verified' = {}
  BY Initials DEF Gone, Verified, NoDevices
<1> QED
  BY <1>1, <1>2, <1>3 DEF Gone

LEMMA RegistrationInv == ASSUME Inv, RegistrationSteps PROVE Inv'
<1> Types
  BY DEF Inv
<1>1. CASE RegisterAgain \/ LoginUnverified \/ ResendVerification
  BY <1>1, IssueEmailInv DEF RegisterAgain, LoginUnverified, ResendVerification
<1>2. ASSUME NEW r \in Callers, StartRegister(r) PROVE Inv'
  <2>1. Become(r, [pc |-> "register"]) /\ UNCHANGED <<user, covered, sessions, devices, codes, spent>>
        /\ [pc |-> "register"] \in Requests
    BY <1>2 DEF StartRegister, Requests, Registering
  <2>2. Types' /\ NoNewSignIn
    BY <2>1, BecomeFacts DEF Types, NoNewSignIn
  <2> QED
    BY <2>1, <2>2, KeepsInv, SameSessions, SameDevices DEF SameUser
<1>3. ASSUME NEW r \in Callers, RegisterFresh(r) PROVE Inv'
  <2> DEFINE id == user.id + 1
             code == Fresh("cooling")
             state == [pc |-> "deliver", id |-> id]
  <2>1. /\ user.status = "none" /\ user.id < MaxAccounts /\ codes < MaxCodes /\ codes' = codes + 1
        /\ user' = [NoUser(id) EXCEPT !.status = "unverified", !.otps = 1, !.email = code]
        /\ Become(r, state) /\ UNCHANGED <<covered, sessions, devices, spent>>
    BY <1>3 DEF RegisterFresh, MayIssue
  <2>2. id \in 0..MaxAccounts /\ id > user.id /\ 1 \in 0..MaxOtps /\ code \in Code
    BY <2>1, Fields, Bounds, CodeFacts
  <2>3. state \in Requests /\ state.pc = "deliver"
    BY <2>2 DEF Requests, Delivering
  <2> HIDE DEF code, state, id
  <2>4. user' \in Users /\ user'.id = id /\ user'.status = "unverified" /\ user'.pw = 0
    <3>1. NoUser(id) \in Users /\ NoUser(id).id = id /\ NoUser(id).pw = 0
      BY <2>2, Initials DEF NoUser
    <3> QED
      BY <2>1, <2>2, <3>1 DEF Users
  <2>5. Types'
    BY <2>1, <2>3, <2>4, BecomeFacts, CodeFacts DEF Types
  <2>6. Dead /\ Dead'
    BY <2>1 DEF Inv, Accounts, Dead
  <2>7. ASSUME NEW s \in Callers PROVE FreeSignIn(s)'
    <3>1. CASE caller'[s].pc = "free"
      <4>1. caller'[s] = caller[s] /\ caller[s].id <= user.id /\ caller[s].id \in Int
        BY <2>1, <2>3, <3>1, BecomeFacts, RequestKinds DEF Inv, Accounts, FreeSignIn, FreeLogin
      <4> QED
        BY <2>2, <2>4, <4>1, Fields DEF FreeSignIn
    <3>2. CASE caller'[s].pc # "free"
      BY <3>2 DEF FreeSignIn
    <3> QED
      BY <3>1, <3>2
  <2>8. Accounts' /\ OneValid' /\ OldPasswordsOut'
    BY <2>6, <2>7 DEF Accounts, OneValid, OldPasswordsOut, Valid, Dead
  <2> QED
    BY <2>1, <2>5, <2>8, RoomKept, SameDevices DEF Inv
<1>4. ASSUME NEW r \in Callers, DeliverCode(r) PROVE Inv'
  <2>1. Become(r, Idle) /\ UNCHANGED <<codes, spent>>
    BY <1>4 DEF DeliverCode
  <2>2. NoNewSignIn
    BY <2>1, BecomeFacts, IdleState DEF NoNewSignIn
  <2>3. CASE UNCHANGED <<user, covered, sessions, devices>>
    <3>1. Types'
      BY <2>1, <2>3, BecomeFacts, IdleState DEF Types
    <3> QED
      BY <2>2, <2>3, <3>1, KeepsInv, SameSessions, SameDevices DEF SameUser
  <2>4. CASE Gone
    <3>1. Types'
      BY <2>1, <2>4, BecomeFacts, IdleState, GoneFacts DEF Types
    <3> QED
      BY <2>2, <2>4, <3>1, DeadInv, GoneFacts
  <2> QED
    BY <1>4, <2>3, <2>4 DEF DeliverCode
<1> QED
  BY <1>1, <1>2, <1>3, <1>4, VerifyEmailInv DEF RegistrationSteps

(***************************************************************************)
(* Passwords.                                                              *)
(***************************************************************************)
LEMMA ResetInv == ASSUME Inv, NEW n \in 1..codes, ResetPassword(n) PROVE Inv'
<1> Types
  BY DEF Inv
<1> DEFINE pw == user.pw + 1
<1>1. /\ user.pw < MaxPasswords /\ sessions' = Keep({}) /\ Accept(n)
      /\ UNCHANGED <<covered, devices, codes, caller>>
      /\ user' = [user EXCEPT !.pw = pw, !.reset = NoCode, !.attempts = 0, !.otps = 0]
  BY DEF ResetPassword, SessionsAfterReset, UserAfterReset, Types, Users
<1>2. pw \in 0..MaxPasswords /\ NoCode \in Code /\ 0 \in 0..(MaxAttempts - 1) /\ 0 \in 0..MaxOtps
  BY <1>1, Fields, Bounds, Initials
<1> HIDE DEF pw
<1>3. /\ user' \in Users /\ user'.id = user.id /\ user'.status = user.status
      /\ user'.premium = user.premium /\ user'.policy = user.policy
  BY <1>1, <1>2 DEF Types, Users
<1>4. sessions' \in Seq(Sessions) /\ Dead'
  BY <1>1, KeepNone
<1>5. Types'
  BY <1>1, <1>3, <1>4, AcceptType DEF Types
<1> QED
  BY <1>1, <1>3, <1>4, <1>5, DeadInv, SameDevices DEF NoNewSignIn

\* A step of a request alone.
LEMMA RequestInv ==
  ASSUME Inv, NEW r \in Callers, NEW state \in Requests, Become(r, state), state.pc # "free",
         UNCHANGED <<user, covered, sessions, devices, codes, spent>>
  PROVE  Inv'
<1>1. Types' /\ NoNewSignIn
  BY BecomeFacts DEF Inv, Types, NoNewSignIn
<1> QED
  BY <1>1, KeepsInv, SameSessions, SameDevices DEF SameUser, Inv

LEMMA StoreInv == ASSUME Inv, NEW r \in Callers, StoreChange(r) PROVE Inv'
<1> Types
  BY DEF Inv
<1>0. PICK i : i = caller[r].session
  OBVIOUS
<1> DEFINE pw == user.pw + 1
           mine == IF sessions[i].active THEN pw ELSE sessions[i].pw
<1>1. /\ user.pw < MaxPasswords /\ user' = [user EXCEPT !.pw = pw, !.reset = NoCode]
      /\ sessions' = [Keep({i}) EXCEPT ![i].pw = IF sessions[i].active THEN user.pw + 1 ELSE @]
      /\ Become(r, Idle) /\ UNCHANGED <<covered, devices, codes, spent>>
  BY <1>0 DEF StoreChange, Types, Users
<1>2. pw \in 0..MaxPasswords /\ NoCode \in Code
  BY <1>1, Fields, Bounds, Initials
<1>3. /\ user' \in Users /\ user'.id = user.id /\ user'.status = user.status
      /\ user'.premium = user.premium /\ user'.policy = user.policy /\ user'.exempt = user.exempt
      /\ user'.pw = pw
  <2> HIDE DEF pw
  <2> QED
    BY <1>1, <1>2 DEF Types, Users
<1>4. /\ sessions' \in Seq(Sessions) /\ DOMAIN sessions' = DOMAIN sessions
      /\ \A j \in DOMAIN sessions \ {i} : ~sessions'[j].active
      /\ i \in DOMAIN sessions /\ sessions'[i].active =>
            /\ sessions[i].active /\ sessions'[i].policy = sessions[i].policy
            /\ sessions'[i].pw = pw
  <2> DEFINE base == Keep({i})
  <2>1. /\ base \in Seq(Sessions) /\ DOMAIN base = DOMAIN sessions /\ Len(base) \in Nat
        /\ DOMAIN base = 1..Len(base)
        /\ \A j \in DOMAIN sessions : base[j] = IF j = i THEN sessions[j] ELSE Ended
    BY KeepFacts, LenProperties
  <2>2. CASE i \in DOMAIN sessions
    <3> DEFINE s == [sessions[i] EXCEPT !.pw = mine]
    <3>1. sessions[i] \in Sessions /\ mine \in 0..MaxPasswords
      BY <1>2, <2>2, SessionType DEF Sessions
    <3>2. /\ s \in Sessions /\ s.active = sessions[i].active /\ s.policy = sessions[i].policy
          /\ s.pw = mine
      <4> HIDE DEF mine
      <4> QED
        BY <3>1 DEF Sessions
    <3>3. sessions' = [base EXCEPT ![i] = s]
      BY <1>1, <2>1, <2>2, <3>1 DEF Sessions
    <3> HIDE DEF base, s
    <3>4. sessions' \in Seq(Sessions) /\ DOMAIN sessions' = DOMAIN base
          /\ \A j \in DOMAIN base : sessions'[j] = IF j = i THEN s ELSE base[j]
      BY <2>1, <2>2, <3>2, <3>3, ExceptSeq, LenProperties
    <3> QED
      BY <2>1, <2>2, <3>2, <3>4, Initials
  <2>3. CASE i \notin DOMAIN sessions
    <3> DEFINE s == [base[i] EXCEPT !.pw = IF sessions[i].active THEN user.pw + 1 ELSE @]
    <3>1. sessions' = [base EXCEPT ![i] = s]
      BY <1>1
    <3> HIDE DEF base, s
    <3>2. base \in [1..Len(base) -> Sessions]
      BY <2>1, LenProperties
    <3>3. /\ sessions' \in [1..Len(base) -> Sessions]
          /\ \A j \in DOMAIN base : sessions'[j] = base[j]
      BY <2>1, <2>3, <3>1, <3>2
    <3>4. sessions' \in Seq(Sessions)
      BY <2>1, <3>3, SeqDef
    <3>5. DOMAIN sessions' = DOMAIN sessions
      BY <2>1, <3>3
    <3>6. \A j \in DOMAIN sessions : ~sessions'[j].active
      BY <2>1, <2>3, <3>3, Initials
    <3> QED
      BY <2>3, <3>4, <3>5, <3>6
  <2> QED
    BY <2>2, <2>3
<1>5. Types' /\ NoNewSignIn
  BY <1>1, <1>3, <1>4, BecomeFacts, IdleState DEF Types, NoNewSignIn
<1> HIDE DEF pw
<1>6. Accounts'
  BY <1>3, <1>4, <1>5 DEF Inv, Accounts, NoNewSignIn, FreeSignIn, Dead
<1>7. OneValid'
  <2>1. \A j \in DOMAIN sessions' : Valid(j)' => j = i /\ j \in Int
    BY <1>4, SessionType DEF Valid
  <2> QED
    BY <2>1 DEF OneValid
<1>8. OldPasswordsOut'
  BY <1>3, <1>4 DEF OldPasswordsOut, Valid
<1> QED
  BY <1>1, <1>5, <1>6, <1>7, <1>8, RoomKept, SameDevices DEF Inv

LEMMA PasswordInv == ASSUME Inv, PasswordSteps PROVE Inv'
<1> Types
  BY DEF Inv
<1>1. ASSUME NEW r \in Callers, NEW i \in DOMAIN sessions, StartChange(r, i) PROVE Inv'
  <2> DEFINE state == [pc |-> "change", session |-> i, id |-> user.id]
  <2>1. state \in Requests /\ state.pc = "change"
    BY SessionType, Fields DEF Requests, Changing
  <2> HIDE DEF state
  <2> QED
    BY <1>1, <2>1, RequestInv DEF StartChange, state
<1>2. ASSUME NEW r \in Callers, FindCurrentSession(r) PROVE Inv'
  <2> DEFINE state == [caller[r] EXCEPT !.pc = "store"]
  <2>1. caller[r] \in Changing
    BY <1>2, RequestKinds DEF FindCurrentSession, At
  <2>2. state \in Requests /\ state.pc = "store"
    BY <2>1 DEF Requests, Changing
  <2> HIDE DEF state
  <2> QED
    BY <1>2, <2>2, RequestInv DEF FindCurrentSession, state
<1> QED
  BY <1>1, <1>2, IssueResetInv, ResetFailsInv, ResetInv, StoreInv DEF PasswordSteps, ForgotPassword,
     ResendReset

(***************************************************************************)
(* Sign-in.                                                                *)
(***************************************************************************)
LEMMA RoomForOne ==
  ASSUME Inv, NEW e \in Devices, Verified' \subseteq Verified \cup {e}, e \in Verified \/ HasRoom
  PROVE  Room'
<1>1. CASE e \in Verified
  <2>1. Verified' \subseteq Verified
    BY <1>1
  <2> QED
    BY <2>1, RoomKept DEF Inv
<1>2. CASE e \notin Verified /\ HasRoom
  <2>1. IsFiniteSet(Verified)
    BY FS_Subset DEF Verified
  <2>2. IsFiniteSet(Verified \cup {e}) /\ Cardinality(Verified \cup {e}) = Cardinality(Verified) + 1
    BY <1>2, <2>1, FS_AddElement
  <2>3. IsFiniteSet(Verified') /\ Cardinality(Verified') <= Cardinality(Verified \cup {e})
    BY <2>2, FS_Subset
  <2>4. Cardinality(Verified) \in Nat /\ Cardinality(Verified') \in Nat
    BY <2>1, <2>3, FS_CardinalityType
  <2> QED
    BY <1>2, <2>2, <2>3, <2>4, Bounds DEF Room, HasRoom
<1> QED
  BY <1>1, <1>2

LEMMA KnownDevices == ASSUME NEW d \in Devices PROVE Known(d) \subseteq Devices
BY DEF Known, Found

\* The end of a sign-in from a premium device, of e with these rows.
LEMMA CompleteInv ==
  ASSUME Inv, NEW e \in Devices, NEW rows \in [Devices -> DeviceRows], NEW pw \in 0..MaxPasswords,
         CompleteLogin(e, rows, pw), UNCHANGED <<user, covered, codes>>,
         \A d \in Devices : rows[d].status = "verified" => d \in Verified,
         e \in Verified \/ HasRoom, user.status = "verified", NoNewSignIn,
         spent' \in [1..MaxCodes -> Nat], caller' \in [Callers -> Requests]
  PROVE  Inv'
<1> Types
  BY DEF Inv
<1> DEFINE new == NewSession(e, user.policy, pw)
<1>1. sessions' = Append(Keep({}), new) /\ devices' = [rows EXCEPT ![e] = Trusted]
  BY DEF CompleteLogin
<1>2. new \in Sessions /\ new.late = (new.pw # user.pw)
  BY NewSessionFacts, Fields
<1> HIDE DEF new
<1>3. sessions' \in Seq(Sessions)
  <2> DEFINE base == Keep({})
  <2>1. base \in Seq(Sessions)
    BY KeepFacts
  <2> HIDE DEF base
  <2>2. Append(base, new) \in Seq(Sessions)
    BY <1>2, <2>1, AppendFacts
  <2> QED
    BY <1>1, <2>2 DEF base
<1>4. devices' \in [Devices -> DeviceRows] /\ Verified' \subseteq Verified \cup {e}
  BY <1>1, Initials DEF Verified
<1>5. Types'
  BY <1>3, <1>4 DEF Types
<1>6. Room'
  BY <1>4, RoomForOne
<1> QED
  BY <1>1, <1>2, <1>5, <1>6, OnlyInv

LEMMA StartLoginInv ==
  ASSUME Inv, NEW r \in Callers, NEW d \in Devices, StartLogin(r, d) PROVE Inv'
<1> Types
  BY DEF Inv
<1> DEFINE managed == [pc |-> "managed", id |-> user.id, pw |-> user.pw, device |-> d]
           free == [pc |-> "free", id |-> user.id, pw |-> user.pw, policy |-> user.policy]
<1>1. /\ user.status = "verified" /\ Become(r, IF user.premium THEN managed ELSE free)
      /\ UNCHANGED <<user, covered, sessions, devices, codes, spent>>
  BY DEF StartLogin
<1>2. managed \in Managed /\ managed.pc = "managed"
  BY Fields DEF Managed
<1>3. free \in FreeLogin /\ free.pc = "free" /\ free.id = user.id /\ free.policy = user.policy
  BY Fields DEF FreeLogin
<1> HIDE DEF managed, free
<1>4. CASE user.premium
  BY <1>1, <1>2, <1>4, RequestInv DEF Requests
<1>5. CASE ~user.premium
  <2>1. /\ caller' \in [Callers -> Requests] /\ caller'[r] = free
        /\ \A s \in Callers \ {r} : caller'[s] = caller[s]
    BY <1>1, <1>3, <1>5, BecomeFacts DEF Requests
  <2>2. Types'
    BY <1>1, <2>1 DEF Types
  <2>3. user.id \in Int /\ user.policy \in Int
    BY Fields
  <2>4. FreeSignIn(r)'
    BY <1>1, <1>3, <1>5, <2>1, <2>3 DEF FreeSignIn
  <2>5. Accounts'
    BY <1>1, <2>1, <2>4 DEF Inv, Accounts, FreeSignIn, Dead
  <2>6. OneValid' /\ OldPasswordsOut'
    BY <1>1 DEF Inv, OneValid, OldPasswordsOut, Valid
  <2> QED
    BY <1>1, <2>2, <2>5, <2>6, RoomKept, SameDevices DEF Inv
<1> QED
  BY <1>4, <1>5

\* A request opens a session and ends.
LEMMA OpenOneInv ==
  ASSUME Inv, NEW r \in Callers, NEW new \in Sessions, sessions' = Append(sessions, new),
         Become(r, Idle), UNCHANGED <<user, covered, devices, codes, spent>>,
         user.status = "verified", new.late = (new.pw # user.pw),
         user.premium => new.policy # user.policy \/ new.exempt
  PROVE  Inv'
<1> Types
  BY DEF Inv
<1>1. sessions' \in Seq(Sessions)
  BY AppendFacts DEF Types
<1>2. Types' /\ NoNewSignIn
  BY <1>1, BecomeFacts, IdleState DEF Types, NoNewSignIn
<1> QED
  BY <1>2, OpenInv, SameDevices

\* The session an admin opens.
LEMMA ExemptSession ==
  ASSUME Types, NEW d \in Devices \cup {NoDevice}, NEW pw \in 0..MaxPasswords
  PROVE  LET new == [NewSession(d, user.policy, pw) EXCEPT !.exempt = TRUE]
         IN  new \in Sessions /\ new.exempt /\ new.late = (new.pw # user.pw)
<1> DEFINE plain == NewSession(d, user.policy, pw)
<1>1. plain \in Sessions /\ plain.late = (plain.pw # user.pw)
  BY NewSessionFacts, Fields
<1> HIDE DEF plain
<1>2. [plain EXCEPT !.exempt = TRUE] \in Sessions /\ [plain EXCEPT !.exempt = TRUE].exempt
      /\ [plain EXCEPT !.exempt = TRUE].late = plain.late
      /\ [plain EXCEPT !.exempt = TRUE].pw = plain.pw
  BY <1>1 DEF Sessions
<1> QED
  BY <1>1, <1>2 DEF plain

LEMMA CreateFreeInv == ASSUME Inv, NEW r \in Callers, CreateFreeSession(r) PROVE Inv'
<1> Types
  BY DEF Inv
<1>1. PICK policy, pw : policy = caller[r].policy /\ pw = caller[r].pw
  OBVIOUS
<1>2. caller[r] \in FreeLogin /\ caller[r].pc = "free"
  BY RequestKinds DEF CreateFreeSession, At
<1>3. policy \in 0..MaxPolicy /\ pw \in 0..MaxPasswords
  BY <1>1, <1>2 DEF FreeLogin
<1>4. user.status = "verified" /\ (user.premium => policy < user.policy)
  BY <1>1, <1>2 DEF CreateFreeSession, Inv, Accounts, FreeSignIn
<1>5. user.premium => policy # user.policy
  BY <1>3, <1>4, Fields
<1>6. /\ sessions' = Append(sessions, NewSession(NoDevice, policy, pw)) /\ Become(r, Idle)
      /\ UNCHANGED <<user, covered, devices, codes, spent>>
  BY <1>1 DEF CreateFreeSession
<1> DEFINE new == NewSession(NoDevice, policy, pw)
<1>7. new \in Sessions /\ new.policy = policy /\ new.late = (new.pw # user.pw)
  BY <1>3, NewSessionFacts
<1> HIDE DEF new
<1>8. sessions' = Append(sessions, new)
  BY <1>6 DEF new
<1> QED
  BY <1>4, <1>5, <1>6, <1>7, <1>8, OpenOneInv

LEMMA OnlyPendingFacts ==
  ASSUME Types, NEW e \in Devices
  PROVE  /\ OnlyPending(e) \in [Devices -> DeviceRows]
         /\ \A d \in Devices : OnlyPending(e)[d].status = "verified" => d \in Verified
<1>1. \A d \in Devices : NoDevices[d] \in DeviceRows /\ NoDevices[d].status # "verified"
  <2>1. \A d \in Devices : NoDevices[d] \in DeviceRows
    BY Initials
  <2> QED
    BY <2>1 DEF NoDevices
<1>2. \A d \in Devices : OnlyPending(e)[d] = IF d # e /\ devices[d].status = "pending"
                                             THEN NoDevices[d] ELSE devices[d]
  BY DEF OnlyPending
<1>3. OnlyPending(e) \in [Devices -> DeviceRows]
  BY <1>1 DEF OnlyPending, Types
<1> QED
  BY <1>1, <1>2, <1>3 DEF Verified

LEMMA LoginManagedInv == ASSUME Inv, NEW r \in Callers, LoginManaged(r) PROVE Inv'
<1> Types
  BY DEF Inv
<1>1. PICK d, pw : d = caller[r].device /\ pw = caller[r].pw
  OBVIOUS
<1>2. caller[r] \in Managed
  BY RequestKinds DEF LoginManaged, At
<1>3. d \in Devices /\ pw \in 0..MaxPasswords
  BY <1>1, <1>2 DEF Managed
<1>4. user.status = "verified" /\ Become(r, Idle) /\ UNCHANGED <<covered, spent>>
  BY DEF LoginManaged
<1>5. NoNewSignIn /\ caller' \in [Callers -> Requests] /\ spent' \in [1..MaxCodes -> Nat]
  BY <1>4, BecomeFacts, IdleState DEF NoNewSignIn, Types
<1>6. ASSUME UNCHANGED <<user, devices, codes>>, ~user.premium,
             sessions' = Append(sessions, NewSession(NoDevice, user.policy, pw))
      PROVE  Inv'
  <2> DEFINE new == NewSession(NoDevice, user.policy, pw)
  <2>1. new \in Sessions /\ new.late = (new.pw # user.pw)
    BY <1>3, NewSessionFacts, Fields
  <2> HIDE DEF new
  <2>2. sessions' = Append(sessions, new)
    BY <1>6 DEF new
  <2> QED
    BY <1>4, <1>6, <2>1, <2>2, OpenOneInv
<1>12. ASSUME UNCHANGED <<user, devices, codes>>,
              sessions' = Append(sessions, [NewSession(d, user.policy, pw) EXCEPT !.exempt = TRUE])
       PROVE  Inv'
  <2> DEFINE new == [NewSession(d, user.policy, pw) EXCEPT !.exempt = TRUE]
  <2>1. new \in Sessions /\ new.exempt /\ new.late = (new.pw # user.pw)
    BY <1>3, ExemptSession
  <2> HIDE DEF new
  <2>2. sessions' = Append(sessions, new)
    BY <1>12 DEF new
  <2> QED
    BY <1>4, <1>12, <2>1, <2>2, OpenOneInv
<1>7. ASSUME NEW e \in Devices, e \in Verified, CompleteLogin(e, devices, pw),
             UNCHANGED <<user, codes>>
      PROVE  Inv'
  BY <1>3, <1>4, <1>5, <1>7, CompleteInv DEF Verified, Types
<1>8. ASSUME NEW e \in Devices, Verified = {}, CompleteLogin(e, OnlyPending(e), pw),
             UNCHANGED <<user, codes>>
      PROVE  Inv'
  <2>1. HasRoom
    BY <1>8, FS_EmptySet, Bounds DEF HasRoom
  <2> QED
    BY <1>3, <1>4, <1>5, <1>8, <2>1, OnlyPendingFacts, CompleteInv
<1>9. ASSUME NEW e \in Devices, devices[e].status # "verified", HasQuota, MayIssue,
             user' = [user EXCEPT !.otps = @ + 1], UNCHANGED sessions,
             devices' = [OnlyPending(e) EXCEPT ![e] = [status |-> "pending", code |-> Fresh("live")]]
      PROVE  Inv'
  <2> DEFINE otps == user.otps + 1
             row == [status |-> "pending", code |-> Fresh("live")]
  <2>a. user.otps \in 0..MaxOtps /\ MaxOtps \in Nat
    BY Fields, Bounds
  <2>b. otps \in 0..MaxOtps
    BY <1>9, <2>a DEF HasQuota
  <2>1. otps \in 0..MaxOtps /\ user' = [user EXCEPT !.otps = otps]
    BY <1>9, <2>b
  <2>2. codes' \in 0..MaxCodes /\ Fresh("live") \in Code
    BY <1>9, CodeFacts DEF MayIssue
  <2>3. row \in DeviceRows /\ row.status # "verified"
    BY <2>2 DEF DeviceRows
  <2> HIDE DEF otps, row
  <2>4. user' \in Users /\ SameUser
    BY <2>1 DEF Types, Users, SameUser
  <2>5. devices' = [OnlyPending(e) EXCEPT ![e] = row]
    BY <1>9 DEF row
  <2>6. devices' \in [Devices -> DeviceRows] /\ Verified' \subseteq Verified
    BY <2>3, <2>5, OnlyPendingFacts DEF Verified
  <2>7. Types'
    BY <1>4, <1>5, <1>9, <2>2, <2>4, <2>6 DEF Types
  <2> QED
    BY <1>5, <1>9, <2>4, <2>6, <2>7, KeepsInv, SameSessions
<1>10. \A e \in Known(d) : e \in Devices
  BY <1>3, KnownDevices
<1>11. \A e \in IF Known(d) = {} THEN {d} ELSE Known(d) : e \in Devices
  BY <1>3, <1>10
<1> QED
  BY <1>1, <1>6, <1>7, <1>8, <1>9, <1>10, <1>11, <1>12, <1>3 DEF LoginManaged, Verified

LEMMA VerifyDeviceInv ==
  ASSUME Inv, NEW n \in 1..codes, NEW d \in Devices, VerifyDevice(d, n) PROVE Inv'
<1> Types
  BY DEF Inv
<1>1. PICK e \in Known(d) : HasRoom /\ CompleteLogin(e, devices, user.pw)
  BY DEF VerifyDevice
<1>2. e \in Devices
  BY <1>1, KnownDevices
<1>3. user.status = "verified" /\ Accept(n) /\ UNCHANGED <<user, covered, codes, caller>>
  BY DEF VerifyDevice
<1>4. NoNewSignIn /\ caller' \in [Callers -> Requests] /\ spent' \in [1..MaxCodes -> Nat]
  BY <1>3, AcceptType DEF NoNewSignIn, Types
<1>5. \A x \in Devices : devices[x].status = "verified" => x \in Verified
  BY DEF Verified
<1>6. devices \in [Devices -> DeviceRows] /\ user.pw \in 0..MaxPasswords
  BY Fields DEF Types
<1> QED
  BY <1>1, <1>2, <1>3, <1>4, <1>5, <1>6, CompleteInv

LEMMA SignInInv == ASSUME Inv, SignInSteps PROVE Inv'
BY CreateFreeInv, LoginManagedInv, StartLoginInv, VerifyDeviceInv DEF SignInSteps

(***************************************************************************)
(* Refreshes, the account's end, admins and removals.                      *)
(***************************************************************************)
\* A session changes in place and none becomes valid.
LEMMA SessionInv ==
  ASSUME Inv, NEW i \in DOMAIN sessions, NEW s \in Sessions, sessions' = [sessions EXCEPT ![i] = s],
         s.active => /\ sessions[i].active /\ s.policy = sessions[i].policy
                     /\ s.pw = sessions[i].pw /\ s.late = sessions[i].late
                     /\ s.exempt = sessions[i].exempt,
         UNCHANGED <<user, covered, devices, codes, spent>>,
         caller' \in [Callers -> Requests], NoNewSignIn
  PROVE  Inv'
<1>1. Types
  BY DEF Inv
<1>2. /\ sessions' \in Seq(Sessions) /\ DOMAIN sessions' = DOMAIN sessions
      /\ \A j \in DOMAIN sessions : sessions'[j] = IF j = i THEN s ELSE sessions[j]
  BY <1>1, ExceptFacts
<1>3. Types' /\ FewerSessions
  BY <1>1, <1>2 DEF Types, FewerSessions
<1> QED
  BY <1>3, KeepsInv, SameDevices DEF SameUser

LEMMA EndSessionInv ==
  ASSUME Inv, NEW i \in DOMAIN sessions, EndSession(i),
         UNCHANGED <<user, covered, devices, codes, spent, caller>>
  PROVE  Inv'
BY SessionInv, Initials DEF EndSession, Inv, Types, NoNewSignIn

LEMMA RefreshInv == ASSUME Inv, \A r \in Callers : Referring(r), RefreshSteps PROVE Inv'
<1> Types
  BY DEF Inv
<1>1. ASSUME NEW i \in DOMAIN sessions, RefreshRevokes(i) PROVE Inv'
  BY <1>1, EndSessionInv DEF RefreshRevokes
<1>2. ASSUME NEW i \in DOMAIN sessions, AgeSession(i) PROVE Inv'
  <2> DEFINE s == [sessions[i] EXCEPT !.aged = TRUE]
  <2>1. /\ s \in Sessions /\ s.active = sessions[i].active /\ s.policy = sessions[i].policy
        /\ s.pw = sessions[i].pw /\ s.late = sessions[i].late
        /\ s.exempt = sessions[i].exempt
    BY SessionType DEF Sessions
  <2>2. sessions' = [sessions EXCEPT ![i] = s]
        /\ UNCHANGED <<user, covered, devices, codes, spent, caller>>
    BY <1>2 DEF AgeSession
  <2> HIDE DEF s
  <2> QED
    BY <2>1, <2>2, SessionInv DEF Types, NoNewSignIn
<1>3. ASSUME NEW r \in Callers, Rotate(r) PROVE Inv'
  <2>1. PICK i, v : i = caller[r].session /\ v = caller[r].asked
    OBVIOUS
  <2>2. caller[r] \in Refreshing
    BY <1>3, RequestKinds DEF Rotate, At
  <2>3. UNCHANGED <<user, covered, devices, codes, spent>>
    BY <1>3 DEF Rotate
  <2>4. CASE MayRotate(i, v)
    <3> DEFINE state == [caller[r] EXCEPT !.pc = "answered", !.version = v + 1]
               version == sessions[i].version + 1
               s == [sessions[i] EXCEPT !.version = version]
    <3>1. state \in Requests /\ state.pc = "answered"
      <4>1. v + 1 \in Nat
        BY <2>1, <2>2 DEF Refreshing
      <4> QED
        BY <2>2, <4>1 DEF Requests, Refreshing
    <3>2. sessions' = [sessions EXCEPT ![i].version = @ + 1] /\ Become(r, state)
          /\ sessions[i].version < MaxVersion
      BY <1>3, <2>1, <2>4 DEF Rotate
    <3>3. caller' \in [Callers -> Requests] /\ NoNewSignIn
      <4> HIDE DEF state
      <4> QED
        BY <3>1, <3>2, BecomeFacts DEF NoNewSignIn
    <3>4. i \in DOMAIN sessions
      BY <1>3, <2>1 DEF Rotate, At, Referring
    <3> QED
      <4>1. sessions[i] \in Sessions /\ version \in 0..MaxVersion
        <5>1. sessions[i] \in Sessions
          BY <3>4, SessionType
        <5>2. sessions[i].version \in 0..MaxVersion
          BY <5>1 DEF Sessions
        <5> QED
          BY <3>2, <5>1, <5>2, Bounds
      <4>2. /\ s \in Sessions /\ s.active = sessions[i].active /\ s.policy = sessions[i].policy
            /\ s.pw = sessions[i].pw /\ s.late = sessions[i].late
            /\ s.exempt = sessions[i].exempt
        <5> HIDE DEF version
        <5> QED
          BY <4>1 DEF Sessions
      <4>3. sessions' = [sessions EXCEPT ![i] = s]
        BY <3>2, <3>4, <4>1 DEF Sessions
      <4> HIDE DEF s
      <4> QED
        BY <2>3, <3>3, <3>4, <4>2, <4>3, SessionInv
  <2>5. CASE ~MayRotate(i, v)
    <3> DEFINE state == [caller[r] EXCEPT !.pc = "recheck"]
    <3>1. state \in Requests /\ state.pc = "recheck"
      BY <2>2 DEF Requests, Refreshing
    <3>2. Become(r, state) /\ UNCHANGED sessions
      BY <1>3, <2>1, <2>5 DEF Rotate
    <3> HIDE DEF state
    <3> QED
      BY <2>3, <3>1, <3>2, RequestInv
  <2> QED
    BY <2>4, <2>5
<1>4. ASSUME NEW r \in Callers, Recheck(r) PROVE Inv'
  <2>1. PICK i, v : i = caller[r].session /\ v = caller[r].asked
    OBVIOUS
  <2>2. caller[r] \in Refreshing
    BY <1>4, RequestKinds DEF Recheck, At
  <2>3. UNCHANGED <<user, covered, sessions, devices, codes, spent>>
    BY <1>4 DEF Recheck
  <2> DEFINE answered == [caller[r] EXCEPT !.pc = "answered", !.version = sessions[i].version]
             rejected == [caller[r] EXCEPT !.pc = "rejected"]
  <2>4. CASE Valid(i) /\ ~user.banned /\ v = sessions[i].version - 1
    <3>1. Become(r, answered)
      BY <1>4, <2>1, <2>4 DEF Recheck
    <3>2. sessions[i].version \in Nat
      BY <1>4, <2>1, SessionType, Bounds DEF Recheck, At, Referring, Sessions
    <3>3. answered \in Requests /\ answered.pc = "answered"
      BY <2>2, <3>2 DEF Requests, Refreshing
    <3> HIDE DEF answered
    <3> QED
      BY <2>3, <3>1, <3>3, RequestInv
  <2>5. CASE ~(Valid(i) /\ ~user.banned /\ v = sessions[i].version - 1)
    <3>1. Become(r, rejected)
      BY <1>4, <2>1, <2>5 DEF Recheck
    <3>2. rejected \in Requests /\ rejected.pc = "rejected"
      BY <2>2 DEF Requests, Refreshing
    <3> HIDE DEF rejected
    <3> QED
      BY <2>3, <3>1, <3>2, RequestInv
  <2> QED
    BY <2>4, <2>5
<1>5. ASSUME NEW r \in Callers, FinishRefresh(r) PROVE Inv'
  BY <1>5, RequestInv, IdleState DEF FinishRefresh
<1>6. ASSUME NEW r \in Callers, NEW i \in DOMAIN sessions, NEW v \in 0..MaxVersion,
             StartRefresh(r, i, v)
      PROVE  Inv'
  <2> DEFINE decision == Decision(sessions[i].version, v)
             version == IF decision = "answered" THEN sessions[i].version ELSE v
             state == [pc |-> decision, session |-> i, asked |-> v, version |-> version]
  <2>1. Become(r, state) /\ UNCHANGED <<user, covered, sessions, devices, codes, spent>>
    BY <1>6 DEF StartRefresh
  <2>2. decision \in {"rotate", "answered", "rejected"} /\ version \in Nat /\ i \in Nat /\ v \in Nat
    BY SessionType, Bounds DEF Decision, Sessions
  <2> HIDE DEF decision, version
  <2>3. state \in Requests /\ state.pc # "free"
    BY <2>2 DEF Requests, Refreshing
  <2> HIDE DEF state
  <2> QED
    BY <2>1, <2>3, RequestInv
<1> QED
  BY <1>1, <1>2, <1>3, <1>4, <1>5, <1>6 DEF RefreshSteps

LEMMA AccountInv == ASSUME Inv, AccountSteps PROVE Inv'
<1> Types
  BY DEF Inv
<1>1. CASE BanUser
  <2>1. user' = [user EXCEPT !.banned = TRUE] /\ sessions' = Keep({})
        /\ UNCHANGED <<covered, devices, codes, spent, caller>>
    BY <1>1 DEF BanUser
  <2>2. user' \in Users /\ SameUser
    BY <2>1 DEF Types, Users, SameUser
  <2>3. Dead' /\ sessions' \in Seq(Sessions)
    BY <2>1, KeepNone
  <2>4. Types'
    BY <2>1, <2>2, <2>3 DEF Types
  <2> QED
    BY <2>1, <2>2, <2>3, <2>4, DeadInv, SameDevices DEF SameUser, NoNewSignIn
<1>2. CASE UnbanUser
  <2>1. user' = [user EXCEPT !.banned = FALSE]
        /\ UNCHANGED <<covered, sessions, devices, codes, spent, caller>>
    BY <1>2 DEF UnbanUser
  <2>2. user' \in Users /\ SameUser
    BY <2>1 DEF Types, Users, SameUser
  <2> QED
    BY <2>1, <2>2, ColumnsInv, SameDevices DEF Types
<1>3. ASSUME NEW i \in DOMAIN sessions, Logout(i) PROVE Inv'
  BY <1>3, EndSessionInv DEF Logout
<1>4. ASSUME NEW i \in DOMAIN sessions, DeleteAccount(i) PROVE Inv'
  <2>1. Gone /\ UNCHANGED <<codes, spent, caller>>
    BY <1>4 DEF DeleteAccount
  <2>2. Types'
    BY <2>1, GoneFacts DEF Types
  <2> QED
    BY <2>1, <2>2, GoneFacts, DeadInv DEF NoNewSignIn
<1> QED
  BY <1>1, <1>2, <1>3, <1>4 DEF AccountSteps

LEMMA RoleInv == ASSUME Inv, RoleSteps PROVE Inv'
<1> Types
  BY DEF Inv
<1> DEFINE exempt == ~user.exempt
<1>1. user' = [user EXCEPT !.exempt = exempt] /\ exempt \in BOOLEAN
      /\ UNCHANGED <<covered, sessions, devices, codes, spent, caller>>
  BY DEF RoleSteps, ChangeRole, Types, Users
<1> HIDE DEF exempt
<1>2. user' \in Users /\ SameUser
  BY <1>1 DEF Types, Users, SameUser
<1> QED
  BY <1>1, <1>2, ColumnsInv, SameDevices DEF Types

LEMMA RemovalInv == ASSUME Inv, RemovalSteps PROVE Inv'
<1> Types
  BY DEF Inv
<1>1. ASSUME NEW r \in Callers, NEW d \in Devices, StartRemoval(r, d) PROVE Inv'
  <2> DEFINE held == {i \in DOMAIN sessions : sessions[i].active /\ sessions[i].device = d}
             state == [pc |-> "remove", device |-> d, policy |-> user.policy, id |-> user.id,
                       held |-> held]
  <2>1. Become(r, state) /\ UNCHANGED <<user, covered, sessions, devices, codes, spent>>
    BY <1>1 DEF StartRemoval
  <2>2. held \in SUBSET Nat
    BY SessionType
  <2> HIDE DEF held
  <2>3. state \in Requests /\ state.pc # "free"
    BY <2>2, Fields DEF Requests, Removing
  <2> HIDE DEF state
  <2> QED
    BY <2>1, <2>3, RequestInv
<1>2. ASSUME NEW r \in Callers, FinishRemoval(r) PROVE Inv'
  <2>0. PICK d, held : d = caller[r].device /\ held = caller[r].held
    OBVIOUS
  <2>1. d \in Devices
    BY <1>2, <2>0, RequestKinds DEF FinishRemoval, At, Removing
  <2>2. /\ sessions' = Keep(DOMAIN sessions \ held)
        /\ devices' = [devices EXCEPT ![d] = NoDevices[d]]
        /\ Become(r, Idle) /\ UNCHANGED <<user, covered, codes, spent>>
    BY <1>2, <2>0 DEF FinishRemoval
  <2>3. sessions' \in Seq(Sessions) /\ FewerSessions
    <3> DEFINE kept == DOMAIN sessions \ held
    <3>1. sessions' = Keep(kept)
      BY <2>2
    <3> HIDE DEF kept
    <3> QED
      BY <3>1, KeepFacts, Initials DEF FewerSessions
  <2>4. devices' \in [Devices -> DeviceRows] /\ Verified' \subseteq Verified
    <3>1. NoDevices[d] \in DeviceRows /\ NoDevices[d].status # "verified"
      <4>1. NoDevices[d] \in DeviceRows
        BY <2>1, Initials
      <4> QED
        BY <2>1, <4>1 DEF NoDevices
    <3> QED
      BY <2>1, <2>2, <3>1 DEF Verified, Types
  <2>5. Types' /\ NoNewSignIn
    BY <2>2, <2>3, <2>4, BecomeFacts, IdleState DEF Types, NoNewSignIn
  <2> QED
    BY <2>2, <2>3, <2>4, <2>5, KeepsInv DEF SameUser
<1> QED
  BY <1>1, <1>2 DEF RemovalSteps

LEMMA NextInv ==
  ASSUME Inv, \A r \in Callers : Referring(r), [AuthNext]_authVars PROVE Inv'
<1>1. CASE UNCHANGED authVars
  <2>1. UNCHANGED <<user, covered, sessions, devices, codes, spent, caller>>
    BY <1>1 DEF authVars
  <2> QED
    BY <2>1, ColumnsInv, SameDevices DEF Inv, Types, SameUser
<1>2. CASE Refusals
  BY <1>2, RequestInv, IdleState DEF Refusals, GiveUp
<1> QED
  BY <1>1, <1>2, PremiumInv, RegistrationInv, PasswordInv, SignInInv, RefreshInv, AccountInv,
     RemovalInv, RoleInv, ClockInv DEF AuthNext


(***************************************************************************)
(* Refreshes that race.                                                    *)
(***************************************************************************)
\* No session is forgotten, comes back to life or gets an older token.
Onward ==
    \A i \in DOMAIN sessions :
        /\ i \in DOMAIN sessions'
        /\ sessions'[i].active => sessions[i].active /\ sessions[i].version <= sessions'[i].version

LEMMA OnwardSame == ASSUME Types, sessions' = sessions PROVE Onward
<1>1. \A i \in DOMAIN sessions : sessions[i].version \in Int
  BY SessionType DEF Sessions
<1> QED
  BY <1>1 DEF Onward

LEMMA OnwardKeep == ASSUME Types, NEW kept, sessions' = Keep(kept) PROVE Onward
<1>1. \A i \in DOMAIN sessions : sessions[i].version \in Int
  BY SessionType DEF Sessions
<1> QED
  BY <1>1, KeepFacts, Initials DEF Onward

LEMMA OnwardAppend ==
  ASSUME Types, NEW new \in Sessions, NEW base \in {sessions, Keep({})}, sessions' = Append(base, new)
  PROVE  Onward
<1>1. \A i \in DOMAIN sessions : sessions[i].version \in Int
  BY SessionType DEF Sessions
<1>2. /\ base \in Seq(Sessions) /\ DOMAIN base = DOMAIN sessions
      /\ \A i \in DOMAIN sessions : base[i].active => base[i] = sessions[i]
  BY KeepFacts, Initials DEF Types
<1>3. DOMAIN sessions \subseteq DOMAIN sessions' /\ \A i \in DOMAIN sessions : sessions'[i] = base[i]
  BY <1>2, AppendFacts
<1> QED
  BY <1>1, <1>2, <1>3 DEF Onward

LEMMA OnwardExcept ==
  ASSUME Types, NEW i, NEW s, sessions' = [sessions EXCEPT ![i] = s],
         i \in DOMAIN sessions /\ s.active => sessions[i].active /\ sessions[i].version <= s.version
  PROVE  Onward
<1>1. \A j \in DOMAIN sessions : sessions[j].version \in Int
  BY SessionType DEF Sessions
<1> QED
  BY <1>1 DEF Onward

LEMMA OnwardNew ==
  ASSUME Types, NEW d \in Devices \cup {NoDevice}, NEW policy \in 0..MaxPolicy,
         NEW pw \in 0..MaxPasswords, NEW base \in {sessions, Keep({})},
         sessions' = Append(base, NewSession(d, policy, pw))
  PROVE  Onward
BY NewSessionFacts, OnwardAppend

LEMMA StoreOnward == ASSUME Inv, NEW r \in Callers, StoreChange(r) PROVE Onward
<1> Types
  BY DEF Inv
<1>0. PICK i : i = caller[r].session
  OBVIOUS
<1>1. \A j \in DOMAIN sessions : sessions[j].version \in Int
  BY SessionType DEF Sessions
<1> DEFINE base == Keep({i})
           s == [base[i] EXCEPT !.pw = IF sessions[i].active THEN user.pw + 1 ELSE @]
<1>2. sessions' = [base EXCEPT ![i] = s]
  BY <1>0 DEF StoreChange
<1>3. /\ DOMAIN base = DOMAIN sessions
      /\ \A j \in DOMAIN sessions : base[j] = IF j = i THEN sessions[j] ELSE Ended
  BY KeepFacts
<1>4. i \in DOMAIN sessions => s.active = sessions[i].active /\ s.version = sessions[i].version
  BY <1>3, SessionType DEF Sessions
<1> HIDE DEF base, s
<1>5. /\ DOMAIN sessions' = DOMAIN sessions
      /\ \A j \in DOMAIN sessions : sessions'[j] = IF j = i THEN s ELSE Ended
  BY <1>2, <1>3
<1> QED
  BY <1>1, <1>4, <1>5, Initials DEF Onward

LEMMA SignInOnward == ASSUME Inv, SignInSteps PROVE Onward
<1> Types
  BY DEF Inv
<1>1. ASSUME NEW r \in Callers, CreateFreeSession(r) PROVE Onward
  <2>1. PICK policy, pw : policy = caller[r].policy /\ pw = caller[r].pw
    OBVIOUS
  <2>2. policy \in 0..MaxPolicy /\ pw \in 0..MaxPasswords
    BY <1>1, <2>1, RequestKinds DEF CreateFreeSession, At, FreeLogin
  <2>3. sessions' = Append(sessions, NewSession(NoDevice, policy, pw))
    BY <1>1, <2>1 DEF CreateFreeSession
  <2> QED
    BY <2>2, <2>3, OnwardNew
<1>2. ASSUME NEW r \in Callers, LoginManaged(r) PROVE Onward
  <2>1. PICK d, pw : d = caller[r].device /\ pw = caller[r].pw
    OBVIOUS
  <2>2. d \in Devices /\ pw \in 0..MaxPasswords /\ Known(d) \subseteq Devices
    BY <1>2, <2>1, RequestKinds, KnownDevices DEF LoginManaged, At, Managed
  <2>3. \/ sessions' = sessions
        \/ \E e \in Devices \cup {NoDevice}, base \in {sessions, Keep({})} :
              sessions' = Append(base, NewSession(e, user.policy, pw))
        \/ sessions' = Append(sessions, [NewSession(d, user.policy, pw) EXCEPT !.exempt = TRUE])
    BY <1>2, <2>1, <2>2 DEF LoginManaged, CompleteLogin
  <2>4. [NewSession(d, user.policy, pw) EXCEPT !.exempt = TRUE] \in Sessions
    BY <2>2, ExemptSession
  <2> QED
    BY <2>2, <2>3, <2>4, OnwardNew, OnwardAppend, OnwardSame, Fields
<1>3. ASSUME NEW r \in Callers, NEW d \in Devices, StartLogin(r, d) PROVE Onward
  BY <1>3, OnwardSame DEF StartLogin
<1>4. ASSUME NEW n \in 1..codes, NEW d \in Devices, VerifyDevice(d, n) PROVE Onward
  <2>1. PICK e \in Known(d) : CompleteLogin(e, devices, user.pw)
    BY <1>4 DEF VerifyDevice
  <2>2. e \in Devices
    BY <2>1, KnownDevices
  <2> QED
    BY <2>1, <2>2, OnwardNew, Fields DEF CompleteLogin
<1> QED
  BY <1>1, <1>2, <1>3, <1>4 DEF SignInSteps

LEMMA RefreshOnward == ASSUME Inv, RefreshSteps PROVE Onward
<1> Types
  BY DEF Inv
<1>1. ASSUME NEW i \in DOMAIN sessions, RefreshRevokes(i) PROVE Onward
  BY <1>1, OnwardExcept, Initials DEF RefreshRevokes, EndSession
<1>2. ASSUME NEW i \in DOMAIN sessions, AgeSession(i) PROVE Onward
  <2> DEFINE s == [sessions[i] EXCEPT !.aged = TRUE]
  <2>1. sessions[i].active /\ sessions' = [sessions EXCEPT ![i] = s]
    BY <1>2 DEF AgeSession
  <2>2. s.version = sessions[i].version /\ sessions[i].version \in Int
    BY SessionType DEF Sessions
  <2> HIDE DEF s
  <2>3. s.active => sessions[i].active /\ sessions[i].version <= s.version
    BY <2>1, <2>2
  <2> QED
    BY <2>1, <2>3, OnwardExcept
<1>3. ASSUME NEW r \in Callers, Rotate(r) PROVE Onward
  <2>1. PICK i, v : i = caller[r].session /\ v = caller[r].asked
    OBVIOUS
  <2>2. CASE MayRotate(i, v)
    <3> DEFINE s == [sessions[i] EXCEPT !.version = @ + 1]
    <3>1. sessions' = [sessions EXCEPT ![i] = s] /\ sessions[i].active
      BY <1>3, <2>1, <2>2 DEF Rotate, MayRotate
    <3>2. i \in DOMAIN sessions => sessions[i].version \in Int /\ s.version = sessions[i].version + 1
      BY SessionType DEF Sessions
    <3> HIDE DEF s
    <3>3. i \in DOMAIN sessions => sessions[i].version <= s.version
      BY <3>2
    <3> QED
      BY <3>1, <3>3, OnwardExcept
  <2>3. CASE ~MayRotate(i, v)
    BY <1>3, <2>1, <2>3, OnwardSame DEF Rotate
  <2> QED
    BY <2>2, <2>3
<1>4. ASSUME UNCHANGED sessions PROVE Onward
  BY <1>4, OnwardSame
<1> QED
  BY <1>1, <1>2, <1>3, <1>4 DEF RefreshSteps, Recheck, FinishRefresh, StartRefresh

LEMMA NextOnward == ASSUME Inv, [AuthNext]_authVars PROVE Onward
<1> Types
  BY DEF Inv
<1>1. ASSUME UNCHANGED sessions PROVE Onward
  BY <1>1, OnwardSame
<1>2. ASSUME NEW kept, sessions' = Keep(kept) PROVE Onward
  BY <1>2, OnwardKeep
<1>3. CASE PremiumSteps
  BY <1>1, <1>2, <1>3 DEF PremiumSteps, GainCover, LoseCover, Reconcile, SyncAccessMode
<1>4. CASE RegistrationSteps
  <2>1. ASSUME NEW n \in 1..codes, VerifyEmail(n) PROVE Onward
    BY <2>1, OnwardNew, Fields DEF VerifyEmail
  <2> QED
    BY <1>1, <1>2, <1>4, <2>1 DEF RegistrationSteps, RegisterAgain, LoginUnverified,
       ResendVerification, IssueEmailCode, StartRegister, RegisterFresh, DeliverCode, Gone
<1>5. CASE PasswordSteps
  BY <1>1, <1>2, <1>5, StoreOnward DEF PasswordSteps, ForgotPassword, ResendReset, IssueResetCode,
     ResetFails, ResetPassword, SessionsAfterReset, FindCurrentSession, StartChange
<1>6. CASE AccountSteps
  <2>1. ASSUME NEW i, EndSession(i) PROVE Onward
    BY <2>1, OnwardExcept, Initials DEF EndSession
  <2> QED
    BY <1>1, <1>2, <1>6, <2>1 DEF AccountSteps, BanUser, UnbanUser, Logout, DeleteAccount, Gone
<1>7. CASE RemovalSteps
  BY <1>1, <1>2, <1>7 DEF RemovalSteps, StartRemoval, FinishRemoval
<1>8. CASE RoleSteps \/ ClockSteps \/ Refusals \/ UNCHANGED authVars
  BY <1>1, <1>8 DEF RoleSteps, ChangeRole, ClockSteps, AgeCode, NewDay, Refusals, GiveUp, authVars
<1> QED
  BY <1>3, <1>4, <1>5, <1>6, <1>7, <1>8, SignInOnward, RefreshOnward DEF AuthNext

LEMMA BecomeOnly ==
  ASSUME Types, NEW r \in Callers, NEW s \in Callers, NEW state, Become(s, state)
  PROVE  caller'[r] = IF r = s THEN state ELSE caller[r]
BY DEF Become, Types

\* A refresh goes on by its own steps.
RefreshStep(r) ==
    Rotate(r) \/ Recheck(r) \/ \E i \in DOMAIN sessions, v \in 0..MaxVersion : StartRefresh(r, i, v)

Elsewhere(r) ==
    \/ caller'[r] = caller[r]
    \/ caller'[r].pc \notin {"rotate", "recheck", "answered", "rejected"}

LEMMA RequestStep ==
  ASSUME Inv, [AuthNext]_authVars, NEW r \in Callers
  PROVE  Elsewhere(r) \/ RefreshStep(r)
<1> Types
  BY DEF Inv
<1>1. ASSUME NEW s \in Callers, NEW state, Become(s, state),
             state.pc \notin {"rotate", "recheck", "answered", "rejected"}
      PROVE  Elsewhere(r)
  BY <1>1, BecomeOnly DEF Elsewhere
<1>2. ASSUME NEW s \in Callers, Become(s, Idle) PROVE Elsewhere(r)
  BY <1>1, <1>2, IdleState
<1>3. ASSUME UNCHANGED caller PROVE Elsewhere(r)
  BY <1>3 DEF Elsewhere
<1>4. ASSUME NEW s \in Callers, s # r, NEW state, Become(s, state) PROVE Elsewhere(r)
  BY <1>4, BecomeOnly DEF Elsewhere
<1>5. CASE PremiumSteps
  BY <1>3, <1>5 DEF PremiumSteps, GainCover, LoseCover, Reconcile
<1>6. CASE RegistrationSteps
  <2>1. ASSUME NEW s \in Callers, StartRegister(s) PROVE Elsewhere(r)
    <3>1. [pc |-> "register"].pc = "register"
      OBVIOUS
    <3> QED
      BY <1>1, <2>1, <3>1 DEF StartRegister
  <2>2. ASSUME NEW s \in Callers, RegisterFresh(s) PROVE Elsewhere(r)
    <3>1. [pc |-> "deliver", id |-> user.id + 1].pc = "deliver"
      OBVIOUS
    <3> QED
      BY <1>1, <2>2, <3>1 DEF RegisterFresh
  <2> QED
    BY <1>2, <1>3, <1>6, <2>1, <2>2 DEF RegistrationSteps, RegisterAgain, LoginUnverified,
       ResendVerification, IssueEmailCode, VerifyEmail, DeliverCode
<1>7. CASE PasswordSteps
  <2>1. ASSUME NEW s \in Callers, NEW i \in DOMAIN sessions, StartChange(s, i) PROVE Elsewhere(r)
    <3>1. [pc |-> "change", session |-> i, id |-> user.id].pc = "change"
      OBVIOUS
    <3> QED
      BY <1>1, <2>1, <3>1 DEF StartChange
  <2>2. ASSUME NEW s \in Callers, FindCurrentSession(s) PROVE Elsewhere(r)
    <3>1. [caller[s] EXCEPT !.pc = "store"].pc = "store"
      BY <2>2, RequestKinds DEF FindCurrentSession, At, Changing
    <3> QED
      BY <1>1, <2>2, <3>1 DEF FindCurrentSession
  <2> QED
    BY <1>2, <1>3, <1>7, <2>1, <2>2 DEF PasswordSteps, ForgotPassword, ResendReset, IssueResetCode,
       ResetFails, ResetPassword, StoreChange
<1>8. CASE SignInSteps
  <2>1. ASSUME NEW s \in Callers, NEW d \in Devices, StartLogin(s, d) PROVE Elsewhere(r)
    <3> DEFINE managed == [pc |-> "managed", id |-> user.id, pw |-> user.pw, device |-> d]
               free == [pc |-> "free", id |-> user.id, pw |-> user.pw, policy |-> user.policy]
               state == IF user.premium THEN managed ELSE free
    <3>1. state.pc \in {"managed", "free"}
      OBVIOUS
    <3>2. Become(s, state)
      BY <2>1 DEF StartLogin
    <3> HIDE DEF state
    <3> QED
      BY <1>1, <3>1, <3>2
  <2> QED
    BY <1>2, <1>3, <1>8, <2>1 DEF SignInSteps, CreateFreeSession, LoginManaged, VerifyDevice
<1>9. CASE RefreshSteps
  BY <1>2, <1>3, <1>4, <1>9 DEF RefreshSteps, RefreshStep, RefreshRevokes, AgeSession, FinishRefresh,
     Rotate, Recheck, StartRefresh
<1>10. CASE AccountSteps
  BY <1>3, <1>10 DEF AccountSteps, BanUser, UnbanUser, Logout, DeleteAccount
<1>11. CASE RemovalSteps
  <2>1. ASSUME NEW s \in Callers, NEW d \in Devices, StartRemoval(s, d) PROVE Elsewhere(r)
    <3> DEFINE held == {i \in DOMAIN sessions : sessions[i].active /\ sessions[i].device = d}
               state == [pc |-> "remove", device |-> d, policy |-> user.policy, id |-> user.id,
                         held |-> held]
    <3>1. state.pc = "remove"
      OBVIOUS
    <3>2. Become(s, state)
      BY <2>1 DEF StartRemoval
    <3> HIDE DEF state
    <3> QED
      BY <1>1, <3>1, <3>2
  <2> QED
    BY <1>2, <1>11, <2>1 DEF RemovalSteps, FinishRemoval
<1>12. CASE RoleSteps \/ ClockSteps \/ Refusals \/ UNCHANGED authVars
  BY <1>2, <1>3, <1>12 DEF RoleSteps, ChangeRole, ClockSteps, AgeCode, NewDay, Refusals, GiveUp, authVars
<1> QED
  BY <1>5, <1>6, <1>7, <1>8, <1>9, <1>10, <1>11, <1>12 DEF AuthNext

Converges(r) ==
    LET s == caller'[r].session IN
    /\ caller[r].pc # "answered" /\ caller'[r].pc = "answered"
          => caller'[r].version = sessions'[s].version
    /\ caller[r].pc # "rejected" /\ caller'[r].pc = "rejected"
          => ~(sessions'[s].active /\ sessions'[s].policy = user'.policy /\ ~user'.banned)
             \/ caller'[r].asked < sessions'[s].version - 1

LEMMA StartRefreshStep ==
  ASSUME Inv, NEW r \in Callers, NEW i \in DOMAIN sessions, NEW v \in 0..MaxVersion,
         StartRefresh(r, i, v)
  PROVE  Referring(r)' /\ Converges(r)
<1> Types
  BY DEF Inv
<1> DEFINE decision == Decision(sessions[i].version, v)
           version == IF decision = "answered" THEN sessions[i].version ELSE v
           state == [pc |-> decision, session |-> i, asked |-> v, version |-> version]
<1>1. Become(r, state) /\ UNCHANGED <<user, sessions>> /\ v <= sessions[i].version
  BY DEF StartRefresh
<1>2. v \in Int /\ sessions[i].version \in Int
  BY SessionType, Bounds DEF Sessions
<1>3. /\ decision \in {"rotate", "answered", "rejected"}
      /\ decision = "rejected" => v < sessions[i].version - 1
  BY <1>1, <1>2 DEF Decision
<1> HIDE DEF decision
<1>4. caller'[r] = state
  BY <1>1, BecomeOnly
<1>5. /\ caller'[r].pc = decision /\ caller'[r].session = i /\ caller'[r].asked = v
      /\ decision = "answered" => caller'[r].version = sessions[i].version
  BY <1>4
<1> HIDE DEF state
<1> QED
  BY <1>1, <1>2, <1>3, <1>5 DEF Referring, Converges

LEMMA RotateStep ==
  ASSUME Inv, NEW r \in Callers, Referring(r), Rotate(r) PROVE Referring(r)' /\ Converges(r)
<1> Types
  BY DEF Inv
<1>1. PICK i, v : i = caller[r].session /\ v = caller[r].asked
  OBVIOUS
<1>2. caller[r] \in Refreshing /\ caller[r].pc = "rotate"
  BY RequestKinds DEF Rotate, At
<1>3. i \in DOMAIN sessions /\ (sessions[i].active => v <= sessions[i].version) /\ v \in Int
  BY <1>1, <1>2 DEF Referring, Refreshing
<1>4. sessions[i].version \in Int
  BY <1>3, SessionType, Bounds DEF Sessions
<1>5. CASE MayRotate(i, v)
  <2> DEFINE state == [caller[r] EXCEPT !.pc = "answered", !.version = v + 1]
  <2>1. /\ sessions' = [sessions EXCEPT ![i].version = @ + 1] /\ Become(r, state)
        /\ sessions[i].version = v
    BY <1>1, <1>5 DEF Rotate, MayRotate
  <2>2. state.pc = "answered" /\ state.session = i /\ state.version = v + 1
    BY <1>1, <1>2 DEF Refreshing
  <2> HIDE DEF state
  <2>3. caller'[r] = state
    BY <2>1, BecomeOnly
  <2>4. i \in DOMAIN sessions' /\ sessions'[i].version = v + 1
    BY <1>3, <2>1, SessionType DEF Sessions
  <2> QED
    BY <2>2, <2>3, <2>4 DEF Referring, Converges
<1>6. CASE ~MayRotate(i, v)
  <2> DEFINE state == [caller[r] EXCEPT !.pc = "recheck"]
  <2>1. sessions' = sessions /\ Become(r, state)
    BY <1>1, <1>6 DEF Rotate
  <2>2. state.pc = "recheck" /\ state.session = i /\ state.asked = v
    BY <1>1, <1>2 DEF Refreshing
  <2> HIDE DEF state
  <2>3. caller'[r] = state
    BY <2>1, BecomeOnly
  <2>4. sessions[i].active => v < sessions[i].version
    BY <1>3, <1>4, <1>6 DEF MayRotate
  <2> QED
    BY <1>3, <2>1, <2>2, <2>3, <2>4 DEF Referring, Converges
<1> QED
  BY <1>5, <1>6

LEMMA RecheckStep ==
  ASSUME Inv, NEW r \in Callers, Referring(r), Recheck(r) PROVE Referring(r)' /\ Converges(r)
<1> Types
  BY DEF Inv
<1>1. PICK i, v : i = caller[r].session /\ v = caller[r].asked
  OBVIOUS
<1>2. caller[r] \in Refreshing /\ caller[r].pc = "recheck"
  BY RequestKinds DEF Recheck, At
<1>3. i \in DOMAIN sessions /\ (sessions[i].active => v < sessions[i].version) /\ v \in Int
  BY <1>1, <1>2 DEF Referring, Refreshing
<1>4. sessions[i].version \in Int
  BY <1>3, SessionType, Bounds DEF Sessions
<1>5. sessions' = sessions /\ user' = user
  BY DEF Recheck
<1>6. CASE Valid(i) /\ ~user.banned /\ v = sessions[i].version - 1
  <2> DEFINE state == [caller[r] EXCEPT !.pc = "answered", !.version = sessions[i].version]
  <2>1. Become(r, state)
    BY <1>1, <1>6 DEF Recheck
  <2>2. state.pc = "answered" /\ state.session = i /\ state.version = sessions[i].version
    BY <1>1, <1>2 DEF Refreshing
  <2> HIDE DEF state
  <2>3. caller'[r] = state
    BY <2>1, BecomeOnly
  <2> QED
    BY <1>3, <1>5, <2>2, <2>3 DEF Referring, Converges
<1>7. CASE ~(Valid(i) /\ ~user.banned /\ v = sessions[i].version - 1)
  <2> DEFINE state == [caller[r] EXCEPT !.pc = "rejected"]
  <2>1. Become(r, state)
    BY <1>1, <1>7 DEF Recheck
  <2>2. state.pc = "rejected" /\ state.session = i /\ state.asked = v
    BY <1>1, <1>2 DEF Refreshing
  <2> HIDE DEF state
  <2>3. caller'[r] = state
    BY <2>1, BecomeOnly
  <2>4. Valid(i) /\ ~user.banned => v < sessions[i].version - 1
    BY <1>3, <1>4, <1>7 DEF Valid
  <2> QED
    BY <1>3, <1>5, <2>2, <2>3, <2>4 DEF Referring, Converges, Valid
<1> QED
  BY <1>6, <1>7

LEMMA RefreshesGoOn ==
  ASSUME Inv, [AuthNext]_authVars, \A s \in Callers : Referring(s), NEW r \in Callers
  PROVE  Referring(r)' /\ Converges(r)
<1> Types
  BY DEF Inv
<1>1. CASE RefreshStep(r)
  BY <1>1, RotateStep, RecheckStep, StartRefreshStep DEF RefreshStep
<1>2. CASE caller'[r] = caller[r]
  <2>1. Onward
    BY NextOnward
  <2>2. CASE caller[r].pc \in {"rotate", "recheck", "answered", "rejected"}
    <3>1. PICK i : i = caller[r].session
      OBVIOUS
    <3>2. i \in DOMAIN sessions
      BY <2>2, <3>1 DEF Referring
    <3>3. /\ i \in DOMAIN sessions'
          /\ sessions'[i].active => sessions[i].active /\ sessions[i].version <= sessions'[i].version
      BY <2>1, <3>2 DEF Onward
    <3>4. caller[r].asked \in Int
      BY <2>2, RequestKinds DEF Refreshing
    <3>5. sessions[i].version \in Int
      BY <3>2, SessionType, Bounds DEF Sessions
    <3>6. sessions'[i].version \in Int
      <4>1. sessions' \in Seq(Sessions)
        BY NextInv DEF Inv, Types
      <4>2. sessions'[i] \in Sessions
        BY <3>3, <4>1, ElementOfSeq, LenProperties
      <4> QED
        BY <4>2, Bounds DEF Sessions
    <3> QED
      BY <1>2, <3>1, <3>3, <3>4, <3>5, <3>6 DEF Referring, Converges
  <2>3. CASE caller[r].pc \notin {"rotate", "recheck", "answered", "rejected"}
    BY <1>2, <2>3 DEF Referring, Converges
  <2> QED
    BY <2>2, <2>3
<1>3. CASE caller'[r].pc \notin {"rotate", "recheck", "answered", "rejected"}
  BY <1>3 DEF Referring, Converges
<1> QED
  BY <1>1, <1>2, <1>3, RequestStep DEF Elsewhere

(***************************************************************************)
(* The codes sent by e-mail.                                               *)
(***************************************************************************)
\* The codes that can be used are apart, were issued and were not accepted yet.
HeldApart ==
    /\ user.email.n = user.reset.n => user.email.n = 0
    /\ \A d \in Devices :
        /\ devices[d].code.n \in {user.email.n, user.reset.n} => devices[d].code.n = 0
        /\ \A e \in Devices \ {d} :
              devices[d].code.n = devices[e].code.n => devices[d].code.n = 0

Unused(n) == n <= codes /\ (n # 0 => spent[n] = 0)
HeldUnused ==
    /\ Unused(user.email.n) /\ Unused(user.reset.n)
    /\ \A d \in Devices : Unused(devices[d].code.n)

Once ==
    /\ CodesUsedOnce /\ HeldApart /\ HeldUnused
    /\ \A n \in 1..MaxCodes : n > codes => spent[n] = 0

Fewer(new, old, gone) == new.n = 0 \/ (new.n = old.n /\ new.n # gone)
FewerCodes(gone) ==
    /\ Fewer(user'.email, user.email, gone) /\ Fewer(user'.reset, user.reset, gone)
    /\ \A d \in Devices : Fewer(devices'[d].code, devices[d].code, gone)

LEMMA CodeNumbers ==
  ASSUME Types
  PROVE  /\ user.email.n \in 0..MaxCodes /\ user.reset.n \in 0..MaxCodes
         /\ \A d \in Devices : devices[d].code.n \in 0..MaxCodes
         /\ codes \in Int /\ MaxCodes \in Int
         /\ \A n \in 1..MaxCodes : spent[n] \in Int
<1>1. user.email.n \in 0..MaxCodes /\ user.reset.n \in 0..MaxCodes
  BY DEF Types, Users, Code
<1>2. \A d \in Devices : devices[d].code.n \in 0..MaxCodes
  BY DEF Types, DeviceRows, Code
<1>3. codes \in Int /\ MaxCodes \in Int
  BY Bounds DEF Types
<1>4. \A n \in 1..MaxCodes : spent[n] \in Int
  <2>1. spent \in [1..MaxCodes -> Nat]
    BY DEF Types
  <2> QED
    BY <2>1
<1> QED
  BY <1>1, <1>2, <1>3, <1>4

LEMMA ApartKept == ASSUME HeldApart, NEW gone, FewerCodes(gone) PROVE HeldApart'
<1>1. user'.email.n = user'.reset.n => user'.email.n = 0
  BY DEF HeldApart, FewerCodes, Fewer
<1>2. ASSUME NEW d \in Devices
      PROVE  devices'[d].code.n \in {user'.email.n, user'.reset.n} => devices'[d].code.n = 0
  BY DEF HeldApart, FewerCodes, Fewer
<1>3. ASSUME NEW d \in Devices, NEW e \in Devices \ {d}
      PROVE  devices'[d].code.n = devices'[e].code.n => devices'[d].code.n = 0
  BY DEF HeldApart, FewerCodes, Fewer
<1> QED
  BY <1>1, <1>2, <1>3 DEF HeldApart

\* No code is issued or accepted.
LEMMA KeptOnce ==
  ASSUME Types, Once, FewerCodes(0), UNCHANGED <<codes, spent>> PROVE Once'
<1>1. HeldApart'
  BY ApartKept DEF Once
<1>2. HeldUnused'
  <2>1. 0 <= codes
    BY Bounds DEF Types
  <2> QED
    BY <2>1 DEF Once, HeldUnused, Unused, FewerCodes, Fewer
<1> QED
  BY <1>1, <1>2 DEF Once, CodesUsedOnce

\* A code is accepted, and nobody holds it any more.
LEMMA AcceptedOnce ==
  ASSUME Types, Once, NEW n \in 1..codes, Accept(n), spent[n] = 0, FewerCodes(n), codes' = codes
  PROVE  Once'
<1>1. HeldApart'
  BY ApartKept DEF Once
<1>2. /\ n \in 1..MaxCodes /\ spent'[n] = 1
      /\ \A m \in 1..MaxCodes : m # n => spent'[m] = spent[m]
  BY AcceptType
<1>3. ASSUME NEW new, NEW old, Fewer(new, old, n), Unused(old.n), old.n \in 0..MaxCodes
      PROVE  Unused(new.n)'
  <2>1. 0 <= codes
    BY Bounds DEF Types
  <2> QED
    BY <1>2, <1>3, <2>1, CodeNumbers DEF Fewer, Unused
<1>4. HeldUnused'
  BY <1>3, CodeNumbers DEF Once, HeldUnused, FewerCodes
<1>5. CodesUsedOnce'
  BY <1>2 DEF Once, CodesUsedOnce
<1>6. \A m \in 1..MaxCodes : m > codes' => spent'[m] = 0
  BY <1>2, CodeNumbers DEF Once
<1> QED
  BY <1>1, <1>4, <1>5, <1>6 DEF Once

\* One code is issued, to one holder.
LEMMA IssuedOnce ==
  ASSUME Types, Once, Types', codes' = codes + 1, spent' = spent,
         user'.email.n \in {0, user.email.n, codes'}, user'.reset.n \in {0, user.reset.n, codes'},
         \A d \in Devices : devices'[d].code.n \in {0, devices[d].code.n, codes'},
         user'.email.n = codes' => user'.reset.n # codes',
         \A d \in Devices : devices'[d].code.n = codes' =>
             /\ user'.email.n # codes' /\ user'.reset.n # codes'
             /\ \A e \in Devices \ {d} : devices'[e].code.n # codes'
  PROVE  Once'
<1>1. codes' \in 1..MaxCodes /\ codes' > codes /\ spent[codes'] = 0
  BY CodeNumbers DEF Once, Types
<1>2. HeldApart'
  <2>1. user'.email.n = user'.reset.n => user'.email.n = 0
    BY <1>1, CodeNumbers DEF Once, HeldApart, HeldUnused, Unused
  <2>2. ASSUME NEW d \in Devices
        PROVE  devices'[d].code.n \in {user'.email.n, user'.reset.n} => devices'[d].code.n = 0
    BY <1>1, CodeNumbers DEF Once, HeldApart, HeldUnused, Unused
  <2>3. ASSUME NEW d \in Devices, NEW e \in Devices \ {d}
        PROVE  devices'[d].code.n = devices'[e].code.n => devices'[d].code.n = 0
    BY <1>1, CodeNumbers DEF Once, HeldApart, HeldUnused, Unused
  <2> QED
    BY <2>1, <2>2, <2>3 DEF HeldApart
<1>3. ASSUME NEW m \in 0..MaxCodes, m = 0 \/ m = codes' \/ Unused(m) PROVE Unused(m)'
  BY <1>1, <1>3, CodeNumbers DEF Unused, Types
<1>4. HeldUnused'
  <2>1. /\ user'.email.n \in 0..MaxCodes /\ user'.reset.n \in 0..MaxCodes
        /\ \A d \in Devices : devices'[d].code.n \in 0..MaxCodes
    <3>1. /\ (user.email.n \in 0..MaxCodes)' /\ (user.reset.n \in 0..MaxCodes)'
          /\ (\A d \in Devices : devices[d].code.n \in 0..MaxCodes)'
      BY DEF Types, Users, DeviceRows, Code
    <3> QED
      BY <3>1
  <2> QED
    BY <1>3, <2>1 DEF Once, HeldUnused
<1>5. \A m \in 1..MaxCodes : m > codes' => spent'[m] = 0
  BY <1>1, CodeNumbers DEF Once
<1> QED
  BY <1>2, <1>4, <1>5 DEF Once, CodesUsedOnce

LEMMA QuietOnce ==
  ASSUME Types, Once, UNCHANGED <<codes, spent>>,
         user'.email.n \in {0, user.email.n}, user'.reset.n \in {0, user.reset.n},
         \A d \in Devices : devices'[d].code.n \in {0, devices[d].code.n}
  PROVE  Once'
<1>1. FewerCodes(0)
  BY DEF FewerCodes, Fewer
<1> QED
  BY <1>1, KeptOnce

LEMMA SameOnce ==
  ASSUME Types, Once, UNCHANGED <<codes, spent, devices>>, user'.email = user.email,
         user'.reset = user.reset
  PROVE  Once'
BY QuietOnce

LEMMA NoCodes == /\ NoCode.n = 0 /\ Trusted.code.n = 0
                 /\ \A d \in Devices : NoDevices[d].code.n = 0
                 /\ \A id : NoUser(id).email.n = 0 /\ NoUser(id).reset.n = 0
BY DEF NoCode, Trusted, NoDevices, NoUser

LEMMA GoneOnce == ASSUME Types, Once, Gone, UNCHANGED <<codes, spent>> PROVE Once'
BY NoCodes, QuietOnce DEF Gone

LEMMA PremiumOnce == ASSUME Types, Once, PremiumSteps PROVE Once'
<1>1. ASSUME NEW premium, SyncAccessMode(premium), UNCHANGED <<codes, spent>> PROVE Once'
  <2>1. user'.email = user.email /\ user'.reset = user.reset
    BY <1>1 DEF SyncAccessMode, Types, Users
  <2>2. devices' = devices \/ devices' = NoDevices
    BY <1>1 DEF SyncAccessMode
  <2> QED
    BY <1>1, <2>1, <2>2, NoCodes, QuietOnce
<1>2. CASE LoseCover
  BY <1>2, SameOnce DEF LoseCover
<1> QED
  BY <1>1, <1>2 DEF PremiumSteps, GainCover, Reconcile

LEMMA IssueOnce == ASSUME Types, Once, Types', IssueEmailCode \/ IssueResetCode PROVE Once'
<1>1. codes' = codes + 1 /\ UNCHANGED <<spent, devices>>
  BY DEF IssueEmailCode, IssueResetCode, MayIssue
<1>2. Fresh("cooling").n = codes'
  BY <1>1 DEF Fresh
<1> DEFINE code == Fresh("cooling")
<1>3. \/ user'.email = code /\ user'.reset = user.reset
      \/ user'.email = user.email /\ user'.reset = code
  <2> HIDE DEF code
  <2>1. CASE IssueEmailCode
    <3>1. user' = [user EXCEPT !.otps = @ + 1, !.email = code]
      BY <2>1 DEF IssueEmailCode, code
    <3> QED
      BY <3>1 DEF Types, Users
  <2>2. CASE IssueResetCode
    <3>1. user' = [user EXCEPT !.reset = code, !.attempts = 0]
      BY <2>2 DEF IssueResetCode, code
    <3> QED
      BY <3>1 DEF Types, Users
  <2> QED
    BY <2>1, <2>2
<1>4. /\ user.email.n # codes' /\ user.reset.n # codes'
      /\ \A d \in Devices : devices[d].code.n # codes'
  BY <1>1, CodeNumbers DEF Once, HeldUnused, Unused
<1> QED
  BY <1>1, <1>2, <1>3, <1>4, IssuedOnce

LEMMA VerifyEmailOnce == ASSUME Types, Once, NEW n \in 1..codes, VerifyEmail(n) PROVE Once'
<1>1. user.email.n = n /\ Accept(n) /\ UNCHANGED <<codes, devices>> /\ n # 0
  BY Bounds DEF VerifyEmail, Usable, Types
<1>2. user'.email = NoCode /\ user'.reset = user.reset
  BY DEF VerifyEmail, Types, Users
<1>3. spent[n] = 0
  BY <1>1 DEF Once, HeldUnused, Unused
<1>4. FewerCodes(n)
  BY <1>1, <1>2, NoCodes DEF Once, HeldApart, FewerCodes, Fewer
<1> QED
  BY <1>1, <1>3, <1>4, AcceptedOnce

LEMMA ResetOnce == ASSUME Types, Once, NEW n \in 1..codes, ResetPassword(n) PROVE Once'
<1>1. user.reset.n = n /\ Accept(n) /\ UNCHANGED <<codes, devices>> /\ n # 0
  BY Bounds DEF ResetPassword, Usable, Types
<1>2. user'.email = user.email /\ user'.reset = NoCode
  BY DEF ResetPassword, UserAfterReset, Types, Users
<1>3. spent[n] = 0
  BY <1>1 DEF Once, HeldUnused, Unused
<1>4. FewerCodes(n)
  BY <1>1, <1>2, NoCodes DEF Once, HeldApart, FewerCodes, Fewer
<1> QED
  BY <1>1, <1>3, <1>4, AcceptedOnce

LEMMA RegistrationOnce == ASSUME Types, Once, Types', RegistrationSteps PROVE Once'
<1>1. ASSUME NEW r \in Callers, StartRegister(r) PROVE Once'
  BY <1>1, SameOnce DEF StartRegister
<1>2. ASSUME NEW r \in Callers, RegisterFresh(r) PROVE Once'
  <2> DEFINE code == Fresh("cooling")
             id == user.id + 1
  <2>1. /\ codes' = codes + 1 /\ UNCHANGED <<spent, devices>>
        /\ user' = [NoUser(id) EXCEPT !.status = "unverified", !.otps = 1, !.email = code]
    BY <1>2 DEF RegisterFresh, MayIssue
  <2>2. code.n = codes'
    BY <2>1 DEF Fresh
  <2> HIDE DEF code, id
  <2>3. user'.email = code /\ user'.reset.n = 0
    BY <2>1, NoCodes DEF NoUser
  <2>4. codes' # 0 /\ \A d \in Devices : devices[d].code.n # codes'
    BY <2>1, CodeNumbers, Bounds DEF Once, HeldUnused, Unused, Types
  <2> QED
    BY <2>1, <2>2, <2>3, <2>4, IssuedOnce
<1>3. ASSUME NEW r \in Callers, DeliverCode(r) PROVE Once'
  BY <1>3, SameOnce, GoneOnce DEF DeliverCode
<1> QED
  BY <1>1, <1>2, <1>3, IssueOnce, VerifyEmailOnce DEF RegistrationSteps, RegisterAgain,
     LoginUnverified, ResendVerification

LEMMA PasswordOnce == ASSUME Types, Once, Types', PasswordSteps PROVE Once'
<1>1. CASE ResetFails
  <2>1. user'.email = user.email /\ (user'.reset = user.reset \/ user'.reset = NoCode)
    BY <1>1 DEF ResetFails, AfterWrongCode, Types, Users
  <2>2. UNCHANGED <<codes, spent, devices>>
    BY <1>1 DEF ResetFails
  <2> QED
    BY <2>1, <2>2, NoCodes, QuietOnce
<1>2. ASSUME NEW r \in Callers, StoreChange(r) PROVE Once'
  <2>1. user'.email = user.email /\ user'.reset = NoCode /\ UNCHANGED <<codes, spent, devices>>
    BY <1>2 DEF StoreChange, Types, Users
  <2> QED
    BY <2>1, NoCodes, QuietOnce
<1>3. ASSUME NEW r \in Callers, FindCurrentSession(r) PROVE Once'
  BY <1>3, SameOnce DEF FindCurrentSession
<1>4. ASSUME NEW r \in Callers, NEW i \in DOMAIN sessions, StartChange(r, i) PROVE Once'
  BY <1>4, SameOnce DEF StartChange
<1> QED
  BY <1>1, <1>2, <1>3, <1>4, IssueOnce, ResetOnce DEF PasswordSteps, ForgotPassword, ResendReset

\* A sign-in clears the code of its device and of those it forgets.
LEMMA OnlyPendingCodes ==
  ASSUME Types, NEW e \in Devices
  PROVE  \A d \in Devices : OnlyPending(e)[d].code.n \in {0, devices[d].code.n}
BY NoCodes DEF OnlyPending

LEMMA CompleteCodes ==
  ASSUME NEW e \in Devices, NEW rows \in [Devices -> DeviceRows], NEW pw, CompleteLogin(e, rows, pw)
  PROVE  /\ devices'[e].code.n = 0
         /\ \A d \in Devices \ {e} : devices'[d] = rows[d]
BY NoCodes DEF CompleteLogin

LEMMA SignInOnce == ASSUME Types, Once, Types', SignInSteps PROVE Once'
<1>1. ASSUME NEW r \in Callers, CreateFreeSession(r) PROVE Once'
  BY <1>1, SameOnce DEF CreateFreeSession
<1>2. ASSUME NEW r \in Callers, NEW d \in Devices, StartLogin(r, d) PROVE Once'
  BY <1>2, SameOnce DEF StartLogin
<1>3. ASSUME NEW n \in 1..codes, NEW d \in Devices, VerifyDevice(d, n) PROVE Once'
  <2>1. PICK e \in Known(d) : devices[e].code.n = n /\ CompleteLogin(e, devices, user.pw)
    BY <1>3 DEF VerifyDevice, Usable
  <2>2. Accept(n) /\ UNCHANGED <<user, codes>> /\ n # 0 /\ e \in Devices
    BY <1>3, <2>1, KnownDevices, Bounds DEF VerifyDevice, Types
  <2>3. spent[n] = 0
    BY <2>1, <2>2 DEF Once, HeldUnused, Unused
  <2>4. devices'[e].code.n = 0 /\ \A x \in Devices \ {e} : devices'[x] = devices[x]
    BY <2>1, <2>2, CompleteCodes DEF Types
  <2>5. FewerCodes(n)
    <3>1. Fewer(user'.email, user.email, n) /\ Fewer(user'.reset, user.reset, n)
      BY <2>1, <2>2 DEF Once, HeldApart, Fewer
    <3>2. ASSUME NEW x \in Devices PROVE Fewer(devices'[x].code, devices[x].code, n)
      BY <2>1, <2>2, <2>4 DEF Once, HeldApart, Fewer
    <3> QED
      BY <3>1, <3>2 DEF FewerCodes
  <2> QED
    BY <2>2, <2>3, <2>5, AcceptedOnce
<1>4. ASSUME NEW r \in Callers, LoginManaged(r) PROVE Once'
  <2>1. PICK d, pw : d = caller[r].device /\ pw = caller[r].pw
    OBVIOUS
  <2>2. d \in Devices /\ Known(d) \subseteq Devices
    BY <1>4, <2>1, RequestKinds, KnownDevices DEF LoginManaged, At, Managed
  <2>3. spent' = spent
    BY <1>4 DEF LoginManaged
  <2>4. CASE UNCHANGED <<user, devices, codes>>
    BY <2>3, <2>4, SameOnce
  <2>5. ASSUME NEW e \in Devices, CompleteLogin(e, devices, pw), UNCHANGED <<user, codes>> PROVE Once'
    <3>1. devices'[e].code.n = 0 /\ \A x \in Devices \ {e} : devices'[x] = devices[x]
      BY <2>5, CompleteCodes DEF Types
    <3> QED
      BY <2>3, <2>5, <3>1, QuietOnce
  <2>6. ASSUME NEW e \in Devices, CompleteLogin(e, OnlyPending(e), pw), UNCHANGED <<user, codes>>
        PROVE  Once'
    <3>1. devices'[e].code.n = 0 /\ \A x \in Devices \ {e} : devices'[x] = OnlyPending(e)[x]
      BY <2>6, CompleteCodes, OnlyPendingFacts
    <3> QED
      BY <2>3, <2>6, <3>1, OnlyPendingCodes, QuietOnce
  <2>7. ASSUME NEW e \in Devices, MayIssue, user' = [user EXCEPT !.otps = @ + 1],
               devices' = [OnlyPending(e) EXCEPT ![e] = [status |-> "pending", code |-> Fresh("live")]]
        PROVE  Once'
    <3> DEFINE row == [status |-> "pending", code |-> Fresh("live")]
    <3>1. codes' = codes + 1 /\ row.code.n = codes'
      BY <2>7 DEF MayIssue, Fresh
    <3>2. user'.email = user.email /\ user'.reset = user.reset
      BY <2>7 DEF Types, Users
    <3>3. devices' = [OnlyPending(e) EXCEPT ![e] = row]
      BY <2>7
    <3> HIDE DEF row
    <3>4. devices'[e] = row /\ \A x \in Devices \ {e} : devices'[x] = OnlyPending(e)[x]
      BY <3>3, OnlyPendingFacts
    <3>5. /\ user.email.n # codes' /\ user.reset.n # codes' /\ codes' # 0
          /\ \A x \in Devices : devices[x].code.n # codes'
      BY <3>1, CodeNumbers, Bounds DEF Once, HeldUnused, Unused, Types
    <3> QED
      BY <2>3, <3>1, <3>2, <3>4, <3>5, OnlyPendingCodes, IssuedOnce
  <2>8. \A e \in IF Known(d) = {} THEN {d} ELSE Known(d) : e \in Devices
    BY <2>2
  <2>9. \A e \in Known(d) : e \in Devices
    BY <2>2
  <2> QED
    BY <1>4, <2>1, <2>4, <2>5, <2>6, <2>7, <2>8, <2>9 DEF LoginManaged
<1> QED
  BY <1>1, <1>2, <1>3, <1>4 DEF SignInSteps

LEMMA ClockOnce == ASSUME Types, Once, ClockSteps PROVE Once'
<1>1. \A code \in Code : Older(code).n = code.n
  BY DEF Older, Code
<1>2. CASE NewDay
  BY <1>2, SameOnce DEF NewDay, Types, Users
<1>3. CASE AgeCode
  <2>1. UNCHANGED <<codes, spent>>
    BY <1>3 DEF AgeCode
  <2>2. CASE UNCHANGED devices /\ user' = [user EXCEPT !.email = Older(@)]
    <3>1. user'.email = Older(user.email) /\ user'.reset = user.reset
      BY <2>2 DEF Types, Users
    <3> QED
      BY <1>1, <2>1, <2>2, <3>1, Fields, QuietOnce
  <2>3. CASE UNCHANGED devices /\ user' = [user EXCEPT !.reset = Older(@)]
    <3>1. user'.reset = Older(user.reset) /\ user'.email = user.email
      BY <2>3 DEF Types, Users
    <3> QED
      BY <1>1, <2>1, <2>3, <3>1, Fields, QuietOnce
  <2>4. ASSUME NEW d \in Devices, devices' = [devices EXCEPT ![d].code = Older(@)], UNCHANGED user
        PROVE  Once'
    <3>1. devices[d].code \in Code
      BY DEF Types, DeviceRows
    <3>2. devices'[d].code = Older(devices[d].code)
          /\ \A e \in Devices \ {d} : devices'[e] = devices[e]
      BY <2>4 DEF Types, DeviceRows
    <3> QED
      BY <1>1, <2>1, <2>4, <3>1, <3>2, QuietOnce
  <2> QED
    BY <1>3, <2>2, <2>3, <2>4 DEF AgeCode
<1> QED
  BY <1>2, <1>3 DEF ClockSteps

LEMMA NextOnce == ASSUME Types, Once, Types', [AuthNext]_authVars PROVE Once'
<1>1. CASE RefreshSteps
  BY <1>1, SameOnce DEF RefreshSteps, RefreshRevokes, AgeSession, Rotate, Recheck, FinishRefresh,
     StartRefresh
<1>2. CASE AccountSteps
  BY <1>2, SameOnce, GoneOnce DEF AccountSteps, BanUser, UnbanUser, Logout, DeleteAccount, Types, Users
<1>3. CASE RemovalSteps
  <2>1. ASSUME NEW r \in Callers, FinishRemoval(r) PROVE Once'
    <3>1. PICK d : d = caller[r].device
      OBVIOUS
    <3>2. d \in Devices
      BY <2>1, <3>1, RequestKinds DEF FinishRemoval, At, Removing
    <3>3. devices' = [devices EXCEPT ![d] = NoDevices[d]] /\ UNCHANGED <<user, codes, spent>>
      BY <2>1, <3>1 DEF FinishRemoval
    <3>4. devices'[d].code.n = 0 /\ \A e \in Devices \ {d} : devices'[e] = devices[e]
      BY <3>2, <3>3, NoCodes DEF Types
    <3> QED
      BY <3>3, <3>4, QuietOnce
  <2> QED
    BY <1>3, <2>1, SameOnce DEF RemovalSteps, StartRemoval
<1>4. CASE Refusals \/ UNCHANGED authVars
  BY <1>4, SameOnce DEF Refusals, GiveUp, authVars
<1>5. CASE RoleSteps
  BY <1>5, SameOnce DEF RoleSteps, ChangeRole, Types, Users
<1> QED
  BY <1>1, <1>2, <1>3, <1>4, <1>5, PremiumOnce, RegistrationOnce, PasswordOnce, SignInOnce, ClockOnce
     DEF AuthNext

LEMMA InitOnce == AuthInit => Once
<1> SUFFICES ASSUME AuthInit PROVE Once
  OBVIOUS
<1>1. /\ user.email.n = 0 /\ user.reset.n = 0
  BY NoCodes DEF AuthInit, NoUser
<1>2. \A d \in Devices : devices[d].code.n = 0
  BY NoCodes DEF AuthInit
<1>3. codes = 0 /\ \A n \in 1..MaxCodes : spent[n] = 0
  BY DEF AuthInit
<1> QED
  BY <1>1, <1>2, <1>3 DEF Once, CodesUsedOnce, HeldApart, HeldUnused, Unused

Refreshes == \A r \in Callers : Referring(r)

LEMMA Always == AuthSpec => [](Inv /\ Refreshes /\ Once)
<1>1. AuthInit => Inv /\ Refreshes /\ Once
  BY InitInv, InitOnce, IdleState DEF AuthInit, Refreshes, Referring
<1>2. Inv /\ Refreshes /\ Once /\ [AuthNext]_authVars => (Inv /\ Refreshes /\ Once)'
  <2> SUFFICES ASSUME Inv, Refreshes, Once, [AuthNext]_authVars
               PROVE  Inv' /\ Refreshes' /\ Once'
    OBVIOUS
  <2>1. Inv' /\ Refreshes'
    BY NextInv, RefreshesGoOn DEF Refreshes
  <2> QED
    BY <2>1, NextOnce DEF Inv
<1> QED
  BY <1>1, <1>2, PTL DEF AuthSpec

(* Refreshes of the same token that race, in refreshSession and its rotation  *)
(* by compare and set, converge: an answer carries the version the session    *)
(* has at that moment, and a token is rejected only when its session is over  *)
(* or has been rotated twice since.                                           *)
THEOREM RacingRefreshesConverge == AuthSpec => RefreshConverges
<1>1. Inv /\ Refreshes /\ [AuthNext]_authVars =>
        [\A r \in Callers :
            LET s == caller'[r].session IN
            /\ caller[r].pc # "answered" /\ caller'[r].pc = "answered"
                  => caller'[r].version = sessions'[s].version
            /\ caller[r].pc # "rejected" /\ caller'[r].pc = "rejected"
                  => ~(sessions'[s].active /\ sessions'[s].policy = user'.policy /\ ~user'.banned)
                     \/ caller'[r].asked < sessions'[s].version - 1]_authVars
  BY RefreshesGoOn DEF Refreshes, Converges
<1> QED
  BY <1>1, Always, PTL DEF AuthSpec, RefreshConverges

(* A session of a premium account that no admin opened has ended all there    *)
(* were before it, whatever sign-ins, device codes, removals, resets,         *)
(* activations and changes of role overlap; and only so many premium devices  *)
(* are registered.                                                            *)
THEOREM PremiumStaysBounded == AuthSpec => []PremiumBounded
<1>1. Inv => PremiumBounded
  <2>1. Types => AuthTypeOK
    BY DEF Types, Users, Sessions, DeviceRows, AuthTypeOK
  <2> QED
    BY <2>1 DEF PremiumBounded, Inv, OneValid, Room
<1> QED
  BY <1>1, Always, PTL

(* A session that passes validation was opened with today's password, or by a *)
(* sign-in whose password was checked before the change and whose session was *)
(* stored after it.                                                           *)
THEOREM OldPasswordsStayOut == AuthSpec => []OldPasswordsOut
<1>1. Inv => OldPasswordsOut
  BY DEF Inv
<1> QED
  BY <1>1, Always, PTL

(* A code sent by e-mail opens one door once, whichever requests race with it *)
(* and whatever is issued, forgotten or reset meanwhile.                      *)
THEOREM CodesAcceptedOnce == AuthSpec => []CodesUsedOnce
<1>1. Once => CodesUsedOnce
  BY DEF Once
<1> QED
  BY <1>1, Always, PTL
=============================================================================

--------------------------- MODULE StepUpProofs ---------------------------
(***************************************************************************)
(* What TLAPS proves about StepUp for all people, sessions and requests in *)
(* flight, and every limit of wrong guesses.                               *)
(***************************************************************************)
EXTENDS StepUp, FiniteSetTheorems, TLAPS

USE OwnerAssumption, ClerksAssumption, FailsAssumption

Challenges == [code: 0..MaxOtpSent, usable: BOOLEAN, approval: {"none", "live"}, fails: Nat]

Verifying == [pc: {"right", "wrong"}, tab: Tabs, seen: Challenges]
Changes   == [pc: {"change"}, tab: Tabs, target: People, op: {"promote", "demote"},
              to: Roles, seen: Roles]

Types ==
    /\ role \in [People -> Roles]
    /\ tab \in [Tabs -> [active: BOOLEAN, role: Roles]]
    /\ challenge \in [Tabs -> Challenges]
    /\ clerk \in [Clerks -> {AtRest} \cup Verifying \cup Changes]
    /\ sent \in 0..MaxOtpSent
    /\ guesses \in [0..MaxOtpSent -> Nat]
    /\ overlapped \in BOOLEAN

\* The verifications that will count a failure: at a session, and of a code.
WrongAt(s) == {c \in Clerks : IsAt(c, "wrong") /\ clerk[c].tab = s}
Pending(n) == {c \in Clerks : IsAt(c, "wrong") /\ clerk[c].seen.code = n}

Most == MaxFails + Cardinality(Clerks) - 1

\* A code belongs to one session, and is not used before it is sent.
CodesApart ==
    /\ \A s \in Tabs : challenge[s].code <= sent /\ (challenge[s].usable => challenge[s].code # 0)
    /\ \A s, t \in Tabs : challenge[s].code = challenge[t].code => s = t \/ challenge[s].code = 0
    /\ \A n \in 0..MaxOtpSent : n > sent => guesses[n] = 0
    /\ \A c \in Clerks : IsAt(c, "wrong") =>
          /\ clerk[c].seen.code \in 1..sent
          /\ \A s \in Tabs : challenge[s].code = clerk[c].seen.code => s = clerk[c].tab

\* Whatever is still to be counted, the counts stay within the bound.
Counted ==
    /\ \A s \in Tabs : challenge[s].fails + Cardinality(WrongAt(s)) <= Most
    /\ \A s \in Tabs : challenge[s].code # 0 => guesses[challenge[s].code] <= challenge[s].fails
    /\ \A n \in 0..MaxOtpSent : guesses[n] + Cardinality(Pending(n)) <= Most

\* While role changes take turns, the one under way leaves another superadmin.
AnotherLeft ==
    ~overlapped =>
        /\ \A c, d \in Changing : c = d
        /\ \E p \in People : role[p] = "SUPERADMIN"
        /\ \A c \in Changing : role[clerk[c].target] = "SUPERADMIN" =>
              \E p \in People : role[p] = "SUPERADMIN" /\ p # clerk[c].target

Inv == Types /\ CodesApart /\ Counted /\ AnotherLeft

(***************************************************************************)
(* Counting clerks.                                                        *)
(***************************************************************************)
LEMMA ClerkSets ==
  /\ Cardinality(Clerks) \in Nat /\ Most \in Nat
  /\ \A S \in SUBSET Clerks : /\ IsFiniteSet(S) /\ Cardinality(S) \in Nat
                              /\ Cardinality(S) <= Cardinality(Clerks)
<1>1. Cardinality(Clerks) \in Nat
  BY FS_CardinalityType
<1>2. \A S \in SUBSET Clerks : IsFiniteSet(S) /\ Cardinality(S) <= Cardinality(Clerks)
  BY FS_Subset
<1>3. \A S \in SUBSET Clerks : Cardinality(S) \in Nat
  BY <1>2, FS_CardinalityType
<1> QED
  BY <1>1, <1>2, <1>3 DEF Most

LEMMA Fewer ==
  ASSUME NEW S \in SUBSET Clerks, NEW T \in SUBSET S
  PROVE  Cardinality(T) <= Cardinality(S)
BY ClerkSets, FS_Subset

LEMMA OneFewer ==
  ASSUME NEW S \in SUBSET Clerks, NEW c \in S
  PROVE  Cardinality(S \ {c}) = Cardinality(S) - 1
BY ClerkSets, FS_RemoveElement

LEMMA ClerkState ==
  ASSUME Types, NEW c \in Clerks
  PROVE  /\ clerk[c].pc \in {"idle", "right", "wrong", "change"}
         /\ clerk[c].pc = "idle" => clerk[c] = AtRest
         /\ clerk[c].pc \in {"right", "wrong"} => clerk[c] \in Verifying
         /\ clerk[c].pc = "change" => clerk[c] \in Changes
<1>1. clerk[c] \in {AtRest} \cup Verifying \cup Changes
  BY DEF Types
<1>2. AtRest.pc = "idle"
  BY DEF AtRest
<1> QED
  BY <1>1, <1>2 DEF Verifying, Changes

LEMMA InitInv == StepInit => Inv
<1> SUFFICES ASSUME StepInit PROVE Inv
  OBVIOUS
<1>1. Types
  <2>1. role \in [People -> Roles] /\ NoChallenge \in Challenges
    BY DEF StepInit, NoChallenge, Challenges
  <2>2. tab \in [Tabs -> [active: BOOLEAN, role: Roles]]
    BY <2>1 DEF StepInit
  <2>3. challenge \in [Tabs -> Challenges] /\ clerk \in [Clerks -> {AtRest}]
    BY <2>1 DEF StepInit
  <2>4. sent \in 0..MaxOtpSent /\ guesses \in [0..MaxOtpSent -> Nat] /\ overlapped \in BOOLEAN
    <3>1. sent \in 0..MaxOtpSent
      BY DEF StepInit
    <3>2. guesses \in [0..MaxOtpSent -> Nat]
      BY DEF StepInit
    <3> QED
      BY <3>1, <3>2 DEF StepInit
  <2>5. clerk \in [Clerks -> {AtRest} \cup Verifying \cup Changes]
    BY <2>3
  <2> QED
    BY <2>1, <2>2, <2>3, <2>4, <2>5 DEF Types
<1>2. \A c \in Clerks : clerk[c].pc = "idle"
  BY DEF StepInit, AtRest
<1>3. CodesApart
  BY <1>2 DEF StepInit, CodesApart, NoChallenge, IsAt
<1>4. \A x : WrongAt(x) = {} /\ Pending(x) = {}
  BY <1>2 DEF WrongAt, Pending, IsAt
<1>5. Counted
  <2>1. Cardinality({}) = 0
    BY FS_EmptySet
  <2>2. \A s \in Tabs : challenge[s].fails = 0 /\ challenge[s].code = 0
    BY DEF StepInit, NoChallenge
  <2>3. \A n \in 0..MaxOtpSent : guesses[n] = 0
    BY DEF StepInit
  <2>4. \A x : Cardinality(WrongAt(x)) = 0 /\ Cardinality(Pending(x)) = 0
    BY <1>4, <2>1
  <2> QED
    BY <2>2, <2>3, <2>4, ClerkSets DEF Counted
<1>6. AnotherLeft
  BY <1>2 DEF StepInit, AnotherLeft, Changing, IsAt
<1> QED
  BY <1>1, <1>3, <1>5, <1>6 DEF Inv

(***************************************************************************)
(* Steps of one request.                                                   *)
(***************************************************************************)
LEMMA EnterFacts ==
  ASSUME Types, NEW c \in Clerks, NEW state \in {AtRest} \cup Verifying \cup Changes,
         Enter(c, state)
  PROVE  /\ clerk' \in [Clerks -> {AtRest} \cup Verifying \cup Changes]
         /\ clerk'[c] = state
         /\ \A d \in Clerks \ {c} : clerk'[d] = clerk[d]
BY DEF Enter, Types

\* A step that leaves the verifications that are about to count a failure.
LEMMA SameWrong ==
  ASSUME \A d \in Clerks : \/ clerk'[d] = clerk[d]
                           \/ ~IsAt(d, "wrong") /\ ~IsAt(d, "wrong")'
  PROVE  \A x : WrongAt(x)' = WrongAt(x) /\ Pending(x)' = Pending(x)
BY DEF WrongAt, Pending, IsAt

\* One fewer request in flight, or one less that changes a role.
LEMMA LeftAtRest ==
  ASSUME Inv, NEW c \in Clerks, Enter(c, AtRest), UNCHANGED <<role, overlapped>>
  PROVE  AnotherLeft'
<1>1. clerk'[c] = AtRest /\ \A d \in Clerks \ {c} : clerk'[d] = clerk[d]
  BY EnterFacts DEF Inv
<1>2. Changing' \subseteq Changing /\ \A d \in Changing' : clerk'[d] = clerk[d]
  BY <1>1 DEF Changing, IsAt, AtRest
<1> QED
  BY <1>2 DEF Inv, AnotherLeft

LEMMA LeftSame ==
  ASSUME Inv, UNCHANGED <<role, overlapped>>, Changing' = Changing,
         \A d \in Changing : clerk'[d] = clerk[d]
  PROVE  AnotherLeft'
BY DEF Inv, AnotherLeft

(***************************************************************************)
(* Sessions and challenges.                                                *)
(***************************************************************************)
LEMMA TabInv ==
  ASSUME Inv, UNCHANGED <<role, challenge, clerk, sent, guesses, overlapped>>,
         tab' \in [Tabs -> [active: BOOLEAN, role: Roles]]
  PROVE  Inv'
<1>1. Types' /\ CodesApart'
  BY DEF Inv, Types, CodesApart, IsAt
<1>2. \A x : WrongAt(x)' = WrongAt(x) /\ Pending(x)' = Pending(x)
  BY SameWrong
<1>3. Counted'
  BY <1>2 DEF Inv, Counted
<1>4. AnotherLeft'
  BY LeftSame DEF Changing, IsAt
<1> QED
  BY <1>1, <1>3, <1>4 DEF Inv

LEMMA TabSteps == ASSUME Inv, NEW s \in Tabs, RefreshRole(s) \/ EndTab(s) PROVE Inv'
<1>1. tab[s] \in [active: BOOLEAN, role: Roles] /\ role[Owner[s]] \in Roles
  BY DEF Inv, Types
<1>2. [tab[s] EXCEPT !.role = role[Owner[s]]] \in [active: BOOLEAN, role: Roles]
  BY <1>1
<1>3. [tab[s] EXCEPT !.active = FALSE] \in [active: BOOLEAN, role: Roles]
  BY <1>1
<1>4. tab' \in [Tabs -> [active: BOOLEAN, role: Roles]]
  BY <1>2, <1>3 DEF RefreshRole, EndTab, Inv, Types
<1> QED
  BY <1>4, TabInv DEF RefreshRole, EndTab

\* A new code was never guessed.
LEMMA RequestInv == ASSUME Inv, NEW s \in Tabs, RequestChallenge(s) PROVE Inv'
<1> DEFINE fresh == [code |-> sent + 1, usable |-> TRUE, approval |-> "none", fails |-> 0]
<1>0. /\ sent \in Nat /\ sent + 1 \in 0..MaxOtpSent /\ sent' = sent + 1
      /\ challenge' = [challenge EXCEPT ![s] = fresh]
      /\ UNCHANGED <<role, tab, clerk, guesses, overlapped>>
  BY DEF Inv, Types, RequestChallenge
<1>1. fresh \in Challenges /\ fresh.code = sent + 1 /\ fresh.fails = 0 /\ fresh.usable
  BY <1>0 DEF Challenges
<1> HIDE DEF fresh
<1>2. /\ challenge' \in [Tabs -> Challenges] /\ challenge'[s] = fresh
      /\ \A t \in Tabs \ {s} : challenge'[t] = challenge[t]
  BY <1>0, <1>1 DEF Inv, Types
<1>3. Types'
  BY <1>0, <1>2 DEF Inv, Types
<1>4. \A t \in Tabs : challenge[t].code \in 0..sent
  BY DEF Inv, Types, CodesApart, Challenges
<1>5. CodesApart'
  <2>1. \A t \in Tabs : challenge'[t].code <= sent' /\ (challenge'[t].usable => challenge'[t].code # 0)
    BY <1>0, <1>1, <1>2, <1>4 DEF Inv, CodesApart
  <2>2. \A t, u \in Tabs : challenge'[t].code = challenge'[u].code => t = u \/ challenge'[t].code = 0
    BY <1>0, <1>1, <1>2, <1>4 DEF Inv, CodesApart
  <2>3. \A n \in 0..MaxOtpSent : n > sent' => guesses'[n] = 0
    BY <1>0 DEF Inv, CodesApart
  <2>4. ASSUME NEW c \in Clerks, IsAt(c, "wrong")
        PROVE  /\ clerk[c].seen.code \in 1..(sent + 1)
               /\ \A t \in Tabs : challenge'[t].code = clerk[c].seen.code => t = clerk[c].tab
    <3>1. clerk[c].seen.code \in 1..sent
      BY <2>4 DEF Inv, CodesApart
    <3> QED
      BY <1>0, <1>1, <1>2, <2>4, <3>1 DEF Inv, CodesApart
  <2> QED
    BY <1>0, <2>1, <2>2, <2>3, <2>4 DEF CodesApart, IsAt
<1>6. \A x : WrongAt(x)' = WrongAt(x) /\ Pending(x)' = Pending(x)
  BY <1>0, SameWrong
<1>7. Counted'
  <2>1. ASSUME NEW t \in Tabs PROVE challenge'[t].fails + Cardinality(WrongAt(t)) <= Most
    <3>1. CASE t = s
      <4>1. WrongAt(s) \in SUBSET Clerks
        BY DEF WrongAt
      <4>2. Cardinality(WrongAt(s)) \in Nat /\ Cardinality(WrongAt(s)) <= Most
        BY <4>1, ClerkSets DEF Most
      <4> QED
        BY <1>1, <1>2, <3>1, <4>2
    <3>2. CASE t # s
      BY <1>2, <3>2 DEF Inv, Counted
    <3> QED
      BY <3>1, <3>2
  <2>2. ASSUME NEW t \in Tabs, challenge'[t].code # 0
        PROVE  guesses[challenge'[t].code] <= challenge'[t].fails
    <3>1. CASE t = s
      <4>1. guesses[sent + 1] = 0
        BY <1>0 DEF Inv, CodesApart
      <4> QED
        BY <1>1, <1>2, <3>1, <4>1
    <3>2. CASE t # s
      BY <1>2, <2>2, <3>2 DEF Inv, Counted
    <3> QED
      BY <3>1, <3>2
  <2> QED
    BY <1>0, <1>6, <2>1, <2>2 DEF Inv, Counted
<1>8. AnotherLeft'
  BY <1>0, LeftSame DEF Changing, IsAt
<1> QED
  BY <1>3, <1>5, <1>7, <1>8 DEF Inv

LEMMA ExpireInv == ASSUME Inv, NEW s \in Tabs, ExpireChallenge(s) PROVE Inv'
<1>0. UNCHANGED <<role, tab, clerk, sent, guesses, overlapped>> /\ challenge[s] \in Challenges
  BY DEF ExpireChallenge, Inv, Types
<1>1. PICK new \in Challenges : /\ challenge' = [challenge EXCEPT ![s] = new]
                                /\ new.code = challenge[s].code /\ new.fails = challenge[s].fails
                                /\ new.usable => challenge[s].usable
  <2>1. CASE challenge' = [challenge EXCEPT ![s].usable = FALSE]
    <3> DEFINE new == [challenge[s] EXCEPT !.usable = FALSE]
    <3>1. new \in Challenges /\ new.code = challenge[s].code /\ new.fails = challenge[s].fails
          /\ ~new.usable
      BY <1>0 DEF Challenges
    <3> QED
      BY <2>1, <3>1 DEF Inv, Types
  <2>2. CASE challenge' = [challenge EXCEPT ![s].approval = "none"]
    <3> DEFINE new == [challenge[s] EXCEPT !.approval = "none"]
    <3>1. new \in Challenges /\ new.code = challenge[s].code /\ new.fails = challenge[s].fails
          /\ new.usable = challenge[s].usable
      BY <1>0 DEF Challenges
    <3> QED
      BY <2>2, <3>1 DEF Inv, Types
  <2> QED
    BY <2>1, <2>2 DEF ExpireChallenge
<1>2. /\ challenge' \in [Tabs -> Challenges]
      /\ \A t \in Tabs : /\ challenge'[t].code = challenge[t].code
                         /\ challenge'[t].fails = challenge[t].fails
                         /\ challenge'[t].usable => challenge[t].usable
  BY <1>1 DEF Inv, Types
<1>3. Types' /\ CodesApart'
  BY <1>0, <1>2 DEF Inv, Types, CodesApart, IsAt
<1>4. \A x : WrongAt(x)' = WrongAt(x) /\ Pending(x)' = Pending(x)
  BY <1>0, SameWrong
<1>5. Counted'
  BY <1>0, <1>2, <1>4 DEF Inv, Counted
<1>6. AnotherLeft'
  BY <1>0, LeftSame DEF Changing, IsAt
<1> QED
  BY <1>3, <1>5, <1>6 DEF Inv

(***************************************************************************)
(* Verifications.                                                          *)
(***************************************************************************)
LEMMA ReadInv ==
  ASSUME Inv, NEW c \in Clerks, NEW s \in Tabs, NEW right \in BOOLEAN, ReadChallenge(c, s, right)
  PROVE  Inv'
<1> DEFINE state == [pc |-> IF right THEN "right" ELSE "wrong", tab |-> s, seen |-> challenge[s]]
<1>0. /\ IsAt(c, "idle") /\ challenge[s].fails < MaxFails /\ challenge[s].usable
      /\ Enter(c, state) /\ UNCHANGED <<role, tab, challenge, sent, guesses, overlapped>>
      /\ challenge[s] \in Challenges
  BY DEF ReadChallenge, Inv, Types
<1>1. /\ state \in Verifying /\ state.tab = s /\ state.seen = challenge[s]
      /\ state.pc = IF right THEN "right" ELSE "wrong"
  BY <1>0 DEF Verifying
<1> HIDE DEF state
<1>2. /\ clerk' \in [Clerks -> {AtRest} \cup Verifying \cup Changes]
      /\ clerk'[c] = state /\ \A d \in Clerks \ {c} : clerk'[d] = clerk[d]
  BY <1>0, <1>1, EnterFacts DEF Inv
<1>3. Types'
  BY <1>0, <1>2 DEF Inv, Types
<1>4. challenge[s].code \in 1..sent
  BY <1>0 DEF Inv, Types, CodesApart, Challenges
<1>5. CodesApart'
  <2>1. ASSUME NEW d \in Clerks, IsAt(d, "wrong")'
        PROVE  /\ clerk'[d].seen.code \in 1..sent
               /\ \A t \in Tabs : challenge[t].code = clerk'[d].seen.code => t = clerk'[d].tab
    <3>1. CASE d = c
      <4>1. \A t \in Tabs : challenge[t].code = challenge[s].code => t = s
        BY <1>4 DEF Inv, CodesApart
      <4> QED
        BY <1>1, <1>2, <1>4, <3>1, <4>1
    <3>2. CASE d # c
      BY <1>2, <2>1, <3>2 DEF Inv, CodesApart, IsAt
    <3> QED
      BY <3>1, <3>2
  <2> QED
    BY <1>0, <2>1 DEF Inv, CodesApart
<1>6. Counted'
  <2>1. CASE right
    <3>1. \A x : WrongAt(x)' = WrongAt(x) /\ Pending(x)' = Pending(x)
      BY <1>0, <1>1, <1>2, <2>1, SameWrong DEF IsAt
    <3> QED
      BY <1>0, <3>1 DEF Inv, Counted
  <2>2. CASE ~right
    <3>1. \A t : t # s => WrongAt(t)' = WrongAt(t)
      BY <1>0, <1>1, <1>2, <2>2 DEF WrongAt, IsAt
    <3>2. \A n : n # challenge[s].code => Pending(n)' = Pending(n)
      BY <1>0, <1>1, <1>2, <2>2 DEF Pending, IsAt
    <3>3. /\ Cardinality(WrongAt(s)') \in Nat /\ Cardinality(WrongAt(s)') <= Cardinality(Clerks)
          /\ \A n : Cardinality(Pending(n)') \in Nat /\ Cardinality(Pending(n)') <= Cardinality(Clerks)
      <4>1. WrongAt(s)' \in SUBSET Clerks /\ \A n : Pending(n)' \in SUBSET Clerks
        BY DEF WrongAt, Pending
      <4> QED
        BY <4>1, ClerkSets
    <3>4. challenge[s].fails \in Nat /\ Cardinality(Clerks) \in Nat
      BY <1>0, ClerkSets DEF Challenges
    <3>5. \A t \in Tabs : challenge[t].fails + Cardinality(WrongAt(t)') <= Most
      <4>1. challenge[s].fails + Cardinality(WrongAt(s)') <= Most
        BY <1>0, <3>3, <3>4 DEF Most
      <4> QED
        BY <3>1, <4>1 DEF Inv, Counted
    <3>6. \A n \in 0..MaxOtpSent : guesses[n] + Cardinality(Pending(n)') <= Most
      <4> SUFFICES ASSUME NEW n \in 0..MaxOtpSent
                   PROVE  guesses[n] + Cardinality(Pending(n)') <= Most
        OBVIOUS
      <4>1. CASE n = challenge[s].code
        <5>1. guesses[n] <= challenge[s].fails /\ guesses[n] \in Nat
          BY <1>4, <4>1 DEF Inv, Types, Counted
        <5> QED
          BY <1>0, <3>3, <3>4, <5>1 DEF Most
      <4>2. CASE n # challenge[s].code
        BY <3>2, <4>2 DEF Inv, Counted
      <4> QED
        BY <4>1, <4>2
    <3> QED
      BY <1>0, <3>5, <3>6 DEF Inv, Counted, Most
  <2> QED
    BY <2>1, <2>2
<1>7. AnotherLeft'
  <2>1. Changing' = Changing /\ \A d \in Changing : clerk'[d] = clerk[d]
    BY <1>0, <1>1, <1>2 DEF Changing, IsAt
  <2> QED
    BY <1>0, <2>1, LeftSame
<1> QED
  BY <1>3, <1>5, <1>6, <1>7 DEF Inv

\* A verification that ends; what it writes into the challenge is up to the action.
LEMMA EndsTypes ==
  ASSUME Inv, NEW c \in Clerks, Enter(c, AtRest)
  PROVE  /\ clerk' \in [Clerks -> {AtRest} \cup Verifying \cup Changes]
         /\ \A d \in Clerks \ {c} : clerk'[d] = clerk[d]
         /\ ~IsAt(c, "wrong")'
         /\ \A x : /\ WrongAt(x)' \in SUBSET WrongAt(x) /\ Pending(x)' \in SUBSET Pending(x)
                   /\ WrongAt(x) \in SUBSET Clerks /\ Pending(x) \in SUBSET Clerks
         /\ \A d \in Clerks : IsAt(d, "wrong")' => IsAt(d, "wrong") /\ clerk'[d] = clerk[d]
<1>1. /\ clerk' \in [Clerks -> {AtRest} \cup Verifying \cup Changes] /\ clerk'[c] = AtRest
      /\ \A d \in Clerks \ {c} : clerk'[d] = clerk[d]
  BY EnterFacts DEF Inv
<1>2. ~IsAt(c, "wrong")'
  BY <1>1 DEF IsAt, AtRest
<1> QED
  BY <1>1, <1>2 DEF WrongAt, Pending, IsAt

LEMMA FailureInv == ASSUME Inv, NEW c \in Clerks, RecordFailure(c) PROVE Inv'
<1>0. /\ IsAt(c, "wrong") /\ Enter(c, AtRest) /\ UNCHANGED <<role, tab, sent, overlapped>>
      /\ clerk[c] \in Verifying
  BY ClerkState DEF RecordFailure, IsAt, Inv
<1>s. PICK s \in Tabs : s = clerk[c].tab
  BY <1>0 DEF Verifying
<1>n. PICK n \in 0..MaxOtpSent : n = clerk[c].seen.code
  BY <1>0 DEF Verifying, Challenges
<1> DEFINE new == [challenge[s] EXCEPT !.fails = challenge[s].fails + 1]
<1>1. challenge[s] \in Challenges /\ n \in 1..sent
  BY <1>0, <1>n DEF Inv, CodesApart, Types
<1>2. /\ new \in Challenges /\ new.code = challenge[s].code /\ new.usable = challenge[s].usable
      /\ new.fails = challenge[s].fails + 1
  BY <1>1 DEF Challenges
<1>3. challenge' = [challenge EXCEPT ![s] = new] /\ guesses' = [guesses EXCEPT ![n] = guesses[n] + 1]
  BY <1>1, <1>s, <1>n DEF RecordFailure, FailsAfter, Inv, Types
<1> HIDE DEF new
<1>4. /\ challenge' \in [Tabs -> Challenges] /\ challenge'[s] = new
      /\ \A t \in Tabs \ {s} : challenge'[t] = challenge[t]
  BY <1>1, <1>2, <1>3 DEF Inv, Types
<1>5. /\ guesses' \in [0..MaxOtpSent -> Nat] /\ guesses'[n] = guesses[n] + 1
      /\ \A m \in 0..MaxOtpSent : m # n => guesses'[m] = guesses[m]
  BY <1>1, <1>3 DEF Inv, Types
<1>6. Types'
  BY <1>0, <1>4, <1>5, EndsTypes DEF Inv, Types
<1>7. \A t \in Tabs : challenge'[t].code = challenge[t].code /\ challenge'[t].usable = challenge[t].usable
  BY <1>2, <1>4
<1>8. CodesApart'
  <2>1. n \in 1..sent
    BY <1>1
  <2>2. \A m \in 0..MaxOtpSent : m > sent => guesses'[m] = 0
    BY <1>5, <2>1 DEF Inv, CodesApart, Types
  <2>3. \A d \in Clerks : IsAt(d, "wrong")' =>
          /\ clerk'[d].seen.code \in 1..sent
          /\ \A t \in Tabs : challenge'[t].code = clerk'[d].seen.code => t = clerk'[d].tab
    BY <1>0, <1>7, EndsTypes DEF Inv, CodesApart
  <2> QED
    BY <1>0, <1>7, <2>2, <2>3 DEF Inv, CodesApart
<1>9. \A x : WrongAt(x)' \in SUBSET WrongAt(x) /\ Pending(x)' \in SUBSET Pending(x)
             /\ WrongAt(x) \in SUBSET Clerks /\ Pending(x) \in SUBSET Clerks
  BY <1>0, EndsTypes
<1>10. /\ Cardinality(WrongAt(s)') = Cardinality(WrongAt(s)) - 1
       /\ Cardinality(Pending(n)') = Cardinality(Pending(n)) - 1
  <2>1. c \in WrongAt(s) /\ c \in Pending(n)
    BY <1>0, <1>s, <1>n DEF WrongAt, Pending
  <2>2. WrongAt(s)' = WrongAt(s) \ {c} /\ Pending(n)' = Pending(n) \ {c}
    BY <1>0, EndsTypes DEF WrongAt, Pending, IsAt
  <2> QED
    BY <1>9, <2>1, <2>2, OneFewer
<1>11. \A x : /\ Cardinality(WrongAt(x)) \in Nat /\ Cardinality(WrongAt(x)') \in Nat
              /\ Cardinality(Pending(x)) \in Nat /\ Cardinality(Pending(x)') \in Nat
              /\ Cardinality(WrongAt(x)') <= Cardinality(WrongAt(x))
              /\ Cardinality(Pending(x)') <= Cardinality(Pending(x))
  <2>1. \A x : WrongAt(x)' \in SUBSET Clerks /\ Pending(x)' \in SUBSET Clerks
    BY <1>9
  <2> QED
    BY <1>9, <2>1, ClerkSets, Fewer
<1>12. Counted'
  <2>1. ASSUME NEW t \in Tabs PROVE challenge'[t].fails + Cardinality(WrongAt(t)') <= Most
    <3>1. challenge[t].fails + Cardinality(WrongAt(t)) <= Most /\ challenge[t].fails \in Nat
      BY DEF Inv, Counted, Types, Challenges
    <3>2. CASE t = s
      BY <1>2, <1>4, <1>10, <1>11, <3>1, <3>2
    <3>3. CASE t # s
      BY <1>4, <1>11, <3>1, <3>3, ClerkSets
    <3> QED
      BY <3>2, <3>3
  <2>2. ASSUME NEW t \in Tabs, challenge'[t].code # 0
        PROVE  guesses'[challenge'[t].code] <= challenge'[t].fails
    <3>1. /\ challenge[t].code \in 0..MaxOtpSent /\ challenge[t].fails \in Nat
          /\ guesses[challenge[t].code] <= challenge[t].fails
          /\ guesses[challenge[t].code] \in Nat
      BY <1>7, <2>2 DEF Inv, Counted, Types, Challenges
    <3>2. CASE challenge[t].code = n
      <4>1. t = s
        BY <1>0, <1>s, <1>n, <3>2 DEF Inv, CodesApart
      <4> QED
        BY <1>2, <1>4, <1>5, <1>7, <3>1, <3>2, <4>1
    <3>3. CASE challenge[t].code # n
      <4>1. challenge'[t].fails >= challenge[t].fails
        BY <1>2, <1>4, <3>1
      <4> QED
        BY <1>4, <1>5, <1>7, <3>1, <3>3, <4>1 DEF Challenges
    <3> QED
      BY <3>2, <3>3
  <2>3. ASSUME NEW m \in 0..MaxOtpSent PROVE guesses'[m] + Cardinality(Pending(m)') <= Most
    <3>1. guesses[m] + Cardinality(Pending(m)) <= Most /\ guesses[m] \in Nat
      BY DEF Inv, Counted, Types
    <3>2. CASE m = n
      <4>1. Cardinality(Pending(n)) \in Nat /\ Cardinality(Pending(n)') = Cardinality(Pending(n)) - 1
        BY <1>10, <1>11
      <4>2. guesses'[n] = guesses[n] + 1
        BY <1>5
      <4>3. guesses[n] + Cardinality(Pending(n)) <= Most /\ guesses[n] \in Nat
        BY <3>1, <3>2
      <4>4. guesses'[n] + Cardinality(Pending(n)') <= Most
        BY <4>1, <4>2, <4>3, ClerkSets
      <4> QED
        BY <3>2, <4>4
    <3>3. CASE m # n
      BY <1>5, <1>11, <3>1, <3>3, ClerkSets
    <3> QED
      BY <3>2, <3>3
  <2> QED
    BY <2>1, <2>2, <2>3 DEF Counted, Most
<1>13. AnotherLeft'
  BY <1>0, LeftAtRest
<1> QED
  BY <1>6, <1>8, <1>12, <1>13 DEF Inv

LEMMA ApprovalInv == ASSUME Inv, NEW c \in Clerks, RecordApproval(c) PROVE Inv'
<1>0. /\ IsAt(c, "right") /\ Enter(c, AtRest)
      /\ UNCHANGED <<role, tab, sent, guesses, overlapped>> /\ clerk[c] \in Verifying
  BY ClerkState DEF RecordApproval, IsAt, Inv
<1>s. PICK s \in Tabs : s = clerk[c].tab
  BY <1>0 DEF Verifying
<1> DEFINE new == [NoChallenge EXCEPT !.approval = "live"]
<1>1. new \in Challenges /\ new.code = 0 /\ new.fails = 0 /\ ~new.usable
  <2>1. /\ NoChallenge \in Challenges
        /\ NoChallenge.code = 0 /\ NoChallenge.fails = 0 /\ ~NoChallenge.usable
    <3>1. 0 \in 0..MaxOtpSent
      OBVIOUS
    <3> QED
      BY <3>1 DEF NoChallenge, Challenges
  <2> QED
    BY <2>1 DEF Challenges
<1>2. challenge' = [challenge EXCEPT ![s] = new]
  BY <1>s DEF RecordApproval
<1> HIDE DEF new
<1>3. /\ challenge' \in [Tabs -> Challenges] /\ challenge'[s] = new
      /\ \A t \in Tabs \ {s} : challenge'[t] = challenge[t]
  BY <1>1, <1>2 DEF Inv, Types
<1>4. Types'
  BY <1>0, <1>3, EndsTypes DEF Inv, Types
<1>5. \A d \in Clerks : \/ clerk'[d] = clerk[d]
                        \/ ~IsAt(d, "wrong") /\ ~IsAt(d, "wrong")'
  BY <1>0, EndsTypes DEF IsAt
<1>6. \A x : WrongAt(x)' = WrongAt(x) /\ Pending(x)' = Pending(x)
  BY <1>5, SameWrong
<1>7. CodesApart'
  <2>1. \A d \in Clerks : IsAt(d, "wrong")' =>
          /\ clerk'[d].seen.code \in 1..sent
          /\ \A t \in Tabs : challenge'[t].code = clerk'[d].seen.code => t = clerk'[d].tab
    BY <1>0, <1>1, <1>3, EndsTypes DEF Inv, CodesApart
  <2>2. \A t \in Tabs : challenge'[t].code <= sent /\ (challenge'[t].usable => challenge'[t].code # 0)
    BY <1>1, <1>3 DEF Inv, CodesApart, Types
  <2>3. \A t, u \in Tabs : challenge'[t].code = challenge'[u].code => t = u \/ challenge'[t].code = 0
    BY <1>1, <1>3 DEF Inv, CodesApart
  <2> QED
    BY <1>0, <2>1, <2>2, <2>3 DEF Inv, CodesApart
<1>8. Counted'
  <2>1. ASSUME NEW t \in Tabs PROVE challenge'[t].fails + Cardinality(WrongAt(t)) <= Most
    <3>1. CASE t = s
      <4>1. WrongAt(s) \in SUBSET Clerks
        BY DEF WrongAt
      <4>2. Cardinality(WrongAt(s)) \in Nat /\ Cardinality(WrongAt(s)) <= Most
        BY <4>1, ClerkSets DEF Most
      <4> QED
        BY <1>1, <1>3, <3>1, <4>2
    <3>2. CASE t # s
      BY <1>3, <3>2 DEF Inv, Counted
    <3> QED
      BY <3>1, <3>2
  <2>2. ASSUME NEW t \in Tabs, challenge'[t].code # 0
        PROVE  guesses[challenge'[t].code] <= challenge'[t].fails
    BY <1>1, <1>3, <2>2 DEF Inv, Counted
  <2> QED
    BY <1>0, <1>6, <2>1, <2>2 DEF Inv, Counted
<1>9. AnotherLeft'
  BY <1>0, LeftAtRest
<1> QED
  BY <1>4, <1>7, <1>8, <1>9 DEF Inv

(***************************************************************************)
(* Role changes.                                                           *)
(***************************************************************************)
\* A step that counts nothing: what the verifications and challenges hold stays.
LEMMA NothingCounted ==
  ASSUME Inv, UNCHANGED <<challenge, sent, guesses>>, NEW c \in Clerks,
         ~IsAt(c, "wrong")', \A d \in Clerks \ {c} : clerk'[d] = clerk[d]
  PROVE  CodesApart' /\ Counted'
<1>1. CodesApart'
  BY DEF Inv, CodesApart, IsAt
<1>2. ASSUME NEW x
      PROVE  /\ WrongAt(x)' \in SUBSET WrongAt(x) /\ WrongAt(x) \in SUBSET Clerks
             /\ Pending(x)' \in SUBSET Pending(x) /\ Pending(x) \in SUBSET Clerks
  BY DEF WrongAt, Pending, IsAt
<1>3. ASSUME NEW x
      PROVE  /\ Cardinality(WrongAt(x)) \in Nat /\ Cardinality(WrongAt(x)') \in Nat
             /\ Cardinality(Pending(x)) \in Nat /\ Cardinality(Pending(x)') \in Nat
             /\ Cardinality(WrongAt(x)') <= Cardinality(WrongAt(x))
             /\ Cardinality(Pending(x)') <= Cardinality(Pending(x))
  <2>1. WrongAt(x)' \in SUBSET Clerks /\ Pending(x)' \in SUBSET Clerks
    BY <1>2
  <2> QED
    BY <1>2, <2>1, ClerkSets, Fewer
<1>4. ASSUME NEW s \in Tabs PROVE challenge[s].fails + Cardinality(WrongAt(s)') <= Most
  <2>1. challenge[s].fails + Cardinality(WrongAt(s)) <= Most /\ challenge[s].fails \in Nat
    BY DEF Inv, Counted, Types, Challenges
  <2> QED
    BY <1>3, <2>1, ClerkSets
<1>5. ASSUME NEW n \in 0..MaxOtpSent PROVE guesses[n] + Cardinality(Pending(n)') <= Most
  <2>1. guesses[n] + Cardinality(Pending(n)) <= Most /\ guesses[n] \in Nat
    BY DEF Inv, Counted, Types
  <2> QED
    BY <1>3, <2>1, ClerkSets
<1> QED
  BY <1>1, <1>4, <1>5 DEF Inv, Counted, Most

LEMMA AbortInv == ASSUME Inv, NEW c \in Clerks, AbortStep(c) PROVE Inv'
<1>1. Enter(c, AtRest) /\ UNCHANGED <<role, tab, challenge, sent, guesses, overlapped>>
  BY DEF AbortStep
<1>2. Types'
  BY <1>1, EndsTypes DEF Inv, Types
<1> QED
  BY <1>1, <1>2, EndsTypes, NothingCounted, LeftAtRest DEF Inv

\* A change starts; if it is the only one, it was checked against the rows as they are.
LEMMA StartInv ==
  ASSUME Inv, NEW c \in Clerks, NEW s \in Tabs, NEW p \in People, NEW op \in {"promote", "demote"},
         NEW to \in Roles, StartChangeOf(c, s, p, op, to),
         role[p] = "SUPERADMIN" => \E q \in People : role[q] = "SUPERADMIN" /\ q # p
  PROVE  Inv'
<1> DEFINE state == [pc |-> "change", tab |-> s, target |-> p, op |-> op, to |-> to, seen |-> role[p]]
<1>0. /\ Enter(c, state) /\ overlapped' = (overlapped \/ Changing # {})
      /\ UNCHANGED <<role, tab, challenge, sent, guesses>> /\ role[p] \in Roles
  BY DEF StartChangeOf, Inv, Types
<1>1. state \in Changes /\ state.pc = "change" /\ state.target = p
  BY <1>0 DEF Changes
<1> HIDE DEF state
<1>2. /\ clerk' \in [Clerks -> {AtRest} \cup Verifying \cup Changes]
      /\ clerk'[c] = state /\ \A d \in Clerks \ {c} : clerk'[d] = clerk[d]
  BY <1>0, <1>1, EnterFacts DEF Inv
<1>3. Types'
  <2>1. overlapped' \in BOOLEAN
    BY <1>0 DEF Inv, Types
  <2> QED
    BY <1>0, <1>2, <2>1 DEF Inv, Types
<1>4. CodesApart' /\ Counted'
  BY <1>0, <1>1, <1>2, NothingCounted DEF IsAt
<1>5. AnotherLeft'
  <2> SUFFICES ASSUME ~overlapped'
               PROVE  /\ \A x, y \in Changing' : x = y
                      /\ \E q \in People : role[q] = "SUPERADMIN"
                      /\ \A x \in Changing' : role[clerk'[x].target] = "SUPERADMIN" =>
                            \E q \in People : role[q] = "SUPERADMIN" /\ q # clerk'[x].target
    BY <1>0 DEF AnotherLeft
  <2>1. ~overlapped /\ Changing = {}
    BY <1>0
  <2>2. Changing' = {c}
    BY <1>1, <1>2, <2>1 DEF Changing, IsAt
  <2> QED
    BY <1>1, <1>2, <2>1, <2>2 DEF Inv, AnotherLeft
<1> QED
  BY <1>3, <1>4, <1>5 DEF Inv

LEMMA StartChanges ==
  ASSUME Inv, NEW c \in Clerks, NEW s \in Tabs, NEW p \in People,
         StartPromotion(c, s, p) \/ StartDemotion(c, s, p)
  PROVE  Inv'
<1>1. CASE StartPromotion(c, s, p)
  <2>1. role[p] # "SUPERADMIN"
    BY <1>1 DEF StartPromotion
  <2> QED
    BY <1>1, <2>1, StartInv DEF StartPromotion, Roles
<1>2. CASE StartDemotion(c, s, p)
  <2>1. role[p] = "SUPERADMIN" => \E q \in People : role[q] = "SUPERADMIN" /\ q # p
    <3> SUFFICES ASSUME role[p] = "SUPERADMIN",
                        \A q \in People : role[q] = "SUPERADMIN" => q = p
                 PROVE  FALSE
      OBVIOUS
    <3>1. Superadmins = {p}
      BY DEF Superadmins
    <3>2. Cardinality({p}) = 1
      BY FS_Singleton
    <3>3. Cardinality(Superadmins) > 1
      BY <1>2 DEF StartDemotion, MayDemote
    <3> QED
      BY <3>1, <3>2, <3>3
  <2>2. (IF role[p] = "SUPERADMIN" THEN "ADMIN" ELSE "USER") \in Roles
    BY DEF Roles
  <2> QED
    BY <1>2, <2>1, <2>2, StartInv DEF StartDemotion
<1> QED
  BY <1>1, <1>2

\* What a change replaces is the role of its target alone.
LEMMA CommitInv == ASSUME Inv, NEW c \in Clerks, CommitChange(c) PROVE Inv'
<1>0. /\ IsAt(c, "change") /\ Enter(c, AtRest) /\ clerk[c] \in Changes
      /\ UNCHANGED <<tab, challenge, sent, guesses, overlapped>>
  BY ClerkState DEF CommitChange, IsAt, Inv
<1>1. PICK p \in People, to \in Roles : p = clerk[c].target /\ to = clerk[c].to
  BY <1>0 DEF Changes
<1>2. role' = [role EXCEPT ![p] = to]
  BY <1>1 DEF CommitChange
<1>3. /\ role' \in [People -> Roles]
      /\ \A q \in People \ {p} : role'[q] = role[q]
  BY <1>2 DEF Inv, Types
<1>4. Types'
  BY <1>0, <1>3, EndsTypes DEF Inv, Types
<1>5. AnotherLeft'
  <2> SUFFICES ASSUME ~overlapped
               PROVE  Changing' = {} /\ \E q \in People : role'[q] = "SUPERADMIN"
    BY <1>0 DEF AnotherLeft
  <2>1. c \in Changing
    BY <1>0 DEF Changing
  <2>2. Changing' = {}
    BY <1>0, <2>1, EndsTypes, EnterFacts DEF Inv, AnotherLeft, Changing, IsAt, AtRest
  <2>3. \E q \in People : role[q] = "SUPERADMIN" /\ q # p
    <3>1. CASE role[p] = "SUPERADMIN"
      BY <1>1, <2>1, <3>1 DEF Inv, AnotherLeft
    <3>2. CASE role[p] # "SUPERADMIN"
      BY <3>2 DEF Inv, AnotherLeft
    <3> QED
      BY <3>1, <3>2
  <2> QED
    BY <1>3, <2>2, <2>3
<1> QED
  BY <1>0, <1>4, <1>5, EndsTypes, NothingCounted DEF Inv

(***************************************************************************)
(* The theorems.                                                           *)
(***************************************************************************)
LEMMA NextInv == ASSUME Inv, [StepNext]_stepVars PROVE Inv'
<1>1. CASE UNCHANGED stepVars
  <2>1. UNCHANGED <<role, tab, challenge, clerk, sent, guesses, overlapped>>
    BY <1>1 DEF stepVars
  <2> QED
    BY <2>1, TabInv DEF Inv, Types
<1>2. CASE StepNext
  BY <1>2, TabSteps, RequestInv, ExpireInv, ReadInv, FailureInv, ApprovalInv, CommitInv, AbortInv,
     StartChanges DEF StepNext
<1> QED
  BY <1>1, <1>2

LEMMA InvHolds == StepSpec => []Inv
BY InitInv, NextInv, PTL DEF StepSpec

\* A code survives at most the limit of wrong guesses and one more for every other
\* verification that read the challenge before the last failure was counted
\* (verifyChallenge compares what it read, and counts by the challenge's id).
THEOREM GuessesStayBounded == StepSpec => []GuessesBounded
<1>1. Inv => GuessesBounded
  <2> SUFFICES ASSUME Inv PROVE GuessesBounded
    OBVIOUS
  <2>1. ASSUME NEW n \in 0..MaxOtpSent PROVE guesses[n] <= Most
    <3>1. Pending(n) \in SUBSET Clerks
      BY DEF Pending
    <3>2. Cardinality(Pending(n)) \in Nat
      BY <3>1, ClerkSets
    <3>3. guesses[n] + Cardinality(Pending(n)) <= Most /\ guesses[n] \in Nat
      BY DEF Inv, Counted, Types
    <3> QED
      BY <3>2, <3>3, ClerkSets
  <2>2. ASSUME NEW s \in Tabs
        PROVE  challenge[s] \in [code: 0..MaxOtpSent, usable: BOOLEAN, approval: {"none", "live"},
                                 fails: 0..(MaxFails + Cardinality(Clerks))]
    <3>1. WrongAt(s) \in SUBSET Clerks
      BY DEF WrongAt
    <3>2. Cardinality(WrongAt(s)) \in Nat
      BY <3>1, ClerkSets
    <3>3. challenge[s].fails + Cardinality(WrongAt(s)) <= Most /\ challenge[s] \in Challenges
      BY DEF Inv, Counted, Types
    <3>4. challenge[s].fails \in 0..(MaxFails + Cardinality(Clerks))
      BY <3>2, <3>3, ClerkSets DEF Challenges, Most
    <3> QED
      BY <3>3, <3>4 DEF Challenges
  <2>3. StepTypeOK
    BY <2>2 DEF Inv, Types, StepTypeOK
  <2> QED
    BY <2>1, <2>3 DEF GuessesBounded, Most
<1> QED
  BY <1>1, InvHolds, PTL

\* Role changes leave a superadmin unless two of them overlapped: each counts the
\* superadmins among the rows as they are, and locks none (updateUserRole).
THEOREM SuperadminStays == StepSpec => []SuperadminLeft
<1>1. Inv => SuperadminLeft
  BY DEF Inv, AnotherLeft, SuperadminLeft, Superadmins
<1> QED
  BY <1>1, InvHolds, PTL
=============================================================================

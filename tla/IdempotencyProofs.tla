------------------------- MODULE IdempotencyProofs -------------------------
(***************************************************************************)
(* What TLAPS proves about Idempotency for every set of requests, payloads *)
(* and faults, and every bound.                                            *)
(***************************************************************************)
EXTENDS Idempotency, TLAPS

Unsettled == {"compute", "retryable", "final"}

\* The request that executes under the key has the record to itself.
HolderOK(r) ==
    r \in Running => /\ In("IN_PROGRESS")
                     /\ record.born = epoch
                     /\ record.hash = req[r].payload

\* The effects a request or the record speaks of were committed for its payload.
BodiesOK ==
    /\ \A r \in Requests : req[r].pc = "complete" =>
          req[r].body \in 1..Len(effects) /\ effects[req[r].body] = req[r].payload
    /\ In("COMPLETED") =>
          record.body \in 1..Len(effects) /\ effects[record.body] = record.hash

\* Whoever may execute next finds every commit so far excused.
Counted ==
    /\ RepeatsExcused
    /\ ~Exists \/ In("FAILED_RETRYABLE") => Len(effects) <= excuses
    /\ \A r \in Requests : req[r].pc \in Unsettled => Len(effects) <= excuses

\* Row ids are never used again, so a claim meets the payload its lookup met.
ClaimsKnow ==
    /\ Exists => record.id <= rows
    /\ \A r \in Requests : req[r].pc = "claim" =>
          /\ req[r].id <= rows
          /\ Exists /\ record.id = req[r].id => record.hash = req[r].payload

Inv == /\ TypeOK
       /\ OneRunning
       /\ \A r \in Requests : HolderOK(r)
       /\ ClaimsKnow
       /\ BodiesOK
       /\ AnswersOwnPayload
       /\ Counted

USE FaultsAssumption, BoundsAssumption, PayloadsAssumption, NoRecordAssumption

(***************************************************************************)
(* Types.                                                                  *)
(***************************************************************************)
LEMMA InitType == Init => TypeOK
<1> SomePayload \in Payloads
  BY DEF SomePayload
<1> QED
  BY DEF Init, TypeOK, RequestTypes, PCs, Bodies

LEMMA AnswerType ==
  ASSUME TypeOK, NEW r \in Requests, NEW body \in Bodies, Answer(r, body)
  PROVE  /\ req' \in [Requests -> RequestTypes]
         /\ req'[r].pc = "idle" /\ req'[r].payload = req[r].payload
         /\ req'[r].body = req[r].body /\ req'[r].answer = body
         /\ \A s \in Requests \ {r} : req'[s] = req[s]
<1>1. req[r] \in RequestTypes
  BY DEF TypeOK
<1>2. [req[r] EXCEPT !.pc = "idle", !.answer = body] \in RequestTypes
  BY <1>1 DEF RequestTypes, PCs
<1>3. req' = [req EXCEPT ![r] = [req[r] EXCEPT !.pc = "idle", !.answer = body]]
  BY DEF Answer, TypeOK
<1> QED
  BY <1>1, <1>2, <1>3 DEF TypeOK, RequestTypes

LEMMA GotoType ==
  ASSUME TypeOK, NEW r \in Requests, NEW pc \in PCs, Goto(r, pc)
  PROVE  /\ req' \in [Requests -> RequestTypes]
         /\ req'[r].pc = pc /\ req'[r].payload = req[r].payload
         /\ req'[r].body = req[r].body /\ req'[r].answer = req[r].answer
         /\ \A s \in Requests \ {r} : req'[s] = req[s]
<1>1. req[r] \in RequestTypes
  BY DEF TypeOK
<1>2. [req[r] EXCEPT !.pc = pc] \in RequestTypes
  BY <1>1 DEF RequestTypes
<1>3. req' = [req EXCEPT ![r] = [req[r] EXCEPT !.pc = pc]]
  BY DEF Goto, TypeOK
<1> QED
  BY <1>1, <1>2, <1>3 DEF TypeOK, RequestTypes

LEMMA RecordType ==
  ASSUME TypeOK, Exists
  PROVE  /\ record \in Records
         /\ record.body \in Bodies
         /\ \A state \in States, body \in Bodies :
               [record EXCEPT !.state = state, !.body = body, !.born = epoch] \in Records
  BY DEF TypeOK, Exists, Records, Bodies

LEMMA StepType ==
  ASSUME TypeOK, NEW r \in Requests, Step(r)
  PROVE  TypeOK'
<1>1. 0 \in Bodies /\ req[r] \in RequestTypes /\ req[r].body \in Bodies
      /\ "create" \in PCs /\ "reread" \in PCs /\ "compute" \in PCs
      /\ "retryable" \in PCs /\ "final" \in PCs
      /\ "IN_PROGRESS" \in States /\ "COMPLETED" \in States
      /\ "FAILED_FINAL" \in States /\ "FAILED_RETRYABLE" \in States
  BY DEF TypeOK, RequestTypes, Bodies, PCs, States
<1>3. CASE Lookup(r)
  <2>1. CASE \E pc \in PCs : Goto(r, pc)
    BY <1>3, <2>1, GotoType DEF Lookup, TypeOK
  <2>2. CASE \E body \in Bodies : Answer(r, body)
    BY <1>3, <2>2, AnswerType DEF Lookup, TypeOK
  <2>3. CASE In("FAILED_RETRYABLE") /\ req' = [req EXCEPT ![r].pc = "claim", ![r].id = record.id]
    <3>1. record.id \in Nat
      BY <2>3, RecordType DEF In, Records
    <3>2. [req[r] EXCEPT !.pc = "claim", !.id = record.id] \in RequestTypes
      BY <1>1, <3>1 DEF RequestTypes, PCs
    <3>3. req' = [req EXCEPT ![r] = [req[r] EXCEPT !.pc = "claim", !.id = record.id]]
      BY <2>3 DEF TypeOK
    <3> QED
      BY <1>3, <3>2, <3>3 DEF Lookup, TypeOK
  <2> QED
    BY <1>1, <1>3, <2>1, <2>2, <2>3, RecordType DEF Lookup, In
<1>4. CASE Create(r)
  <2>1. Record(rows + 1, req[r].payload, "IN_PROGRESS", 0, epoch) \in Records
    BY <1>1 DEF Record, Records, TypeOK, RequestTypes
  <2>2. req' \in [Requests -> RequestTypes]
    BY <1>1, <1>4, GotoType DEF Create
  <2>3. record' \in Records \cup {NoRecord} /\ rows' \in Nat
    BY <1>4, <2>1 DEF Create, TypeOK
  <2> QED
    BY <1>4, <2>2, <2>3 DEF Create, TypeOK
<1>5. CASE Reread(r)
  BY <1>1, <1>5, AnswerType, RecordType DEF Reread, In, TypeOK
<1>6. CASE Claim(r)
  <2>1. req' \in [Requests -> RequestTypes]
    BY <1>1, <1>6, AnswerType, GotoType DEF Claim
  <2>2. record' \in Records \cup {NoRecord}
    BY <1>1, <1>6, RecordType DEF Claim, Claimable, TypeOK
  <2> QED
    BY <1>6, <2>1, <2>2 DEF Claim, TypeOK
<1>7. CASE Compute(r)
  <2>1. CASE CommitEffect(r) /\ Goto(r, "retryable")
    <3>1. req' \in [Requests -> RequestTypes]
      BY <1>1, <2>1, GotoType
    <3>2. effects' \in Seq(Payloads) /\ Len(effects') <= MaxEffects
      BY <1>1, <2>1 DEF CommitEffect, TypeOK, RequestTypes
    <3> QED
      BY <1>7, <3>1, <3>2 DEF Compute, TypeOK
  <2>2. CASE UNCHANGED effects
    <3>1. Goto(r, "final") \/ Goto(r, "retryable")
      BY <1>7, <2>2 DEF Compute, CommitEffect, TypeOK
    <3>2. req' \in [Requests -> RequestTypes]
      BY <1>1, <3>1, GotoType
    <3> QED
      BY <1>7, <2>2, <3>2 DEF Compute, TypeOK
  <2>3. CASE CommitEffect(r) /\ UNCHANGED excuses
             /\ req' = [req EXCEPT ![r].pc = "complete", ![r].body = Len(effects) + 1]
    <3>1. Len(effects) + 1 \in Bodies
      BY <2>3 DEF CommitEffect, Bodies, TypeOK
    <3>2. [req[r] EXCEPT !.pc = "complete", !.body = Len(effects) + 1] \in RequestTypes
      BY <1>1, <3>1 DEF RequestTypes, PCs
    <3>3. req' = [req EXCEPT ![r] = [req[r] EXCEPT !.pc = "complete", !.body = Len(effects) + 1]]
      BY <2>3 DEF TypeOK
    <3>4. effects' \in Seq(Payloads) /\ Len(effects') <= MaxEffects
      BY <1>1, <2>3 DEF CommitEffect, TypeOK, RequestTypes
    <3> QED
      BY <1>7, <2>3, <3>2, <3>3, <3>4 DEF Compute, TypeOK
  <2> QED
    BY <1>7, <2>1, <2>2, <2>3 DEF Compute
<1>8. CASE Complete(r)
  <2>1. req' \in [Requests -> RequestTypes]
    BY <1>1, <1>8, AnswerType, GotoType DEF Complete
  <2>2. record' \in Records \cup {NoRecord}
    <3>1. CASE UNCHANGED record
      BY <3>1 DEF TypeOK
    <3>2. CASE Exists /\ Store(r, "COMPLETED", req[r].body)
      BY <1>1, <3>2, RecordType DEF Store
    <3> QED
      BY <1>8, <3>1, <3>2 DEF Complete
  <2> QED
    BY <1>8, <2>1, <2>2 DEF Complete, TypeOK
<1>9. CASE Fail(r)
  <2>1. req' \in [Requests -> RequestTypes]
    BY <1>1, <1>9, AnswerType DEF Fail
  <2>2. record' \in Records \cup {NoRecord}
    <3>1. CASE UNCHANGED record
      BY <3>1 DEF TypeOK
    <3>2. CASE Exists /\ \E state \in States : Store(r, state, 0)
      BY <1>1, <3>2, RecordType DEF Store
    <3> QED
      BY <1>1, <1>9, <3>1, <3>2 DEF Fail
  <2> QED
    BY <1>9, <2>1, <2>2 DEF Fail, TypeOK
<1> QED
  BY <1>3, <1>4, <1>5, <1>6, <1>7, <1>8, <1>9 DEF Step

LEMMA NextType == TypeOK /\ [Next]_vars => TypeOK'
<1> SUFFICES ASSUME TypeOK, [Next]_vars PROVE TypeOK'
  OBVIOUS
<1>1. ASSUME NEW r \in Requests, Step(r) PROVE TypeOK'
  BY <1>1, StepType
<1>2. ASSUME NEW r \in Requests, Crash(r) PROVE TypeOK'
  <2>1. 0 \in Bodies
    BY DEF Bodies
  <2> QED
    BY <1>2, <2>1, AnswerType DEF Crash, TypeOK
<1>3. ASSUME NEW r \in Requests, NEW p \in Payloads, Arrive(r, p) PROVE TypeOK'
  BY <1>3 DEF Arrive, TypeOK, RequestTypes, PCs, Bodies
<1>4. CASE TimePasses
  <2>1. epoch' \in 0..MaxEpoch
    BY <1>4 DEF TimePasses, TypeOK
  <2> QED
    BY <1>4, <2>1 DEF TimePasses, TypeOK
<1>5. CASE UNCHANGED vars
  BY <1>5 DEF vars, TypeOK
<1> QED
  BY <1>1, <1>2, <1>3, <1>4, <1>5 DEF Next

\* Record, requests and counters keep their types.
THEOREM TypeCorrect == Spec => []TypeOK
  BY InitType, NextType, PTL DEF Spec

(***************************************************************************)
(* The inductive invariant.                                                *)
(***************************************************************************)
LEMMA ArriveInv ==
  ASSUME Inv, TypeOK', NEW r \in Requests, NEW p \in Payloads, Arrive(r, p)
  PROVE  Inv'
<1>1. /\ req' = [req EXCEPT ![r] = [pc |-> "lookup", payload |-> p, id |-> 0,
                                   body |-> 0, answer |-> 0]]
      /\ req[r].pc = "idle" /\ UNCHANGED <<rows, epoch, effects>>
      /\ req \in [Requests -> RequestTypes]
  BY DEF Arrive, Inv, TypeOK
<1>2. Running' = Running /\ \A s \in Running : req'[s] = req[s]
  BY <1>1 DEF Running
<1>3. CASE UNCHANGED <<record, excuses>>
  BY <1>1, <1>2, <1>3 DEF Inv, OneRunning, HolderOK, BodiesOK, AnswersOwnPayload,
     Counted, RepeatsExcused, Unsettled, ClaimsKnow, In, Exists
<1>4. CASE Removable /\ record' = NoRecord /\ excuses' = excuses + 1
  <2>1. Running = {}
    BY <1>4 DEF Removable, Expired, Inv, HolderOK, Running, TypeOK, Exists, Records
  <2>2. Len(effects) \in Nat /\ excuses \in Nat
    BY DEF Inv, TypeOK
  <2> QED
    BY <1>1, <1>2, <1>4, <2>1, <2>2 DEF Inv, OneRunning, HolderOK, BodiesOK,
       AnswersOwnPayload, Counted, RepeatsExcused, Unsettled, ClaimsKnow, In, Exists, Running
<1> QED
  BY <1>3, <1>4 DEF Arrive

LEMMA LookupInv ==
  ASSUME Inv, TypeOK', NEW r \in Requests, Lookup(r)
  PROVE  Inv'
<1>1. /\ UNCHANGED <<record, rows, epoch, effects, excuses>>
      /\ req[r].pc = "lookup" /\ req \in [Requests -> RequestTypes]
  BY DEF Lookup, Inv, TypeOK
<1>2. /\ \A s \in Requests \ {r} : req'[s] = req[s]
      /\ req'[r].payload = req[r].payload
      /\ req'[r].pc \in {"create", "claim", "idle"}
      /\ req'[r].pc = "claim" => Exists /\ req'[r].id = record.id /\ SameHash(r)
      /\ \/ req'[r].answer = req[r].answer
         \/ req'[r].answer = 0
         \/ In("COMPLETED") /\ SameHash(r) /\ req'[r].answer = record.body
  <2>1. CASE ~Exists /\ Goto(r, "create")
    BY <1>1, <2>1, GotoType DEF Inv, PCs
  <2>3. CASE In("FAILED_RETRYABLE") /\ SameHash(r)
             /\ req' = [req EXCEPT ![r].pc = "claim", ![r].id = record.id]
    <3>1. req' = [req EXCEPT ![r] = [req[r] EXCEPT !.pc = "claim", !.id = record.id]]
      BY <1>1, <2>3
    <3>2. req[r] \in RequestTypes
      BY <1>1
    <3> QED
      BY <1>1, <2>3, <3>1, <3>2 DEF RequestTypes, In
  <2>4. 0 \in Bodies
    BY DEF Bodies
  <2>5. Exists => record.body \in Bodies
    BY RecordType DEF Inv
  <2>6. CASE Answer(r, 0)
    BY <1>1, <2>4, <2>6, AnswerType DEF Inv
  <2>7. CASE In("COMPLETED") /\ SameHash(r) /\ Answer(r, record.body)
    BY <1>1, <2>5, <2>7, AnswerType DEF Inv, In
  <2> QED
    BY <2>1, <2>3, <2>6, <2>7 DEF Lookup
<1>3. Running' = Running /\ \A s \in Running : req'[s] = req[s]
  BY <1>1, <1>2 DEF Running
<1>4. ClaimsKnow'
  BY <1>1, <1>2 DEF Inv, ClaimsKnow, SameHash, Exists, TypeOK
<1>5. AnswersOwnPayload'
  BY <1>1, <1>2 DEF Inv, AnswersOwnPayload, BodiesOK, SameHash, In
<1>6. BodiesOK' /\ Counted'
  BY <1>1, <1>2, <1>3 DEF Inv, BodiesOK, Counted, RepeatsExcused, Unsettled, In, Exists
<1>7. OneRunning' /\ \A s \in Requests : HolderOK(s)'
  BY <1>1, <1>3 DEF Inv, OneRunning, HolderOK, In, Exists
<1> QED
  BY <1>4, <1>5, <1>6, <1>7 DEF Inv

LEMMA CreateInv ==
  ASSUME Inv, TypeOK', NEW r \in Requests, Create(r)
  PROVE  Inv'
<1>1. /\ UNCHANGED <<epoch, effects, excuses>>
      /\ req[r].pc = "create" /\ req \in [Requests -> RequestTypes]
      /\ rows \in Nat /\ excuses \in Nat /\ Len(effects) \in Nat
  BY DEF Create, Inv, TypeOK
<1>2. CASE Exists
  <2>1. Goto(r, "reread") /\ UNCHANGED <<record, rows>>
    BY <1>2 DEF Create
  <2>2. /\ \A s \in Requests \ {r} : req'[s] = req[s]
        /\ req'[r].pc = "reread" /\ req'[r].payload = req[r].payload
        /\ req'[r].body = req[r].body /\ req'[r].answer = req[r].answer
    BY <2>1, <1>1, GotoType DEF Inv, PCs
  <2>3. Running' = Running /\ \A s \in Running : req'[s] = req[s]
    BY <1>1, <2>2 DEF Running
  <2> QED
    BY <1>1, <2>1, <2>2, <2>3 DEF Inv, OneRunning, HolderOK, BodiesOK, AnswersOwnPayload,
       Counted, RepeatsExcused, Unsettled, ClaimsKnow, In, Exists
<1>3. CASE ~Exists
  <2>1. /\ record' = Record(rows + 1, req[r].payload, "IN_PROGRESS", 0, epoch)
        /\ rows' = rows + 1 /\ Goto(r, "compute")
    BY <1>3 DEF Create
  <2>2. /\ \A s \in Requests \ {r} : req'[s] = req[s]
        /\ req'[r].pc = "compute" /\ req'[r].payload = req[r].payload
        /\ req'[r].body = req[r].body /\ req'[r].answer = req[r].answer
    BY <2>1, <1>1, GotoType DEF Inv, PCs
  <2>3. Running = {}
    BY <1>3 DEF Inv, HolderOK, Running, In
  <2>4. /\ record'.id = rows + 1 /\ record'.state = "IN_PROGRESS"
        /\ record'.hash = req[r].payload /\ record'.born = epoch
    BY <2>1 DEF Record
  <2>5. Exists'
    <3>1. record' \in Records
      BY <1>1, <2>1 DEF Record, Records, States, Bodies, RequestTypes, Inv, TypeOK
    <3> QED
      BY <3>1 DEF Exists
  <2>6. Running' = {r}
    BY <1>1, <2>2, <2>3 DEF Running, RequestTypes
  <2>7. OneRunning' /\ \A s \in Requests : HolderOK(s)'
    BY <1>1, <2>2, <2>4, <2>5, <2>6 DEF OneRunning, HolderOK, In, RequestTypes
  <2>8. ClaimsKnow'
    <3>1. \A s \in Requests : req[s].id \in Nat
      BY <1>1 DEF RequestTypes
    <3> QED
      BY <1>1, <2>1, <2>2, <2>4, <3>1 DEF Inv, ClaimsKnow
  <2>9. BodiesOK' /\ Counted'
    BY <1>1, <1>3, <2>2, <2>4, <2>5 DEF Inv, BodiesOK, Counted, RepeatsExcused, Unsettled,
       In
  <2>10. AnswersOwnPayload'
    BY <1>1, <2>2 DEF Inv, AnswersOwnPayload
  <2> QED
    BY <2>7, <2>8, <2>9, <2>10 DEF Inv
<1> QED
  BY <1>2, <1>3

LEMMA RereadInv ==
  ASSUME Inv, TypeOK', NEW r \in Requests, Reread(r)
  PROVE  Inv'
<1>1. /\ UNCHANGED <<record, rows, epoch, effects, excuses>>
      /\ req[r].pc = "reread" /\ req \in [Requests -> RequestTypes]
  BY DEF Reread, Inv, TypeOK
<1>2. /\ \A s \in Requests \ {r} : req'[s] = req[s]
      /\ req'[r].pc = "idle" /\ req'[r].payload = req[r].payload
      /\ \/ req'[r].answer = 0
         \/ In("COMPLETED") /\ SameHash(r) /\ req'[r].answer = record.body
  <2>1. 0 \in Bodies
    BY DEF Bodies
  <2>2. Exists => record.body \in Bodies
    BY RecordType DEF Inv
  <2> QED
    BY <2>1, <2>2, AnswerType DEF Reread, In, Inv
<1>3. Running' = Running /\ \A s \in Running : req'[s] = req[s]
  BY <1>1, <1>2 DEF Running
<1>4. ClaimsKnow' /\ BodiesOK' /\ Counted'
  BY <1>1, <1>2, <1>3 DEF Inv, BodiesOK, Counted, RepeatsExcused, Unsettled, ClaimsKnow,
     In, Exists
<1>5. AnswersOwnPayload'
  BY <1>1, <1>2 DEF Inv, AnswersOwnPayload, BodiesOK, SameHash, In
<1>6. OneRunning' /\ \A s \in Requests : HolderOK(s)'
  BY <1>1, <1>3 DEF Inv, OneRunning, HolderOK, In, Exists
<1> QED
  BY <1>4, <1>5, <1>6 DEF Inv

LEMMA ClaimInv ==
  ASSUME Inv, TypeOK', NEW r \in Requests, Claim(r)
  PROVE  Inv'
<1>1. /\ UNCHANGED <<rows, epoch, effects, excuses>>
      /\ req[r].pc = "claim" /\ req \in [Requests -> RequestTypes]
  BY DEF Claim, Inv, TypeOK
<1>2. CASE ~Claimable(r)
  <2>1. Answer(r, 0) /\ UNCHANGED record
    BY <1>2 DEF Claim
  <2>2. /\ \A s \in Requests \ {r} : req'[s] = req[s]
        /\ req'[r].pc = "idle" /\ req'[r].payload = req[r].payload
        /\ req'[r].answer = 0
    BY <1>1, <2>1, AnswerType DEF Inv, Bodies, TypeOK, RequestTypes
  <2>3. Running' = Running /\ \A s \in Running : req'[s] = req[s]
    BY <1>1, <2>2 DEF Running
  <2> QED
    BY <1>1, <2>1, <2>2, <2>3 DEF Inv, OneRunning, HolderOK, BodiesOK, AnswersOwnPayload,
       Counted, RepeatsExcused, Unsettled, ClaimsKnow, In, Exists
<1>3. CASE Claimable(r)
  <2>1. /\ record' = [record EXCEPT !.state = "IN_PROGRESS", !.body = 0, !.born = epoch]
        /\ Goto(r, "compute") /\ Exists /\ In("FAILED_RETRYABLE")
        /\ record \in Records /\ record.id = req[r].id
    BY <1>3 DEF Claim, Claimable, In, Exists, Inv, TypeOK
  <2>2. /\ \A s \in Requests \ {r} : req'[s] = req[s]
        /\ req'[r].pc = "compute" /\ req'[r].payload = req[r].payload
        /\ req'[r].body = req[r].body /\ req'[r].answer = req[r].answer
    BY <2>1, <1>1, GotoType DEF Inv, PCs
  <2>3. Running = {}
    BY <2>1 DEF Inv, HolderOK, Running, In
  <2>4. /\ record'.id = record.id /\ record'.state = "IN_PROGRESS"
        /\ record'.hash = record.hash /\ record'.born = epoch
    BY <2>1 DEF Records
  <2>5. Exists'
    <3>1. record' \in Records
      <4>1. "IN_PROGRESS" \in States /\ 0 \in Bodies
        BY DEF States, Bodies
      <4> QED
        BY <2>1, <4>1, RecordType DEF Inv
    <3> QED
      BY <3>1 DEF Exists
  <2>6. record.hash = req[r].payload
    BY <1>1, <2>1 DEF Inv, ClaimsKnow
  <2>7. Running' = {r}
    BY <1>1, <2>2, <2>3 DEF Running, RequestTypes
  <2>8. OneRunning' /\ \A s \in Requests : HolderOK(s)'
    BY <1>1, <2>2, <2>4, <2>5, <2>6, <2>7 DEF OneRunning, HolderOK, In, RequestTypes
  <2>9. ClaimsKnow'
    BY <1>1, <2>1, <2>2, <2>4 DEF Inv, ClaimsKnow
  <2>10. BodiesOK' /\ Counted'
    BY <1>1, <2>1, <2>2, <2>4, <2>5 DEF Inv, BodiesOK, Counted, RepeatsExcused, Unsettled,
       In
  <2>11. AnswersOwnPayload'
    BY <1>1, <2>2 DEF Inv, AnswersOwnPayload
  <2> QED
    BY <2>8, <2>9, <2>10, <2>11 DEF Inv
<1> QED
  BY <1>2, <1>3

LEMMA ComputeInv ==
  ASSUME Inv, TypeOK', NEW r \in Requests, Compute(r)
  PROVE  Inv'
<1>1. /\ UNCHANGED <<record, rows, epoch>>
      /\ req[r].pc = "compute" /\ req \in [Requests -> RequestTypes]
      /\ effects \in Seq(Payloads) /\ excuses \in Nat /\ Len(effects) \in Nat
      /\ req[r].payload \in Payloads
  BY DEF Compute, Inv, TypeOK, RequestTypes
<1>2. /\ r \in Running /\ In("IN_PROGRESS") /\ record.hash = req[r].payload
      /\ Len(effects) <= excuses
      /\ \A s \in Running : s = r
  BY <1>1 DEF Inv, HolderOK, OneRunning, Running, Counted, Unsettled
<1>3. /\ \A s \in Requests \ {r} : req'[s] = req[s]
      /\ req'[r].pc \in {"complete", "final", "retryable"}
      /\ req'[r].payload = req[r].payload /\ req'[r].answer = req[r].answer
      /\ \/ /\ effects' = Append(effects, req[r].payload)
            /\ req'[r].pc = "complete" /\ req'[r].body = Len(effects) + 1
            /\ excuses' = excuses
         \/ /\ effects' = effects /\ excuses' = excuses /\ req'[r].pc # "complete"
         \/ /\ effects' = Append(effects, req[r].payload)
            /\ req'[r].pc = "retryable" /\ excuses' = excuses + 1
  <2>1. CASE CommitEffect(r) /\ UNCHANGED excuses
             /\ req' = [req EXCEPT ![r].pc = "complete", ![r].body = Len(effects) + 1]
    <3>1. req' = [req EXCEPT ![r] = [req[r] EXCEPT !.pc = "complete", !.body = Len(effects) + 1]]
      BY <1>1, <2>1
    <3>2. req[r] \in RequestTypes
      BY <1>1
    <3> QED
      BY <1>1, <2>1, <3>1, <3>2 DEF RequestTypes, CommitEffect
  <2>2. "final" \in PCs /\ "retryable" \in PCs
    BY DEF PCs
  <2>3. CASE (Goto(r, "final") \/ Goto(r, "retryable")) /\ UNCHANGED <<effects, excuses>>
    BY <2>2, <2>3, GotoType DEF Inv
  <2>4. CASE CommitEffect(r) /\ Goto(r, "retryable") /\ excuses' = excuses + 1
    BY <2>2, <2>4, GotoType DEF Inv, CommitEffect
  <2> QED
    BY <2>1, <2>3, <2>4 DEF Compute
<1>4. Running' = Running
  BY <1>2, <1>3 DEF Running
<1>5. OneRunning' /\ (\A s \in Requests : HolderOK(s)') /\ ClaimsKnow'
  BY <1>1, <1>3, <1>4 DEF Inv, OneRunning, HolderOK, ClaimsKnow, In, Exists
<1>7. /\ Len(effects') \in Nat /\ Len(effects) <= Len(effects')
      /\ \A i \in 1..Len(effects) : effects'[i] = effects[i]
  BY <1>1, <1>3
<1>8. AnswersOwnPayload'
  BY <1>1, <1>3, <1>7 DEF Inv, AnswersOwnPayload
<1>9. BodiesOK'
  <2>1. \A s \in Requests : req'[s].pc = "complete" =>
           s = r /\ req'[r].body = Len(effects) + 1 /\ effects' = Append(effects, req[r].payload)
    BY <1>2, <1>3 DEF Running
  <2>2. ~In("COMPLETED")'
    BY <1>1, <1>2 DEF In
  <2> QED
    BY <1>1, <1>3, <2>1, <2>2 DEF BodiesOK
<1>10. Counted'
  <2>1. /\ ~(~Exists \/ In("FAILED_RETRYABLE"))'
        /\ \A s \in Requests : req'[s].pc \in Unsettled => s = r
    BY <1>1, <1>2, <1>3 DEF In, Exists, Unsettled, Running
  <2>2. Len(effects') <= 1 + excuses' /\ (req'[r].pc # "complete" => Len(effects') <= excuses')
    BY <1>1, <1>2, <1>3
  <2> QED
    BY <2>1, <2>2 DEF Counted, RepeatsExcused, Unsettled
<1> QED
  BY <1>5, <1>8, <1>9, <1>10 DEF Inv

LEMMA CompleteInv ==
  ASSUME Inv, TypeOK', NEW r \in Requests, Complete(r)
  PROVE  Inv'
<1>1. /\ UNCHANGED <<rows, epoch, effects>>
      /\ req[r].pc = "complete" /\ req \in [Requests -> RequestTypes]
      /\ excuses \in Nat /\ Len(effects) \in Nat
  BY DEF Complete, Inv, TypeOK
<1>2. /\ In("IN_PROGRESS") /\ record \in Records /\ record.hash = req[r].payload
      /\ record.born = epoch
      /\ req[r].body \in 1..Len(effects) /\ effects[req[r].body] = req[r].payload
      /\ \A s \in Running : s = r
  BY <1>1 DEF Inv, HolderOK, OneRunning, Running, BodiesOK, In, Exists, TypeOK
<1>3. CASE Store(r, "COMPLETED", req[r].body) /\ Answer(r, req[r].body) /\ UNCHANGED excuses
  <2>1. /\ \A s \in Requests \ {r} : req'[s] = req[s]
        /\ req'[r].pc = "idle" /\ req'[r].payload = req[r].payload
        /\ req'[r].answer = req[r].body
    BY <1>1, <1>3, AnswerType DEF Inv, Bodies, TypeOK, RequestTypes
  <2>2. /\ record'.id = record.id /\ record'.state = "COMPLETED"
        /\ record'.hash = record.hash /\ record'.body = req[r].body
    BY <1>2, <1>3 DEF Store, Records
  <2>3. Running' = {}
    BY <1>2, <2>1 DEF Running
  <2>4. Exists'
    <3>1. record' \in Records
      BY <1>1, <1>2, <1>3, RecordType DEF Store, Inv, States, In, TypeOK, RequestTypes
    <3> QED
      BY <3>1 DEF Exists
  <2>5. OneRunning' /\ \A s \in Requests : HolderOK(s)'
    BY <2>3 DEF OneRunning, HolderOK
  <2>6. ClaimsKnow'
    BY <1>1, <1>2, <2>1, <2>2 DEF Inv, ClaimsKnow, In
  <2>7. BodiesOK'
    BY <1>1, <1>2, <2>1, <2>2, <2>3 DEF BodiesOK, Running
  <2>8. Counted'
    BY <1>1, <1>3, <2>2, <2>3, <2>4 DEF Inv, Counted, RepeatsExcused, Unsettled, Running, In
  <2>9. AnswersOwnPayload'
    BY <1>1, <1>2, <2>1 DEF Inv, AnswersOwnPayload
  <2> QED
    BY <2>5, <2>6, <2>7, <2>8, <2>9 DEF Inv
<1>4. CASE Goto(r, "retryable") /\ excuses' = excuses + 1 /\ UNCHANGED record
  <2>1. /\ \A s \in Requests \ {r} : req'[s] = req[s]
        /\ req'[r].pc = "retryable" /\ req'[r].payload = req[r].payload
        /\ req'[r].body = req[r].body /\ req'[r].answer = req[r].answer
    BY <1>1, <1>4, GotoType DEF Inv, PCs
  <2>2. Running' = Running
    BY <1>1, <2>1 DEF Running
  <2>3. OneRunning' /\ (\A s \in Requests : HolderOK(s)') /\ ClaimsKnow'
    BY <1>1, <1>4, <2>1, <2>2 DEF Inv, OneRunning, HolderOK, ClaimsKnow, In, Exists
  <2>4. BodiesOK' /\ AnswersOwnPayload'
    BY <1>1, <1>4, <2>1 DEF Inv, BodiesOK, AnswersOwnPayload, In, Exists
  <2>5. Counted'
    <3>1. Len(effects') <= excuses'
      BY <1>1, <1>4 DEF Inv, Counted, RepeatsExcused
    <3> QED
      BY <1>1, <1>4, <3>1 DEF Counted, RepeatsExcused
  <2> QED
    BY <2>3, <2>4, <2>5 DEF Inv
<1> QED
  BY <1>2, <1>3, <1>4 DEF Complete

LEMMA FailInv ==
  ASSUME Inv, TypeOK', NEW r \in Requests, Fail(r)
  PROVE  Inv'
<1>1. /\ UNCHANGED <<rows, epoch, effects, excuses>>
      /\ req[r].pc \in {"retryable", "final"} /\ req \in [Requests -> RequestTypes]
      /\ excuses \in Nat /\ Len(effects) \in Nat
      /\ Answer(r, 0)
  BY DEF Fail, Inv, TypeOK
<1>2. /\ In("IN_PROGRESS") /\ record \in Records /\ record.hash = req[r].payload
      /\ Len(effects) <= excuses
      /\ \A s \in Running : s = r
  BY <1>1 DEF Inv, HolderOK, OneRunning, Running, Counted, Unsettled, In, Exists, TypeOK
<1>3. /\ \A s \in Requests \ {r} : req'[s] = req[s]
      /\ req'[r].pc = "idle" /\ req'[r].payload = req[r].payload
      /\ req'[r].answer = 0
  BY <1>1, AnswerType DEF Inv, Bodies, TypeOK, RequestTypes
<1>4. Running' = {}
  BY <1>2, <1>3 DEF Running
<1>5. /\ record'.id = record.id /\ record'.hash = record.hash
      /\ record'.state # "COMPLETED"
  BY <1>2 DEF Fail, Store, Records, In
<1>6. OneRunning' /\ \A s \in Requests : HolderOK(s)'
  BY <1>4 DEF OneRunning, HolderOK
<1>7. ClaimsKnow'
  BY <1>1, <1>2, <1>3, <1>5 DEF Inv, ClaimsKnow, In
<1>8. BodiesOK'
  BY <1>4, <1>5 DEF BodiesOK, Running, In
<1>9. Counted'
  BY <1>1, <1>2, <1>4 DEF Counted, RepeatsExcused, Unsettled, Running
<1>10. AnswersOwnPayload'
  BY <1>1, <1>3 DEF Inv, AnswersOwnPayload
<1> QED
  BY <1>6, <1>7, <1>8, <1>9, <1>10 DEF Inv

LEMMA CrashInv ==
  ASSUME Inv, TypeOK', NEW r \in Requests, Crash(r)
  PROVE  Inv'
<1>1. /\ UNCHANGED <<record, rows, epoch, effects, excuses>>
      /\ Answer(r, 0) /\ req \in [Requests -> RequestTypes]
  BY DEF Crash, Inv, TypeOK
<1>2. /\ \A s \in Requests \ {r} : req'[s] = req[s]
      /\ req'[r].pc = "idle" /\ req'[r].payload = req[r].payload
      /\ req'[r].answer = 0
  BY <1>1, AnswerType DEF Inv, Bodies, TypeOK, RequestTypes
<1>3. Running' = Running \ {r}
  BY <1>2 DEF Running
<1>4. OneRunning' /\ (\A s \in Requests : HolderOK(s)') /\ ClaimsKnow'
  BY <1>1, <1>2, <1>3 DEF Inv, OneRunning, HolderOK, ClaimsKnow, In, Exists
<1>5. BodiesOK' /\ AnswersOwnPayload' /\ Counted'
  BY <1>1, <1>2 DEF Inv, BodiesOK, AnswersOwnPayload, Counted, RepeatsExcused, Unsettled,
     In, Exists
<1> QED
  BY <1>4, <1>5 DEF Inv

LEMMA TimePassesInv ==
  ASSUME Inv, TypeOK', TimePasses
  PROVE  Inv'
<1>1. Running = {} /\ UNCHANGED <<record, rows, effects, excuses, req>>
  BY DEF TimePasses, Running
<1>2. OneRunning' /\ (\A s \in Requests : HolderOK(s)') /\ ClaimsKnow'
  BY <1>1 DEF Inv, OneRunning, HolderOK, ClaimsKnow, Exists, Running
<1>3. BodiesOK' /\ AnswersOwnPayload' /\ Counted'
  BY <1>1 DEF Inv, BodiesOK, AnswersOwnPayload, Counted, RepeatsExcused, In, Exists
<1> QED
  BY <1>2, <1>3 DEF Inv

LEMMA InitInv == Init => Inv
<1> SUFFICES ASSUME Init PROVE Inv
  OBVIOUS
<1>1. TypeOK
  BY InitType
<1>2. \A r \in Requests : req[r].pc = "idle" /\ req[r].answer = 0
  BY DEF Init
<1>3. ~Exists /\ Len(effects) = 0 /\ excuses = 0
  BY DEF Init, Exists
<1> QED
  BY <1>1, <1>2, <1>3 DEF Inv, OneRunning, HolderOK, ClaimsKnow, BodiesOK,
     AnswersOwnPayload, Counted, RepeatsExcused, Running, In, Unsettled

LEMMA NextInv == Inv /\ [Next]_vars => Inv'
<1> SUFFICES ASSUME Inv, [Next]_vars PROVE Inv'
  OBVIOUS
<1>1. TypeOK'
  BY NextType DEF Inv
<1>2. ASSUME NEW r \in Requests, Step(r) PROVE Inv'
  BY <1>1, <1>2, LookupInv, CreateInv, RereadInv, ClaimInv, ComputeInv, CompleteInv, FailInv
     DEF Step
<1>3. CASE UNCHANGED vars
  <2>1. UNCHANGED <<record, rows, epoch, effects, excuses, req>>
    BY <1>3 DEF vars
  <2> QED
    BY <1>1, <2>1 DEF Inv, OneRunning, HolderOK, ClaimsKnow, BodiesOK, AnswersOwnPayload,
       Counted, RepeatsExcused, Running, In, Exists
<1> QED
  BY <1>1, <1>2, <1>3, ArriveInv, CrashInv, TimePassesInv DEF Next

THEOREM Invariance == Spec => []Inv
  BY InitInv, NextInv, PTL DEF Spec

(***************************************************************************)
(* What the service promises.                                              *)
(***************************************************************************)
\* IdempotencyService.execute never has two executions of one key under way.
THEOREM NeverTwoRunning == Spec => []OneRunning
<1>1. Inv => OneRunning
  BY DEF Inv
<1> QED
  BY <1>1, Invariance, PTL

\* An effect is committed again only when the service could not remember it.
THEOREM RepeatsAreExcused == Spec => []RepeatsExcused
<1>1. Inv => RepeatsExcused
  BY DEF Inv, Counted
<1> QED
  BY <1>1, Invariance, PTL

\* Types, one execution at a time and excused repetitions, together.
THEOREM EffectsAreExcused == Spec => []EffectsExcused
  BY TypeCorrect, NeverTwoRunning, RepeatsAreExcused, PTL DEF EffectsExcused

\* A response, first or replayed, speaks of an effect of its own payload.
THEOREM AnswersFit == Spec => []AnswersOwnPayload
<1>1. Inv => AnswersOwnPayload
  BY DEF Inv
<1> QED
  BY <1>1, Invariance, PTL

\* When nothing went wrong every replay reports the same execution.
THEOREM ReplaysAgree == Spec => []AnswersAgree
<1>1. Inv => AnswersAgree
  <2> SUFFICES ASSUME Inv, excuses = 0, NEW r \in Requests, NEW s \in Requests,
                      req[r].answer # 0, req[s].answer # 0
               PROVE  req[r].answer = req[s].answer
    BY DEF AnswersAgree
  <2>1. Len(effects) \in Nat /\ Len(effects) <= 1
    BY DEF Inv, Counted, RepeatsExcused, TypeOK
  <2>2. req[r].answer \in 1..Len(effects) /\ req[s].answer \in 1..Len(effects)
    BY DEF Inv, AnswersOwnPayload
  <2> QED
    BY <2>1, <2>2
<1> QED
  BY <1>1, Invariance, PTL

\* Every answer is of the client's payload and all of them agree.
THEOREM AnswersAreTrue == Spec => []AnswersTrue
  BY AnswersFit, ReplaysAgree, PTL DEF AnswersTrue

\* A completed or finally failed record is replayed until it is deleted.
THEOREM SettledRecordsStay == Spec => SettledStays
<1>1. Inv /\ [Next]_vars =>
        [In("COMPLETED") \/ In("FAILED_FINAL") => record' \in {record, NoRecord}]_vars
  <2> SUFFICES ASSUME Inv, Next, In("COMPLETED") \/ In("FAILED_FINAL")
               PROVE  record' \in {record, NoRecord}
    OBVIOUS
  <2>1. Exists /\ Running = {}
    BY DEF Inv, HolderOK, In, Running
  <2>2. ASSUME NEW r \in Requests, Step(r) PROVE record' = record
    <3>1. req[r].pc \notin {"compute", "complete", "retryable", "final"}
      BY <2>1 DEF Running
    <3>2. Lookup(r) \/ Create(r) \/ Reread(r) \/ Claim(r)
      BY <2>2, <3>1 DEF Step, Compute, Complete, Fail
    <3> QED
      BY <2>1, <3>2 DEF Lookup, Create, Reread, Claim, Claimable, In
  <2>3. ASSUME NEW r \in Requests, NEW p \in Payloads, Arrive(r, p)
        PROVE  record' \in {record, NoRecord}
    BY <2>3 DEF Arrive
  <2> QED
    BY <2>2, <2>3 DEF Next, Crash, TimePasses
<1> QED
  BY <1>1, Invariance, PTL DEF Spec, SettledStays
=============================================================================

---------------------------- MODULE Idempotency ----------------------------
(***************************************************************************)
(* IdempotencyService.execute: the requests that arrive under one          *)
(* (user, route, key), the record they share, and the effect they guard.   *)
(*                                                                         *)
(* Every statement on the record is a transaction of its own, so between   *)
(* any two of them another request, or the clean-up another request runs,  *)
(* may change the record.  compute() commits its effect in transactions    *)
(* of its own and may still throw after the last of them.                  *)
(*                                                                         *)
(* A request does not outlive the time to live of the record it wrote (a   *)
(* day against seconds), so TimePasses waits for the requests in flight.   *)
(*                                                                         *)
(* An operator no action uses (AnyRemovable, CreateAnyway, ...) is a       *)
(* plausible mistake in the operator it precedes.                          *)
(***************************************************************************)
EXTENDS Integers, Sequences, FiniteSets

CONSTANTS
    Requests,    \* slots for the requests in flight
    Payloads,    \* the bodies clients send under the key
    NoRecord,    \* no row carries the key
    Faults,      \* what may go wrong: see AllFaults
    MaxEffects,  \* bound: executions that commit their effect
    MaxEpoch     \* bound: times to live that pass

\* "store": a write of the outcome fails; "late": compute throws after its
\* effect is committed; "crash": the process dies.
AllFaults == {"store", "late", "crash"}

ASSUME FaultsAssumption == Faults \subseteq AllFaults
ASSUME BoundsAssumption == MaxEffects \in Nat /\ MaxEpoch \in Nat
ASSUME PayloadsAssumption == Payloads # {}

VARIABLES
    record,   \* the IdempotencyRecord, or NoRecord
    rows,     \* how many rows the key has had: the last one's id
    epoch,    \* how many times to live have passed
    effects,  \* the payloads whose effect was committed, in order
    excuses,  \* the commits the service could not remember
    req       \* the requests

vars == <<record, rows, epoch, effects, excuses, req>>

States == {"IN_PROGRESS", "COMPLETED", "FAILED_RETRYABLE", "FAILED_FINAL"}

\* body: which of the effects the stored response reports, 0 for none.
Record(id, p, state, body, born) ==
    [id |-> id, hash |-> p, state |-> state, body |-> body, born |-> born]

Bodies  == 0..MaxEffects
Records == [id : Nat, hash : Payloads, state : States, body : Bodies, born : 0..MaxEpoch]

ASSUME NoRecordAssumption == NoRecord \notin Records

PCs == {"idle", "lookup", "create", "reread", "claim", "compute", "complete",
        "retryable", "final"}

\* id: the row a retry saw; body: the effect its compute committed; answer:
\* the effect the response it was sent reports, 0 for an error or for none.
RequestTypes == [pc : PCs, payload : Payloads, id : Nat, body : Bodies, answer : Bodies]

SomePayload == CHOOSE p \in Payloads : TRUE

Init ==
    /\ record = NoRecord
    /\ rows = 0
    /\ epoch = 0
    /\ effects = <<>>
    /\ excuses = 0
    /\ req = [r \in Requests |-> [pc |-> "idle", payload |-> SomePayload, id |-> 0,
                                  body |-> 0, answer |-> 0]]

Exists  == record # NoRecord
Expired == Exists /\ record.born < epoch
In(state) == Exists /\ record.state = state

Goto(r, pc) == req' = [req EXCEPT ![r].pc = pc]

Answer(r, body) == req' = [req EXCEPT ![r].pc = "idle", ![r].answer = body]

(***************************************************************************)
(* Arrival: one request in fifty deletes the records that have expired.    *)
(***************************************************************************)
AnyRemovable == Exists

Removable == Expired

Arrive(r, p) ==
    /\ req[r].pc = "idle"
    /\ req' = [req EXCEPT ![r] = [pc |-> "lookup", payload |-> p, id |-> 0,
                                  body |-> 0, answer |-> 0]]
    /\ \/ UNCHANGED <<record, excuses>>
       \/ /\ Removable
          /\ record' = NoRecord
          /\ excuses' = excuses + 1
    /\ UNCHANGED <<rows, epoch, effects>>

(***************************************************************************)
(* The lookup does not ask whether the record has expired.                 *)
(***************************************************************************)
SameHash(r) == record.hash = req[r].payload

Lookup(r) ==
    /\ req[r].pc = "lookup"
    /\ \/ ~Exists /\ Goto(r, "create")
       \/ Exists /\ ~SameHash(r) /\ Answer(r, 0)
       \/ In("COMPLETED") /\ SameHash(r) /\ Answer(r, record.body)
       \/ In("FAILED_FINAL") /\ SameHash(r) /\ Answer(r, 0)
       \/ In("IN_PROGRESS") /\ SameHash(r) /\ Answer(r, 0)
       \/ /\ In("FAILED_RETRYABLE") /\ SameHash(r)
          /\ req' = [req EXCEPT ![r].pc = "claim", ![r].id = record.id]
    /\ UNCHANGED <<record, rows, epoch, effects, excuses>>

CreateAnyway(r) ==
    /\ req[r].pc = "create"
    /\ record' = Record(rows + 1, req[r].payload, "IN_PROGRESS", 0, epoch)
    /\ rows' = rows + 1
    /\ Goto(r, "compute")
    /\ UNCHANGED <<epoch, effects, excuses>>

Create(r) ==
    /\ req[r].pc = "create"
    /\ IF Exists
       THEN Goto(r, "reread") /\ UNCHANGED <<record, rows>>
       ELSE /\ record' = Record(rows + 1, req[r].payload, "IN_PROGRESS", 0, epoch)
            /\ rows' = rows + 1
            /\ Goto(r, "compute")
    /\ UNCHANGED <<epoch, effects, excuses>>

RereadAndWait(r) ==
    /\ req[r].pc = "reread"
    /\ IF In("COMPLETED") /\ SameHash(r) THEN Answer(r, record.body) ELSE Goto(r, "create")
    /\ UNCHANGED <<record, rows, epoch, effects, excuses>>

\* A create that lost the race replays a settled record of its own payload.
Reread(r) ==
    /\ req[r].pc = "reread"
    /\ IF In("COMPLETED") /\ SameHash(r) THEN Answer(r, record.body) ELSE Answer(r, 0)
    /\ UNCHANGED <<record, rows, epoch, effects, excuses>>

ClaimableByAnyone(r) == Exists /\ record.id = req[r].id

Claimable(r) == Exists /\ record.id = req[r].id /\ record.state = "FAILED_RETRYABLE"

Claim(r) ==
    /\ req[r].pc = "claim"
    /\ IF Claimable(r)
       THEN /\ record' = [record EXCEPT !.state = "IN_PROGRESS", !.body = 0, !.born = epoch]
            /\ Goto(r, "compute")
       ELSE Answer(r, 0) /\ UNCHANGED record
    /\ UNCHANGED <<rows, epoch, effects, excuses>>

(***************************************************************************)
(* compute() and what is stored of it.                                     *)
(***************************************************************************)
CommitEffect(r) ==
    /\ Len(effects) < MaxEffects
    /\ effects' = Append(effects, req[r].payload)

Compute(r) ==
    /\ req[r].pc = "compute"
    /\ \/ /\ CommitEffect(r)
          /\ req' = [req EXCEPT ![r].pc = "complete", ![r].body = Len(effects) + 1]
          /\ UNCHANGED excuses
       \/ Goto(r, "final") /\ UNCHANGED <<effects, excuses>>
       \/ Goto(r, "retryable") /\ UNCHANGED <<effects, excuses>>
       \/ /\ "late" \in Faults
          /\ CommitEffect(r)
          /\ Goto(r, "retryable")
          /\ excuses' = excuses + 1
    /\ UNCHANGED <<record, rows, epoch>>

\* The outcome is written by key: into whatever row carries it now.
Store(r, state, body) ==
    record' = [record EXCEPT !.state = state, !.body = body, !.born = epoch]

\* A write that fails lands in the catch block, which takes the error for one
\* of compute's and stores it as retryable.
Complete(r) ==
    /\ req[r].pc = "complete"
    /\ \/ /\ Exists
          /\ Store(r, "COMPLETED", req[r].body)
          /\ Answer(r, req[r].body)
          /\ UNCHANGED excuses
       \/ /\ ~Exists \/ "store" \in Faults
          /\ Goto(r, "retryable")
          /\ excuses' = excuses + 1
          /\ UNCHANGED record
    /\ UNCHANGED <<rows, epoch, effects>>

Fail(r) ==
    /\ req[r].pc \in {"retryable", "final"}
    /\ \/ /\ Exists
          /\ Store(r, IF req[r].pc = "final" THEN "FAILED_FINAL" ELSE "FAILED_RETRYABLE", 0)
       \/ /\ ~Exists \/ "store" \in Faults
          /\ UNCHANGED record
    /\ Answer(r, 0)
    /\ UNCHANGED <<rows, epoch, effects, excuses>>

(***************************************************************************)
(* The environment.                                                        *)
(***************************************************************************)
Crash(r) ==
    /\ "crash" \in Faults
    /\ req[r].pc # "idle"
    /\ Answer(r, 0)
    /\ UNCHANGED <<record, rows, epoch, effects, excuses>>

TimePasses ==
    /\ \A r \in Requests : req[r].pc = "idle"
    /\ epoch < MaxEpoch
    /\ epoch' = epoch + 1
    /\ UNCHANGED <<record, rows, effects, excuses, req>>

Step(r) ==
    \/ Lookup(r) \/ Create(r) \/ Reread(r) \/ Claim(r)
    \/ Compute(r) \/ Complete(r) \/ Fail(r)

Next ==
    \/ \E r \in Requests : Step(r) \/ Crash(r) \/ (\E p \in Payloads : Arrive(r, p))
    \/ TimePasses

Spec == Init /\ [][Next]_vars

\* The event loop runs every request that is ready.
FairSpec == Spec /\ \A r \in Requests : WF_vars(Step(r))

(***************************************************************************)
(* Properties.                                                             *)
(***************************************************************************)
TypeOK ==
    /\ record \in Records \cup {NoRecord}
    /\ rows \in Nat
    /\ epoch \in 0..MaxEpoch
    /\ effects \in Seq(Payloads) /\ Len(effects) <= MaxEffects
    /\ excuses \in Nat
    /\ req \in [Requests -> RequestTypes]

Running == {r \in Requests : req[r].pc \in {"compute", "complete", "retryable", "final"}}

\* Two requests never execute under one key at the same time, however
\* arrivals, retries, crashes and clean-ups interleave.
OneRunning == \A r, s \in Running : r = s

\* The effect is repeated only after an execution the service could not
\* remember: its outcome was not stored, it threw after its commit, or its
\* record had outlived its time.
RepeatsExcused == Len(effects) <= 1 + excuses

\* One execution at a time, and a second one only with an excuse.
EffectsExcused == TypeOK /\ OneRunning /\ RepeatsExcused

\* A response reports an effect that was committed for the payload the client
\* sent, its own or an earlier request's.
AnswersOwnPayload ==
    \A r \in Requests :
        req[r].answer # 0 => /\ req[r].answer \in 1..Len(effects)
                             /\ effects[req[r].answer] = req[r].payload

\* As long as nothing went wrong, every client hears of the same execution.
AnswersAgree ==
    excuses = 0 => \A r, s \in Requests :
        req[r].answer # 0 /\ req[s].answer # 0 => req[r].answer = req[s].answer

\* What a client is told happened for its payload, and is what the others are told.
AnswersTrue == AnswersOwnPayload /\ AnswersAgree

\* A settled record is never reopened or overwritten: it is replayed until
\* it is deleted.
SettledStays ==
    [][In("COMPLETED") \/ In("FAILED_FINAL") => record' \in {record, NoRecord}]_vars

\* Every request is answered.
RequestsEnd == \A r \in Requests : req[r].pc # "idle" ~> req[r].pc = "idle"

\* A key makes a retry safe: within its time to live the effect is committed
\* once.
RetriesSafe == epoch = 0 => Len(effects) <= 1

\* A record in progress is being processed by some request.
BusyMeansRunning == In("IN_PROGRESS") => Running # {}
=============================================================================

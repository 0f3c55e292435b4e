--------------------------- MODULE QuestionBank ---------------------------
(***************************************************************************)
(* The question bank: creating (one question or a bulk upload), updating   *)
(* and deleting questions, featuring them in the free pool, and the images *)
(* stored with the media provider.                                         *)
(*                                                                         *)
(* An editor is one request.  A create or an update checks and imports     *)
(* images before its transaction; the transaction takes the advisory locks *)
(* of the subjects it fills in order, counts, writes and commits; images   *)
(* are destroyed after it.  Featuring takes no lock.                       *)
(*                                                                         *)
(* The image of a question stands for any one of its image fields: its     *)
(* own, an option's, or, for the questions in Explaining, that of its      *)
(* explanation, which is written otherwise.  Institutions and the wording  *)
(* of texts are left out, and a pool is FREE_EXAM or not.                  *)
(***************************************************************************)
EXTENDS Integers, FiniteSets, FiniteSetsExt, Functions

CONSTANTS
    Editors,      \* requests of administrators
    Questions,    \* question ids
    Subjects,     \* subjects, numbered in the order their locks are taken
    Images,       \* public ids the media provider can hand out
    Explaining,   \* the questions whose image here is their explanation's
    PoolCap,      \* FREE_EXAM_PER_SUBJECT
    FeatureCap,   \* freeQuestionsPerSubject of the institution's configuration
    MaxBreaks     \* bound of the model: crashes and failed transactions

ASSUME QuestionBankAssumption ==
    /\ IsFiniteSet(Questions) /\ Subjects \subseteq Nat \ {0}
    /\ {PoolCap, FeatureCap, MaxBreaks} \subseteq Nat /\ Images \cap {"keep", "text", "clear", "import"} = {}

VARIABLES
    bank,       \* the Question rows
    answered,   \* questions some ExamAnswer refers to
    cloud,      \* images the media provider stores
    editor,     \* the requests under way
    minted,     \* history: public ids ever handed out
    handed,     \* history: public ids a client ever sent back in a request
    forsaken,   \* history: public ids written back after another had replaced them, or of a commit taken for failed
    strayed,    \* history: subjects filled past the locks: by featuring, or by an update of a row that had moved on
    breaks      \* failures so far, for the bound

bankVars == <<bank, answered, cloud, editor, minted, handed, forsaken, strayed, breaks>>

None == "none"
Same == [subject |-> 0, pool |-> "same", image |-> "keep", words |-> TRUE]   \* an update that names no field
NoQuestion == [there |-> FALSE]
Waiting == [op |-> "none", step |-> "idle"]

\* What ensureFreeExamPoolCapacity counts in a subject.
InFreePool(b, s) == {q \in Questions : b[q].there /\ b[q].subject = s /\ (b[q].free \/ b[q].featured)}

\* A bank as creates and updates leave it: no question featured yet, each image imported for one question.
BankInit ==
    /\ bank \in [Questions -> {NoQuestion} \cup
           [there : {TRUE}, subject : Subjects, free : BOOLEAN, featured : {FALSE}, image : Images \cup {None},
            words : BOOLEAN, parent : {None}]]
    /\ \A s \in Subjects : Cardinality(InFreePool(bank, s)) <= PoolCap
    /\ \A p, q \in Questions : bank[p].there /\ bank[q].there /\ p # q => bank[p].image # bank[q].image \/ bank[p].image = None
    /\ cloud = {bank[q].image : q \in {p \in Questions : bank[p].there}} \ {None} /\ minted = cloud
    /\ answered = {} /\ handed = {} /\ forsaken = {} /\ strayed = {} /\ breaks \in 0..MaxBreaks
    /\ editor = [e \in Editors |-> Waiting]

There == {q \in Questions : bank[q].there}
Children(q) == {c \in There : bank[c].parent = q}

\* What featuring counts.
Featured(b, s) == {q \in Questions : b[q].there /\ b[q].subject = s /\ b[q].featured}

Amended(request, changes) ==
    [field \in DOMAIN request \cup DOMAIN changes |->
        IF field \in DOMAIN changes THEN changes[field] ELSE request[field]]
Step(e, changes) == editor' = [editor EXCEPT ![e] = Amended(@, changes)]
Done(e) == editor' = [editor EXCEPT ![e] = Waiting]
Rest(e) == editor[e].step = "idle"

(***************************************************************************)
(* Images.                                                                 *)
(***************************************************************************)

\* resolveManagedQuestionAsset: a link is imported, a public id is taken as it is.  An update
\* names the image or not; "text" names the texts of the explanation alone.
Resolved(form, q, old, fresh) ==
    CASE form.image \in {"keep", "text"} -> old
      [] form.image = "clear" -> None
      [] form.image = "import" -> fresh[q]
      [] OTHER -> form.image
Imports(draft) == {q \in DOMAIN draft : draft[q].image = "import"}
Given(draft) == {draft[q].image : q \in DOMAIN draft} \cap Images

\* POST of a single asset: an image no question shows yet.
UploadAsset(x) ==
    /\ x \notin minted
    /\ cloud' = cloud \cup {x} /\ minted' = minted \cup {x}
    /\ UNCHANGED <<bank, answered, editor, handed, forsaken, strayed, breaks>>

(***************************************************************************)
(* Creating and updating.                                                  *)
(***************************************************************************)

\* createQuestion and processBulkUpload, up to the media: parents are looked up, nothing is locked.
StartCreate(e, draft) ==
    /\ Rest(e) /\ DOMAIN draft \cap There = {}
    /\ \A q \in DOMAIN draft : draft[q].parent \in There \cup {None} /\ draft[q].image \in cloud \cup {"clear", "import"}
    /\ Step(e, [op |-> "create", step |-> "media", draft |-> draft, locks |-> {}, doomed |-> {}])
    /\ handed' = handed \cup Given(draft)
    /\ UNCHANGED <<bank, answered, cloud, minted, forsaken, strayed, breaks>>

\* updateQuestion: the row as read here decides the pool, the locks and the stale images.
StartUpdate(e, q, form) ==
    /\ Rest(e) /\ q \in There
    /\ form.image \in cloud \cup {"keep", "text", "clear", "import"}
    /\ Step(e, [op |-> "update", step |-> "media", draft |-> [x \in {q} |-> form], seen |-> bank[q], locks |-> {}, doomed |-> {}])
    /\ handed' = handed \cup Given([x \in {q} |-> form])
    /\ UNCHANGED <<bank, answered, cloud, minted, forsaken, strayed, breaks>>

TargetFree(e, q) ==
    LET form == editor[e].draft[q] IN
    form.pool = "free" \/ (form.pool = "same" /\ editor[e].seen.free)
TargetSubject(e, q) ==
    LET form == editor[e].draft[q] IN IF form.subject = 0 THEN editor[e].seen.subject ELSE form.subject

\* The questions each subject of the transaction's free pool gains.
Gains(e) ==
    LET d == editor[e].draft IN
    IF editor[e].op = "create" THEN [s \in Subjects |-> {q \in DOMAIN d : d[q].pool = "free" /\ d[q].subject = s}]
    ELSE [s \in Subjects |-> {q \in DOMAIN d : TargetFree(e, q) /\ TargetSubject(e, q) = s}]

\* The subjects to lock: those gaining and, for an update, the one the row left.
LockScopes(e) ==
    {s \in Subjects : Gains(e)[s] # {}}
    \cup (IF editor[e].op = "update" /\ editor[e].seen.free THEN {editor[e].seen.subject} ELSE {})

\* prepareCreateMediaPlan, prepareUpdateMediaPlan and prepareQuestionInsert: what is imported, what becomes stale.
PrepareMedia(e, fresh) ==
    LET d == editor[e].draft IN
    /\ editor[e].step = "media"
    /\ DOMAIN fresh = Imports(d) /\ IsInjective(fresh) /\ \A q \in DOMAIN fresh : fresh[q] \notin minted
    /\ LET new == {fresh[q] : q \in DOMAIN fresh}
           old == IF editor[e].op = "update" THEN editor[e].seen.image ELSE None
           stale == {old} \ ({None} \cup {Resolved(d[q], q, old, fresh) : q \in DOMAIN d})
       IN /\ cloud' = cloud \cup new /\ minted' = minted \cup new
          /\ Step(e, [step |-> "lock", fresh |-> fresh, uploaded |-> new, stale |-> stale])
    /\ UNCHANGED <<bank, answered, handed, forsaken, strayed, breaks>>

\* An import fails: what was imported before it stays with the provider.
PrepareFails(e, left) ==
    /\ editor[e].step = "media" /\ Imports(editor[e].draft) # {} /\ breaks < MaxBreaks
    /\ left \subseteq Images \ minted /\ Cardinality(left) <= Cardinality(Imports(editor[e].draft))
    /\ cloud' = cloud \cup left /\ minted' = minted \cup left
    /\ Done(e) /\ breaks' = breaks + 1
    /\ UNCHANGED <<bank, answered, handed, forsaken, strayed>>

\* The locks left to take are taken from the smallest subject on.
NextLock(e) == Min(LockScopes(e) \ editor[e].locks)

\* A mistake of the kind FreePoolGuarded excludes: a transaction that takes its locks without waiting.
LockNothing(e) ==
    /\ editor[e].step = "lock" /\ LockScopes(e) # editor[e].locks
    /\ Step(e, [locks |-> LockScopes(e)])
    /\ UNCHANGED <<bank, answered, cloud, minted, handed, forsaken, strayed, breaks>>

\* lockFreeExamSubjects.
LockSubject(e) ==
    /\ editor[e].step = "lock" /\ LockScopes(e) # editor[e].locks
    /\ \A f \in Editors \ {e} : ~Rest(f) => NextLock(e) \notin editor[f].locks
    /\ Step(e, [locks |-> editor[e].locks \cup {NextLock(e)}])
    /\ UNCHANGED <<bank, answered, cloud, minted, handed, forsaken, strayed, breaks>>

HasRoom(e) ==
    \A s \in Subjects : Gains(e)[s] # {} =>
        Cardinality(InFreePool(bank, s) \ Gains(e)[s]) + Cardinality(Gains(e)[s]) <= PoolCap

\* A mistake of the kind ImportedImagesLast excludes: an error path that destroys what
\* would have been replaced.
DropStale(e) == Step(e, [step |-> "clean", locks |-> {}, doomed |-> editor[e].uploaded \cup editor[e].stale])

\* The error path: the locks go with the transaction, what was imported is destroyed next.
RollBackWith(e) == Step(e, [step |-> "clean", locks |-> {}, doomed |-> editor[e].uploaded])

\* ensureFreeExamPoolCapacity, excluding the row itself.
CountPool(e) ==
    /\ editor[e].step = "lock" /\ LockScopes(e) = editor[e].locks
    /\ IF HasRoom(e) THEN Step(e, [step |-> "write"]) ELSE RollBackWith(e)
    /\ UNCHANGED <<bank, answered, cloud, minted, handed, forsaken, strayed, breaks>>

\* The transaction committed.  If its answer is lost, the error path takes it for failed and
\* destroys what the rows now show.
Committed(e, answer, restored) ==
    \/ answer /\ forsaken' = forsaken \cup restored /\ UNCHANGED breaks
    \/ /\ breaks < MaxBreaks /\ breaks' = breaks + 1
       /\ forsaken' = forsaken \cup restored \cup editor[e].uploaded
       /\ RollBackWith(e)

NewRow(e, q) ==
    LET d == editor[e].draft[q] IN
    [there |-> TRUE, subject |-> d.subject, free |-> d.pool = "free", featured |-> FALSE, parent |-> d.parent,
     image |-> Resolved(d, q, None, editor[e].fresh), words |-> d.words]

\* question.create for each row; a parent deleted meanwhile is a broken reference.
WriteCreate(e) ==
    LET d == editor[e].draft IN
    /\ editor[e].op = "create" /\ editor[e].step = "write"
    /\ IF \A q \in DOMAIN d : d[q].parent \in There \cup {None} /\ q \notin There
       THEN /\ bank' = [q \in Questions |-> IF q \in DOMAIN d THEN NewRow(e, q) ELSE bank[q]]
            /\ Committed(e, Done(e), {})
       ELSE UNCHANGED <<bank, forsaken, breaks>> /\ RollBackWith(e)
    /\ UNCHANGED <<answered, cloud, minted, handed, strayed>>

\* An explanation is kept while it has texts or an image.  buildExplanationMutation writes all of
\* it, and an image the form does not name as the row was read; without content before and after
\* there is nothing to write.
Explained(row) == row.words \/ row.image # None
Rewrites(e, q) ==
    LET form == editor[e].draft[q]
        seen == editor[e].seen
    IN q \in Explaining /\ form.image # "keep"
       /\ (Explained(seen) \/ form.words \/ Resolved(form, q, seen.image, editor[e].fresh) # None)
NewImage(e, q) ==
    LET form == editor[e].draft[q] IN
    IF Rewrites(e, q) THEN Resolved(form, q, editor[e].seen.image, editor[e].fresh)
    ELSE IF q \in Explaining THEN bank[q].image ELSE Resolved(form, q, bank[q].image, editor[e].fresh)

\* An image that is written back after others had replaced it.
Restored(e, q) ==
    IF Rewrites(e, q) /\ editor[e].draft[q].image = "text" THEN {NewImage(e, q)} \ {None, bank[q].image} ELSE {}

\* The explanation is created, updated or deleted as the row was read, and one that others deleted or created
\* since then fails the update.
Writable(e, q) == q \in There /\ (Rewrites(e, q) => (Explained(bank[q]) <=> Explained(editor[e].seen)))

\* question.update: fields the form names, and the pool the stale read decided.
WriteUpdate(e) ==
    LET q == CHOOSE q \in DOMAIN editor[e].draft : TRUE
        form == editor[e].draft[q]
        row == [bank[q] EXCEPT !.subject = IF form.subject = 0 THEN @ ELSE form.subject,
                               !.free = TargetFree(e, q), !.image = NewImage(e, q),
                               !.words = IF Rewrites(e, q) THEN form.words ELSE @]
        drifted == bank[q].subject # editor[e].seen.subject \/ bank[q].free # editor[e].seen.free
    IN
    /\ editor[e].op = "update" /\ editor[e].step = "write"
    /\ IF Writable(e, q)
       THEN /\ bank' = [bank EXCEPT ![q] = row]
            /\ strayed' = strayed \cup (IF drifted \/ row.featured THEN {row.subject} ELSE {})
            /\ Committed(e, Step(e, [step |-> "clean", locks |-> {}, doomed |-> editor[e].stale]), Restored(e, q))
       ELSE UNCHANGED <<bank, forsaken, strayed, breaks>> /\ RollBackWith(e)
    /\ UNCHANGED <<answered, cloud, minted, handed>>

\* The transaction fails by itself: a deadlock, a timeout, a lost connection.
TransactionFails(e) ==
    /\ editor[e].step \in {"lock", "write"} /\ editor[e].op \in {"create", "update"} /\ breaks < MaxBreaks
    /\ RollBackWith(e) /\ breaks' = breaks + 1
    /\ UNCHANGED <<bank, answered, cloud, minted, handed, forsaken, strayed>>

\* cleanupQuestionAssets.
Clean(e) ==
    /\ editor[e].step = "clean"
    /\ cloud' = cloud \ editor[e].doomed
    /\ Done(e)
    /\ UNCHANGED <<bank, answered, minted, handed, forsaken, strayed, breaks>>

\* The process dies: nothing is cleaned up.
EditorDies(e) ==
    /\ ~Rest(e) /\ breaks < MaxBreaks
    /\ Done(e) /\ breaks' = breaks + 1
    /\ UNCHANGED <<bank, answered, cloud, minted, handed, forsaken, strayed>>

(***************************************************************************)
(* Deleting and featuring.                                                 *)
(***************************************************************************)

\* deleteQuestion: the row and its children as read.
StartDelete(e, q) ==
    /\ Rest(e) /\ q \in There /\ Children(q) = {}
    /\ Step(e, [op |-> "delete", step |-> "write", target |-> q, seen |-> bank[q], locks |-> {}])
    /\ UNCHANGED <<bank, answered, cloud, minted, handed, forsaken, strayed, breaks>>

\* question.delete: answers keep it, children that came meanwhile lose their parent.
DeleteRow(e) ==
    LET q == editor[e].target IN
    /\ editor[e].op = "delete" /\ editor[e].step = "write"
    /\ IF q \in There \ answered
       THEN /\ bank' = [c \in Questions |-> IF c = q THEN NoQuestion
                                            ELSE IF c \in Children(q) THEN [bank[c] EXCEPT !.parent = None] ELSE bank[c]]
            /\ Step(e, [step |-> "clean", doomed |-> {editor[e].seen.image} \ {None}])
       ELSE UNCHANGED bank /\ Done(e)
    /\ UNCHANGED <<answered, cloud, minted, handed, forsaken, strayed, breaks>>

\* An exam is dealt the question.
Sit(q) ==
    /\ q \in There \ answered
    /\ answered' = answered \cup {q}
    /\ UNCHANGED <<bank, cloud, editor, minted, handed, forsaken, strayed, breaks>>

\* toggleFreeExamQuestions: the rows are read and the featured ones of their subjects counted, without a lock.
StartToggle(e, qs, on) ==
    /\ Rest(e) /\ qs # {} /\ qs \subseteq There
    /\ on => \A s \in Subjects :
           LET incoming == {q \in qs : bank[q].subject = s /\ ~bank[q].featured} IN
           incoming # {} => Cardinality(Featured(bank, s) \ qs) + Cardinality(incoming) <= FeatureCap
    /\ Step(e, [op |-> "toggle", step |-> "write", target |-> qs, on |-> on, locks |-> {}])
    /\ UNCHANGED <<bank, answered, cloud, minted, handed, forsaken, strayed, breaks>>

\* question.updateMany.
WriteToggle(e) ==
    LET qs == editor[e].target \cap There IN
    /\ editor[e].op = "toggle" /\ editor[e].step = "write"
    /\ bank' = [q \in Questions |-> IF q \in qs THEN [bank[q] EXCEPT !.featured = editor[e].on] ELSE bank[q]]
    /\ strayed' = strayed \cup (IF editor[e].on THEN {bank[q].subject : q \in qs} ELSE {})
    /\ Done(e)
    /\ UNCHANGED <<answered, cloud, minted, handed, forsaken, breaks>>

SaveSteps(e) ==
    \/ LockSubject(e) \/ CountPool(e) \/ WriteCreate(e) \/ WriteUpdate(e)
    \/ TransactionFails(e) \/ Clean(e) \/ EditorDies(e)

\* What a request may ask for.
NewQuestions == [subject : Subjects, pool : {"free", "bank"}, image : Images \cup {"clear", "import"},
                 words : BOOLEAN, parent : Questions \cup {None}]
Changes == [subject : Subjects \cup {0}, pool : {"free", "bank", "same"},
            image : Images \cup {"keep", "text", "clear", "import"}, words : BOOLEAN]

BankSteps ==
    \/ \E e \in Editors :
          \/ \E qs \in SUBSET Questions : \/ \E draft \in [qs -> NewQuestions] : StartCreate(e, draft)
                                          \/ \E fresh \in [qs -> Images] : PrepareMedia(e, fresh)
                                          \/ \E on \in BOOLEAN : StartToggle(e, qs, on)
          \/ \E q \in Questions : StartDelete(e, q) \/ \E form \in Changes : StartUpdate(e, q, form)
          \/ SaveSteps(e) \/ DeleteRow(e) \/ WriteToggle(e)
          \/ \E left \in SUBSET Images : PrepareFails(e, left)
    \/ \E x \in Images : UploadAsset(x)
    \/ \E q \in Questions : Sit(q)

BankSpec == BankInit /\ [][BankSteps]_bankVars

(***************************************************************************)
(* Properties.                                                             *)
(***************************************************************************)

\* A subject's free pool never exceeds its cap through creates, bulk uploads and updates, however they
\* interleave: only featuring, which takes no lock and counts differently, or an update of a row that
\* moved on since it was read can overfill it (question-pool.ts, questions.service.ts updateQuestion).
FreePoolCapped ==
    \A s \in Subjects \ strayed : Cardinality(InFreePool(bank, s)) <= PoolCap

\* Two requests never wait for each other's subject locks, whichever subjects they fill and leave
\* (the sort in lockFreeExamSubjects).
WaitsFor(e, f) ==
    /\ ~Rest(e) /\ ~Rest(f) /\ editor[e].step = "lock" /\ LockScopes(e) # editor[e].locks
    /\ NextLock(e) \in editor[f].locks
NoLockCycle == \A e, f \in Editors : e # f => ~(WaitsFor(e, f) /\ WaitsFor(f, e))

\* The subject locks keep the cap and cannot deadlock (question-pool.ts).
FreePoolGuarded == FreePoolCapped /\ NoLockCycle

\* An image the server imported itself and no client sent back exists as long as a question shows it,
\* whatever fails, crosses or crashes.  Except one that an update of the explanation's texts writes
\* back after another update had replaced it, and one of a commit whose answer was lost
\* (cleanupQuestionAssets after commit and on the error paths of questions.service.ts).
ImportedImagesLast ==
    \A q \in There : bank[q].image \in cloud \cup handed \cup forsaken \cup {None}

=============================================================================

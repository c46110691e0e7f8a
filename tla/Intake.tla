------------------------------- MODULE Intake -------------------------------
(***************************************************************************)
(* From a file to the analytic entities: IngestionService.ingest_stream    *)
(* (ingestion/), ValidationService.validate, reinject and discard          *)
(* (validation/), ProjectionService (projection/), and the validation      *)
(* runner that chains them under the lock of the operation                 *)
(* (coordination/runners.py, kpi_integration.py).                          *)
(*                                                                         *)
(* An upload first moves its bytes to the object store, then commits a     *)
(* receipt that points to them; the two are not one transaction.  A worker *)
(* serves a dispatch (validate in one transaction, project in another) or  *)
(* the correction of a quarantined item (both in one).                     *)
(*                                                                         *)
(* The identity of a file is the upload that created it; that of a source  *)
(* record is its file and row.  A row is a business entity, the payload    *)
(* it declares, and whether it obeys its contract.                         *)
(***************************************************************************)
EXTENDS Naturals, Sequences, FiniteSets

CONSTANTS
    Uploads,            \* calls of ingest_stream
    Workers,            \* threads that serve dispatches and corrections
    Sources,            \* values of source_locator
    Keyed,              \* manual sources: the locator holds the idempotency key
    Contents,
    SourceOf, ContentOf,    \* of each upload
    Verdict,            \* what detection and extraction make of each content
    Rows,               \* tabular rows of each content
    Entities, Payloads,
    Malformed,          \* contents whose headers break the contract
    Ambiguous,          \* contents with two sheets that repeat a row number
    Corrections,        \* rows that users send for an item
    NoWorker, NoEntity, NoPayload, NoFile,
    MaxFaults           \* bound: exceptions and crashes

Row == [entity : Entities, payload : Payloads, valid : BOOLEAN]
Verdicts == {"COMPLETADO", "CUARENTENA", "RECHAZADO", "TOO_LARGE"}

ASSUME IntakeConstants ==
    /\ Keyed \subseteq Sources /\ Malformed \subseteq Contents /\ Ambiguous \subseteq Contents
    /\ SourceOf \in [Uploads -> Sources] /\ ContentOf \in [Uploads -> Contents]
    /\ Verdict \in [Contents -> Verdicts]
    /\ Rows \in [Contents -> Seq(Row)] /\ Corrections \subseteq Row
    /\ NoWorker \notin Workers /\ NoEntity \notin Entities
    /\ NoPayload \notin Payloads /\ NoFile \notin Uploads
    /\ MaxFaults \in Nat

VARIABLES
    stage,              \* where each upload is
    answer,             \* what it told its caller
    object,             \* uploads whose bytes are in the object store
    receipt,            \* revision in app.ingest_file, 0: no row
    next,               \* revision it is about to take
    sourceLock,         \* upload that holds the advisory lock of each source
    faults,             \* what is left of the bound
    excused,            \* history: uploads that crashed, or lost a commit
    item,               \* state of each app.quarantine_item
    transitions,        \* its rows in app.quarantine_transition that leave Pendiente
    itemLock,           \* worker that holds the row lock of each item
    applied,            \* app.record_application
    entity,             \* payload of each entity row
    job,                \* files whose operation has its job_run
    fileLock,           \* worker that holds the lock of the operation of a file
    at, task, seen,     \* locals of each worker
    inserted, results   \* rows its open transaction has inserted

uploading == <<stage, answer, object, receipt, next, sourceLock, faults, excused>>
tables == <<item, transitions, applied, entity, job>>
locals == <<at, task, seen, inserted, results>>
processing == <<tables, itemLock, fileLock, locals>>
vars == <<uploading, processing>>

-----------------------------------------------------------------------------
(* Values *)

Answers == {"NONE", "CREATED", "EXISTING", "CONFLICT", "DENIED", "ERROR", "COLLISION"}
Stages == {"idle", "staged", "denied", "inserting", "ended"}
ItemState == {"NONE", "Pendiente", "Reinyectado", "Descartado"}
Result == {"INCORPORADO", "IDEMPOTENTE", "CONFLICTO"}

RowsOf(u) == Rows[ContentOf[u]]
(* Row 0 stands for the file itself.                                        *)
SourceRecords == UNION {{u} \X (0..Len(RowsOf(u))) : u \in Uploads}
(* The item of an invalid record has no entity; that of a conflict does.    *)
ItemIds == SourceRecords \X (Entities \cup {NoEntity})
Application == [source : SourceRecords, entity : Entities, payload : Payloads, result : Result]
Target == [source : SourceRecords, entity : Entities, payload : Payloads]
NoItem == <<>>
Task == [file : Uploads \cup {NoFile}, item : ItemIds \cup {NoItem}, todo : SUBSET Target]
NoTask == [file |-> NoFile, item |-> NoItem, todo |-> {}]

Receipts(s) == {u \in Uploads : SourceOf[u] = s /\ receipt[u] # 0}
TooLarge(u) == Verdict[ContentOf[u]] = "TOO_LARGE"

-----------------------------------------------------------------------------
Init ==
    /\ stage = [u \in Uploads |-> "idle"]
    /\ answer = [u \in Uploads |-> "NONE"]
    /\ object = {}
    /\ receipt = [u \in Uploads |-> 0]
    /\ next = [u \in Uploads |-> 0]
    /\ sourceLock = [s \in Sources |-> NoFile]
    /\ faults = MaxFaults
    /\ excused = {}
    /\ item = [i \in ItemIds |-> "NONE"]
    /\ transitions = [i \in ItemIds |-> 0]
    /\ itemLock = [i \in ItemIds |-> NoWorker]
    /\ applied = {}
    /\ entity = [e \in Entities |-> NoPayload]
    /\ job = {}
    /\ fileLock = [u \in Uploads |-> NoWorker]
    /\ at = [w \in Workers |-> "idle"]
    /\ task = [w \in Workers |-> NoTask]
    /\ seen = [w \in Workers |-> {}]
    /\ inserted = [w \in Workers |-> {}]
    /\ results = [w \in Workers |-> {}]

-----------------------------------------------------------------------------
(* Reception *)

(* The call ends; with the transaction goes the lock of the source.         *)
Answered(u, a) ==
    /\ stage' = [stage EXCEPT ![u] = "ended"]
    /\ answer' = [answer EXCEPT ![u] = a]
    /\ sourceLock' = [s \in Sources |-> IF sourceLock[s] = u THEN NoFile ELSE sourceLock[s]]

(* _stage: a file above the limit leaves no object.                         *)
Stage(u) ==
    /\ stage[u] = "idle"
    /\ stage' = [stage EXCEPT ![u] = "staged"]
    /\ object' = IF TooLarge(u) THEN object ELSE object \cup {u}
    /\ UNCHANGED <<answer, receipt, next, sourceLock, faults, excused, processing>>

(* The permission is revalidated inside the transaction.                    *)
Deny(u) ==
    /\ stage[u] = "staged"
    /\ stage' = [stage EXCEPT ![u] = "denied"]
    /\ UNCHANGED <<answer, object, receipt, next, sourceLock, faults, excused, processing>>

LeaveDenied(u) ==
    /\ stage[u] = "denied"
    /\ object' = object \ {u}
    /\ Answered(u, "DENIED")
    /\ UNCHANGED <<receipt, next, faults, excused, processing>>

(* The commit of the denial fails: the object is not unlinked.              *)
LoseDenial(u) ==
    /\ stage[u] = "denied"
    /\ faults > 0 /\ faults' = faults - 1
    /\ Answered(u, "ERROR")
    /\ excused' = excused \cup {u}
    /\ UNCHANGED <<object, receipt, next, processing>>

(* Definitions marked "faulty" are slips that a property must notice.       *)
NoSourceLock(u) == TRUE                                 \* faulty: lock_source dropped
SourceFree(u) == sourceLock[SourceOf[u]] = NoFile

(* find_existing: by key, then by content.                                  *)
SameKey(u) == IF SourceOf[u] \in Keyed THEN Receipts(SourceOf[u]) ELSE {}
SameContent(u) == {v \in Receipts(SourceOf[u]) : ContentOf[v] = ContentOf[u]}

PriorRevision(s) == Cardinality(Receipts(s)) - 1        \* faulty: off by two
NextRevision(s) == Cardinality(Receipts(s)) + 1

(* lock_source, find_existing and next_revision.                            *)
LookUp(u) ==
    /\ stage[u] = "staged"
    /\ SourceFree(u)
    /\ TooLarge(u) \/ (SameKey(u) = {} /\ SameContent(u) = {})
    /\ stage' = [stage EXCEPT ![u] = "inserting"]
    /\ next' = [next EXCEPT ![u] = NextRevision(SourceOf[u])]
    /\ sourceLock' = [sourceLock EXCEPT ![SourceOf[u]] = u]
    /\ UNCHANGED <<answer, object, receipt, faults, excused, processing>>

(* A key whose receipt has no digest cannot be compared: the call raises.   *)
FindExisting(u) ==
    /\ stage[u] = "staged" /\ ~TooLarge(u)
    /\ SourceFree(u)
    /\ SameKey(u) \cup SameContent(u) # {}
    /\ Answered(u, IF SameContent(u) # {} THEN "EXISTING"
                   ELSE IF \E v \in SameKey(u) : TooLarge(v) THEN "ERROR" ELSE "CONFLICT")
    /\ object' = object \ {u}
    /\ UNCHANGED <<receipt, next, faults, excused, processing>>

(* The unique indexes of ingest_file: revision, content and key.            *)
Collides(u) ==
    \E v \in Receipts(SourceOf[u]) :
        \/ receipt[v] = next[u]
        \/ ~TooLarge(u) /\ ContentOf[v] = ContentOf[u]
        \/ SourceOf[u] \in Keyed

(* The receipt, with the item of a file that could not be read.             *)
Received(u) ==
    /\ receipt' = [receipt EXCEPT ![u] = next[u]]
    /\ item' = IF Verdict[ContentOf[u]] = "CUARENTENA"
               THEN [item EXCEPT ![<<<<u, 0>>, NoEntity>>] = "Pendiente"] ELSE item
    /\ UNCHANGED <<transitions, applied, entity, job, itemLock, fileLock, locals>>

InsertFile(u) ==
    /\ stage[u] = "inserting" /\ ~Collides(u)
    /\ Received(u)
    /\ Answered(u, "CREATED")
    /\ UNCHANGED <<object, next, faults, excused>>

CollideFile(u) ==
    /\ stage[u] = "inserting" /\ Collides(u)
    /\ object' = object \ {u}
    /\ Answered(u, "COLLISION")
    /\ UNCHANGED <<receipt, next, faults, excused, processing>>

Unlinked(u) == object \ {u}

(* An exception of the transaction block unlinks the object...              *)
FailUpload(u) ==
    /\ stage[u] \in {"staged", "inserting"}
    /\ faults > 0 /\ faults' = faults - 1
    /\ object' = Unlinked(u)
    /\ Answered(u, "ERROR")
    /\ UNCHANGED <<receipt, next, excused, processing>>

(* ...one of a commit that the server did execute included.                 *)
LoseCommit(u) ==
    /\ stage[u] = "inserting" /\ ~Collides(u)
    /\ faults > 0 /\ faults' = faults - 1
    /\ Received(u)
    /\ object' = Unlinked(u)
    /\ excused' = excused \cup {u}
    /\ Answered(u, "ERROR")
    /\ UNCHANGED next

CrashUpload(u) ==
    /\ stage[u] \in {"staged", "inserting", "denied"}
    /\ faults > 0 /\ faults' = faults - 1
    /\ excused' = excused \cup {u}
    /\ Answered(u, "ERROR")
    /\ UNCHANGED <<object, receipt, next, processing>>

-----------------------------------------------------------------------------
(* Validation *)

Tabular(u) == receipt[u] # 0 /\ Verdict[ContentOf[u]] = "COMPLETADO" /\ RowsOf(u) # <<>>
Valid(u) == IF ContentOf[u] \in Malformed THEN {}
            ELSE {k \in DOMAIN RowsOf(u) : RowsOf(u)[k].valid}
Invalid(u) == IF ContentOf[u] \in Malformed THEN {}
              ELSE {k \in DOMAIN RowsOf(u) : ~RowsOf(u)[k].valid}
UntilInvalid(u) == {k \in Valid(u) : \A j \in Invalid(u) : k < j}     \* faulty: loop left
Validated(u) == Valid(u)

ItemOf(u, k) == <<<<u, k>>, NoEntity>>

(* The transaction of a worker ends and its locks are released.             *)
Release(w) ==
    /\ at' = [at EXCEPT ![w] = "idle"]
    /\ task' = [task EXCEPT ![w] = NoTask]
    /\ seen' = [seen EXCEPT ![w] = {}]
    /\ inserted' = [inserted EXCEPT ![w] = {}]
    /\ results' = [results EXCEPT ![w] = {}]
    /\ itemLock' = [i \in ItemIds |-> IF itemLock[i] = w THEN NoWorker ELSE itemLock[i]]
    /\ fileLock' = [u \in Uploads |-> IF fileLock[u] = w THEN NoWorker ELSE fileLock[u]]

(* The runner resumes a job that exists; otherwise it validates the rows,   *)
(* looking up the item of each invalid one.  Rows that share a position     *)
(* make the call raise, each time.                                          *)
StartValidation(w, u) ==
    /\ at[w] = "idle"
    /\ Tabular(u) /\ ContentOf[u] \notin Ambiguous
    /\ fileLock[u] = NoWorker /\ u \notin job
    /\ at' = [at EXCEPT ![w] = "validating"]
    /\ task' = [task EXCEPT ![w] = [NoTask EXCEPT !.file = u]]
    /\ seen' = [seen EXCEPT ![w] = {k \in Invalid(u) : item[ItemOf(u, k)] # "NONE"}]
    /\ UNCHANGED <<uploading, tables, itemLock, fileLock, inserted, results>>

(* insert_quarantine of an item that was not there, under a derived and     *)
(* unique operation_id.                                                     *)
FinishValidation(w) ==
    LET u == task[w].file IN
    /\ at[w] = "validating"
    /\ \A k \in Invalid(u) \ seen[w] : item[ItemOf(u, k)] = "NONE"
    /\ item' = [i \in ItemIds |->
                   IF i \in {ItemOf(u, k) : k \in Invalid(u) \ seen[w]} THEN "Pendiente"
                   ELSE item[i]]
    /\ at' = [at EXCEPT ![w] = "validated"]
    /\ UNCHANGED <<uploading, transitions, applied, entity, job, itemLock, fileLock, task, seen,
                   inserted, results>>

(* Another worker committed the item in between: unique violation.          *)
CollideItem(w) ==
    LET u == task[w].file IN
    /\ at[w] = "validating"
    /\ \E k \in Invalid(u) \ seen[w] : item[ItemOf(u, k)] # "NONE"
    /\ Release(w)
    /\ UNCHANGED <<uploading, tables>>

-----------------------------------------------------------------------------
(* Projection *)

TargetOf(source, row) == [source |-> source, entity |-> row.entity, payload |-> row.payload]

(* project_records takes the lock of the operation and looks for the job    *)
(* again.                                                                   *)
FindJob(w) ==
    /\ at[w] = "validated"
    /\ fileLock[task[w].file] = NoWorker /\ task[w].file \in job
    /\ Release(w)
    /\ UNCHANGED <<uploading, tables>>

StartProjection(w) ==
    LET u == task[w].file IN
    /\ at[w] = "validated"
    /\ fileLock[u] = NoWorker /\ u \notin job
    /\ fileLock' = [fileLock EXCEPT ![u] = w]
    /\ task' = [task EXCEPT ![w].todo =
                   {TargetOf(<<u, k>>, RowsOf(u)[k]) : k \in Validated(u)}]
    /\ at' = [at EXCEPT ![w] = "projecting"]
    /\ UNCHANGED <<uploading, tables, itemLock, seen, inserted, results>>

(* The records of a file come in the order of their rows.                   *)
Current(w) == CHOOSE t \in task[w].todo : \A o \in task[w].todo : t.source[2] <= o.source[2]
Projecting(w) == at[w] = "projecting" /\ task[w].todo # {}

(* Another open transaction has inserted the row that w would insert: the   *)
(* unique index makes it wait for the outcome.                              *)
WaitsFor(w, v) ==
    /\ v # w /\ Projecting(w)
    /\ \/ \E r \in inserted[v] : r.entity = Current(w).entity
       \/ \E r \in results[v] : r.source = Current(w).source /\ r.entity = Current(w).entity

NeverWaits(w) == TRUE                                   \* faulty: committed rows only
Free(w) == \A v \in Workers : ~WaitsFor(w, v)

(* What the transaction sees of a target.                                   *)
Known(w) == {r \in applied \cup results[w] :
                r.source = Current(w).source /\ r.entity = Current(w).entity}
Stored(w) ==
    IF \E r \in inserted[w] : r.entity = Current(w).entity
    THEN (CHOOSE r \in inserted[w] : r.entity = Current(w).entity).payload
    ELSE entity[Current(w).entity]

Outcome(w) ==
    IF Stored(w) = NoPayload THEN "INCORPORADO"
    ELSE IF Stored(w) = Current(w).payload THEN "IDEMPOTENTE" ELSE "CONFLICTO"

Applied(w, result) ==
    [source |-> Current(w).source, entity |-> Current(w).entity, payload |-> Current(w).payload,
     result |-> result]

Pop(w) == task' = [task EXCEPT ![w].todo = @ \ {Current(w)}]

(* _project_target of a target that has no application.                     *)
Project(w) ==
    /\ Projecting(w) /\ Free(w)
    /\ Known(w) = {}
    /\ results' = [results EXCEPT ![w] = @ \cup {Applied(w, Outcome(w))}]
    /\ inserted' = IF Stored(w) = NoPayload
                   THEN [inserted EXCEPT ![w] = @ \cup {Current(w)}] ELSE inserted
    /\ Pop(w)
    /\ UNCHANGED <<uploading, tables, itemLock, fileLock, at, seen>>

(* The application of the same snapshot is found again.                     *)
Repeat(w) ==
    /\ Projecting(w) /\ Free(w)
    /\ \E r \in Known(w) : r.payload = Current(w).payload
    /\ Pop(w)
    /\ UNCHANGED <<uploading, tables, itemLock, fileLock, at, seen, inserted, results>>

(* One of another snapshot breaks an invariant: ProjectionInvariantError.   *)
Mismatch(w) ==
    /\ Projecting(w) /\ Free(w)
    /\ \E r \in Known(w) : r.payload # Current(w).payload
    /\ Release(w)
    /\ UNCHANGED <<uploading, tables>>

ConflictItems(w) == {<<r.source, r.entity>> : r \in {x \in results[w] : x.result = "CONFLICTO"}}

(* insert_transition: the item leaves Pendiente (NoItem has no row).        *)
Transition(i) ==
    transitions' = [j \in ItemIds |-> transitions[j] + IF j = i THEN 1 ELSE 0]

(* The rows, the items of the conflicts, the mark of the corrected item and *)
(* its transition, and the job, in one commit.                              *)
CommitProjection(w) ==
    /\ at[w] = "projecting" /\ task[w].todo = {}
    /\ applied' = applied \cup results[w]
    /\ entity' = [e \in Entities |->
                     IF \E r \in inserted[w] : r.entity = e
                     THEN (CHOOSE r \in inserted[w] : r.entity = e).payload ELSE entity[e]]
    /\ item' = [i \in ItemIds |-> IF i \in ConflictItems(w) THEN "Pendiente"
                                  ELSE IF i = task[w].item THEN "Reinyectado" ELSE item[i]]
    /\ Transition(task[w].item)
    /\ job' = job \cup ({task[w].file} \ {NoFile})
    /\ Release(w)
    /\ UNCHANGED uploading

(* PostgreSQL aborts one of two transactions that wait for each other.      *)
DeadlockAbort(w) ==
    /\ \E v \in Workers : WaitsFor(w, v) /\ WaitsFor(v, w)
    /\ Release(w)
    /\ UNCHANGED <<uploading, tables>>

(* An exception or the death of the process rolls the transaction back.     *)
Abort(w) ==
    /\ at[w] # "idle"
    /\ faults > 0 /\ faults' = faults - 1
    /\ Release(w)
    /\ UNCHANGED <<stage, answer, object, receipt, next, sourceLock, excused, tables>>

-----------------------------------------------------------------------------
(* Quarantine *)

NoRowLock(i) == TRUE                                    \* faulty: FOR UPDATE dropped
RowFree(i) == itemLock[i] = NoWorker

(* reinject: the item is locked and read; one that is not Pendiente, or     *)
(* that has no source record, raises, and an invalid correction leaves it   *)
(* Pendiente.                                                               *)
Reinject(w, i, row) ==
    /\ at[w] = "idle"
    /\ RowFree(i)
    /\ item[i] = "Pendiente" /\ i[1][2] # 0 /\ row.valid
    /\ itemLock' = [itemLock EXCEPT ![i] = w]
    /\ task' = [task EXCEPT ![w] = [file |-> NoFile, item |-> i, todo |-> {TargetOf(i[1], row)}]]
    /\ at' = [at EXCEPT ![w] = "projecting"]
    /\ UNCHANGED <<uploading, tables, fileLock, seen, inserted, results>>

Discard(i) ==
    /\ RowFree(i)
    /\ item[i] = "Pendiente"
    /\ item' = [item EXCEPT ![i] = "Descartado"]
    /\ Transition(i)
    /\ UNCHANGED <<uploading, applied, entity, job, itemLock, fileLock, locals>>

-----------------------------------------------------------------------------
Receive(u) ==
    \/ Stage(u) \/ Deny(u) \/ LeaveDenied(u) \/ LoseDenial(u) \/ LookUp(u) \/ FindExisting(u)
    \/ InsertFile(u) \/ CollideFile(u) \/ FailUpload(u) \/ LoseCommit(u) \/ CrashUpload(u)

Process(w) ==
    \/ \E u \in Uploads : StartValidation(w, u)
    \/ FinishValidation(w) \/ CollideItem(w) \/ FindJob(w) \/ StartProjection(w)
    \/ Project(w) \/ Repeat(w) \/ Mismatch(w) \/ CommitProjection(w) \/ DeadlockAbort(w) \/ Abort(w)
    \/ \E i \in ItemIds, row \in Corrections : Reinject(w, i, row)

Next ==
    \/ \E u \in Uploads : Receive(u)
    \/ \E w \in Workers : Process(w)
    \/ \E i \in ItemIds : Discard(i)

Spec == Init /\ [][Next]_vars

-----------------------------------------------------------------------------
(* Properties *)

TypeOK ==
    /\ stage \in [Uploads -> Stages] /\ answer \in [Uploads -> Answers]
    /\ object \subseteq Uploads /\ excused \subseteq Uploads /\ job \subseteq Uploads
    /\ receipt \in [Uploads -> Nat] /\ next \in [Uploads -> Nat]
    /\ sourceLock \in [Sources -> Uploads \cup {NoFile}]
    /\ faults \in Nat
    /\ item \in [ItemIds -> ItemState] /\ transitions \in [ItemIds -> Nat]
    /\ itemLock \in [ItemIds -> Workers \cup {NoWorker}]
    /\ applied \subseteq Application
    /\ entity \in [Entities -> Payloads \cup {NoPayload}]
    /\ fileLock \in [Uploads -> Workers \cup {NoWorker}]
    /\ at \in [Workers -> {"idle", "validating", "validated", "projecting"}]
    /\ task \in [Workers -> Task]
    /\ seen \in [Workers -> SUBSET Nat]
    /\ inserted \in [Workers -> SUBSET Target] /\ results \in [Workers -> SUBSET Application]

Kept(u) == receipt[u] # 0 /\ ~TooLarge(u)

(* The object store holds the object of every receipt and, once the calls   *)
(* have ended, no other: neither a refusal, an exception nor a repeated     *)
(* upload loses or leaves one.  A crash between the rename and the commit,  *)
(* and a commit whose outcome the caller did not learn, are excused.        *)
ObjectsMatchReceipts ==
    \A u \in Uploads \ excused :
        /\ Kept(u) => u \in object
        /\ stage[u] = "ended" /\ u \in object => Kept(u)

(* Uploads of one source at the same time do not collide: one creates the   *)
(* receipt and the others find it, and revisions follow each other.  Only a *)
(* key that was spent on a file above the limit collides.                   *)
UploadsNeverCollide ==
    /\ \A u \in Uploads : answer[u] = "COLLISION" => TooLarge(u) /\ SourceOf[u] \in Keyed
    /\ \A s \in Sources : {receipt[u] : u \in Receipts(s)} = 1..Cardinality(Receipts(s))

(* What becomes of uploads that come at once, fail or are repeated.         *)
UploadsAreSound == ObjectsMatchReceipts /\ UploadsNeverCollide

Has(source, e) == \E r \in applied : r.source = source /\ r.entity = e

(* Once a file has its job every row of it is accounted for: a valid one    *)
(* has its application, an invalid one its item; and an item that says it   *)
(* was reinjected has an application of its record.                         *)
EveryRecordIsAccounted ==
    /\ \A u \in job :
          /\ \A k \in Valid(u) : Has(<<u, k>>, RowsOf(u)[k].entity)
          /\ \A k \in Invalid(u) : item[ItemOf(u, k)] # "NONE"
    /\ \A i \in ItemIds : item[i] = "Reinyectado" => \E e \in Entities : Has(i[1], e)

(* One record incorporated each entity and no other overwrote it: every     *)
(* other application agrees with the entity, or is a conflict with an item  *)
(* of its own, whatever the transactions that ran at once.                  *)
EntityIsItsIncorporation ==
    \A e \in Entities :
        LET of == {r \in applied : r.entity = e} IN
        /\ Cardinality({r \in of : r.result = "INCORPORADO"}) = IF entity[e] = NoPayload THEN 0 ELSE 1
        /\ \A r \in of :
              /\ r.result = "CONFLICTO" <=> r.payload # entity[e]
              /\ r.result = "CONFLICTO" => item[<<r.source, e>>] # "NONE"

(* An item is settled once, and only then: of two corrections, or of a      *)
(* correction and a discard, of one item only one commits, and nothing      *)
(* makes a settled item Pendiente again.                                    *)
ItemsSettleOnce ==
    \A i \in ItemIds :
        transitions[i] = IF item[i] \in {"Reinyectado", "Descartado"} THEN 1 ELSE 0
=============================================================================

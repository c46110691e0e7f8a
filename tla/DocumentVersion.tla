--------------------------- MODULE DocumentVersion ---------------------------
(***************************************************************************)
(* The versions of one document: process_candidate                         *)
(* (documents/processing.py), activation and invalidation                  *)
(* (documents/service.py, repository.py, versioning.py), the index         *)
(* certificate (rag/index_repository.py) and the manual reprocess          *)
(* (documents/http_service.py).                                            *)
(*                                                                         *)
(* A version is the work of one operation_id (a unique column), so the     *)
(* operation names it.  The operation that the dispatch of the file        *)
(* carries may run in several calls at once and be repeated for ever       *)
(* (module Dispatch); a manual one holds a session lock while it runs.     *)
(* What a reading of the file gives depends on the OCR engine installed.   *)
(***************************************************************************)
EXTENDS Naturals

CONSTANTS
    Callers,            \* threads that serve a call
    Ops,                \* operation_id values
    Dispatched,         \* that of the dispatch of the file, if there is one
    Source,             \* version each manual reprocess starts from
    Engines,            \* OCR engines that are installed one after another
    Reading,            \* what each engine reads in the file
    Texts, EmptyText, NoText,
    NeedsOcr,           \* the file has pages without text
    NoCaller, NoOp,
    MaxFailures,        \* bound: calls that raise or whose process dies
    MaxUpgrades,        \* bound: changes of engine
    MaxInvalidations    \* bound: invalidations

Manual == Ops \ Dispatched
ReadingType == [text : Texts, confidence : {"HIGH", "LOW"}]

ASSUME DocumentVersionConstants ==
    /\ NoCaller \notin Callers /\ NoOp \notin Ops /\ NoText \notin Texts
    /\ EmptyText \in Texts
    /\ Dispatched \subseteq Ops /\ \A o, p \in Dispatched : o = p
    /\ Source \in [Manual -> Ops]
    /\ Reading \in [Engines -> ReadingType]
    /\ NeedsOcr \in BOOLEAN
    /\ MaxFailures \in Nat /\ MaxUpgrades \in Nat /\ MaxInvalidations \in Nat

VARIABLES
    version,        \* app.document_version row of each operation
    cert,           \* text whose fragments app.document_index_certificate covers
    active,         \* app.document.active_version_id
    invalidated,    \* app.document.invalidated_at is not null
    activations,    \* DOCUMENT_VERSION_ACTIVATED events of each version
    jobs,           \* operations with their KPI job
    requestLock,    \* session advisory lock of each manual operation
    engine,
    pc, op, reading, expected,          \* locals of each caller
    budget,         \* what is left of the three bounds
    changes,        \* history: times the row of the document changed
    base,           \* history: changes when each caller read its expected version
    everInvalidated \* history: the document was invalidated some time

document == <<version, cert, active, invalidated, activations, jobs>>
history == <<changes, base, everInvalidated>>
vars == <<document, requestLock, engine, pc, op, reading, expected, budget, history>>

-----------------------------------------------------------------------------
(* Values *)

State == {"ABSENT", "PROCESANDO", "LISTA", "RECHAZADA"}
OcrState == {"NONE", "Exitoso", "Rechazado por baja confianza"}
Version ==
    {v \in [state : State, text : Texts \cup {NoText}, ocr : OcrState] :
        v.state \in {"PROCESANDO", "LISTA"} => v.text # NoText}
NoVersion == [state |-> "ABSENT", text |-> NoText, ocr |-> "NONE"]
NoReading == [text |-> NoText, confidence |-> "LOW"]
Budget == [failures : Nat, upgrades : Nat, invalidations : Nat]
Where == {"idle", "requesting", "verifying", "reading", "proposing", "embedding",
          "checking", "activating", "converging", "finishing"}

DocumentExists == \E o \in Ops : version[o].state # "ABSENT"

(* The sources a reprocess may start from.                                 *)
Eligible(o) ==
    /\ NeedsOcr /\ ~invalidated
    /\ version[o].state # "ABSENT"
    /\ version[o].ocr # "Exitoso"

(* No version comes of a reading without text or of low confidence.        *)
Unusable(r) == (NeedsOcr /\ r.confidence = "LOW") \/ r.text = EmptyText

OcrResult(v, r) ==
    IF ~NeedsOcr \/ v.ocr # "NONE" THEN v.ocr
    ELSE IF r.confidence = "LOW" THEN "Rechazado por baja confianza" ELSE "Exitoso"

(* Definitions marked "faulty" are slips that a property must notice.      *)
Mismatch(v, r) == v.text # NoText /\ v.text # r.text

TextLater(v, r) ==                                      \* faulty: text left to the index
    [v EXCEPT !.state = "PROCESANDO", !.ocr = OcrResult(v, r)]
Proposed(v, r) ==
    IF v.state = "LISTA" THEN [v EXCEPT !.ocr = OcrResult(v, r)]
    ELSE [v EXCEPT !.state = "PROCESANDO", !.text = r.text, !.ocr = OcrResult(v, r)]

Closed(v) == v.state \in {"RECHAZADA", "LISTA"}         \* faulty: a retry after LISTA fails
Reopened(v) == FALSE                                    \* faulty: a rejection is forgotten
Terminal(v) == v.state = "RECHAZADA"

Certifiable(v, r) == v.text = r.text /\ v.state \in {"PROCESANDO", "LISTA"}

SkipIfCertified(o) == IF cert[o] # NoText THEN "finishing" ELSE "checking"  \* faulty
AfterIndexing(o) == "checking"

VersionIsActive(o) == active = o /\ cert[o] # NoText /\ ~invalidated

Unconditional(w) == TRUE                                \* faulty: last writer wins
ExpectedActive(w) == expected[w] = active

-----------------------------------------------------------------------------
(* What the actions share *)

TypeOK ==
    /\ version \in [Ops -> Version] /\ cert \in [Ops -> Texts \cup {NoText}]
    /\ active \in Ops \cup {NoOp} /\ invalidated \in BOOLEAN
    /\ activations \in [Ops -> Nat] /\ jobs \subseteq Ops
    /\ requestLock \in [Ops -> Callers \cup {NoCaller}] /\ engine \in Engines
    /\ pc \in [Callers -> Where] /\ op \in [Callers -> Ops \cup {NoOp}]
    /\ reading \in [Callers -> ReadingType \cup {NoReading}]
    /\ expected \in [Callers -> Ops \cup {NoOp}]
    /\ budget \in Budget
    /\ changes \in Nat /\ base \in [Callers -> Nat] /\ everInvalidated \in BOOLEAN

Init ==
    /\ version = [o \in Ops |-> NoVersion] /\ cert = [o \in Ops |-> NoText]
    /\ active = NoOp /\ invalidated = FALSE
    /\ activations = [o \in Ops |-> 0] /\ jobs = {}
    /\ requestLock = [o \in Ops |-> NoCaller] /\ engine \in Engines
    /\ pc = [w \in Callers |-> "idle"] /\ op = [w \in Callers |-> NoOp]
    /\ reading = [w \in Callers |-> NoReading] /\ expected = [w \in Callers |-> NoOp]
    /\ budget = [failures |-> MaxFailures, upgrades |-> MaxUpgrades,
                 invalidations |-> MaxInvalidations]
    /\ changes = 0 /\ base = [w \in Callers |-> 0] /\ everInvalidated = FALSE

(* The call of w ends: its locals are gone and its session lock too.       *)
Finish(w) ==
    /\ pc' = [pc EXCEPT ![w] = "idle"]
    /\ op' = [op EXCEPT ![w] = NoOp]
    /\ reading' = [reading EXCEPT ![w] = NoReading]
    /\ expected' = [expected EXCEPT ![w] = NoOp]
    /\ base' = [base EXCEPT ![w] = 0]
    /\ requestLock' = [o \in Ops |-> IF requestLock[o] = w THEN NoCaller ELSE requestLock[o]]

Goes(w, where) ==
    /\ pc' = [pc EXCEPT ![w] = where]
    /\ UNCHANGED <<op, reading, expected, base, requestLock>>

(* An exception leaves the call and what was committed before.             *)
Raises(w) ==
    /\ Finish(w)
    /\ UNCHANGED <<document, engine, budget, changes, everInvalidated>>

-----------------------------------------------------------------------------
(* How a call begins *)

(* The dispatch runs or repeats its operation: resume finds no KPI job.    *)
Dispatch(w, o) ==
    /\ pc[w] = "idle" /\ o \in Dispatched /\ o \notin jobs
    /\ pc' = [pc EXCEPT ![w] = "reading"]
    /\ op' = [op EXCEPT ![w] = o]
    /\ UNCHANGED <<document, requestLock, engine, reading, expected, budget, history>>

Request(w, o) ==
    /\ pc[w] = "idle" /\ o \in Manual
    /\ pc' = [pc EXCEPT ![w] = "requesting"]
    /\ op' = [op EXCEPT ![w] = o]
    /\ UNCHANGED <<document, requestLock, engine, reading, expected, budget, history>>

Lock(w) ==
    /\ pc[w] = "requesting" /\ requestLock[op[w]] = NoCaller
    /\ requestLock' = [requestLock EXCEPT ![op[w]] = w]
    /\ pc' = [pc EXCEPT ![w] = "verifying"]
    /\ UNCHANGED <<document, engine, op, reading, expected, budget, history>>

Refuse(w) ==
    /\ pc[w] = "verifying" /\ ~Eligible(Source[op[w]])
    /\ Raises(w)

(* An attempt that left its job is answered from what is stored.           *)
Answer(w) ==
    /\ pc[w] = "verifying" /\ Eligible(Source[op[w]]) /\ op[w] \in jobs
    /\ Finish(w)
    /\ UNCHANGED <<document, engine, budget, changes, everInvalidated>>

(* One that has its result needs only the job; any other runs whole.       *)
Verify(w) ==
    /\ pc[w] = "verifying" /\ Eligible(Source[op[w]]) /\ op[w] \notin jobs
    /\ Goes(w, IF version[op[w]].state \in {"LISTA", "RECHAZADA"} THEN "finishing" ELSE "reading")
    /\ UNCHANGED <<document, engine, budget, changes, everInvalidated>>

-----------------------------------------------------------------------------
(* process_candidate *)

(* Minutes of OCR outside any transaction.                                 *)
Recognise(w) ==
    /\ pc[w] = "reading"
    /\ reading' = [reading EXCEPT ![w] = Reading[engine]]
    /\ pc' = [pc EXCEPT ![w] = "proposing"]
    /\ UNCHANGED <<document, requestLock, engine, op, expected, budget, history>>

(* The candidate transaction: under the lock of the document row and, if   *)
(* it exists, of the version of the operation.                             *)
RefuseMismatch(w) ==
    /\ pc[w] = "proposing" /\ Mismatch(version[op[w]], reading[w])
    /\ Raises(w)

Reject(w) ==
    LET v == version[op[w]]
        r == reading[w]
    IN  /\ pc[w] = "proposing" /\ ~Mismatch(v, r) /\ Unusable(r)
        /\ version' = [version EXCEPT ![op[w]] =
               [v EXCEPT !.state = "RECHAZADA", !.ocr = OcrResult(v, r)]]
        /\ Goes(w, "finishing")
        /\ UNCHANGED <<cert, active, invalidated, activations, jobs, engine, budget,
                       changes, everInvalidated>>

RefuseTerminal(w) ==
    LET v == version[op[w]]
        r == reading[w]
    IN  /\ pc[w] = "proposing" /\ ~Mismatch(v, r) /\ ~Unusable(r) /\ Terminal(v)
        /\ Raises(w)

Propose(w) ==
    LET v == version[op[w]]
        r == reading[w]
    IN  /\ pc[w] = "proposing" /\ ~Mismatch(v, r) /\ ~Unusable(r) /\ ~Terminal(v)
        /\ version' = [version EXCEPT ![op[w]] = Proposed(v, r)]
        /\ expected' = [expected EXCEPT ![w] = active]
        /\ base' = [base EXCEPT ![w] = changes]
        /\ pc' = [pc EXCEPT ![w] = "embedding"]
        /\ UNCHANGED <<cert, active, invalidated, activations, jobs, requestLock, engine,
                       op, reading, budget, changes, everInvalidated>>

(* persist_certified_index, after minutes of embedding: the fragments and  *)
(* their certificate are written once, for the text they were cut from.    *)
Certify(w) ==
    LET o == op[w]
    IN  /\ pc[w] = "embedding" /\ Certifiable(version[o], reading[w])
        /\ IF cert[o] = NoText
             THEN /\ cert' = [cert EXCEPT ![o] = reading[w].text]
                  /\ version' = [version EXCEPT ![o].state = "LISTA"]
             ELSE UNCHANGED <<cert, version>>
        /\ Goes(w, AfterIndexing(o))
        /\ UNCHANGED <<active, invalidated, activations, jobs, engine, budget,
                       changes, everInvalidated>>

SourceChanged(w) ==
    /\ pc[w] = "embedding" /\ ~Certifiable(version[op[w]], reading[w])
    /\ Raises(w)

(* A retry after the activation does not repeat it.                        *)
CheckActive(w) ==
    /\ pc[w] = "checking"
    /\ Goes(w, IF VersionIsActive(op[w]) THEN "finishing" ELSE "activating")
    /\ UNCHANGED <<document, engine, budget, changes, everInvalidated>>

(* activate_candidate: one transaction under the lock of the document row. *)
NotReady(w) ==
    /\ pc[w] = "activating" /\ version[op[w]].state # "LISTA"
    /\ Raises(w)

Activate(w) ==
    /\ pc[w] = "activating" /\ version[op[w]].state = "LISTA" /\ ExpectedActive(w)
    /\ active' = op[w]
    /\ invalidated' = FALSE
    /\ activations' = [activations EXCEPT ![op[w]] = @ + 1]
    /\ changes' = changes + 1
    /\ Goes(w, "finishing")
    /\ UNCHANGED <<version, cert, jobs, engine, budget, everInvalidated>>

StaleWrite(w) ==
    /\ pc[w] = "activating" /\ version[op[w]].state = "LISTA" /\ ~ExpectedActive(w)
    /\ Goes(w, "converging")
    /\ UNCHANGED <<document, engine, budget, changes, everInvalidated>>

(* Somebody else activated this very version, or the candidate is lost.    *)
Converge(w) ==
    /\ pc[w] = "converging" /\ VersionIsActive(op[w])
    /\ Goes(w, "finishing")
    /\ UNCHANGED <<document, engine, budget, changes, everInvalidated>>

GiveUp(w) ==
    /\ pc[w] = "converging" /\ ~VersionIsActive(op[w])
    /\ Raises(w)

(* process_final_ocr: the KPI job of the operation (module KpiJob).        *)
FinalOcr(w) ==
    /\ pc[w] = "finishing"
    /\ jobs' = jobs \cup {op[w]}
    /\ Finish(w)
    /\ UNCHANGED <<version, cert, active, invalidated, activations, engine, budget,
                   changes, everInvalidated>>

-----------------------------------------------------------------------------
(* What happens around a call *)

(* An engine or a statement fails, a permission is gone, a process dies.   *)
Fail(w) ==
    /\ pc[w] # "idle" /\ budget.failures > 0
    /\ budget' = [budget EXCEPT !.failures = @ - 1]
    /\ Finish(w)
    /\ UNCHANGED <<document, engine, changes, everInvalidated>>

Invalidate ==
    /\ DocumentExists /\ budget.invalidations > 0
    /\ budget' = [budget EXCEPT !.invalidations = @ - 1]
    /\ active' = NoOp
    /\ invalidated' = TRUE
    /\ changes' = changes + 1
    /\ everInvalidated' = TRUE
    /\ UNCHANGED <<version, cert, activations, jobs, requestLock, engine, pc, op, reading,
                   expected, base>>

Upgrade(e) ==
    /\ e # engine /\ budget.upgrades > 0
    /\ budget' = [budget EXCEPT !.upgrades = @ - 1]
    /\ engine' = e
    /\ UNCHANGED <<document, requestLock, pc, op, reading, expected, history>>

Begins(w) == \E o \in Ops : Dispatch(w, o) \/ Request(w, o)

Works(w) ==
    \/ Lock(w) \/ Refuse(w) \/ Answer(w) \/ Verify(w)
    \/ Recognise(w) \/ RefuseMismatch(w) \/ Reject(w) \/ RefuseTerminal(w) \/ Propose(w)
    \/ Certify(w) \/ SourceChanged(w) \/ CheckActive(w)
    \/ NotReady(w) \/ Activate(w) \/ StaleWrite(w) \/ Converge(w) \/ GiveUp(w)
    \/ FinalOcr(w)

Next ==
    \/ \E w \in Callers : Begins(w) \/ Works(w) \/ Fail(w)
    \/ Invalidate
    \/ \E e \in Engines : Upgrade(e)

Spec == Init /\ [][Next]_vars

(* A live thread goes on, and a dispatch that was not answered is posted   *)
(* again: the DAG repeats it every day.                                    *)
Fairness ==
    /\ \A w \in Callers : WF_vars(Works(w))
    /\ \A o \in Dispatched : SF_vars(\E w \in Callers : Dispatch(w, o))

FairSpec == Spec /\ Fairness

-----------------------------------------------------------------------------
(* Properties *)

(* The certificate of the active version covers the text of its version,   *)
(* and the version is LISTA, what the retrieval asks                       *)
(* (rag/retrieval_repository.py), unless some engine reads that very text  *)
(* without enough confidence: rejecting a version does not look at whether *)
(* it is in force.                                                         *)
ReadWithoutConfidence(t) ==
    \E e \in Engines : Reading[e].text = t /\ Unusable(Reading[e])

ActiveIsSearchable ==
    active # NoOp =>
        /\ cert[active] # NoText /\ cert[active] = version[active].text
        /\ \/ version[active].state = "LISTA"
           \/ version[active].state = "RECHAZADA" /\ ReadWithoutConfidence(version[active].text)

(* An activation replaces the version that its candidate transaction read: *)
(* no other activation was lost in the minutes between                     *)
(* (assert_expected_active).  An invalidation in between may be: the       *)
(* pointer is NULL before and after.                                       *)
NoLostActivation ==
    [][\A w \in Callers :
         (pc[w] = "activating" /\ activations' # activations /\ pc'[w] = "finishing") =>
            (base[w] = changes \/ everInvalidated)]_vars

(* Retries, takeovers and races of a dispatch activate its version and     *)
(* audit it once (processing.py:224, :240), while nobody invalidates.      *)
ActivatedOnce ==
    ~everInvalidated => \A o \in Ops : activations[o] <= 1

(* A dispatched operation does not end with a version that is ready and    *)
(* was never put in force, wherever its earlier attempts broke off.        *)
DispatchedIsActivated ==
    \A o \in Dispatched :
        (o \in jobs /\ version[o].state = "LISTA") => activations[o] > 0

(* What is in force got there once, could be found, and was not forgotten. *)
ActivationsAreSound == ActiveIsSearchable /\ ActivatedOnce /\ DispatchedIsActivated

(* A rejected version is never processed again nor put in force, even if   *)
(* the rejection happens while another call of its operation is between    *)
(* two of its transactions.                                                *)
RejectedStaysOut ==
    [][\A o \in Ops : version[o].state = "RECHAZADA" =>
         /\ version'[o].state = "RECHAZADA"
         /\ active' = o => active = o]_vars

(* Neither a newer activation nor a rejection is undone by a late call.    *)
LateCallsAreRefused == NoLostActivation /\ RejectedStaysOut

(* A new engine that reads the file otherwise than the attempt before it:  *)
(* what is stored of the operation is not rewritten.                       *)
AtOdds(o) ==
    LET r == Reading[engine]
    IN  \/ version[o].text \notin {NoText, r.text}
        \/ version[o].state = "RECHAZADA" /\ ~Unusable(r)

(* A dispatch that is repeated gets its job, whichever of its steps        *)
(* failed, and whoever else works on the document, unless a change of      *)
(* engine puts its reading at odds with what an attempt had stored.        *)
DispatchSettles == \A o \in Dispatched : <>(o \in jobs \/ AtOdds(o))

(* The calls, however they fail, repeat and overtake each other, look like *)
(* steps of VersionLife: a version gets one text for ever, becomes ready   *)
(* after it, and only a ready one is put in force.                         *)
Life == INSTANCE VersionLife WITH
    stage <- [o \in Ops |-> version[o].state],
    text <- [o \in Ops |-> version[o].text],
    inForce <- active

LivesAsPromised == Life!Spec

(* processing.py:224: a retry after the activation repeats neither the     *)
(* mutation nor its event.                                                 *)
RetryDoesNotRepeat == \A o \in Dispatched : activations[o] <= 1
===========================================================================

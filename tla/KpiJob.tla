------------------------------- MODULE KpiJob -------------------------------
(***************************************************************************)
(* The durable KPI recalculation jobs: KpiIntegrationService               *)
(* (coordination/kpi_integration.py, kpi_repository.py) over               *)
(* KPIRecalculationService.recalculate (analytics/service.py,              *)
(* analytics/repository.py).                                               *)
(*                                                                         *)
(* A caller serves one operation_id: it materialises the job of the        *)
(* operation in one transaction under an advisory lock, together with the  *)
(* data that asks for it, and then executes it with no lock: one run per   *)
(* request, each in a REPEATABLE READ transaction under a table lock.      *)
(*                                                                         *)
(* A cell is the logical key of an observation (code, month, dimensions).  *)
(* Its value is the set of records the calculation saw.  A request covers  *)
(* the cells of one month and carries the cut date (as_of_date) of its     *)
(* transaction; the pair (operation, month) is the identity of its run.    *)
(***************************************************************************)
EXTENDS Naturals, FiniteSets

CONSTANTS
    Callers,            \* threads that serve a call
    Ops,                \* operation_id values
    Kind,               \* what each operation is
    Records,            \* analytic facts: projected entities, final OCR results
    RecordsOf,          \* records each operation brings
    Cells, Months,
    CellsOf,            \* cells each record counts in
    MonthOf,            \* month of each cell
    FirstDay, LastDay,  \* days of each month
    Items, NoItem,      \* quarantine items
    ItemOf,             \* item each reinjection corrects
    Conforming,         \* reinjections whose corrected payload is valid
    Reference,          \* reference day of each scheduled operation
    NoCaller, NoOp,
    StartDay, EndDay,   \* bound: days that go by
    MaxRaises,          \* bound: exceptions
    MaxCrashes          \* bound: processes that die

Kinds == {"TABULAR", "REINJECTION", "OCR", "SCHEDULED"}

ASSUME KpiJobConstants ==
    /\ NoCaller \notin Callers /\ NoOp \notin Ops /\ NoItem \notin Items
    /\ Kind \in [Ops -> Kinds]
    /\ RecordsOf \in [Ops -> SUBSET Records]
    /\ Months \subseteq Nat
    /\ CellsOf \in [Records -> SUBSET Cells]
    /\ MonthOf \in [Cells -> Months]
    /\ FirstDay \in [Months -> Nat \ {0}] /\ LastDay \in [Months -> Nat]
    /\ \A m \in Months : FirstDay[m] <= LastDay[m]
    /\ ItemOf \in [Ops -> Items \cup {NoItem}]
    /\ \A o \in Ops : Kind[o] = "REINJECTION" => ItemOf[o] \in Items
    /\ Conforming \subseteq Ops
    /\ Reference \in [Ops -> Nat]
    /\ StartDay \in Nat \ {0} /\ EndDay \in Nat /\ StartDay <= EndDay
    /\ MaxRaises \in Nat /\ MaxCrashes \in Nat

VARIABLES
    job,            \* app.job_run row of each operation
    run,            \* app.analytic_run row of each operation and month
    origin,         \* operation that incorporated each record, if any
    ocrDay,         \* processed_at of the final OCR of each operation, 0: none
    item,           \* state of each quarantine item
    obs,            \* app.kpi_observation row of each cell
    opLock,         \* transaction that holds the advisory lock of each operation
    runLock,        \* transaction that holds the lock of table analytic_run
    pc, op, day, todo, snapshot,        \* locals of each caller
    today,
    budget,         \* what is left of the two bounds
    spanned         \* history: operations whose data was committed on a later
                    \* day than its cut

locals == <<pc, op, day, todo, snapshot>>
vars == <<job, run, origin, ocrDay, item, obs, opLock, runLock, locals,
          today, budget, spanned>>

-----------------------------------------------------------------------------
(* Values *)

JobState == {"ABSENT", "STARTED", "COMPLETED", "FAILED", "NO_RELEVANT_WORK"}
RunState == {"ABSENT", "COMPLETED", "FAILED"}
ItemState == {"Pendiente", "Reinyectado", "Descartado"}
Request == [month : Months, cells : SUBSET Cells, asOf : Nat]
Job == [state : JobState, requests : SUBSET Request, item : ItemState \cup {"NONE"}]
NoJob == [state |-> "ABSENT", requests |-> {}, item |-> "NONE"]
Observation == [asOf : Nat, records : SUBSET Records]
NoObservation == [asOf |-> 0, records |-> {}]
Budget == [raises : Nat, crashes : Nat]
Where == {"idle", "resuming", "working", "waiting", "holding", "checking",
          "running", "calculating", "recording", "failing"}

Dispatched == {o \in Ops : Kind[o] \in {"TABULAR", "OCR"}}
Incorporated == {r \in Records : origin[r] # NoOp}
CellsOfAll(records) == UNION {CellsOf[r] : r \in records}

(* The month of a request is that of its business date and its cut the day  *)
(* of the transaction, kept inside the month.                               *)
Cut(m, d) ==
    IF d < FirstDay[m] THEN FirstDay[m] ELSE IF d > LastDay[m] THEN LastDay[m] ELSE d

(* Definitions marked "faulty" are slips that a property must notice.       *)
LastMonthOnly(cells, d) ==                              \* faulty: one request per job
    {[month |-> m, cells |-> {c \in cells : MonthOf[c] = m}, asOf |-> Cut(m, d)] :
        m \in {n \in {MonthOf[c] : c \in cells} : \A c \in cells : MonthOf[c] <= n}}
RequestsFor(cells, d) ==
    {[month |-> m, cells |-> {c \in cells : MonthOf[c] = m}, asOf |-> Cut(m, d)] :
        m \in {MonthOf[c] : c \in cells}}

Reinjectable(o) == item[ItemOf[o]] = "Pendiente"

FailedIsFinal(state) == state # "STARTED"               \* faulty: no retry
Final(state) == state \in {"COMPLETED", "NO_RELEVANT_WORK"}

AllRun(w) == todo[w] = {}

NoTableLock == TRUE                                     \* faulty: LOCK TABLE dropped
RunLockFree == runLock = NoCaller

LaterCut(old, new) == new > old                         \* faulty: same day refused
Replaces(old, new) == new >= old

Mistyped == "FAILURE"                                   \* faulty: the result of a run
FailedJob == "FAILED"

(* The requests are executed in order of month: the one that is next.       *)
NextRequests(w) == {r \in todo[w] : \A q \in todo[w] : r.month <= q.month}

-----------------------------------------------------------------------------
Init ==
    /\ job = [o \in Ops |-> NoJob]
    /\ run = [o \in Ops |-> [m \in Months |-> "ABSENT"]]
    /\ origin = [r \in Records |-> NoOp]
    /\ ocrDay = [o \in Ops |-> 0]
    /\ item = [i \in Items |-> "Pendiente"]
    /\ obs = [c \in Cells |-> NoObservation]
    /\ opLock = [o \in Ops |-> NoCaller]
    /\ runLock = NoCaller
    /\ pc = [w \in Callers |-> "idle"]
    /\ op = [w \in Callers |-> NoOp]
    /\ day = [w \in Callers |-> 0]
    /\ todo = [w \in Callers |-> {}]
    /\ snapshot = [w \in Callers |-> {}]
    /\ today = StartDay
    /\ budget = [raises |-> MaxRaises, crashes |-> MaxCrashes]
    /\ spanned = {}

(* The call ends, with an answer or an exception.                           *)
Finish(w) ==
    /\ pc' = [pc EXCEPT ![w] = "idle"]
    /\ op' = [op EXCEPT ![w] = NoOp]
    /\ day' = [day EXCEPT ![w] = 0]
    /\ todo' = [todo EXCEPT ![w] = {}]
    /\ snapshot' = [snapshot EXCEPT ![w] = {}]

(* _execute_if_needed, on the state the materialising transaction returned. *)
Proceed(w, state) ==
    IF Final(state) THEN Finish(w)
    ELSE pc' = [pc EXCEPT ![w] = "checking"] /\ UNCHANGED <<op, day, todo, snapshot>>

Released(w) == [o \in Ops |-> IF opLock[o] = w THEN NoCaller ELSE opLock[o]]
RunReleased(w) == IF runLock = w THEN NoCaller ELSE runLock

-----------------------------------------------------------------------------
(* Materialisation of the job *)

(* A runner asks first whether the job exists; reinject and schedule start  *)
(* their transaction.  A schedule is due when its interval has ended.       *)
Begin(w, o) ==
    /\ pc[w] = "idle"
    /\ Kind[o] = "SCHEDULED" => Reference[o] < today
    /\ op' = [op EXCEPT ![w] = o]
    /\ day' = [day EXCEPT ![w] = today]
    /\ pc' = [pc EXCEPT ![w] = IF o \in Dispatched THEN "resuming" ELSE "waiting"]
    /\ UNCHANGED <<job, run, origin, ocrDay, item, obs, opLock, runLock, todo, snapshot,
                   today, budget, spanned>>

(* resume                                                                   *)
Resume(w) ==
    /\ pc[w] = "resuming"
    /\ opLock[op[w]] = NoCaller
    /\ IF job[op[w]].state = "ABSENT"
       THEN /\ pc' = [pc EXCEPT ![w] = "working"]
            /\ day' = [day EXCEPT ![w] = today]
            /\ UNCHANGED <<op, todo, snapshot>>
       ELSE Proceed(w, job[op[w]].state)
    /\ UNCHANGED <<job, run, origin, ocrDay, item, obs, opLock, runLock, today, budget, spanned>>

(* process_candidate commits the final OCR of the operation, once.          *)
RecordOcr(w) ==
    /\ pc[w] = "working" /\ Kind[op[w]] = "OCR"
    /\ RecordsOf[op[w]] # {} /\ ocrDay[op[w]] = 0
    /\ ocrDay' = [ocrDay EXCEPT ![op[w]] = day[w]]
    /\ origin' = [r \in Records |-> IF r \in RecordsOf[op[w]] THEN op[w] ELSE origin[r]]
    /\ spanned' = IF day[w] < today THEN spanned \cup {op[w]} ELSE spanned
    /\ UNCHANGED <<job, run, item, obs, opLock, runLock, locals, today, budget>>

(* The work of the domain is done: project_records or process_final_ocr     *)
(* opens its transaction.                                                   *)
OpenTransaction(w) ==
    /\ pc[w] = "working"
    /\ Kind[op[w]] = "OCR" => RecordsOf[op[w]] = {} \/ ocrDay[op[w]] # 0
    /\ pc' = [pc EXCEPT ![w] = "waiting"]
    /\ day' = [day EXCEPT ![w] = today]
    /\ UNCHANGED <<job, run, origin, ocrDay, item, obs, opLock, runLock, op, todo, snapshot,
                   today, budget, spanned>>

(* lock_operation                                                           *)
Acquire(w) ==
    /\ pc[w] = "waiting"
    /\ opLock[op[w]] = NoCaller
    /\ opLock' = [opLock EXCEPT ![op[w]] = w]
    /\ pc' = [pc EXCEPT ![w] = "holding"]
    /\ UNCHANGED <<job, run, origin, ocrDay, item, obs, runLock, op, day, todo, snapshot,
                   today, budget, spanned>>

FoundJob(w) ==
    /\ pc[w] = "holding"
    /\ job[op[w]].state # "ABSENT"
    /\ Proceed(w, job[op[w]].state)
    /\ opLock' = Released(w)
    /\ UNCHANGED <<job, run, origin, ocrDay, item, obs, runLock, today, budget, spanned>>

(* Records that the transaction incorporates: projected, and not before.    *)
NewRecords(o) ==
    IF Kind[o] = "TABULAR" \/ (Kind[o] = "REINJECTION" /\ o \in Conforming)
    THEN RecordsOf[o] \ Incorporated ELSE {}

(* What the job of o has to recalculate, if its transaction began on day d. *)
RequestsOf(o, d) ==
    CASE Kind[o] = "OCR" ->
            IF ocrDay[o] = 0 THEN {} ELSE RequestsFor(CellsOfAll(RecordsOf[o]), ocrDay[o])
      [] Kind[o] = "SCHEDULED" ->
            RequestsFor({c \in Cells : Reference[o] \in FirstDay[MonthOf[c]]..LastDay[MonthOf[c]]},
                        Reference[o])
      [] OTHER -> RequestsFor(CellsOfAll(NewRecords(o)), d)

NewJob(o, d) ==
    [state |-> IF RequestsOf(o, d) = {} THEN "NO_RELEVANT_WORK" ELSE "STARTED",
     requests |-> RequestsOf(o, d),
     item |-> IF Kind[o] # "REINJECTION" THEN "NONE"
              ELSE IF o \in Conforming THEN "Reinyectado" ELSE "Pendiente"]

(* project_records, reinject, process_final_ocr, schedule: the data and the *)
(* job that asks for its recalculation in one commit.                       *)
CreateJob(w) ==
    LET o == op[w] IN
    /\ pc[w] = "holding"
    /\ job[o].state = "ABSENT"
    /\ Kind[o] = "REINJECTION" => Reinjectable(o)
    /\ job' = [job EXCEPT ![o] = NewJob(o, day[w])]
    /\ origin' = [r \in Records |-> IF r \in NewRecords(o) THEN o ELSE origin[r]]
    /\ item' = IF Kind[o] = "REINJECTION" /\ o \in Conforming
               THEN [item EXCEPT ![ItemOf[o]] = "Reinyectado"] ELSE item
    /\ spanned' = IF NewRecords(o) # {} /\ day[w] < today THEN spanned \cup {o} ELSE spanned
    /\ Proceed(w, NewJob(o, day[w]).state)
    /\ opLock' = Released(w)
    /\ UNCHANGED <<run, ocrDay, obs, runLock, today, budget>>

(* The item is no longer Pendiente: quarantine.reinject raises.             *)
RefuseReinjection(w) ==
    /\ pc[w] = "holding"
    /\ job[op[w]].state = "ABSENT"
    /\ Kind[op[w]] = "REINJECTION" /\ ~Reinjectable(op[w])
    /\ Finish(w)
    /\ opLock' = Released(w)
    /\ UNCHANGED <<job, run, origin, ocrDay, item, obs, runLock, today, budget, spanned>>

(* The domain or the projection raises: the transaction is rolled back.     *)
Raise(w) ==
    /\ pc[w] \in {"working", "holding"}
    /\ budget.raises > 0
    /\ budget' = [budget EXCEPT !.raises = @ - 1]
    /\ Finish(w)
    /\ opLock' = Released(w)
    /\ UNCHANGED <<job, run, origin, ocrDay, item, obs, runLock, today, spanned>>

-----------------------------------------------------------------------------
(* Execution of the job *)

Check(w) ==
    /\ pc[w] = "checking"
    /\ opLock[op[w]] = NoCaller
    /\ IF Final(job[op[w]].state) THEN Finish(w)
       ELSE /\ pc' = [pc EXCEPT ![w] = "running"]
            /\ todo' = [todo EXCEPT ![w] = job[op[w]].requests]
            /\ UNCHANGED <<op, day, snapshot>>
    /\ UNCHANGED <<job, run, origin, ocrDay, item, obs, opLock, runLock, today, budget, spanned>>

(* recalculate: LOCK TABLE, and the first SELECT takes the snapshot.        *)
StartRun(w) ==
    /\ pc[w] = "running" /\ ~AllRun(w)
    /\ RunLockFree
    /\ runLock' = w
    /\ snapshot' = [snapshot EXCEPT ![w] = Incorporated]
    /\ pc' = [pc EXCEPT ![w] = "calculating"]
    /\ UNCHANGED <<job, run, origin, ocrDay, item, obs, opLock, op, day, todo,
                   today, budget, spanned>>

(* upsert_observation of every cell of the request.                         *)
Recalculated(w, r) ==
    [c \in Cells |->
        IF c \in r.cells /\ Replaces(obs[c].asOf, r.asOf)
        THEN [asOf |-> r.asOf, records |-> {x \in snapshot[w] : c \in CellsOf[x]}]
        ELSE obs[c]]

(* A run that is COMPLETED is returned; any other is calculated and closed. *)
FinishRun(w) ==
    /\ pc[w] = "calculating"
    /\ \E r \in NextRequests(w) :
          /\ IF run[op[w]][r.month] = "COMPLETED" THEN UNCHANGED <<run, obs>>
             ELSE /\ run' = [run EXCEPT ![op[w]][r.month] = "COMPLETED"]
                  /\ obs' = Recalculated(w, r)
          /\ todo' = [todo EXCEPT ![w] = @ \ {r}]
    /\ runLock' = RunReleased(w)
    /\ snapshot' = [snapshot EXCEPT ![w] = {}]
    /\ pc' = [pc EXCEPT ![w] = "running"]
    /\ UNCHANGED <<job, origin, ocrDay, item, opLock, op, day, today, budget, spanned>>

RunRaises(w) ==
    /\ pc[w] = "calculating" \/ (pc[w] = "running" /\ ~AllRun(w))
    /\ budget.raises > 0
    /\ budget' = [budget EXCEPT !.raises = @ - 1]
    /\ runLock' = RunReleased(w)
    /\ snapshot' = [snapshot EXCEPT ![w] = {}]
    /\ pc' = [pc EXCEPT ![w] = "recording"]
    /\ UNCHANGED <<job, run, origin, ocrDay, item, obs, opLock, op, day, todo, today, spanned>>

(* _record_failure, in a transaction of its own...                          *)
RecordFailure(w) ==
    /\ pc[w] = "recording"
    /\ RunLockFree
    /\ \E r \in NextRequests(w) :
          run' = IF run[op[w]][r.month] = "COMPLETED" THEN run
                 ELSE [run EXCEPT ![op[w]][r.month] = "FAILED"]
    /\ pc' = [pc EXCEPT ![w] = "failing"]
    /\ UNCHANGED <<job, origin, ocrDay, item, obs, opLock, runLock, op, day, todo, snapshot,
                   today, budget, spanned>>

(* ...whose own failure is swallowed.                                       *)
LoseFailure(w) ==
    /\ pc[w] = "recording"
    /\ pc' = [pc EXCEPT ![w] = "failing"]
    /\ UNCHANGED <<job, run, origin, ocrDay, item, obs, opLock, runLock, op, day, todo, snapshot,
                   today, budget, spanned>>

(* The handler writes FAILED whatever the job has become meanwhile.         *)
FailJob(w) ==
    /\ pc[w] = "failing"
    /\ opLock[op[w]] = NoCaller
    /\ job' = [job EXCEPT ![op[w]].state = FailedJob]
    /\ Finish(w)
    /\ UNCHANGED <<run, origin, ocrDay, item, obs, opLock, runLock, today, budget, spanned>>

CompleteJob(w) ==
    /\ pc[w] = "running" /\ AllRun(w)
    /\ opLock[op[w]] = NoCaller
    /\ job' = [job EXCEPT ![op[w]].state = "COMPLETED"]
    /\ Finish(w)
    /\ UNCHANGED <<run, origin, ocrDay, item, obs, opLock, runLock, today, budget, spanned>>

-----------------------------------------------------------------------------
(* Environment *)

Crash(w) ==
    /\ pc[w] # "idle"
    /\ budget.crashes > 0
    /\ budget' = [budget EXCEPT !.crashes = @ - 1]
    /\ Finish(w)
    /\ opLock' = Released(w)
    /\ runLock' = RunReleased(w)
    /\ UNCHANGED <<job, run, origin, ocrDay, item, obs, today, spanned>>

(* ValidationService.discard of an item nobody has locked.                  *)
Discard(i) ==
    /\ item[i] = "Pendiente"
    /\ item' = [item EXCEPT ![i] = "Descartado"]
    /\ UNCHANGED <<job, run, origin, ocrDay, obs, opLock, runLock, locals, today, budget, spanned>>

NextDay ==
    /\ today < EndDay
    /\ today' = today + 1
    /\ UNCHANGED <<job, run, origin, ocrDay, item, obs, opLock, runLock, locals, budget, spanned>>

-----------------------------------------------------------------------------
Locking(w) ==
    \/ Resume(w) \/ Acquire(w) \/ Check(w) \/ StartRun(w) \/ RecordFailure(w)
    \/ FailJob(w) \/ CompleteJob(w)

Working(w) ==
    \/ RecordOcr(w) \/ OpenTransaction(w) \/ FoundJob(w) \/ CreateJob(w)
    \/ RefuseReinjection(w) \/ FinishRun(w)

Next ==
    \/ \E w \in Callers :
          \/ \E o \in Ops : Begin(w, o)
          \/ Locking(w) \/ Working(w)
          \/ Raise(w) \/ RunRaises(w) \/ LoseFailure(w) \/ Crash(w)
    \/ \E i \in Items : Discard(i)
    \/ NextDay

Spec == Init /\ [][Next]_vars

(***************************************************************************)
(* Fairness.  A live thread runs on (WF); PostgreSQL queues the requests   *)
(* for a lock in order of arrival, so that one that is free again and      *)
(* again is granted (SF).  A dispatch that has not been answered COMPLETED *)
(* is posted again by the daily DAG, and its runner begins by resume (SF,  *)
(* as a thread must be free).  Exceptions, crashes, discards, days and the *)
(* other triggers are not fair.                                            *)
(***************************************************************************)
Fairness ==
    /\ \A w \in Callers : WF_vars(Working(w)) /\ SF_vars(Locking(w))
    /\ \A o \in Dispatched : SF_vars(\E w \in Callers : Begin(w, o))

FairSpec == Spec /\ Fairness

-----------------------------------------------------------------------------
(* Properties *)

TypeOK ==
    /\ job \in [Ops -> Job]
    /\ run \in [Ops -> [Months -> RunState]]
    /\ origin \in [Records -> Ops \cup {NoOp}]
    /\ ocrDay \in [Ops -> Nat]
    /\ item \in [Items -> ItemState]
    /\ obs \in [Cells -> Observation]
    /\ opLock \in [Ops -> Callers \cup {NoCaller}]
    /\ runLock \in Callers \cup {NoCaller}
    /\ pc \in [Callers -> Where]
    /\ op \in [Callers -> Ops \cup {NoOp}]
    /\ day \in [Callers -> Nat]
    /\ todo \in [Callers -> SUBSET Request]
    /\ snapshot \in [Callers -> SUBSET Records]
    /\ today \in Nat
    /\ budget \in Budget
    /\ spanned \in SUBSET Ops

RequestedCells(o) == UNION {r.cells : r \in job[o].requests}

(* A projected record was incorporated once, and in every state in which   *)
(* it is there the job of its operation asks for all the cells it counts   *)
(* in: no crash, retry or second caller separates the data from the work.  *)
DataComesWithItsJob ==
    \A r \in Records : origin[r] # NoOp =>
        \/ Kind[origin[r]] = "OCR" /\ ocrDay[origin[r]] # 0
              /\ job[origin[r]].state = "ABSENT"
        \/ CellsOf[r] \subseteq RequestedCells(origin[r])

(* COMPLETED means that every request of the job has its run COMPLETED,    *)
(* with any number of callers executing, failing and retrying the job.     *)
CompletedJobHasItsRuns ==
    \A o \in Ops : job[o].state = "COMPLETED" =>
        \A r \in job[o].requests : run[o][r.month] = "COMPLETED"

(* Data, the job that asks for its recalculation and the runs that make it *)
(* never come apart.                                                       *)
JobsAreBacked == DataComesWithItsJob /\ CompletedJobHasItsRuns

(* Of all the corrections sent for an item only one is ever reinjected,    *)
(* and the item says so for good.                                          *)
ItemIsReinjectedOnce ==
    \A o \in Ops : job[o].item = "Reinyectado" =>
        /\ item[ItemOf[o]] = "Reinyectado"
        /\ \A p \in Ops \ {o} : ItemOf[p] = ItemOf[o] => job[p].item # "Reinyectado"

(* An observation never forgets a record it counted and its cut never goes *)
(* back, whatever the order in which the runs commit.                      *)
ObservationsGrow ==
    \A c \in Cells :
        /\ obs[c].records \subseteq obs'[c].records
        /\ obs[c].asOf <= obs'[c].asOf

ObservationsOnlyGrow == [][ObservationsGrow]_vars

Reflected(o) ==
    \A r \in Records : origin[r] = o => \A c \in CellsOf[r] : r \in obs[c].records

(* The observations count every record of a COMPLETED job, even if its run *)
(* lost to one of a later cut, unless its data was committed on a later    *)
(* day than its cut.                                                       *)
ReflectedOnItsDay ==
    \A o \in Ops \ spanned : job[o].state = "COMPLETED" => Reflected(o)

(* kpi_integration.py:270-271: the cut stands for the durable incorporation*)
(* of the data, so that a late one is not refused as an old calculation.   *)
CompletedJobIsReflected ==
    \A o \in Ops : job[o].state = "COMPLETED" => Reflected(o)

(* Every operation that is dispatched until it is answered settles, after  *)
(* any crash, exception or failed run.                                     *)
JobsSettle == \A o \in Dispatched : <>(job[o].state \in {"COMPLETED", "NO_RELEVANT_WORK"})
=============================================================================

---------------------------- MODULE ProactiveJob ----------------------------
(***************************************************************************)
(* The scheduled proactive analysis: ProactiveIntegrationService            *)
(* (coordination/proactive_integration.py, proactive_repository.py) over    *)
(* ProactiveAnalysisService (analytics/service.py, analytics/repository.py) *)
(* and the constraints and triggers of migration 0013.                      *)
(*                                                                         *)
(* A call schedules one operation_id (one interval of the DAG).  It makes   *)
(* its job, and runs it under an advisory lock that a connection of its own *)
(* holds.  The core works in REPEATABLE READ transactions: one freezes the  *)
(* observations in a run, another evaluates the frozen rows.  A row that    *)
(* somebody changed after the snapshot of a transaction, or added unseen,   *)
(* ends it with a serialization failure; the core tries three times.        *)
(*                                                                         *)
(* A cell is the month of one series.  A recalculation gives its            *)
(* observation another revision and, unless a frozen row is bound to the    *)
(* pair (observation, run), another run.  The fingerprint of the input      *)
(* stands for the rows it hashes.                                           *)
(***************************************************************************)
EXTENDS Naturals, FiniteSets

CONSTANTS
    Workers, NoWorker,  \* threads that serve a call
    Ops, NoOp,          \* operation_id values
    Cells,              \* months of the series
    Depth,              \* months of the closure, counted from the last
    MaxRevisions,       \* bound: recalculations of a cell
    MaxRaises,          \* bound: exceptions
    MaxLosses           \* bound: processes that die, locks that are lost

Attempts == 3

ASSUME ProactiveConstants ==
    /\ NoWorker \notin Workers /\ NoOp \notin Ops
    /\ Cells \subseteq Nat /\ Depth \in Nat \ {0}
    /\ MaxRevisions \in Nat /\ MaxRaises \in Nat /\ MaxLosses \in Nat

VARIABLES
    obs,            \* app.kpi_observation row of each cell
    job,            \* app.job_run row of each operation
    runs,           \* app.analytic_run rows of each job, with their frozen rows
    latest,         \* fingerprint of the last completed run
    execLock,       \* connection that holds the advisory lock of an operation
    jobLock,        \* transaction that holds the row of a job
    runLock,        \* transaction that holds the row of a run
    pc, op, view, changed, tries, target, result,       \* locals of each worker
    events,         \* audit events SUCCESS and NO_RELEVANT_WORK of each operation
    budget,         \* what is left of the bounds
    lost            \* history: operations whose advisory lock was lost

locals == <<pc, op, view, changed, tries, target, result>>
durable == <<obs, job, runs, latest, events>>
vars == <<durable, execLock, jobLock, runLock, locals, budget, lost>>

-----------------------------------------------------------------------------
(* Values *)

Row == [cell : Cells, run : Nat, revision : Nat]
NoRows == {}
JobState == {"ABSENT", "STARTED", "COMPLETED", "FAILED", "NO_RELEVANT_WORK"}
RunState == {"STARTED", "COMPLETED", "FAILED"}
Run == [print : SUBSET Row, frozen : SUBSET Row, state : RunState, findings : SUBSET Row]
View == [rows : SUBSET Row, runs : SUBSET Run, latest : SUBSET Row]
NoView == [rows |-> NoRows, runs |-> {}, latest |-> NoRows]
Where == {"idle", "queued", "entering", "freezing", "reading", "creating", "finalizing",
          "locking", "evaluating", "recording", "reconciling", "closing"}
Terminal == {"COMPLETED", "NO_RELEVANT_WORK"}

(* eligible_proactive_observations                                          *)
Eligible == {[cell |-> c, run |-> obs[c].run, revision |-> obs[c].revision] :
                 c \in {d \in Cells : obs[d].revision > 0}}

(* select_snapshot_closure: the last month of the series and those before.  *)
Closure(rows) == {r \in rows : \A q \in rows : q.cell < r.cell + Depth}

Frozen == UNION {r.frozen : r \in UNION {runs[o] : o \in Ops}}
FrozenOf(o) == UNION {r.frozen : r \in runs[o]}

(* Definitions marked "faulty" are slips that a property must notice.       *)
AlwaysRebinds(c) == obs[c].revision + 1                 \* faulty: CASE dropped
BoundTo(c) ==
    IF \E r \in Frozen : r.cell = c /\ r.run = obs[c].run
    THEN obs[c].run ELSE obs[c].revision + 1

(* ON CONFLICT in REPEATABLE READ: a row that the snapshot does not show.   *)
UnseenRun(w) ==
    \/ \E r \in runs[op[w]] \ view[w].runs : r.print = view[w].rows
    \/ \E r \in FrozenOf(op[w]), q \in Closure(view[w].rows) : r.cell = q.cell

(* The pair (observation, run) that a frozen row refers to has to exist.    *)
KeyChanged(w) == \E r \in Closure(view[w].rows) : obs[r.cell].run # r.run

MayFail(r) == r.state # "COMPLETED"

TriggerDropped(o) == TRUE                               \* faulty: no trigger on job_run
MayBeIdle(o) == runs[o] = {}

NothingDone(state) == FALSE                             \* faulty: finished jobs run again
Finished(state) == state \in Terminal

Mistyped == "FAILURE"                                   \* faulty: the result of a run
FailedRun == "FAILED"

-----------------------------------------------------------------------------
Init ==
    /\ obs = [c \in Cells |-> [run |-> 0, revision |-> 0]]
    /\ job = [o \in Ops |-> [state |-> "ABSENT", print |-> NoRows]]
    /\ runs = [o \in Ops |-> {}]
    /\ latest = NoRows
    /\ execLock = [o \in Ops |-> NoWorker]
    /\ jobLock = [o \in Ops |-> NoWorker]
    /\ runLock = [o \in Ops |-> NoWorker]
    /\ pc = [w \in Workers |-> "idle"]
    /\ op = [w \in Workers |-> NoOp]
    /\ view = [w \in Workers |-> NoView]
    /\ changed = [w \in Workers |-> {}]
    /\ tries = [w \in Workers |-> 0]
    /\ target = [w \in Workers |-> NoRows]
    /\ result = [w \in Workers |-> "NONE"]
    /\ events = [o \in Ops |-> [success |-> 0, idle |-> 0]]
    /\ budget = [raises |-> MaxRaises, losses |-> MaxLosses]
    /\ lost = {}

Freed(lock, w) == [o \in Ops |-> IF lock[o] = w THEN NoWorker ELSE lock[o]]

(* The transaction of w ends.                                               *)
EndTransaction(w) ==
    /\ jobLock' = Freed(jobLock, w)
    /\ runLock' = Freed(runLock, w)

GoTo(w, where) == pc' = [pc EXCEPT ![w] = where]

(* What w writes makes the snapshots of the other transactions old.         *)
Touched(w, rows) ==
    [v \in Workers |-> IF v # w /\ op[v] = op[w] /\ pc[v] \in {"reading", "locking"}
                       THEN changed[v] \cup rows ELSE changed[v]]

SetJob(w, state, print) ==
    job' = [job EXCEPT ![op[w]] = [state |-> state, print |-> print]]

(* The call ends, with an answer or an exception, having written the rows.  *)
Finish(w, rows) ==
    /\ GoTo(w, "idle")
    /\ op' = [op EXCEPT ![w] = NoOp]
    /\ view' = [view EXCEPT ![w] = NoView]
    /\ changed' = [Touched(w, rows) EXCEPT ![w] = {}]
    /\ tries' = [tries EXCEPT ![w] = 0]
    /\ target' = [target EXCEPT ![w] = NoRows]
    /\ result' = [result EXCEPT ![w] = "NONE"]
    /\ execLock' = Freed(execLock, w)
    /\ EndTransaction(w)

-----------------------------------------------------------------------------
(* ProactiveIntegrationService *)

(* schedule: the job, once; its lock is the one an execution holds.         *)
Schedule(w, o) ==
    /\ pc[w] = "idle"
    /\ execLock[o] = NoWorker
    /\ job' = IF job[o].state = "ABSENT"
              THEN [job EXCEPT ![o] = [state |-> "STARTED", print |-> NoRows]] ELSE job
    /\ op' = [op EXCEPT ![w] = o]
    /\ GoTo(w, "queued")
    /\ UNCHANGED <<obs, runs, latest, events, execLock, jobLock, runLock,
                   view, changed, tries, target, result, budget, lost>>

(* execution_lock                                                           *)
Enter(w) ==
    /\ pc[w] = "queued"
    /\ execLock[op[w]] = NoWorker
    /\ execLock' = [execLock EXCEPT ![op[w]] = w]
    /\ GoTo(w, "entering")
    /\ UNCHANGED <<durable, jobLock, runLock, op, view, changed, tries, target, result, budget, lost>>

(* _execute_locked up to the core: a finished job is answered.              *)
Open(w) ==
    /\ pc[w] = "entering"
    /\ jobLock[op[w]] = NoWorker
    /\ IF Finished(job[op[w]].state)
       THEN Finish(w, {}) /\ UNCHANGED job
       ELSE /\ GoTo(w, "freezing")
            /\ IF job[op[w]].state = "FAILED"
               THEN SetJob(w, "STARTED", job[op[w]].print) /\ changed' = Touched(w, {"job"})
               ELSE UNCHANGED <<job, changed>>
            /\ UNCHANGED <<execLock, jobLock, runLock, op, view, tries, target, result>>
    /\ UNCHANGED <<obs, runs, latest, events, budget, lost>>

(* _finalize_result                                                         *)
Close(w) ==
    LET o == op[w] IN
    /\ pc[w] = "closing"
    /\ jobLock[o] = NoWorker
    /\ \/ /\ Finished(job[o].state) \/ (result[w] = "NO_RELEVANT_WORK" /\ ~MayBeIdle(o))
          /\ UNCHANGED <<job, events>>
          /\ Finish(w, {})
       \/ /\ ~Finished(job[o].state) /\ result[w] = "COMPLETED"
          /\ SetJob(w, "COMPLETED", target[w])
          /\ Finish(w, {"job"})
          /\ UNCHANGED events
       \/ /\ ~Finished(job[o].state) /\ result[w] = "NO_RELEVANT_WORK" /\ MayBeIdle(o)
          /\ SetJob(w, "NO_RELEVANT_WORK", target[w])
          /\ events' = [events EXCEPT ![o].idle = @ + 1]
          /\ Finish(w, {"job"})
    /\ UNCHANGED <<obs, runs, latest, budget, lost>>

(* _reconcile_failure: the job follows the run that its rows are bound to.  *)
Reconcile(w) ==
    LET o == op[w] IN
    /\ pc[w] = "reconciling"
    /\ jobLock[o] = NoWorker
    /\ \/ /\ runs[o] = {}
          /\ SetJob(w, "FAILED", job[o].print) /\ Finish(w, {"job"})
       \/ \E r \in runs[o] :
             /\ runs[o] = {r} /\ r.state = "COMPLETED"
             /\ SetJob(w, "COMPLETED", r.print) /\ Finish(w, {"job"})
       \/ \E r \in runs[o] :
             /\ runs[o] = {r} /\ r.state = "FAILED"
             /\ SetJob(w, "FAILED", job[o].print) /\ Finish(w, {"job"})
       \/ /\ \E r \in runs[o] : r.state = "STARTED" \/ runs[o] # {r}
          /\ Finish(w, {}) /\ UNCHANGED job
    /\ UNCHANGED <<obs, runs, latest, events, budget, lost>>

(* The transaction of a handler fails: the call answers nothing.            *)
HandlerRaises(w) ==
    /\ pc[w] \in {"closing", "reconciling"}
    /\ budget.raises > 0
    /\ budget' = [budget EXCEPT !.raises = @ - 1]
    /\ Finish(w, {})
    /\ UNCHANGED <<durable, lost>>

-----------------------------------------------------------------------------
(* ProactiveAnalysisService *)

(* _freeze: the first statement takes the snapshot...                       *)
Freeze(w) ==
    /\ pc[w] = "freezing"
    /\ view' = [view EXCEPT ![w] = [rows |-> Eligible, runs |-> runs[op[w]], latest |-> latest]]
    /\ changed' = [changed EXCEPT ![w] = {}]
    /\ GoTo(w, "reading")
    /\ UNCHANGED <<durable, execLock, jobLock, runLock, op, tries, target, result, budget, lost>>

(* ...and waits for the row of the job, and of its run if it shows one.     *)
Readable(w) ==
    /\ pc[w] = "reading"
    /\ jobLock[op[w]] = NoWorker
    /\ view[w].runs = {} \/ runLock[op[w]] = NoWorker

Current(w) == "job" \notin changed[w] /\ (view[w].runs = {} \/ "run" \notin changed[w])

(* The run of the job: its frozen input is evaluated, or was.               *)
FindRun(w) ==
    /\ Readable(w) /\ Current(w)
    /\ \E r \in view[w].runs :
          /\ target' = [target EXCEPT ![w] = r.print]
          /\ IF r.state = "COMPLETED"
             THEN GoTo(w, "closing") /\ result' = [result EXCEPT ![w] = "COMPLETED"]
             ELSE GoTo(w, "finalizing") /\ UNCHANGED result
    /\ view' = [view EXCEPT ![w] = NoView]
    /\ UNCHANGED <<durable, execLock, jobLock, runLock, op, changed, tries, budget, lost>>

NothingNew(w) == view[w].rows \in {NoRows, view[w].latest}

FindNothingNew(w) ==
    /\ Readable(w) /\ Current(w)
    /\ view[w].runs = {} /\ NothingNew(w)
    /\ target' = [target EXCEPT ![w] = view[w].rows]
    /\ result' = [result EXCEPT ![w] = "NO_RELEVANT_WORK"]
    /\ GoTo(w, "closing")
    /\ view' = [view EXCEPT ![w] = NoView]
    /\ UNCHANGED <<durable, execLock, jobLock, runLock, op, changed, tries, budget, lost>>

FindWork(w) ==
    /\ Readable(w) /\ Current(w)
    /\ view[w].runs = {} /\ ~NothingNew(w)
    /\ jobLock' = [jobLock EXCEPT ![op[w]] = w]
    /\ GoTo(w, "creating")
    /\ UNCHANGED <<durable, execLock, runLock, op, view, changed, tries, target, result,
                   budget, lost>>

(* acquire_run_lock, create_proactive_run, persist_proactive_snapshot.      *)
CreateRun(w) ==
    /\ pc[w] = "creating"
    /\ ~UnseenRun(w) /\ ~KeyChanged(w)
    /\ job[op[w]].state # "NO_RELEVANT_WORK"
    /\ runs' = [runs EXCEPT ![op[w]] = @ \cup
                   {[print |-> view[w].rows, frozen |-> Closure(view[w].rows),
                     state |-> "STARTED", findings |-> NoRows]}]
    /\ target' = [target EXCEPT ![w] = view[w].rows]
    /\ view' = [view EXCEPT ![w] = NoView]
    /\ GoTo(w, "finalizing")
    /\ EndTransaction(w)
    /\ UNCHANGED <<obs, job, latest, events, execLock, op, changed, tries, result, budget, lost>>

(* _finalize takes its snapshot...                                          *)
Finalize(w) ==
    /\ pc[w] = "finalizing"
    /\ changed' = [changed EXCEPT ![w] = {}]
    /\ GoTo(w, "locking")
    /\ UNCHANGED <<durable, execLock, jobLock, runLock, op, view, tries, target, result,
                   budget, lost>>

(* ...and waits for the row of the run.                                     *)
LockRun(w) ==
    /\ pc[w] = "locking"
    /\ runLock[op[w]] = NoWorker
    /\ "run" \notin changed[w]
    /\ \E r \in runs[op[w]] :
          \/ /\ r.print # target[w]
             /\ GoTo(w, "recording") /\ UNCHANGED <<runLock, result>>
          \/ /\ r.print = target[w] /\ r.state = "COMPLETED"
             /\ GoTo(w, "closing") /\ result' = [result EXCEPT ![w] = "COMPLETED"]
             /\ UNCHANGED runLock
          \/ /\ r.print = target[w] /\ r.state # "COMPLETED"
             /\ GoTo(w, "evaluating") /\ runLock' = [runLock EXCEPT ![op[w]] = w]
             /\ UNCHANGED result
    /\ UNCHANGED <<durable, execLock, jobLock, op, view, changed, tries, target, budget, lost>>

(* Evaluations, findings, the event and the state of the run in one commit. *)
CompleteRun(w) ==
    LET o == op[w] IN
    /\ pc[w] = "evaluating"
    /\ \E r \in runs[o] :
          /\ r.print = target[w]
          /\ runs' = [runs EXCEPT ![o] = (@ \ {r}) \cup
                         {[r EXCEPT !.state = "COMPLETED", !.findings = r.frozen]}]
    /\ latest' \in IF "latest" \in changed[w] THEN {target[w], latest} ELSE {target[w]}
    /\ events' = [events EXCEPT ![o].success = @ + 1]
    /\ changed' = [v \in Workers |->
                      IF pc[v] \in {"locking", "evaluating"} /\ v # w
                      THEN Touched(w, {"run"})[v] \cup {"latest"} ELSE Touched(w, {"run"})[v]]
    /\ result' = [result EXCEPT ![w] = "COMPLETED"]
    /\ GoTo(w, "closing")
    /\ EndTransaction(w)
    /\ UNCHANGED <<obs, job, execLock, op, view, tries, target, budget, lost>>

(* A serialization failure: another attempt, or the call fails.             *)
Serialization(w) ==
    /\ \/ Readable(w) /\ ~Current(w)
       \/ pc[w] = "creating" /\ (UnseenRun(w) \/ KeyChanged(w))
       \/ pc[w] = "locking" /\ runLock[op[w]] = NoWorker /\ "run" \in changed[w]
    /\ tries' = [tries EXCEPT ![w] = @ + 1]
    /\ GoTo(w, IF tries[w] + 1 < Attempts THEN "freezing" ELSE "reconciling")
    /\ view' = [view EXCEPT ![w] = NoView]
    /\ target' = [target EXCEPT ![w] = NoRows]
    /\ EndTransaction(w)
    /\ UNCHANGED <<durable, execLock, op, changed, result, budget, lost>>

(* An exception before the run is durable: nothing is recorded.             *)
FreezeRaises(w) ==
    /\ \/ /\ pc[w] \in {"reading", "creating"} /\ budget.raises > 0
          /\ budget' = [budget EXCEPT !.raises = @ - 1]
       \/ /\ pc[w] = "creating" /\ job[op[w]].state = "NO_RELEVANT_WORK"
          /\ UNCHANGED budget
    /\ view' = [view EXCEPT ![w] = NoView]
    /\ GoTo(w, "reconciling")
    /\ EndTransaction(w)
    /\ UNCHANGED <<durable, execLock, op, changed, tries, target, result, lost>>

FinalizeRaises(w) ==
    /\ pc[w] \in {"locking", "evaluating"}
    /\ budget.raises > 0
    /\ budget' = [budget EXCEPT !.raises = @ - 1]
    /\ GoTo(w, "recording")
    /\ EndTransaction(w)
    /\ UNCHANGED <<durable, execLock, op, view, changed, tries, target, result, lost>>

(* _record_proactive_failure, in a transaction of its own...                *)
RecordFailure(w) ==
    LET o == op[w] IN
    /\ pc[w] = "recording"
    /\ runLock[o] = NoWorker
    /\ \E r \in runs[o] :
          IF r.print = target[w] /\ MayFail(r)
          THEN /\ runs' = [runs EXCEPT ![o] = (@ \ {r}) \cup {[r EXCEPT !.state = FailedRun]}]
               /\ changed' = Touched(w, {"run"})
          ELSE UNCHANGED <<runs, changed>>
    /\ GoTo(w, "reconciling")
    /\ UNCHANGED <<obs, job, latest, events, execLock, jobLock, runLock, op, view, tries,
                   target, result, budget, lost>>

(* ...whose own failure is swallowed: a row that changed while it waited.   *)
LoseFailure(w) ==
    /\ pc[w] = "recording"
    /\ \/ runLock[op[w]] # NoWorker /\ UNCHANGED budget
       \/ budget.raises > 0 /\ budget' = [budget EXCEPT !.raises = @ - 1]
    /\ GoTo(w, "reconciling")
    /\ UNCHANGED <<durable, execLock, jobLock, runLock, op, view, changed, tries, target,
                   result, lost>>

-----------------------------------------------------------------------------
(* Environment *)

(* KpiRecalculationService commits another value of a cell: it holds the    *)
(* lock of table analytic_run from before its snapshot.                     *)
Recalculate(c) ==
    /\ obs[c].revision < MaxRevisions
    /\ obs' = [obs EXCEPT ![c] = [run |-> BoundTo(c), revision |-> @.revision + 1]]
    /\ UNCHANGED <<job, runs, latest, events, execLock, jobLock, runLock, locals, budget, lost>>

Crash(w) ==
    /\ pc[w] # "idle"
    /\ budget.losses > 0
    /\ budget' = [budget EXCEPT !.losses = @ - 1]
    /\ Finish(w, {})
    /\ UNCHANGED <<durable, lost>>

(* The connection that holds the lock ends, the thread goes on.             *)
LoseLock(w) ==
    /\ pc[w] \notin {"idle", "queued"} /\ execLock[op[w]] = w
    /\ budget.losses > 0
    /\ budget' = [budget EXCEPT !.losses = @ - 1]
    /\ execLock' = Freed(execLock, w)
    /\ lost' = lost \cup {op[w]}
    /\ UNCHANGED <<durable, jobLock, runLock, locals>>

-----------------------------------------------------------------------------
Integration(w) == Enter(w) \/ Open(w) \/ Close(w) \/ Reconcile(w)
Core(w) ==
    \/ Freeze(w) \/ FindRun(w) \/ FindNothingNew(w) \/ FindWork(w) \/ CreateRun(w)
    \/ Finalize(w) \/ LockRun(w) \/ CompleteRun(w) \/ Serialization(w) \/ RecordFailure(w)
Faults(w) ==
    \/ HandlerRaises(w) \/ FreezeRaises(w) \/ FinalizeRaises(w) \/ LoseFailure(w)
    \/ Crash(w) \/ LoseLock(w)

Next ==
    \/ \E w \in Workers :
          \/ \E o \in Ops : Schedule(w, o)
          \/ Integration(w) \/ Core(w) \/ Faults(w)
    \/ \E c \in Cells : Recalculate(c)

Spec == Init /\ [][Next]_vars

-----------------------------------------------------------------------------
TypeOK ==
    /\ obs \in [Cells -> [run : Nat, revision : Nat]]
    /\ job \in [Ops -> [state : JobState, print : SUBSET Row]]
    /\ runs \in [Ops -> SUBSET Run] /\ latest \in SUBSET Row
    /\ execLock \in [Ops -> Workers \cup {NoWorker}]
    /\ jobLock \in [Ops -> Workers \cup {NoWorker}]
    /\ runLock \in [Ops -> Workers \cup {NoWorker}]
    /\ pc \in [Workers -> Where] /\ op \in [Workers -> Ops \cup {NoOp}]
    /\ view \in [Workers -> View] /\ changed \in [Workers -> SUBSET {"job", "run", "latest"}]
    /\ tries \in [Workers -> 0..Attempts] /\ target \in [Workers -> SUBSET Row]
    /\ result \in [Workers -> {"NONE"} \cup Terminal]
    /\ events \in [Ops -> [success : Nat, idle : Nat]]
    /\ budget \in [raises : Nat, losses : Nat] /\ lost \in SUBSET Ops

(* The job of an interval analyses one input: whoever executes it, with or  *)
(* without the advisory lock, its rows are bound to one run, as             *)
(* linked_core_run demands.                                                 *)
OneRunPerJob == \A o \in Ops : Cardinality(runs[o]) <= 1

(* A recalculation never takes the pair (observation, run) from under a     *)
(* frozen row: the foreign key of 0013 never refuses an upsert.             *)
FrozenStaysBound == \A r \in Frozen : obs[r.cell].run = r.run

(* Every job has one run and every run the input it froze.                  *)
RunsOwnTheirInput == OneRunPerJob /\ FrozenStaysBound

(* A finished job says what the core did: COMPLETED carries the fingerprint *)
(* of a run that was completed and audited once, NO_RELEVANT_WORK owns no   *)
(* frozen row.                                                              *)
JobTellsItsRun ==
    \A o \in Ops :
        /\ job[o].state = "COMPLETED" =>
              /\ events[o].success = 1
              /\ \E r \in runs[o] : r.state = "COMPLETED" /\ r.print = job[o].print
        /\ job[o].state = "NO_RELEVANT_WORK" => FrozenOf(o) = NoRows

(* What a run analyses is fixed when it is frozen: no retry, failure or     *)
(* recalculation changes it, and a completed run is never failed again.     *)
RunsAreSettled ==
    [][\A o \in Ops : \A r \in runs[o] : \E q \in runs'[o] :
          /\ q.print = r.print /\ q.frozen = r.frozen
          /\ r.state = "COMPLETED" => q = r]_vars

(* As long as the advisory lock of an operation holds, its finished job is  *)
(* never opened, failed or audited again, whatever answers were lost.       *)
FinishedOnce ==
    [][\A o \in Ops : job[o].state \in Terminal /\ o \notin lost =>
          job'[o] = job[o] /\ events'[o] = events[o]]_vars

(* What a run or a job settled stays so.                                    *)
SettledStaysSettled == RunsAreSettled /\ FinishedOnce

=============================================================================

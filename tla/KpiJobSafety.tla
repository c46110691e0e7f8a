--------------------------- MODULE KpiJobSafety ---------------------------
(***************************************************************************)
(* The types of KpiJob, its inductive invariant and the safety it gives,   *)
(* for any number of callers, operations, records, cells, months and days. *)
(*                                                                         *)
(* The argument.  A job never changes but its state, and a run that is     *)
(* COMPLETED stays so; a caller has done all the requests it no longer     *)
(* has to do (ExecutionInv).  A run takes the table lock before its        *)
(* snapshot, so that it sees every record that was ever counted            *)
(* (SnapshotInv) and an observation never loses one.  A calculation may    *)
(* give way to one of a later cut.  That is harmless when the data was     *)
(* committed on the day of its own cut: at that moment no later cut        *)
(* existed, so that a calculation with one started afterwards and saw the  *)
(* data (CutInv).  Hence a completed run left its records counted          *)
(* (CountedInv).                                                           *)
(***************************************************************************)
EXTENDS KpiJob, TLAPS

USE KpiJobConstants

-----------------------------------------------------------------------------
(* Requests and jobs *)

(* The cut of a request is a day.                                          *)
LEMMA CutType == \A m \in Months, d \in Nat : Cut(m, d) \in Nat
  BY DEF Cut

LEMMA RequestsForType ==
  ASSUME NEW cells \in SUBSET Cells, NEW d \in Nat
  PROVE  RequestsFor(cells, d) \in SUBSET Request
  <1> SUFFICES ASSUME NEW r \in RequestsFor(cells, d)
               PROVE  r \in Request
    OBVIOUS
  <1>1. PICK m \in {MonthOf[c] : c \in cells} :
           r = [month |-> m, cells |-> {c \in cells : MonthOf[c] = m}, asOf |-> Cut(m, d)]
    BY DEF RequestsFor
  <1>2. m \in Months
    OBVIOUS
  <1>3. Cut(m, d) \in Nat /\ {c \in cells : MonthOf[c] = m} \in SUBSET Cells
    BY <1>2, CutType
  <1> QED BY <1>1, <1>2, <1>3 DEF Request

LEMMA CellsOfAllType ==
  ASSUME NEW records \in SUBSET Records
  PROVE  CellsOfAll(records) \in SUBSET Cells
  BY DEF CellsOfAll

LEMMA NewRecordsType == \A o \in Ops : NewRecords(o) \in SUBSET RecordsOf[o] /\ NewRecords(o) \in SUBSET Records
  BY DEF NewRecords

LEMMA RequestsOfType ==
  ASSUME TypeOK, NEW o \in Ops, NEW d \in Nat
  PROVE  RequestsOf(o, d) \in SUBSET Request
  <1>1. ocrDay[o] \in Nat /\ Reference[o] \in Nat
    BY DEF TypeOK
  <1>2. RecordsOf[o] \in SUBSET Records
    OBVIOUS
  <1>3. CASE Kind[o] = "OCR"
    BY <1>1, <1>2, <1>3, CellsOfAllType, RequestsForType DEF RequestsOf
  <1>4. CASE Kind[o] = "SCHEDULED"
    <2>1. {c \in Cells : Reference[o] \in FirstDay[MonthOf[c]]..LastDay[MonthOf[c]]}
             \in SUBSET Cells
      OBVIOUS
    <2> QED BY <1>1, <1>4, <2>1, RequestsForType DEF RequestsOf
  <1>5. CASE Kind[o] \notin {"OCR", "SCHEDULED"}
    <2>1. CellsOfAll(NewRecords(o)) \in SUBSET Cells
      BY NewRecordsType, CellsOfAllType
    <2>2. RequestsOf(o, d) = RequestsFor(CellsOfAll(NewRecords(o)), d)
      BY <1>5 DEF RequestsOf
    <2> QED BY <2>1, <2>2, RequestsForType
  <1> QED BY <1>3, <1>4, <1>5

LEMMA NewJobType ==
  ASSUME TypeOK, NEW o \in Ops, NEW d \in Nat
  PROVE  NewJob(o, d) \in Job
  BY RequestsOfType DEF NewJob, Job, JobState, ItemState

(* A job whose state changes is a job.                                     *)
LEMMA JobStateType ==
  ASSUME TypeOK, NEW o \in Ops, NEW s \in JobState
  PROVE  [job EXCEPT ![o].state = s] \in [Ops -> Job]
  <1>1. job[o] \in Job /\ job \in [Ops -> Job]
    BY DEF TypeOK
  <1>2. [job[o] EXCEPT !.state = s] \in Job
    BY <1>1 DEF Job
  <1> QED BY <1>1, <1>2

(* A run whose state changes is a run.                                     *)
LEMMA RunType ==
  ASSUME TypeOK, NEW o \in Ops, NEW m \in Months, NEW s \in RunState
  PROVE  [run EXCEPT ![o][m] = s] \in [Ops -> [Months -> RunState]]
  BY DEF TypeOK

LEMMA SpendType ==
  ASSUME TypeOK
  PROVE  /\ budget.raises > 0 => [budget EXCEPT !.raises = @ - 1] \in Budget
         /\ budget.crashes > 0 => [budget EXCEPT !.crashes = @ - 1] \in Budget
  <1>1. budget \in Budget /\ budget.raises \in Nat /\ budget.crashes \in Nat
    BY DEF TypeOK, Budget
  <1>2. /\ budget.raises > 0 => budget.raises - 1 \in Nat
        /\ budget.crashes > 0 => budget.crashes - 1 \in Nat
    BY <1>1
  <1> QED BY <1>1, <1>2 DEF Budget

-----------------------------------------------------------------------------
(* Calls *)

(* A caller that serves a call knows its operation.                        *)
OpInHand == \A w \in Callers : pc[w] # "idle" => op[w] \in Ops

LocalsOK ==
    /\ pc \in [Callers -> Where]
    /\ op \in [Callers -> Ops \cup {NoOp}]
    /\ day \in [Callers -> Nat]
    /\ todo \in [Callers -> SUBSET Request]
    /\ snapshot \in [Callers -> SUBSET Records]
    /\ OpInHand

LEMMA FinishType ==
  ASSUME LocalsOK, NEW w \in Callers, Finish(w)
  PROVE  LocalsOK'
  BY DEF LocalsOK, OpInHand, Finish, Where

LEMMA ProceedType ==
  ASSUME LocalsOK, NEW w \in Callers, pc[w] # "idle", NEW s, Proceed(w, s)
  PROVE  LocalsOK'
  <1>1. CASE Final(s)
    BY <1>1, FinishType DEF Proceed
  <1>2. CASE ~Final(s)
    BY <1>2 DEF LocalsOK, OpInHand, Proceed, Where
  <1> QED BY <1>1, <1>2

LEMMA ReleasedType ==
  ASSUME TypeOK, NEW w \in Callers
  PROVE  /\ Released(w) \in [Ops -> Callers \cup {NoCaller}]
         /\ RunReleased(w) \in Callers \cup {NoCaller}
  BY DEF TypeOK, Released, RunReleased

(* A request in hand is one of a month of the calendar.                    *)
LEMMA NextRequestsType ==
  ASSUME TypeOK, NEW w \in Callers, NEW r \in NextRequests(w)
  PROVE  r \in todo[w] /\ r \in Request /\ r.month \in Months /\ r.asOf \in Nat
         /\ r.cells \in SUBSET Cells
  BY DEF TypeOK, NextRequests, Request

LEMMA RecalculatedType ==
  ASSUME TypeOK, NEW w \in Callers, NEW r \in Request
  PROVE  Recalculated(w, r) \in [Cells -> Observation]
  BY DEF TypeOK, Recalculated, Observation, Request

-----------------------------------------------------------------------------
(* Steps *)

LEMMA InitType == Init => TypeOK /\ OpInHand
  BY DEF Init, TypeOK, OpInHand, NoJob, Job, JobState, RunState, ItemState, NoObservation,
         Observation, Where, Budget

(* Everything but the locals, and the locals.                              *)
LEMMA LocalsOfType == TypeOK /\ OpInHand => LocalsOK
  BY DEF TypeOK, LocalsOK

LEMMA TypeStep == TypeOK /\ OpInHand /\ [Next]_vars => TypeOK' /\ OpInHand'
  <1> SUFFICES ASSUME TypeOK, OpInHand, [Next]_vars
               PROVE  TypeOK' /\ OpInHand'
    OBVIOUS
  <1>l. LocalsOK
    BY LocalsOfType
  <1>o. \A w \in Callers : pc[w] # "idle" => op[w] \in Ops
    BY DEF OpInHand
  <1>1. ASSUME NEW w \in Callers, NEW o \in Ops, Begin(w, o)
        PROVE  TypeOK' /\ OpInHand'
    BY <1>1 DEF Begin, TypeOK, OpInHand, Where
  <1>2. ASSUME NEW w \in Callers, Resume(w)
        PROVE  TypeOK' /\ OpInHand'
    <2>1. pc[w] # "idle"
      BY <1>2 DEF Resume
    <2>2. LocalsOK'
      <3>1. CASE job[op[w]].state = "ABSENT"
        <4>1. /\ pc' = [pc EXCEPT ![w] = "working"]
              /\ day' = [day EXCEPT ![w] = today]
              /\ UNCHANGED <<op, todo, snapshot>>
          BY <1>2, <3>1 DEF Resume
        <4>2. today \in Nat
          BY DEF TypeOK
        <4> QED BY <1>l, <2>1, <4>1, <4>2 DEF LocalsOK, OpInHand, Where
      <3>2. CASE job[op[w]].state # "ABSENT"
        BY <1>2, <1>l, <2>1, <3>2, ProceedType DEF Resume
      <3> QED BY <3>1, <3>2
    <2> QED BY <1>2, <2>2 DEF Resume, TypeOK, LocalsOK
  <1>3. ASSUME NEW w \in Callers, RecordOcr(w)
        PROVE  TypeOK' /\ OpInHand'
    BY <1>3, <1>o DEF RecordOcr, TypeOK, OpInHand, locals
  <1>4. ASSUME NEW w \in Callers, OpenTransaction(w)
        PROVE  TypeOK' /\ OpInHand'
    BY <1>4 DEF OpenTransaction, TypeOK, OpInHand, Where
  <1>5. ASSUME NEW w \in Callers, Acquire(w)
        PROVE  TypeOK' /\ OpInHand'
    BY <1>5 DEF Acquire, TypeOK, OpInHand, Where
  <1>6. ASSUME NEW w \in Callers, FoundJob(w)
        PROVE  TypeOK' /\ OpInHand'
    <2>1. LocalsOK'
      BY <1>6, <1>l, ProceedType DEF FoundJob
    <2> QED BY <1>6, <2>1, ReleasedType DEF FoundJob, TypeOK, LocalsOK
  <1>7. ASSUME NEW w \in Callers, CreateJob(w)
        PROVE  TypeOK' /\ OpInHand'
    <2>1. op[w] \in Ops /\ day[w] \in Nat
      BY <1>7, <1>o DEF CreateJob, TypeOK
    <2>2. NewJob(op[w], day[w]) \in Job
      BY <2>1, NewJobType
    <2>3. job' \in [Ops -> Job]
      BY <1>7, <2>1, <2>2 DEF CreateJob, TypeOK
    <2>4. LocalsOK'
      BY <1>7, <1>l, ProceedType DEF CreateJob
    <2>5. item' \in [Items -> ItemState]
      BY <1>7 DEF CreateJob, TypeOK, ItemState
    <2>6. origin' \in [Records -> Ops \cup {NoOp}]
      BY <1>7, <2>1 DEF CreateJob, TypeOK
    <2>7. spanned' \in SUBSET Ops
      BY <1>7, <2>1 DEF CreateJob, TypeOK
    <2>8. opLock' \in [Ops -> Callers \cup {NoCaller}]
      BY <1>7, ReleasedType DEF CreateJob
    <2> QED BY <1>7, <2>3, <2>4, <2>5, <2>6, <2>7, <2>8 DEF CreateJob, TypeOK, LocalsOK
  <1>8. ASSUME NEW w \in Callers, RefuseReinjection(w)
        PROVE  TypeOK' /\ OpInHand'
    <2>1. LocalsOK'
      BY <1>8, <1>l, FinishType DEF RefuseReinjection
    <2> QED BY <1>8, <2>1, ReleasedType DEF RefuseReinjection, TypeOK, LocalsOK
  <1>9. ASSUME NEW w \in Callers, Raise(w)
        PROVE  TypeOK' /\ OpInHand'
    <2>1. LocalsOK'
      BY <1>9, <1>l, FinishType DEF Raise
    <2>2. budget' \in Budget
      BY <1>9, SpendType DEF Raise
    <2> QED BY <1>9, <2>1, <2>2, ReleasedType DEF Raise, TypeOK, LocalsOK
  <1>10. ASSUME NEW w \in Callers, Check(w)
         PROVE  TypeOK' /\ OpInHand'
    <2>1. job[op[w]].requests \in SUBSET Request
      BY <1>10, <1>o DEF Check, TypeOK, Job
    <2>2. LocalsOK'
      <3>1. CASE Final(job[op[w]].state)
        BY <1>10, <1>l, <3>1, FinishType DEF Check
      <3>2. CASE ~Final(job[op[w]].state)
        BY <1>10, <1>l, <2>1, <3>2 DEF Check, LocalsOK, OpInHand, Where
      <3> QED BY <3>1, <3>2
    <2> QED BY <1>10, <2>2 DEF Check, TypeOK, LocalsOK
  <1>11. ASSUME NEW w \in Callers, StartRun(w)
         PROVE  TypeOK' /\ OpInHand'
    BY <1>11 DEF StartRun, TypeOK, OpInHand, Where, Incorporated
  <1>12. ASSUME NEW w \in Callers, FinishRun(w)
         PROVE  TypeOK' /\ OpInHand'
    <2>1. op[w] \in Ops
      BY <1>12, <1>o DEF FinishRun
    <2>2. PICK r \in NextRequests(w) :
            /\ IF run[op[w]][r.month] = "COMPLETED" THEN UNCHANGED <<run, obs>>
               ELSE /\ run' = [run EXCEPT ![op[w]][r.month] = "COMPLETED"]
                    /\ obs' = Recalculated(w, r)
            /\ todo' = [todo EXCEPT ![w] = @ \ {r}]
      BY <1>12 DEF FinishRun
    <2>3. r \in Request /\ r.month \in Months
      BY <2>2, NextRequestsType
    <2>4. run' \in [Ops -> [Months -> RunState]]
      <3>1. "COMPLETED" \in RunState
        BY DEF RunState
      <3>2. [run EXCEPT ![op[w]][r.month] = "COMPLETED"] \in [Ops -> [Months -> RunState]]
        BY <2>1, <2>3, <3>1, RunType
      <3> QED BY <2>2, <3>2 DEF TypeOK
    <2>5. obs' \in [Cells -> Observation]
      BY <2>2, <2>3, RecalculatedType DEF TypeOK
    <2>6. LocalsOK'
      BY <1>12, <2>2 DEF FinishRun, TypeOK, LocalsOK, OpInHand, Where
    <2> QED BY <1>12, <2>4, <2>5, <2>6, ReleasedType DEF FinishRun, TypeOK, LocalsOK
  <1>13. ASSUME NEW w \in Callers, RunRaises(w)
         PROVE  TypeOK' /\ OpInHand'
    <2>1. LocalsOK'
      BY <1>13 DEF RunRaises, TypeOK, LocalsOK, OpInHand, Where
    <2>2. budget' \in Budget
      BY <1>13, SpendType DEF RunRaises
    <2> QED BY <1>13, <2>1, <2>2, ReleasedType DEF RunRaises, TypeOK, LocalsOK
  <1>14. ASSUME NEW w \in Callers, RecordFailure(w)
         PROVE  TypeOK' /\ OpInHand'
    <2>1. op[w] \in Ops
      BY <1>14, <1>o DEF RecordFailure
    <2>2. PICK r \in NextRequests(w) :
            run' = IF run[op[w]][r.month] = "COMPLETED" THEN run
                   ELSE [run EXCEPT ![op[w]][r.month] = "FAILED"]
      BY <1>14 DEF RecordFailure
    <2>3. "FAILED" \in RunState /\ r.month \in Months
      BY <2>2, NextRequestsType DEF RunState
    <2>4. run' \in [Ops -> [Months -> RunState]]
      <3>1. [run EXCEPT ![op[w]][r.month] = "FAILED"] \in [Ops -> [Months -> RunState]]
        BY <2>1, <2>3, RunType
      <3> QED BY <2>2, <3>1 DEF TypeOK
    <2> QED BY <1>14, <2>4 DEF RecordFailure, TypeOK, OpInHand, Where
  <1>15. ASSUME NEW w \in Callers, LoseFailure(w)
         PROVE  TypeOK' /\ OpInHand'
    BY <1>15 DEF LoseFailure, TypeOK, OpInHand, Where
  <1>16. ASSUME NEW w \in Callers, FailJob(w)
         PROVE  TypeOK' /\ OpInHand'
    <2>1. LocalsOK'
      BY <1>16, <1>l, FinishType DEF FailJob
    <2>2. FailedJob \in JobState /\ op[w] \in Ops
      BY <1>16, <1>o DEF FailJob, FailedJob, JobState
    <2>3. job' \in [Ops -> Job]
      BY <1>16, <2>2, JobStateType DEF FailJob
    <2> QED BY <1>16, <2>1, <2>3 DEF FailJob, TypeOK, LocalsOK
  <1>17. ASSUME NEW w \in Callers, CompleteJob(w)
         PROVE  TypeOK' /\ OpInHand'
    <2>1. LocalsOK'
      BY <1>17, <1>l, FinishType DEF CompleteJob
    <2>2. "COMPLETED" \in JobState /\ op[w] \in Ops
      BY <1>17, <1>o DEF CompleteJob, JobState
    <2>3. job' \in [Ops -> Job]
      BY <1>17, <2>2, JobStateType DEF CompleteJob
    <2> QED BY <1>17, <2>1, <2>3 DEF CompleteJob, TypeOK, LocalsOK
  <1>18. ASSUME NEW w \in Callers, Crash(w)
         PROVE  TypeOK' /\ OpInHand'
    <2>1. LocalsOK'
      BY <1>18, <1>l, FinishType DEF Crash
    <2>2. budget' \in Budget
      BY <1>18, SpendType DEF Crash
    <2> QED BY <1>18, <2>1, <2>2, ReleasedType DEF Crash, TypeOK, LocalsOK
  <1>19. ASSUME NEW i \in Items, Discard(i)
         PROVE  TypeOK' /\ OpInHand'
    BY <1>19 DEF Discard, TypeOK, OpInHand, ItemState, locals
  <1>20. CASE NextDay
    BY <1>20 DEF NextDay, TypeOK, OpInHand, locals
  <1>21. CASE UNCHANGED vars
    BY <1>21 DEF vars, locals, TypeOK, OpInHand
  <1> QED
    BY <1>1, <1>2, <1>3, <1>4, <1>5, <1>6, <1>7, <1>8, <1>9, <1>10, <1>11, <1>12, <1>13,
       <1>14, <1>15, <1>16, <1>17, <1>18, <1>19, <1>20, <1>21
       DEF Next, Locking, Working

(* Type correctness: jobs, runs, items and observations keep to the values *)
(* of their tables, and the callers to the locals of the service, over any *)
(* sequence of calls, exceptions, crashes and days.                        *)
THEOREM TypeCorrect == Spec => []TypeOK
  <1> QED BY InitType, TypeStep, PTL DEF Spec

-----------------------------------------------------------------------------
(* The inductive invariant *)

(* A caller that serves an operation knows it; the day of its transaction  *)
(* has come; and only the transaction that holds the table lock calculates.*)
CallerInv ==
    /\ today > 0
    /\ \A w \in Callers :
          /\ pc[w] # "idle" => op[w] \in Ops
          /\ pc[w] \in {"working", "waiting", "holding"} => day[w] \in 1..today
          /\ (pc[w] # "idle" /\ Kind[op[w]] = "SCHEDULED") => Reference[op[w]] <= today
          /\ pc[w] = "calculating" => runLock = w

(* Before its job exists an operation has no completed run, and the OCR it *)
(* may bring is recorded before its job is asked for.                      *)
JobInv ==
    /\ \A o \in Ops : job[o].state = "ABSENT" =>
          job[o] = NoJob /\ \A m \in Months : run[o][m] # "COMPLETED"
    /\ \A o \in Ops : ocrDay[o] <= today
    /\ \A o \in Ops : (Kind[o] = "OCR" /\ RecordsOf[o] # {} /\ job[o].state # "ABSENT") =>
          ocrDay[o] # 0
    /\ \A w \in Callers :
          (pc[w] \in {"waiting", "holding"} /\ Kind[op[w]] = "OCR" /\ RecordsOf[op[w]] # {}) =>
              ocrDay[op[w]] # 0

(* A caller that executes a job has done all of its requests but "todo".   *)
ExecutionInv ==
    \A w \in Callers :
        /\ pc[w] \in {"checking", "running", "calculating", "recording", "failing"} =>
              job[op[w]].state # "ABSENT"
        /\ pc[w] \in {"running", "calculating"} =>
              \A e \in job[op[w]].requests : e \in todo[w] \/ run[op[w]][e.month] = "COMPLETED"
        /\ pc[w] \in {"running", "calculating"} => todo[w] \subseteq job[op[w]].requests

ItemInv ==
    \A o \in Ops : job[o].item = "Reinyectado" => Kind[o] = "REINJECTION"

(* A record comes from an operation that brings it.                        *)
OriginInv ==
    \A r \in Records : origin[r] # NoOp =>
        /\ r \in RecordsOf[origin[r]]
        /\ Kind[origin[r]] = "OCR" => ocrDay[origin[r]] # 0

(* A job has one request per month, for cells of that month, with a cut    *)
(* that has come: for an OCR, that of the day it was recorded.             *)
RequestInv ==
    \A o \in Ops : \A e \in job[o].requests :
        /\ e.asOf <= Cut(e.month, today)
        /\ \A c \in e.cells : MonthOf[c] = e.month
        /\ \A f \in job[o].requests : f.month = e.month => f = e
        /\ Kind[o] = "OCR" => e.asOf = Cut(e.month, ocrDay[o])

(* The table lock comes before the snapshot: whoever calculates sees all   *)
(* that was ever counted, and all that its own operation brought.          *)
SnapshotInv ==
    /\ \A c \in Cells : obs[c].asOf <= Cut(MonthOf[c], today)
    /\ \A c \in Cells : obs[c].records \subseteq {r \in Incorporated : c \in CellsOf[r]}
    /\ \A w \in Callers : pc[w] = "calculating" =>
          /\ snapshot[w] \subseteq Incorporated
          /\ \A c \in Cells : obs[c].records \subseteq snapshot[w]
          /\ \A r \in Records : origin[r] = op[w] => r \in snapshot[w]

(* The cuts with which operation o asks for the observations of month m.   *)
CutsOf(o, m) ==
    IF Kind[o] = "OCR" THEN {Cut(m, ocrDay[o])}
    ELSE {e.asOf : e \in {x \in job[o].requests : x.month = m}}

(* A calculation with a later cut than that of a record committed on the   *)
(* day of its cut sees the record, and so does an observation it left.     *)
CutInv ==
    \A r \in Records : (origin[r] # NoOp /\ origin[r] \notin spanned) =>
        \A c \in CellsOf[r] : \A k \in CutsOf(origin[r], MonthOf[c]) :
            /\ obs[c].asOf > k => r \in obs[c].records
            /\ \A w \in Callers : pc[w] = "calculating" =>
                  \A e \in todo[w] : (c \in e.cells /\ e.asOf > k) => r \in snapshot[w]

(* A completed run left the records of its operation counted, itself or by *)
(* the calculation of a later cut it gave way to.                          *)
CountedInv ==
    \A r \in Records : (origin[r] # NoOp /\ origin[r] \notin spanned) =>
        \A e \in job[origin[r]].requests :
            run[origin[r]][e.month] = "COMPLETED" =>
                \A c \in e.cells : c \in CellsOf[r] => r \in obs[c].records

IInv ==
    /\ TypeOK /\ CallerInv /\ JobInv /\ ExecutionInv /\ ItemInv /\ OriginInv /\ RequestInv
    /\ DataComesWithItsJob /\ CompletedJobHasItsRuns /\ ItemIsReinjectedOnce
    /\ SnapshotInv /\ CutInv /\ CountedInv

-----------------------------------------------------------------------------
(* Days, cuts and initial states *)

(* The cut of a month never goes back.                                     *)
LEMMA CutGrows ==
  \A m \in Months, d \in Nat, e \in Nat : d <= e => Cut(m, d) <= Cut(m, e)
  BY DEF Cut

LEMMA InitInv == Init => IInv
  <1> SUFFICES ASSUME Init PROVE IInv
    OBVIOUS
  <1>1. TypeOK
    BY InitType
  <1>2. \A o \in Ops : job[o] = NoJob /\ NoJob.requests = {} /\ NoJob.state = "ABSENT"
                       /\ NoJob.item = "NONE"
    BY DEF Init, NoJob
  <1>3. \A c \in Cells : obs[c].asOf = 0 /\ obs[c].records = {}
    BY DEF Init, NoObservation
  <1>4. \A r \in Records : origin[r] = NoOp
    BY DEF Init
  <1>5. \A w \in Callers : pc[w] = "idle"
    BY DEF Init
  <1>6. today = StartDay /\ \A o \in Ops : ocrDay[o] = 0
    BY DEF Init
  <1>7. CallerInv
    BY <1>5, <1>6 DEF CallerInv
  <1>8. JobInv
    BY <1>2, <1>5, <1>6 DEF JobInv, Init
  <1>9. ExecutionInv /\ ItemInv /\ OriginInv /\ RequestInv
    BY <1>2, <1>4, <1>5 DEF ExecutionInv, ItemInv, OriginInv, RequestInv
  <1>10. DataComesWithItsJob /\ CompletedJobHasItsRuns /\ ItemIsReinjectedOnce
    BY <1>2, <1>4 DEF DataComesWithItsJob, CompletedJobHasItsRuns, ItemIsReinjectedOnce
  <1>11. SnapshotInv
    <2>1. \A c \in Cells : Cut(MonthOf[c], today) \in Nat
      BY <1>6, CutType
    <2> QED BY <1>3, <1>5, <2>1 DEF SnapshotInv
  <1>12. CutInv /\ CountedInv
    BY <1>4 DEF CutInv, CountedInv
  <1> QED
    BY <1>1, <1>7, <1>8, <1>9, <1>10, <1>11, <1>12 DEF IInv

-----------------------------------------------------------------------------
(* Steps that only move a caller *)

Quiet(w) ==
    \/ \E o \in Ops : Begin(w, o)
    \/ Resume(w) \/ OpenTransaction(w) \/ Acquire(w) \/ FoundJob(w) \/ RefuseReinjection(w)
    \/ Raise(w) \/ Check(w) \/ StartRun(w) \/ RunRaises(w) \/ LoseFailure(w) \/ Crash(w)

durable == <<job, run, origin, ocrDay, item, obs, today, spanned>>

Executing == {"checking", "running", "calculating", "recording", "failing"}

(* What is true of a caller after it moved, in terms of the data.          *)
Moved(w) ==
    /\ pc'[w] \in {"working", "waiting", "holding"} => day'[w] \in 1..today
    /\ (pc'[w] \in {"waiting", "holding"} /\ Kind[op'[w]] = "OCR" /\ RecordsOf[op'[w]] # {}) =>
          ocrDay[op'[w]] # 0
    /\ (pc'[w] # "idle" /\ Kind[op'[w]] = "SCHEDULED") => Reference[op'[w]] <= today
    /\ pc'[w] \in Executing => job[op'[w]].state # "ABSENT"
    /\ pc'[w] = "running" => todo'[w] = job[op'[w]].requests
    /\ pc'[w] = "calculating" =>
          /\ pc[w] = "running" /\ runLock = NoCaller /\ runLock' = w
          /\ todo'[w] = todo[w] /\ op'[w] = op[w] /\ snapshot'[w] = Incorporated

OthersUnmoved(w) ==
    \A x \in Callers \ {w} :
        /\ pc'[x] = pc[x] /\ op'[x] = op[x] /\ day'[x] = day[x]
        /\ todo'[x] = todo[x] /\ snapshot'[x] = snapshot[x]
        /\ runLock = x => runLock' = x

LEMMA FinishMoved ==
  ASSUME TypeOK, NEW w \in Callers, Finish(w), runLock' \in {runLock, RunReleased(w)}
  PROVE  Moved(w) /\ OthersUnmoved(w)
  BY DEF TypeOK, Finish, Moved, OthersUnmoved, Executing, RunReleased

LEMMA ProceedMoved ==
  ASSUME TypeOK, CallerInv, NEW w \in Callers, NEW s, Proceed(w, s), runLock' = runLock,
         pc[w] # "idle", job[op[w]].state # "ABSENT"
  PROVE  Moved(w) /\ OthersUnmoved(w)
  <1>1. CASE Final(s)
    BY <1>1, FinishMoved DEF Proceed
  <1>2. CASE ~Final(s)
    BY <1>2 DEF Proceed, TypeOK, CallerInv, Moved, OthersUnmoved, Executing
  <1> QED BY <1>1, <1>2

LEMMA QuietEffect ==
  ASSUME IInv, NEW w \in Callers, Quiet(w)
  PROVE  UNCHANGED durable /\ Moved(w) /\ OthersUnmoved(w)
  <1>i. TypeOK /\ CallerInv /\ JobInv /\ ExecutionInv
    BY DEF IInv
  <1>t. today \in Nat /\ today > 0
    BY <1>i DEF TypeOK, CallerInv
  <1> USE DEF durable
  <1>1. ASSUME NEW o \in Ops, Begin(w, o)
        PROVE  UNCHANGED durable /\ Moved(w) /\ OthersUnmoved(w)
    BY <1>1, <1>i, <1>t DEF Begin, TypeOK, Moved, OthersUnmoved, Executing, Dispatched
  <1>2. CASE Resume(w)
    <2>1. CASE job[op[w]].state = "ABSENT"
      <3>1. /\ pc' = [pc EXCEPT ![w] = "working"] /\ day' = [day EXCEPT ![w] = today]
            /\ UNCHANGED <<op, todo, snapshot, runLock>>
        BY <1>2, <2>1 DEF Resume
      <3>2. Moved(w) /\ OthersUnmoved(w)
        BY <1>2, <1>i, <1>t, <3>1 DEF Resume, TypeOK, CallerInv, Moved, OthersUnmoved, Executing
      <3> QED BY <1>2, <3>2 DEF Resume
    <2>2. CASE job[op[w]].state # "ABSENT"
      BY <1>2, <1>i, <2>2, ProceedMoved DEF Resume
    <2> QED BY <2>1, <2>2
  <1>3. CASE OpenTransaction(w)
    BY <1>3, <1>i, <1>t DEF OpenTransaction, TypeOK, CallerInv, Moved, OthersUnmoved,
            Executing
  <1>4. CASE Acquire(w)
    BY <1>4, <1>i, <1>t DEF Acquire, TypeOK, CallerInv, JobInv, Moved, OthersUnmoved, Executing
  <1>5. CASE FoundJob(w)
    BY <1>5, <1>i, ProceedMoved DEF FoundJob
  <1>6. CASE RefuseReinjection(w)
    BY <1>6, <1>i, FinishMoved DEF RefuseReinjection
  <1>7. CASE Raise(w)
    BY <1>7, <1>i, FinishMoved DEF Raise
  <1>8. CASE Check(w)
    <2>1. CASE Final(job[op[w]].state)
      BY <1>8, <1>i, <2>1, FinishMoved DEF Check
    <2>2. CASE ~Final(job[op[w]].state)
      <3>1. job[op[w]].state # "ABSENT"
        BY <1>8, <1>i DEF Check, ExecutionInv
      <3> QED BY <1>8, <1>i, <2>2, <3>1
              DEF Check, TypeOK, CallerInv, Moved, OthersUnmoved, Executing
    <2> QED BY <2>1, <2>2
  <1>9. CASE StartRun(w)
    BY <1>9, <1>i
       DEF StartRun, RunLockFree, TypeOK, CallerInv, ExecutionInv, Moved, OthersUnmoved, Executing
  <1>10. CASE RunRaises(w)
    BY <1>10, <1>i
       DEF RunRaises, RunReleased, TypeOK, CallerInv, ExecutionInv, Moved, OthersUnmoved,
           Executing
  <1>11. CASE LoseFailure(w)
    BY <1>11, <1>i
       DEF LoseFailure, TypeOK, CallerInv, ExecutionInv, Moved, OthersUnmoved, Executing
  <1>12. CASE Crash(w)
    BY <1>12, <1>i, FinishMoved DEF Crash
  <1> QED
    BY <1>1, <1>2, <1>3, <1>4, <1>5, <1>6, <1>7, <1>8, <1>9, <1>10, <1>11, <1>12 DEF Quiet

LEMMA QuietStep ==
  ASSUME IInv, NEW w \in Callers, Quiet(w), TypeOK', OpInHand'
  PROVE  IInv'
  <1>i. /\ TypeOK /\ CallerInv /\ JobInv /\ ExecutionInv /\ ItemInv /\ OriginInv /\ RequestInv
        /\ DataComesWithItsJob /\ CompletedJobHasItsRuns /\ ItemIsReinjectedOnce
        /\ SnapshotInv /\ CutInv /\ CountedInv
    BY DEF IInv
  <1>e. UNCHANGED durable /\ Moved(w) /\ OthersUnmoved(w)
    BY QuietEffect
  <1>u. UNCHANGED <<job, run, origin, ocrDay, item, obs, today, spanned>>
    BY <1>e DEF durable
  <1>o. \A x \in Callers : x # w => x \in Callers \ {w}
    OBVIOUS
  <1>1. CallerInv'
    BY <1>i, <1>e, <1>u, <1>o DEF CallerInv, OpInHand, Moved, OthersUnmoved
  <1>2. JobInv'
    <2>1. ASSUME NEW x \in Callers, pc'[x] \in {"waiting", "holding"}, Kind[op'[x]] = "OCR",
                 RecordsOf[op'[x]] # {}
          PROVE  ocrDay'[op'[x]] # 0
      <3>1. CASE x = w
        BY <1>e, <1>u, <2>1, <3>1 DEF Moved
      <3>2. CASE x # w
        BY <1>i, <1>e, <1>u, <2>1, <3>2 DEF JobInv, OthersUnmoved
      <3> QED BY <3>1, <3>2
    <2> QED BY <1>i, <1>u, <2>1 DEF JobInv
  <1>3. ExecutionInv'
    <2> SUFFICES ASSUME NEW x \in Callers
                 PROVE  /\ pc'[x] \in Executing => job[op'[x]].state # "ABSENT"
                        /\ pc'[x] \in {"running", "calculating"} =>
                              \A e \in job[op'[x]].requests :
                                 e \in todo'[x] \/ run[op'[x]][e.month] = "COMPLETED"
                        /\ pc'[x] \in {"running", "calculating"} =>
                              todo'[x] \subseteq job[op'[x]].requests
      BY <1>u DEF ExecutionInv, Executing
    <2>1. CASE x = w
      BY <1>i, <1>e, <2>1 DEF ExecutionInv, Moved, Executing
    <2>2. CASE x # w
      BY <1>i, <1>e, <2>2 DEF ExecutionInv, OthersUnmoved, Executing
    <2> QED BY <2>1, <2>2
  <1>4. ItemInv' /\ OriginInv' /\ RequestInv'
    BY <1>i, <1>u DEF ItemInv, OriginInv, RequestInv, Cut
  <1>5. DataComesWithItsJob' /\ CompletedJobHasItsRuns' /\ ItemIsReinjectedOnce'
    BY <1>i, <1>u
       DEF DataComesWithItsJob, RequestedCells, CompletedJobHasItsRuns, ItemIsReinjectedOnce
  <1>6. SnapshotInv'
    <2>1. Incorporated' = Incorporated
      BY <1>u DEF Incorporated
    <2>2. \A c \in Cells : obs'[c].asOf <= Cut(MonthOf[c], today)'
      BY <1>i, <1>u DEF SnapshotInv, Cut
    <2>3. \A c \in Cells : obs'[c].records \subseteq {r \in Incorporated' : c \in CellsOf[r]}
      BY <1>i, <1>u, <2>1 DEF SnapshotInv
    <2>4. ASSUME NEW x \in Callers, pc'[x] = "calculating"
          PROVE  /\ snapshot'[x] \subseteq Incorporated'
                 /\ \A c \in Cells : obs'[c].records \subseteq snapshot'[x]
                 /\ \A r \in Records : origin'[r] = op'[x] => r \in snapshot'[x]
      <3>1. CASE x = w
        <4>1. snapshot'[w] = Incorporated /\ op'[w] \in Ops
          BY <1>e, <2>4, <3>1 DEF Moved, OpInHand
        <4>2. \A r \in Records : origin[r] = op'[w] => r \in Incorporated
          BY <4>1 DEF Incorporated
        <4> QED BY <1>i, <1>u, <2>1, <3>1, <4>1, <4>2 DEF SnapshotInv
      <3>2. CASE x # w
        BY <1>i, <1>e, <1>u, <2>1, <2>4, <3>2 DEF SnapshotInv, OthersUnmoved
      <3> QED BY <3>1, <3>2
    <2> QED BY <2>2, <2>3, <2>4 DEF SnapshotInv
  <1>7. CutInv'
    <2>a. \A o \in Ops, m \in Months : CutsOf(o, m)' = CutsOf(o, m)
      BY <1>u DEF CutsOf, Cut
    <2>b. \A r \in Records, c \in Cells : origin[r] # NoOp =>
             CutsOf(origin[r], MonthOf[c])' = CutsOf(origin[r], MonthOf[c])
      <3>1. \A r \in Records : origin[r] # NoOp => origin[r] \in Ops
        BY <1>i DEF TypeOK
      <3>2. \A c \in Cells : MonthOf[c] \in Months
        BY KpiJobConstants
      <3> QED BY <1>u, <2>a, <3>1, <3>2
    <2> SUFFICES ASSUME NEW r \in Records, origin'[r] # NoOp, origin'[r] \notin spanned',
                        NEW c \in CellsOf[r], NEW k \in CutsOf(origin[r], MonthOf[c])'
                 PROVE  /\ obs'[c].asOf > k => r \in obs'[c].records
                        /\ \A x \in Callers : pc'[x] = "calculating" =>
                              \A e \in todo'[x] : (c \in e.cells /\ e.asOf > k) =>
                                  r \in snapshot'[x]
      BY DEF CutInv
    <2>r. origin[r] # NoOp /\ origin[r] \notin spanned /\ c \in Cells
      BY <1>u, KpiJobConstants
    <2>k. k \in CutsOf(origin[r], MonthOf[c])
      BY <2>b, <2>r
    <2>1. obs'[c].asOf > k => r \in obs'[c].records
      BY <1>i, <1>u, <2>r, <2>k DEF CutInv
    <2>2. ASSUME NEW x \in Callers, pc'[x] = "calculating", NEW e \in todo'[x],
                 c \in e.cells, e.asOf > k
          PROVE  r \in snapshot'[x]
      <3>1. CASE x = w
        BY <1>e, <2>r, <2>2, <3>1 DEF Moved, Incorporated
      <3>2. CASE x # w
        BY <1>i, <1>e, <2>r, <2>k, <2>2, <3>2 DEF CutInv, OthersUnmoved
      <3> QED BY <3>1, <3>2
    <2> QED BY <2>1, <2>2
  <1>8. CountedInv'
    BY <1>i, <1>u DEF CountedInv
  <1> QED
    BY <1>1, <1>2, <1>3, <1>4, <1>5, <1>6, <1>7, <1>8 DEF IInv

-----------------------------------------------------------------------------
(* Steps that change a job or a run *)

(* What the callers rest on is still true if they do not move, the table   *)
(* lock stays, no job is created and completed runs stay completed.        *)
LEMMA StateOnlyStep ==
  ASSUME IInv, NEW w \in Callers, OthersUnmoved(w), Moved(w), TypeOK', OpInHand',
         pc'[w] \in {"idle", "failing"},
         UNCHANGED <<origin, ocrDay, item, obs, today, spanned>>,
         \A o \in Ops : /\ job'[o].state = "ABSENT" <=> job[o].state = "ABSENT"
                        /\ job[o].state = "ABSENT" => job'[o] = job[o]
                        /\ job'[o].requests = job[o].requests
                        /\ job'[o].item = job[o].item,
         \A o \in Ops, m \in Months : run'[o][m] = "COMPLETED" <=> run[o][m] = "COMPLETED",
         CompletedJobHasItsRuns'
  PROVE  IInv'
  <1>i. /\ TypeOK /\ CallerInv /\ JobInv /\ ExecutionInv /\ ItemInv /\ OriginInv /\ RequestInv
        /\ DataComesWithItsJob /\ ItemIsReinjectedOnce
        /\ SnapshotInv /\ CutInv /\ CountedInv
    BY DEF IInv
  <1>c. \A o \in Ops, m \in Months : run'[o][m] = "COMPLETED" => run[o][m] = "COMPLETED"
    OBVIOUS
  <1>o. \A x \in Callers : pc'[x] \notin {"idle", "failing"} =>
           x # w /\ pc'[x] = pc[x] /\ op'[x] = op[x] /\ todo'[x] = todo[x]
           /\ snapshot'[x] = snapshot[x] /\ op[x] \in Ops
    BY <1>i DEF OthersUnmoved, CallerInv
  <1>m. \A o \in Ops : \A e \in job[o].requests : e.month \in Months
    BY <1>i DEF TypeOK, Job, Request
  <1>r. \A r \in Records : origin[r] # NoOp => origin[r] \in Ops
    BY <1>i DEF TypeOK
  <1>1. CallerInv'
    BY <1>i DEF CallerInv, OpInHand, OthersUnmoved, Moved
  <1>2. JobInv'
    <2>1. \A o \in Ops : job'[o].state = "ABSENT" =>
             job'[o] = NoJob' /\ \A m \in Months : run'[o][m] # "COMPLETED"
      <3>1. NoJob' = NoJob
        BY DEF NoJob
      <3> QED BY <1>i, <3>1 DEF JobInv
    <2>2. \A o \in Ops : (Kind[o] = "OCR" /\ RecordsOf[o] # {} /\ job'[o].state # "ABSENT") =>
             ocrDay'[o] # 0
      BY <1>i DEF JobInv
    <2>3. \A x \in Callers : pc'[x] \in {"waiting", "holding"} =>
             pc[x] = pc'[x] /\ op'[x] = op[x]
      BY <1>o
    <2>4. \A o \in Ops : ocrDay'[o] <= today'
      BY <1>i DEF JobInv
    <2>5. ASSUME NEW x \in Callers, pc'[x] \in {"waiting", "holding"}, Kind[op'[x]] = "OCR",
                 RecordsOf[op'[x]] # {}
          PROVE  ocrDay'[op'[x]] # 0
      <3>1. pc[x] \in {"waiting", "holding"} /\ op'[x] = op[x]
        BY <2>3, <2>5
      <3>2. (Kind[op[x]] = "OCR" /\ RecordsOf[op[x]] # {}) => ocrDay[op[x]] # 0
        BY <1>i, <3>1 DEF JobInv
      <3> QED BY <2>5, <3>1, <3>2
    <2> QED BY <2>1, <2>2, <2>4, <2>5 DEF JobInv
  <1>3. ExecutionInv'
    <2>1. ASSUME NEW x \in Callers, pc'[x] \in Executing
          PROVE  job'[op'[x]].state # "ABSENT"
      <3>1. op'[x] \in Ops
        BY <2>1 DEF OpInHand, Executing
      <3>2. job[op'[x]].state # "ABSENT"
        <4>1. CASE x = w
          BY <2>1, <4>1 DEF Moved
        <4>2. CASE x # w
          BY <1>i, <2>1, <4>2 DEF ExecutionInv, Executing, OthersUnmoved
        <4> QED BY <4>1, <4>2
      <3> QED BY <3>1, <3>2
    <2>2. ASSUME NEW x \in Callers, pc'[x] \in {"running", "calculating"}
          PROVE  /\ \A e \in job'[op'[x]].requests :
                       e \in todo'[x] \/ run'[op'[x]][e.month] = "COMPLETED"
                 /\ todo'[x] \subseteq job'[op'[x]].requests
      <3>1. /\ pc[x] \in {"running", "calculating"} /\ op'[x] = op[x] /\ todo'[x] = todo[x]
            /\ op[x] \in Ops
        BY <1>o, <2>2
      <3>2. /\ \A e \in job[op[x]].requests : e \in todo[x] \/ run[op[x]][e.month] = "COMPLETED"
            /\ todo[x] \subseteq job[op[x]].requests
        BY <1>i, <3>1 DEF ExecutionInv
      <3>3. job'[op[x]].requests = job[op[x]].requests
        BY <3>1
      <3>4. ASSUME NEW e \in job[op[x]].requests, run[op[x]][e.month] = "COMPLETED"
            PROVE  run'[op[x]][e.month] = "COMPLETED"
        <4>1. e.month \in Months
          BY <1>m, <3>1
        <4>2. \A m \in Months : run[op[x]][m] = "COMPLETED" => run'[op[x]][m] = "COMPLETED"
          BY <3>1
        <4> QED BY <3>4, <4>1, <4>2
      <3> QED BY <3>1, <3>2, <3>3, <3>4
    <2> QED BY <2>1, <2>2 DEF ExecutionInv, Executing
  <1>4. ItemInv' /\ OriginInv' /\ RequestInv'
    <2>1. ItemInv'
      BY <1>i DEF ItemInv
    <2>2. OriginInv'
      BY <1>i DEF OriginInv
    <2>3. \A m \in Months, d \in Nat : Cut(m, d)' = Cut(m, d)
      BY DEF Cut
    <2>4. RequestInv'
      BY <1>i DEF RequestInv, Cut
    <2> QED BY <2>1, <2>2, <2>4
  <1>5. DataComesWithItsJob' /\ ItemIsReinjectedOnce'
    BY <1>i, <1>r DEF DataComesWithItsJob, RequestedCells, ItemIsReinjectedOnce
  <1>6. SnapshotInv'
    <2>1. Incorporated' = Incorporated
      BY DEF Incorporated
    <2> QED BY <1>i, <1>o, <2>1 DEF SnapshotInv, Cut
  <1>7. CutInv'
    <2>1. \A o \in Ops, m \in Months : CutsOf(o, m)' = CutsOf(o, m)
      BY DEF CutsOf, Cut
    <2> SUFFICES ASSUME NEW r \in Records, origin'[r] # NoOp, origin'[r] \notin spanned',
                        NEW c \in CellsOf[r], NEW k \in CutsOf(origin[r], MonthOf[c])'
                 PROVE  /\ obs'[c].asOf > k => r \in obs'[c].records
                        /\ \A x \in Callers : pc'[x] = "calculating" =>
                              \A e \in todo'[x] : (c \in e.cells /\ e.asOf > k) =>
                                  r \in snapshot'[x]
      BY DEF CutInv
    <2>2. origin[r] \in Ops /\ MonthOf[c] \in Months
      BY <1>r
    <2>4. k \in CutsOf(origin[r], MonthOf[c])
      BY <2>1, <2>2
    <2>3. /\ obs[c].asOf > k => r \in obs[c].records
          /\ \A x \in Callers : pc[x] = "calculating" =>
                \A e \in todo[x] : (c \in e.cells /\ e.asOf > k) => r \in snapshot[x]
      BY <1>i, <2>4 DEF CutInv
    <2> QED BY <1>o, <2>3
  <1>8. CountedInv'
    <2> SUFFICES ASSUME NEW r \in Records, origin'[r] # NoOp, origin'[r] \notin spanned',
                        NEW e \in job'[origin'[r]].requests,
                        run'[origin'[r]][e.month] = "COMPLETED",
                        NEW c \in e.cells, c \in CellsOf[r]
                 PROVE  r \in obs'[c].records
      BY DEF CountedInv
    <2>1. origin[r] \in Ops /\ e \in job[origin[r]].requests /\ e.month \in Months
      BY <1>r, <1>m
    <2>2. run[origin[r]][e.month] = "COMPLETED"
      <3>1. run'[origin[r]][e.month] = "COMPLETED"
        OBVIOUS
      <3>2. \A m \in Months :
               run'[origin[r]][m] = "COMPLETED" => run[origin[r]][m] = "COMPLETED"
        BY <1>c, <2>1
      <3> QED BY <2>1, <3>1, <3>2
    <2> QED BY <1>i, <2>1, <2>2 DEF CountedInv
  <1> QED
    BY <1>1, <1>2, <1>3, <1>4, <1>5, <1>6, <1>7, <1>8 DEF IInv

LEMMA RecordFailureStep ==
  ASSUME IInv, NEW w \in Callers, RecordFailure(w), TypeOK', OpInHand'
  PROVE  IInv'
  <1>i. TypeOK /\ CallerInv /\ ExecutionInv /\ CompletedJobHasItsRuns
    BY DEF IInv
  <1>1. OthersUnmoved(w) /\ Moved(w) /\ pc'[w] \in {"idle", "failing"}
    BY <1>i DEF RecordFailure, TypeOK, CallerInv, ExecutionInv, OthersUnmoved, Moved, Executing
  <1>2. PICK r \in NextRequests(w) :
          run' = IF run[op[w]][r.month] = "COMPLETED" THEN run
                 ELSE [run EXCEPT ![op[w]][r.month] = "FAILED"]
    BY DEF RecordFailure
  <1>3. op[w] \in Ops /\ r.month \in Months
    BY <1>i, <1>2, NextRequestsType DEF RecordFailure, CallerInv
  <1>4. \A o \in Ops, m \in Months : run'[o][m] = "COMPLETED" <=> run[o][m] = "COMPLETED"
    BY <1>i, <1>2, <1>3 DEF TypeOK
  <1>5. CompletedJobHasItsRuns'
    <2>1. \A o \in Ops : \A e \in job[o].requests : e.month \in Months
      BY <1>i DEF TypeOK, Job, Request
    <2> QED BY <1>i, <1>4, <2>1 DEF RecordFailure, CompletedJobHasItsRuns
  <1>6. /\ UNCHANGED <<job, origin, ocrDay, item, obs, today, spanned>>
    BY DEF RecordFailure
  <1> QED BY <1>1, <1>4, <1>5, <1>6, StateOnlyStep

LEMMA StateOfJob ==
  ASSUME NEW j \in Job, NEW s
  PROVE  /\ [j EXCEPT !.state = s].state = s
         /\ [j EXCEPT !.state = s].requests = j.requests
         /\ [j EXCEPT !.state = s].item = j.item
  BY DEF Job

(* The end of an execution only changes the state of its job.              *)
LEMMA CloseJob ==
  ASSUME IInv, NEW w \in Callers, TypeOK', OpInHand', Finish(w),
         op[w] \in Ops, job[op[w]].state # "ABSENT",
         NEW s \in {"COMPLETED", "FAILED"},
         job' = [job EXCEPT ![op[w]].state = s],
         s = "COMPLETED" => \A e \in job[op[w]].requests : run[op[w]][e.month] = "COMPLETED",
         UNCHANGED <<run, origin, ocrDay, item, obs, runLock, today, spanned>>
  PROVE  IInv'
  <1>i. TypeOK /\ CompletedJobHasItsRuns
    BY DEF IInv
  <1>1. OthersUnmoved(w) /\ Moved(w) /\ pc'[w] \in {"idle", "failing"}
    BY <1>i, FinishMoved DEF Finish, TypeOK
  <1>2. \A o \in Ops : job'[o] = IF o = op[w] THEN [job[o] EXCEPT !.state = s] ELSE job[o]
    BY <1>i DEF TypeOK
  <1>3. job[op[w]] \in Job
    BY <1>i DEF TypeOK
  <1>4. /\ job'[op[w]].state = s /\ job'[op[w]].requests = job[op[w]].requests
        /\ job'[op[w]].item = job[op[w]].item
    <2>1. job'[op[w]] = [job[op[w]] EXCEPT !.state = s]
      BY <1>2
    <2>2. /\ [job[op[w]] EXCEPT !.state = s].state = s
          /\ [job[op[w]] EXCEPT !.state = s].requests = job[op[w]].requests
          /\ [job[op[w]] EXCEPT !.state = s].item = job[op[w]].item
      BY <1>3, StateOfJob
    <2> QED BY <2>1, <2>2
  <1>5. \A o \in Ops : /\ job'[o].state = "ABSENT" <=> job[o].state = "ABSENT"
                       /\ job[o].state = "ABSENT" => job'[o] = job[o]
                       /\ job'[o].requests = job[o].requests
                       /\ job'[o].item = job[o].item
    BY <1>2, <1>4
  <1>6. CompletedJobHasItsRuns'
    BY <1>i, <1>2, <1>4 DEF CompletedJobHasItsRuns
  <1>7. \A o \in Ops, m \in Months : run'[o][m] = "COMPLETED" <=> run[o][m] = "COMPLETED"
    OBVIOUS
  <1> QED BY <1>1, <1>5, <1>6, <1>7, StateOnlyStep

LEMMA FailJobStep ==
  ASSUME IInv, NEW w \in Callers, FailJob(w), TypeOK', OpInHand'
  PROVE  IInv'
  <1>1. op[w] \in Ops /\ job[op[w]].state # "ABSENT"
    BY DEF IInv, FailJob, CallerInv, ExecutionInv
  <1> QED BY <1>1, CloseJob DEF FailJob, FailedJob

LEMMA CompleteJobStep ==
  ASSUME IInv, NEW w \in Callers, CompleteJob(w), TypeOK', OpInHand'
  PROVE  IInv'
  <1>1. op[w] \in Ops /\ job[op[w]].state # "ABSENT"
    BY DEF IInv, CompleteJob, CallerInv, ExecutionInv
  <1>2. \A e \in job[op[w]].requests : run[op[w]][e.month] = "COMPLETED"
    BY DEF IInv, CompleteJob, AllRun, ExecutionInv
  <1> QED BY <1>1, <1>2, CloseJob DEF CompleteJob

-----------------------------------------------------------------------------
(* Items and days *)

LEMMA DiscardStep ==
  ASSUME IInv, NEW i \in Items, Discard(i), TypeOK', OpInHand'
  PROVE  IInv'
  <1>i. /\ TypeOK /\ CallerInv /\ JobInv /\ ExecutionInv /\ ItemInv /\ OriginInv /\ RequestInv
        /\ DataComesWithItsJob /\ CompletedJobHasItsRuns /\ ItemIsReinjectedOnce
        /\ SnapshotInv /\ CutInv /\ CountedInv
    BY DEF IInv
  <1>u. UNCHANGED <<job, run, origin, ocrDay, obs, runLock, pc, op, day, todo, snapshot, today, spanned>>
    BY DEF Discard, locals
  <1>1. CallerInv' /\ JobInv' /\ ExecutionInv' /\ ItemInv' /\ OriginInv'
    BY <1>i, <1>u DEF CallerInv, JobInv, NoJob, ExecutionInv, ItemInv, OriginInv
  <1>2. RequestInv' /\ DataComesWithItsJob' /\ CompletedJobHasItsRuns'
    BY <1>i, <1>u DEF RequestInv, Cut, DataComesWithItsJob, RequestedCells, CompletedJobHasItsRuns
  <1>3. SnapshotInv' /\ CutInv' /\ CountedInv'
    BY <1>i, <1>u DEF SnapshotInv, Incorporated, CutInv, CutsOf, CountedInv, Cut
  <1>4. ItemIsReinjectedOnce'
    <2>1. \A j \in Items : item[j] = "Reinyectado" => item'[j] = "Reinyectado"
      BY <1>i DEF Discard, TypeOK
    <2>2. \A o \in Ops : job[o].item = "Reinyectado" => ItemOf[o] \in Items
      BY <1>i DEF ItemInv
    <2> QED BY <1>i, <1>u, <2>1, <2>2 DEF ItemIsReinjectedOnce
  <1> QED
    BY <1>1, <1>2, <1>3, <1>4 DEF IInv

LEMMA NextDayStep ==
  ASSUME IInv, NextDay, TypeOK', OpInHand'
  PROVE  IInv'
  <1>i. /\ TypeOK /\ CallerInv /\ JobInv /\ ExecutionInv /\ ItemInv /\ OriginInv /\ RequestInv
        /\ DataComesWithItsJob /\ CompletedJobHasItsRuns /\ ItemIsReinjectedOnce
        /\ SnapshotInv /\ CutInv /\ CountedInv
    BY DEF IInv
  <1>u. UNCHANGED <<job, run, origin, ocrDay, item, obs, runLock, pc, op, day, todo, snapshot, spanned>>
    BY DEF NextDay, locals
  <1>t. today \in Nat /\ today' \in Nat /\ today <= today'
    BY <1>i DEF NextDay, TypeOK
  <1>g. \A m \in Months : /\ Cut(m, today) \in Nat /\ Cut(m, today') \in Nat
                          /\ Cut(m, today) <= Cut(m, today')
    BY <1>t, CutGrows, CutType
  <1>1. CallerInv' /\ JobInv' /\ ExecutionInv' /\ ItemInv' /\ OriginInv'
    <2>1. CallerInv'
      BY <1>i, <1>u, <1>t DEF CallerInv, TypeOK
    <2>2. \A o \in Ops : ocrDay'[o] <= today'
      BY <1>i, <1>u, <1>t DEF JobInv, TypeOK
    <2>3. JobInv'
      BY <1>i, <1>u, <2>2 DEF JobInv, NoJob
    <2> QED BY <1>i, <1>u, <2>1, <2>3 DEF ExecutionInv, ItemInv, OriginInv
  <1>2. RequestInv'
    <2>1. \A o \in Ops : \A e \in job[o].requests : e.asOf \in Nat /\ e.month \in Months
      BY <1>i DEF TypeOK, Job, Request
    <2>2. ASSUME NEW o \in Ops, NEW e \in job[o].requests
          PROVE  e.asOf <= Cut(e.month, today')
      <3>1. e.asOf \in Nat /\ e.month \in Months
        BY <2>1
      <3>2. e.asOf <= Cut(e.month, today)
        BY <1>i DEF RequestInv
      <3>3. /\ Cut(e.month, today) \in Nat /\ Cut(e.month, today') \in Nat
            /\ Cut(e.month, today) <= Cut(e.month, today')
        BY <1>g, <3>1
      <3> QED BY <3>1, <3>2, <3>3
    <2> QED BY <1>i, <1>u, <2>2 DEF RequestInv, Cut
  <1>3. DataComesWithItsJob' /\ CompletedJobHasItsRuns' /\ ItemIsReinjectedOnce'
    BY <1>i, <1>u
       DEF DataComesWithItsJob, RequestedCells, CompletedJobHasItsRuns, ItemIsReinjectedOnce
  <1>4. SnapshotInv'
    <2>1. \A c \in Cells : obs[c].asOf \in Nat
      BY <1>i DEF TypeOK, Observation
    <2>2. ASSUME NEW c \in Cells
          PROVE  obs[c].asOf <= Cut(MonthOf[c], today')
      <3>1. obs[c].asOf \in Nat /\ MonthOf[c] \in Months
        BY <2>1
      <3>2. obs[c].asOf <= Cut(MonthOf[c], today)
        BY <1>i DEF SnapshotInv
      <3>3. /\ Cut(MonthOf[c], today) \in Nat /\ Cut(MonthOf[c], today') \in Nat
            /\ Cut(MonthOf[c], today) <= Cut(MonthOf[c], today')
        BY <1>g, <3>1
      <3> QED BY <3>1, <3>2, <3>3
    <2> QED BY <1>i, <1>u, <2>2 DEF SnapshotInv, Incorporated, Cut
  <1>5. CutInv' /\ CountedInv'
    BY <1>i, <1>u DEF CutInv, CutsOf, CountedInv, Cut
  <1> QED
    BY <1>1, <1>2, <1>3, <1>4, <1>5 DEF IInv

-----------------------------------------------------------------------------
(* The final OCR is recorded *)

LEMMA RecordOcrStep ==
  ASSUME IInv, NEW w \in Callers, RecordOcr(w), TypeOK', OpInHand'
  PROVE  IInv'
  <1>i. /\ TypeOK /\ CallerInv /\ JobInv /\ ExecutionInv /\ ItemInv /\ OriginInv /\ RequestInv
        /\ DataComesWithItsJob /\ CompletedJobHasItsRuns /\ ItemIsReinjectedOnce
        /\ SnapshotInv /\ CutInv /\ CountedInv
    BY DEF IInv
  <1>u. UNCHANGED <<job, run, item, obs, runLock, pc, op, day, todo, snapshot, today>>
    BY DEF RecordOcr, locals
  <1> DEFINE o == op[w]
  <1>o. o \in Ops /\ Kind[o] = "OCR" /\ RecordsOf[o] # {} /\ ocrDay[o] = 0
    BY <1>i DEF RecordOcr, CallerInv
  <1>d. day[w] \in Nat /\ day[w] # 0 /\ day[w] <= today
    BY <1>i DEF RecordOcr, CallerInv, TypeOK
  <1>j. job[o].state = "ABSENT" /\ job[o].requests = {}
    BY <1>i, <1>o DEF JobInv, NoJob
  <1>c. \A x \in Ops : ocrDay'[x] = IF x = o THEN day[w] ELSE ocrDay[x]
    BY <1>i, <1>o DEF RecordOcr, TypeOK
  <1>r. \A r \in Records : origin'[r] = IF r \in RecordsOf[o] THEN o ELSE origin[r]
    BY DEF RecordOcr
  <1>y. \A r \in Records : origin[r] # NoOp => origin[r] \in Ops
    BY <1>i DEF TypeOK
  <1>n. o # NoOp
    BY <1>o
  <1>s. spanned \subseteq spanned' /\ (o \notin spanned' => day[w] = today)
    <2>1. today \in Nat
      BY <1>i DEF TypeOK
    <2> QED BY <1>d, <2>1 DEF RecordOcr
  <1> HIDE DEF o
  <1>1. CallerInv' /\ ItemInv'
    BY <1>i, <1>u DEF CallerInv, ItemInv
  <1>2. JobInv'
    <2>1. \A x \in Ops : job[x].state = "ABSENT" =>
             job[x] = NoJob /\ \A m \in Months : run[x][m] # "COMPLETED"
      BY <1>i DEF JobInv
    <2>2. \A x \in Ops : ocrDay'[x] <= today
      BY <1>i, <1>c, <1>d DEF JobInv
    <2>3. \A x \in Ops : ocrDay[x] # 0 => ocrDay'[x] # 0
      BY <1>c, <1>d
    <2>4. \A x \in Ops : (Kind[x] = "OCR" /\ RecordsOf[x] # {} /\ job[x].state # "ABSENT") =>
             ocrDay'[x] # 0
      BY <1>i, <2>3 DEF JobInv
    <2>5. ASSUME NEW x \in Callers, pc[x] \in {"waiting", "holding"}, Kind[op[x]] = "OCR",
                 RecordsOf[op[x]] # {}
          PROVE  ocrDay'[op[x]] # 0
      <3>1. op[x] \in Ops
        BY <1>i, <2>5 DEF CallerInv
      <3>2. ocrDay[op[x]] # 0
        BY <1>i, <2>5 DEF JobInv
      <3> QED BY <2>3, <3>1, <3>2
    <2> QED BY <1>u, <2>1, <2>2, <2>4, <2>5 DEF JobInv, NoJob
  <1>3. ExecutionInv' /\ CompletedJobHasItsRuns' /\ ItemIsReinjectedOnce'
    BY <1>i, <1>u DEF ExecutionInv, CompletedJobHasItsRuns, ItemIsReinjectedOnce
  <1>4. OriginInv'
    BY <1>i, <1>c, <1>d, <1>o, <1>r, <1>y DEF OriginInv
  <1>5. RequestInv'
    <2>1. \A x \in Ops : job[x].requests # {} => ocrDay'[x] = ocrDay[x]
      BY <1>c, <1>j
    <2> QED BY <1>i, <1>u, <2>1 DEF RequestInv, Cut
  <1>6. DataComesWithItsJob'
    <2>1. \A x \in Ops : ocrDay[x] # 0 => ocrDay'[x] # 0
      BY <1>c, <1>d
    <2> SUFFICES ASSUME NEW r \in Records, origin'[r] # NoOp
                 PROVE  \/ Kind[origin'[r]] = "OCR" /\ ocrDay'[origin'[r]] # 0
                              /\ job[origin'[r]].state = "ABSENT"
                        \/ CellsOf[r] \subseteq RequestedCells(origin'[r])
      BY <1>u DEF DataComesWithItsJob, RequestedCells
    <2>2. CASE r \in RecordsOf[o]
      BY <1>c, <1>d, <1>j, <1>o, <1>r, <2>2
    <2>3. CASE r \notin RecordsOf[o]
      BY <1>i, <1>r, <1>y, <2>1, <2>3 DEF DataComesWithItsJob
    <2> QED BY <2>2, <2>3
  <1>7. SnapshotInv'
    <2>1. Incorporated \subseteq Incorporated'
      BY <1>n, <1>r DEF Incorporated
    <2>2. ASSUME NEW x \in Callers, pc[x] = "calculating", NEW r \in Records, origin'[r] = op[x]
          PROVE  r \in snapshot[x]
      <3>1. job[op[x]].state # "ABSENT"
        BY <1>i, <2>2 DEF ExecutionInv
      <3>2. origin[r] = op[x]
        BY <1>j, <1>r, <2>2, <3>1
      <3> QED BY <1>i, <2>2, <3>2 DEF SnapshotInv
    <2>3. \A c \in Cells : obs'[c].asOf <= Cut(MonthOf[c], today)'
      BY <1>i, <1>u DEF SnapshotInv, Cut
    <2>4. \A c \in Cells : obs'[c].records \subseteq {r \in Incorporated' : c \in CellsOf[r]}
      <3>1. \A c \in Cells : obs[c].records \subseteq {r \in Incorporated : c \in CellsOf[r]}
        BY <1>i DEF SnapshotInv
      <3> QED BY <1>u, <2>1, <3>1
    <2>5. \A x \in Callers : pc[x] = "calculating" =>
             /\ snapshot[x] \subseteq Incorporated'
             /\ \A c \in Cells : obs[c].records \subseteq snapshot[x]
      BY <1>i, <2>1 DEF SnapshotInv
    <2> QED BY <1>u, <2>2, <2>3, <2>4, <2>5 DEF SnapshotInv
  <1>8. CutInv'
    <2> SUFFICES ASSUME NEW r \in Records, origin'[r] # NoOp, origin'[r] \notin spanned',
                        NEW c \in CellsOf[r], NEW k \in CutsOf(origin[r], MonthOf[c])'
                 PROVE  /\ obs[c].asOf > k => r \in obs[c].records
                        /\ \A x \in Callers : pc[x] = "calculating" =>
                              \A e \in todo[x] : (c \in e.cells /\ e.asOf > k) =>
                                  r \in snapshot[x]
      BY <1>u DEF CutInv
    <2>1. c \in Cells /\ MonthOf[c] \in Months
      OBVIOUS
    <2>2. CASE r \in RecordsOf[o]
      <3>1. origin'[r] = o /\ day[w] = today /\ ocrDay'[o] = today
        BY <1>c, <1>o, <1>r, <1>s, <2>2
      <3>2. k = Cut(MonthOf[c], today)
        BY <1>o, <3>1 DEF CutsOf, Cut
      <3>3. k \in Nat /\ obs[c].asOf \in Nat /\ obs[c].asOf <= k
        BY <1>i, <2>1, <3>2, CutType DEF SnapshotInv, TypeOK, Observation
      <3>4. ASSUME NEW x \in Callers, pc[x] = "calculating", NEW e \in todo[x], c \in e.cells
            PROVE  ~(e.asOf > k)
        <4>1. op[x] \in Ops /\ e \in job[op[x]].requests /\ e.asOf \in Nat
          BY <1>i, <3>4 DEF CallerInv, ExecutionInv, TypeOK, Request
        <4>2. e.asOf <= Cut(e.month, today) /\ MonthOf[c] = e.month
          BY <1>i, <3>4, <4>1 DEF RequestInv
        <4> QED BY <3>2, <3>3, <4>1, <4>2
      <3> QED BY <3>3, <3>4
    <2>3. CASE r \notin RecordsOf[o]
      <3>1. origin[r] = origin'[r] /\ origin[r] \in Ops /\ origin[r] # o
        BY <1>i, <1>o, <1>r, <1>y, <2>3 DEF OriginInv
      <3>2. k \in CutsOf(origin[r], MonthOf[c])
        BY <1>c, <1>u, <3>1 DEF CutsOf, Cut
      <3>3. origin[r] \notin spanned
        BY <1>s, <3>1
      <3> QED BY <1>i, <3>1, <3>2, <3>3 DEF CutInv
    <2> QED BY <2>2, <2>3
  <1>9. CountedInv'
    <2> SUFFICES ASSUME NEW r \in Records, origin'[r] # NoOp, origin'[r] \notin spanned',
                        NEW e \in job[origin'[r]].requests,
                        run[origin'[r]][e.month] = "COMPLETED",
                        NEW c \in e.cells, c \in CellsOf[r]
                 PROVE  r \in obs[c].records
      BY <1>u DEF CountedInv
    <2>1. origin'[r] = origin[r] /\ origin[r] \notin spanned
      BY <1>j, <1>r, <1>s
    <2> QED BY <1>i, <2>1 DEF CountedInv
  <1> QED
    BY <1>1, <1>2, <1>3, <1>4, <1>5, <1>6, <1>7, <1>8, <1>9 DEF IInv

-----------------------------------------------------------------------------
(* A run is finished *)

(* What is calculated under the table lock contains what was there.        *)
LEMMA RecalculatedGrows ==
  ASSUME IInv, NEW w \in Callers, pc[w] = "calculating", NEW r \in NextRequests(w),
         NEW c \in Cells
  PROVE  /\ obs[c].records \subseteq Recalculated(w, r)[c].records
         /\ obs[c].asOf <= Recalculated(w, r)[c].asOf
         /\ Recalculated(w, r)[c].asOf <= Cut(MonthOf[c], today)
         /\ Recalculated(w, r)[c].records \subseteq {x \in Incorporated : c \in CellsOf[x]}
  <1>i. TypeOK /\ SnapshotInv /\ CallerInv /\ ExecutionInv /\ RequestInv
    BY DEF IInv
  <1>1. r \in todo[w] /\ r.asOf \in Nat /\ obs[c].asOf \in Nat
    BY <1>i, NextRequestsType DEF TypeOK, Observation
  <1>2. /\ obs[c].records \subseteq {x \in Incorporated : c \in CellsOf[x]}
        /\ obs[c].records \subseteq snapshot[w] /\ snapshot[w] \subseteq Incorporated
        /\ obs[c].asOf <= Cut(MonthOf[c], today)
    BY <1>i DEF SnapshotInv
  <1>3. c \in r.cells => r.asOf <= Cut(MonthOf[c], today)
    <2>1. op[w] \in Ops /\ r \in job[op[w]].requests
      BY <1>i, <1>1 DEF CallerInv, ExecutionInv
    <2> QED BY <1>i, <2>1 DEF RequestInv
  <1>4. CASE c \in r.cells /\ Replaces(obs[c].asOf, r.asOf)
    <2>1. Recalculated(w, r)[c]
             = [asOf |-> r.asOf, records |-> {x \in snapshot[w] : c \in CellsOf[x]}]
      BY <1>4 DEF Recalculated
    <2>2. obs[c].asOf <= r.asOf
      BY <1>1, <1>4 DEF Replaces
    <2> QED BY <1>2, <1>3, <1>4, <2>1, <2>2
  <1>5. CASE ~(c \in r.cells /\ Replaces(obs[c].asOf, r.asOf))
    <2>1. Recalculated(w, r)[c] = obs[c]
      BY <1>5 DEF Recalculated
    <2> QED BY <1>1, <1>2, <2>1
  <1> QED BY <1>4, <1>5

LEMMA FinishRunStep ==
  ASSUME IInv, NEW w \in Callers, FinishRun(w), TypeOK', OpInHand'
  PROVE  IInv' /\ ObservationsGrow
  <1>i. /\ TypeOK /\ CallerInv /\ JobInv /\ ExecutionInv /\ ItemInv /\ OriginInv /\ RequestInv
        /\ DataComesWithItsJob /\ CompletedJobHasItsRuns /\ ItemIsReinjectedOnce
        /\ SnapshotInv /\ CutInv /\ CountedInv
    BY DEF IInv
  <1>u. /\ UNCHANGED <<job, origin, ocrDay, item, op, day, today, spanned>>
        /\ pc[w] = "calculating"
    BY DEF FinishRun
  <1>1. PICK r \in NextRequests(w) :
          /\ IF run[op[w]][r.month] = "COMPLETED" THEN UNCHANGED <<run, obs>>
             ELSE /\ run' = [run EXCEPT ![op[w]][r.month] = "COMPLETED"]
                  /\ obs' = Recalculated(w, r)
          /\ todo' = [todo EXCEPT ![w] = @ \ {r}]
    BY DEF FinishRun
  <1> DEFINE o == op[w]
  <1>2. /\ o \in Ops /\ r \in todo[w] /\ r \in job[o].requests /\ r.month \in Months
        /\ r.asOf \in Nat /\ job[o].state # "ABSENT"
    BY <1>i, <1>u, NextRequestsType DEF CallerInv, ExecutionInv
  <1>3. run'[o][r.month] = "COMPLETED"
    BY <1>i, <1>1, <1>2 DEF TypeOK
  <1>4. \A x \in Ops, m \in Months :
           /\ run[x][m] = "COMPLETED" => run'[x][m] = "COMPLETED"
           /\ run'[x][m] = "COMPLETED" => run[x][m] = "COMPLETED" \/ (x = o /\ m = r.month)
    BY <1>i, <1>1, <1>2 DEF TypeOK
  <1>5. \A x \in Ops : \A e \in job[x].requests : e.month \in Months
    BY <1>i DEF TypeOK, Job, Request
  (* Nobody else calculates, and the caller that did no longer does.       *)
  <1>6. \A x \in Callers : pc'[x] # "calculating"
    <2>1. pc'[w] = "running"
      BY <1>i DEF FinishRun, TypeOK
    <2>2. \A x \in Callers : x # w => pc'[x] = pc[x]
      BY <1>i DEF FinishRun, TypeOK
    <2> QED BY <1>i, <1>u, <2>1, <2>2 DEF CallerInv
  <1>7. \A x \in Callers : x # w => pc'[x] = pc[x] /\ todo'[x] = todo[x]
    BY <1>i, <1>1 DEF FinishRun, TypeOK
  <1>8. pc'[w] = "running" /\ todo'[w] = todo[w] \ {r}
    BY <1>i, <1>1 DEF FinishRun, TypeOK
  <1>9. \A c \in Cells :
           /\ obs[c].records \subseteq obs'[c].records
           /\ obs[c].asOf <= obs'[c].asOf
           /\ obs'[c].asOf <= Cut(MonthOf[c], today)
           /\ obs'[c].records \subseteq {x \in Incorporated : c \in CellsOf[x]}
    <2>1. CASE run[o][r.month] = "COMPLETED"
      BY <1>1, <1>i, <2>1 DEF SnapshotInv, TypeOK, Observation
    <2>2. CASE run[o][r.month] # "COMPLETED"
      BY <1>1, <1>u, <2>2, RecalculatedGrows
    <2> QED BY <2>1, <2>2
  <1>y. \A x \in Records : origin[x] # NoOp => origin[x] \in Ops
    BY <1>i DEF TypeOK
  <1> HIDE DEF o
  <1>10. ObservationsGrow
    BY <1>9 DEF ObservationsGrow
  <1>11. CallerInv'
    BY <1>i, <1>u, <1>6, <1>7, <1>8 DEF CallerInv, OpInHand
  <1>12. JobInv'
    <2>1. \A x \in Ops : job[x].state = "ABSENT" =>
             job[x] = NoJob /\ \A m \in Months : run'[x][m] # "COMPLETED"
      BY <1>i, <1>2, <1>4 DEF JobInv
    <2>2. /\ \A x \in Ops : ocrDay[x] <= today
          /\ \A x \in Ops : (Kind[x] = "OCR" /\ RecordsOf[x] # {} /\ job[x].state # "ABSENT") =>
                ocrDay[x] # 0
          /\ \A x \in Callers : (pc'[x] \in {"waiting", "holding"} /\ Kind[op[x]] = "OCR"
                                 /\ RecordsOf[op[x]] # {}) => ocrDay[op[x]] # 0
      BY <1>i, <1>7, <1>8 DEF JobInv
    <2> QED BY <1>u, <2>1, <2>2 DEF JobInv, NoJob
  <1>13. ExecutionInv'
    <2>1. ASSUME NEW x \in Callers, pc'[x] \in {"running", "calculating"}
          PROVE  /\ \A e \in job[op[x]].requests :
                       e \in todo'[x] \/ run'[op[x]][e.month] = "COMPLETED"
                 /\ todo'[x] \subseteq job[op[x]].requests
      <3>1. op[x] \in Ops /\ pc[x] \in {"running", "calculating"}
        BY <1>i, <1>u, <1>7, <2>1 DEF CallerInv
      <3>2. todo'[x] \subseteq todo[x] /\ todo[x] \subseteq job[op[x]].requests
        BY <1>i, <1>7, <1>8, <3>1 DEF ExecutionInv
      <3>3. ASSUME NEW e \in job[op[x]].requests, e \notin todo'[x]
            PROVE  run'[op[x]][e.month] = "COMPLETED"
        <4>1. CASE e \in todo[x]
          BY <1>3, <1>7, <1>8, <3>3, <4>1 DEF o
        <4>2. CASE e \notin todo[x]
          <5>1. run[op[x]][e.month] = "COMPLETED" /\ e.month \in Months
            BY <1>i, <1>5, <3>1, <3>3, <4>2 DEF ExecutionInv
          <5> QED BY <1>4, <3>1, <5>1
        <4> QED BY <4>1, <4>2
      <3> QED BY <3>2, <3>3
    <2>2. \A x \in Callers :
             pc'[x] \in {"checking", "running", "calculating", "recording", "failing"} =>
                job[op[x]].state # "ABSENT"
      BY <1>i, <1>u, <1>7 DEF ExecutionInv
    <2> QED BY <1>u, <2>1, <2>2 DEF ExecutionInv
  <1>14. ItemInv' /\ OriginInv' /\ RequestInv' /\ DataComesWithItsJob' /\ ItemIsReinjectedOnce'
    BY <1>i, <1>u
       DEF ItemInv, OriginInv, RequestInv, Cut, DataComesWithItsJob, RequestedCells,
           ItemIsReinjectedOnce
  <1>15. CompletedJobHasItsRuns'
    <2> SUFFICES ASSUME NEW x \in Ops, job[x].state = "COMPLETED", NEW e \in job[x].requests
                 PROVE  run'[x][e.month] = "COMPLETED"
      BY <1>u DEF CompletedJobHasItsRuns
    <2>1. run[x][e.month] = "COMPLETED" /\ e.month \in Months
      BY <1>i, <1>5 DEF CompletedJobHasItsRuns
    <2> QED BY <1>4, <2>1
  <1>16. SnapshotInv'
    <2>1. Incorporated' = Incorporated
      BY <1>u DEF Incorporated
    <2>2. \A c \in Cells : obs'[c].asOf <= Cut(MonthOf[c], today)'
      BY <1>u, <1>9 DEF Cut
    <2> QED BY <1>6, <1>9, <2>1, <2>2 DEF SnapshotInv
  <1>17. CutInv'
    <2> SUFFICES ASSUME NEW x \in Records, origin[x] # NoOp, origin[x] \notin spanned,
                        NEW c \in CellsOf[x], NEW k \in CutsOf(origin[x], MonthOf[c]),
                        obs'[c].asOf > k
                 PROVE  x \in obs'[c].records
      BY <1>u, <1>6 DEF CutInv, CutsOf, Cut
    <2>c. c \in Cells
      OBVIOUS
    <2>1. CASE obs'[c] = obs[c]
      BY <1>i, <2>1 DEF CutInv
    <2>2. CASE obs'[c] # obs[c]
      <3>1. c \in r.cells /\ obs'[c] = [asOf |-> r.asOf, records |-> {z \in snapshot[w] : c \in CellsOf[z]}]
        BY <1>1, <2>c, <2>2 DEF Recalculated
      <3>2. x \in snapshot[w]
        <4>1. r.asOf > k
          BY <3>1
        <4>2. \A v \in Callers : pc[v] = "calculating" =>
                 \A e \in todo[v] : (c \in e.cells /\ e.asOf > k) => x \in snapshot[v]
          BY <1>i DEF CutInv
        <4> QED BY <1>2, <1>u, <3>1, <4>1, <4>2
      <3> QED BY <3>1, <3>2
    <2> QED BY <2>1, <2>2
  <1>18. CountedInv'
    <2> SUFFICES ASSUME NEW x \in Records, origin[x] # NoOp, origin[x] \notin spanned,
                        NEW e \in job[origin[x]].requests,
                        run'[origin[x]][e.month] = "COMPLETED",
                        NEW c \in e.cells, c \in CellsOf[x]
                 PROVE  x \in obs'[c].records
      BY <1>u DEF CountedInv
    <2>1. c \in Cells /\ origin[x] \in Ops /\ e.month \in Months
      BY <1>y, <1>5
    <2>2. CASE run[origin[x]][e.month] = "COMPLETED"
      BY <1>i, <1>9, <2>1, <2>2 DEF CountedInv
    <2>3. CASE run[origin[x]][e.month] # "COMPLETED"
      <3>1. origin[x] = o /\ e.month = r.month
        BY <1>4, <2>1, <2>3
      <3>2. e = r /\ MonthOf[c] = r.month
        BY <1>i, <1>2, <2>1, <3>1 DEF RequestInv
      <3>3. obs' = Recalculated(w, r)
        BY <1>1, <2>3, <3>1 DEF o
      <3>4. x \in snapshot[w]
        BY <1>i, <1>u, <3>1 DEF SnapshotInv, o
      <3>5. CASE Replaces(obs[c].asOf, r.asOf)
        <4>1. obs'[c].records = {z \in snapshot[w] : c \in CellsOf[z]}
          BY <2>1, <3>2, <3>3, <3>5 DEF Recalculated
        <4> QED BY <3>4, <4>1
      <3>6. CASE ~Replaces(obs[c].asOf, r.asOf)
        <4>1. obs[c].asOf > r.asOf
          BY <1>i, <1>2, <2>1, <3>6 DEF Replaces, TypeOK, Observation
        <4>2. r.asOf \in CutsOf(o, MonthOf[c])
          BY <1>i, <1>2, <3>2 DEF CutsOf, RequestInv
        <4>3. x \in obs[c].records
          BY <1>i, <3>1, <4>1, <4>2 DEF CutInv
        <4> QED BY <1>9, <2>1, <4>3
      <3> QED BY <3>5, <3>6
    <2> QED BY <2>2, <2>3
  <1> QED
    BY <1>10, <1>11, <1>12, <1>13, <1>14, <1>15, <1>16, <1>17, <1>18 DEF IInv

-----------------------------------------------------------------------------
(* A job is created *)

(* The requests of a set of cells: one per month, for its cells and no     *)
(* other, all of them with the cut of one day.                             *)
Asks(requests, cells, d) ==
    /\ UNION {e.cells : e \in requests} = cells
    /\ \A e \in requests :
          /\ e.month \in Months
          /\ e.asOf = Cut(e.month, d)
          /\ \A c \in e.cells : MonthOf[c] = e.month
          /\ \A f \in requests : f.month = e.month => f = e

LEMMA RequestsForCells ==
  ASSUME NEW cells \in SUBSET Cells, NEW d \in Nat
  PROVE  Asks(RequestsFor(cells, d), cells, d)
  <1> DEFINE R(m) == [month |-> m, cells |-> {c \in cells : MonthOf[c] = m}, asOf |-> Cut(m, d)]
  <1>a. RequestsFor(cells, d) = {R(m) : m \in {MonthOf[c] : c \in cells}}
    BY DEF RequestsFor
  <1>2. \A m : R(m).month = m /\ R(m).cells = {c \in cells : MonthOf[c] = m} /\ R(m).asOf = Cut(m, d)
    OBVIOUS
  <1> HIDE DEF R
  <1>1. \A e \in RequestsFor(cells, d) : \E m \in Months : e = R(m)
    BY <1>a
  <1>3. ASSUME NEW c \in cells PROVE R(MonthOf[c]) \in RequestsFor(cells, d)
    <2>1. MonthOf[c] \in {MonthOf[x] : x \in cells}
      OBVIOUS
    <2> QED BY <1>a, <2>1, Zenon
  <1>4. \A e \in RequestsFor(cells, d) :
           /\ e.month \in Months /\ e = R(e.month) /\ e.asOf = Cut(e.month, d)
           /\ e.cells = {c \in cells : MonthOf[c] = e.month}
    BY <1>1, <1>2
  <1>5. UNION {e.cells : e \in RequestsFor(cells, d)} = cells
    <2>1. \A c \in cells : c \in R(MonthOf[c]).cells
      BY <1>2
    <2> QED BY <1>3, <1>4, <2>1
  <1> QED BY <1>4, <1>5 DEF Asks

(* What a job asks for, and with the cut of which day.                     *)
LEMMA RequestsOfJob ==
  ASSUME TypeOK, NEW o \in Ops, NEW d \in Nat
  PROVE  /\ (Kind[o] = "OCR" /\ ocrDay[o] = 0) => RequestsOf(o, d) = {}
         /\ (Kind[o] = "OCR" /\ ocrDay[o] # 0) =>
               Asks(RequestsOf(o, d), CellsOfAll(RecordsOf[o]), ocrDay[o])
         /\ Kind[o] = "SCHEDULED" =>
               \E cells \in SUBSET Cells : Asks(RequestsOf(o, d), cells, Reference[o])
         /\ Kind[o] \notin {"OCR", "SCHEDULED"} =>
               Asks(RequestsOf(o, d), CellsOfAll(NewRecords(o)), d)
  <1>1. ocrDay[o] \in Nat /\ Reference[o] \in Nat
    BY DEF TypeOK
  <1>2. RecordsOf[o] \in SUBSET Records
    OBVIOUS
  <1>3. CASE Kind[o] = "OCR"
    <2>1. CASE ocrDay[o] = 0
      BY <1>3, <2>1 DEF RequestsOf
    <2>2. CASE ocrDay[o] # 0
      <3>1. CellsOfAll(RecordsOf[o]) \in SUBSET Cells
        BY <1>2, CellsOfAllType
      <3>2. RequestsOf(o, d) = RequestsFor(CellsOfAll(RecordsOf[o]), ocrDay[o])
        BY <1>3, <2>2 DEF RequestsOf
      <3> QED BY <1>1, <1>3, <2>2, <3>1, <3>2, RequestsForCells
    <2> QED BY <2>1, <2>2
  <1>4. CASE Kind[o] = "SCHEDULED"
    <2> DEFINE due == {c \in Cells : Reference[o] \in FirstDay[MonthOf[c]]..LastDay[MonthOf[c]]}
    <2>1. due \in SUBSET Cells
      OBVIOUS
    <2>2. RequestsOf(o, d) = RequestsFor(due, Reference[o])
      BY <1>4 DEF RequestsOf
    <2> HIDE DEF due
    <2> QED BY <1>1, <1>4, <2>1, <2>2, RequestsForCells
  <1>5. CASE Kind[o] \notin {"OCR", "SCHEDULED"}
    <2>1. CellsOfAll(NewRecords(o)) \in SUBSET Cells
      BY NewRecordsType, CellsOfAllType
    <2>2. RequestsOf(o, d) = RequestsFor(CellsOfAll(NewRecords(o)), d)
      BY <1>5 DEF RequestsOf
    <2> QED BY <1>5, <2>1, <2>2, RequestsForCells
  <1> QED BY <1>3, <1>4, <1>5

(* The requests of a new job: well formed, due, and for all of its data.   *)
LEMMA NewRequests ==
  ASSUME IInv, NEW w \in Callers, CreateJob(w)
  PROVE  LET o == op[w]  requests == RequestsOf(o, day[w])
         IN  /\ \A e \in requests :
                   /\ e.month \in Months
                   /\ e.asOf <= Cut(e.month, today)
                   /\ \A c \in e.cells : MonthOf[c] = e.month
                   /\ \A f \in requests : f.month = e.month => f = e
                   /\ Kind[o] = "OCR" => e.asOf = Cut(e.month, ocrDay[o])
                   /\ NewRecords(o) # {} => e.asOf = Cut(e.month, day[w])
             /\ \A r \in NewRecords(o) : CellsOf[r] \subseteq UNION {e.cells : e \in requests}
             /\ (Kind[o] = "OCR" /\ RecordsOf[o] # {}) =>
                   \A r \in RecordsOf[o] : CellsOf[r] \subseteq UNION {e.cells : e \in requests}
  <1> DEFINE o == op[w]
             requests == RequestsOf(o, day[w])
             Good(e) == /\ e.month \in Months
                        /\ e.asOf <= Cut(e.month, today)
                        /\ \A c \in e.cells : MonthOf[c] = e.month
                        /\ \A f \in requests : f.month = e.month => f = e
  <1>i. TypeOK /\ CallerInv /\ JobInv
    BY DEF IInv
  <1>1. /\ o \in Ops /\ day[w] \in Nat /\ day[w] <= today /\ today \in Nat
        /\ ocrDay[o] \in Nat /\ ocrDay[o] <= today
        /\ Kind[o] = "SCHEDULED" => Reference[o] <= today
        /\ (Kind[o] = "OCR" /\ RecordsOf[o] # {}) => ocrDay[o] # 0
    BY <1>i DEF CreateJob, TypeOK, CallerInv, JobInv
  <1>2. ASSUME NEW cells, NEW d \in Nat, d <= today, Asks(requests, cells, d)
        PROVE  \A e \in requests : Good(e) /\ e.asOf = Cut(e.month, d)
    <2> SUFFICES ASSUME NEW e \in requests
                 PROVE  Good(e) /\ e.asOf = Cut(e.month, d)
      OBVIOUS
    <2>1. /\ e.month \in Months
          /\ e.asOf = Cut(e.month, d)
          /\ \A c \in e.cells : MonthOf[c] = e.month
          /\ \A f \in requests : f.month = e.month => f = e
      BY <1>2 DEF Asks
    <2>2. Cut(e.month, d) <= Cut(e.month, today)
      BY <1>1, <1>2, <2>1, CutGrows
    <2> QED BY <2>1, <2>2
  <1>3. \A records : \A r \in records : CellsOf[r] \subseteq CellsOfAll(records)
    BY DEF CellsOfAll
  <1>4. CASE Kind[o] = "OCR"
    <2>1. NewRecords(o) = {}
      BY <1>4 DEF NewRecords
    <2>2. CASE ocrDay[o] = 0
      <3>1. requests = {}
        BY <1>i, <1>1, <1>4, <2>2, RequestsOfJob
      <3> QED BY <1>1, <1>4, <2>1, <2>2, <3>1
    <2>3. CASE ocrDay[o] # 0
      <3>1. Asks(requests, CellsOfAll(RecordsOf[o]), ocrDay[o])
        BY <1>i, <1>1, <1>4, <2>3, RequestsOfJob
      <3>2. \A e \in requests : Good(e) /\ e.asOf = Cut(e.month, ocrDay[o])
        BY <1>1, <1>2, <3>1
      <3>3. UNION {e.cells : e \in requests} = CellsOfAll(RecordsOf[o])
        BY <3>1 DEF Asks
      <3> HIDE DEF requests
      <3> QED BY <1>3, <2>1, <3>2, <3>3 DEF requests
    <2> QED BY <2>2, <2>3
  <1>5. CASE Kind[o] = "SCHEDULED"
    <2>1. NewRecords(o) = {}
      BY <1>5 DEF NewRecords
    <2>2. PICK cells \in SUBSET Cells : Asks(requests, cells, Reference[o])
      BY <1>i, <1>1, <1>5, RequestsOfJob
    <2>3. \A e \in requests : Good(e)
      BY <1>1, <1>2, <1>5, <2>2
    <2> QED BY <1>5, <2>1, <2>3
  <1>6. CASE Kind[o] \notin {"OCR", "SCHEDULED"}
    <2>1. Asks(requests, CellsOfAll(NewRecords(o)), day[w])
      BY <1>i, <1>1, <1>6, RequestsOfJob
    <2>2. \A e \in requests : Good(e) /\ e.asOf = Cut(e.month, day[w])
      BY <1>1, <1>2, <2>1
    <2>3. UNION {e.cells : e \in requests} = CellsOfAll(NewRecords(o))
      BY <2>1 DEF Asks
    <2> QED BY <1>3, <1>6, <2>2, <2>3
  <1> QED BY <1>4, <1>5, <1>6

LEMMA CreateJobStep ==
  ASSUME IInv, NEW w \in Callers, CreateJob(w), TypeOK', OpInHand'
  PROVE  IInv'
  <1>i. /\ TypeOK /\ CallerInv /\ JobInv /\ ExecutionInv /\ ItemInv /\ OriginInv /\ RequestInv
        /\ DataComesWithItsJob /\ CompletedJobHasItsRuns /\ ItemIsReinjectedOnce
        /\ SnapshotInv /\ CutInv /\ CountedInv
    BY DEF IInv
  <1>u. UNCHANGED <<run, ocrDay, obs, runLock, today>>
    BY DEF CreateJob
  <1> DEFINE o == op[w]
             requests == RequestsOf(o, day[w])
             new == NewRecords(o)
  <1>o. o \in Ops /\ job[o].state = "ABSENT" /\ job[o] = NoJob /\ job[o].requests = {}
        /\ NoJob.item = "NONE" /\ \A m \in Months : run[o][m] # "COMPLETED"
    BY <1>i DEF CreateJob, CallerInv, JobInv, NoJob
  <1>j. /\ \A x \in Ops \ {o} : job'[x] = job[x]
        /\ job'[o] = NewJob(o, day[w])
        /\ job'[o].requests = requests
        /\ job'[o].state \in {"NO_RELEVANT_WORK", "STARTED"}
        /\ job'[o].item = "Reinyectado" <=> (Kind[o] = "REINJECTION" /\ o \in Conforming)
    BY <1>i, <1>o DEF CreateJob, NewJob, TypeOK
  <1>q. /\ \A e \in requests :
              /\ e.month \in Months
              /\ e.asOf <= Cut(e.month, today)
              /\ \A c \in e.cells : MonthOf[c] = e.month
              /\ \A f \in requests : f.month = e.month => f = e
              /\ Kind[o] = "OCR" => e.asOf = Cut(e.month, ocrDay[o])
              /\ new # {} => e.asOf = Cut(e.month, day[w])
        /\ \A r \in new : CellsOf[r] \subseteq UNION {e.cells : e \in requests}
        /\ (Kind[o] = "OCR" /\ RecordsOf[o] # {}) =>
              \A r \in RecordsOf[o] : CellsOf[r] \subseteq UNION {e.cells : e \in requests}
    BY NewRequests
  <1>r. \A r \in Records : origin'[r] = IF r \in new THEN o ELSE origin[r]
    BY DEF CreateJob
  <1>n. /\ new \subseteq RecordsOf[o]
        /\ Kind[o] = "OCR" => new = {}
        /\ \A r \in new : origin[r] = NoOp
    BY <1>o DEF NewRecords, Incorporated
  <1>s. spanned \subseteq spanned' /\ (new # {} /\ o \notin spanned' => day[w] = today)
    <2>1. today \in Nat /\ day[w] \in Nat /\ day[w] <= today
      BY <1>i DEF CreateJob, CallerInv, TypeOK
    <2> QED BY <2>1 DEF CreateJob
  <1>y. \A r \in Records : origin[r] # NoOp => origin[r] \in Ops
    BY <1>i DEF TypeOK
  (* The caller ends or goes on to execute; it was not calculating.        *)
  <1>c. /\ \A x \in Callers \ {w} : pc'[x] = pc[x] /\ op'[x] = op[x] /\ day'[x] = day[x]
                                    /\ todo'[x] = todo[x] /\ snapshot'[x] = snapshot[x]
        /\ pc'[w] \in {"idle", "checking"} /\ (pc'[w] = "checking" => op'[w] = o)
    <2>1. Proceed(w, NewJob(o, day[w]).state)
      BY DEF CreateJob
    <2>2. CASE Finish(w)
      BY <1>i, <2>2 DEF Finish, TypeOK
    <2>3. CASE ~Finish(w)
      BY <1>i, <2>1, <2>3 DEF Proceed, TypeOK
    <2> QED BY <2>2, <2>3
  (* Nobody executes a job that does not exist.                            *)
  <1>x. \A x \in Callers : pc[x] \in {"running", "calculating"} =>
           x # w /\ op[x] \in Ops \ {o} /\ job'[op[x]] = job[op[x]]
    BY <1>i, <1>o, <1>j DEF CallerInv, ExecutionInv, CreateJob
  <1> HIDE DEF o, requests, new
  <1>1. CallerInv'
    <2>1. ASSUME NEW x \in Callers
          PROVE  /\ pc'[x] # "idle" => op'[x] \in Ops
                 /\ pc'[x] \in {"working", "waiting", "holding"} => day'[x] \in 1..today
                 /\ (pc'[x] # "idle" /\ Kind[op'[x]] = "SCHEDULED") => Reference[op'[x]] <= today
                 /\ pc'[x] = "calculating" => runLock = x
      <3>1. CASE x = w
        <4>1. pc[w] # "idle"
          BY DEF CreateJob
        <4> QED BY <1>i, <1>c, <1>o, <3>1, <4>1 DEF CallerInv, o
      <3>2. CASE x # w
        BY <1>i, <1>c, <3>2 DEF CallerInv
      <3> QED BY <3>1, <3>2
    <2>2. today > 0
      BY <1>i DEF CallerInv
    <2> QED BY <1>u, <2>1, <2>2 DEF CallerInv
  <1>2. JobInv'
    <2>1. \A x \in Ops : job'[x].state = "ABSENT" =>
             job'[x] = NoJob /\ \A m \in Months : run[x][m] # "COMPLETED"
      BY <1>i, <1>j DEF JobInv
    <2>2. \A x \in Ops : ocrDay[x] <= today
      BY <1>i DEF JobInv
    <2>3. (Kind[o] = "OCR" /\ RecordsOf[o] # {}) => ocrDay[o] # 0
      BY <1>i DEF JobInv, CreateJob, o
    <2>4. \A x \in Ops : (Kind[x] = "OCR" /\ RecordsOf[x] # {} /\ job'[x].state # "ABSENT") =>
             ocrDay[x] # 0
      BY <1>i, <1>j, <2>3 DEF JobInv
    <2>5. ASSUME NEW x \in Callers, pc'[x] \in {"waiting", "holding"}, Kind[op'[x]] = "OCR",
                 RecordsOf[op'[x]] # {}
          PROVE  ocrDay[op'[x]] # 0
      <3>1. x # w /\ pc[x] = pc'[x] /\ op'[x] = op[x]
        BY <1>c, <2>5
      <3> QED BY <1>i, <2>5, <3>1 DEF JobInv
    <2> QED BY <1>u, <2>1, <2>2, <2>4, <2>5 DEF JobInv, NoJob
  <1>3. ExecutionInv'
    <2>1. ASSUME NEW x \in Callers, pc'[x] \in Executing
          PROVE  job'[op'[x]].state # "ABSENT"
      <3>1. CASE x = w
        BY <1>c, <1>j, <2>1, <3>1 DEF Executing
      <3>2. CASE x # w
        <4>1. job[op[x]].state # "ABSENT" /\ op[x] \in Ops /\ op'[x] = op[x]
          BY <1>i, <1>c, <2>1, <3>2 DEF ExecutionInv, CallerInv, Executing
        <4> QED BY <1>j, <1>o, <4>1
      <3> QED BY <3>1, <3>2
    <2>2. ASSUME NEW x \in Callers, pc'[x] \in {"running", "calculating"}
          PROVE  /\ \A e \in job'[op'[x]].requests :
                       e \in todo'[x] \/ run[op'[x]][e.month] = "COMPLETED"
                 /\ todo'[x] \subseteq job'[op'[x]].requests
      <3>1. x # w /\ pc[x] = pc'[x] /\ op'[x] = op[x] /\ todo'[x] = todo[x]
        BY <1>c, <2>2
      <3>2. job'[op[x]] = job[op[x]]
        BY <1>x, <2>2, <3>1
      <3> QED BY <1>i, <2>2, <3>1, <3>2 DEF ExecutionInv
    <2>3. \A x \in Callers :
             pc'[x] \in {"checking", "running", "calculating", "recording", "failing"} =>
                job'[op'[x]].state # "ABSENT"
      BY <2>1 DEF Executing
    <2> QED BY <1>u, <2>2, <2>3 DEF ExecutionInv
  <1>4. ItemInv'
    BY <1>i, <1>j DEF ItemInv
  <1>5. OriginInv'
    <2>1. ASSUME NEW r \in Records, r \in new
          PROVE  r \in RecordsOf[o] /\ Kind[o] # "OCR"
      BY <1>n, <2>1
    <2> QED BY <1>i, <1>u, <1>r, <2>1 DEF OriginInv
  <1>6. RequestInv'
    <2> SUFFICES ASSUME NEW x \in Ops, NEW e \in job'[x].requests
                 PROVE  /\ e.asOf <= Cut(e.month, today)
                        /\ \A c \in e.cells : MonthOf[c] = e.month
                        /\ \A f \in job'[x].requests : f.month = e.month => f = e
                        /\ Kind[x] = "OCR" => e.asOf = Cut(e.month, ocrDay[x])
      BY <1>u DEF RequestInv, Cut
    <2>1. CASE x = o
      BY <1>j, <1>q, <2>1
    <2>2. CASE x # o
      BY <1>i, <1>j, <2>2 DEF RequestInv
    <2> QED BY <2>1, <2>2
  <1>7. DataComesWithItsJob'
    <2> SUFFICES ASSUME NEW r \in Records, origin'[r] # NoOp
                 PROVE  \/ Kind[origin'[r]] = "OCR" /\ ocrDay[origin'[r]] # 0
                              /\ job'[origin'[r]].state = "ABSENT"
                        \/ CellsOf[r] \subseteq UNION {e.cells : e \in job'[origin'[r]].requests}
      BY <1>u DEF DataComesWithItsJob, RequestedCells
    <2>1. CASE r \in new
      BY <1>j, <1>q, <1>r, <2>1
    <2>2. CASE r \notin new /\ origin[r] = o
      <3>1. CASE Kind[o] = "OCR"
        <4>1. r \in RecordsOf[o]
          BY <1>i, <1>r, <2>2 DEF OriginInv
        <4> QED BY <1>j, <1>q, <1>r, <2>2, <3>1, <4>1
      <3>2. CASE Kind[o] # "OCR"
        <4>1. CellsOf[r] \subseteq UNION {e.cells : e \in job[o].requests}
          BY <1>i, <1>r, <2>2, <3>2 DEF DataComesWithItsJob, RequestedCells
        <4>2. CellsOf[r] = {}
          BY <1>o, <4>1
        <4> QED BY <4>2
      <3> QED BY <3>1, <3>2
    <2>3. CASE r \notin new /\ origin[r] # o
      <3>1. origin'[r] = origin[r] /\ origin[r] \in Ops \ {o}
        BY <1>r, <1>y, <2>3
      <3>2. job'[origin[r]] = job[origin[r]]
        BY <1>j, <3>1
      <3> QED BY <1>i, <3>1, <3>2 DEF DataComesWithItsJob, RequestedCells
    <2> QED BY <2>1, <2>2, <2>3
  <1>8. CompletedJobHasItsRuns'
    BY <1>i, <1>j, <1>u DEF CompletedJobHasItsRuns
  <1>9. ItemIsReinjectedOnce'
    <2>1. CASE Kind[o] = "REINJECTION" /\ o \in Conforming
      <3>1. /\ item[ItemOf[o]] = "Pendiente" /\ ItemOf[o] \in Items
            /\ item' = [item EXCEPT ![ItemOf[o]] = "Reinyectado"]
        BY <1>o, <2>1 DEF CreateJob, Reinjectable, o
      <3>2. \A x \in Ops \ {o} : job'[x].item = "Reinyectado" =>
               item[ItemOf[x]] = "Reinyectado" /\ ItemOf[x] # ItemOf[o]
        BY <1>i, <1>j, <3>1 DEF ItemIsReinjectedOnce
      <3>3. item'[ItemOf[o]] = "Reinyectado"
        BY <1>i, <3>1 DEF TypeOK
      <3>4. \A x \in Ops \ {o} : job'[x].item = "Reinyectado" => item'[ItemOf[x]] = "Reinyectado"
        <4>1. \A x \in Ops : job[x].item = "Reinyectado" => ItemOf[x] \in Items
          BY <1>i DEF ItemInv
        <4> QED BY <1>i, <1>j, <3>1, <3>2, <4>1 DEF TypeOK
      <3>5. \A x, z \in Ops \ {o} :
               (x # z /\ job'[x].item = "Reinyectado" /\ ItemOf[z] = ItemOf[x]) =>
                  job'[z].item # "Reinyectado"
        BY <1>i, <1>j DEF ItemIsReinjectedOnce
      <3> QED BY <3>2, <3>3, <3>4, <3>5 DEF ItemIsReinjectedOnce
    <2>2. CASE ~(Kind[o] = "REINJECTION" /\ o \in Conforming)
      <3>1. item' = item /\ job'[o].item # "Reinyectado"
        BY <1>j, <2>2 DEF CreateJob, o
      <3> QED BY <1>i, <1>j, <3>1 DEF ItemIsReinjectedOnce
    <2> QED BY <2>1, <2>2
  <1>10. SnapshotInv'
    <2>1. Incorporated \subseteq Incorporated'
      BY <1>o, <1>r DEF Incorporated
    <2>2. \A c \in Cells : obs'[c].asOf <= Cut(MonthOf[c], today)'
      BY <1>i, <1>u DEF SnapshotInv, Cut
    <2>3. \A c \in Cells : obs'[c].records \subseteq {r \in Incorporated' : c \in CellsOf[r]}
      <3>1. \A c \in Cells : obs[c].records \subseteq {r \in Incorporated : c \in CellsOf[r]}
        BY <1>i DEF SnapshotInv
      <3> QED BY <1>u, <2>1, <3>1
    <2>4. ASSUME NEW x \in Callers, pc'[x] = "calculating"
          PROVE  /\ snapshot'[x] \subseteq Incorporated'
                 /\ \A c \in Cells : obs'[c].records \subseteq snapshot'[x]
                 /\ \A r \in Records : origin'[r] = op'[x] => r \in snapshot'[x]
      <3>1. x # w /\ pc[x] = "calculating" /\ op'[x] = op[x] /\ snapshot'[x] = snapshot[x]
        BY <1>c, <2>4
      <3>2. op[x] # o
        BY <1>x, <3>1
      <3>3. \A r \in Records : origin'[r] = op[x] => origin[r] = op[x]
        BY <1>r, <3>2
      <3>4. /\ snapshot[x] \subseteq Incorporated
            /\ \A c \in Cells : obs[c].records \subseteq snapshot[x]
            /\ \A r \in Records : origin[r] = op[x] => r \in snapshot[x]
        BY <1>i, <3>1 DEF SnapshotInv
      <3> QED BY <1>u, <2>1, <3>1, <3>3, <3>4
    <2> QED BY <2>2, <2>3, <2>4 DEF SnapshotInv
  <1>11. CutInv'
    <2> SUFFICES ASSUME NEW r \in Records, origin'[r] # NoOp, origin'[r] \notin spanned',
                        NEW c \in CellsOf[r], NEW k \in CutsOf(origin[r], MonthOf[c])'
                 PROVE  /\ obs[c].asOf > k => r \in obs[c].records
                        /\ \A x \in Callers : pc'[x] = "calculating" =>
                              \A e \in todo'[x] : (c \in e.cells /\ e.asOf > k) =>
                                  r \in snapshot'[x]
      BY <1>u DEF CutInv
    <2>c. c \in Cells /\ MonthOf[c] \in Months
      OBVIOUS
    <2>m. \A x \in Callers : pc'[x] = "calculating" =>
             x # w /\ pc[x] = "calculating" /\ todo'[x] = todo[x] /\ snapshot'[x] = snapshot[x]
      BY <1>c
    <2>1. CASE r \in new
      <3>1. origin'[r] = o /\ day[w] = today /\ Kind[o] # "OCR"
        BY <1>n, <1>r, <1>s, <2>1
      <3>2. k = Cut(MonthOf[c], today)
        BY <1>j, <1>q, <2>1, <3>1 DEF CutsOf
      <3>3. k \in Nat /\ obs[c].asOf \in Nat /\ obs[c].asOf <= k
        BY <1>i, <2>c, <3>2, CutType DEF SnapshotInv, TypeOK, Observation
      <3>4. ASSUME NEW x \in Callers, pc[x] = "calculating", NEW e \in todo[x], c \in e.cells
            PROVE  ~(e.asOf > k)
        <4>1. op[x] \in Ops /\ e \in job[op[x]].requests /\ e.asOf \in Nat
          BY <1>i, <3>4 DEF CallerInv, ExecutionInv, TypeOK, Request
        <4>2. e.asOf <= Cut(e.month, today) /\ MonthOf[c] = e.month
          BY <1>i, <3>4, <4>1 DEF RequestInv
        <4> QED BY <3>2, <3>3, <4>1, <4>2
      <3> QED BY <2>m, <3>3, <3>4
    <2>2. CASE r \notin new /\ (origin[r] # o \/ Kind[o] = "OCR")
      <3>1. origin'[r] = origin[r] /\ origin[r] \in Ops
        BY <1>r, <1>y, <2>2
      <3>2. k \in CutsOf(origin[r], MonthOf[c])
        BY <1>j, <1>u, <2>2, <3>1 DEF CutsOf, Cut
      <3>3. origin[r] \notin spanned
        BY <1>s, <3>1
      <3>4. /\ obs[c].asOf > k => r \in obs[c].records
            /\ \A x \in Callers : pc[x] = "calculating" =>
                  \A e \in todo[x] : (c \in e.cells /\ e.asOf > k) => r \in snapshot[x]
        BY <1>i, <3>1, <3>2, <3>3 DEF CutInv
      <3> QED BY <2>m, <3>4
    <2>3. CASE r \notin new /\ origin[r] = o /\ Kind[o] # "OCR"
      <3>1. CellsOf[r] \subseteq UNION {e.cells : e \in job[o].requests}
        BY <1>i, <1>r, <2>3 DEF DataComesWithItsJob, RequestedCells
      <3> QED BY <1>o, <3>1
    <2> QED BY <2>1, <2>2, <2>3
  <1>12. CountedInv'
    <2> SUFFICES ASSUME NEW r \in Records, origin'[r] # NoOp, origin'[r] \notin spanned',
                        NEW e \in job'[origin'[r]].requests,
                        run[origin'[r]][e.month] = "COMPLETED",
                        NEW c \in e.cells, c \in CellsOf[r]
                 PROVE  r \in obs[c].records
      BY <1>u DEF CountedInv
    <2>1. ASSUME origin'[r] = o
          PROVE  FALSE
      <3>1. e \in requests
        BY <1>j, <2>1
      <3>2. e.month \in Months
        BY <1>q, <3>1
      <3> QED BY <1>o, <2>1, <3>2
    <2>2. origin[r] = origin'[r] /\ origin[r] \in Ops \ {o}
      BY <1>r, <1>y, <2>1
    <2>3. job'[origin[r]] = job[origin[r]] /\ origin[r] \notin spanned
      BY <1>j, <1>s, <2>2
    <2> QED BY <1>i, <2>2, <2>3 DEF CountedInv
  <1> QED
    BY <1>1, <1>2, <1>3, <1>4, <1>5, <1>6, <1>7, <1>8, <1>9, <1>10, <1>11, <1>12 DEF IInv

-----------------------------------------------------------------------------
(* Any step *)

LEMMA OtherStepsKeepObservations ==
  ASSUME TypeOK, UNCHANGED obs
  PROVE  ObservationsGrow
  BY DEF TypeOK, Observation, ObservationsGrow

LEMMA InvStep == IInv /\ [Next]_vars => IInv' /\ ObservationsGrow
  <1> SUFFICES ASSUME IInv, [Next]_vars
               PROVE  IInv' /\ ObservationsGrow
    OBVIOUS
  <1>i. TypeOK /\ OpInHand
    BY DEF IInv, CallerInv, OpInHand
  <1>t. TypeOK' /\ OpInHand'
    BY <1>i, TypeStep
  <1>1. ASSUME NEW w \in Callers, Quiet(w)
        PROVE  IInv' /\ ObservationsGrow
    <2>1. UNCHANGED obs
      BY <1>1, QuietEffect DEF durable
    <2> QED BY <1>i, <1>t, <1>1, <2>1, QuietStep, OtherStepsKeepObservations
  <1>2. ASSUME NEW w \in Callers, RecordOcr(w)
        PROVE  IInv' /\ ObservationsGrow
    BY <1>i, <1>t, <1>2, RecordOcrStep, OtherStepsKeepObservations DEF RecordOcr
  <1>3. ASSUME NEW w \in Callers, CreateJob(w)
        PROVE  IInv' /\ ObservationsGrow
    BY <1>i, <1>t, <1>3, CreateJobStep, OtherStepsKeepObservations DEF CreateJob
  <1>4. ASSUME NEW w \in Callers, FinishRun(w)
        PROVE  IInv' /\ ObservationsGrow
    BY <1>t, <1>4, FinishRunStep
  <1>5. ASSUME NEW w \in Callers, RecordFailure(w)
        PROVE  IInv' /\ ObservationsGrow
    BY <1>i, <1>t, <1>5, RecordFailureStep, OtherStepsKeepObservations DEF RecordFailure
  <1>6. ASSUME NEW w \in Callers, FailJob(w)
        PROVE  IInv' /\ ObservationsGrow
    BY <1>i, <1>t, <1>6, FailJobStep, OtherStepsKeepObservations DEF FailJob
  <1>7. ASSUME NEW w \in Callers, CompleteJob(w)
        PROVE  IInv' /\ ObservationsGrow
    BY <1>i, <1>t, <1>7, CompleteJobStep, OtherStepsKeepObservations DEF CompleteJob
  <1>8. ASSUME NEW i \in Items, Discard(i)
        PROVE  IInv' /\ ObservationsGrow
    BY <1>i, <1>t, <1>8, DiscardStep, OtherStepsKeepObservations DEF Discard
  <1>9. CASE NextDay
    BY <1>i, <1>t, <1>9, NextDayStep, OtherStepsKeepObservations DEF NextDay
  <1>10. CASE UNCHANGED vars
    <2>1. UNCHANGED <<job, run, origin, ocrDay, item, obs, runLock, pc, op, day, todo, snapshot,
                      today, spanned>>
      BY <1>10 DEF vars, locals
    <2>2. CallerInv' /\ JobInv' /\ ExecutionInv' /\ ItemInv' /\ OriginInv' /\ RequestInv'
      BY <2>1 DEF IInv, CallerInv, JobInv, NoJob, ExecutionInv, ItemInv, OriginInv, RequestInv, Cut
    <2>3. DataComesWithItsJob' /\ CompletedJobHasItsRuns' /\ ItemIsReinjectedOnce'
      BY <2>1 DEF IInv, DataComesWithItsJob, RequestedCells, CompletedJobHasItsRuns,
                  ItemIsReinjectedOnce
    <2>4. SnapshotInv' /\ CutInv' /\ CountedInv'
      BY <2>1 DEF IInv, SnapshotInv, Incorporated, CutInv, CutsOf, CountedInv, Cut
    <2>5. ObservationsGrow
      BY <1>i, <2>1, OtherStepsKeepObservations
    <2> QED BY <1>t, <2>2, <2>3, <2>4, <2>5 DEF IInv
  <1> QED
    BY <1>1, <1>2, <1>3, <1>4, <1>5, <1>6, <1>7, <1>8, <1>9, <1>10
       DEF Next, Locking, Working, Quiet

LEMMA Invariant == Spec => []IInv
  <1> QED BY InitInv, InvStep, PTL DEF Spec

-----------------------------------------------------------------------------
(* The safety properties *)

(* The data of an operation and the job that asks for its recalculation    *)
(* are committed together (project_records, reinject), or the job follows  *)
(* the final OCR of its operation: never data without its work, nor work   *)
(* for less than the data.                                                 *)
THEOREM DataAndJob == Spec => []DataComesWithItsJob
  <1>1. IInv => DataComesWithItsJob
    BY DEF IInv
  <1> QED BY <1>1, Invariant, PTL

(* A job marked COMPLETED has all of its runs COMPLETED, though any number *)
(* of callers may execute, fail, complete and retry it at once.            *)
THEOREM CompletedWithRuns == Spec => []CompletedJobHasItsRuns
  <1>1. IInv => CompletedJobHasItsRuns
    BY DEF IInv
  <1> QED BY <1>1, Invariant, PTL

(* Concurrent corrections of one quarantined item reinject it once.        *)
THEOREM OneReinjection == Spec => []ItemIsReinjectedOnce
  <1>1. IInv => ItemIsReinjectedOnce
    BY DEF IInv
  <1> QED BY <1>1, Invariant, PTL

(* upsert_observation over concurrent runs of several jobs never takes a   *)
(* record or a day away from an observation.                               *)
THEOREM NothingIsForgotten == Spec => ObservationsOnlyGrow
  <1> QED BY Invariant, InvStep, PTL DEF Spec, ObservationsOnlyGrow

(* A COMPLETED job whose data was committed on the day of its cut is       *)
(* counted in every cell, also where its run gave way to a later cut.      *)
THEOREM CompletedIsCounted == Spec => []ReflectedOnItsDay
  <1>1. IInv => ReflectedOnItsDay
    <2> SUFFICES ASSUME IInv, NEW o \in Ops \ spanned, job[o].state = "COMPLETED",
                        NEW r \in Records, origin[r] = o, NEW c \in CellsOf[r]
                 PROVE  r \in obs[c].records
      BY DEF ReflectedOnItsDay, Reflected
    <2>1. origin[r] # NoOp /\ o \in Ops
      OBVIOUS
    <2>2. CellsOf[r] \subseteq RequestedCells(o)
      BY <2>1 DEF IInv, DataComesWithItsJob
    <2>3. PICK e \in job[o].requests : c \in e.cells
      BY <2>2 DEF RequestedCells
    <2>4. run[o][e.month] = "COMPLETED"
      BY <2>1 DEF IInv, CompletedJobHasItsRuns
    <2> QED BY <2>1, <2>3, <2>4 DEF IInv, CountedInv
  <1> QED BY <1>1, Invariant, PTL

(* Data, jobs and runs stay together through crashes and second callers.   *)
THEOREM JobsBacked == Spec => []JobsAreBacked
  <1>1. DataComesWithItsJob /\ CompletedJobHasItsRuns => JobsAreBacked
    BY DEF JobsAreBacked
  <1> QED BY <1>1, DataAndJob, CompletedWithRuns, PTL

=============================================================================

--------------------------- MODULE ProactiveProofs ---------------------------
(***************************************************************************)
(* Proofs about ProactiveJob, for any workers, operations, cells and        *)
(* bounds: what a run froze stays bound to the observations, what a run or  *)
(* a job settled stays so, and how many runs a job may have.  Two runs need *)
(* a lost advisory lock and snapshots whose closures share no month; where  *)
(* no month lies Depth behind another that cannot be, and every job tells   *)
(* its one run.                                                             *)
(***************************************************************************)
EXTENDS ProactiveJob, FiniteSetTheorems, TLAPS

USE ProactiveConstants

-----------------------------------------------------------------------------
(* The inductive invariant.                                                 *)

(* A worker that serves a call has its operation in hand, and a try left.   *)
LocalInv ==
    \A w \in Workers :
        /\ pc[w] # "idle" => op[w] \in Ops
        /\ pc[w] \in {"idle", "queued", "entering"} => tries[w] = 0
        /\ pc[w] \in {"freezing", "reading", "creating", "finalizing", "locking", "evaluating"} =>
              tries[w] < Attempts
        /\ pc[w] = "creating" => view[w].runs = {}

(* While the lock of an operation was not lost, its holder is the only one  *)
(* that executes it, and only a job that is not finished is executed.       *)
ExclusiveInv ==
    \A w \in Workers : pc[w] \notin {"idle", "queued"} /\ op[w] \notin lost =>
        /\ execLock[op[w]] = w
        /\ pc[w] # "entering" => job[op[w]].state \notin Terminal

(* The runs of a job differ in their input, and the one that is evaluated   *)
(* is not yet complete.                                                     *)
RunsInv ==
    /\ \A o \in Ops : \A r, q \in runs[o] : r.print = q.print => r = q
    /\ \A w \in Workers : pc[w] = "evaluating" =>
          /\ runLock[op[w]] = w
          /\ \A r \in runs[op[w]] : r.print = target[w] => r.state # "COMPLETED"

IInv == TypeOK /\ LocalInv /\ ExclusiveInv /\ RunsInv /\ FrozenStaysBound

-----------------------------------------------------------------------------

(* What a step of w leaves of the others' locals.                           *)
Others(w) ==
    \A v \in Workers \ {w} :
        /\ pc'[v] = pc[v] /\ op'[v] = op[v] /\ tries'[v] = tries[v]
        /\ view'[v] = view[v] /\ target'[v] = target[v]

Moves(w, places) == pc'[w] \in places /\ op'[w] = op[w] /\ tries'[w] = tries[w]

Shape ==
    /\ pc \in [Workers -> Where] /\ op \in [Workers -> Ops \cup {NoOp}]
    /\ view \in [Workers -> View] /\ tries \in [Workers -> 0..Attempts]
    /\ target \in [Workers -> SUBSET Row]

LEMMA TypeShape == TypeOK => Shape
  BY DEF TypeOK, Shape

LEMMA EndsCall ==
  ASSUME Shape, NEW w \in Workers, NEW rows, Finish(w, rows)
  PROVE  Others(w) /\ pc'[w] = "idle" /\ op'[w] = NoOp /\ tries'[w] = 0
  BY DEF Finish, Shape, Others, Moves, GoTo, Where

LEMMA SchedMoves ==
  ASSUME Shape, NEW w \in Workers, NEW o \in Ops, Schedule(w, o)
  PROVE  Others(w) /\ pc'[w] = "queued" /\ op'[w] = o /\ tries'[w] = tries[w]
  BY DEF Schedule, Shape, Others, Moves, GoTo, Where

LEMMA EnterMoves ==
  ASSUME Shape, NEW w \in Workers, Enter(w)
  PROVE  Others(w) /\ Moves(w, {"entering"})
  BY DEF Enter, Shape, Others, Moves, GoTo, Where

LEMMA FreezeMoves ==
  ASSUME Shape, NEW w \in Workers, Freeze(w)
  PROVE  Others(w) /\ Moves(w, {"reading"})
  BY DEF Freeze, Shape, Others, Moves, GoTo, Where

LEMMA FindRunMoves ==
  ASSUME Shape, NEW w \in Workers, FindRun(w)
  PROVE  Others(w) /\ Moves(w, {"closing", "finalizing"})
  BY DEF FindRun, Shape, Others, Moves, GoTo, Where

LEMMA FindNothingMoves ==
  ASSUME Shape, NEW w \in Workers, FindNothingNew(w)
  PROVE  Others(w) /\ Moves(w, {"closing"})
  BY DEF FindNothingNew, Shape, Others, Moves, GoTo, Where

LEMMA FindWorkMoves ==
  ASSUME Shape, NEW w \in Workers, FindWork(w)
  PROVE  Others(w) /\ Moves(w, {"creating"}) /\ view'[w].runs = {}
  BY DEF FindWork, Shape, Others, Moves, GoTo, Where

LEMMA CreateMoves ==
  ASSUME Shape, NEW w \in Workers, CreateRun(w)
  PROVE  Others(w) /\ Moves(w, {"finalizing"})
  BY DEF CreateRun, Shape, Others, Moves, GoTo, Where

LEMMA FinalizeMoves ==
  ASSUME Shape, NEW w \in Workers, Finalize(w)
  PROVE  Others(w) /\ Moves(w, {"locking"})
  BY DEF Finalize, Shape, Others, Moves, GoTo, Where

LEMMA LockMoves ==
  ASSUME Shape, NEW w \in Workers, LockRun(w)
  PROVE  Others(w) /\ Moves(w, {"recording", "closing", "evaluating"}) /\ target'[w] = target[w]
  BY DEF LockRun, Shape, Others, Moves, GoTo, Where

LEMMA CompleteMoves ==
  ASSUME Shape, NEW w \in Workers, CompleteRun(w)
  PROVE  Others(w) /\ Moves(w, {"closing"})
  BY DEF CompleteRun, Shape, Others, Moves, GoTo, Where

LEMMA RaiseMoves ==
  ASSUME Shape, NEW w \in Workers, FreezeRaises(w)
  PROVE  Others(w) /\ Moves(w, {"reconciling"})
  BY DEF FreezeRaises, Shape, Others, Moves, GoTo, Where

LEMMA FinRaiseMoves ==
  ASSUME Shape, NEW w \in Workers, FinalizeRaises(w)
  PROVE  Others(w) /\ Moves(w, {"recording"})
  BY DEF FinalizeRaises, Shape, Others, Moves, GoTo, Where

LEMMA RecordMoves ==
  ASSUME Shape, NEW w \in Workers, RecordFailure(w)
  PROVE  Others(w) /\ Moves(w, {"reconciling"})
  BY DEF RecordFailure, Shape, Others, Moves, GoTo, Where

LEMMA LoseMoves ==
  ASSUME Shape, NEW w \in Workers, LoseFailure(w)
  PROVE  Others(w) /\ Moves(w, {"reconciling"})
  BY DEF LoseFailure, Shape, Others, Moves, GoTo, Where

LEMMA OpenMoves ==
  ASSUME Shape, NEW w \in Workers, Open(w)
  PROVE  /\ Others(w)
         /\ \/ Moves(w, {"freezing"})
            \/ pc'[w] = "idle" /\ op'[w] = NoOp /\ tries'[w] = 0
  <1>1. CASE Finished(job[op[w]].state)
    BY <1>1, EndsCall DEF Open
  <1>2. CASE ~Finished(job[op[w]].state)
    <2>1. /\ pc' = [pc EXCEPT ![w] = "freezing"] /\ op' = op
          /\ view' = view /\ tries' = tries /\ target' = target
      BY <1>2 DEF Open, GoTo
    <2> QED
      BY <2>1 DEF Shape, Others, Moves, Where
  <1> QED
    BY <1>1, <1>2, Zenon

LEMMA SerialMoves ==
  ASSUME Shape, NEW w \in Workers, Serialization(w)
  PROVE  /\ Others(w) /\ op'[w] = op[w] /\ tries'[w] = tries[w] + 1
         /\ pc[w] \in {"reading", "creating", "locking"}
         /\ pc'[w] = (IF tries[w] + 1 < Attempts THEN "freezing" ELSE "reconciling")
  BY DEF Serialization, Readable, Shape, Others, GoTo, Where

(* The locals of a call.                                                    *)
LEMMA LocalStep ==
  ASSUME TypeOK, LocalInv, [Next]_vars
  PROVE  LocalInv'
  <1>1. ASSUME NEW w \in Workers, NEW o \in Ops, Schedule(w, o)
        PROVE  LocalInv'
    <2>1. Shape
      BY TypeShape
    <2>2. pc[w] \in {"idle"}
      BY <1>1 DEF Schedule
    <2>3. Others(w) /\ pc'[w] = "queued" /\ op'[w] = o /\ tries'[w] = tries[w]
      BY <1>1, <2>1, SchedMoves
    <2> QED
      BY <2>2, <2>3 DEF LocalInv, Others, Moves, Attempts
  <1>2. ASSUME NEW w \in Workers, Enter(w)
        PROVE  LocalInv'
    <2>1. Shape
      BY TypeShape
    <2>2. pc[w] \in {"queued"}
      BY <1>2 DEF Enter
    <2>3. Others(w) /\ Moves(w, {"entering"})
      BY <1>2, <2>1, EnterMoves
    <2> QED
      BY <2>2, <2>3 DEF LocalInv, Others, Moves, Attempts
  <1>3. ASSUME NEW w \in Workers, Open(w)
        PROVE  LocalInv'
    <2>1. Shape
      BY TypeShape
    <2>2. pc[w] \in {"entering"}
      BY <1>3 DEF Open
    <2>3. /\ Others(w)
          /\ \/ Moves(w, {"freezing"})
             \/ pc'[w] = "idle" /\ op'[w] = NoOp /\ tries'[w] = 0
      BY <1>3, <2>1, OpenMoves, Zenon
    <2> QED
      BY <2>2, <2>3 DEF LocalInv, Others, Moves, Attempts
  <1>4. ASSUME NEW w \in Workers, Close(w)
        PROVE  LocalInv'
    <2>1. Others(w) /\ pc'[w] = "idle" /\ op'[w] = NoOp /\ tries'[w] = 0
      BY <1>4, TypeShape, EndsCall DEF Close
    <2> QED
      BY <2>1 DEF LocalInv, Others
  <1>5. ASSUME NEW w \in Workers, Reconcile(w)
        PROVE  LocalInv'
    <2>1. Others(w) /\ pc'[w] = "idle" /\ op'[w] = NoOp /\ tries'[w] = 0
      BY <1>5, TypeShape, EndsCall DEF Reconcile
    <2> QED
      BY <2>1 DEF LocalInv, Others
  <1>6. ASSUME NEW w \in Workers, HandlerRaises(w)
        PROVE  LocalInv'
    <2>1. Others(w) /\ pc'[w] = "idle" /\ op'[w] = NoOp /\ tries'[w] = 0
      BY <1>6, TypeShape, EndsCall DEF HandlerRaises
    <2> QED
      BY <2>1 DEF LocalInv, Others
  <1>7. ASSUME NEW w \in Workers, Freeze(w)
        PROVE  LocalInv'
    <2>1. Shape
      BY TypeShape
    <2>2. pc[w] \in {"freezing"}
      BY <1>7 DEF Freeze
    <2>3. Others(w) /\ Moves(w, {"reading"})
      BY <1>7, <2>1, FreezeMoves
    <2> QED
      BY <2>2, <2>3 DEF LocalInv, Others, Moves, Attempts
  <1>8. ASSUME NEW w \in Workers, FindRun(w)
        PROVE  LocalInv'
    <2>1. Shape
      BY TypeShape
    <2>2. pc[w] \in {"reading"}
      BY <1>8 DEF FindRun, Readable
    <2>3. Others(w) /\ Moves(w, {"closing", "finalizing"})
      BY <1>8, <2>1, FindRunMoves
    <2> QED
      BY <2>2, <2>3 DEF LocalInv, Others, Moves, Attempts
  <1>9. ASSUME NEW w \in Workers, FindNothingNew(w)
        PROVE  LocalInv'
    <2>1. Shape
      BY TypeShape
    <2>2. pc[w] \in {"reading"}
      BY <1>9 DEF FindNothingNew, Readable
    <2>3. Others(w) /\ Moves(w, {"closing"})
      BY <1>9, <2>1, FindNothingMoves
    <2> QED
      BY <2>2, <2>3 DEF LocalInv, Others, Moves, Attempts
  <1>10. ASSUME NEW w \in Workers, FindWork(w)
         PROVE  LocalInv'
    <2>1. Shape
      BY TypeShape
    <2>2. pc[w] \in {"reading"}
      BY <1>10 DEF FindWork, Readable
    <2>3. Others(w) /\ Moves(w, {"creating"}) /\ view'[w].runs = {}
      BY <1>10, <2>1, FindWorkMoves
    <2> QED
      BY <2>2, <2>3 DEF LocalInv, Others, Moves, Attempts
  <1>11. ASSUME NEW w \in Workers, CreateRun(w)
         PROVE  LocalInv'
    <2>1. Shape
      BY TypeShape
    <2>2. pc[w] \in {"creating"}
      BY <1>11 DEF CreateRun
    <2>3. Others(w) /\ Moves(w, {"finalizing"})
      BY <1>11, <2>1, CreateMoves
    <2> QED
      BY <2>2, <2>3 DEF LocalInv, Others, Moves, Attempts
  <1>12. ASSUME NEW w \in Workers, Finalize(w)
         PROVE  LocalInv'
    <2>1. Shape
      BY TypeShape
    <2>2. pc[w] \in {"finalizing"}
      BY <1>12 DEF Finalize
    <2>3. Others(w) /\ Moves(w, {"locking"})
      BY <1>12, <2>1, FinalizeMoves
    <2> QED
      BY <2>2, <2>3 DEF LocalInv, Others, Moves, Attempts
  <1>13. ASSUME NEW w \in Workers, LockRun(w)
         PROVE  LocalInv'
    <2>1. Shape
      BY TypeShape
    <2>2. pc[w] \in {"locking"}
      BY <1>13 DEF LockRun
    <2>3. Others(w) /\ Moves(w, {"recording", "closing", "evaluating"}) /\ target'[w] = target[w]
      BY <1>13, <2>1, LockMoves
    <2> QED
      BY <2>2, <2>3 DEF LocalInv, Others, Moves, Attempts
  <1>14. ASSUME NEW w \in Workers, CompleteRun(w)
         PROVE  LocalInv'
    <2>1. Shape
      BY TypeShape
    <2>2. pc[w] \in {"evaluating"}
      BY <1>14 DEF CompleteRun
    <2>3. Others(w) /\ Moves(w, {"closing"})
      BY <1>14, <2>1, CompleteMoves
    <2> QED
      BY <2>2, <2>3 DEF LocalInv, Others, Moves, Attempts
  <1>15. ASSUME NEW w \in Workers, Serialization(w)
         PROVE  LocalInv'
    <2>1. Shape
      BY TypeShape
    <2>2. pc[w] \in {"reading", "creating", "locking"}
      BY <1>15 DEF Serialization, Readable
    <2>3. /\ Others(w) /\ op'[w] = op[w] /\ tries'[w] = tries[w] + 1
          /\ pc'[w] = (IF tries[w] + 1 < Attempts THEN "freezing" ELSE "reconciling")
      BY <1>15, <2>1, SerialMoves
    <2> QED
      BY <2>2, <2>3 DEF LocalInv, Others, Moves, Attempts
  <1>16. ASSUME NEW w \in Workers, FreezeRaises(w)
         PROVE  LocalInv'
    <2>1. Shape
      BY TypeShape
    <2>2. pc[w] \in {"reading", "creating"}
      BY <1>16 DEF FreezeRaises, Readable
    <2>3. Others(w) /\ Moves(w, {"reconciling"})
      BY <1>16, <2>1, RaiseMoves
    <2> QED
      BY <2>2, <2>3 DEF LocalInv, Others, Moves, Attempts
  <1>17. ASSUME NEW w \in Workers, FinalizeRaises(w)
         PROVE  LocalInv'
    <2>1. Shape
      BY TypeShape
    <2>2. pc[w] \in {"locking", "evaluating"}
      BY <1>17 DEF FinalizeRaises
    <2>3. Others(w) /\ Moves(w, {"recording"})
      BY <1>17, <2>1, FinRaiseMoves
    <2> QED
      BY <2>2, <2>3 DEF LocalInv, Others, Moves, Attempts
  <1>18. ASSUME NEW w \in Workers, RecordFailure(w)
         PROVE  LocalInv'
    <2>1. Shape
      BY TypeShape
    <2>2. pc[w] \in {"recording"}
      BY <1>18 DEF RecordFailure
    <2>3. Others(w) /\ Moves(w, {"reconciling"})
      BY <1>18, <2>1, RecordMoves
    <2> QED
      BY <2>2, <2>3 DEF LocalInv, Others, Moves, Attempts
  <1>19. ASSUME NEW w \in Workers, LoseFailure(w)
         PROVE  LocalInv'
    <2>1. Shape
      BY TypeShape
    <2>2. pc[w] \in {"recording"}
      BY <1>19 DEF LoseFailure
    <2>3. Others(w) /\ Moves(w, {"reconciling"})
      BY <1>19, <2>1, LoseMoves
    <2> QED
      BY <2>2, <2>3 DEF LocalInv, Others, Moves, Attempts
  <1>20. ASSUME NEW w \in Workers, Crash(w)
         PROVE  LocalInv'
    <2>1. Others(w) /\ pc'[w] = "idle" /\ op'[w] = NoOp /\ tries'[w] = 0
      BY <1>20, TypeShape, EndsCall DEF Crash
    <2> QED
      BY <2>1 DEF LocalInv, Others
  <1>21. ASSUME NEW w \in Workers, LoseLock(w)
         PROVE  LocalInv'
    BY <1>21 DEF LoseLock, locals, LocalInv
  <1>22. ASSUME NEW c \in Cells, Recalculate(c)
         PROVE  LocalInv'
    BY <1>22 DEF Recalculate, locals, LocalInv
  <1>23. CASE UNCHANGED vars
    BY <1>23 DEF vars, durable, locals, LocalInv, GoTo
  <1> QED
    BY <1>1, <1>2, <1>3, <1>4, <1>5, <1>6, <1>7, <1>8, <1>9, <1>10, <1>11,
       <1>12, <1>13, <1>14, <1>15, <1>16, <1>17, <1>18, <1>19, <1>20,
       <1>21, <1>22, <1>23
    DEF Next, Integration, Core, Faults

(* A step inside an execution leaves the locks and the job alone.           *)
LEMMA MoveExclusive ==
  ASSUME ExclusiveInv, NEW w \in Workers, Others(w), op'[w] = op[w],
         pc[w] \notin {"idle", "queued", "entering"},
         execLock' = execLock, job' = job, lost' = lost
  PROVE  ExclusiveInv'
  BY DEF ExclusiveInv, Others

(* The end of a call, which may leave another job.                          *)
LEMMA EndExclusive ==
  ASSUME TypeOK, LocalInv, ExclusiveInv, NEW w \in Workers, Others(w), pc'[w] = "idle",
         execLock' = Freed(execLock, w), lost' = lost,
         \/ job' = job
         \/ /\ pc[w] \notin {"idle", "queued"}
            /\ \E j : job' = [job EXCEPT ![op[w]] = j]
  PROVE  ExclusiveInv'
  <1> SUFFICES ASSUME NEW v \in Workers, pc'[v] \notin {"idle", "queued"}, op'[v] \notin lost
               PROVE  /\ execLock'[op'[v]] = v
                      /\ pc'[v] # "entering" => job'[op'[v]].state \notin Terminal
    BY DEF ExclusiveInv
  <1>1. v # w /\ pc[v] = pc'[v] /\ op'[v] = op[v] /\ op[v] \in Ops
    BY DEF Others, LocalInv
  <1>2. /\ execLock[op[v]] = v
        /\ pc[v] # "entering" => job[op[v]].state \notin Terminal
    BY <1>1 DEF ExclusiveInv
  <1>3. execLock'[op[v]] = v
    BY <1>1, <1>2 DEF Freed
  <1>4. job'[op[v]] = job[op[v]]
    <2>1. CASE job' = job
      BY <2>1
    <2>2. CASE pc[w] \notin {"idle", "queued"} /\ \E j : job' = [job EXCEPT ![op[w]] = j]
      <3>1. op[w] # op[v]
        BY <1>1, <1>2, <2>2 DEF ExclusiveInv
      <3>2. job \in [Ops -> [state : JobState, print : SUBSET Row]]
        BY DEF TypeOK
      <3> QED
        BY <1>1, <2>2, <3>1, <3>2
    <2> QED
      BY <2>1, <2>2
  <1> QED
    BY <1>1, <1>2, <1>3, <1>4

(* The advisory lock.                                                       *)
LEMMA ExclusiveStep ==
  ASSUME TypeOK, LocalInv, ExclusiveInv, [Next]_vars
  PROVE  ExclusiveInv'
  <1>1. ASSUME NEW w \in Workers, NEW o \in Ops, Schedule(w, o)
        PROVE  ExclusiveInv'
    <2>0. /\ job \in [Ops -> [state : JobState, print : SUBSET Row]]
          /\ execLock \in [Ops -> Workers \cup {NoWorker}] /\ Shape
      BY TypeShape DEF TypeOK
    <2>1. Others(w) /\ pc'[w] = "queued"
      BY <1>1, <2>0, SchedMoves
    <2>2. /\ execLock' = execLock /\ lost' = lost
          /\ \/ job' = job
             \/ job' = [job EXCEPT ![o] = [state |-> "STARTED", print |-> NoRows]]
      BY <1>1 DEF Schedule
    <2>3. \A k \in Ops : job[k].state \notin Terminal => job'[k].state \notin Terminal
      BY <2>0, <2>2 DEF Terminal
    <2> QED
      BY <2>0, <2>1, <2>2, <2>3 DEF ExclusiveInv, Others, LocalInv
  <1>2. ASSUME NEW w \in Workers, Enter(w)
        PROVE  ExclusiveInv'
    <2>0. /\ job \in [Ops -> [state : JobState, print : SUBSET Row]]
          /\ execLock \in [Ops -> Workers \cup {NoWorker}] /\ Shape
      BY TypeShape DEF TypeOK
    <2>1. Others(w) /\ pc'[w] = "entering" /\ op'[w] = op[w] /\ op[w] \in Ops
      BY <1>2, <2>0, EnterMoves DEF Moves, Enter, LocalInv
    <2>2. /\ execLock[op[w]] = NoWorker /\ execLock' = [execLock EXCEPT ![op[w]] = w]
          /\ job' = job /\ lost' = lost
      BY <1>2 DEF Enter, durable
    <2> QED
      BY <2>0, <2>1, <2>2 DEF ExclusiveInv, Others, LocalInv
  <1>3. ASSUME NEW w \in Workers, Open(w)
        PROVE  ExclusiveInv'
    <2>1. CASE Finished(job[op[w]].state)
      <3>1. Others(w) /\ pc'[w] = "idle"
        BY <1>3, <2>1, TypeShape, EndsCall DEF Open
      <3>2. execLock' = Freed(execLock, w) /\ lost' = lost /\ job' = job
        BY <1>3, <2>1 DEF Open, Finish
      <3> QED
        BY <3>1, <3>2, EndExclusive
    <2>2. CASE ~Finished(job[op[w]].state)
      <3>0. /\ job \in [Ops -> [state : JobState, print : SUBSET Row]]
            /\ execLock \in [Ops -> Workers \cup {NoWorker}] /\ Shape
        BY TypeShape DEF TypeOK
      <3>1. Others(w) /\ pc'[w] = "freezing" /\ op'[w] = op[w] /\ op[w] \in Ops
        BY <1>3, <2>2, <3>0 DEF Open, GoTo, Shape, Others, LocalInv, Where
      <3>2. /\ execLock' = execLock /\ lost' = lost /\ pc[w] = "entering"
            /\ \/ job' = job
               \/ job' = [job EXCEPT ![op[w]] = [state |-> "STARTED", print |-> job[op[w]].print]]
        BY <1>3, <2>2 DEF Open, SetJob
      <3>3. \A o \in Ops : job[o].state \notin Terminal => job'[o].state \notin Terminal
        BY <3>0, <3>1, <3>2 DEF Terminal
      <3>4. job[op[w]].state \notin Terminal
        BY <2>2 DEF Finished
      <3> QED
        BY <3>0, <3>1, <3>2, <3>3, <3>4 DEF ExclusiveInv, Others, LocalInv
    <2> QED
      BY <2>1, <2>2
  <1>4. ASSUME NEW w \in Workers, Close(w)
        PROVE  ExclusiveInv'
    <2>1. Others(w) /\ pc'[w] = "idle"
      BY <1>4, TypeShape, EndsCall DEF Close
    <2>2. pc[w] = "closing" /\ execLock' = Freed(execLock, w) /\ lost' = lost
      BY <1>4 DEF Close, Finish
    <2>3. job' = job \/ \E j : job' = [job EXCEPT ![op[w]] = j]
      BY <1>4 DEF Close, SetJob, durable
    <2> QED
      BY <2>1, <2>2, <2>3, EndExclusive
  <1>5. ASSUME NEW w \in Workers, Reconcile(w)
        PROVE  ExclusiveInv'
    <2>1. Others(w) /\ pc'[w] = "idle"
      BY <1>5, TypeShape, EndsCall DEF Reconcile
    <2>2. pc[w] = "reconciling" /\ execLock' = Freed(execLock, w) /\ lost' = lost
      BY <1>5 DEF Reconcile, Finish
    <2>3. job' = job \/ \E j : job' = [job EXCEPT ![op[w]] = j]
      BY <1>5 DEF Reconcile, SetJob, durable
    <2> QED
      BY <2>1, <2>2, <2>3, EndExclusive
  <1>6. ASSUME NEW w \in Workers, HandlerRaises(w)
        PROVE  ExclusiveInv'
    <2>1. Others(w) /\ pc'[w] = "idle"
      BY <1>6, TypeShape, EndsCall DEF HandlerRaises
    <2>2. pc[w] # "idle" /\ execLock' = Freed(execLock, w) /\ lost' = lost
      BY <1>6 DEF HandlerRaises, Finish
    <2>3. job' = job
      BY <1>6 DEF HandlerRaises, SetJob, durable
    <2> QED
      BY <2>1, <2>2, <2>3, EndExclusive
  <1>7. ASSUME NEW w \in Workers, Freeze(w)
        PROVE  ExclusiveInv'
    <2>1. Shape
      BY TypeShape
    <2>2. pc[w] \in {"freezing"}
      BY <1>7 DEF Freeze
    <2>3. Others(w) /\ op'[w] = op[w]
      BY <1>7, <2>1, FreezeMoves DEF Moves
    <2>4. execLock' = execLock /\ job' = job /\ lost' = lost
      BY <1>7 DEF Freeze, durable
    <2> QED
      BY <2>2, <2>3, <2>4, MoveExclusive
  <1>8. ASSUME NEW w \in Workers, FindRun(w)
        PROVE  ExclusiveInv'
    <2>1. Shape
      BY TypeShape
    <2>2. pc[w] \in {"reading"}
      BY <1>8 DEF FindRun, Readable
    <2>3. Others(w) /\ op'[w] = op[w]
      BY <1>8, <2>1, FindRunMoves DEF Moves
    <2>4. execLock' = execLock /\ job' = job /\ lost' = lost
      BY <1>8 DEF FindRun, durable
    <2> QED
      BY <2>2, <2>3, <2>4, MoveExclusive
  <1>9. ASSUME NEW w \in Workers, FindNothingNew(w)
        PROVE  ExclusiveInv'
    <2>1. Shape
      BY TypeShape
    <2>2. pc[w] \in {"reading"}
      BY <1>9 DEF FindNothingNew, Readable
    <2>3. Others(w) /\ op'[w] = op[w]
      BY <1>9, <2>1, FindNothingMoves DEF Moves
    <2>4. execLock' = execLock /\ job' = job /\ lost' = lost
      BY <1>9 DEF FindNothingNew, durable
    <2> QED
      BY <2>2, <2>3, <2>4, MoveExclusive
  <1>10. ASSUME NEW w \in Workers, FindWork(w)
         PROVE  ExclusiveInv'
    <2>1. Shape
      BY TypeShape
    <2>2. pc[w] \in {"reading"}
      BY <1>10 DEF FindWork, Readable
    <2>3. Others(w) /\ op'[w] = op[w]
      BY <1>10, <2>1, FindWorkMoves DEF Moves
    <2>4. execLock' = execLock /\ job' = job /\ lost' = lost
      BY <1>10 DEF FindWork, durable
    <2> QED
      BY <2>2, <2>3, <2>4, MoveExclusive
  <1>11. ASSUME NEW w \in Workers, CreateRun(w)
         PROVE  ExclusiveInv'
    <2>1. Shape
      BY TypeShape
    <2>2. pc[w] \in {"creating"}
      BY <1>11 DEF CreateRun
    <2>3. Others(w) /\ op'[w] = op[w]
      BY <1>11, <2>1, CreateMoves DEF Moves
    <2>4. execLock' = execLock /\ job' = job /\ lost' = lost
      BY <1>11 DEF CreateRun, durable
    <2> QED
      BY <2>2, <2>3, <2>4, MoveExclusive
  <1>12. ASSUME NEW w \in Workers, Finalize(w)
         PROVE  ExclusiveInv'
    <2>1. Shape
      BY TypeShape
    <2>2. pc[w] \in {"finalizing"}
      BY <1>12 DEF Finalize
    <2>3. Others(w) /\ op'[w] = op[w]
      BY <1>12, <2>1, FinalizeMoves DEF Moves
    <2>4. execLock' = execLock /\ job' = job /\ lost' = lost
      BY <1>12 DEF Finalize, durable
    <2> QED
      BY <2>2, <2>3, <2>4, MoveExclusive
  <1>13. ASSUME NEW w \in Workers, LockRun(w)
         PROVE  ExclusiveInv'
    <2>1. Shape
      BY TypeShape
    <2>2. pc[w] \in {"locking"}
      BY <1>13 DEF LockRun
    <2>3. Others(w) /\ op'[w] = op[w]
      BY <1>13, <2>1, LockMoves DEF Moves
    <2>4. execLock' = execLock /\ job' = job /\ lost' = lost
      BY <1>13 DEF LockRun, durable
    <2> QED
      BY <2>2, <2>3, <2>4, MoveExclusive
  <1>14. ASSUME NEW w \in Workers, CompleteRun(w)
         PROVE  ExclusiveInv'
    <2>1. Shape
      BY TypeShape
    <2>2. pc[w] \in {"evaluating"}
      BY <1>14 DEF CompleteRun
    <2>3. Others(w) /\ op'[w] = op[w]
      BY <1>14, <2>1, CompleteMoves DEF Moves
    <2>4. execLock' = execLock /\ job' = job /\ lost' = lost
      BY <1>14 DEF CompleteRun, durable
    <2> QED
      BY <2>2, <2>3, <2>4, MoveExclusive
  <1>15. ASSUME NEW w \in Workers, Serialization(w)
         PROVE  ExclusiveInv'
    <2>1. Shape
      BY TypeShape
    <2>2. pc[w] \in {"reading", "creating", "locking"}
      BY <1>15 DEF Serialization, Readable
    <2>3. Others(w) /\ op'[w] = op[w]
      BY <1>15, <2>1, SerialMoves DEF Moves
    <2>4. execLock' = execLock /\ job' = job /\ lost' = lost
      BY <1>15 DEF Serialization, durable
    <2> QED
      BY <2>2, <2>3, <2>4, MoveExclusive
  <1>16. ASSUME NEW w \in Workers, FreezeRaises(w)
         PROVE  ExclusiveInv'
    <2>1. Shape
      BY TypeShape
    <2>2. pc[w] \in {"reading", "creating"}
      BY <1>16 DEF FreezeRaises, Readable
    <2>3. Others(w) /\ op'[w] = op[w]
      BY <1>16, <2>1, RaiseMoves DEF Moves
    <2>4. execLock' = execLock /\ job' = job /\ lost' = lost
      BY <1>16 DEF FreezeRaises, durable
    <2> QED
      BY <2>2, <2>3, <2>4, MoveExclusive
  <1>17. ASSUME NEW w \in Workers, FinalizeRaises(w)
         PROVE  ExclusiveInv'
    <2>1. Shape
      BY TypeShape
    <2>2. pc[w] \in {"locking", "evaluating"}
      BY <1>17 DEF FinalizeRaises
    <2>3. Others(w) /\ op'[w] = op[w]
      BY <1>17, <2>1, FinRaiseMoves DEF Moves
    <2>4. execLock' = execLock /\ job' = job /\ lost' = lost
      BY <1>17 DEF FinalizeRaises, durable
    <2> QED
      BY <2>2, <2>3, <2>4, MoveExclusive
  <1>18. ASSUME NEW w \in Workers, RecordFailure(w)
         PROVE  ExclusiveInv'
    <2>1. Shape
      BY TypeShape
    <2>2. pc[w] \in {"recording"}
      BY <1>18 DEF RecordFailure
    <2>3. Others(w) /\ op'[w] = op[w]
      BY <1>18, <2>1, RecordMoves DEF Moves
    <2>4. execLock' = execLock /\ job' = job /\ lost' = lost
      BY <1>18 DEF RecordFailure, durable
    <2> QED
      BY <2>2, <2>3, <2>4, MoveExclusive
  <1>19. ASSUME NEW w \in Workers, LoseFailure(w)
         PROVE  ExclusiveInv'
    <2>1. Shape
      BY TypeShape
    <2>2. pc[w] \in {"recording"}
      BY <1>19 DEF LoseFailure
    <2>3. Others(w) /\ op'[w] = op[w]
      BY <1>19, <2>1, LoseMoves DEF Moves
    <2>4. execLock' = execLock /\ job' = job /\ lost' = lost
      BY <1>19 DEF LoseFailure, durable
    <2> QED
      BY <2>2, <2>3, <2>4, MoveExclusive
  <1>20. ASSUME NEW w \in Workers, Crash(w)
         PROVE  ExclusiveInv'
    <2>1. Others(w) /\ pc'[w] = "idle"
      BY <1>20, TypeShape, EndsCall DEF Crash
    <2>2. pc[w] # "idle" /\ execLock' = Freed(execLock, w) /\ lost' = lost
      BY <1>20 DEF Crash, Finish
    <2>3. job' = job
      BY <1>20 DEF Crash, SetJob, durable
    <2> QED
      BY <2>1, <2>2, <2>3, EndExclusive
  <1>21. ASSUME NEW w \in Workers, LoseLock(w)
         PROVE  ExclusiveInv'
    <2>1. /\ pc' = pc /\ op' = op /\ job' = job /\ lost' = lost \cup {op[w]}
          /\ execLock' = Freed(execLock, w)
      BY <1>21 DEF LoseLock, locals, durable
    <2>2. \A v \in Workers : pc[v] # "idle" => op[v] \in Ops
      BY DEF LocalInv
    <2> QED
      BY <2>1, <2>2 DEF ExclusiveInv, Freed
  <1>22. ASSUME NEW c \in Cells, Recalculate(c)
         PROVE  ExclusiveInv'
    BY <1>22 DEF Recalculate, locals, ExclusiveInv
  <1>23. CASE UNCHANGED vars
    BY <1>23 DEF vars, durable, locals, ExclusiveInv
  <1> QED
    BY <1>1, <1>2, <1>3, <1>4, <1>5, <1>6, <1>7, <1>8, <1>9, <1>10, <1>11,
       <1>12, <1>13, <1>14, <1>15, <1>16, <1>17, <1>18, <1>19, <1>20,
       <1>21, <1>22, <1>23
    DEF Next, Integration, Core, Faults

(* A step that neither writes a run nor begins an evaluation.               *)
LEMMA MoveRuns ==
  ASSUME RunsInv, LocalInv, NEW w \in Workers, Others(w), pc'[w] # "evaluating",
         runs' = runs, runLock' = runLock \/ runLock' = Freed(runLock, w)
  PROVE  RunsInv'
  <1> SUFFICES ASSUME NEW v \in Workers, pc'[v] = "evaluating"
               PROVE  /\ runLock'[op'[v]] = v
                      /\ \A r \in runs[op'[v]] : r.print = target'[v] => r.state # "COMPLETED"
    BY DEF RunsInv
  <1>1. /\ v # w /\ pc[v] = "evaluating" /\ op'[v] = op[v] /\ target'[v] = target[v]
        /\ op[v] \in Ops
    BY DEF Others, LocalInv
  <1>2. /\ runLock[op[v]] = v
        /\ \A r \in runs[op[v]] : r.print = target[v] => r.state # "COMPLETED"
    BY <1>1 DEF RunsInv
  <1>3. runLock'[op[v]] = v
    BY <1>1, <1>2 DEF Freed
  <1> QED
    BY <1>1, <1>2, <1>3

LEMMA NoWorkerIn == NoWorker \notin Workers
  BY ProactiveConstants

(* A run of an operation that nobody else evaluates is replaced or added.   *)
LEMMA WriteRuns ==
  ASSUME TypeOK, RunsInv, LocalInv, NEW w \in Workers, Others(w), pc'[w] # "evaluating",
         op[w] \in Ops, NEW S, runs' = [runs EXCEPT ![op[w]] = S],
         runLock' = runLock \/ runLock' = Freed(runLock, w),
         \A r, q \in S : r.print = q.print => r = q,
         \A v \in Workers \ {w} : pc[v] = "evaluating" /\ op[v] = op[w] =>
             \A r \in S : r.print = target[v] => r.state # "COMPLETED"
  PROVE  RunsInv'
  <1>0. runs \in [Ops -> SUBSET Run]
    BY DEF TypeOK
  <1>1. \A o \in Ops : runs'[o] = (IF o = op[w] THEN S ELSE runs[o])
    BY <1>0
  <1>2. \A o \in Ops : \A r, q \in runs'[o] : r.print = q.print => r = q
    BY <1>1 DEF RunsInv
  <1>3. ASSUME NEW v \in Workers, pc'[v] = "evaluating"
        PROVE  /\ runLock'[op'[v]] = v
               /\ \A r \in runs'[op'[v]] : r.print = target'[v] => r.state # "COMPLETED"
    <2>1. /\ v # w /\ pc[v] = "evaluating" /\ op'[v] = op[v] /\ target'[v] = target[v]
          /\ op[v] \in Ops
      BY <1>3 DEF Others, LocalInv
    <2>2. /\ runLock[op[v]] = v
          /\ \A r \in runs[op[v]] : r.print = target[v] => r.state # "COMPLETED"
      BY <2>1 DEF RunsInv
    <2>3. runLock'[op[v]] = v
      BY <2>1, <2>2 DEF Freed
    <2>4. \A r \in runs'[op[v]] : r.print = target[v] => r.state # "COMPLETED"
      BY <1>1, <2>1, <2>2
    <2> QED
      BY <2>1, <2>3, <2>4
  <1> QED
    BY <1>2, <1>3 DEF RunsInv

(* Another state of a run, which stays where it is.                         *)
LEMMA SameInput ==
  ASSUME NEW R \in SUBSET Run, NEW r \in R, NEW n,
         n.print = r.print, \A p, q \in R : p.print = q.print => p = q
  PROVE  \A p, q \in (R \ {r}) \cup {n} : p.print = q.print => p = q
  OBVIOUS

(* The runs of a job.                                                       *)
LEMMA RunsStep ==
  ASSUME TypeOK, LocalInv, RunsInv, [Next]_vars
  PROVE  RunsInv'
  <1>1. ASSUME NEW w \in Workers, NEW o \in Ops, Schedule(w, o)
        PROVE  RunsInv'
    <2>1. Shape
      BY TypeShape
    <2>2. Others(w) /\ pc'[w] # "evaluating"
      BY <1>1, <2>1, SchedMoves DEF Moves
    <2>3. runs' = runs /\ (runLock' = runLock \/ runLock' = Freed(runLock, w))
      BY <1>1 DEF Schedule, EndTransaction, durable
    <2> QED
      BY <2>2, <2>3, MoveRuns
  <1>2. ASSUME NEW w \in Workers, Enter(w)
        PROVE  RunsInv'
    <2>1. Shape
      BY TypeShape
    <2>2. Others(w) /\ pc'[w] # "evaluating"
      BY <1>2, <2>1, EnterMoves DEF Moves
    <2>3. runs' = runs /\ (runLock' = runLock \/ runLock' = Freed(runLock, w))
      BY <1>2 DEF Enter, EndTransaction, durable
    <2> QED
      BY <2>2, <2>3, MoveRuns
  <1>3. ASSUME NEW w \in Workers, Open(w)
        PROVE  RunsInv'
    <2>0. Shape
      BY TypeShape
    <2>1. Others(w) /\ pc'[w] # "evaluating"
      BY <1>3, <2>0, OpenMoves DEF Moves
    <2>2. runs' = runs
      BY <1>3 DEF Open
    <2>3. runLock' = runLock \/ runLock' = Freed(runLock, w)
      BY <1>3 DEF Open, Finish, EndTransaction
    <2> QED
      BY <2>1, <2>2, <2>3, MoveRuns
  <1>4. ASSUME NEW w \in Workers, Close(w)
        PROVE  RunsInv'
    <2>1. Others(w) /\ pc'[w] # "evaluating"
      BY <1>4, TypeShape, EndsCall DEF Close
    <2>2. runs' = runs /\ runLock' = Freed(runLock, w)
      BY <1>4 DEF Close, Finish, EndTransaction, durable
    <2> QED
      BY <2>1, <2>2, MoveRuns
  <1>5. ASSUME NEW w \in Workers, Reconcile(w)
        PROVE  RunsInv'
    <2>1. Others(w) /\ pc'[w] # "evaluating"
      BY <1>5, TypeShape, EndsCall DEF Reconcile
    <2>2. runs' = runs /\ runLock' = Freed(runLock, w)
      BY <1>5 DEF Reconcile, Finish, EndTransaction, durable
    <2> QED
      BY <2>1, <2>2, MoveRuns
  <1>6. ASSUME NEW w \in Workers, HandlerRaises(w)
        PROVE  RunsInv'
    <2>1. Others(w) /\ pc'[w] # "evaluating"
      BY <1>6, TypeShape, EndsCall DEF HandlerRaises
    <2>2. runs' = runs /\ runLock' = Freed(runLock, w)
      BY <1>6 DEF HandlerRaises, Finish, EndTransaction, durable
    <2> QED
      BY <2>1, <2>2, MoveRuns
  <1>7. ASSUME NEW w \in Workers, Freeze(w)
        PROVE  RunsInv'
    <2>1. Shape
      BY TypeShape
    <2>2. Others(w) /\ pc'[w] # "evaluating"
      BY <1>7, <2>1, FreezeMoves DEF Moves
    <2>3. runs' = runs /\ (runLock' = runLock \/ runLock' = Freed(runLock, w))
      BY <1>7 DEF Freeze, EndTransaction, durable
    <2> QED
      BY <2>2, <2>3, MoveRuns
  <1>8. ASSUME NEW w \in Workers, FindRun(w)
        PROVE  RunsInv'
    <2>1. Shape
      BY TypeShape
    <2>2. Others(w) /\ pc'[w] # "evaluating"
      BY <1>8, <2>1, FindRunMoves DEF Moves
    <2>3. runs' = runs /\ (runLock' = runLock \/ runLock' = Freed(runLock, w))
      BY <1>8 DEF FindRun, EndTransaction, durable
    <2> QED
      BY <2>2, <2>3, MoveRuns
  <1>9. ASSUME NEW w \in Workers, FindNothingNew(w)
        PROVE  RunsInv'
    <2>1. Shape
      BY TypeShape
    <2>2. Others(w) /\ pc'[w] # "evaluating"
      BY <1>9, <2>1, FindNothingMoves DEF Moves
    <2>3. runs' = runs /\ (runLock' = runLock \/ runLock' = Freed(runLock, w))
      BY <1>9 DEF FindNothingNew, EndTransaction, durable
    <2> QED
      BY <2>2, <2>3, MoveRuns
  <1>10. ASSUME NEW w \in Workers, FindWork(w)
         PROVE  RunsInv'
    <2>1. Shape
      BY TypeShape
    <2>2. Others(w) /\ pc'[w] # "evaluating"
      BY <1>10, <2>1, FindWorkMoves DEF Moves
    <2>3. runs' = runs /\ (runLock' = runLock \/ runLock' = Freed(runLock, w))
      BY <1>10 DEF FindWork, EndTransaction, durable
    <2> QED
      BY <2>2, <2>3, MoveRuns
  <1>11. ASSUME NEW w \in Workers, CreateRun(w)
         PROVE  RunsInv'
    <2>1. Shape /\ runs \in [Ops -> SUBSET Run]
      BY TypeShape DEF TypeOK
    <2>2. Others(w) /\ pc'[w] # "evaluating"
      BY <1>11, <2>1, CreateMoves DEF Moves
    <2>3. pc[w] = "creating" /\ op[w] \in Ops /\ view[w].runs = {}
      BY <1>11 DEF CreateRun, LocalInv
    <2> DEFINE n == [print |-> view[w].rows, frozen |-> Closure(view[w].rows),
                     state |-> "STARTED", findings |-> NoRows]
               S == runs[op[w]] \cup {n}
    <2>4. runs' = [runs EXCEPT ![op[w]] = S] /\ runLock' = Freed(runLock, w)
      BY <1>11 DEF CreateRun, EndTransaction
    <2>5. \A r \in runs[op[w]] : r.print # n.print
      BY <1>11, <2>3 DEF CreateRun, UnseenRun
    <2>6. n.state # "COMPLETED"
      OBVIOUS
    <2> HIDE DEF n
    <2>7. \A r, q \in S : r.print = q.print => r = q
      BY <2>3, <2>5 DEF RunsInv
    <2>8. \A v \in Workers \ {w} : pc[v] = "evaluating" /\ op[v] = op[w] =>
              \A r \in S : r.print = target[v] => r.state # "COMPLETED"
      BY <2>6 DEF RunsInv
    <2> HIDE DEF S
    <2> QED
      BY <2>2, <2>3, <2>4, <2>7, <2>8, WriteRuns
  <1>12. ASSUME NEW w \in Workers, Finalize(w)
         PROVE  RunsInv'
    <2>1. Shape
      BY TypeShape
    <2>2. Others(w) /\ pc'[w] # "evaluating"
      BY <1>12, <2>1, FinalizeMoves DEF Moves
    <2>3. runs' = runs /\ (runLock' = runLock \/ runLock' = Freed(runLock, w))
      BY <1>12 DEF Finalize, EndTransaction, durable
    <2> QED
      BY <2>2, <2>3, MoveRuns
  <1>13. ASSUME NEW w \in Workers, LockRun(w)
         PROVE  RunsInv'
    <2>1. Shape /\ runLock \in [Ops -> Workers \cup {NoWorker}]
      BY TypeShape DEF TypeOK
    <2>2. Others(w) /\ op'[w] = op[w] /\ target'[w] = target[w]
      BY <1>13, <2>1, LockMoves DEF Moves
    <2>3. runs' = runs /\ runLock[op[w]] = NoWorker /\ op[w] \in Ops
      BY <1>13 DEF LockRun, durable, LocalInv
    <2>4. CASE pc'[w] # "evaluating"
      <3>1. runLock' = runLock
        BY <1>13, <2>1, <2>4 DEF LockRun, GoTo, Shape
      <3> QED
        BY <2>2, <2>3, <2>4, <3>1, MoveRuns
    <2>5. CASE pc'[w] = "evaluating"
      <3>1. /\ runLock' = [runLock EXCEPT ![op[w]] = w]
            /\ \E r \in runs[op[w]] : r.print = target[w] /\ r.state # "COMPLETED"
        BY <1>13, <2>1, <2>5 DEF LockRun, GoTo, Shape
      <3>2. \A r \in runs[op[w]] : r.print = target[w] => r.state # "COMPLETED"
        BY <2>3, <3>1 DEF RunsInv
      <3>3. \A v \in Workers \ {w} : pc[v] = "evaluating" =>
                op[v] \in Ops /\ op[v] # op[w] /\ runLock'[op[v]] = v
        BY <2>1, <2>3, <3>1 DEF RunsInv, LocalInv
      <3> QED
        BY <2>1, <2>2, <2>3, <3>1, <3>2, <3>3 DEF RunsInv, Others
    <2> QED
      BY <2>4, <2>5
  <1>14. ASSUME NEW w \in Workers, CompleteRun(w)
         PROVE  RunsInv'
    <2>1. Shape /\ runs \in [Ops -> SUBSET Run]
      BY TypeShape DEF TypeOK
    <2>2. Others(w) /\ pc'[w] # "evaluating"
      BY <1>14, <2>1, CompleteMoves DEF Moves
    <2>3. pc[w] = "evaluating" /\ op[w] \in Ops
      BY <1>14 DEF CompleteRun, LocalInv
    <2>4. PICK r \in runs[op[w]] :
              runs' = [runs EXCEPT ![op[w]] = (runs[op[w]] \ {r}) \cup
                         {[r EXCEPT !.state = "COMPLETED", !.findings = r.frozen]}]
      BY <1>14 DEF CompleteRun
    <2> DEFINE n == [r EXCEPT !.state = "COMPLETED", !.findings = r.frozen]
               S == (runs[op[w]] \ {r}) \cup {n}
    <2>5. runs' = [runs EXCEPT ![op[w]] = S] /\ runLock' = Freed(runLock, w)
      BY <1>14, <2>4 DEF CompleteRun, EndTransaction
    <2>6. n.print = r.print /\ runs[op[w]] \in SUBSET Run
      BY <2>1, <2>3 DEF Run
    <2>7. \A p, q \in S : p.print = q.print => p = q
      <3> HIDE DEF n
      <3> QED
        BY <2>3, <2>6, SameInput DEF RunsInv
    <2>8. \A v \in Workers \ {w} : pc[v] = "evaluating" /\ op[v] = op[w] =>
              \A q \in S : q.print = target[v] => q.state # "COMPLETED"
      BY <2>3 DEF RunsInv
    <2> HIDE DEF S
    <2> QED
      BY <2>2, <2>3, <2>5, <2>7, <2>8, WriteRuns
  <1>15. ASSUME NEW w \in Workers, Serialization(w)
         PROVE  RunsInv'
    <2>1. Shape
      BY TypeShape
    <2>2. Others(w) /\ pc'[w] # "evaluating"
      BY <1>15, <2>1, SerialMoves DEF Moves
    <2>3. runs' = runs /\ (runLock' = runLock \/ runLock' = Freed(runLock, w))
      BY <1>15 DEF Serialization, EndTransaction, durable
    <2> QED
      BY <2>2, <2>3, MoveRuns
  <1>16. ASSUME NEW w \in Workers, FreezeRaises(w)
         PROVE  RunsInv'
    <2>1. Shape
      BY TypeShape
    <2>2. Others(w) /\ pc'[w] # "evaluating"
      BY <1>16, <2>1, RaiseMoves DEF Moves
    <2>3. runs' = runs /\ (runLock' = runLock \/ runLock' = Freed(runLock, w))
      BY <1>16 DEF FreezeRaises, EndTransaction, durable
    <2> QED
      BY <2>2, <2>3, MoveRuns
  <1>17. ASSUME NEW w \in Workers, FinalizeRaises(w)
         PROVE  RunsInv'
    <2>1. Shape
      BY TypeShape
    <2>2. Others(w) /\ pc'[w] # "evaluating"
      BY <1>17, <2>1, FinRaiseMoves DEF Moves
    <2>3. runs' = runs /\ (runLock' = runLock \/ runLock' = Freed(runLock, w))
      BY <1>17 DEF FinalizeRaises, EndTransaction, durable
    <2> QED
      BY <2>2, <2>3, MoveRuns
  <1>18. ASSUME NEW w \in Workers, RecordFailure(w)
         PROVE  RunsInv'
    <2>1. Shape /\ runs \in [Ops -> SUBSET Run]
      BY TypeShape DEF TypeOK
    <2>2. Others(w) /\ pc'[w] # "evaluating"
      BY <1>18, <2>1, RecordMoves DEF Moves
    <2>3. /\ pc[w] = "recording" /\ op[w] \in Ops
          /\ runLock[op[w]] = NoWorker /\ runLock' = runLock
      BY <1>18 DEF RecordFailure, LocalInv
    <2>4. CASE runs' = runs
      BY <2>2, <2>3, <2>4, MoveRuns
    <2>5. CASE runs' # runs
      <3>1. PICK r \in runs[op[w]] :
                runs' = [runs EXCEPT ![op[w]] = (runs[op[w]] \ {r}) \cup
                              {[r EXCEPT !.state = FailedRun]}]
        BY <1>18, <2>5 DEF RecordFailure
      <3> DEFINE n == [r EXCEPT !.state = FailedRun]
                 S == (runs[op[w]] \ {r}) \cup {n}
      <3>2. runs' = [runs EXCEPT ![op[w]] = S]
        BY <3>1
      <3>3. n.print = r.print /\ runs[op[w]] \in SUBSET Run
        BY <2>1, <2>3 DEF Run
      <3>4. \A p, q \in S : p.print = q.print => p = q
        <4> HIDE DEF n
        <4> QED
          BY <2>3, <3>3, SameInput DEF RunsInv
      <3>5. \A v \in Workers \ {w} : pc[v] = "evaluating" /\ op[v] = op[w] =>
                \A q \in S : q.print = target[v] => q.state # "COMPLETED"
        BY <2>3, NoWorkerIn DEF RunsInv
      <3> HIDE DEF S
      <3> QED
        BY <2>2, <2>3, <3>2, <3>4, <3>5, WriteRuns
    <2> QED
      BY <2>4, <2>5
  <1>19. ASSUME NEW w \in Workers, LoseFailure(w)
         PROVE  RunsInv'
    <2>1. Shape
      BY TypeShape
    <2>2. Others(w) /\ pc'[w] # "evaluating"
      BY <1>19, <2>1, LoseMoves DEF Moves
    <2>3. runs' = runs /\ (runLock' = runLock \/ runLock' = Freed(runLock, w))
      BY <1>19 DEF LoseFailure, EndTransaction, durable
    <2> QED
      BY <2>2, <2>3, MoveRuns
  <1>20. ASSUME NEW w \in Workers, Crash(w)
         PROVE  RunsInv'
    <2>1. Others(w) /\ pc'[w] # "evaluating"
      BY <1>20, TypeShape, EndsCall DEF Crash
    <2>2. runs' = runs /\ runLock' = Freed(runLock, w)
      BY <1>20 DEF Crash, Finish, EndTransaction, durable
    <2> QED
      BY <2>1, <2>2, MoveRuns
  <1>21. ASSUME NEW w \in Workers, LoseLock(w)
         PROVE  RunsInv'
    BY <1>21 DEF LoseLock, locals, durable, RunsInv
  <1>22. ASSUME NEW c \in Cells, Recalculate(c)
         PROVE  RunsInv'
    BY <1>22 DEF Recalculate, locals, RunsInv
  <1>23. CASE UNCHANGED vars
    BY <1>23 DEF vars, durable, locals, RunsInv
  <1> QED
    BY <1>1, <1>2, <1>3, <1>4, <1>5, <1>6, <1>7, <1>8, <1>9, <1>10, <1>11,
       <1>12, <1>13, <1>14, <1>15, <1>16, <1>17, <1>18, <1>19, <1>20,
       <1>21, <1>22, <1>23
    DEF Next, Integration, Core, Faults

(* The values of the variables, in three groups.                            *)
Marks == {"job", "run", "latest"}

DurableOK ==
    /\ obs \in [Cells -> [run : Nat, revision : Nat]]
    /\ job \in [Ops -> [state : JobState, print : SUBSET Row]]
    /\ runs \in [Ops -> SUBSET Run] /\ latest \in SUBSET Row
    /\ events \in [Ops -> [success : Nat, idle : Nat]]
    /\ budget \in [raises : Nat, losses : Nat] /\ lost \in SUBSET Ops

LocksOK ==
    /\ execLock \in [Ops -> Workers \cup {NoWorker}]
    /\ jobLock \in [Ops -> Workers \cup {NoWorker}]
    /\ runLock \in [Ops -> Workers \cup {NoWorker}]

LocalsOK ==
    /\ pc \in [Workers -> Where] /\ op \in [Workers -> Ops \cup {NoOp}]
    /\ view \in [Workers -> View] /\ changed \in [Workers -> SUBSET Marks]
    /\ tries \in [Workers -> 0..Attempts] /\ target \in [Workers -> SUBSET Row]
    /\ result \in [Workers -> {"NONE"} \cup Terminal]

LEMMA TypeParts == TypeOK <=> DurableOK /\ LocksOK /\ LocalsOK
  BY Zenon DEF TypeOK, DurableOK, LocksOK, LocalsOK, Marks

LEMMA TypeWhole == DurableOK' /\ LocksOK' /\ LocalsOK' => TypeOK'
  BY Zenon DEF TypeOK, DurableOK, LocksOK, LocalsOK, Marks

LEMMA FreedType ==
  ASSUME NEW lock \in [Ops -> Workers \cup {NoWorker}], NEW w
  PROVE  Freed(lock, w) \in [Ops -> Workers \cup {NoWorker}]
  BY DEF Freed

LEMMA TouchedType ==
  ASSUME LocalsOK, NEW w, NEW rows \in SUBSET Marks
  PROVE  Touched(w, rows) \in [Workers -> SUBSET Marks]
  <1>1. \A v \in Workers : changed[v] \in SUBSET Marks
    BY DEF LocalsOK
  <1> QED
    BY <1>1 DEF Touched

LEMMA NoViewType == NoView \in View /\ NoRows \in SUBSET Row
  BY DEF NoView, View, NoRows

LEMMA MarksIn == {"job"} \in SUBSET Marks /\ {"run"} \in SUBSET Marks /\ {} \in SUBSET Marks
  BY DEF Marks

(* The end of a call.                                                       *)
LEMMA FinishTypes ==
  ASSUME LocalsOK, LocksOK, NEW w \in Workers, NEW rows \in SUBSET Marks, Finish(w, rows)
  PROVE  LocalsOK' /\ LocksOK'
  <1>1. LocksOK'
    BY FreedType DEF LocksOK, Finish, EndTransaction
  <1>2. changed' \in [Workers -> SUBSET Marks]
    BY TouchedType DEF Finish
  <1>3. pc' \in [Workers -> Where] /\ op' \in [Workers -> Ops \cup {NoOp}]
    BY DEF Finish, GoTo, LocalsOK, Where
  <1>4. view' \in [Workers -> View]
    BY NoViewType DEF Finish, LocalsOK
  <1>5. target' \in [Workers -> SUBSET Row]
    BY NoViewType DEF Finish, LocalsOK
  <1>6. tries' \in [Workers -> 0..Attempts] /\ result' \in [Workers -> {"NONE"} \cup Terminal]
    BY DEF Finish, LocalsOK, Attempts
  <1> QED
    BY <1>1, <1>2, <1>3, <1>4, <1>5, <1>6 DEF LocalsOK

(* The values after a step.                                                 *)
LEMMA TypeStep ==
  ASSUME TypeOK, LocalInv, [Next]_vars
  PROVE  TypeOK'
  <1>1. ASSUME NEW w \in Workers, NEW o \in Ops, Schedule(w, o)
        PROVE  TypeOK'
    <2>0. DurableOK /\ LocksOK /\ LocalsOK
      BY TypeParts
    <2>1. DurableOK'
      BY <1>1, <2>0 DEF Schedule, durable, DurableOK, SetJob, JobState, NoRows
    <2>2. LocksOK'
      <3>1. execLock' = execLock /\ jobLock' = jobLock /\ runLock' = runLock
        BY <1>1 DEF Schedule, EndTransaction
      <3> QED
        BY <2>0, <3>1, FreedType DEF LocksOK
    <2>3. LocalsOK'
      <3>1. pc' \in [Workers -> Where]
        BY <1>1, <2>0 DEF Schedule, GoTo, LocalsOK, Where
      <3>2. op' \in [Workers -> Ops \cup {NoOp}]
        BY <1>1, <2>0, NoViewType, TouchedType DEF Schedule, LocalsOK
      <3>3. /\ view' \in [Workers -> View]
           /\ changed' \in [Workers -> SUBSET Marks]
           /\ tries' \in [Workers -> 0..Attempts]
           /\ target' \in [Workers -> SUBSET Row]
           /\ result' \in [Workers -> {"NONE"} \cup Terminal]
        <4>1. /\ view' = view /\ changed' = changed
              /\ tries' = tries /\ target' = target /\ result' = result
          BY <1>1 DEF Schedule
        <4> QED
          BY <2>0, <4>1 DEF LocalsOK
      <3> QED
        BY <2>0, <3>1, <3>2, <3>3 DEF LocalsOK
    <2> QED
      BY <2>1, <2>2, <2>3, TypeWhole
  <1>2. ASSUME NEW w \in Workers, Enter(w)
        PROVE  TypeOK'
    <2>0. DurableOK /\ LocksOK /\ LocalsOK
      BY TypeParts
    <2>1. DurableOK'
      BY <1>2, <2>0 DEF Enter, durable, DurableOK, SetJob, JobState, NoRows
    <2>2. LocksOK'
      <3>1. execLock' = [execLock EXCEPT ![op[w]] = w] /\ jobLock' = jobLock /\ runLock' = runLock
        BY <1>2 DEF Enter, EndTransaction
      <3> QED
        BY <2>0, <3>1, FreedType DEF LocksOK
    <2>3. LocalsOK'
      <3>1. pc' \in [Workers -> Where]
        BY <1>2, <2>0 DEF Enter, GoTo, LocalsOK, Where
      <3>2. /\ op' \in [Workers -> Ops \cup {NoOp}]
           /\ view' \in [Workers -> View]
           /\ changed' \in [Workers -> SUBSET Marks]
           /\ tries' \in [Workers -> 0..Attempts]
           /\ target' \in [Workers -> SUBSET Row]
           /\ result' \in [Workers -> {"NONE"} \cup Terminal]
        <4>1. /\ op' = op /\ view' = view /\ changed' = changed
              /\ tries' = tries /\ target' = target /\ result' = result
          BY <1>2 DEF Enter
        <4> QED
          BY <2>0, <4>1 DEF LocalsOK
      <3> QED
        BY <2>0, <3>1, <3>2 DEF LocalsOK
    <2> QED
      BY <2>1, <2>2, <2>3, TypeWhole
  <1>3. ASSUME NEW w \in Workers, Open(w)
        PROVE  TypeOK'
    <2>0. DurableOK /\ LocksOK /\ LocalsOK
      BY TypeParts
    <2>1. DurableOK'
      <3>1. obs' = obs /\ runs' = runs /\ latest' = latest /\ events' = events /\ budget' = budget /\ lost' = lost
        BY <1>3 DEF Open
      <3>2. op[w] \in Ops
        BY <1>3 DEF Open, LocalInv
      <3>3. \/ job' = job
            \/ job' = [job EXCEPT ![op[w]] = [state |-> "STARTED", print |-> job[op[w]].print]]
        BY <1>3 DEF Open, SetJob
      <3>4. job' \in [Ops -> [state : JobState, print : SUBSET Row]]
        BY <2>0, <3>2, <3>3 DEF DurableOK, JobState
      <3> QED
        BY <2>0, <3>1, <3>4 DEF DurableOK
    <2>2. CASE Finished(job[op[w]].state)
      <3>1. Finish(w, {}) /\ {} \in SUBSET Marks
        BY <1>3, <2>2, MarksIn DEF Open
      <3>2. LocalsOK' /\ LocksOK'
        BY <2>0, <3>1, FinishTypes
      <3> QED
        BY <2>1, <3>2, TypeWhole
    <2>3. CASE ~Finished(job[op[w]].state)
      <3>1. /\ execLock' = execLock /\ jobLock' = jobLock /\ runLock' = runLock /\ op' = op
            /\ view' = view /\ tries' = tries /\ target' = target /\ result' = result
        BY <1>3, <2>3 DEF Open
      <3>2. pc' \in [Workers -> Where]
        BY <1>3, <2>0, <2>3 DEF Open, GoTo, LocalsOK, Where
      <3>3. changed' \in [Workers -> SUBSET Marks]
        <4>1. changed' = changed \/ changed' = Touched(w, {"job"})
          BY <1>3, <2>3 DEF Open
        <4> QED
          BY <2>0, <4>1, TouchedType, MarksIn DEF LocalsOK
      <3>4. LocksOK'
        BY <2>0, <3>1 DEF LocksOK
      <3>5. LocalsOK'
        <4>1. /\ op' \in [Workers -> Ops \cup {NoOp}] /\ view' \in [Workers -> View]
              /\ tries' \in [Workers -> 0..Attempts] /\ target' \in [Workers -> SUBSET Row]
              /\ result' \in [Workers -> {"NONE"} \cup Terminal]
          BY <2>0, <3>1 DEF LocalsOK
        <4> QED
          BY <3>2, <3>3, <4>1 DEF LocalsOK
      <3> QED
        BY <2>1, <3>4, <3>5, TypeWhole
    <2> QED
      BY <2>2, <2>3
  <1>4. ASSUME NEW w \in Workers, Close(w)
        PROVE  TypeOK'
    <2>0. DurableOK /\ LocksOK /\ LocalsOK
      BY TypeParts
    <2>1. DurableOK'
      <3>1. op[w] \in Ops /\ target[w] \in SUBSET Row
        BY <1>4, <2>0 DEF Close, LocalInv, LocalsOK
      <3>2. obs' = obs /\ latest' = latest /\ budget' = budget /\ lost' = lost /\ runs' = runs
        BY <1>4 DEF Close
      <3>3. job' \in [Ops -> [state : JobState, print : SUBSET Row]]
        <4>1. \/ job' = job
              \/ job' = [job EXCEPT ![op[w]] = [state |-> "COMPLETED", print |-> target[w]]]
              \/ job' = [job EXCEPT ![op[w]] = [state |-> "NO_RELEVANT_WORK", print |-> target[w]]]
          BY <1>4, Zenon DEF Close, SetJob
        <4>2. \A s \in JobState : [state |-> s, print |-> target[w]]
                \in [state : JobState, print : SUBSET Row]
          BY <3>1
        <4>3. "COMPLETED" \in JobState /\ "NO_RELEVANT_WORK" \in JobState
          BY DEF JobState
        <4> QED
          BY <2>0, <3>1, <4>1, <4>2, <4>3 DEF DurableOK
      <3>4. events' \in [Ops -> [success : Nat, idle : Nat]]
        <4>1. events' = events \/ events' = [events EXCEPT ![op[w]].idle = events[op[w]].idle + 1]
          BY <1>4, Zenon DEF Close
        <4>2. events[op[w]] \in [success : Nat, idle : Nat]
          BY <2>0, <3>1 DEF DurableOK
        <4>3. [events[op[w]] EXCEPT !.idle = events[op[w]].idle + 1] \in [success : Nat, idle : Nat]
          BY <4>2
        <4> QED
          BY <2>0, <3>1, <4>1, <4>3 DEF DurableOK
      <3> QED
        BY <2>0, <3>2, <3>3, <3>4 DEF DurableOK
    <2>2. PICK rows \in SUBSET Marks : Finish(w, rows)
      BY <1>4, MarksIn, Zenon DEF Close
    <2>3. LocalsOK' /\ LocksOK'
      BY <2>0, <2>2, FinishTypes
    <2> QED
      BY <2>1, <2>2, <2>3, TypeWhole
  <1>5. ASSUME NEW w \in Workers, Reconcile(w)
        PROVE  TypeOK'
    <2>0. DurableOK /\ LocksOK /\ LocalsOK
      BY TypeParts
    <2>1. DurableOK'
      <3>1. obs' = obs /\ latest' = latest /\ budget' = budget /\ lost' = lost /\ runs' = runs /\ events' = events
        BY <1>5 DEF Reconcile
      <3>2. op[w] \in Ops
        BY <1>5 DEF Reconcile, LocalInv
      <3>3. runs[op[w]] \in SUBSET Run /\ job[op[w]].print \in SUBSET Row
        BY <2>0, <3>2 DEF DurableOK
      <3>4. \/ job' = job
            \/ job' = [job EXCEPT ![op[w]] = [state |-> "FAILED", print |-> job[op[w]].print]]
            \/ \E r \in runs[op[w]] :
                   job' = [job EXCEPT ![op[w]] = [state |-> "COMPLETED", print |-> r.print]]
        BY <1>5 DEF Reconcile, SetJob
      <3>5. \A r \in runs[op[w]] : r.print \in SUBSET Row
        BY <3>3 DEF Run
      <3>6. job' \in [Ops -> [state : JobState, print : SUBSET Row]]
        <4>1. /\ [state |-> "FAILED", print |-> job[op[w]].print]
                \in [state : JobState, print : SUBSET Row]
              /\ \A r \in runs[op[w]] : [state |-> "COMPLETED", print |-> r.print]
                                        \in [state : JobState, print : SUBSET Row]
          BY <3>3, <3>5 DEF JobState
        <4>2. job \in [Ops -> [state : JobState, print : SUBSET Row]]
          BY <2>0 DEF DurableOK
        <4> HIDE DEF JobState
        <4> QED
          BY <3>2, <3>4, <4>1, <4>2
      <3> QED
        BY <2>0, <3>1, <3>6 DEF DurableOK
    <2>2. PICK rows \in SUBSET Marks : Finish(w, rows)
      BY <1>5, MarksIn, Zenon DEF Reconcile
    <2>3. LocalsOK' /\ LocksOK'
      BY <2>0, <2>2, FinishTypes
    <2> QED
      BY <2>1, <2>2, <2>3, TypeWhole
  <1>6. ASSUME NEW w \in Workers, HandlerRaises(w)
        PROVE  TypeOK'
    <2>0. DurableOK /\ LocksOK /\ LocalsOK
      BY TypeParts
    <2>1. DurableOK'
      BY <1>6, <2>0 DEF HandlerRaises, durable, DurableOK, SetJob, JobState, NoRows
    <2>2. PICK rows \in SUBSET Marks : Finish(w, rows)
      BY <1>6, MarksIn, Zenon DEF HandlerRaises
    <2>3. LocalsOK' /\ LocksOK'
      BY <2>0, <2>2, FinishTypes
    <2> QED
      BY <2>1, <2>2, <2>3, TypeWhole
  <1>7. ASSUME NEW w \in Workers, Freeze(w)
        PROVE  TypeOK'
    <2>0. DurableOK /\ LocksOK /\ LocalsOK
      BY TypeParts
    <2>1. DurableOK'
      BY <1>7, <2>0 DEF Freeze, durable, DurableOK, SetJob, JobState, NoRows
    <2>2. LocksOK'
      <3>1. execLock' = execLock /\ jobLock' = jobLock /\ runLock' = runLock
        BY <1>7 DEF Freeze, EndTransaction
      <3> QED
        BY <2>0, <3>1, FreedType DEF LocksOK
    <2>3. LocalsOK'
      <3>1. pc' \in [Workers -> Where]
        <4>1. pc' = [pc EXCEPT ![w] = "reading"]
          BY <1>7, Zenon DEF Freeze, GoTo
        <4> QED
          BY <2>0, <4>1 DEF LocalsOK, Where
      <3>2. view' \in [Workers -> View]
        <4>1. view' = [view EXCEPT ![w] = [rows |-> Eligible, runs |-> runs[op[w]], latest |-> latest]]
          BY <1>7 DEF Freeze
        <4>2. Eligible \in SUBSET Row
          BY <2>0 DEF Eligible, Row, DurableOK
        <4>3. runs[op[w]] \in SUBSET Run /\ latest \in SUBSET Row
          BY <1>7, <2>0 DEF DurableOK, LocalInv, Freeze
        <4>4. [rows |-> Eligible, runs |-> runs[op[w]], latest |-> latest] \in View
          BY <4>2, <4>3 DEF View
        <4> HIDE DEF LocalsOK
        <4> QED
          BY <2>0, <4>1, <4>4 DEF LocalsOK
      <3>3. changed' \in [Workers -> SUBSET Marks]
        BY <1>7, <2>0, NoViewType, TouchedType DEF Freeze, LocalsOK, Marks
      <3>4. /\ op' \in [Workers -> Ops \cup {NoOp}]
           /\ tries' \in [Workers -> 0..Attempts]
           /\ target' \in [Workers -> SUBSET Row]
           /\ result' \in [Workers -> {"NONE"} \cup Terminal]
        <4>1. op' = op /\ tries' = tries /\ target' = target /\ result' = result
          BY <1>7 DEF Freeze
        <4> QED
          BY <2>0, <4>1 DEF LocalsOK
      <3> QED
        BY <2>0, <3>1, <3>2, <3>3, <3>4 DEF LocalsOK
    <2> QED
      BY <2>1, <2>2, <2>3, TypeWhole
  <1>8. ASSUME NEW w \in Workers, FindRun(w)
        PROVE  TypeOK'
    <2>0. DurableOK /\ LocksOK /\ LocalsOK
      BY TypeParts
    <2>1. DurableOK'
      BY <1>8, <2>0 DEF FindRun, durable, DurableOK, SetJob, JobState, NoRows
    <2>2. LocksOK'
      <3>1. execLock' = execLock /\ jobLock' = jobLock /\ runLock' = runLock
        BY <1>8 DEF FindRun, EndTransaction
      <3> QED
        BY <2>0, <3>1, FreedType DEF LocksOK
    <2>3. LocalsOK'
      <3>1. pc' \in [Workers -> Where]
        BY <1>8, <2>0 DEF FindRun, GoTo, LocalsOK, Where
      <3>2. view' \in [Workers -> View]
        <4>1. view' = [view EXCEPT ![w] = NoView]
          BY <1>8 DEF FindRun
        <4> QED
          BY <2>0, <4>1, NoViewType DEF LocalsOK
      <3>3. target' \in [Workers -> SUBSET Row]
        <4>1. PICK r \in view[w].runs : target' = [target EXCEPT ![w] = r.print]
          BY <1>8, Zenon DEF FindRun
        <4>2. view[w].runs \in SUBSET Run
          BY <2>0 DEF LocalsOK, View
        <4>3. r.print \in SUBSET Row
          BY <4>2 DEF Run
        <4> QED
          BY <2>0, <4>1, <4>3 DEF LocalsOK
      <3>4. result' \in [Workers -> {"NONE"} \cup Terminal]
        BY <1>8, <2>0, NoViewType, TouchedType DEF FindRun, LocalsOK, Terminal
      <3>5. /\ op' \in [Workers -> Ops \cup {NoOp}]
           /\ changed' \in [Workers -> SUBSET Marks]
           /\ tries' \in [Workers -> 0..Attempts]
        <4>1. op' = op /\ changed' = changed /\ tries' = tries
          BY <1>8 DEF FindRun
        <4> QED
          BY <2>0, <4>1 DEF LocalsOK
      <3> QED
        BY <2>0, <3>1, <3>2, <3>3, <3>4, <3>5 DEF LocalsOK
    <2> QED
      BY <2>1, <2>2, <2>3, TypeWhole
  <1>9. ASSUME NEW w \in Workers, FindNothingNew(w)
        PROVE  TypeOK'
    <2>0. DurableOK /\ LocksOK /\ LocalsOK
      BY TypeParts
    <2>1. DurableOK'
      BY <1>9, <2>0 DEF FindNothingNew, durable, DurableOK, SetJob, JobState, NoRows
    <2>2. LocksOK'
      <3>1. execLock' = execLock /\ jobLock' = jobLock /\ runLock' = runLock
        BY <1>9 DEF FindNothingNew, EndTransaction
      <3> QED
        BY <2>0, <3>1, FreedType DEF LocksOK
    <2>3. LocalsOK'
      <3>1. pc' \in [Workers -> Where]
        BY <1>9, <2>0 DEF FindNothingNew, GoTo, LocalsOK, Where
      <3>2. view' \in [Workers -> View]
        <4>1. view' = [view EXCEPT ![w] = NoView]
          BY <1>9 DEF FindNothingNew
        <4> QED
          BY <2>0, <4>1, NoViewType DEF LocalsOK
      <3>3. target' \in [Workers -> SUBSET Row]
        <4>1. target' = [target EXCEPT ![w] = view[w].rows]
          BY <1>9 DEF FindNothingNew
        <4> QED
          BY <2>0, <4>1, <2>0 DEF LocalsOK, View
      <3>4. result' \in [Workers -> {"NONE"} \cup Terminal]
        BY <1>9, <2>0, NoViewType, TouchedType DEF FindNothingNew, LocalsOK, Terminal
      <3>5. /\ op' \in [Workers -> Ops \cup {NoOp}]
           /\ changed' \in [Workers -> SUBSET Marks]
           /\ tries' \in [Workers -> 0..Attempts]
        <4>1. op' = op /\ changed' = changed /\ tries' = tries
          BY <1>9 DEF FindNothingNew
        <4> QED
          BY <2>0, <4>1 DEF LocalsOK
      <3> QED
        BY <2>0, <3>1, <3>2, <3>3, <3>4, <3>5 DEF LocalsOK
    <2> QED
      BY <2>1, <2>2, <2>3, TypeWhole
  <1>10. ASSUME NEW w \in Workers, FindWork(w)
         PROVE  TypeOK'
    <2>0. DurableOK /\ LocksOK /\ LocalsOK
      BY TypeParts
    <2>1. DurableOK'
      BY <1>10, <2>0 DEF FindWork, durable, DurableOK, SetJob, JobState, NoRows
    <2>2. LocksOK'
      <3>1. execLock' = execLock /\ jobLock' = [jobLock EXCEPT ![op[w]] = w] /\ runLock' = runLock
        BY <1>10 DEF FindWork, EndTransaction
      <3> QED
        BY <2>0, <3>1, FreedType DEF LocksOK
    <2>3. LocalsOK'
      <3>1. pc' \in [Workers -> Where]
        BY <1>10, <2>0 DEF FindWork, GoTo, LocalsOK, Where
      <3>2. /\ op' \in [Workers -> Ops \cup {NoOp}]
           /\ view' \in [Workers -> View]
           /\ changed' \in [Workers -> SUBSET Marks]
           /\ tries' \in [Workers -> 0..Attempts]
           /\ target' \in [Workers -> SUBSET Row]
           /\ result' \in [Workers -> {"NONE"} \cup Terminal]
        <4>1. /\ op' = op /\ view' = view /\ changed' = changed
              /\ tries' = tries /\ target' = target /\ result' = result
          BY <1>10 DEF FindWork
        <4> QED
          BY <2>0, <4>1 DEF LocalsOK
      <3> QED
        BY <2>0, <3>1, <3>2 DEF LocalsOK
    <2> QED
      BY <2>1, <2>2, <2>3, TypeWhole
  <1>11. ASSUME NEW w \in Workers, CreateRun(w)
         PROVE  TypeOK'
    <2>0. DurableOK /\ LocksOK /\ LocalsOK
      BY TypeParts
    <2>1. DurableOK'
      <3>1. /\ obs' = obs /\ job' = job /\ latest' = latest
            /\ events' = events /\ budget' = budget /\ lost' = lost
        BY <1>11 DEF CreateRun
      <3> DEFINE n == [print |-> view[w].rows, frozen |-> Closure(view[w].rows),
                       state |-> "STARTED", findings |-> NoRows]
      <3>2. runs' = [runs EXCEPT ![op[w]] = runs[op[w]] \cup {n}] /\ op[w] \in Ops
        BY <1>11 DEF CreateRun, LocalInv
      <3>3. view[w].rows \in SUBSET Row
        BY <2>0 DEF LocalsOK, View
      <3>4. n \in Run
        BY <3>3, NoViewType DEF Run, RunState, Closure
      <3> HIDE DEF n
      <3>5. runs' \in [Ops -> SUBSET Run]
        BY <2>0, <3>2, <3>4 DEF DurableOK
      <3> QED
        BY <2>0, <3>1, <3>5 DEF DurableOK
    <2>2. LocksOK'
      <3>1. execLock' = execLock /\ jobLock' = Freed(jobLock, w) /\ runLock' = Freed(runLock, w)
        BY <1>11 DEF CreateRun, EndTransaction
      <3> QED
        BY <2>0, <3>1, FreedType DEF LocksOK
    <2>3. LocalsOK'
      <3>1. pc' \in [Workers -> Where]
        BY <1>11, <2>0 DEF CreateRun, GoTo, LocalsOK, Where
      <3>2. view' \in [Workers -> View]
        <4>1. view' = [view EXCEPT ![w] = NoView]
          BY <1>11 DEF CreateRun
        <4> QED
          BY <2>0, <4>1, NoViewType DEF LocalsOK
      <3>3. target' \in [Workers -> SUBSET Row]
        <4>1. target' = [target EXCEPT ![w] = view[w].rows]
          BY <1>11 DEF CreateRun
        <4> QED
          BY <2>0, <4>1, <2>0 DEF LocalsOK, View
      <3>4. /\ op' \in [Workers -> Ops \cup {NoOp}]
           /\ changed' \in [Workers -> SUBSET Marks]
           /\ tries' \in [Workers -> 0..Attempts]
           /\ result' \in [Workers -> {"NONE"} \cup Terminal]
        <4>1. op' = op /\ changed' = changed /\ tries' = tries /\ result' = result
          BY <1>11 DEF CreateRun
        <4> QED
          BY <2>0, <4>1 DEF LocalsOK
      <3> QED
        BY <2>0, <3>1, <3>2, <3>3, <3>4 DEF LocalsOK
    <2> QED
      BY <2>1, <2>2, <2>3, TypeWhole
  <1>12. ASSUME NEW w \in Workers, Finalize(w)
         PROVE  TypeOK'
    <2>0. DurableOK /\ LocksOK /\ LocalsOK
      BY TypeParts
    <2>1. DurableOK'
      BY <1>12, <2>0 DEF Finalize, durable, DurableOK, SetJob, JobState, NoRows
    <2>2. LocksOK'
      <3>1. execLock' = execLock /\ jobLock' = jobLock /\ runLock' = runLock
        BY <1>12 DEF Finalize, EndTransaction
      <3> QED
        BY <2>0, <3>1, FreedType DEF LocksOK
    <2>3. LocalsOK'
      <3>1. pc' \in [Workers -> Where]
        BY <1>12, <2>0 DEF Finalize, GoTo, LocalsOK, Where
      <3>2. changed' \in [Workers -> SUBSET Marks]
        BY <1>12, <2>0, NoViewType, TouchedType DEF Finalize, LocalsOK, Marks
      <3>3. /\ op' \in [Workers -> Ops \cup {NoOp}]
           /\ view' \in [Workers -> View]
           /\ tries' \in [Workers -> 0..Attempts]
           /\ target' \in [Workers -> SUBSET Row]
           /\ result' \in [Workers -> {"NONE"} \cup Terminal]
        <4>1. op' = op /\ view' = view /\ tries' = tries /\ target' = target /\ result' = result
          BY <1>12 DEF Finalize
        <4> QED
          BY <2>0, <4>1 DEF LocalsOK
      <3> QED
        BY <2>0, <3>1, <3>2, <3>3 DEF LocalsOK
    <2> QED
      BY <2>1, <2>2, <2>3, TypeWhole
  <1>13. ASSUME NEW w \in Workers, LockRun(w)
         PROVE  TypeOK'
    <2>0. DurableOK /\ LocksOK /\ LocalsOK
      BY TypeParts
    <2>1. DurableOK'
      BY <1>13, <2>0 DEF LockRun, durable, DurableOK, SetJob, JobState, NoRows
    <2>2. LocksOK'
      <3>1. /\ execLock' = execLock
            /\ jobLock' = jobLock /\ runLock' \in {runLock, [runLock EXCEPT ![op[w]] = w]}
        BY <1>13 DEF LockRun, EndTransaction
      <3> QED
        BY <2>0, <3>1, FreedType DEF LocksOK
    <2>3. LocalsOK'
      <3>1. pc' \in [Workers -> Where]
        BY <1>13, <2>0 DEF LockRun, GoTo, LocalsOK, Where
      <3>2. result' \in [Workers -> {"NONE"} \cup Terminal]
        BY <1>13, <2>0, NoViewType, TouchedType DEF LockRun, LocalsOK, Terminal
      <3>3. /\ op' \in [Workers -> Ops \cup {NoOp}]
           /\ view' \in [Workers -> View]
           /\ changed' \in [Workers -> SUBSET Marks]
           /\ tries' \in [Workers -> 0..Attempts]
           /\ target' \in [Workers -> SUBSET Row]
        <4>1. op' = op /\ view' = view /\ changed' = changed /\ tries' = tries /\ target' = target
          BY <1>13 DEF LockRun
        <4> QED
          BY <2>0, <4>1 DEF LocalsOK
      <3> QED
        BY <2>0, <3>1, <3>2, <3>3 DEF LocalsOK
    <2> QED
      BY <2>1, <2>2, <2>3, TypeWhole
  <1>14. ASSUME NEW w \in Workers, CompleteRun(w)
         PROVE  TypeOK'
    <2>0. DurableOK /\ LocksOK /\ LocalsOK
      BY TypeParts
    <2>1. DurableOK'
      <3>1. obs' = obs /\ job' = job /\ budget' = budget /\ lost' = lost
        BY <1>14 DEF CompleteRun
      <3>2. latest' \in {target[w], latest} /\ op[w] \in Ops
        BY <1>14 DEF CompleteRun, LocalInv
      <3>3. events' \in [Ops -> [success : Nat, idle : Nat]]
        <4>1. events' = [events EXCEPT ![op[w]].success = events[op[w]].success + 1]
          BY <1>14, Zenon DEF CompleteRun
        <4>2. events[op[w]] \in [success : Nat, idle : Nat]
          BY <2>0, <3>2 DEF DurableOK
        <4>3. [events[op[w]] EXCEPT !.success = events[op[w]].success + 1]
                \in [success : Nat, idle : Nat]
          BY <4>2
        <4> QED
          BY <2>0, <3>2, <4>1, <4>3 DEF DurableOK
      <3>4. PICK r \in runs[op[w]] :
                runs' = [runs EXCEPT ![op[w]] = (runs[op[w]] \ {r}) \cup
                           {[r EXCEPT !.state = "COMPLETED", !.findings = r.frozen]}]
        BY <1>14 DEF CompleteRun
      <3> DEFINE n == [r EXCEPT !.state = "COMPLETED", !.findings = r.frozen]
      <3>5. r \in Run
        BY <2>0, <3>2 DEF DurableOK
      <3>6. n \in Run
        BY <3>5 DEF Run, RunState
      <3> HIDE DEF n
      <3>7. runs' \in [Ops -> SUBSET Run]
        <4>1. runs' = [runs EXCEPT ![op[w]] = (runs[op[w]] \ {r}) \cup {n}]
          BY <3>4 DEF n
        <4> QED
          BY <2>0, <3>2, <3>6, <4>1 DEF DurableOK
      <3>8. latest' \in SUBSET Row
        BY <2>0, <3>2 DEF DurableOK, LocalsOK
      <3> QED
        BY <2>0, <3>1, <3>3, <3>7, <3>8 DEF DurableOK
    <2>2. LocksOK'
      <3>1. execLock' = execLock /\ jobLock' = Freed(jobLock, w) /\ runLock' = Freed(runLock, w)
        BY <1>14 DEF CompleteRun, EndTransaction
      <3> QED
        BY <2>0, <3>1, FreedType DEF LocksOK
    <2>3. LocalsOK'
      <3>1. pc' \in [Workers -> Where]
        BY <1>14, <2>0 DEF CompleteRun, GoTo, LocalsOK, Where
      <3>2. changed' \in [Workers -> SUBSET Marks]
        BY <1>14, <2>0, NoViewType, TouchedType DEF CompleteRun, LocalsOK, Marks
      <3>3. result' \in [Workers -> {"NONE"} \cup Terminal]
        BY <1>14, <2>0, NoViewType, TouchedType DEF CompleteRun, LocalsOK, Terminal
      <3>4. /\ op' \in [Workers -> Ops \cup {NoOp}]
           /\ view' \in [Workers -> View]
           /\ tries' \in [Workers -> 0..Attempts]
           /\ target' \in [Workers -> SUBSET Row]
        <4>1. op' = op /\ view' = view /\ tries' = tries /\ target' = target
          BY <1>14 DEF CompleteRun
        <4> QED
          BY <2>0, <4>1 DEF LocalsOK
      <3> QED
        BY <2>0, <3>1, <3>2, <3>3, <3>4 DEF LocalsOK
    <2> QED
      BY <2>1, <2>2, <2>3, TypeWhole
  <1>15. ASSUME NEW w \in Workers, Serialization(w)
         PROVE  TypeOK'
    <2>0. DurableOK /\ LocksOK /\ LocalsOK
      BY TypeParts
    <2>1. DurableOK'
      BY <1>15, <2>0 DEF Serialization, durable, DurableOK, SetJob, JobState, NoRows
    <2>2. LocksOK'
      <3>1. execLock' = execLock /\ jobLock' = Freed(jobLock, w) /\ runLock' = Freed(runLock, w)
        BY <1>15 DEF Serialization, EndTransaction
      <3> QED
        BY <2>0, <3>1, FreedType DEF LocksOK
    <2>3. LocalsOK'
      <3>1. pc' \in [Workers -> Where]
        BY <1>15, <2>0 DEF Serialization, GoTo, LocalsOK, Where
      <3>2. view' \in [Workers -> View]
        <4>1. view' = [view EXCEPT ![w] = NoView]
          BY <1>15 DEF Serialization
        <4> QED
          BY <2>0, <4>1, NoViewType DEF LocalsOK
      <3>3. target' \in [Workers -> SUBSET Row]
        <4>1. target' = [target EXCEPT ![w] = NoRows]
          BY <1>15 DEF Serialization
        <4> QED
          BY <2>0, <4>1, NoViewType DEF LocalsOK
      <3>4. tries' \in [Workers -> 0..Attempts]
        <4>1. tries' = [tries EXCEPT ![w] = tries[w] + 1]
          BY <1>15, Zenon DEF Serialization
        <4>2. pc[w] \in {"reading", "creating", "locking"}
          BY <1>15 DEF Serialization, Readable
        <4>3. tries[w] < Attempts
          BY <4>2 DEF LocalInv
        <4> QED
          BY <2>0, <4>1, <4>3 DEF LocalsOK, Attempts
      <3>5. /\ op' \in [Workers -> Ops \cup {NoOp}]
           /\ changed' \in [Workers -> SUBSET Marks]
           /\ result' \in [Workers -> {"NONE"} \cup Terminal]
        <4>1. op' = op /\ changed' = changed /\ result' = result
          BY <1>15 DEF Serialization
        <4> QED
          BY <2>0, <4>1 DEF LocalsOK
      <3> QED
        BY <2>0, <3>1, <3>2, <3>3, <3>4, <3>5 DEF LocalsOK
    <2> QED
      BY <2>1, <2>2, <2>3, TypeWhole
  <1>16. ASSUME NEW w \in Workers, FreezeRaises(w)
         PROVE  TypeOK'
    <2>0. DurableOK /\ LocksOK /\ LocalsOK
      BY TypeParts
    <2>1. DurableOK'
      BY <1>16, <2>0 DEF FreezeRaises, durable, DurableOK, SetJob, JobState, NoRows
    <2>2. LocksOK'
      <3>1. execLock' = execLock /\ jobLock' = Freed(jobLock, w) /\ runLock' = Freed(runLock, w)
        BY <1>16 DEF FreezeRaises, EndTransaction
      <3> QED
        BY <2>0, <3>1, FreedType DEF LocksOK
    <2>3. LocalsOK'
      <3>1. pc' \in [Workers -> Where]
        BY <1>16, <2>0 DEF FreezeRaises, GoTo, LocalsOK, Where
      <3>2. view' \in [Workers -> View]
        <4>1. view' = [view EXCEPT ![w] = NoView]
          BY <1>16 DEF FreezeRaises
        <4> QED
          BY <2>0, <4>1, NoViewType DEF LocalsOK
      <3>3. /\ op' \in [Workers -> Ops \cup {NoOp}]
           /\ changed' \in [Workers -> SUBSET Marks]
           /\ tries' \in [Workers -> 0..Attempts]
           /\ target' \in [Workers -> SUBSET Row]
           /\ result' \in [Workers -> {"NONE"} \cup Terminal]
        <4>1. /\ op' = op /\ changed' = changed
              /\ tries' = tries /\ target' = target /\ result' = result
          BY <1>16 DEF FreezeRaises
        <4> QED
          BY <2>0, <4>1 DEF LocalsOK
      <3> QED
        BY <2>0, <3>1, <3>2, <3>3 DEF LocalsOK
    <2> QED
      BY <2>1, <2>2, <2>3, TypeWhole
  <1>17. ASSUME NEW w \in Workers, FinalizeRaises(w)
         PROVE  TypeOK'
    <2>0. DurableOK /\ LocksOK /\ LocalsOK
      BY TypeParts
    <2>1. DurableOK'
      BY <1>17, <2>0 DEF FinalizeRaises, durable, DurableOK, SetJob, JobState, NoRows
    <2>2. LocksOK'
      <3>1. execLock' = execLock /\ jobLock' = Freed(jobLock, w) /\ runLock' = Freed(runLock, w)
        BY <1>17 DEF FinalizeRaises, EndTransaction
      <3> QED
        BY <2>0, <3>1, FreedType DEF LocksOK
    <2>3. LocalsOK'
      <3>1. pc' \in [Workers -> Where]
        BY <1>17, <2>0 DEF FinalizeRaises, GoTo, LocalsOK, Where
      <3>2. /\ op' \in [Workers -> Ops \cup {NoOp}]
           /\ view' \in [Workers -> View]
           /\ changed' \in [Workers -> SUBSET Marks]
           /\ tries' \in [Workers -> 0..Attempts]
           /\ target' \in [Workers -> SUBSET Row]
           /\ result' \in [Workers -> {"NONE"} \cup Terminal]
        <4>1. /\ op' = op /\ view' = view /\ changed' = changed
              /\ tries' = tries /\ target' = target /\ result' = result
          BY <1>17 DEF FinalizeRaises
        <4> QED
          BY <2>0, <4>1 DEF LocalsOK
      <3> QED
        BY <2>0, <3>1, <3>2 DEF LocalsOK
    <2> QED
      BY <2>1, <2>2, <2>3, TypeWhole
  <1>18. ASSUME NEW w \in Workers, RecordFailure(w)
         PROVE  TypeOK'
    <2>0. DurableOK /\ LocksOK /\ LocalsOK
      BY TypeParts
    <2>1. DurableOK'
      <3>1. /\ obs' = obs /\ job' = job /\ latest' = latest
            /\ events' = events /\ budget' = budget /\ lost' = lost
        BY <1>18 DEF RecordFailure
      <3>2. PICK r \in runs[op[w]] :
                runs' \in {runs, [runs EXCEPT ![op[w]] = (runs[op[w]] \ {r}) \cup
                              {[r EXCEPT !.state = FailedRun]}]}
        BY <1>18 DEF RecordFailure
      <3> DEFINE n == [r EXCEPT !.state = FailedRun]
      <3>3. op[w] \in Ops /\ r \in Run
        BY <1>18, <2>0 DEF DurableOK, RecordFailure, LocalInv
      <3>4. n \in Run
        BY <3>3 DEF Run, RunState, FailedRun
      <3> HIDE DEF n
      <3>5. runs' \in [Ops -> SUBSET Run]
        <4>1. runs' \in {runs, [runs EXCEPT ![op[w]] = (runs[op[w]] \ {r}) \cup {n}]}
          BY <3>2 DEF n
        <4> QED
          BY <2>0, <3>3, <3>4, <4>1 DEF DurableOK
      <3> QED
        BY <2>0, <3>1, <3>5 DEF DurableOK
    <2>2. LocksOK'
      <3>1. execLock' = execLock /\ jobLock' = jobLock /\ runLock' = runLock
        BY <1>18 DEF RecordFailure, EndTransaction
      <3> QED
        BY <2>0, <3>1, FreedType DEF LocksOK
    <2>3. LocalsOK'
      <3>1. pc' \in [Workers -> Where]
        BY <1>18, <2>0 DEF RecordFailure, GoTo, LocalsOK, Where
      <3>2. changed' \in [Workers -> SUBSET Marks]
        BY <1>18, <2>0, NoViewType, TouchedType DEF RecordFailure, LocalsOK, Marks
      <3>3. /\ op' \in [Workers -> Ops \cup {NoOp}]
           /\ view' \in [Workers -> View]
           /\ tries' \in [Workers -> 0..Attempts]
           /\ target' \in [Workers -> SUBSET Row]
           /\ result' \in [Workers -> {"NONE"} \cup Terminal]
        <4>1. op' = op /\ view' = view /\ tries' = tries /\ target' = target /\ result' = result
          BY <1>18 DEF RecordFailure
        <4> QED
          BY <2>0, <4>1 DEF LocalsOK
      <3> QED
        BY <2>0, <3>1, <3>2, <3>3 DEF LocalsOK
    <2> QED
      BY <2>1, <2>2, <2>3, TypeWhole
  <1>19. ASSUME NEW w \in Workers, LoseFailure(w)
         PROVE  TypeOK'
    <2>0. DurableOK /\ LocksOK /\ LocalsOK
      BY TypeParts
    <2>1. DurableOK'
      BY <1>19, <2>0 DEF LoseFailure, durable, DurableOK, SetJob, JobState, NoRows
    <2>2. LocksOK'
      <3>1. execLock' = execLock /\ jobLock' = jobLock /\ runLock' = runLock
        BY <1>19 DEF LoseFailure, EndTransaction
      <3> QED
        BY <2>0, <3>1, FreedType DEF LocksOK
    <2>3. LocalsOK'
      <3>1. pc' \in [Workers -> Where]
        BY <1>19, <2>0 DEF LoseFailure, GoTo, LocalsOK, Where
      <3>2. /\ op' \in [Workers -> Ops \cup {NoOp}]
           /\ view' \in [Workers -> View]
           /\ changed' \in [Workers -> SUBSET Marks]
           /\ tries' \in [Workers -> 0..Attempts]
           /\ target' \in [Workers -> SUBSET Row]
           /\ result' \in [Workers -> {"NONE"} \cup Terminal]
        <4>1. /\ op' = op /\ view' = view /\ changed' = changed
              /\ tries' = tries /\ target' = target /\ result' = result
          BY <1>19 DEF LoseFailure
        <4> QED
          BY <2>0, <4>1 DEF LocalsOK
      <3> QED
        BY <2>0, <3>1, <3>2 DEF LocalsOK
    <2> QED
      BY <2>1, <2>2, <2>3, TypeWhole
  <1>20. ASSUME NEW w \in Workers, Crash(w)
         PROVE  TypeOK'
    <2>0. DurableOK /\ LocksOK /\ LocalsOK
      BY TypeParts
    <2>1. DurableOK'
      BY <1>20, <2>0 DEF Crash, durable, DurableOK, SetJob, JobState, NoRows
    <2>2. PICK rows \in SUBSET Marks : Finish(w, rows)
      BY <1>20, MarksIn, Zenon DEF Crash
    <2>3. LocalsOK' /\ LocksOK'
      BY <2>0, <2>2, FinishTypes
    <2> QED
      BY <2>1, <2>2, <2>3, TypeWhole
  <1>21. ASSUME NEW w \in Workers, LoseLock(w)
         PROVE  TypeOK'
    <2>1. execLock' \in [Ops -> Workers \cup {NoWorker}]
      BY <1>21, FreedType DEF LoseLock, TypeOK
    <2>2. budget' \in [raises : Nat, losses : Nat]
      BY <1>21 DEF LoseLock, TypeOK
    <2>3. lost' \in SUBSET Ops
      BY <1>21 DEF LoseLock, TypeOK, LocalInv
    <2> QED
      BY <1>21, <2>1, <2>2, <2>3 DEF LoseLock, TypeOK, durable, locals
  <1>22. ASSUME NEW c \in Cells, Recalculate(c)
         PROVE  TypeOK'
    <2>1. obs' \in [Cells -> [run : Nat, revision : Nat]]
      BY <1>22 DEF Recalculate, BoundTo, TypeOK
    <2> QED
      BY <1>22, <2>1 DEF Recalculate, locals, TypeOK
  <1>23. CASE UNCHANGED vars
    BY <1>23 DEF vars, durable, locals, TypeOK
  <1> QED
    BY <1>1, <1>2, <1>3, <1>4, <1>5, <1>6, <1>7, <1>8, <1>9, <1>10, <1>11,
       <1>12, <1>13, <1>14, <1>15, <1>16, <1>17, <1>18, <1>19, <1>20,
       <1>21, <1>22, <1>23
    DEF Next, Integration, Core, Faults

(* The rows of the runs, one by one.                                        *)
Bound == \A o \in Ops : \A q \in runs[o] : \A r \in q.frozen : obs[r.cell].run = r.run

LEMMA FrozenMeans == FrozenStaysBound <=> Bound
  BY DEF FrozenStaysBound, Frozen, Bound

LEMMA FrozenMeansNext == FrozenStaysBound' <=> Bound'
  BY DEF FrozenStaysBound, Frozen, Bound

LEMMA WriteBound ==
  ASSUME TypeOK, Bound, obs' = obs, NEW o \in Ops, NEW S, runs' = [runs EXCEPT ![o] = S],
         \A q \in S : \A r \in q.frozen : obs[r.cell].run = r.run
  PROVE  FrozenStaysBound'
  <1>1. \A k \in Ops : runs'[k] = (IF k = o THEN S ELSE runs[k])
    BY DEF TypeOK
  <1> QED
    BY <1>1, FrozenMeansNext DEF Bound

(* The frozen rows.                                                         *)
LEMMA BoundStep ==
  ASSUME TypeOK, LocalInv, FrozenStaysBound, [Next]_vars
  PROVE  FrozenStaysBound'
  <1>1. ASSUME NEW w \in Workers, NEW o \in Ops, Schedule(w, o)
        PROVE  FrozenStaysBound'
    <2>1. runs' = runs /\ obs' = obs
      BY <1>1 DEF Schedule, durable
    <2> QED
      BY <2>1, FrozenMeans, FrozenMeansNext DEF Bound
  <1>2. ASSUME NEW w \in Workers, Enter(w)
        PROVE  FrozenStaysBound'
    <2>1. runs' = runs /\ obs' = obs
      BY <1>2 DEF Enter, durable
    <2> QED
      BY <2>1, FrozenMeans, FrozenMeansNext DEF Bound
  <1>3. ASSUME NEW w \in Workers, Open(w)
        PROVE  FrozenStaysBound'
    <2>1. runs' = runs /\ obs' = obs
      BY <1>3 DEF Open, durable
    <2> QED
      BY <2>1, FrozenMeans, FrozenMeansNext DEF Bound
  <1>4. ASSUME NEW w \in Workers, Close(w)
        PROVE  FrozenStaysBound'
    <2>1. runs' = runs /\ obs' = obs
      BY <1>4 DEF Close, durable
    <2> QED
      BY <2>1, FrozenMeans, FrozenMeansNext DEF Bound
  <1>5. ASSUME NEW w \in Workers, Reconcile(w)
        PROVE  FrozenStaysBound'
    <2>1. runs' = runs /\ obs' = obs
      BY <1>5 DEF Reconcile, durable
    <2> QED
      BY <2>1, FrozenMeans, FrozenMeansNext DEF Bound
  <1>6. ASSUME NEW w \in Workers, HandlerRaises(w)
        PROVE  FrozenStaysBound'
    <2>1. runs' = runs /\ obs' = obs
      BY <1>6 DEF HandlerRaises, durable
    <2> QED
      BY <2>1, FrozenMeans, FrozenMeansNext DEF Bound
  <1>7. ASSUME NEW w \in Workers, Freeze(w)
        PROVE  FrozenStaysBound'
    <2>1. runs' = runs /\ obs' = obs
      BY <1>7 DEF Freeze, durable
    <2> QED
      BY <2>1, FrozenMeans, FrozenMeansNext DEF Bound
  <1>8. ASSUME NEW w \in Workers, FindRun(w)
        PROVE  FrozenStaysBound'
    <2>1. runs' = runs /\ obs' = obs
      BY <1>8 DEF FindRun, durable
    <2> QED
      BY <2>1, FrozenMeans, FrozenMeansNext DEF Bound
  <1>9. ASSUME NEW w \in Workers, FindNothingNew(w)
        PROVE  FrozenStaysBound'
    <2>1. runs' = runs /\ obs' = obs
      BY <1>9 DEF FindNothingNew, durable
    <2> QED
      BY <2>1, FrozenMeans, FrozenMeansNext DEF Bound
  <1>10. ASSUME NEW w \in Workers, FindWork(w)
         PROVE  FrozenStaysBound'
    <2>1. runs' = runs /\ obs' = obs
      BY <1>10 DEF FindWork, durable
    <2> QED
      BY <2>1, FrozenMeans, FrozenMeansNext DEF Bound
  <1>11. ASSUME NEW w \in Workers, CreateRun(w)
         PROVE  FrozenStaysBound'
    <2>1. op[w] \in Ops /\ obs' = obs
      BY <1>11 DEF CreateRun, LocalInv
    <2> DEFINE n == [print |-> view[w].rows, frozen |-> Closure(view[w].rows),
                     state |-> "STARTED", findings |-> NoRows]
               S == runs[op[w]] \cup {n}
    <2>2. runs' = [runs EXCEPT ![op[w]] = S]
      BY <1>11 DEF CreateRun
    <2>3. \A r \in n.frozen : obs[r.cell].run = r.run
      BY <1>11 DEF CreateRun, KeyChanged
    <2> HIDE DEF n
    <2>4. \A q \in S : \A r \in q.frozen : obs[r.cell].run = r.run
      BY <2>1, <2>3, FrozenMeans DEF Bound
    <2> HIDE DEF S
    <2> QED
      BY <2>1, <2>2, <2>4, FrozenMeans, WriteBound
  <1>12. ASSUME NEW w \in Workers, Finalize(w)
         PROVE  FrozenStaysBound'
    <2>1. runs' = runs /\ obs' = obs
      BY <1>12 DEF Finalize, durable
    <2> QED
      BY <2>1, FrozenMeans, FrozenMeansNext DEF Bound
  <1>13. ASSUME NEW w \in Workers, LockRun(w)
         PROVE  FrozenStaysBound'
    <2>1. runs' = runs /\ obs' = obs
      BY <1>13 DEF LockRun, durable
    <2> QED
      BY <2>1, FrozenMeans, FrozenMeansNext DEF Bound
  <1>14. ASSUME NEW w \in Workers, CompleteRun(w)
         PROVE  FrozenStaysBound'
    <2>1. op[w] \in Ops /\ obs' = obs
      BY <1>14 DEF CompleteRun, LocalInv
    <2>2. PICK r \in runs[op[w]] :
              runs' = [runs EXCEPT ![op[w]] = (runs[op[w]] \ {r}) \cup
                         {[r EXCEPT !.state = "COMPLETED", !.findings = r.frozen]}]
      BY <1>14 DEF CompleteRun
    <2> DEFINE n == [r EXCEPT !.state = "COMPLETED", !.findings = r.frozen]
               S == (runs[op[w]] \ {r}) \cup {n}
    <2>3. r \in Run
      BY <2>1 DEF TypeOK
    <2>4. n.frozen = r.frozen
      BY <2>3 DEF Run
    <2> HIDE DEF n
    <2>5. \A q \in S : \A k \in q.frozen : obs[k.cell].run = k.run
      BY <2>1, <2>4, FrozenMeans DEF Bound
    <2>6. runs' = [runs EXCEPT ![op[w]] = S]
      BY <2>2 DEF n
    <2> HIDE DEF S
    <2> QED
      BY <2>1, <2>5, <2>6, FrozenMeans, WriteBound
  <1>15. ASSUME NEW w \in Workers, Serialization(w)
         PROVE  FrozenStaysBound'
    <2>1. runs' = runs /\ obs' = obs
      BY <1>15 DEF Serialization, durable
    <2> QED
      BY <2>1, FrozenMeans, FrozenMeansNext DEF Bound
  <1>16. ASSUME NEW w \in Workers, FreezeRaises(w)
         PROVE  FrozenStaysBound'
    <2>1. runs' = runs /\ obs' = obs
      BY <1>16 DEF FreezeRaises, durable
    <2> QED
      BY <2>1, FrozenMeans, FrozenMeansNext DEF Bound
  <1>17. ASSUME NEW w \in Workers, FinalizeRaises(w)
         PROVE  FrozenStaysBound'
    <2>1. runs' = runs /\ obs' = obs
      BY <1>17 DEF FinalizeRaises, durable
    <2> QED
      BY <2>1, FrozenMeans, FrozenMeansNext DEF Bound
  <1>18. ASSUME NEW w \in Workers, RecordFailure(w)
         PROVE  FrozenStaysBound'
    <2>1. op[w] \in Ops /\ obs' = obs
      BY <1>18 DEF RecordFailure, LocalInv
    <2>2. CASE runs' = runs
      BY <2>1, <2>2, FrozenMeans, FrozenMeansNext DEF Bound
    <2>3. CASE runs' # runs
      <3>1. PICK r \in runs[op[w]] :
                runs' = [runs EXCEPT ![op[w]] = (runs[op[w]] \ {r}) \cup
                              {[r EXCEPT !.state = FailedRun]}]
        BY <1>18, <2>3 DEF RecordFailure
      <3> DEFINE n == [r EXCEPT !.state = FailedRun]
                 S == (runs[op[w]] \ {r}) \cup {n}
      <3>2. runs' = [runs EXCEPT ![op[w]] = S]
        BY <3>1
      <3>3. r \in Run
        BY <2>1 DEF TypeOK
      <3>4. n.frozen = r.frozen
        BY <3>3 DEF Run
      <3> HIDE DEF n
      <3>5. \A q \in S : \A k \in q.frozen : obs[k.cell].run = k.run
        BY <2>1, <3>4, FrozenMeans DEF Bound
      <3> HIDE DEF S
      <3> QED
        BY <2>1, <3>2, <3>5, FrozenMeans, WriteBound
    <2> QED
      BY <2>2, <2>3
  <1>19. ASSUME NEW w \in Workers, LoseFailure(w)
         PROVE  FrozenStaysBound'
    <2>1. runs' = runs /\ obs' = obs
      BY <1>19 DEF LoseFailure, durable
    <2> QED
      BY <2>1, FrozenMeans, FrozenMeansNext DEF Bound
  <1>20. ASSUME NEW w \in Workers, Crash(w)
         PROVE  FrozenStaysBound'
    <2>1. runs' = runs /\ obs' = obs
      BY <1>20 DEF Crash, durable
    <2> QED
      BY <2>1, FrozenMeans, FrozenMeansNext DEF Bound
  <1>21. ASSUME NEW w \in Workers, LoseLock(w)
         PROVE  FrozenStaysBound'
    <2>1. runs' = runs /\ obs' = obs
      BY <1>21 DEF LoseLock, durable
    <2> QED
      BY <2>1, FrozenMeans, FrozenMeansNext DEF Bound
  <1>22. ASSUME NEW c \in Cells, Recalculate(c)
         PROVE  FrozenStaysBound'
    <2>1. /\ runs' = runs
          /\ \A k \in Cells : obs'[k].run = (IF k = c THEN BoundTo(c) ELSE obs[k].run)
      BY <1>22 DEF Recalculate, TypeOK
    <2>2. ASSUME NEW o \in Ops, NEW q \in runs[o], NEW r \in q.frozen
          PROVE  obs'[r.cell].run = r.run
      <3>1. obs[r.cell].run = r.run /\ r \in Frozen
        BY FrozenMeans DEF Bound, Frozen
      <3>2. r.cell \in Cells
        <4>1. q \in Run
          BY DEF TypeOK
        <4> QED
          BY <4>1 DEF Run, Row
      <3> QED
        BY <2>1, <3>1, <3>2 DEF BoundTo
    <2> QED
      BY <2>1, <2>2, FrozenMeansNext DEF Bound
  <1>23. CASE UNCHANGED vars
    BY <1>23, FrozenMeans, FrozenMeansNext DEF vars, durable, Bound
  <1> QED
    BY <1>1, <1>2, <1>3, <1>4, <1>5, <1>6, <1>7, <1>8, <1>9, <1>10, <1>11,
       <1>12, <1>13, <1>14, <1>15, <1>16, <1>17, <1>18, <1>19, <1>20,
       <1>21, <1>22, <1>23
    DEF Next, Integration, Core, Faults

(* What the runs keep.                                                      *)
Settled ==
    \A o \in Ops : \A r \in runs[o] : \E q \in runs'[o] :
        /\ q.print = r.print /\ q.frozen = r.frozen
        /\ r.state = "COMPLETED" => q = r

LEMMA WriteSettled ==
  ASSUME TypeOK, NEW o \in Ops, NEW r \in runs[o], NEW n,
         runs' = [runs EXCEPT ![o] = (runs[o] \ {r}) \cup {n}],
         n.print = r.print, n.frozen = r.frozen, r.state # "COMPLETED"
  PROVE  Settled
  <1>1. \A k \in Ops : runs'[k] = (IF k = o THEN (runs[o] \ {r}) \cup {n} ELSE runs[k])
    BY DEF TypeOK
  <1>2. ASSUME NEW k \in Ops, NEW p \in runs[k]
        PROVE  \E q \in runs'[k] : /\ q.print = p.print /\ q.frozen = p.frozen
                                   /\ p.state = "COMPLETED" => q = p
    <2>1. CASE k = o /\ p = r
      BY <1>1, <2>1
    <2>2. CASE ~(k = o /\ p = r)
      BY <1>1, <2>2
    <2> QED
      BY <2>1, <2>2
  <1> QED
    BY <1>2 DEF Settled

LEMMA SettledStep ==
  ASSUME TypeOK, LocalInv, RunsInv, [Next]_vars
  PROVE  Settled
  <1>1. ASSUME NEW w \in Workers, NEW o \in Ops, Schedule(w, o)
        PROVE  Settled
    <2>1. runs' = runs
      BY <1>1 DEF Schedule, durable
    <2> QED
      BY <2>1 DEF Settled
  <1>2. ASSUME NEW w \in Workers, Enter(w)
        PROVE  Settled
    <2>1. runs' = runs
      BY <1>2 DEF Enter, durable
    <2> QED
      BY <2>1 DEF Settled
  <1>3. ASSUME NEW w \in Workers, Open(w)
        PROVE  Settled
    <2>1. runs' = runs
      BY <1>3 DEF Open, durable
    <2> QED
      BY <2>1 DEF Settled
  <1>4. ASSUME NEW w \in Workers, Close(w)
        PROVE  Settled
    <2>1. runs' = runs
      BY <1>4 DEF Close, durable
    <2> QED
      BY <2>1 DEF Settled
  <1>5. ASSUME NEW w \in Workers, Reconcile(w)
        PROVE  Settled
    <2>1. runs' = runs
      BY <1>5 DEF Reconcile, durable
    <2> QED
      BY <2>1 DEF Settled
  <1>6. ASSUME NEW w \in Workers, HandlerRaises(w)
        PROVE  Settled
    <2>1. runs' = runs
      BY <1>6 DEF HandlerRaises, durable
    <2> QED
      BY <2>1 DEF Settled
  <1>7. ASSUME NEW w \in Workers, Freeze(w)
        PROVE  Settled
    <2>1. runs' = runs
      BY <1>7 DEF Freeze, durable
    <2> QED
      BY <2>1 DEF Settled
  <1>8. ASSUME NEW w \in Workers, FindRun(w)
        PROVE  Settled
    <2>1. runs' = runs
      BY <1>8 DEF FindRun, durable
    <2> QED
      BY <2>1 DEF Settled
  <1>9. ASSUME NEW w \in Workers, FindNothingNew(w)
        PROVE  Settled
    <2>1. runs' = runs
      BY <1>9 DEF FindNothingNew, durable
    <2> QED
      BY <2>1 DEF Settled
  <1>10. ASSUME NEW w \in Workers, FindWork(w)
         PROVE  Settled
    <2>1. runs' = runs
      BY <1>10 DEF FindWork, durable
    <2> QED
      BY <2>1 DEF Settled
  <1>11. ASSUME NEW w \in Workers, CreateRun(w)
         PROVE  Settled
    <2>1. op[w] \in Ops
      BY <1>11 DEF CreateRun, LocalInv
    <2>2. PICK S : runs' = [runs EXCEPT ![op[w]] = runs[op[w]] \cup S]
      BY <1>11 DEF CreateRun
    <2>3. \A k \in Ops : runs[k] \subseteq runs'[k]
      BY <2>1, <2>2 DEF TypeOK
    <2> QED
      BY <2>3 DEF Settled
  <1>12. ASSUME NEW w \in Workers, Finalize(w)
         PROVE  Settled
    <2>1. runs' = runs
      BY <1>12 DEF Finalize, durable
    <2> QED
      BY <2>1 DEF Settled
  <1>13. ASSUME NEW w \in Workers, LockRun(w)
         PROVE  Settled
    <2>1. runs' = runs
      BY <1>13 DEF LockRun, durable
    <2> QED
      BY <2>1 DEF Settled
  <1>14. ASSUME NEW w \in Workers, CompleteRun(w)
         PROVE  Settled
    <2>1. op[w] \in Ops /\ pc[w] = "evaluating"
      BY <1>14 DEF CompleteRun, LocalInv
    <2>2. PICK r \in runs[op[w]] :
              /\ r.print = target[w]
              /\ runs' = [runs EXCEPT ![op[w]] = (runs[op[w]] \ {r}) \cup
                            {[r EXCEPT !.state = "COMPLETED", !.findings = r.frozen]}]
      BY <1>14 DEF CompleteRun
    <2> DEFINE n == [r EXCEPT !.state = "COMPLETED", !.findings = r.frozen]
    <2>3. r \in Run
      BY <2>1 DEF TypeOK
    <2>4. n.print = r.print /\ n.frozen = r.frozen
      BY <2>3 DEF Run
    <2>5. r.state # "COMPLETED"
      BY <2>1, <2>2 DEF RunsInv
    <2>6. runs' = [runs EXCEPT ![op[w]] = (runs[op[w]] \ {r}) \cup {n}]
      BY <2>2
    <2> HIDE DEF n
    <2> QED
      BY <2>1, <2>4, <2>5, <2>6, WriteSettled
  <1>15. ASSUME NEW w \in Workers, Serialization(w)
         PROVE  Settled
    <2>1. runs' = runs
      BY <1>15 DEF Serialization, durable
    <2> QED
      BY <2>1 DEF Settled
  <1>16. ASSUME NEW w \in Workers, FreezeRaises(w)
         PROVE  Settled
    <2>1. runs' = runs
      BY <1>16 DEF FreezeRaises, durable
    <2> QED
      BY <2>1 DEF Settled
  <1>17. ASSUME NEW w \in Workers, FinalizeRaises(w)
         PROVE  Settled
    <2>1. runs' = runs
      BY <1>17 DEF FinalizeRaises, durable
    <2> QED
      BY <2>1 DEF Settled
  <1>18. ASSUME NEW w \in Workers, RecordFailure(w)
         PROVE  Settled
    <2>1. op[w] \in Ops
      BY <1>18 DEF RecordFailure, LocalInv
    <2>2. CASE runs' = runs
      BY <2>2 DEF Settled
    <2>3. CASE runs' # runs
      <3>1. PICK r \in runs[op[w]] :
                /\ r.state # "COMPLETED"
                /\ runs' = [runs EXCEPT ![op[w]] = (runs[op[w]] \ {r}) \cup
                              {[r EXCEPT !.state = FailedRun]}]
        BY <1>18, <2>3 DEF RecordFailure, MayFail
      <3> DEFINE n == [r EXCEPT !.state = FailedRun]
      <3>2. r \in Run
        BY <2>1 DEF TypeOK
      <3>3. n.print = r.print /\ n.frozen = r.frozen
        BY <3>2 DEF Run
      <3>4. runs' = [runs EXCEPT ![op[w]] = (runs[op[w]] \ {r}) \cup {n}]
        BY <3>1
      <3>5. r.state # "COMPLETED"
        BY <3>1
      <3> HIDE DEF n
      <3> QED
        BY <2>1, <3>3, <3>4, <3>5, WriteSettled
    <2> QED
      BY <2>2, <2>3
  <1>19. ASSUME NEW w \in Workers, LoseFailure(w)
         PROVE  Settled
    <2>1. runs' = runs
      BY <1>19 DEF LoseFailure, durable
    <2> QED
      BY <2>1 DEF Settled
  <1>20. ASSUME NEW w \in Workers, Crash(w)
         PROVE  Settled
    <2>1. runs' = runs
      BY <1>20 DEF Crash, durable
    <2> QED
      BY <2>1 DEF Settled
  <1>21. ASSUME NEW w \in Workers, LoseLock(w)
         PROVE  Settled
    <2>1. runs' = runs
      BY <1>21 DEF LoseLock, durable
    <2> QED
      BY <2>1 DEF Settled
  <1>22. ASSUME NEW c \in Cells, Recalculate(c)
         PROVE  Settled
    BY <1>22 DEF Recalculate, Settled
  <1>23. CASE UNCHANGED vars
    BY <1>23 DEF vars, durable, Settled
  <1> QED
    BY <1>1, <1>2, <1>3, <1>4, <1>5, <1>6, <1>7, <1>8, <1>9, <1>10, <1>11,
       <1>12, <1>13, <1>14, <1>15, <1>16, <1>17, <1>18, <1>19, <1>20,
       <1>21, <1>22, <1>23
    DEF Next, Integration, Core, Faults

(* What the finished jobs keep.                                             *)
Closed ==
    \A o \in Ops : job[o].state \in Terminal /\ o \notin lost =>
        job'[o] = job[o] /\ events'[o] = events[o]

LEMMA WriteClosed ==
  ASSUME TypeOK, LocalInv, ExclusiveInv, NEW w \in Workers,
         pc[w] \notin {"idle", "queued", "entering"},
         job' = job \/ \E j : job' = [job EXCEPT ![op[w]] = j],
         events' = events \/ \E e : events' = [events EXCEPT ![op[w]] = e]
  PROVE  Closed
  <1> SUFFICES ASSUME NEW o \in Ops, job[o].state \in Terminal, o \notin lost
               PROVE  job'[o] = job[o] /\ events'[o] = events[o]
    BY DEF Closed
  <1>1. op[w] # o
    BY DEF ExclusiveInv
  <1> QED
    BY <1>1 DEF TypeOK

LEMMA ClosedStep ==
  ASSUME TypeOK, LocalInv, ExclusiveInv, [Next]_vars
  PROVE  Closed
  <1>1. ASSUME NEW w \in Workers, NEW o \in Ops, Schedule(w, o)
        PROVE  Closed
    <2>1. /\ events' = events
          /\ \/ job' = job
             \/ /\ job[o].state = "ABSENT"
                /\ job' = [job EXCEPT ![o] = [state |-> "STARTED", print |-> NoRows]]
      BY <1>1 DEF Schedule
    <2> QED
      BY <2>1 DEF Closed, Terminal, TypeOK
  <1>2. ASSUME NEW w \in Workers, Enter(w)
        PROVE  Closed
    <2>1. job' = job /\ events' = events
      BY <1>2 DEF Enter, durable
    <2> QED
      BY <2>1 DEF Closed
  <1>3. ASSUME NEW w \in Workers, Open(w)
        PROVE  Closed
    <2>1. /\ events' = events
          /\ \/ job' = job
             \/ /\ job[op[w]].state = "FAILED"
                /\ job' = [job EXCEPT ![op[w]] = [state |-> "STARTED", print |-> job[op[w]].print]]
      BY <1>3 DEF Open, SetJob
    <2> QED
      BY <2>1 DEF Closed, Terminal, TypeOK
  <1>4. ASSUME NEW w \in Workers, Close(w)
        PROVE  Closed
    <2>1. pc[w] = "closing"
      BY <1>4 DEF Close
    <2>2. job' = job \/ \E j : job' = [job EXCEPT ![op[w]] = j]
      BY <1>4 DEF Close, SetJob
    <2>3. events' = events \/ \E e : events' = [events EXCEPT ![op[w]] = e]
      <3>1. \/ events' = events
            \/ events' = [events EXCEPT ![op[w]].idle = events[op[w]].idle + 1]
        BY <1>4, Zenon DEF Close
      <3> QED
        BY <3>1
    <2> QED
      BY <2>1, <2>2, <2>3, WriteClosed
  <1>5. ASSUME NEW w \in Workers, Reconcile(w)
        PROVE  Closed
    <2>1. pc[w] = "reconciling"
      BY <1>5 DEF Reconcile
    <2>2. job' = job \/ \E j : job' = [job EXCEPT ![op[w]] = j]
      BY <1>5 DEF Reconcile, SetJob
    <2>3. events' = events \/ \E e : events' = [events EXCEPT ![op[w]] = e]
      BY <1>5 DEF Reconcile
    <2> QED
      BY <2>1, <2>2, <2>3, WriteClosed
  <1>6. ASSUME NEW w \in Workers, HandlerRaises(w)
        PROVE  Closed
    <2>1. job' = job /\ events' = events
      BY <1>6 DEF HandlerRaises, durable
    <2> QED
      BY <2>1 DEF Closed
  <1>7. ASSUME NEW w \in Workers, Freeze(w)
        PROVE  Closed
    <2>1. job' = job /\ events' = events
      BY <1>7 DEF Freeze, durable
    <2> QED
      BY <2>1 DEF Closed
  <1>8. ASSUME NEW w \in Workers, FindRun(w)
        PROVE  Closed
    <2>1. job' = job /\ events' = events
      BY <1>8 DEF FindRun, durable
    <2> QED
      BY <2>1 DEF Closed
  <1>9. ASSUME NEW w \in Workers, FindNothingNew(w)
        PROVE  Closed
    <2>1. job' = job /\ events' = events
      BY <1>9 DEF FindNothingNew, durable
    <2> QED
      BY <2>1 DEF Closed
  <1>10. ASSUME NEW w \in Workers, FindWork(w)
         PROVE  Closed
    <2>1. job' = job /\ events' = events
      BY <1>10 DEF FindWork, durable
    <2> QED
      BY <2>1 DEF Closed
  <1>11. ASSUME NEW w \in Workers, CreateRun(w)
         PROVE  Closed
    <2>1. job' = job /\ events' = events
      BY <1>11 DEF CreateRun, durable
    <2> QED
      BY <2>1 DEF Closed
  <1>12. ASSUME NEW w \in Workers, Finalize(w)
         PROVE  Closed
    <2>1. job' = job /\ events' = events
      BY <1>12 DEF Finalize, durable
    <2> QED
      BY <2>1 DEF Closed
  <1>13. ASSUME NEW w \in Workers, LockRun(w)
         PROVE  Closed
    <2>1. job' = job /\ events' = events
      BY <1>13 DEF LockRun, durable
    <2> QED
      BY <2>1 DEF Closed
  <1>14. ASSUME NEW w \in Workers, CompleteRun(w)
         PROVE  Closed
    <2>1. pc[w] = "evaluating"
      BY <1>14 DEF CompleteRun
    <2>2. job' = job \/ \E j : job' = [job EXCEPT ![op[w]] = j]
      BY <1>14 DEF CompleteRun, SetJob
    <2>3. events' = events \/ \E e : events' = [events EXCEPT ![op[w]] = e]
      <3>1. events' = [events EXCEPT ![op[w]].success = events[op[w]].success + 1]
        BY <1>14, Zenon DEF CompleteRun
      <3> QED
        BY <3>1
    <2> QED
      BY <2>1, <2>2, <2>3, WriteClosed
  <1>15. ASSUME NEW w \in Workers, Serialization(w)
         PROVE  Closed
    <2>1. job' = job /\ events' = events
      BY <1>15 DEF Serialization, durable
    <2> QED
      BY <2>1 DEF Closed
  <1>16. ASSUME NEW w \in Workers, FreezeRaises(w)
         PROVE  Closed
    <2>1. job' = job /\ events' = events
      BY <1>16 DEF FreezeRaises, durable
    <2> QED
      BY <2>1 DEF Closed
  <1>17. ASSUME NEW w \in Workers, FinalizeRaises(w)
         PROVE  Closed
    <2>1. job' = job /\ events' = events
      BY <1>17 DEF FinalizeRaises, durable
    <2> QED
      BY <2>1 DEF Closed
  <1>18. ASSUME NEW w \in Workers, RecordFailure(w)
         PROVE  Closed
    <2>1. job' = job /\ events' = events
      BY <1>18 DEF RecordFailure, durable
    <2> QED
      BY <2>1 DEF Closed
  <1>19. ASSUME NEW w \in Workers, LoseFailure(w)
         PROVE  Closed
    <2>1. job' = job /\ events' = events
      BY <1>19 DEF LoseFailure, durable
    <2> QED
      BY <2>1 DEF Closed
  <1>20. ASSUME NEW w \in Workers, Crash(w)
         PROVE  Closed
    <2>1. job' = job /\ events' = events
      BY <1>20 DEF Crash, durable
    <2> QED
      BY <2>1 DEF Closed
  <1>21. ASSUME NEW w \in Workers, LoseLock(w)
         PROVE  Closed
    <2>1. job' = job /\ events' = events
      BY <1>21 DEF LoseLock, durable
    <2> QED
      BY <2>1 DEF Closed
  <1>22. ASSUME NEW c \in Cells, Recalculate(c)
         PROVE  Closed
    BY <1>22 DEF Recalculate, Closed
  <1>23. CASE UNCHANGED vars
    BY <1>23 DEF vars, durable, Closed
  <1> QED
    BY <1>1, <1>2, <1>3, <1>4, <1>5, <1>6, <1>7, <1>8, <1>9, <1>10, <1>11,
       <1>12, <1>13, <1>14, <1>15, <1>16, <1>17, <1>18, <1>19, <1>20,
       <1>21, <1>22, <1>23
    DEF Next, Integration, Core, Faults

-----------------------------------------------------------------------------
(* The theorems.                                                            *)

LEMMA InitInv == Init => IInv
  <1> SUFFICES ASSUME Init PROVE IInv
    OBVIOUS
  <1>1. TypeOK
    <2>1. DurableOK
      BY DEF Init, DurableOK, JobState, NoRows
    <2>2. LocksOK
      BY DEF Init, LocksOK
    <2>3. LocalsOK
      BY NoViewType DEF Init, LocalsOK, Where, Marks, Attempts
    <2> QED
      BY <2>1, <2>2, <2>3, TypeParts
  <1>2. LocalInv /\ ExclusiveInv /\ RunsInv
    BY DEF Init, LocalInv, ExclusiveInv, RunsInv
  <1>3. FrozenStaysBound
    BY FrozenMeans DEF Init, Bound
  <1> QED
    BY <1>1, <1>2, <1>3 DEF IInv

LEMMA NextInv == IInv /\ [Next]_vars => IInv'
  BY TypeStep, LocalStep, ExclusiveStep, RunsStep, BoundStep DEF IInv

LEMMA Invariant == Spec => []IInv
  BY InitInv, NextInv, PTL DEF Spec

(* Every variable keeps its type, whatever the bounds.                      *)
THEOREM ProactiveTypes == Spec => []TypeOK
  <1>1. IInv => TypeOK
    BY DEF IInv
  <1> QED
    BY <1>1, Invariant, PTL

(* No recalculation ever takes the pair (observation, run) from under a     *)
(* frozen row, so that the foreign key of 0013 never refuses an upsert.     *)
THEOREM FrozenIsBound == Spec => []FrozenStaysBound
  <1>1. IInv => FrozenStaysBound
    BY DEF IInv
  <1> QED
    BY <1>1, Invariant, PTL

(* No retry, failure or recalculation changes what a run froze or a run     *)
(* that completed, and no finished job is opened again while the advisory   *)
(* lock of its operation holds.                                             *)
THEOREM SettledIsSettled == Spec => SettledStaysSettled
  <1>1. IInv /\ [Next]_vars => Settled /\ Closed
    BY SettledStep, ClosedStep DEF IInv
  <1>2. Settled => [\A o \in Ops : \A r \in runs[o] : \E q \in runs'[o] :
                       /\ q.print = r.print /\ q.frozen = r.frozen
                       /\ r.state = "COMPLETED" => q = r]_vars
    BY DEF Settled
  <1>3. Closed => [\A o \in Ops : job[o].state \in Terminal /\ o \notin lost =>
                      job'[o] = job[o] /\ events'[o] = events[o]]_vars
    BY DEF Closed
  <1>4. Spec => RunsAreSettled
    BY <1>1, <1>2, Invariant, PTL DEF Spec, RunsAreSettled
  <1>5. Spec => FinishedOnce
    BY <1>1, <1>3, Invariant, PTL DEF Spec, FinishedOnce
  <1> QED
    BY <1>4, <1>5 DEF SettledStaysSettled

-----------------------------------------------------------------------------
(* The runs of a job and what the job says of them: a second invariant.     *)

(* The months of a snapshot, all of them observed; of two snapshots the     *)
(* later one has the months of the earlier one.                             *)
CellsOf(rows) == {x.cell : x \in rows}
Observed(rows) == \A x \in rows : obs[x.cell].revision > 0
Comparable(one, other) ==
    CellsOf(one) \subseteq CellsOf(other) \/ CellsOf(other) \subseteq CellsOf(one)

Prints == {r.print : r \in UNION {runs[o] : o \in Ops}}
Snapshots == {view[w].rows : w \in Workers} \cup Prints
SnapshotsInv == \A one \in Snapshots : Observed(one) /\ \A other \in Snapshots : Comparable(one, other)

(* What a transaction has seen of the runs.                                 *)
ViewInv ==
    \A w \in Workers :
        /\ pc[w] \notin {"reading", "creating"} => view[w] = NoView
        /\ pc[w] = "creating" => view[w].rows # NoRows
        /\ pc[w] \in {"reading", "creating"} /\ op[w] \notin lost => view[w].runs = runs[op[w]]
        /\ \A r \in view[w].runs : r.state = "COMPLETED" => r \in runs[op[w]]

(* A run freezes the closure of what it analyses; two runs of a job need a  *)
(* lost lock and share no month.                                            *)
Share(r, q) == \E x \in r.frozen, y \in q.frozen : x.cell = y.cell
FrozenInv ==
    \A o \in Ops : \A r \in runs[o] :
        /\ r.print # NoRows /\ r.frozen = Closure(r.print)
        /\ \A q \in runs[o] : r # q => o \in lost /\ ~Share(r, q)

(* What a call brings to its job, and what the job says.                    *)
Completed(o) == {r \in runs[o] : r.state = "COMPLETED"}
TellInv ==
    /\ \A w \in Workers : pc[w] = "closing" /\ result[w] = "COMPLETED" =>
          \E r \in Completed(op[w]) : r.print = target[w]
    /\ \A o \in Ops :
          /\ job[o].state = "COMPLETED" => \E r \in Completed(o) : r.print = job[o].print
          /\ job[o].state = "NO_RELEVANT_WORK" => runs[o] = {}
          /\ IsFiniteSet(runs[o]) /\ events[o].success = Cardinality(Completed(o))

JInv == SnapshotsInv /\ ViewInv /\ FrozenInv /\ TellInv

(* Two runs of a job: its lock was lost, and the series advanced by the     *)
(* whole depth between their snapshots.                                     *)
Behind(r, q) == r.print # NoRows /\ \A x \in r.print : \E y \in q.print : x.cell + Depth <= y.cell
TwoRuns == \A o \in Ops : \A r, q \in runs[o] : r = q \/ (o \in lost /\ (Behind(r, q) \/ Behind(q, r)))

-----------------------------------------------------------------------------
(* What the steps of a worker do to these.                                  *)

WorkerStep(w) ==
    (\E o \in Ops : Schedule(w, o)) \/ Integration(w) \/ Core(w) \/ Faults(w)

Writes(w) == CreateRun(w) \/ CompleteRun(w) \/ RecordFailure(w)
Concludes(w) == FindRun(w) \/ FindNothingNew(w) \/ LockRun(w) \/ CompleteRun(w)

Leaves(w) ==
    /\ pc'[w] \notin {"reading", "creating"} /\ view'[w] \in {view[w], NoView}
    /\ pc[w] \in {"reading", "creating"} => view'[w] = NoView

Moved(w) ==
    /\ Others(w) /\ \A v \in Workers \ {w} : result'[v] = result[v]
    /\ Freeze(w) \/ FindWork(w) \/ LoseLock(w) \/ Leaves(w)
    /\ pc'[w] = "closing" => Concludes(w) \/ LoseLock(w)

LEMMA EndMoved ==
  ASSUME TypeOK, NEW w \in Workers, NEW rows, Finish(w, rows)
  PROVE  Moved(w)
  BY DEF TypeOK, Finish, GoTo, Others, Leaves, Moved, Where

LEMMA WorkerMoved ==
  ASSUME TypeOK, NEW w \in Workers, WorkerStep(w)
  PROVE  Moved(w)
  <1> USE DEF Moved, Others, Leaves, Concludes, GoTo, Where
  <1>1. ASSUME NEW o \in Ops, Schedule(w, o)
        PROVE  Moved(w)
    BY <1>1 DEF Schedule, TypeOK
  <1>2. CASE Enter(w)
    BY <1>2 DEF Enter, TypeOK
  <1>3. CASE Open(w)
    <2>1. CASE Finished(job[op[w]].state)
      BY <1>3, <2>1, EndMoved DEF Open
    <2>2. CASE ~Finished(job[op[w]].state)
      BY <1>3, <2>2 DEF Open, TypeOK
    <2> QED
      BY <2>1, <2>2
  <1>4. CASE Close(w) \/ Reconcile(w) \/ HandlerRaises(w) \/ Crash(w)
    BY <1>4, EndMoved DEF Close, Reconcile, HandlerRaises, Crash
  <1>5. CASE Freeze(w)
    BY <1>5 DEF Freeze, TypeOK
  <1>6. CASE FindRun(w)
    BY <1>6 DEF FindRun, TypeOK
  <1>7. CASE FindNothingNew(w)
    BY <1>7 DEF FindNothingNew, TypeOK
  <1>8. CASE FindWork(w)
    BY <1>8 DEF FindWork, TypeOK
  <1>9. CASE CreateRun(w)
    BY <1>9 DEF CreateRun, TypeOK
  <1>10. CASE Finalize(w)
    BY <1>10 DEF Finalize, TypeOK
  <1>11. CASE LockRun(w)
    BY <1>11 DEF LockRun, TypeOK
  <1>12. CASE CompleteRun(w)
    BY <1>12 DEF CompleteRun, TypeOK
  <1>13. CASE Serialization(w)
    BY <1>13 DEF Serialization, TypeOK
  <1>14. CASE FreezeRaises(w)
    BY <1>14 DEF FreezeRaises, TypeOK
  <1>15. CASE FinalizeRaises(w)
    BY <1>15 DEF FinalizeRaises, TypeOK
  <1>16. CASE RecordFailure(w)
    BY <1>16 DEF RecordFailure, TypeOK
  <1>17. CASE LoseFailure(w)
    BY <1>17 DEF LoseFailure, TypeOK
  <1>18. CASE LoseLock(w)
    BY <1>18 DEF LoseLock, locals, TypeOK
  <1> QED
    BY <1>1, <1>2, <1>3, <1>4, <1>5, <1>6, <1>7, <1>8, <1>9, <1>10, <1>11, <1>12, <1>13, <1>14,
       <1>15, <1>16, <1>17, <1>18 DEF WorkerStep, Integration, Core, Faults

(* Only three actions write runs, and none but the environment an           *)
(* observation.                                                             *)
LEMMA WorkerWrites ==
  ASSUME NEW w \in Workers, WorkerStep(w)
  PROVE  obs' = obs /\ lost \subseteq lost' /\ (runs' = runs \/ Writes(w))
  <1>1. ASSUME NEW o \in Ops, Schedule(w, o)
        PROVE  obs' = obs /\ lost' = lost /\ runs' = runs
    BY <1>1 DEF Schedule
  <1>2. Integration(w) => obs' = obs /\ lost' = lost /\ runs' = runs
    BY DEF Integration, Enter, Open, Close, Reconcile, durable
  <1>3. Core(w) => obs' = obs /\ lost' = lost /\ (runs' = runs \/ Writes(w))
    BY DEF Core, Freeze, FindRun, FindNothingNew, FindWork, CreateRun, Finalize, LockRun, CompleteRun,
           Serialization, RecordFailure, durable, Writes
  <1>4. Faults(w) => obs' = obs /\ lost \subseteq lost' /\ runs' = runs
    BY DEF Faults, HandlerRaises, FreezeRaises, FinalizeRaises, LoseFailure, Crash, LoseLock, durable
  <1> QED
    BY <1>1, <1>2, <1>3, <1>4 DEF WorkerStep

(* What a writer does to the runs of its operation.                         *)
LEMMA Written ==
  ASSUME TypeOK, LocalInv, RunsInv, NEW w \in Workers, Writes(w)
  PROVE  /\ op[w] \in Ops /\ pc[w] \in {"creating", "evaluating", "recording"}
         /\ \A o \in Ops : o # op[w] => runs'[o] = runs[o]
         /\ \/ runs' = runs /\ RecordFailure(w)
            \/ /\ CreateRun(w)
               /\ runs'[op[w]] = runs[op[w]] \cup
                     {[print |-> view[w].rows, frozen |-> Closure(view[w].rows),
                       state |-> "STARTED", findings |-> NoRows]}
            \/ \E r \in runs[op[w]], e \in Run :
                  /\ r.state # "COMPLETED" /\ e.print = r.print /\ e.frozen = r.frozen
                  /\ runs'[op[w]] = (runs[op[w]] \ {r}) \cup {e}
                  /\ \/ RecordFailure(w) /\ e.state = "FAILED"
                     \/ CompleteRun(w) /\ e.state = "COMPLETED" /\ e.print = target[w]
  <1>1. pc[w] \in {"creating", "evaluating", "recording"} /\ op[w] \in Ops
    BY DEF Writes, CreateRun, CompleteRun, RecordFailure, LocalInv
  <1>2. runs \in [Ops -> SUBSET Run]
    BY DEF TypeOK
  <1>3. CASE CreateRun(w)
    BY <1>1, <1>2, <1>3 DEF CreateRun
  <1>4. CASE CompleteRun(w)
    <2>1. PICK r \in runs[op[w]] :
             /\ r.print = target[w]
             /\ runs' = [runs EXCEPT ![op[w]] = (@ \ {r}) \cup
                            {[r EXCEPT !.state = "COMPLETED", !.findings = r.frozen]}]
      BY <1>4 DEF CompleteRun
    <2>2. r \in Run /\ r.state # "COMPLETED"
      BY <1>1, <1>2, <1>4, <2>1 DEF CompleteRun, RunsInv
    <2> DEFINE e == [r EXCEPT !.state = "COMPLETED", !.findings = r.frozen]
    <2>3. /\ e \in Run /\ e.print = r.print /\ e.frozen = r.frozen /\ e.state = "COMPLETED"
      BY <2>2 DEF Run, RunState
    <2>4. /\ runs'[op[w]] = (runs[op[w]] \ {r}) \cup {e}
          /\ \A o \in Ops : o # op[w] => runs'[o] = runs[o]
      BY <1>1, <1>2, <2>1
    <2> HIDE DEF e
    <2> QED
      BY <1>1, <1>4, <2>1, <2>2, <2>3, <2>4
  <1>5. CASE RecordFailure(w) /\ runs' # runs
    <2>1. PICK r \in runs[op[w]] :
             /\ r.state # "COMPLETED"
             /\ runs' = [runs EXCEPT ![op[w]] = (@ \ {r}) \cup {[r EXCEPT !.state = "FAILED"]}]
      BY <1>5 DEF RecordFailure, MayFail, FailedRun
    <2>2. r \in Run
      BY <1>1, <1>2
    <2> DEFINE e == [r EXCEPT !.state = "FAILED"]
    <2>3. /\ e \in Run /\ e.print = r.print /\ e.frozen = r.frozen /\ e.state = "FAILED"
      BY <2>2 DEF Run, RunState
    <2>4. /\ runs'[op[w]] = (runs[op[w]] \ {r}) \cup {e}
          /\ \A o \in Ops : o # op[w] => runs'[o] = runs[o]
      BY <1>1, <1>2, <2>1
    <2> HIDE DEF e
    <2> QED
      BY <1>1, <1>5, <2>1, <2>3, <2>4
  <1>6. CASE RecordFailure(w) /\ runs' = runs
    BY <1>1, <1>6
  <1> QED
    BY <1>3, <1>4, <1>5, <1>6 DEF Writes

-----------------------------------------------------------------------------
(* Snapshots                                                                *)

LEMMA PrintsAre == \A o \in Ops : \A r \in runs[o] : r.print \in Prints
  BY DEF Prints

LEMMA PrintsNext == \A p \in Prints' : \E o \in Ops : \E r \in runs'[o] : p = r.print
  BY DEF Prints

(* Of a new snapshot, and of none, everything has been said.                *)
LEMMA SnapshotsGrow ==
  ASSUME TypeOK, SnapshotsInv, obs' = obs, NEW new, Snapshots' \subseteq Snapshots \cup {NoRows, new},
         new = Eligible \/ new = NoRows
  PROVE  SnapshotsInv'
  <1>1. Observed(NoRows) /\ \A one : Comparable(NoRows, one) /\ Comparable(one, NoRows)
    BY DEF Observed, Comparable, CellsOf, NoRows
  <1>2. Observed(Eligible)
    BY DEF Observed, Eligible
  <1>3. ASSUME NEW one \in Snapshots
        PROVE  Comparable(one, Eligible) /\ Comparable(Eligible, one)
    <2>1. Observed(one) /\ one \in SUBSET Row
      <3>1. one \in SUBSET Row
        BY DEF Snapshots, Prints, TypeOK, View, Run
      <3> QED
        BY <3>1 DEF SnapshotsInv
    <2>2. ASSUME NEW x \in one
          PROVE  \E y \in Eligible : y.cell = x.cell
      <3>1. x.cell \in Cells /\ obs[x.cell].revision > 0
        BY <2>1 DEF Observed, Row
      <3> DEFINE y == [cell |-> x.cell, run |-> obs[x.cell].run, revision |-> obs[x.cell].revision]
      <3>2. y \in Eligible
        BY <3>1 DEF Eligible
      <3>3. y.cell = x.cell
        OBVIOUS
      <3> QED
        BY <3>2, <3>3
    <2>3. CellsOf(one) \subseteq CellsOf(Eligible)
      BY <2>2 DEF CellsOf
    <2> QED
      BY <2>3 DEF Comparable
  <1>4. Comparable(Eligible, Eligible)
    BY DEF Comparable
  <1>5. ASSUME NEW one \in Snapshots', NEW other \in Snapshots'
        PROVE  Observed(one) /\ Comparable(one, other)
    <2>1. one \in Snapshots \cup {NoRows, Eligible} /\ other \in Snapshots \cup {NoRows, Eligible}
      OBVIOUS
    <2> QED
      BY <2>1, <1>1, <1>2, <1>3, <1>4 DEF SnapshotsInv
  <1>6. \A one : Observed(one) => Observed(one)'
    BY DEF Observed
  <1>7. \A one \in Snapshots' : Observed(one)'
    BY <1>5, <1>6
  <1> QED
    BY <1>5, <1>7 DEF SnapshotsInv, Comparable, CellsOf

LEMMA SnapshotsStep ==
  ASSUME TypeOK, LocalInv, RunsInv, SnapshotsInv, [Next]_vars
  PROVE  SnapshotsInv'
  <1>1. ASSUME NEW w \in Workers, WorkerStep(w)
        PROVE  SnapshotsInv'
    <2>1. Moved(w)
      BY <1>1, WorkerMoved
    <2>2. obs' = obs /\ (runs' = runs \/ Writes(w))
      BY <1>1, WorkerWrites
    <2>3. Prints' \subseteq Prints \cup {view[w].rows}
      <3>1. CASE runs' = runs
        BY <3>1 DEF Prints
      <3>2. CASE Writes(w)
        <4>1. ASSUME NEW o \in Ops, NEW r \in runs'[o]
              PROVE  r.print \in Prints \cup {view[w].rows}
          <5>1. CASE o # op[w] \/ runs' = runs
            BY <3>2, <5>1, Written, PrintsAre
          <5>2. CASE o = op[w] /\ runs' # runs
            BY <3>2, <5>2, Written, PrintsAre
          <5> QED
            BY <5>1, <5>2
        <4> QED
          BY <4>1, PrintsNext
      <3> QED
        BY <2>2, <3>1, <3>2
    <2>4. CASE Freeze(w)
      <3>1. view'[w].rows = Eligible
        BY <2>4 DEF Freeze, TypeOK
      <3>2. \A v \in Workers : view'[v].rows \in Snapshots \cup {Eligible}
        BY <2>1, <3>1 DEF Moved, Others, Snapshots
      <3>3. Snapshots' \subseteq Snapshots \cup {NoRows, Eligible}
        BY <2>3, <3>2 DEF Snapshots
      <3> QED
        BY <2>2, <3>3, SnapshotsGrow
    <2>5. CASE ~Freeze(w)
      <3>1. view'[w] \in {view[w], NoView}
        BY <2>1, <2>5 DEF Moved, Leaves, FindWork, LoseLock, locals
      <3>2. \A v \in Workers : view'[v].rows \in Snapshots \cup {NoRows}
        BY <2>1, <3>1 DEF Moved, Others, Snapshots, NoView
      <3>3. Snapshots' \subseteq Snapshots \cup {NoRows, NoRows}
        BY <2>3, <3>2 DEF Snapshots
      <3> QED
        BY <2>2, <3>3, SnapshotsGrow
    <2> QED
      BY <2>4, <2>5
  <1>2. ASSUME NEW c \in Cells, Recalculate(c)
        PROVE  SnapshotsInv'
    <2>1. Snapshots' = Snapshots
      BY <1>2 DEF Recalculate, locals, Snapshots, Prints
    <2>2. \A d \in Cells : obs[d].revision > 0 => obs'[d].revision > 0
      BY <1>2 DEF Recalculate, TypeOK
    <2>3. \A one \in Snapshots : one \in SUBSET Row
      BY DEF Snapshots, Prints, TypeOK, View, Run
    <2>4. ASSUME NEW one \in Snapshots
          PROVE  Observed(one)'
      BY <2>2, <2>3 DEF SnapshotsInv, Observed, Row
    <2> QED
      BY <2>1, <2>4 DEF SnapshotsInv, Comparable, CellsOf
  <1>3. CASE UNCHANGED vars
    <2>1. Snapshots' = Snapshots /\ obs' = obs
      BY <1>3 DEF vars, durable, locals, Snapshots, Prints
    <2> QED
      BY <2>1 DEF SnapshotsInv, Observed, Comparable, CellsOf
  <1> QED
    BY <1>1, <1>2, <1>3 DEF Next, WorkerStep

-----------------------------------------------------------------------------
(* What a transaction has seen of the runs                                  *)

(* Only its holder executes an operation whose lock was not lost.           *)
LEMMA Alone ==
  ASSUME ExclusiveInv, NEW v \in Workers, NEW w \in Workers, pc[v] \notin {"idle", "queued"},
         pc[w] \notin {"idle", "queued"}, op[v] = op[w], op[w] \notin lost
  PROVE  v = w
  BY DEF ExclusiveInv

LEMMA ViewStep ==
  ASSUME TypeOK, LocalInv, ExclusiveInv, RunsInv, ViewInv, [Next]_vars
  PROVE  ViewInv'
  <1> DEFINE Has(v) ==
        /\ pc'[v] \notin {"reading", "creating"} => view'[v] = NoView
        /\ pc'[v] = "creating" => view'[v].rows # NoRows
        /\ pc'[v] \in {"reading", "creating"} /\ op'[v] \notin lost' => view'[v].runs = runs'[op'[v]]
        /\ \A r \in view'[v].runs : r.state = "COMPLETED" => r \in runs'[op'[v]]
  <1>1. ASSUME NEW w \in Workers, WorkerStep(w)
        PROVE  ViewInv'
    <2>1. Moved(w)
      BY <1>1, WorkerMoved
    <2>2. lost \subseteq lost' /\ (runs' = runs \/ Writes(w))
      BY <1>1, WorkerWrites
    <2>3. Settled
      BY SettledStep
    <2>4. ASSUME NEW v \in Workers, v # w
          PROVE  Has(v)
      <3>1. pc'[v] = pc[v] /\ op'[v] = op[v] /\ view'[v] = view[v]
        BY <2>1, <2>4 DEF Moved, Others
      <3>2. \A r \in view[v].runs : r.state = "COMPLETED" => r \in runs'[op[v]]
        <4>1. CASE op[v] \in Ops
          BY <2>3, <4>1 DEF ViewInv, Settled
        <4>2. CASE op[v] \notin Ops
          <5>1. view[v] = NoView
            BY <4>2 DEF LocalInv, ViewInv
          <5> QED
            BY <5>1 DEF NoView
        <4> QED
          BY <4>1, <4>2
      <3>3. ASSUME pc[v] \in {"reading", "creating"}, op[v] \notin lost'
            PROVE  view[v].runs = runs'[op[v]]
        <4>1. view[v].runs = runs[op[v]] /\ op[v] \in Ops
          BY <2>2, <3>3 DEF ViewInv, LocalInv
        <4>2. CASE runs' = runs
          BY <4>1, <4>2
        <4>3. CASE Writes(w)
          <5>1. op[v] # op[w]
            BY <2>2, <2>4, <3>3, <4>3, Alone, Written
          <5> QED
            BY <4>1, <4>3, <5>1, Written
        <4> QED
          BY <2>2, <4>2, <4>3
      <3> QED
        BY <3>1, <3>2, <3>3 DEF ViewInv
    <2>5. Has(w)
      <3>1. CASE Freeze(w)
        <4>1. /\ pc'[w] = "reading" /\ op'[w] = op[w] /\ runs' = runs
              /\ view'[w] = [rows |-> Eligible, runs |-> runs[op[w]], latest |-> latest]
          BY <3>1 DEF Freeze, GoTo, TypeOK, durable
        <4> QED
          BY <4>1
      <3>2. CASE FindWork(w)
        <4>1. /\ pc[w] = "reading" /\ pc'[w] = "creating" /\ op'[w] = op[w] /\ runs' = runs
              /\ view'[w] = view[w] /\ lost' = lost /\ view[w].rows # NoRows
          BY <3>2 DEF FindWork, Readable, NothingNew, GoTo, TypeOK, durable
        <4> QED
          BY <4>1 DEF ViewInv
      <3>3. CASE LoseLock(w)
        <4>1. pc' = pc /\ op' = op /\ view' = view /\ runs' = runs /\ lost \subseteq lost'
          BY <3>3 DEF LoseLock, locals, durable
        <4> QED
          BY <4>1 DEF ViewInv
      <3>4. CASE Leaves(w)
        <4>1. pc'[w] \notin {"reading", "creating"} /\ view'[w] = NoView
          BY <3>4 DEF Leaves, ViewInv
        <4> QED
          BY <4>1 DEF NoView
      <3> QED
        BY <2>1, <3>1, <3>2, <3>3, <3>4 DEF Moved
    <2> QED
      BY <2>4, <2>5 DEF ViewInv
  <1>2. ASSUME NEW c \in Cells, Recalculate(c)
        PROVE  ViewInv'
    BY <1>2 DEF Recalculate, locals, ViewInv
  <1>3. CASE UNCHANGED vars
    BY <1>3 DEF vars, durable, locals, ViewInv
  <1> QED
    BY <1>1, <1>2, <1>3 DEF Next, WorkerStep

-----------------------------------------------------------------------------
(* What runs freeze                                                         *)

LEMMA FrozenStep ==
  ASSUME TypeOK, LocalInv, RunsInv, ViewInv, FrozenInv, [Next]_vars
  PROVE  FrozenInv'
  <1> DEFINE Has(o) ==
        \A r \in runs'[o] :
            /\ r.print # NoRows /\ r.frozen = Closure(r.print)
            /\ \A q \in runs'[o] : r # q => o \in lost' /\ ~Share(r, q)
  <1>1. ASSUME NEW w \in Workers, WorkerStep(w)
        PROVE  FrozenInv'
    <2>1. lost \subseteq lost' /\ (runs' = runs \/ Writes(w))
      BY <1>1, WorkerWrites
    <2>2. CASE runs' = runs
      BY <2>1, <2>2 DEF FrozenInv, Share, Closure
    <2>3. CASE Writes(w) /\ runs' # runs
      <3>1. \A o \in Ops : o # op[w] => Has(o)
        BY <2>1, <2>3, Written DEF FrozenInv
      <3>2. op[w] \in Ops
        BY <2>3, Written
      <3> DEFINE o == op[w]
      <3>3. ASSUME CreateRun(w)
            PROVE  Has(o)
        <4> DEFINE e == [print |-> view[w].rows, frozen |-> Closure(view[w].rows),
                         state |-> "STARTED", findings |-> NoRows]
        <4>1. runs'[o] = runs[o] \cup {e}
          BY <2>3, <3>3, Written DEF CreateRun, CompleteRun, RecordFailure
        <4>2. e.print = view[w].rows /\ e.frozen = Closure(view[w].rows)
          OBVIOUS
        <4> HIDE DEF e
        <4>3. /\ pc[w] = "creating" /\ e.print # NoRows /\ view[w].runs = {}
              /\ op[w] \notin lost => runs[o] = {}
          BY <3>3, <4>2 DEF CreateRun, ViewInv, LocalInv
        <4>4. ASSUME NEW r \in runs[o]
              PROVE  ~Share(r, e) /\ ~Share(e, r)
          <5>1. r.frozen \subseteq FrozenOf(o)
            BY DEF FrozenOf
          <5>2. \A x \in FrozenOf(o), y \in Closure(view[w].rows) : x.cell # y.cell
            BY <3>3 DEF CreateRun, UnseenRun
          <5> QED
            BY <4>2, <5>1, <5>2 DEF Share
        <4> QED
          BY <2>1, <3>2, <4>1, <4>2, <4>3, <4>4 DEF FrozenInv
      <3>4. ASSUME ~CreateRun(w)
            PROVE  Has(o)
        <4>1. PICK r \in runs[o], e \in Run :
                 /\ e.print = r.print /\ e.frozen = r.frozen
                 /\ runs'[o] = (runs[o] \ {r}) \cup {e}
          BY <2>3, <3>4, Written
        <4>2. \A q \in runs[o] : Share(e, q) = Share(r, q) /\ Share(q, e) = Share(q, r)
          BY <4>1 DEF Share
        <4> QED
          BY <2>1, <3>2, <4>1, <4>2 DEF FrozenInv
      <3>5. Has(o)
        BY <3>3, <3>4
      <3> QED
        BY <3>1, <3>2, <3>5 DEF FrozenInv, Share, Closure
    <2> QED
      BY <2>1, <2>2, <2>3
  <1>2. ASSUME NEW c \in Cells, Recalculate(c)
        PROVE  FrozenInv'
    BY <1>2 DEF Recalculate, FrozenInv, Share, Closure
  <1>3. CASE UNCHANGED vars
    BY <1>3 DEF vars, durable, FrozenInv, Share, Closure
  <1> QED
    BY <1>1, <1>2, <1>3 DEF Next, WorkerStep

-----------------------------------------------------------------------------
(* What the runs settle for the job                                         *)

Brings ==
    \A w \in Workers : pc[w] = "closing" /\ result[w] = "COMPLETED" =>
        \E r \in Completed(op[w]) : r.print = target[w]
Says ==
    \A o \in Ops :
        /\ job[o].state = "COMPLETED" => \E r \in Completed(o) : r.print = job[o].print
        /\ job[o].state = "NO_RELEVANT_WORK" => runs[o] = {}
Counts == \A o \in Ops : IsFiniteSet(runs[o]) /\ events[o].success = Cardinality(Completed(o))

LEMMA TellParts == TellInv <=> Brings /\ Says /\ Counts
  BY DEF TellInv, Brings, Says, Counts

(* A completed run is there after any step.                                 *)
LEMMA StaysCompleted ==
  ASSUME Settled, NEW o \in Ops
  PROVE  Completed(o) \subseteq Completed(o)'
  BY DEF Settled, Completed

LEMMA BringsStep ==
  ASSUME TypeOK, LocalInv, RunsInv, ViewInv, Brings, [Next]_vars
  PROVE  Brings'
  <1>1. ASSUME NEW w \in Workers, WorkerStep(w)
        PROVE  Brings'
    <2>1. Moved(w)
      BY <1>1, WorkerMoved
    <2>2. Settled
      BY SettledStep
    <2>3. ASSUME NEW v \in Workers, v # w, pc'[v] = "closing", result'[v] = "COMPLETED"
          PROVE  \E r \in Completed(op[v])' : r.print = target'[v]
      <3>1. /\ pc[v] = "closing" /\ result[v] = "COMPLETED" /\ op'[v] = op[v] /\ target'[v] = target[v]
            /\ op[v] \in Ops
        BY <2>1, <2>3 DEF Moved, Others, LocalInv
      <3>2. Completed(op[v]) \subseteq Completed(op[v])'
        BY <2>2, <3>1 DEF Settled, Completed
      <3> QED
        BY <3>1, <3>2 DEF Brings
    <2>4. ASSUME pc'[w] = "closing", result'[w] = "COMPLETED"
          PROVE  \E r \in Completed(op[w])' : r.print = target'[w]
      <3>1. CASE FindRun(w)
        <4>1. PICK r \in view[w].runs :
                 /\ r.state = "COMPLETED" /\ target' = [target EXCEPT ![w] = r.print]
                 /\ runs' = runs /\ op' = op
          BY <2>4, <3>1 DEF FindRun, GoTo, TypeOK, durable
        <4>2. r \in runs[op[w]] /\ target'[w] = r.print
          BY <4>1 DEF ViewInv, TypeOK
        <4> QED
          BY <4>1, <4>2 DEF Completed
      <3>2. CASE FindNothingNew(w)
        BY <2>4, <3>2 DEF FindNothingNew, TypeOK
      <3>3. CASE LockRun(w)
        <4>1. \E r \in runs[op[w]] : r.print = target[w] /\ r.state = "COMPLETED"
          BY <2>4, <3>3 DEF LockRun, GoTo, TypeOK
        <4>2. runs' = runs /\ op' = op /\ target' = target
          BY <3>3 DEF LockRun, durable
        <4> QED
          BY <4>1, <4>2 DEF Completed
      <3>4. CASE CompleteRun(w)
        <4>1. \E e \in runs'[op[w]] : e.state = "COMPLETED" /\ e.print = target[w]
          BY <3>4, Written DEF Writes, CompleteRun, CreateRun, RecordFailure
        <4>2. op' = op /\ target' = target
          BY <3>4 DEF CompleteRun
        <4> QED
          BY <4>1, <4>2 DEF Completed
      <3>5. CASE LoseLock(w)
        <4>1. pc' = pc /\ op' = op /\ target' = target /\ result' = result /\ runs' = runs
          BY <3>5 DEF LoseLock, locals, durable
        <4> QED
          BY <2>4, <4>1 DEF Brings, Completed
      <3> QED
        BY <2>1, <2>4, <3>1, <3>2, <3>3, <3>4, <3>5 DEF Moved, Concludes
    <2>5. ASSUME NEW v \in Workers, pc'[v] = "closing", result'[v] = "COMPLETED"
          PROVE  \E r \in Completed(op[v])' : r.print = target'[v]
      BY <2>3, <2>4, <2>5
    <2> QED
      BY <2>5 DEF Brings, Completed
  <1>2. ASSUME NEW c \in Cells, Recalculate(c)
        PROVE  Brings'
    BY <1>2 DEF Recalculate, locals, Brings, Completed
  <1>3. CASE UNCHANGED vars
    BY <1>3 DEF vars, durable, locals, Brings, Completed
  <1> QED
    BY <1>1, <1>2, <1>3 DEF Next, WorkerStep

(* What a step may write in a job, from its runs.                           *)
Grounded(o, state, print) ==
    \/ state \in {"STARTED", "FAILED"}
    \/ state = "COMPLETED" /\ \E r \in Completed(o) : r.print = print
    \/ state = "NO_RELEVANT_WORK" /\ runs[o] = {}

WritesJob ==
    \/ job' = job
    \/ \E o \in Ops : \E state, print :
          Grounded(o, state, print) /\ job' = [job EXCEPT ![o] = [state |-> state, print |-> print]]

LEMMA SetsJob ==
  ASSUME NEW w \in Workers, op[w] \in Ops, NEW state, NEW print, SetJob(w, state, print),
         Grounded(op[w], state, print)
  PROVE  WritesJob
  BY DEF SetJob, WritesJob

LEMMA JobWrites ==
  ASSUME TypeOK, LocalInv, Brings, NEW w \in Workers, WorkerStep(w)
  PROVE  WritesJob
  <1>1. ASSUME NEW o \in Ops, Schedule(w, o)
        PROVE  WritesJob
    <2>1. job' = job \/ job' = [job EXCEPT ![o] = [state |-> "STARTED", print |-> NoRows]]
      BY <1>1 DEF Schedule
    <2>2. Grounded(o, "STARTED", NoRows)
      BY DEF Grounded
    <2> QED
      BY <2>1, <2>2 DEF WritesJob
  <1>2. CASE Open(w)
    <2>1. job' = job \/ SetJob(w, "STARTED", job[op[w]].print)
      BY <1>2 DEF Open
    <2>2. Grounded(op[w], "STARTED", job[op[w]].print) /\ op[w] \in Ops
      BY <1>2 DEF Grounded, Open, LocalInv
    <2> QED
      BY <2>1, <2>2, SetsJob DEF WritesJob
  <1>3. CASE Close(w)
    <2>1. pc[w] = "closing" /\ op[w] \in Ops
      BY <1>3 DEF Close, LocalInv
    <2>2. CASE job' = job
      BY <2>2 DEF WritesJob
    <2>3. CASE result[w] = "COMPLETED" /\ SetJob(w, "COMPLETED", target[w])
      <3>1. Grounded(op[w], "COMPLETED", target[w])
        BY <2>1, <2>3 DEF Brings, Grounded
      <3> QED
        BY <2>1, <2>3, <3>1, SetsJob
    <2>4. CASE runs[op[w]] = {} /\ SetJob(w, "NO_RELEVANT_WORK", target[w])
      <3>1. Grounded(op[w], "NO_RELEVANT_WORK", target[w])
        BY <2>4 DEF Grounded
      <3> QED
        BY <2>1, <2>4, <3>1, SetsJob
    <2> QED
      BY <1>3, <2>2, <2>3, <2>4 DEF Close, MayBeIdle
  <1>4. CASE Reconcile(w)
    <2>1. op[w] \in Ops
      BY <1>4 DEF Reconcile, LocalInv
    <2>2. CASE job' = job
      BY <2>2 DEF WritesJob
    <2>3. CASE SetJob(w, "FAILED", job[op[w]].print)
      <3>1. Grounded(op[w], "FAILED", job[op[w]].print)
        BY DEF Grounded
      <3> QED
        BY <2>1, <2>3, <3>1, SetsJob
    <2>4. ASSUME NEW r \in runs[op[w]], r.state = "COMPLETED", SetJob(w, "COMPLETED", r.print)
          PROVE  WritesJob
      <3>1. Grounded(op[w], "COMPLETED", r.print)
        BY <2>4 DEF Grounded, Completed
      <3> QED
        BY <2>1, <2>4, <3>1, SetsJob
    <2> QED
      BY <1>4, <2>2, <2>3, <2>4 DEF Reconcile
  <1>5. CASE Enter(w) \/ Core(w) \/ Faults(w)
    <2>1. job' = job
      BY <1>5 DEF Enter, Core, Faults, HandlerRaises, FreezeRaises, FinalizeRaises, LoseFailure, Crash,
                  LoseLock, Freeze, FindRun, FindNothingNew, FindWork, CreateRun, Finalize, LockRun,
                  CompleteRun, Serialization, RecordFailure, durable
    <2> QED
      BY <2>1 DEF WritesJob
  <1> QED
    BY <1>1, <1>2, <1>3, <1>4, <1>5 DEF WorkerStep, Integration

LEMMA SaysStep ==
  ASSUME TypeOK, LocalInv, RunsInv, Brings, Says, [Next]_vars
  PROVE  Says'
  <1>1. ASSUME NEW w \in Workers, WorkerStep(w)
        PROVE  Says'
    <2>1. Settled
      BY SettledStep
    <2>2. WritesJob
      BY <1>1, JobWrites
    <2>3. runs' = runs \/ Writes(w)
      BY <1>1, WorkerWrites
    <2>4. CASE runs' = runs
      <3>1. CASE job' = job
        BY <2>4, <3>1 DEF Says, Completed
      <3>2. CASE job' # job
        <4>0. PICK k \in Ops : \E state, print :
                 /\ Grounded(k, state, print)
                 /\ job' = [job EXCEPT ![k] = [state |-> state, print |-> print]]
          BY <2>2, <3>2 DEF WritesJob
        <4>1. PICK state, print :
                 /\ Grounded(k, state, print)
                 /\ job' = [job EXCEPT ![k] = [state |-> state, print |-> print]]
          BY <4>0
        <4>2. /\ job'[k].state = state /\ job'[k].print = print
              /\ \A o \in Ops : o # k => job'[o] = job[o]
          BY <4>1 DEF TypeOK
        <4>3. \A o \in Ops : Completed(o)' = Completed(o) /\ runs'[o] = runs[o]
          BY <2>4 DEF Completed
        <4>4. ASSUME NEW o \in Ops
              PROVE  /\ job'[o].state = "COMPLETED" => \E r \in Completed(o)' : r.print = job'[o].print
                     /\ job'[o].state = "NO_RELEVANT_WORK" => runs'[o] = {}
          <5>1. CASE o = k
            BY <4>1, <4>2, <4>3, <5>1 DEF Grounded
          <5>2. CASE o # k
            BY <4>2, <4>3, <5>2 DEF Says
          <5> QED
            BY <5>1, <5>2
        <4> QED
          BY <4>4 DEF Says
      <3> QED
        BY <3>1, <3>2
    <2>5. CASE Writes(w)
      <3>1. job' = job
        BY <2>5 DEF Writes, CreateRun, CompleteRun, RecordFailure
      <3>2. ASSUME NEW o \in Ops
            PROVE  /\ job[o].state = "COMPLETED" => \E r \in Completed(o)' : r.print = job[o].print
                   /\ job[o].state = "NO_RELEVANT_WORK" => runs'[o] = {}
        <4>1. Completed(o) \subseteq Completed(o)'
          BY <2>1, StaysCompleted
        <4>2. ASSUME job[o].state = "NO_RELEVANT_WORK"
              PROVE  runs'[o] = {}
          <5>1. runs[o] = {}
            BY <4>2 DEF Says
          <5>2. CreateRun(w) => o # op[w]
            BY <4>2 DEF CreateRun
          <5>3. o # op[w] => runs'[o] = runs[o]
            BY <2>5, Written
          <5>4. ~CreateRun(w) /\ o = op[w] => runs'[o] = runs[o]
            BY <2>5, <5>1, Written
          <5> QED
            BY <5>1, <5>2, <5>3, <5>4
        <4> QED
          BY <4>1, <4>2 DEF Says
      <3> QED
        BY <3>1, <3>2 DEF Says
    <2> QED
      BY <2>3, <2>4, <2>5
  <1>2. ASSUME NEW c \in Cells, Recalculate(c)
        PROVE  Says'
    BY <1>2 DEF Recalculate, Says, Completed
  <1>3. CASE UNCHANGED vars
    BY <1>3 DEF vars, durable, Says, Completed
  <1> QED
    BY <1>1, <1>2, <1>3 DEF Next, WorkerStep

(* Only the transaction that completes a run audits one.                    *)
LEMMA EventsKept ==
  ASSUME TypeOK, NEW w \in Workers, WorkerStep(w), ~CompleteRun(w)
  PROVE  \A o \in Ops : events'[o].success = events[o].success
  <1>1. CASE events' = events
    BY <1>1
  <1>2. CASE Close(w) /\ events' # events
    <2>1. events' = [events EXCEPT ![op[w]].idle = events[op[w]].idle + 1]
      BY <1>2, Zenon DEF Close
    <2> QED
      BY <2>1 DEF TypeOK
  <1>3. CASE ~Close(w)
    <2>1. ASSUME NEW o \in Ops, Schedule(w, o)
          PROVE  events' = events
      BY <2>1 DEF Schedule
    <2>2. Enter(w) \/ Open(w) \/ Reconcile(w) => events' = events
      BY DEF Enter, Open, Reconcile, durable
    <2>3. Core(w) => events' = events
      BY DEF Core, Freeze, FindRun, FindNothingNew, FindWork, CreateRun, Finalize, LockRun,
             Serialization, RecordFailure, durable
    <2>4. Faults(w) => events' = events
      BY DEF Faults, HandlerRaises, FreezeRaises, FinalizeRaises, LoseFailure, Crash, LoseLock, durable
    <2> QED
      BY <1>1, <1>3, <2>1, <2>2, <2>3, <2>4 DEF WorkerStep, Integration
  <1> QED
    BY <1>1, <1>2, <1>3

LEMMA CountsStep ==
  ASSUME TypeOK, LocalInv, RunsInv, Counts, [Next]_vars
  PROVE  Counts'
  <1> DEFINE Has(o) == IsFiniteSet(runs'[o]) /\ events'[o].success = Cardinality(Completed(o)')
  <1>1. ASSUME NEW w \in Workers, WorkerStep(w)
        PROVE  Counts'
    <2>1. runs' = runs \/ Writes(w)
      BY <1>1, WorkerWrites
    <2>2. \A k \in Ops : ~CompleteRun(w) => events'[k].success = events[k].success
      BY <1>1, EventsKept
    <2>3. CASE runs' = runs /\ ~CompleteRun(w)
      <3>1. \A k \in Ops : Completed(k)' = Completed(k) /\ runs'[k] = runs[k]
        BY <2>3 DEF Completed
      <3> QED
        BY <2>2, <2>3, <3>1 DEF Counts
    <2>4. CASE Writes(w)
      <3>0. PICK o \in Ops : o = op[w]
        BY <2>4, Written
      <3>1. \A k \in Ops : k # o => runs'[k] = runs[k]
        BY <2>4, <3>0, Written
      <3>2. ASSUME NEW k \in Ops, k # o
            PROVE  Has(k)
        <4>1. events'[k].success = events[k].success
          <5>1. CASE CompleteRun(w)
            BY <3>0, <3>2, <5>1 DEF CompleteRun, TypeOK
          <5> QED
            BY <2>2, <5>1
        <4>2. runs'[k] = runs[k] /\ Completed(k)' = Completed(k)
          BY <3>1, <3>2 DEF Completed
        <4> QED
          BY <4>1, <4>2 DEF Counts
      <3>3. IsFiniteSet(runs[o]) /\ events[o].success = Cardinality(Completed(o))
        BY <3>1 DEF Counts
      <3>4. ASSUME CreateRun(w)
            PROVE  Has(o)
        <4> DEFINE e == [print |-> view[w].rows, frozen |-> Closure(view[w].rows),
                         state |-> "STARTED", findings |-> NoRows]
        <4>1. runs'[o] = runs[o] \cup {e}
          BY <2>4, <3>4, <3>0, Written DEF CreateRun, CompleteRun, RecordFailure
        <4>2. e.state = "STARTED"
          OBVIOUS
        <4> HIDE DEF e
        <4>3. Completed(o)' = Completed(o)
          BY <4>1, <4>2 DEF Completed
        <4>4. IsFiniteSet(runs'[o])
          BY <3>3, <4>1, FS_AddElement
        <4>5. ~CompleteRun(w)
          BY <3>4 DEF CreateRun, CompleteRun
        <4> QED
          BY <2>2, <3>1, <3>3, <4>3, <4>4, <4>5
      <3>5. ASSUME ~CreateRun(w), runs' # runs
            PROVE  Has(o)
        <4>1. PICK r \in runs[o], e \in Run :
                 /\ r.state # "COMPLETED" /\ e.print = r.print
                 /\ runs'[o] = (runs[o] \ {r}) \cup {e}
                 /\ \/ RecordFailure(w) /\ e.state = "FAILED"
                    \/ CompleteRun(w) /\ e.state = "COMPLETED"
          BY <2>4, <3>5, <3>0, Written
        <4>2. IsFiniteSet(runs[o] \ {r})
          BY <3>3, FS_RemoveElement
        <4>3. IsFiniteSet(runs'[o])
          BY <4>1, <4>2, FS_AddElement
        <4>5. Completed(o)' = {x \in runs'[o] : x.state = "COMPLETED"}
          BY DEF Completed
        <4>6. IsFiniteSet(Completed(o))
          BY <3>3, FS_Subset DEF Completed
        <4>7. CASE RecordFailure(w) /\ e.state = "FAILED"
          <5>1. Completed(o)' = Completed(o)
            BY <4>1, <4>5, <4>7 DEF Completed
          <5>2. ~CompleteRun(w)
            BY <4>7 DEF RecordFailure, CompleteRun
          <5> QED
            BY <2>2, <3>1, <3>3, <4>3, <5>1, <5>2
        <4>8. CASE CompleteRun(w) /\ e.state = "COMPLETED"
          <5>1. Completed(o)' = Completed(o) \cup {e}
            BY <4>1, <4>5, <4>8 DEF Completed
          <5>2. e \notin Completed(o)
            BY <3>1, <4>1 DEF Completed, RunsInv
          <5>3. Cardinality(Completed(o)') = Cardinality(Completed(o)) + 1
            BY <4>6, <5>1, <5>2, FS_AddElement
          <5>4. events'[o].success = events[o].success + 1
            BY <3>0, <4>8 DEF CompleteRun, TypeOK
          <5> QED
            BY <3>3, <4>3, <5>3, <5>4
        <4> QED
          BY <4>1, <4>7, <4>8
      <3>6. ASSUME ~CreateRun(w), runs' = runs
            PROVE  Has(o)
        <4>1. ~CompleteRun(w)
          <5>1. SUFFICES ASSUME CompleteRun(w)
                         PROVE  FALSE
            OBVIOUS
          <5>2. ~RecordFailure(w)
            BY <5>1 DEF RecordFailure, CompleteRun
          <5>3. PICK r \in runs[o], e \in Run :
                   /\ r.state # "COMPLETED" /\ e.print = r.print /\ e.state = "COMPLETED"
                   /\ runs'[o] = (runs[o] \ {r}) \cup {e}
            BY <2>4, <3>6, <5>2, <3>0, Written
          <5> QED
            BY <3>1, <3>6, <5>3 DEF RunsInv
        <4>2. RecordFailure(w)
          BY <2>4, <3>6, <4>1 DEF Writes
        <4>3. Completed(o)' = Completed(o)
          BY <3>6 DEF Completed
        <4> QED
          BY <2>2, <3>1, <3>3, <3>6, <4>1, <4>3
      <3>7. Has(o)
        BY <3>4, <3>5, <3>6
      <3>8. ASSUME NEW k \in Ops
            PROVE  Has(k)
        <4>1. CASE k = o
          BY <3>7, <4>1
        <4>2. CASE k # o
          BY <3>2, <4>2
        <4> QED
          BY <4>1, <4>2
      <3> QED
        BY <3>8 DEF Counts, Completed
    <2> QED
      BY <2>1, <2>3, <2>4 DEF Writes
  <1>2. ASSUME NEW c \in Cells, Recalculate(c)
        PROVE  Counts'
    BY <1>2 DEF Recalculate, Counts, Completed
  <1>3. CASE UNCHANGED vars
    BY <1>3 DEF vars, durable, Counts, Completed
  <1> QED
    BY <1>1, <1>2, <1>3 DEF Next, WorkerStep

-----------------------------------------------------------------------------
(* The closures                                                             *)

LEMMA InitTells == Init => JInv
  <1> SUFFICES ASSUME Init
               PROVE  JInv
    OBVIOUS
  <1>1. \A o \in Ops : runs[o] = {} /\ job[o].state = "ABSENT" /\ events[o].success = 0
    BY DEF Init
  <1>2. \A w \in Workers : view[w] = NoView /\ pc[w] = "idle"
    BY DEF Init
  <1>3. SnapshotsInv
    <2>1. Snapshots \subseteq {NoRows}
      BY <1>1, <1>2 DEF Snapshots, Prints, NoView
    <2> QED
      BY <2>1 DEF SnapshotsInv, Observed, Comparable, CellsOf, NoRows
  <1>4. ViewInv
    BY <1>2 DEF ViewInv, NoView
  <1>5. FrozenInv
    BY <1>1 DEF FrozenInv
  <1>6. Counts
    <2>1. \A o \in Ops : Completed(o) = {}
      BY <1>1 DEF Completed
    <2> QED
      BY <1>1, <2>1, FS_EmptySet DEF Counts
  <1>7. Brings /\ Says
    BY <1>1, <1>2 DEF Brings, Says
  <1> QED
    BY <1>3, <1>4, <1>5, <1>6, <1>7, TellParts DEF JInv

LEMMA NextTells == IInv /\ JInv /\ [Next]_vars => JInv'
  <1> SUFFICES ASSUME IInv, JInv, [Next]_vars
               PROVE  JInv'
    OBVIOUS
  <1>1. TypeOK /\ LocalInv /\ ExclusiveInv /\ RunsInv
    BY DEF IInv
  <1>2. SnapshotsInv /\ ViewInv /\ FrozenInv /\ Brings /\ Says /\ Counts
    BY TellParts DEF JInv
  <1>3. SnapshotsInv' /\ ViewInv' /\ FrozenInv'
    BY <1>1, <1>2, SnapshotsStep, ViewStep, FrozenStep
  <1>4. Brings' /\ Says' /\ Counts'
    BY <1>1, <1>2, BringsStep, SaysStep, CountsStep
  <1>5. TellInv'
    BY <1>4 DEF TellInv, Brings, Says, Counts
  <1> QED
    BY <1>3, <1>5 DEF JInv

LEMMA Tells == Spec => [](IInv /\ JInv)
  <1>1. Init => IInv /\ JInv
    BY InitInv, InitTells
  <1>2. IInv /\ JInv /\ [Next]_vars => (IInv /\ JInv)'
    BY NextInv, NextTells
  <1> QED
    BY <1>1, <1>2, PTL DEF Spec

(* Of two snapshots the one with fewer months lies the whole depth behind   *)
(* the other, or their closures share a month.                              *)
LEMMA ClosuresApart ==
  ASSUME NEW less \in SUBSET Row, NEW more \in SUBSET Row, CellsOf(less) \subseteq CellsOf(more),
         \A x \in Closure(less), y \in Closure(more) : x.cell # y.cell
  PROVE  \A x \in less : \E y \in more : x.cell + Depth <= y.cell
  <1> SUFFICES ASSUME NEW x \in less, \A y \in more : ~(x.cell + Depth <= y.cell)
               PROVE  FALSE
    OBVIOUS
  <1>1. \A y \in more : y.cell < x.cell + Depth
    <2> SUFFICES ASSUME NEW y \in more
                 PROVE  y.cell < x.cell + Depth
      OBVIOUS
    <2>1. x.cell \in Nat /\ y.cell \in Nat
      BY DEF Row
    <2> QED
      BY <2>1
  <1>2. \A y \in less : \E z \in more : z.cell = y.cell
    BY DEF CellsOf
  <1>3. x \in Closure(less)
    BY <1>1, <1>2 DEF Closure
  <1>4. PICK z \in more : z.cell = x.cell
    BY <1>2
  <1>5. z \in Closure(more)
    BY <1>1, <1>4 DEF Closure
  <1> QED
    BY <1>3, <1>4, <1>5

LEMMA RunsAreApart == IInv /\ JInv => TwoRuns
  <1> SUFFICES ASSUME IInv, JInv, NEW o \in Ops, NEW r \in runs[o], NEW q \in runs[o], r # q
               PROVE  o \in lost /\ (Behind(r, q) \/ Behind(q, r))
    BY DEF TwoRuns
  <1>1. /\ o \in lost /\ ~Share(r, q) /\ r.print # NoRows /\ q.print # NoRows
        /\ r.frozen = Closure(r.print) /\ q.frozen = Closure(q.print)
    BY DEF JInv, FrozenInv
  <1>2. r.print \in SUBSET Row /\ q.print \in SUBSET Row
    BY DEF IInv, TypeOK, Run
  <1>3. Comparable(r.print, q.print)
    <2>1. r.print \in Snapshots /\ q.print \in Snapshots
      BY DEF Snapshots, Prints
    <2> QED
      BY <2>1 DEF JInv, SnapshotsInv
  <1>4. CASE CellsOf(r.print) \subseteq CellsOf(q.print)
    <2>1. \A x \in r.print : \E y \in q.print : x.cell + Depth <= y.cell
      BY <1>1, <1>2, <1>4, ClosuresApart DEF Share
    <2> QED
      BY <1>1, <2>1 DEF Behind
  <1>5. CASE CellsOf(q.print) \subseteq CellsOf(r.print)
    <2>1. \A x \in q.print : \E y \in r.print : x.cell + Depth <= y.cell
      BY <1>1, <1>2, <1>5, ClosuresApart DEF Share
    <2> QED
      BY <1>1, <2>1 DEF Behind
  <1> QED
    BY <1>3, <1>4, <1>5 DEF Comparable

(* No lock was lost, or no two months are the whole depth apart.            *)
Near == lost = {} \/ \A c, d \in Cells : c < d + Depth

LEMMA NearIsOne ==
  ASSUME IInv, JInv, Near
  PROVE  \A o \in Ops : \A r, q \in runs[o] : r = q
  <1> SUFFICES ASSUME NEW o \in Ops, NEW r \in runs[o], NEW q \in runs[o], r # q
               PROVE  FALSE
    OBVIOUS
  <1>1. o \in lost /\ (Behind(r, q) \/ Behind(q, r))
    BY RunsAreApart DEF TwoRuns
  <1>2. r.print \in SUBSET Row /\ q.print \in SUBSET Row
    BY DEF IInv, TypeOK, Run
  <1>3. \A c, d \in Cells : c < d + Depth
    BY <1>1 DEF Near
  <1>4. \A x, y \in Row : ~(x.cell + Depth <= y.cell)
    <2> SUFFICES ASSUME NEW x \in Row, NEW y \in Row
                 PROVE  ~(x.cell + Depth <= y.cell)
      OBVIOUS
    <2>1. x.cell \in Cells /\ y.cell \in Cells /\ x.cell \in Nat /\ y.cell \in Nat
      BY DEF Row
    <2>2. y.cell < x.cell + Depth
      BY <1>3, <2>1
    <2> QED
      BY <2>1, <2>2
  <1> QED
    BY <1>1, <1>2, <1>4 DEF Behind, NoRows

LEMMA NearOwns == IInv /\ JInv /\ Near => RunsOwnTheirInput
  <1> SUFFICES ASSUME IInv, JInv, Near
               PROVE  RunsOwnTheirInput
    OBVIOUS
  <1>1. ASSUME NEW o \in Ops
        PROVE  Cardinality(runs[o]) <= 1
    <2>1. CASE runs[o] = {}
      BY <2>1, FS_EmptySet
    <2>2. CASE runs[o] # {}
      <3>1. PICK r : runs[o] = {r}
        BY <2>2, NearIsOne
      <3>2. Cardinality({r}) = 1
        BY FS_Singleton
      <3> QED
        BY <3>1, <3>2
    <2> QED
      BY <2>1, <2>2
  <1> QED
    BY <1>1 DEF RunsOwnTheirInput, OneRunPerJob, IInv

LEMMA NearTells == IInv /\ JInv /\ Near => JobTellsItsRun
  <1> SUFFICES ASSUME IInv, JInv, Near, NEW o \in Ops
               PROVE  /\ job[o].state = "COMPLETED" =>
                            /\ events[o].success = 1
                            /\ \E r \in runs[o] : r.state = "COMPLETED" /\ r.print = job[o].print
                      /\ job[o].state = "NO_RELEVANT_WORK" => FrozenOf(o) = NoRows
    BY DEF JobTellsItsRun
  <1>1. TellInv
    BY DEF JInv
  <1>2. ASSUME job[o].state = "COMPLETED"
        PROVE  /\ events[o].success = 1
               /\ \E r \in runs[o] : r.state = "COMPLETED" /\ r.print = job[o].print
    <2>1. PICK r \in Completed(o) : r.print = job[o].print
      BY <1>1, <1>2 DEF TellInv
    <2>2. Completed(o) = {r}
      BY <2>1, NearIsOne DEF Completed
    <2>3. events[o].success = 1
      BY <1>1, <2>2, FS_Singleton DEF TellInv
    <2> QED
      BY <2>1, <2>3 DEF Completed
  <1>3. job[o].state = "NO_RELEVANT_WORK" => FrozenOf(o) = NoRows
    BY <1>1 DEF TellInv, FrozenOf, NoRows
  <1> QED
    BY <1>2, <1>3

(* A COMPLETED job carries the fingerprint of a run that was completed, an  *)
(* idle one has no run, and every completed run was audited by exactly one  *)
(* SUCCESS event, whoever executed the job and whichever locks were lost.   *)
THEOREM JobsAreGrounded == Spec => []TellInv
  <1>1. JInv => TellInv
    BY DEF JInv
  <1> QED
    BY <1>1, Tells, PTL

(* Two runs of one job need a lost advisory lock and a series that grew by  *)
(* the whole depth of the closure between their snapshots: the uniqueness   *)
(* of a frozen observation in a job refuses every other second run.         *)
THEOREM RunsFarApart == Spec => []TwoRuns
  BY Tells, RunsAreApart, PTL

(* While no advisory lock is lost, or if the months never lie the depth of  *)
(* the closure apart, every job has at most one run and every frozen row    *)
(* the observation it is bound to.                                          *)
THEOREM RunsOwnInput == Spec => [](Near => RunsOwnTheirInput)
  BY Tells, NearOwns, PTL

(* Under the same condition a finished job says what the core did: its      *)
(* fingerprint is that of a completed run, audited once, or it owns no row. *)
THEOREM JobTells == Spec => [](Near => JobTellsItsRun)
  BY Tells, NearTells, PTL

==============================================================================

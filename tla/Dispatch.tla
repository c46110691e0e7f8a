------------------------------ MODULE Dispatch ------------------------------
(***************************************************************************)
(* The durable dispatch of an ingested file to its downstream processing:  *)
(* CoordinationService.dispatch and recover_stale (coordination/service.py)*)
(* over the table app.coordination_dispatch (coordination/repository.py,   *)
(* migration 0009).                                                        *)
(*                                                                         *)
(* A worker is one call being served by a thread of the backend, made by   *)
(* an account of its own (two calls of one account serialise their first   *)
(* transaction on the account row: fewer interleavings, none that are not  *)
(* here).  The service reads a row, keeps its lock until its short         *)
(* transaction ends, runs the downstream with no transaction open, and     *)
(* closes the row in another short transaction; PostgreSQL runs them READ  *)
(* COMMITTED.  "dispatch" holds committed rows only: what a transaction    *)
(* has written so far is in "recovered", under the row locks in "lock".    *)
(*                                                                         *)
(* The target of a file is a function of two columns nobody updates, so    *)
(* the identity (file_id, downstream_target) is the file.  "op" stands for *)
(* the pair operation_id, correlation_id, which one INSERT generates.      *)
(***************************************************************************)
EXTENDS Naturals, FiniteSets

CONSTANTS
    Workers,        \* concurrent calls of the service
    Files,          \* rows of app.ingest_file
    FileState,      \* ingest_file.state of each file
    FileFormat,     \* ingest_file.exchange_format of each file
    Results,        \* downstream_result_id values
    NoWorker, NoFile, NoResult,
    MaxRaises,      \* bound: downstream executions that raise
    MaxCrashes,     \* bound: processes that die
    MaxSlow,        \* bound: live executions that outlast the threshold
    MaxDenials      \* bound: calls whose authorization is gone

ASSUME DispatchConstants ==
    /\ NoWorker \notin Workers
    /\ NoFile \notin Files
    /\ NoResult \notin Results
    /\ FileState \in [Files -> {"CUARENTENA", "COMPLETADO", "OTRO"}]
    /\ FileFormat \in [Files -> {"CSV", "XLSX", "PDF", "DOCX", "OTRO"}]
    /\ MaxRaises \in Nat /\ MaxCrashes \in Nat
    /\ MaxSlow \in Nat /\ MaxDenials \in Nat

VARIABLES
    dispatch,       \* committed row of each file
    lock,           \* transaction that holds the row lock of each file
    overdue,        \* IN_PROGRESS rows whose heartbeat_at passed the threshold
    nextOp,         \* next identifier gen_random_uuid() will produce
    pc, file, op, attempt, result,      \* locals of each call
    seen,           \* rows overdue at the CURRENT_TIMESTAMP of the transaction
    recovered,      \* rows the open transaction has set to FAILED
    answer,         \* last answer of each call
    denialEvents,   \* committed COORDINATION_DENIED audit events
    budget,         \* what is left of the four bounds
    everOverdue     \* history: files with a claim that was overdue once

calls == <<pc, file, op, attempt, result, seen, recovered, answer>>
vars == <<dispatch, lock, overdue, nextOp, calls, denialEvents, budget, everOverdue>>

-----------------------------------------------------------------------------
(* Values *)

RowState == {"ABSENT", "NEW", "IN_PROGRESS", "COMPLETED", "FAILED"}
Row == [state : RowState, op : Nat, attempts : Nat, result : Results \cup {NoResult}]
AbsentRow == [state |-> "ABSENT", op |-> 0, attempts |-> 0, result |-> NoResult]

Where == {"idle", "denying", "upsert", "locked", "recovering",
          "downstream", "completing", "failing"}
AnswerKind == {"NONE", "SKIPPED", "COMPLETED", "CONFLICT", "DENIED", "RAISED", "DEADLOCK"}
Answer == [kind : AnswerKind, file : Files \cup {NoFile}, result : Results \cup {NoResult}]
Say(kind) == [kind |-> kind, file |-> NoFile, result |-> NoResult]
Budget == [raises : Nat, crashes : Nat, slow : Nat, denials : Nat]

(* reconstruct_routing_target *)
RoutingTarget(f) ==
    IF FileState[f] = "CUARENTENA" THEN "VALIDATION"
    ELSE IF FileState[f] = "COMPLETADO" /\ FileFormat[f] \in {"CSV", "XLSX"} THEN "VALIDATION"
    ELSE IF FileState[f] = "COMPLETADO" /\ FileFormat[f] \in {"PDF", "DOCX"} THEN "DOCUMENT"
    ELSE "NONE"

Routed == {f \in Files : RoutingTarget(f) # "NONE"}

(* A call that runs the downstream of f, or is about to record its result. *)
Executing(w) == pc[w] \in {"downstream", "completing", "failing"}
ExecutingOn(f) == {w \in Workers : Executing(w) /\ file[w] = f}
Open(w) == pc[w] \in {"locked", "recovering"}

(* The state of row f as the open transaction of w reads it. *)
StateInTx(w, f) ==
    IF f \in recovered[w] THEN "FAILED"
    ELSE IF f = file[w] /\ dispatch[f].state = "ABSENT" THEN "NEW"
    ELSE dispatch[f].state

(* What the statements of the repository select and compute.  Each one is   *)
(* preceded by the slips a property must notice, marked "faulty".           *)
ClaimAnyOpenRow(state) == state # "COMPLETED"           \* faulty: no state guard
Claimable(state) == state \in {"NEW", "FAILED"}

CloseAnyRow(state) == TRUE                              \* faulty: no state guard
Closable(state) == state = "IN_PROGRESS"

LowerAttempt(f) == dispatch[f].attempts - 1             \* faulty: counts down
NextAttempt(f) == dispatch[f].attempts + 1

IdentityOf(f) == IF dispatch[f].state = "ABSENT" THEN nextOp ELSE dispatch[f].op

NoClaim == {}                                           \* faulty: never stale
StaleClaims == overdue

(* Rows the UPDATE of recover_stale still has to visit: overdue when the    *)
(* transaction began, IN_PROGRESS in the version a lock holder leaves.      *)
Pending(w) == {g \in seen[w] \ recovered[w] : dispatch[g].state = "IN_PROGRESS"}

-----------------------------------------------------------------------------
Init ==
    /\ dispatch = [f \in Files |-> AbsentRow]
    /\ lock = [f \in Files |-> NoWorker]
    /\ overdue = {}
    /\ nextOp = 1
    /\ pc = [w \in Workers |-> "idle"]
    /\ file = [w \in Workers |-> NoFile]
    /\ op = [w \in Workers |-> 0]
    /\ attempt = [w \in Workers |-> 0]
    /\ result = [w \in Workers |-> NoResult]
    /\ seen = [w \in Workers |-> {}]
    /\ recovered = [w \in Workers |-> {}]
    /\ answer = [w \in Workers |-> Say("NONE")]
    /\ denialEvents = 0
    /\ budget = [raises |-> MaxRaises, crashes |-> MaxCrashes,
                 slow |-> MaxSlow, denials |-> MaxDenials]
    /\ everOverdue = {}

(* A call ends: its locals go and its transaction, if any, lets go of its  *)
(* row locks.                                                              *)
Finish(w, a) ==
    /\ pc' = [pc EXCEPT ![w] = "idle"]
    /\ file' = [file EXCEPT ![w] = NoFile]
    /\ op' = [op EXCEPT ![w] = 0]
    /\ attempt' = [attempt EXCEPT ![w] = 0]
    /\ result' = [result EXCEPT ![w] = NoResult]
    /\ seen' = [seen EXCEPT ![w] = {}]
    /\ recovered' = [recovered EXCEPT ![w] = {}]
    /\ answer' = [answer EXCEPT ![w] = a]

Released(w) == [f \in Files |-> IF lock[f] = w THEN NoWorker ELSE lock[f]]

-----------------------------------------------------------------------------
(* First transaction of dispatch: authorization, target, upsert, claim.    *)

Begin(w, f) ==
    /\ pc[w] = "idle"
    /\ RoutingTarget(f) # "NONE"
    /\ pc' = [pc EXCEPT ![w] = "upsert"]
    /\ file' = [file EXCEPT ![w] = f]
    /\ seen' = [seen EXCEPT ![w] = StaleClaims]
    /\ answer' = [answer EXCEPT ![w] = Say("NONE")]
    /\ UNCHANGED <<dispatch, lock, overdue, nextOp, op, attempt, result, recovered,
                   denialEvents, budget, everOverdue>>

Skip(w, f) ==
    /\ pc[w] = "idle"
    /\ RoutingTarget(f) = "NONE"
    /\ Finish(w, Say("SKIPPED"))
    /\ UNCHANGED <<dispatch, lock, overdue, nextOp, denialEvents, budget, everOverdue>>

(* _authorize: the denial is written on the transaction of the call...     *)
Deny(w) ==
    /\ pc[w] = "idle"
    /\ budget.denials > 0
    /\ pc' = [pc EXCEPT ![w] = "denying"]
    /\ budget' = [budget EXCEPT !.denials = @ - 1]
    /\ answer' = [answer EXCEPT ![w] = Say("NONE")]
    /\ UNCHANGED <<dispatch, lock, overdue, nextOp, file, op, attempt, result, seen,
                   recovered, denialEvents, everOverdue>>

(* ...and the exception that _authorize re-raises rolls it back.           *)
LeaveDenied(w) ==
    /\ pc[w] = "denying"
    /\ Finish(w, Say("DENIED"))
    /\ UNCHANGED <<dispatch, lock, overdue, nextOp, denialEvents, budget, everOverdue>>

(* get_or_create_dispatch: INSERT .. ON CONFLICT DO UPDATE locks the row.  *)
Upsert(w) ==
    /\ pc[w] = "upsert"
    /\ lock[file[w]] = NoWorker
    /\ lock' = [lock EXCEPT ![file[w]] = w]
    /\ pc' = [pc EXCEPT ![w] = "locked"]
    /\ op' = [op EXCEPT ![w] = IdentityOf(file[w])]
    /\ nextOp' = IF dispatch[file[w]].state = "ABSENT" THEN nextOp + 1 ELSE nextOp
    /\ UNCHANGED <<dispatch, overdue, file, attempt, result, seen, recovered, answer,
                   denialEvents, budget, everOverdue>>

ReturnCompleted(w) ==
    /\ pc[w] = "locked"
    /\ StateInTx(w, file[w]) = "COMPLETED"
    /\ Finish(w, [kind |-> "COMPLETED", file |-> file[w],
                  result |-> dispatch[file[w]].result])
    /\ lock' = Released(w)
    /\ UNCHANGED <<dispatch, overdue, nextOp, denialEvents, budget, everOverdue>>

StartRecovery(w) ==
    /\ pc[w] = "locked"
    /\ StateInTx(w, file[w]) = "IN_PROGRESS"
    /\ pc' = [pc EXCEPT ![w] = "recovering"]
    /\ UNCHANGED <<dispatch, lock, overdue, nextOp, file, op, attempt, result, seen,
                   recovered, answer, denialEvents, budget, everOverdue>>

(* CoordinationService.recover_stale: the same UPDATE in its own transaction *)
StartMaintenance(w) ==
    /\ pc[w] = "idle"
    /\ pc' = [pc EXCEPT ![w] = "recovering"]
    /\ seen' = [seen EXCEPT ![w] = StaleClaims]
    /\ answer' = [answer EXCEPT ![w] = Say("NONE")]
    /\ UNCHANGED <<dispatch, lock, overdue, nextOp, file, op, attempt, result, recovered,
                   denialEvents, budget, everOverdue>>

(* repository.recover_stale, one row: lock it and set it to FAILED.         *)
RecoverRow(w, g) ==
    /\ pc[w] = "recovering"
    /\ g \in Pending(w)
    /\ lock[g] \in {NoWorker, w}
    /\ lock' = [lock EXCEPT ![g] = w]
    /\ recovered' = [recovered EXCEPT ![w] = @ \cup {g}]
    /\ UNCHANGED <<dispatch, overdue, nextOp, pc, file, op, attempt, result, seen, answer,
                   denialEvents, budget, everOverdue>>

(* Rows as the transaction of w leaves them when it commits its recovery.   *)
WithRecovered(w) ==
    [f \in Files |-> IF f \in recovered[w] THEN [dispatch[f] EXCEPT !.state = "FAILED"]
                     ELSE dispatch[f]]

(* The row that claim leaves: inserted with its identity or found.          *)
ClaimedRow(w) ==
    [state |-> "IN_PROGRESS",
     op |-> IF StateInTx(w, file[w]) = "NEW" THEN op[w] ELSE dispatch[file[w]].op,
     attempts |-> NextAttempt(file[w]),
     result |-> dispatch[file[w]].result]

(* claim, and the commit that ends the first transaction.                   *)
Claim(w) ==
    /\ \/ pc[w] = "locked"
       \/ pc[w] = "recovering" /\ file[w] # NoFile /\ Pending(w) = {}
    /\ Claimable(StateInTx(w, file[w]))
    /\ dispatch' = [f \in Files |-> IF f = file[w] THEN ClaimedRow(w)
                                    ELSE WithRecovered(w)[f]]
    /\ overdue' = overdue \ (recovered[w] \cup {file[w]})
    /\ seen' = [x \in Workers |-> IF x = w THEN {} ELSE seen[x] \ {file[w]}]
    /\ recovered' = [recovered EXCEPT ![w] = {}]
    /\ lock' = Released(w)
    /\ pc' = [pc EXCEPT ![w] = "downstream"]
    /\ attempt' = [attempt EXCEPT ![w] = NextAttempt(file[w])]
    /\ UNCHANGED <<nextOp, file, op, result, answer, denialEvents, budget, everOverdue>>

(* Its own row is still IN_PROGRESS: the exception undoes every recovery.   *)
Conflict(w) ==
    /\ pc[w] = "recovering" /\ file[w] # NoFile /\ Pending(w) = {}
    /\ StateInTx(w, file[w]) = "IN_PROGRESS"
    /\ Finish(w, Say("CONFLICT"))
    /\ lock' = Released(w)
    /\ UNCHANGED <<dispatch, overdue, nextOp, denialEvents, budget, everOverdue>>

CommitMaintenance(w) ==
    /\ pc[w] = "recovering" /\ file[w] = NoFile /\ Pending(w) = {}
    /\ dispatch' = WithRecovered(w)
    /\ overdue' = overdue \ recovered[w]
    /\ Finish(w, Say("NONE"))
    /\ lock' = Released(w)
    /\ UNCHANGED <<nextOp, denialEvents, budget, everOverdue>>

(* PostgreSQL breaks a cycle of transactions that wait for each other's rows *)
Deadlocked(w) ==
    \E S \in SUBSET Workers :
        /\ w \in S
        /\ \A x \in S : /\ pc[x] = "recovering"
                        /\ \E g \in Pending(x) : lock[g] \in S \ {x}

DeadlockAbort(w) ==
    /\ Deadlocked(w)
    /\ Finish(w, Say("DEADLOCK"))
    /\ lock' = Released(w)
    /\ UNCHANGED <<dispatch, overdue, nextOp, denialEvents, budget, everOverdue>>

-----------------------------------------------------------------------------
(* Downstream, outside every coordination transaction, and its closing.     *)

RunnerReturns(w, r) ==
    /\ pc[w] = "downstream"
    /\ pc' = [pc EXCEPT ![w] = "completing"]
    /\ result' = [result EXCEPT ![w] = r]
    /\ UNCHANGED <<dispatch, lock, overdue, nextOp, file, op, attempt, seen, recovered,
                   answer, denialEvents, budget, everOverdue>>

RunnerRaises(w) ==
    /\ pc[w] = "downstream"
    /\ budget.raises > 0
    /\ budget' = [budget EXCEPT !.raises = @ - 1]
    /\ pc' = [pc EXCEPT ![w] = "failing"]
    /\ UNCHANGED <<dispatch, lock, overdue, nextOp, file, op, attempt, result, seen,
                   recovered, answer, denialEvents, everOverdue>>

(* The UPDATE of complete and of fail: guarded by the state of the row and  *)
(* by nothing that tells this attempt from a later one.                     *)
Close(w, row) ==
    IF Closable(dispatch[file[w]].state)
    THEN /\ dispatch' = [dispatch EXCEPT ![file[w]] = row]
         /\ overdue' = overdue \ {file[w]}
    ELSE UNCHANGED <<dispatch, overdue>>

(* complete; the answer does not depend on whether the UPDATE found its row *)
Complete(w) ==
    /\ pc[w] = "completing"
    /\ lock[file[w]] = NoWorker
    /\ Close(w, [dispatch[file[w]] EXCEPT !.state = "COMPLETED", !.result = result[w]])
    /\ Finish(w, [kind |-> "COMPLETED", file |-> file[w], result |-> result[w]])
    /\ UNCHANGED <<lock, nextOp, denialEvents, budget, everOverdue>>

(* fail                                                                     *)
Fail(w) ==
    /\ pc[w] = "failing"
    /\ lock[file[w]] = NoWorker
    /\ Close(w, [dispatch[file[w]] EXCEPT !.state = "FAILED"])
    /\ Finish(w, Say("RAISED"))
    /\ UNCHANGED <<lock, nextOp, denialEvents, budget, everOverdue>>

-----------------------------------------------------------------------------
(* Environment *)

(* The process of w dies: PostgreSQL rolls its open transaction back.       *)
Crash(w) ==
    /\ pc[w] # "idle"
    /\ budget.crashes > 0
    /\ budget' = [budget EXCEPT !.crashes = @ - 1]
    /\ Finish(w, Say("NONE"))
    /\ lock' = Released(w)
    /\ UNCHANGED <<dispatch, overdue, nextOp, denialEvents, everOverdue>>

HasLiveOwner(f) == \E w \in ExecutingOn(f) : attempt[w] = dispatch[f].attempts

(* heartbeat_at, written by claim and by nothing else the service calls,    *)
(* falls behind the threshold.                                              *)
Expire(f) ==
    /\ dispatch[f].state = "IN_PROGRESS"
    /\ f \notin overdue
    /\ IF HasLiveOwner(f)
       THEN budget.slow > 0 /\ budget' = [budget EXCEPT !.slow = @ - 1]
       ELSE UNCHANGED budget
    /\ overdue' = overdue \cup {f}
    /\ everOverdue' = everOverdue \cup {f}
    /\ UNCHANGED <<dispatch, lock, nextOp, calls, denialEvents>>

-----------------------------------------------------------------------------
Runner(w) == (\E r \in Results \cup {NoResult} : RunnerReturns(w, r)) \/ RunnerRaises(w)

Step(w) ==
    \/ LeaveDenied(w) \/ ReturnCompleted(w) \/ StartRecovery(w)
    \/ Claim(w) \/ Conflict(w) \/ CommitMaintenance(w) \/ DeadlockAbort(w)

Next ==
    \/ \E w \in Workers :
          \/ \E f \in Files : Begin(w, f) \/ Skip(w, f) \/ RecoverRow(w, f)
          \/ Deny(w) \/ StartMaintenance(w)
          \/ Upsert(w) \/ Step(w) \/ Runner(w) \/ Complete(w) \/ Fail(w) \/ Crash(w)
    \/ \E f \in Files : Expire(f)

Spec == Init /\ [][Next]_vars

(***************************************************************************)
(* Fairness.  A live thread runs on, and its runner ends (WF).  Statements *)
(* that wait for a row lock are queued by PostgreSQL in order of arrival,  *)
(* so a lock that is free again and again is granted (SF).  Time passes    *)
(* (WF of Expire).  Every routed file is dispatched again and again: the   *)
(* daily DAG posts the controlled sources and dispatches every result (SF, *)
(* as a caller must be free).  Crashes, denials and the maintenance call   *)
(* are not fair.                                                           *)
(***************************************************************************)
Fairness ==
    /\ \A w \in Workers :
          /\ WF_vars(Step(w) \/ Runner(w))
          /\ SF_vars(Upsert(w) \/ Complete(w) \/ Fail(w))
          /\ \A f \in Files : SF_vars(RecoverRow(w, f))
    /\ \A f \in Files : WF_vars(Expire(f))
    /\ \A f \in Routed : SF_vars(\E w \in Workers : Begin(w, f))

FairSpec == Spec /\ Fairness

-----------------------------------------------------------------------------
(* Properties *)

TypeOK ==
    /\ dispatch \in [Files -> Row]
    /\ lock \in [Files -> Workers \cup {NoWorker}]
    /\ overdue \in SUBSET Files
    /\ nextOp \in Nat
    /\ pc \in [Workers -> Where]
    /\ file \in [Workers -> Files \cup {NoFile}]
    /\ op \in [Workers -> Nat]
    /\ attempt \in [Workers -> Nat]
    /\ result \in [Workers -> Results \cup {NoResult}]
    /\ seen \in [Workers -> SUBSET Files]
    /\ recovered \in [Workers -> SUBSET Files]
    /\ answer \in [Workers -> Answer]
    /\ denialEvents \in Nat
    /\ budget \in Budget
    /\ everOverdue \in SUBSET Files

(* Every execution in flight carries the durable identity of its row, and  *)
(* no other row has it: whatever crashes, rollbacks and takeovers happened *)
(* since, the downstream sees one operation_id per file.                   *)
DurableIdentity ==
    /\ \A w \in Workers : Executing(w) =>
          /\ dispatch[file[w]].state # "ABSENT"
          /\ op[w] = dispatch[file[w]].op
          /\ attempt[w] \in 1..dispatch[file[w]].attempts
    /\ \A f, g \in Files :
          dispatch[f].op = dispatch[g].op => f = g \/ dispatch[f].state = "ABSENT"

(* Two executions of one file never share an attempt number: the number    *)
(* the runner is given is the attempt_count its claim committed.           *)
DistinctAttempts ==
    \A w, x \in Workers :
        (Executing(w) /\ Executing(x) /\ file[w] = file[x] /\ attempt[w] = attempt[x]) => w = x

(* A file whose claims were never overdue is never processed twice at once,*)
(* however many calls compete for it.                                      *)
NoOverlapUnlessOverdue ==
    \A f \in Files \ everOverdue : Cardinality(ExecutingOn(f)) <= 1

(* A call that answered COMPLETED told the truth, for a file none of whose *)
(* claims was ever overdue: the row is COMPLETED with the result reported. *)
ReportedIsDurable ==
    \A w \in Workers :
        (answer[w].kind = "COMPLETED" /\ answer[w].file \notin everOverdue) =>
            /\ dispatch[answer[w].file].state = "COMPLETED"
            /\ dispatch[answer[w].file].result = answer[w].result

(* What a call executes and what it reports, against what is stored.       *)
ExecutionsAreSound ==
    /\ DurableIdentity /\ DistinctAttempts
    /\ NoOverlapUnlessOverdue /\ ReportedIsDurable

(* A row is never forgotten, never loses its identity, never loses count   *)
(* of its attempts, and once COMPLETED never changes, not even under a     *)
(* late complete or fail of a worker that was given up for dead.           *)
RowsAdvance ==
    \A f \in Files :
        /\ dispatch[f].state # "ABSENT" =>
              dispatch'[f].op = dispatch[f].op /\ dispatch'[f].state # "ABSENT"
        /\ dispatch'[f].attempts \in {dispatch[f].attempts, dispatch[f].attempts + 1}
        /\ dispatch[f].state = "COMPLETED" => dispatch'[f] = dispatch[f]

RowsOnlyAdvance == [][RowsAdvance]_vars

(* A claim that is not overdue is lost to nobody but a worker of its file  *)
(* that closes it: neither a second call nor a recovery takes it away.     *)
FreshClaimKept ==
    \A f \in Files :
        (dispatch[f].state = "IN_PROGRESS" /\ f \notin overdue /\ dispatch'[f] # dispatch[f]) =>
            \E w \in ExecutingOn(f) : pc[w] # "downstream" /\ pc'[w] = "idle"

FreshClaimIsKept == [][FreshClaimKept]_vars

(* No call, recovery or late worker takes a row back or away.              *)
RowsMoveSoundly == RowsOnlyAdvance /\ FreshClaimIsKept

(* A dispatch abandoned by a dead process, a failed one, one that lost a   *)
(* deadlock: with callers that insist, every routed file is COMPLETED.     *)
EveryFileSettles == \A f \in Routed : <>(dispatch[f].state = "COMPLETED")

(* service.py:137 and security/service.py:83-85: a denial is recorded      *)
(* through Audit before the safe error is returned.                        *)
DenialIsAudited ==
    \A w \in Workers : answer[w].kind = "DENIED" => denialEvents > 0
=============================================================================

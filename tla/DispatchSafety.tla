--------------------------- MODULE DispatchSafety ---------------------------
(***************************************************************************)
(* The types of Dispatch, its inductive invariant and what it gives,       *)
(* for any number of concurrent calls, files, crashes and slow executions. *)
(*                                                                         *)
(* The argument.  A transaction that may write a row holds its lock        *)
(* (LocksInv), so what it read of the row is still there when it commits;  *)
(* what it takes for overdue was overdue (StaleInv).  Identifiers differ   *)
(* (IdentityInv) and a claim raises the attempt count of its row, so that  *)
(* executions of a file carry different attempts (ExecutionInv).  Without  *)
(* an overdue claim, only the execution that owns the claim can end it     *)
(* (OwnerInv), which is why nobody else runs and why its report is true.   *)
(***************************************************************************)
EXTENDS Dispatch, FiniteSetTheorems, TLAPS

USE DispatchConstants

-----------------------------------------------------------------------------
(* Types *)

LEMMA InitType == Init => TypeOK
  BY DEF Init, TypeOK, Row, AbsentRow, Where, Answer, AnswerKind, Say, Budget, RowState

(* What the end of a call does to the types of its locals.                 *)
LEMMA FinishType ==
  ASSUME TypeOK, NEW w \in Workers, NEW a \in Answer, Finish(w, a)
  PROVE  /\ pc' \in [Workers -> Where]
         /\ file' \in [Workers -> Files \cup {NoFile}]
         /\ op' \in [Workers -> Nat]
         /\ attempt' \in [Workers -> Nat]
         /\ result' \in [Workers -> Results \cup {NoResult}]
         /\ seen' \in [Workers -> SUBSET Files]
         /\ recovered' \in [Workers -> SUBSET Files]
         /\ answer' \in [Workers -> Answer]
  BY DEF TypeOK, Finish, Where

LEMMA SayType == \A k \in AnswerKind : Say(k) \in Answer
  BY DEF Say, Answer

LEMMA ReleasedType ==
  ASSUME TypeOK, NEW w \in Workers
  PROVE  Released(w) \in [Files -> Workers \cup {NoWorker}]
  BY DEF TypeOK, Released

LEMMA WithRecoveredType ==
  ASSUME TypeOK, NEW w \in Workers
  PROVE  WithRecovered(w) \in [Files -> Row]
  BY DEF TypeOK, WithRecovered, Row, RowState

LEMMA CloseType ==
  ASSUME TypeOK, NEW w \in Workers, NEW row \in Row, Close(w, row)
  PROVE  dispatch' \in [Files -> Row] /\ overdue' \in SUBSET Files
  BY DEF TypeOK, Close

(* A file under dispatch, wherever the code dereferences it.               *)
FileInHand ==
    \A w \in Workers :
        pc[w] \in {"upsert", "locked", "downstream", "completing", "failing"} =>
            file[w] \in Files

LEMMA TypeStep == TypeOK /\ FileInHand /\ [Next]_vars => TypeOK' /\ FileInHand'
  <1> SUFFICES ASSUME TypeOK, FileInHand, [Next]_vars
               PROVE  TypeOK' /\ FileInHand'
    OBVIOUS
  <1> USE DEF FileInHand
  <1>a. AnswerKind = {"NONE", "SKIPPED", "COMPLETED", "CONFLICT", "DENIED", "RAISED", "DEADLOCK"}
    BY DEF AnswerKind
  <1>1. ASSUME NEW w \in Workers, NEW f \in Files, Begin(w, f)
        PROVE  TypeOK' /\ FileInHand'
    BY <1>1, SayType, <1>a DEF Begin, TypeOK, Where, StaleClaims
  <1>2. ASSUME NEW w \in Workers, NEW f \in Files, Skip(w, f)
        PROVE  TypeOK' /\ FileInHand'
    BY <1>2, SayType, FinishType, <1>a DEF Skip, TypeOK, Finish
  <1>3. ASSUME NEW w \in Workers, NEW f \in Files, RecoverRow(w, f)
        PROVE  TypeOK' /\ FileInHand'
    BY <1>3 DEF RecoverRow, TypeOK
  <1>4. ASSUME NEW w \in Workers, Deny(w)
        PROVE  TypeOK' /\ FileInHand'
    BY <1>4, SayType, <1>a DEF Deny, TypeOK, Where, Budget
  <1>5. ASSUME NEW w \in Workers, StartMaintenance(w)
        PROVE  TypeOK' /\ FileInHand'
    BY <1>5, SayType, <1>a DEF StartMaintenance, TypeOK, Where, StaleClaims
  <1>6. ASSUME NEW w \in Workers, Upsert(w)
        PROVE  TypeOK' /\ FileInHand'
    BY <1>6 DEF Upsert, TypeOK, Where, IdentityOf, Row
  <1>7. ASSUME NEW w \in Workers, LeaveDenied(w)
        PROVE  TypeOK' /\ FileInHand'
    BY <1>7, SayType, FinishType, <1>a DEF LeaveDenied, TypeOK, Finish
  <1>8. ASSUME NEW w \in Workers, ReturnCompleted(w)
        PROVE  TypeOK' /\ FileInHand'
    <2>1. [kind |-> "COMPLETED", file |-> file[w], result |-> dispatch[file[w]].result] \in Answer
      BY <1>8 DEF ReturnCompleted, TypeOK, Row, Answer, AnswerKind
    <2> QED BY <1>8, <2>1, FinishType, ReleasedType DEF ReturnCompleted, TypeOK, Finish
  <1>9. ASSUME NEW w \in Workers, StartRecovery(w)
        PROVE  TypeOK' /\ FileInHand'
    BY <1>9 DEF StartRecovery, TypeOK, Where
  <1>10. ASSUME NEW w \in Workers, Claim(w)
         PROVE  TypeOK' /\ FileInHand'
    <2>1. file[w] \in Files
      BY <1>10 DEF Claim, TypeOK
    <2>2. ClaimedRow(w) \in Row
      BY <2>1 DEF ClaimedRow, TypeOK, Row, RowState, NextAttempt
    <2>4. dispatch' \in [Files -> Row]
      BY <1>10, <2>2, WithRecoveredType DEF Claim
    <2>3. attempt' \in [Workers -> Nat]
      BY <1>10, <2>1 DEF Claim, TypeOK, Row, NextAttempt
    <2> QED BY <1>10, <2>1, <2>3, <2>4, ReleasedType DEF Claim, TypeOK, Where
  <1>11. ASSUME NEW w \in Workers, Conflict(w)
         PROVE  TypeOK' /\ FileInHand'
    BY <1>11, SayType, FinishType, ReleasedType, <1>a DEF Conflict, TypeOK, Finish
  <1>12. ASSUME NEW w \in Workers, CommitMaintenance(w)
         PROVE  TypeOK' /\ FileInHand'
    BY <1>12, SayType, FinishType, ReleasedType, WithRecoveredType, <1>a
       DEF CommitMaintenance, TypeOK, Finish
  <1>13. ASSUME NEW w \in Workers, DeadlockAbort(w)
         PROVE  TypeOK' /\ FileInHand'
    BY <1>13, SayType, FinishType, ReleasedType, <1>a DEF DeadlockAbort, TypeOK, Finish
  <1>14. ASSUME NEW w \in Workers, NEW r \in Results \cup {NoResult}, RunnerReturns(w, r)
         PROVE  TypeOK' /\ FileInHand'
    BY <1>14 DEF RunnerReturns, TypeOK, Where
  <1>15. ASSUME NEW w \in Workers, RunnerRaises(w)
         PROVE  TypeOK' /\ FileInHand'
    BY <1>15 DEF RunnerRaises, TypeOK, Where, Budget
  <1>16. ASSUME NEW w \in Workers, Complete(w)
         PROVE  TypeOK' /\ FileInHand'
    <2>1. file[w] \in Files
      BY <1>16 DEF Complete
    <2>2. [kind |-> "COMPLETED", file |-> file[w], result |-> result[w]] \in Answer
      BY <2>1 DEF TypeOK, Answer, AnswerKind
    <2>a. dispatch[file[w]] \in Row /\ result[w] \in Results \cup {NoResult}
      BY <2>1 DEF TypeOK
    <2>3. [dispatch[file[w]] EXCEPT !.state = "COMPLETED", !.result = result[w]] \in Row
      BY <2>a DEF Row, RowState
    <2>4. dispatch' \in [Files -> Row] /\ overdue' \in SUBSET Files
      BY <1>16, <2>3, CloseType DEF Complete
    <2> QED BY <1>16, <2>2, <2>4, FinishType DEF Complete, TypeOK, Finish
  <1>17. ASSUME NEW w \in Workers, Fail(w)
         PROVE  TypeOK' /\ FileInHand'
    <2>1. file[w] \in Files
      BY <1>17 DEF Fail
    <2>2. [dispatch[file[w]] EXCEPT !.state = "FAILED"] \in Row
      BY <2>1 DEF TypeOK, Row, RowState
    <2>3. dispatch' \in [Files -> Row] /\ overdue' \in SUBSET Files
      BY <1>17, <2>2, CloseType DEF Fail
    <2>4. Say("RAISED") \in Answer
      BY SayType, <1>a
    <2> QED BY <1>17, <2>3, <2>4, FinishType DEF Fail, TypeOK, Finish
  <1>18. ASSUME NEW w \in Workers, Crash(w)
         PROVE  TypeOK' /\ FileInHand'
    <2>1. Say("NONE") \in Answer
      BY SayType, <1>a
    <2>2. budget' \in Budget
      BY <1>18 DEF Crash, TypeOK, Budget
    <2> QED BY <1>18, <2>1, <2>2, FinishType, ReleasedType DEF Crash, TypeOK, Finish
  <1>19. ASSUME NEW f \in Files, Expire(f)
         PROVE  TypeOK' /\ FileInHand'
    BY <1>19 DEF Expire, TypeOK, Budget, calls
  <1>20. CASE UNCHANGED vars
    BY <1>20 DEF vars, calls, TypeOK
  <1> QED
    BY <1>1, <1>2, <1>3, <1>4, <1>5, <1>6, <1>7, <1>8, <1>9, <1>10, <1>11, <1>12, <1>13,
       <1>14, <1>15, <1>16, <1>17, <1>18, <1>19, <1>20
       DEF Next, Step, Runner

(* Type correctness: the values of every row, local and counter keep to    *)
(* the columns of migration 0009 and to the locals of dispatch.            *)
THEOREM TypeCorrect == Spec => []TypeOK
  <1>1. Init => TypeOK /\ FileInHand
    BY InitType DEF Init, FileInHand
  <1> QED BY <1>1, TypeStep, PTL DEF Spec

-----------------------------------------------------------------------------
(* The inductive invariant *)

(* Row locks are held by open transactions only, each over the row it      *)
(* dispatches and the rows it has recovered.                               *)
LocksInv ==
    /\ \A w \in Workers :
          pc[w] \in {"upsert", "locked", "downstream", "completing", "failing"} =>
              file[w] \in Files
    /\ \A w \in Workers : pc[w] = "idle" => file[w] = NoFile
    /\ \A w \in Workers :
          Open(w) /\ file[w] # NoFile => file[w] \in Files /\ lock[file[w]] = w
    /\ \A w \in Workers : \A g \in recovered[w] :
          lock[g] = w /\ pc[w] = "recovering"
    /\ \A f \in Files : lock[f] # NoWorker => Open(lock[f])

(* What an open transaction took for overdue is an IN_PROGRESS row that    *)
(* still is, unless its claim ended meanwhile.                             *)
StaleInv ==
    /\ overdue \subseteq everOverdue
    /\ \A w \in Workers :
          /\ seen[w] \subseteq everOverdue
          /\ recovered[w] \subseteq seen[w]
          /\ \A f \in seen[w] : dispatch[f].state = "IN_PROGRESS" => f \in overdue
          /\ \A f \in recovered[w] : dispatch[f].state = "IN_PROGRESS"

(* Identifiers stored in rows differ, and were all generated before.       *)
StoredIdentityInv ==
    /\ nextOp > 0
    /\ \A f \in Files : dispatch[f].state = "ABSENT" => dispatch[f] = AbsentRow
    /\ \A f \in Files : dispatch[f].state # "ABSENT" => dispatch[f].op \in 1..(nextOp - 1)
    /\ \A f, g \in Files :
          f # g /\ dispatch[f].state # "ABSENT" => dispatch[f].op # dispatch[g].op

(* A transaction that holds its row knows the identity of the row, or has  *)
(* generated one that is nobody else's.                                    *)
HeldIdentityInv ==
    \A w \in Workers : (Open(w) /\ file[w] # NoFile) =>
        /\ op[w] \in 1..(nextOp - 1)
        /\ dispatch[file[w]].state # "ABSENT" => op[w] = dispatch[file[w]].op
        /\ dispatch[file[w]].state = "ABSENT" =>
              /\ \A g \in Files : dispatch[g].op # op[w]
              /\ \A x \in Workers :
                    (x # w /\ Open(x) /\ file[x] # NoFile) => op[x] # op[w]

IdentityInv == StoredIdentityInv /\ HeldIdentityInv

(* An execution in flight knows its row and its own attempt.               *)
ExecutionInv ==
    /\ \A w \in Workers : Executing(w) =>
          /\ dispatch[file[w]].state # "ABSENT"
          /\ op[w] = dispatch[file[w]].op
          /\ attempt[w] \in 1..dispatch[file[w]].attempts
    /\ DistinctAttempts

(* While no claim of a file was ever overdue, an execution in flight is    *)
(* the owner of the claim.                                                 *)
OwnerInv ==
    \A w \in Workers : (Executing(w) /\ file[w] \notin everOverdue) =>
        /\ dispatch[file[w]].state = "IN_PROGRESS"
        /\ attempt[w] = dispatch[file[w]].attempts

ReportInv ==
    \A w \in Workers : answer[w].kind = "COMPLETED" => answer[w].file \in Files

IInv ==
    /\ TypeOK /\ LocksInv /\ StaleInv /\ IdentityInv
    /\ ExecutionInv /\ OwnerInv /\ ReportInv /\ ReportedIsDurable

-----------------------------------------------------------------------------
(* What the statements that write rows do to each of them.                 *)

(* complete and fail: at most the row of the caller moves, from IN_PROGRESS.*)
RowClosedBy(w) ==
    /\ overdue' \subseteq overdue
    /\ dispatch'[file[w]].state # "IN_PROGRESS"
    /\ (pc[w] = "completing" /\ dispatch[file[w]].state = "IN_PROGRESS") =>
          /\ dispatch'[file[w]].state = "COMPLETED"
          /\ dispatch'[file[w]].result = result[w]
    /\ \A f \in Files :
          /\ f # file[w] => dispatch'[f] = dispatch[f] /\ (f \in overdue => f \in overdue')
          /\ dispatch[f].state # "IN_PROGRESS" => dispatch'[f] = dispatch[f]
          /\ dispatch'[f].op = dispatch[f].op
          /\ dispatch'[f].attempts = dispatch[f].attempts
          /\ dispatch[f].state # "ABSENT" => dispatch'[f].state # "ABSENT"

ClosedBy(w) ==
    /\ file[w] \in Files /\ lock[file[w]] = NoWorker
    /\ pc[w] \in {"completing", "failing"}
    /\ Finish(w, IF pc[w] = "completing"
                 THEN [kind |-> "COMPLETED", file |-> file[w], result |-> result[w]]
                 ELSE Say("RAISED"))
    /\ UNCHANGED <<lock, nextOp, everOverdue>>
    /\ RowClosedBy(w)

LEMMA CloseEffect ==
  ASSUME TypeOK, LocksInv, NEW w \in Workers, Complete(w) \/ Fail(w)
  PROVE  ClosedBy(w)
  <1>1. file[w] \in Files
    BY DEF Complete, Fail, LocksInv
  <1>2. dispatch[file[w]] \in Row
    BY <1>1 DEF TypeOK
  <1>3. CASE Complete(w)
    <2> DEFINE row == [dispatch[file[w]] EXCEPT !.state = "COMPLETED", !.result = result[w]]
    <2>1. /\ row.state = "COMPLETED" /\ row.result = result[w]
          /\ row.op = dispatch[file[w]].op /\ row.attempts = dispatch[file[w]].attempts
      BY <1>2 DEF Row
    <2>2. Close(w, row) /\ pc[w] = "completing"
      BY <1>3 DEF Complete
    <2> HIDE DEF row
    <2>3. RowClosedBy(w)
      BY <1>1, <2>1, <2>2 DEF RowClosedBy, Close, Closable, TypeOK
    <2> QED BY <1>1, <1>3, <2>3 DEF ClosedBy, Complete
  <1>4. CASE Fail(w)
    <2> DEFINE row == [dispatch[file[w]] EXCEPT !.state = "FAILED"]
    <2>1. /\ row.state = "FAILED" /\ row.op = dispatch[file[w]].op
          /\ row.attempts = dispatch[file[w]].attempts
      BY <1>2 DEF Row
    <2>2. Close(w, row) /\ pc[w] = "failing"
      BY <1>4 DEF Fail
    <2> HIDE DEF row
    <2>3. RowClosedBy(w)
      BY <1>1, <2>1, <2>2 DEF RowClosedBy, Close, Closable, TypeOK
    <2> QED BY <1>1, <1>4, <2>3 DEF ClosedBy, Fail
  <1> QED BY <1>3, <1>4

(* recover_stale: what it did is to fail rows that are IN_PROGRESS.        *)
RecoveredBy(w) ==
    \A f \in Files :
          /\ WithRecovered(w)[f].op = dispatch[f].op
          /\ WithRecovered(w)[f].attempts = dispatch[f].attempts
          /\ WithRecovered(w)[f].result = dispatch[f].result
          /\ f \notin recovered[w] => WithRecovered(w)[f] = dispatch[f]
          /\ f \in recovered[w] =>
                /\ WithRecovered(w)[f].state = "FAILED"
                /\ dispatch[f].state = "IN_PROGRESS"
                /\ lock[f] = w
                /\ f \in everOverdue

LEMMA RecoveryEffect ==
  ASSUME TypeOK, LocksInv, StaleInv, NEW w \in Workers
  PROVE  RecoveredBy(w)
  BY DEF TypeOK, LocksInv, StaleInv, RecoveredBy, WithRecovered, Row

(* claim: a row that is new, failed or just recovered gets an attempt more *)
(* under the identity the transaction holds.                               *)
ClaimedBy(w) ==
    /\ file[w] \in Files
    /\ lock[file[w]] = w
    /\ dispatch[file[w]].state \in {"ABSENT", "NEW", "FAILED"} \/ file[w] \in recovered[w]
    /\ dispatch'[file[w]].state = "IN_PROGRESS"
    /\ dispatch'[file[w]].op = op[w]
    /\ dispatch'[file[w]].attempts = dispatch[file[w]].attempts + 1
    /\ dispatch[file[w]].state # "ABSENT" => op[w] = dispatch[file[w]].op
    /\ \A f \in Files \ {file[w]} : dispatch'[f] = WithRecovered(w)[f]

LEMMA ClaimEffect ==
  ASSUME TypeOK, LocksInv, StaleInv, IdentityInv, NEW w \in Workers, Claim(w)
  PROVE  ClaimedBy(w)
  <1>1. file[w] \in Files /\ lock[file[w]] = w /\ Open(w) /\ file[w] # NoFile
    BY DEF Claim, LocksInv, Open
  <1>2. dispatch[file[w]].state # "ABSENT" => op[w] = dispatch[file[w]].op
    BY <1>1 DEF IdentityInv, HeldIdentityInv
  <1>3. dispatch[file[w]].state \in {"ABSENT", "NEW", "FAILED"} \/ file[w] \in recovered[w]
    BY <1>1 DEF Claim, Claimable, StateInTx, TypeOK, Row, RowState
  <1>4. ClaimedRow(w).op = op[w]
    BY <1>1, <1>2, <1>3 DEF ClaimedRow, StateInTx, StaleInv
  <1>5. dispatch' = [f \in Files |-> IF f = file[w] THEN ClaimedRow(w) ELSE WithRecovered(w)[f]]
    BY DEF Claim
  <1>6. ClaimedRow(w).state = "IN_PROGRESS" /\ ClaimedRow(w).attempts = dispatch[file[w]].attempts + 1
    BY DEF ClaimedRow, NextAttempt
  <1> QED BY <1>1, <1>2, <1>3, <1>4, <1>5, <1>6 DEF ClaimedBy

-----------------------------------------------------------------------------
(* Each part is preserved by every step *)

LEMMA LocksStep ==
  ASSUME TypeOK, LocksInv, [Next]_vars
  PROVE  LocksInv'
  <1> USE DEF TypeOK, LocksInv, Open, Where
  <1>1. ASSUME NEW w \in Workers, NEW f \in Files, Begin(w, f)
        PROVE  LocksInv'
    BY <1>1 DEF Begin, StaleClaims, Say
  <1>2. ASSUME NEW w \in Workers, NEW f \in Files, Skip(w, f)
        PROVE  LocksInv'
    BY <1>2 DEF Skip, Finish, Say
  <1>3. ASSUME NEW w \in Workers, NEW f \in Files, RecoverRow(w, f)
        PROVE  LocksInv'
    BY <1>3 DEF RecoverRow, Pending
  <1>4. ASSUME NEW w \in Workers, Deny(w)
        PROVE  LocksInv'
    BY <1>4 DEF Deny, Say
  <1>5. ASSUME NEW w \in Workers, StartMaintenance(w)
        PROVE  LocksInv'
    BY <1>5 DEF StartMaintenance, StaleClaims, Say
  <1>6. ASSUME NEW w \in Workers, Upsert(w)
        PROVE  LocksInv'
    BY <1>6 DEF Upsert, IdentityOf
  <1>7. ASSUME NEW w \in Workers, LeaveDenied(w)
        PROVE  LocksInv'
    BY <1>7 DEF LeaveDenied, Finish, Say
  <1>8. ASSUME NEW w \in Workers, ReturnCompleted(w)
        PROVE  LocksInv'
    BY <1>8 DEF ReturnCompleted, Finish, Released, StateInTx
  <1>9. ASSUME NEW w \in Workers, StartRecovery(w)
        PROVE  LocksInv'
    BY <1>9 DEF StartRecovery
  <1>10. ASSUME NEW w \in Workers, Claim(w)
         PROVE  LocksInv'
    BY <1>10 DEF Claim, ClaimedRow, StateInTx, Claimable, Released, NextAttempt
  <1>11. ASSUME NEW w \in Workers, Conflict(w)
         PROVE  LocksInv'
    BY <1>11 DEF Conflict, Finish, Released, Say
  <1>12. ASSUME NEW w \in Workers, CommitMaintenance(w)
         PROVE  LocksInv'
    BY <1>12 DEF CommitMaintenance, Finish, Released, Say
  <1>13. ASSUME NEW w \in Workers, DeadlockAbort(w)
         PROVE  LocksInv'
    BY <1>13 DEF DeadlockAbort, Finish, Released, Say
  <1>14. ASSUME NEW w \in Workers, NEW r \in Results \cup {NoResult}, RunnerReturns(w, r)
         PROVE  LocksInv'
    BY <1>14 DEF RunnerReturns
  <1>15. ASSUME NEW w \in Workers, RunnerRaises(w)
         PROVE  LocksInv'
    BY <1>15 DEF RunnerRaises
  <1>16. ASSUME NEW w \in Workers, Complete(w)
         PROVE  LocksInv'
    <2>1. ClosedBy(w)
      BY <1>16, CloseEffect
    <2> QED BY <2>1 DEF ClosedBy, RowClosedBy, Finish, Say
  <1>17. ASSUME NEW w \in Workers, Fail(w)
         PROVE  LocksInv'
    <2>1. ClosedBy(w)
      BY <1>17, CloseEffect
    <2> QED BY <2>1 DEF ClosedBy, RowClosedBy, Finish, Say
  <1>18. ASSUME NEW w \in Workers, Crash(w)
         PROVE  LocksInv'
    BY <1>18 DEF Crash, Finish, Released, Say
  <1>19. ASSUME NEW f \in Files, Expire(f)
         PROVE  LocksInv'
    BY <1>19 DEF Expire, calls
  <1>20. CASE UNCHANGED vars
    BY <1>20 DEF vars, calls
  <1> QED
    BY <1>1, <1>2, <1>3, <1>4, <1>5, <1>6, <1>7, <1>8, <1>9, <1>10, <1>11, <1>12, <1>13,
       <1>14, <1>15, <1>16, <1>17, <1>18, <1>19, <1>20
       DEF Next, Step, Runner

LEMMA StaleStep ==
  ASSUME TypeOK, LocksInv, StaleInv, IdentityInv, [Next]_vars
  PROVE  StaleInv'
  <1> USE DEF TypeOK, LocksInv, StaleInv, Open, Where
  <1>1. ASSUME NEW w \in Workers, NEW f \in Files, Begin(w, f)
        PROVE  StaleInv'
    BY <1>1 DEF Begin, StaleClaims, Say
  <1>2. ASSUME NEW w \in Workers, NEW f \in Files, Skip(w, f)
        PROVE  StaleInv'
    BY <1>2 DEF Skip, Finish, Say
  <1>3. ASSUME NEW w \in Workers, NEW f \in Files, RecoverRow(w, f)
        PROVE  StaleInv'
    BY <1>3 DEF RecoverRow, Pending
  <1>4. ASSUME NEW w \in Workers, Deny(w)
        PROVE  StaleInv'
    BY <1>4 DEF Deny, Say
  <1>5. ASSUME NEW w \in Workers, StartMaintenance(w)
        PROVE  StaleInv'
    BY <1>5 DEF StartMaintenance, StaleClaims, Say
  <1>6. ASSUME NEW w \in Workers, Upsert(w)
        PROVE  StaleInv'
    BY <1>6 DEF Upsert, IdentityOf
  <1>7. ASSUME NEW w \in Workers, LeaveDenied(w)
        PROVE  StaleInv'
    BY <1>7 DEF LeaveDenied, Finish, Say
  <1>8. ASSUME NEW w \in Workers, ReturnCompleted(w)
        PROVE  StaleInv'
    BY <1>8 DEF ReturnCompleted, Finish, Released, StateInTx
  <1>9. ASSUME NEW w \in Workers, StartRecovery(w)
        PROVE  StaleInv'
    BY <1>9 DEF StartRecovery
  <1>10. ASSUME NEW w \in Workers, Claim(w)
         PROVE  StaleInv'
    <2>1. ClaimedBy(w)
      BY <1>10, ClaimEffect
    <2>2. RecoveredBy(w)
      BY <1>10, RecoveryEffect
    <2> QED BY <1>10, <2>1, <2>2 DEF ClaimedBy, RecoveredBy, Claim, Released, NextAttempt
  <1>11. ASSUME NEW w \in Workers, Conflict(w)
         PROVE  StaleInv'
    BY <1>11 DEF Conflict, Finish, Released, Say
  <1>12. ASSUME NEW w \in Workers, CommitMaintenance(w)
         PROVE  StaleInv'
    <2>1. RecoveredBy(w)
      BY <1>12, RecoveryEffect
    <2> QED BY <1>12, <2>1 DEF RecoveredBy, CommitMaintenance, Finish, Released, Say
  <1>13. ASSUME NEW w \in Workers, DeadlockAbort(w)
         PROVE  StaleInv'
    BY <1>13 DEF DeadlockAbort, Finish, Released, Say
  <1>14. ASSUME NEW w \in Workers, NEW r \in Results \cup {NoResult}, RunnerReturns(w, r)
         PROVE  StaleInv'
    BY <1>14 DEF RunnerReturns
  <1>15. ASSUME NEW w \in Workers, RunnerRaises(w)
         PROVE  StaleInv'
    BY <1>15 DEF RunnerRaises
  <1>16. ASSUME NEW w \in Workers, Complete(w)
         PROVE  StaleInv'
    <2>1. ClosedBy(w)
      BY <1>16, CloseEffect
    <2>2. \A x \in Workers, f \in Files :
             /\ f \in recovered[x] => f # file[w]
             /\ dispatch'[f].state = "IN_PROGRESS" => f # file[w]
      BY <2>1 DEF ClosedBy, RowClosedBy
    <2>3. /\ overdue' \subseteq overdue
          /\ \A f \in Files : f # file[w] => dispatch'[f] = dispatch[f] /\ (f \in overdue => f \in overdue')
      BY <2>1 DEF ClosedBy, RowClosedBy
    <2>4. /\ everOverdue' = everOverdue
          /\ \A x \in Workers :
                /\ seen'[x] = IF x = w THEN {} ELSE seen[x]
                /\ recovered'[x] = IF x = w THEN {} ELSE recovered[x]
      BY <2>1 DEF ClosedBy, Finish
    <2> QED BY <2>2, <2>3, <2>4
  <1>17. ASSUME NEW w \in Workers, Fail(w)
         PROVE  StaleInv'
    <2>1. ClosedBy(w)
      BY <1>17, CloseEffect
    <2>2. \A x \in Workers, f \in Files :
             /\ f \in recovered[x] => f # file[w]
             /\ dispatch'[f].state = "IN_PROGRESS" => f # file[w]
      BY <2>1 DEF ClosedBy, RowClosedBy
    <2>3. /\ overdue' \subseteq overdue
          /\ \A f \in Files : f # file[w] => dispatch'[f] = dispatch[f] /\ (f \in overdue => f \in overdue')
      BY <2>1 DEF ClosedBy, RowClosedBy
    <2>4. /\ everOverdue' = everOverdue
          /\ \A x \in Workers :
                /\ seen'[x] = IF x = w THEN {} ELSE seen[x]
                /\ recovered'[x] = IF x = w THEN {} ELSE recovered[x]
      BY <2>1 DEF ClosedBy, Finish
    <2> QED BY <2>2, <2>3, <2>4
  <1>18. ASSUME NEW w \in Workers, Crash(w)
         PROVE  StaleInv'
    BY <1>18 DEF Crash, Finish, Released, Say
  <1>19. ASSUME NEW f \in Files, Expire(f)
         PROVE  StaleInv'
    BY <1>19 DEF Expire, calls
  <1>20. CASE UNCHANGED vars
    BY <1>20 DEF vars, calls
  <1> QED
    BY <1>1, <1>2, <1>3, <1>4, <1>5, <1>6, <1>7, <1>8, <1>9, <1>10, <1>11, <1>12, <1>13,
       <1>14, <1>15, <1>16, <1>17, <1>18, <1>19, <1>20
       DEF Next, Step, Runner

LEMMA StoredStep ==
  ASSUME TypeOK, LocksInv, StaleInv, IdentityInv, [Next]_vars
  PROVE  StoredIdentityInv'
  <1> USE DEF IdentityInv, StoredIdentityInv
  <1>1. ASSUME NEW w \in Workers, NEW f \in Files, Begin(w, f)
        PROVE  StoredIdentityInv'
    BY <1>1 DEF Begin, StaleClaims, Say
  <1>2. ASSUME NEW w \in Workers, NEW f \in Files, Skip(w, f)
        PROVE  StoredIdentityInv'
    BY <1>2 DEF Skip, Finish, Say
  <1>3. ASSUME NEW w \in Workers, NEW f \in Files, RecoverRow(w, f)
        PROVE  StoredIdentityInv'
    BY <1>3 DEF RecoverRow, Pending
  <1>4. ASSUME NEW w \in Workers, Deny(w)
        PROVE  StoredIdentityInv'
    BY <1>4 DEF Deny, Say
  <1>5. ASSUME NEW w \in Workers, StartMaintenance(w)
        PROVE  StoredIdentityInv'
    BY <1>5 DEF StartMaintenance, StaleClaims, Say
  <1>6. ASSUME NEW w \in Workers, Upsert(w)
        PROVE  StoredIdentityInv'
    <2>1. nextOp \in Nat /\ nextOp' \in {nextOp, nextOp + 1} /\ dispatch' = dispatch
      BY <1>6 DEF Upsert, TypeOK
    <2> QED BY <2>1
  <1>7. ASSUME NEW w \in Workers, LeaveDenied(w)
        PROVE  StoredIdentityInv'
    BY <1>7 DEF LeaveDenied, Finish, Say
  <1>8. ASSUME NEW w \in Workers, ReturnCompleted(w)
        PROVE  StoredIdentityInv'
    BY <1>8 DEF ReturnCompleted, Finish, Released, StateInTx
  <1>9. ASSUME NEW w \in Workers, StartRecovery(w)
        PROVE  StoredIdentityInv'
    BY <1>9 DEF StartRecovery
  <1>10. ASSUME NEW w \in Workers, Claim(w)
         PROVE  StoredIdentityInv'
    <2>1. ClaimedBy(w)
      BY <1>10, ClaimEffect
    <2>2. RecoveredBy(w)
      BY RecoveryEffect
    <2>3. nextOp' = nextOp
      BY <1>10 DEF Claim
    <2>4. \A f \in Files \ {file[w]} :
             /\ dispatch'[f].op = dispatch[f].op
             /\ dispatch'[f].state = "ABSENT" => dispatch'[f] = dispatch[f]
             /\ dispatch[f].state = "ABSENT" => dispatch'[f] = dispatch[f]
      BY <2>1, <2>2 DEF ClaimedBy, RecoveredBy
    <2>5. /\ file[w] \in Files /\ dispatch'[file[w]].state = "IN_PROGRESS"
          /\ dispatch'[file[w]].op = op[w] /\ op[w] \in 1..(nextOp - 1)
          /\ \A f \in Files : dispatch[f].op = op[w] => f = file[w]
      BY <2>1, <1>10 DEF ClaimedBy, HeldIdentityInv, Claim, Open, LocksInv
    <2> QED BY <2>3, <2>4, <2>5
  <1>11. ASSUME NEW w \in Workers, Conflict(w)
         PROVE  StoredIdentityInv'
    BY <1>11 DEF Conflict, Finish, Released, Say
  <1>12. ASSUME NEW w \in Workers, CommitMaintenance(w)
         PROVE  StoredIdentityInv'
    <2>1. RecoveredBy(w)
      BY <1>12, RecoveryEffect
    <2>2. dispatch' = WithRecovered(w) /\ nextOp' = nextOp
      BY <1>12 DEF CommitMaintenance
    <2>3. \A f \in Files :
             /\ dispatch'[f].op = dispatch[f].op
             /\ dispatch'[f].state = "ABSENT" => dispatch'[f] = dispatch[f]
             /\ dispatch[f].state = "ABSENT" => dispatch'[f] = dispatch[f]
      BY <2>1, <2>2 DEF RecoveredBy
    <2> QED BY <2>2, <2>3
  <1>13. ASSUME NEW w \in Workers, DeadlockAbort(w)
         PROVE  StoredIdentityInv'
    BY <1>13 DEF DeadlockAbort, Finish, Released, Say
  <1>14. ASSUME NEW w \in Workers, NEW r \in Results \cup {NoResult}, RunnerReturns(w, r)
         PROVE  StoredIdentityInv'
    BY <1>14 DEF RunnerReturns
  <1>15. ASSUME NEW w \in Workers, RunnerRaises(w)
         PROVE  StoredIdentityInv'
    BY <1>15 DEF RunnerRaises
  <1>16. ASSUME NEW w \in Workers, Complete(w)
         PROVE  StoredIdentityInv'
    <2>1. ClosedBy(w)
      BY <1>16, CloseEffect
    <2>2. nextOp' = nextOp
      BY <2>1 DEF ClosedBy
    <2>3. \A f \in Files :
             /\ dispatch'[f].op = dispatch[f].op
             /\ dispatch'[f].state = "ABSENT" => dispatch'[f] = dispatch[f]
             /\ dispatch[f].state = "ABSENT" => dispatch'[f] = dispatch[f]
      BY <2>1 DEF ClosedBy, RowClosedBy
    <2> QED BY <2>2, <2>3
  <1>17. ASSUME NEW w \in Workers, Fail(w)
         PROVE  StoredIdentityInv'
    <2>1. ClosedBy(w)
      BY <1>17, CloseEffect
    <2>2. nextOp' = nextOp
      BY <2>1 DEF ClosedBy
    <2>3. \A f \in Files :
             /\ dispatch'[f].op = dispatch[f].op
             /\ dispatch'[f].state = "ABSENT" => dispatch'[f] = dispatch[f]
             /\ dispatch[f].state = "ABSENT" => dispatch'[f] = dispatch[f]
      BY <2>1 DEF ClosedBy, RowClosedBy
    <2> QED BY <2>2, <2>3
  <1>18. ASSUME NEW w \in Workers, Crash(w)
         PROVE  StoredIdentityInv'
    BY <1>18 DEF Crash, Finish, Released, Say
  <1>19. ASSUME NEW f \in Files, Expire(f)
         PROVE  StoredIdentityInv'
    BY <1>19 DEF Expire, calls
  <1>20. CASE UNCHANGED vars
    BY <1>20 DEF vars, calls
  <1> QED
    BY <1>1, <1>2, <1>3, <1>4, <1>5, <1>6, <1>7, <1>8, <1>9, <1>10, <1>11, <1>12, <1>13,
       <1>14, <1>15, <1>16, <1>17, <1>18, <1>19, <1>20
       DEF Next, Step, Runner

LEMMA HeldStep ==
  ASSUME TypeOK, LocksInv, StaleInv, IdentityInv, [Next]_vars
  PROVE  HeldIdentityInv'
  <1> USE DEF TypeOK, LocksInv, StaleInv, IdentityInv, StoredIdentityInv, HeldIdentityInv, Open, Where, Row, AbsentRow
  <1>1. ASSUME NEW w \in Workers, NEW f \in Files, Begin(w, f)
        PROVE  HeldIdentityInv'
    BY <1>1 DEF Begin, StaleClaims, Say
  <1>2. ASSUME NEW w \in Workers, NEW f \in Files, Skip(w, f)
        PROVE  HeldIdentityInv'
    BY <1>2 DEF Skip, Finish, Say
  <1>3. ASSUME NEW w \in Workers, NEW f \in Files, RecoverRow(w, f)
        PROVE  HeldIdentityInv'
    BY <1>3 DEF RecoverRow, Pending
  <1>4. ASSUME NEW w \in Workers, Deny(w)
        PROVE  HeldIdentityInv'
    BY <1>4 DEF Deny, Say
  <1>5. ASSUME NEW w \in Workers, StartMaintenance(w)
        PROVE  HeldIdentityInv'
    BY <1>5 DEF StartMaintenance, StaleClaims, Say
  <1>6. ASSUME NEW w \in Workers, Upsert(w)
        PROVE  HeldIdentityInv'
    BY <1>6 DEF Upsert, IdentityOf
  <1>7. ASSUME NEW w \in Workers, LeaveDenied(w)
        PROVE  HeldIdentityInv'
    BY <1>7 DEF LeaveDenied, Finish, Say
  <1>8. ASSUME NEW w \in Workers, ReturnCompleted(w)
        PROVE  HeldIdentityInv'
    BY <1>8 DEF ReturnCompleted, Finish, Released, StateInTx
  <1>9. ASSUME NEW w \in Workers, StartRecovery(w)
        PROVE  HeldIdentityInv'
    BY <1>9 DEF StartRecovery
  <1>10. ASSUME NEW w \in Workers, Claim(w)
         PROVE  HeldIdentityInv'
    <2>1. ClaimedBy(w)
      BY <1>10, ClaimEffect
    <2>2. RecoveredBy(w)
      BY <1>10, RecoveryEffect
    <2> QED BY <1>10, <2>1, <2>2 DEF ClaimedBy, RecoveredBy, Claim, Released, NextAttempt
  <1>11. ASSUME NEW w \in Workers, Conflict(w)
         PROVE  HeldIdentityInv'
    BY <1>11 DEF Conflict, Finish, Released, Say
  <1>12. ASSUME NEW w \in Workers, CommitMaintenance(w)
         PROVE  HeldIdentityInv'
    <2>1. RecoveredBy(w)
      BY <1>12, RecoveryEffect
    <2> QED BY <1>12, <2>1 DEF RecoveredBy, CommitMaintenance, Finish, Released, Say
  <1>13. ASSUME NEW w \in Workers, DeadlockAbort(w)
         PROVE  HeldIdentityInv'
    BY <1>13 DEF DeadlockAbort, Finish, Released, Say
  <1>14. ASSUME NEW w \in Workers, NEW r \in Results \cup {NoResult}, RunnerReturns(w, r)
         PROVE  HeldIdentityInv'
    BY <1>14 DEF RunnerReturns
  <1>15. ASSUME NEW w \in Workers, RunnerRaises(w)
         PROVE  HeldIdentityInv'
    BY <1>15 DEF RunnerRaises
  <1>16. ASSUME NEW w \in Workers, Complete(w)
         PROVE  HeldIdentityInv'
    <2>1. ClosedBy(w)
      BY <1>16, CloseEffect
    <2> QED BY <2>1 DEF ClosedBy, RowClosedBy, Finish, Say
  <1>17. ASSUME NEW w \in Workers, Fail(w)
         PROVE  HeldIdentityInv'
    <2>1. ClosedBy(w)
      BY <1>17, CloseEffect
    <2> QED BY <2>1 DEF ClosedBy, RowClosedBy, Finish, Say
  <1>18. ASSUME NEW w \in Workers, Crash(w)
         PROVE  HeldIdentityInv'
    BY <1>18 DEF Crash, Finish, Released, Say
  <1>19. ASSUME NEW f \in Files, Expire(f)
         PROVE  HeldIdentityInv'
    BY <1>19 DEF Expire, calls
  <1>20. CASE UNCHANGED vars
    BY <1>20 DEF vars, calls
  <1> QED
    BY <1>1, <1>2, <1>3, <1>4, <1>5, <1>6, <1>7, <1>8, <1>9, <1>10, <1>11, <1>12, <1>13,
       <1>14, <1>15, <1>16, <1>17, <1>18, <1>19, <1>20
       DEF Next, Step, Runner

LEMMA ExecutionStep ==
  ASSUME TypeOK, LocksInv, StaleInv, IdentityInv, ExecutionInv, [Next]_vars
  PROVE  ExecutionInv'
  <1> USE DEF TypeOK, LocksInv, StaleInv, IdentityInv, StoredIdentityInv, ExecutionInv, DistinctAttempts, Executing, Open, Where, Row, AbsentRow
  <1>1. ASSUME NEW w \in Workers, NEW f \in Files, Begin(w, f)
        PROVE  ExecutionInv'
    BY <1>1 DEF Begin, StaleClaims, Say
  <1>2. ASSUME NEW w \in Workers, NEW f \in Files, Skip(w, f)
        PROVE  ExecutionInv'
    BY <1>2 DEF Skip, Finish, Say
  <1>3. ASSUME NEW w \in Workers, NEW f \in Files, RecoverRow(w, f)
        PROVE  ExecutionInv'
    BY <1>3 DEF RecoverRow, Pending
  <1>4. ASSUME NEW w \in Workers, Deny(w)
        PROVE  ExecutionInv'
    BY <1>4 DEF Deny, Say
  <1>5. ASSUME NEW w \in Workers, StartMaintenance(w)
        PROVE  ExecutionInv'
    BY <1>5 DEF StartMaintenance, StaleClaims, Say
  <1>6. ASSUME NEW w \in Workers, Upsert(w)
        PROVE  ExecutionInv'
    BY <1>6 DEF Upsert, IdentityOf
  <1>7. ASSUME NEW w \in Workers, LeaveDenied(w)
        PROVE  ExecutionInv'
    BY <1>7 DEF LeaveDenied, Finish, Say
  <1>8. ASSUME NEW w \in Workers, ReturnCompleted(w)
        PROVE  ExecutionInv'
    BY <1>8 DEF ReturnCompleted, Finish, Released, StateInTx
  <1>9. ASSUME NEW w \in Workers, StartRecovery(w)
        PROVE  ExecutionInv'
    BY <1>9 DEF StartRecovery
  <1>10. ASSUME NEW w \in Workers, Claim(w)
         PROVE  ExecutionInv'
    <2>1. ClaimedBy(w)
      BY <1>10, ClaimEffect
    <2>2. RecoveredBy(w)
      BY <1>10, RecoveryEffect
    <2> QED BY <1>10, <2>1, <2>2 DEF ClaimedBy, RecoveredBy, Claim, Released, NextAttempt
  <1>11. ASSUME NEW w \in Workers, Conflict(w)
         PROVE  ExecutionInv'
    BY <1>11 DEF Conflict, Finish, Released, Say
  <1>12. ASSUME NEW w \in Workers, CommitMaintenance(w)
         PROVE  ExecutionInv'
    <2>1. RecoveredBy(w)
      BY <1>12, RecoveryEffect
    <2> QED BY <1>12, <2>1 DEF RecoveredBy, CommitMaintenance, Finish, Released, Say
  <1>13. ASSUME NEW w \in Workers, DeadlockAbort(w)
         PROVE  ExecutionInv'
    BY <1>13 DEF DeadlockAbort, Finish, Released, Say
  <1>14. ASSUME NEW w \in Workers, NEW r \in Results \cup {NoResult}, RunnerReturns(w, r)
         PROVE  ExecutionInv'
    BY <1>14 DEF RunnerReturns
  <1>15. ASSUME NEW w \in Workers, RunnerRaises(w)
         PROVE  ExecutionInv'
    BY <1>15 DEF RunnerRaises
  <1>16. ASSUME NEW w \in Workers, Complete(w)
         PROVE  ExecutionInv'
    <2>1. ClosedBy(w)
      BY <1>16, CloseEffect
    <2> QED BY <2>1 DEF ClosedBy, RowClosedBy, Finish, Say
  <1>17. ASSUME NEW w \in Workers, Fail(w)
         PROVE  ExecutionInv'
    <2>1. ClosedBy(w)
      BY <1>17, CloseEffect
    <2> QED BY <2>1 DEF ClosedBy, RowClosedBy, Finish, Say
  <1>18. ASSUME NEW w \in Workers, Crash(w)
         PROVE  ExecutionInv'
    BY <1>18 DEF Crash, Finish, Released, Say
  <1>19. ASSUME NEW f \in Files, Expire(f)
         PROVE  ExecutionInv'
    BY <1>19 DEF Expire, calls
  <1>20. CASE UNCHANGED vars
    BY <1>20 DEF vars, calls
  <1> QED
    BY <1>1, <1>2, <1>3, <1>4, <1>5, <1>6, <1>7, <1>8, <1>9, <1>10, <1>11, <1>12, <1>13,
       <1>14, <1>15, <1>16, <1>17, <1>18, <1>19, <1>20
       DEF Next, Step, Runner

(* Closing a claim leaves the other executions as they were: while no claim *)
(* of the file was overdue there is no other execution of it.              *)
LEMMA CloseOwner ==
  ASSUME TypeOK, LocksInv, ExecutionInv, OwnerInv, NEW w \in Workers, ClosedBy(w)
  PROVE  OwnerInv'
  <1> SUFFICES ASSUME NEW x \in Workers, Executing(x)', file'[x] \notin everOverdue'
               PROVE  /\ dispatch'[file'[x]].state = "IN_PROGRESS"
                      /\ attempt'[x] = dispatch'[file'[x]].attempts
    BY DEF OwnerInv
  <1>1. x # w /\ Executing(x) /\ file'[x] = file[x] /\ attempt'[x] = attempt[x]
    BY DEF ClosedBy, Finish, TypeOK, Executing
  <1>2. file[x] \in Files /\ file[x] \notin everOverdue
    BY <1>1 DEF ClosedBy, LocksInv, Executing
  <1>3. dispatch[file[x]].state = "IN_PROGRESS" /\ attempt[x] = dispatch[file[x]].attempts
    BY <1>1, <1>2 DEF OwnerInv
  <1>4. CASE file[x] = file[w]
    <2>1. Executing(w) /\ attempt[w] = dispatch[file[w]].attempts
      BY <1>2, <1>4 DEF ClosedBy, Executing, OwnerInv
    <2> QED BY <1>1, <1>3, <1>4, <2>1 DEF ExecutionInv, DistinctAttempts
  <1>5. CASE file[x] # file[w]
    <2>1. dispatch'[file[x]] = dispatch[file[x]]
      BY <1>2, <1>5 DEF ClosedBy, RowClosedBy
    <2> QED BY <1>1, <1>3, <2>1
  <1> QED BY <1>4, <1>5

LEMMA OwnerStep ==
  ASSUME TypeOK, LocksInv, StaleInv, IdentityInv, ExecutionInv, OwnerInv, [Next]_vars
  PROVE  OwnerInv'
  <1> USE DEF TypeOK, LocksInv, StaleInv, ExecutionInv, OwnerInv, DistinctAttempts, Executing, Open, Where, Row
  <1>1. ASSUME NEW w \in Workers, NEW f \in Files, Begin(w, f)
        PROVE  OwnerInv'
    BY <1>1 DEF Begin, StaleClaims, Say
  <1>2. ASSUME NEW w \in Workers, NEW f \in Files, Skip(w, f)
        PROVE  OwnerInv'
    BY <1>2 DEF Skip, Finish, Say
  <1>3. ASSUME NEW w \in Workers, NEW f \in Files, RecoverRow(w, f)
        PROVE  OwnerInv'
    BY <1>3 DEF RecoverRow, Pending
  <1>4. ASSUME NEW w \in Workers, Deny(w)
        PROVE  OwnerInv'
    BY <1>4 DEF Deny, Say
  <1>5. ASSUME NEW w \in Workers, StartMaintenance(w)
        PROVE  OwnerInv'
    BY <1>5 DEF StartMaintenance, StaleClaims, Say
  <1>6. ASSUME NEW w \in Workers, Upsert(w)
        PROVE  OwnerInv'
    BY <1>6 DEF Upsert, IdentityOf
  <1>7. ASSUME NEW w \in Workers, LeaveDenied(w)
        PROVE  OwnerInv'
    BY <1>7 DEF LeaveDenied, Finish, Say
  <1>8. ASSUME NEW w \in Workers, ReturnCompleted(w)
        PROVE  OwnerInv'
    BY <1>8 DEF ReturnCompleted, Finish, Released, StateInTx
  <1>9. ASSUME NEW w \in Workers, StartRecovery(w)
        PROVE  OwnerInv'
    BY <1>9 DEF StartRecovery
  <1>10. ASSUME NEW w \in Workers, Claim(w)
         PROVE  OwnerInv'
    <2>1. ClaimedBy(w)
      BY <1>10, ClaimEffect
    <2>2. RecoveredBy(w)
      BY <1>10, RecoveryEffect
    <2> QED BY <1>10, <2>1, <2>2 DEF ClaimedBy, RecoveredBy, Claim, Released, NextAttempt
  <1>11. ASSUME NEW w \in Workers, Conflict(w)
         PROVE  OwnerInv'
    BY <1>11 DEF Conflict, Finish, Released, Say
  <1>12. ASSUME NEW w \in Workers, CommitMaintenance(w)
         PROVE  OwnerInv'
    <2>1. RecoveredBy(w)
      BY <1>12, RecoveryEffect
    <2> QED BY <1>12, <2>1 DEF RecoveredBy, CommitMaintenance, Finish, Released, Say
  <1>13. ASSUME NEW w \in Workers, DeadlockAbort(w)
         PROVE  OwnerInv'
    BY <1>13 DEF DeadlockAbort, Finish, Released, Say
  <1>14. ASSUME NEW w \in Workers, NEW r \in Results \cup {NoResult}, RunnerReturns(w, r)
         PROVE  OwnerInv'
    BY <1>14 DEF RunnerReturns
  <1>15. ASSUME NEW w \in Workers, RunnerRaises(w)
         PROVE  OwnerInv'
    BY <1>15 DEF RunnerRaises
  <1>16. ASSUME NEW w \in Workers, Complete(w)
         PROVE  OwnerInv'
    <2>1. ClosedBy(w)
      BY <1>16, CloseEffect
    <2> QED BY <2>1, CloseOwner
  <1>17. ASSUME NEW w \in Workers, Fail(w)
         PROVE  OwnerInv'
    <2>1. ClosedBy(w)
      BY <1>17, CloseEffect
    <2> QED BY <2>1, CloseOwner
  <1>18. ASSUME NEW w \in Workers, Crash(w)
         PROVE  OwnerInv'
    BY <1>18 DEF Crash, Finish, Released, Say
  <1>19. ASSUME NEW f \in Files, Expire(f)
         PROVE  OwnerInv'
    BY <1>19 DEF Expire, calls
  <1>20. CASE UNCHANGED vars
    BY <1>20 DEF vars, calls
  <1> QED
    BY <1>1, <1>2, <1>3, <1>4, <1>5, <1>6, <1>7, <1>8, <1>9, <1>10, <1>11, <1>12, <1>13,
       <1>14, <1>15, <1>16, <1>17, <1>18, <1>19, <1>20
       DEF Next, Step, Runner

LEMMA ReportStep ==
  ASSUME TypeOK, LocksInv, StaleInv, IdentityInv, OwnerInv, ReportInv, ReportedIsDurable, [Next]_vars
  PROVE  ReportInv' /\ ReportedIsDurable'
  <1> USE DEF TypeOK, LocksInv, StaleInv, OwnerInv, ReportInv, ReportedIsDurable, Executing, Open, Where, Row
  <1>1. ASSUME NEW w \in Workers, NEW f \in Files, Begin(w, f)
        PROVE  ReportInv' /\ ReportedIsDurable'
    BY <1>1 DEF Begin, StaleClaims, Say
  <1>2. ASSUME NEW w \in Workers, NEW f \in Files, Skip(w, f)
        PROVE  ReportInv' /\ ReportedIsDurable'
    BY <1>2 DEF Skip, Finish, Say
  <1>3. ASSUME NEW w \in Workers, NEW f \in Files, RecoverRow(w, f)
        PROVE  ReportInv' /\ ReportedIsDurable'
    BY <1>3 DEF RecoverRow, Pending
  <1>4. ASSUME NEW w \in Workers, Deny(w)
        PROVE  ReportInv' /\ ReportedIsDurable'
    BY <1>4 DEF Deny, Say
  <1>5. ASSUME NEW w \in Workers, StartMaintenance(w)
        PROVE  ReportInv' /\ ReportedIsDurable'
    BY <1>5 DEF StartMaintenance, StaleClaims, Say
  <1>6. ASSUME NEW w \in Workers, Upsert(w)
        PROVE  ReportInv' /\ ReportedIsDurable'
    BY <1>6 DEF Upsert, IdentityOf
  <1>7. ASSUME NEW w \in Workers, LeaveDenied(w)
        PROVE  ReportInv' /\ ReportedIsDurable'
    BY <1>7 DEF LeaveDenied, Finish, Say
  <1>8. ASSUME NEW w \in Workers, ReturnCompleted(w)
        PROVE  ReportInv' /\ ReportedIsDurable'
    BY <1>8 DEF ReturnCompleted, Finish, Released, StateInTx
  <1>9. ASSUME NEW w \in Workers, StartRecovery(w)
        PROVE  ReportInv' /\ ReportedIsDurable'
    BY <1>9 DEF StartRecovery
  <1>10. ASSUME NEW w \in Workers, Claim(w)
         PROVE  ReportInv' /\ ReportedIsDurable'
    <2>1. ClaimedBy(w)
      BY <1>10, ClaimEffect
    <2>2. RecoveredBy(w)
      BY <1>10, RecoveryEffect
    <2> QED BY <1>10, <2>1, <2>2 DEF ClaimedBy, RecoveredBy, Claim, Released, NextAttempt
  <1>11. ASSUME NEW w \in Workers, Conflict(w)
         PROVE  ReportInv' /\ ReportedIsDurable'
    BY <1>11 DEF Conflict, Finish, Released, Say
  <1>12. ASSUME NEW w \in Workers, CommitMaintenance(w)
         PROVE  ReportInv' /\ ReportedIsDurable'
    <2>1. RecoveredBy(w)
      BY <1>12, RecoveryEffect
    <2> QED BY <1>12, <2>1 DEF RecoveredBy, CommitMaintenance, Finish, Released, Say
  <1>13. ASSUME NEW w \in Workers, DeadlockAbort(w)
         PROVE  ReportInv' /\ ReportedIsDurable'
    BY <1>13 DEF DeadlockAbort, Finish, Released, Say
  <1>14. ASSUME NEW w \in Workers, NEW r \in Results \cup {NoResult}, RunnerReturns(w, r)
         PROVE  ReportInv' /\ ReportedIsDurable'
    BY <1>14 DEF RunnerReturns
  <1>15. ASSUME NEW w \in Workers, RunnerRaises(w)
         PROVE  ReportInv' /\ ReportedIsDurable'
    BY <1>15 DEF RunnerRaises
  <1>16. ASSUME NEW w \in Workers, Complete(w)
         PROVE  ReportInv' /\ ReportedIsDurable'
    <2>1. ClosedBy(w)
      BY <1>16, CloseEffect
    <2> QED BY <2>1 DEF ClosedBy, RowClosedBy, Finish, Say
  <1>17. ASSUME NEW w \in Workers, Fail(w)
         PROVE  ReportInv' /\ ReportedIsDurable'
    <2>1. ClosedBy(w)
      BY <1>17, CloseEffect
    <2> QED BY <2>1 DEF ClosedBy, RowClosedBy, Finish, Say
  <1>18. ASSUME NEW w \in Workers, Crash(w)
         PROVE  ReportInv' /\ ReportedIsDurable'
    BY <1>18 DEF Crash, Finish, Released, Say
  <1>19. ASSUME NEW f \in Files, Expire(f)
         PROVE  ReportInv' /\ ReportedIsDurable'
    BY <1>19 DEF Expire, calls
  <1>20. CASE UNCHANGED vars
    BY <1>20 DEF vars, calls
  <1> QED
    BY <1>1, <1>2, <1>3, <1>4, <1>5, <1>6, <1>7, <1>8, <1>9, <1>10, <1>11, <1>12, <1>13,
       <1>14, <1>15, <1>16, <1>17, <1>18, <1>19, <1>20
       DEF Next, Step, Runner

-----------------------------------------------------------------------------
(* The theorems *)

LEMMA InitInv == Init => IInv
  <1> SUFFICES ASSUME Init PROVE IInv
    OBVIOUS
  <1>1. TypeOK
    BY InitType
  <1>2. LocksInv /\ StaleInv
    BY DEF Init, LocksInv, StaleInv, Open
  <1>3. IdentityInv
    BY DEF Init, IdentityInv, StoredIdentityInv, HeldIdentityInv, Open, AbsentRow
  <1>4. ExecutionInv /\ OwnerInv
    BY DEF Init, ExecutionInv, OwnerInv, DistinctAttempts, Executing
  <1>5. ReportInv /\ ReportedIsDurable
    BY DEF Init, ReportInv, ReportedIsDurable, Say
  <1> QED BY <1>1, <1>2, <1>3, <1>4, <1>5 DEF IInv

LEMMA NextInv == IInv /\ [Next]_vars => IInv'
  <1> SUFFICES ASSUME IInv, [Next]_vars PROVE IInv'
    OBVIOUS
  <1>1. /\ TypeOK /\ LocksInv /\ StaleInv /\ IdentityInv
        /\ ExecutionInv /\ OwnerInv /\ ReportInv /\ ReportedIsDurable
    BY DEF IInv
  <1>2. FileInHand
    BY <1>1 DEF LocksInv, FileInHand
  <1>3. TypeOK'
    BY <1>1, <1>2, TypeStep
  <1>4. LocksInv'
    BY <1>1, LocksStep
  <1>5. StaleInv'
    BY <1>1, StaleStep
  <1>6. IdentityInv'
    BY <1>1, StoredStep, HeldStep DEF IdentityInv
  <1>7. ExecutionInv'
    BY <1>1, ExecutionStep
  <1>8. OwnerInv'
    BY <1>1, OwnerStep
  <1>9. ReportInv' /\ ReportedIsDurable'
    BY <1>1, ReportStep
  <1> QED BY <1>3, <1>4, <1>5, <1>6, <1>7, <1>8, <1>9 DEF IInv

LEMMA Invariance == Spec => []IInv
  BY InitInv, NextInv, PTL DEF Spec

(* One durable identity per file, whatever crashed or was taken over.      *)
THEOREM IdentityIsDurable == Spec => []DurableIdentity
  <1>1. IInv => DurableIdentity
    BY DEF IInv, ExecutionInv, IdentityInv, StoredIdentityInv, DurableIdentity
  <1> QED BY <1>1, Invariance, PTL

(* Two executions of one file never run under the same attempt number.     *)
THEOREM AttemptsDiffer == Spec => []DistinctAttempts
  <1>1. IInv => DistinctAttempts
    BY DEF IInv, ExecutionInv
  <1> QED BY <1>1, Invariance, PTL

(* Without an overdue claim a file is never processed twice at once.       *)
THEOREM NoOverlap == Spec => []NoOverlapUnlessOverdue
  <1>1. ASSUME IInv PROVE NoOverlapUnlessOverdue
    <2> SUFFICES ASSUME NEW f \in Files \ everOverdue
                 PROVE  Cardinality(ExecutingOn(f)) <= 1
      BY DEF NoOverlapUnlessOverdue
    <2>1. \A w, x \in ExecutingOn(f) : w = x
      BY <1>1 DEF IInv, ExecutionInv, OwnerInv, DistinctAttempts, ExecutingOn
    <2>2. CASE ExecutingOn(f) = {}
      BY <2>2, FS_EmptySet
    <2>3. CASE ExecutingOn(f) # {}
      <3>1. PICK w : w \in ExecutingOn(f)
        BY <2>3
      <3>2. ExecutingOn(f) = {w}
        BY <2>1, <3>1
      <3>3. Cardinality({w}) = 1
        BY FS_Singleton
      <3> QED BY <3>2, <3>3
    <2> QED BY <2>2, <2>3
  <1> QED BY <1>1, Invariance, PTL

(* Without an overdue claim, an answer COMPLETED is the state of the row.  *)
THEOREM ReportsAreDurable == Spec => []ReportedIsDurable
  <1>1. IInv => ReportedIsDurable
    BY DEF IInv
  <1> QED BY <1>1, Invariance, PTL

(* All the other steps leave every row alone.                              *)
LEMMA RowWriters ==
  ASSUME [Next]_vars
  PROVE  \/ dispatch' = dispatch
         \/ \E w \in Workers :
               Claim(w) \/ CommitMaintenance(w) \/ Complete(w) \/ Fail(w)
  BY DEF Next, Step, Runner, vars, calls, Begin, Skip, RecoverRow, Deny, StartMaintenance, Upsert, LeaveDenied, ReturnCompleted, StartRecovery, Conflict, DeadlockAbort, RunnerReturns, RunnerRaises, Crash, Expire

LEMMA AdvanceStep == IInv /\ [Next]_vars => RowsAdvance
  <1> SUFFICES ASSUME IInv, [Next]_vars PROVE RowsAdvance
    OBVIOUS
  <1>a. TypeOK /\ LocksInv /\ StaleInv /\ IdentityInv
    BY DEF IInv
  <1>b. \A f \in Files : dispatch[f] \in Row
    BY <1>a DEF TypeOK
  <1>1. CASE dispatch' = dispatch
    BY <1>1, <1>b DEF RowsAdvance, Row
  <1>2. ASSUME NEW w \in Workers, Claim(w)
        PROVE  RowsAdvance
    <2>1. ClaimedBy(w) /\ RecoveredBy(w)
      BY <1>2, <1>a, ClaimEffect, RecoveryEffect
    <2> QED BY <1>b, <2>1 DEF ClaimedBy, RecoveredBy, RowsAdvance, Row
  <1>3. ASSUME NEW w \in Workers, CommitMaintenance(w)
        PROVE  RowsAdvance
    <2>1. RecoveredBy(w) /\ dispatch' = WithRecovered(w)
      BY <1>3, <1>a, RecoveryEffect DEF CommitMaintenance
    <2> QED BY <1>b, <2>1 DEF RecoveredBy, RowsAdvance, Row
  <1>4. ASSUME NEW w \in Workers, Complete(w) \/ Fail(w)
        PROVE  RowsAdvance
    <2>1. ClosedBy(w)
      BY <1>4, <1>a, CloseEffect
    <2> QED BY <1>b, <2>1 DEF ClosedBy, RowClosedBy, RowsAdvance, Row
  <1> QED BY <1>1, <1>2, <1>3, <1>4, RowWriters

(* A row keeps its identity and its count, and a COMPLETED row never moves.*)
THEOREM RowsAdvanceOnly == Spec => RowsOnlyAdvance
  <1>1. IInv /\ [Next]_vars => [RowsAdvance]_vars
    BY AdvanceStep
  <1> QED BY <1>1, Invariance, PTL DEF Spec, RowsOnlyAdvance

LEMMA KeepStep == IInv /\ [Next]_vars => FreshClaimKept
  <1> SUFFICES ASSUME IInv, [Next]_vars,
                      NEW f \in Files, dispatch[f].state = "IN_PROGRESS", f \notin overdue,
                      dispatch'[f] # dispatch[f]
               PROVE  \E w \in ExecutingOn(f) : pc[w] # "downstream" /\ pc'[w] = "idle"
    BY DEF FreshClaimKept
  <1>a. TypeOK /\ LocksInv /\ StaleInv /\ IdentityInv
    BY DEF IInv
  <1>b. \A w \in Workers : f \notin recovered[w]
    BY <1>a DEF StaleInv
  <1>1. ASSUME NEW w \in Workers, Claim(w)
        PROVE  FALSE
    <2>1. ClaimedBy(w) /\ RecoveredBy(w)
      BY <1>1, <1>a, ClaimEffect, RecoveryEffect
    <2> QED BY <1>b, <2>1 DEF ClaimedBy, RecoveredBy
  <1>2. ASSUME NEW w \in Workers, CommitMaintenance(w)
        PROVE  FALSE
    <2>1. RecoveredBy(w) /\ dispatch' = WithRecovered(w)
      BY <1>2, <1>a, RecoveryEffect DEF CommitMaintenance
    <2> QED BY <1>b, <2>1 DEF RecoveredBy
  <1>3. ASSUME NEW w \in Workers, Complete(w) \/ Fail(w)
        PROVE  \E x \in ExecutingOn(f) : pc[x] # "downstream" /\ pc'[x] = "idle"
    <2>1. ClosedBy(w)
      BY <1>3, <1>a, CloseEffect
    <2>2. f = file[w] /\ pc[w] \in {"completing", "failing"} /\ pc'[w] = "idle"
      BY <1>a, <2>1 DEF ClosedBy, RowClosedBy, Finish, TypeOK
    <2> QED BY <2>2 DEF ExecutingOn, Executing
  <1> QED BY <1>1, <1>2, <1>3, RowWriters

(* Only an execution that closes its file takes a fresh claim away.        *)
THEOREM FreshClaimsAreKept == Spec => FreshClaimIsKept
  <1>1. IInv /\ [Next]_vars => [FreshClaimKept]_vars
    BY KeepStep
  <1> QED BY <1>1, Invariance, PTL DEF Spec, FreshClaimIsKept

(* Identity, attempt, exclusion and answer of every execution, together.   *)
THEOREM SoundExecutions == Spec => []ExecutionsAreSound
  <1>1. DurableIdentity /\ DistinctAttempts /\ NoOverlapUnlessOverdue /\ ReportedIsDurable
          => ExecutionsAreSound
    BY DEF ExecutionsAreSound
  <1> QED BY <1>1, IdentityIsDurable, AttemptsDiffer, NoOverlap, ReportsAreDurable, PTL

(* No step of any caller takes a row back, nor a fresh claim away.         *)
THEOREM SoundMoves == Spec => RowsMoveSoundly
  BY RowsAdvanceOnly, FreshClaimsAreKept DEF RowsMoveSoundly

=============================================================================

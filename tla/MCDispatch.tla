----------------------------- MODULE MCDispatch -----------------------------
(* Instances of Dispatch for TLC. *)
EXTENDS Dispatch

CONSTANTS w1, w2, f1, f2, fx, r1

TwoCalls == {w1, w2}
ThreeFiles == {f1, f2, fx}

(* f1 is tabular, f2 a document, fx was rejected by ingestion. *)
StateOf == [f \in Files |-> IF f = fx THEN "OTRO" ELSE "COMPLETADO"]
FormatOf == [f \in Files |-> IF f = f1 THEN "CSV" ELSE "PDF"]

Claimed(id) == [state |-> "IN_PROGRESS", op |-> id, attempts |-> 1, result |-> NoResult]
Done(id) == [state |-> "COMPLETED", op |-> id, attempts |-> 1, result |-> r1]

(* Nobody is at work on files that were dispatched before. *)
Resume(rows, late, faults) ==
    /\ dispatch = rows /\ overdue = late /\ everOverdue = late
    /\ nextOp = 1 + Cardinality({f \in Files : rows[f] # AbsentRow})
    /\ budget = faults
    /\ lock = [f \in Files |-> NoWorker]
    /\ pc = [w \in Workers |-> "idle"]
    /\ file = [w \in Workers |-> NoFile]
    /\ op = [w \in Workers |-> 0]
    /\ attempt = [w \in Workers |-> 0]
    /\ result = [w \in Workers |-> NoResult]
    /\ seen = [w \in Workers |-> {}]
    /\ recovered = [w \in Workers |-> {}]
    /\ answer = [w \in Workers |-> Say("NONE")]
    /\ denialEvents = 0

(* A new file beside one that is done, under faults of every kind. *)
OneIsNew ==
    Resume([f \in Files |-> IF f = f2 THEN Done(1) ELSE AbsentRow], {},
           [raises |-> MaxRaises, crashes |-> MaxCrashes, slow |-> MaxSlow, denials |-> MaxDenials])

(* The processes of two dispatches died long ago. *)
TwoAreStale ==
    Resume([f \in Files |-> IF f = f1 THEN Claimed(1) ELSE IF f = f2 THEN Claimed(2) ELSE AbsentRow],
           {f1, f2}, [raises |-> 0, crashes |-> 0, slow |-> 0, denials |-> 0])

ResumedSpec == (OneIsNew \/ TwoAreStale) /\ [][Next]_vars /\ Fairness
=============================================================================

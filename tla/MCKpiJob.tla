----------------------------- MODULE MCKpiJob -----------------------------
(* Instances of KpiJob for TLC.                                            *)
EXTENDS KpiJob

CONSTANTS w1, w2, p, z, rq, rz, past, now, i1

(* p corrects a quarantined record that counts in both months; z is a      *)
(* scanned document of the current month.                                  *)
KindOf == [o \in Ops |-> IF o = p THEN "REINJECTION" ELSE "OCR"]
RecordsOfOp == [o \in Ops |-> IF o = p THEN {rq} ELSE {rz}]
ItemOfOp == [o \in Ops |-> IF o = p THEN i1 ELSE NoItem]
ReferenceOf == [o \in Ops |-> 0]
CellsOfRecord == [r \in Records |-> IF r = rq THEN {past, now} ELSE {now}]

(* Day 1 ends the past month; the current one is open.                     *)
MonthOfCell == [c \in Cells |-> IF c = past THEN 1 ELSE 2]
FirstDayOf == [m \in Months |-> IF m = 1 THEN 1 ELSE 2]
LastDayOf == [m \in Months |-> IF m = 1 THEN 1 ELSE 9]
===========================================================================

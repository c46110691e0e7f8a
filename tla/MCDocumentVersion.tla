-------------------------- MODULE MCDocumentVersion --------------------------
(* Instances of DocumentVersion for TLC. *)
EXTENDS DocumentVersion

CONSTANTS w1, w2, d, m, n, t1, t2, good, weak, strong, blank

(* d is the operation of the dispatch; m and n reprocess its version.      *)
SourceOf == [o \in Manual |-> d]

(* good reads one text; strong and weak another, weak without confidence;  *)
(* blank reads none.                                                       *)
ReadingOf ==
    [e \in Engines |->
        [text |-> IF e = good THEN t1 ELSE IF e = blank THEN EmptyText ELSE t2,
         confidence |-> IF e = weak THEN "LOW" ELSE "HIGH"]]
===========================================================================

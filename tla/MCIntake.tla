----------------------------- MODULE MCIntake -----------------------------
(* An instance of Intake for TLC.                                          *)
EXTENDS Intake, TLC

CONSTANTS u1, u2, u3, u4, w1, w2, daily, manual, x, y, big, bad, e1, e2, p1, p2

(* u1 and u2 bring the same file from the controlled directory; u3 and u4  *)
(* are sent with one key, u4 above the limit.                              *)
SourceOfUpload == [u \in Uploads |-> IF u \in {u1, u2} THEN daily ELSE manual]
ContentOfUpload == [u \in Uploads |-> IF u \in {u1, u2} THEN x ELSE IF u = u3 THEN y ELSE big]
VerdictOf == [c \in Contents |-> IF c = big THEN "TOO_LARGE" ELSE "COMPLETADO"]

(* x and y declare the two entities in opposite orders and disagree on e1. *)
RowsOfContent ==
    [c \in Contents |->
        IF c = x THEN <<[entity |-> e1, payload |-> p1, valid |-> TRUE],
                        [entity |-> e2, payload |-> p1, valid |-> TRUE]>>
        ELSE IF c = y THEN <<[entity |-> e2, payload |-> p1, valid |-> TRUE],
                             [entity |-> e1, payload |-> p2, valid |-> FALSE],
                             [entity |-> e1, payload |-> p2, valid |-> TRUE]>>
        ELSE <<>>]
(* Two corrections that one item may be sent.                              *)
Fixes == {[entity |-> e1, payload |-> p2, valid |-> TRUE],
          [entity |-> e2, payload |-> p1, valid |-> TRUE]}
Interchangeable == Permutations({w1, w2}) \cup Permutations({u1, u2})
===========================================================================

----------------------------- MODULE MCSessions -----------------------------
(* Instances of Sessions for TLC. *)
EXTENDS Sessions, TLC

CONSTANTS w1, w2, x, y, s1, s2

Symmetry == Permutations(Workers) \cup Permutations(Accounts) \cup Permutations(Sessions)
=============================================================================

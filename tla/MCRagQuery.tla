----------------------------- MODULE MCRagQuery -----------------------------
(* Instances of RagQuery for TLC. *)
EXTENDS RagQuery, TLC

CONSTANTS c1, c2, q1, s1, s2, f1, f2

Symmetry == Permutations(Calls) \cup Permutations(Sessions)
              \cup Permutations(Fragments)
=============================================================================

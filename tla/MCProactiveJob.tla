--------------------------- MODULE MCProactiveJob ---------------------------
(* Values of the constants of ProactiveJob.                                 *)
EXTENDS ProactiveJob, TLC

MCCells == 1..2

Symmetric == Permutations(Workers) \cup Permutations(Ops)

=============================================================================

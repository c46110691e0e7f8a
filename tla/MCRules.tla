------------------------------- MODULE MCRules -------------------------------
(* The four small machines of one run: the rules of the proactive analysis,  *)
(* the cut of a text, the readings of a row and the certificate of an index. *)
(* They share nothing; a behaviour is one of the four with the others idle,  *)
(* so the states of the run are the sum of theirs and not the product.       *)
EXTENDS ProactiveRules, Chunking, TabularRules, IndexCertificate, TLC

VARIABLE machine

\* One month more than the longest closure.
MCMonths == 0..6
MCValues == 0..2

\* Nothing, more than one window, and more than two.
MCLengths == {0, 3, 7}

Interchangeable == Permutations(Sessions)

MCInit ==
    /\ machine \in {"rules", "chunking", "tabular", "index"}
    /\ Init /\ (machine # "rules" => kind = "TWO")
    /\ ChunkingInit /\ (machine # "chunking" => length = 0 /\ ~opens)
    /\ TabularInit /\ (machine # "tabular" =>
                          family = "LITIGATION" /\ row = Plain(family, Declared(family)))
    /\ IndexInit /\ (machine # "index" => index.state = "LISTA")

MCNext ==
    \/ machine = "rules" /\ Next
          /\ UNCHANGED <<machine, chunkingVars, tabularVars, indexVars>>
    \/ machine = "chunking" /\ CutFragment
          /\ UNCHANGED <<machine, vars, tabularVars, indexVars>>
    \/ machine = "tabular" /\ TabularNext
          /\ UNCHANGED <<machine, vars, chunkingVars, indexVars>>
    \/ machine = "index" /\ IndexNext
          /\ UNCHANGED <<machine, vars, chunkingVars, tabularVars>>

MCSpec == MCInit /\ [][MCNext]_<<machine, vars, chunkingVars, tabularVars, indexVars>>

=============================================================================

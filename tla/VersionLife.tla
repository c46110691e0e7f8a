----------------------------- MODULE VersionLife -----------------------------
(***************************************************************************)
(* What the documents component promises of the versions of one document,  *)
(* in steps that look instantaneous: module DocumentVersion implements it  *)
(* with calls that fail, are repeated and overtake each other.             *)
(***************************************************************************)
CONSTANTS Ops, Texts, NoText, NoOp

VARIABLES
    stage,      \* how far each version got
    text,       \* the text it was given, once and for all
    inForce     \* the version that answers queries, or NoOp

vars == <<stage, text, inForce>>

Init ==
    /\ stage = [o \in Ops |-> "ABSENT"]
    /\ text = [o \in Ops |-> NoText]
    /\ inForce = NoOp

Propose(o, t) ==
    /\ stage[o] = "ABSENT"
    /\ stage' = [stage EXCEPT ![o] = "PROCESANDO"]
    /\ text' = [text EXCEPT ![o] = t]
    /\ UNCHANGED inForce

Prepare(o) ==
    /\ stage[o] = "PROCESANDO"
    /\ stage' = [stage EXCEPT ![o] = "LISTA"]
    /\ UNCHANGED <<text, inForce>>

(* Final, and without a look at what is in force.                          *)
Reject(o) ==
    /\ stage' = [stage EXCEPT ![o] = "RECHAZADA"]
    /\ UNCHANGED <<text, inForce>>

PutInForce(o) ==
    /\ stage[o] = "LISTA"
    /\ inForce' = o
    /\ UNCHANGED <<stage, text>>

Withdraw ==
    /\ inForce' = NoOp
    /\ UNCHANGED <<stage, text>>

Next ==
    \/ \E o \in Ops :
         \/ \E t \in Texts : Propose(o, t)
         \/ Prepare(o) \/ Reject(o) \/ PutInForce(o)
    \/ Withdraw

Spec == Init /\ [][Next]_vars
=============================================================================

------------------------------ MODULE Question ------------------------------
(***************************************************************************)
(* An algorithm of sysforge without state of its own, as a behaviour of    *)
(* two states: a subject with one input, and then what the code computes   *)
(* of it.                                                                  *)
(***************************************************************************)
VARIABLES
    subject,      \* which algorithm
    input,        \* what it is given
    computed,     \* it is done
    output        \* and this is what came of it

question == <<subject, input, computed, output>>

Posed(s, inputs) ==
    /\ subject = s /\ input \in inputs
    /\ computed = FALSE /\ output = {}

Answer(s, result) ==
    /\ subject = s /\ ~computed
    /\ computed' = TRUE /\ output' = result
    /\ UNCHANGED <<subject, input>>

Answered(s) == subject = s /\ computed
=============================================================================

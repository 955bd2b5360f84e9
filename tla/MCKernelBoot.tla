---------------------------- MODULE MCKernelBoot ----------------------------
(* The kernel's install and its boot entries, the two rounds of its sampled *)
(* profiles, or the configurations its gates look at.                       *)
EXTENDS KernelBoot, KernelFdo

CONSTANTS own, own2, MaxPlain

VARIABLE subject

Plainly == [mode |-> "off", prop |-> FALSE, explicit |-> TRUE, review |-> FALSE, allow |-> FALSE]
MCRequests ==
    {Plainly, [Plainly EXCEPT !.review = TRUE], [Plainly EXCEPT !.mode = "record"],
     [Plainly EXCEPT !.mode = "record", !.prop = TRUE], [Plainly EXCEPT !.mode = "use", !.explicit = FALSE],
     [Plainly EXCEPT !.mode = "use", !.prop = TRUE],
     [Plainly EXCEPT !.mode = "use", !.prop = TRUE, !.explicit = FALSE]}

\* One configuration, for every request but the plain ones; or those alone.
Rounds == config' = config /\ ~(work' # Off /\ work'.mode = "off")
Configurations == Len(builds') <= MaxPlain /\ ~(work' # Off /\ work'.mode # "off")

MCInit == Init /\ InitFdo /\ subject \in {"boot", "rounds", "config"}
          /\ (subject # "boot" => selected = own /\ prefix = "")
MCNext ==
    /\ UNCHANGED subject
    /\ \/ subject = "boot" /\ Next /\ UNCHANGED fdoVars
       \/ subject = "rounds" /\ NextFdo /\ Rounds /\ UNCHANGED vars
       \/ subject = "config" /\ NextFdo /\ Configurations /\ UNCHANGED vars
MCSpec == MCInit /\ [][MCNext]_<<vars, fdoVars, subject>>
=============================================================================

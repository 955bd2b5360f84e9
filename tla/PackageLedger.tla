--------------------------- MODULE PackageLedger ---------------------------
(***************************************************************************)
(* What the packages stage promises the owner of packages.toml: a package  *)
(* that was settled (built, or skipped on request) stays settled, and the  *)
(* stage is announced as done only when every package then listed is.      *)
(***************************************************************************)
CONSTANT Item
VARIABLES wanted, settled, done

Init == wanted \subseteq Item /\ settled = {} /\ done = FALSE

Rewrite == wanted' \in SUBSET Item /\ UNCHANGED <<settled, done>>

Settle == settled \subseteq settled' /\ settled' \subseteq Item
          /\ UNCHANGED <<wanted, done>>

Announce == wanted \subseteq settled /\ done' = TRUE
            /\ UNCHANGED <<wanted, settled>>

Reopen == done' = FALSE /\ UNCHANGED <<wanted, settled>>

Next == Rewrite \/ Settle \/ Announce \/ Reopen

Spec == Init /\ [][Next]_<<wanted, settled, done>>
=============================================================================

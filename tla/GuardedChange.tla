--------------------------- MODULE GuardedChange ---------------------------
(***************************************************************************)
(* What the stage sentinel is for, with no file and no lock: a machine     *)
(* whose system is sound, is being changed, or was left torn by a change   *)
(* that did not complete.  "Converting a silently broken system into a     *)
(* loud blocker at next run": a torn system is repaired before anything    *)
(* changes it again.                                                       *)
(***************************************************************************)
VARIABLE health

TypeOK == health \in {"sound", "changing", "torn"}

Init == health = "sound"

Begin     == health = "sound"    /\ health' = "changing"
Complete  == health = "changing" /\ health' = "sound"
Interrupt == health = "changing" /\ health' = "torn"
Repair    == health = "torn"     /\ health' = "sound"

Next == Begin \/ Complete \/ Interrupt \/ Repair

Spec == Init /\ [][Next]_health
=============================================================================

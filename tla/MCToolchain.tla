---------------------------- MODULE MCToolchain ----------------------------
(* The second version opens another LLVM major, the third is a point       *)
(* release of it, which is out in time for the last run only.              *)
EXTENDS Toolchain

MCMajor == [v \in Versions |-> IF v = 1 THEN 1 ELSE 2]

Released == src' = MaxVersion => runs' = MaxRuns

MCNext == Next /\ Released

MCSpec == /\ Init /\ [][MCNext]_vars
          /\ WF_vars(Work) /\ WF_vars(Recover) /\ WF_vars(Start("pgo") /\ Released)
=============================================================================

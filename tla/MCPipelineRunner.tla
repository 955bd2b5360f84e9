------------------------- MODULE MCPipelineRunner -------------------------
(* Small instances of PipelineRunner: a bootstrap stage, the reboot        *)
(* boundary (stateless, like reconfigure), toolchain and packages.         *)
EXTENDS PipelineRunner, TLC

Plain(m) == [mode |-> m, stage |-> 1, dry |-> FALSE, root |-> FALSE]

AsRoot(S) == S \cup {[o EXCEPT !.root = TRUE] : o \in S}

At(m, S) == {[Plain(m) EXCEPT !.stage = s] : s \in S}

Dry(S) == {[o EXCEPT !.dry = TRUE] : o \in S}

\* Every mode; as root where that makes a difference, dry where the marks do.
EveryMode ==
    AsRoot({Plain("fresh"), Plain("resume")} \cup At("alone", {2}))
    \cup At("alone", {3}) \cup At("from", {2, 3}) \cup At("fromResume", {3})
    \cup Dry({Plain("resume")} \cup At("alone", {3}) \cup At("from", {3}))
=============================================================================

----------------------------- MODULE PackagePgo -----------------------------
(***************************************************************************)
(* Instrumentation PGO of one package: `build --pgo=record', a workload,   *)
(* `build --pgo=use', and the plain rebuilds after it that apply the       *)
(* merged profile again (primitives/mesa_pgo.py, makepkg_wrapper.run).     *)
(* The merge writes the profile, its version sidecar and the pruned store  *)
(* one by one, and can be killed between any two of them.                  *)
(***************************************************************************)
EXTENDS Naturals

CONSTANTS
    NoVersion,     \* no sidecar, nothing installed
    MaxUpstream,   \* bound on the releases of the package
    MaxRounds,     \* bound on the verbs of a behaviour
    MaxSamples     \* bound on the workloads per version

ASSUME NoVersionApart == NoVersion \notin {"gcc", "clang", "record", "use", "pgo", "source_built"}

VARIABLES
    released,   \* the version upstream
    setup,      \* the compilers: of defaults, of the package's profile, of the environment
    raw,        \* the .profraw of the store, each by the version that wrote it
    merged,     \* the profile: the samples it was made of, and its sidecar
    onSystem,   \* the installed build
    noted,      \* its entry of build_state.toml
    step,       \* the verb that is running
    rounds      \* the verbs so far
pgoVars == <<released, setup, raw, merged, onSystem, noted, step, rounds>>

Compiler == {"gcc", "clang"}
Resting == [pc |-> "idle"]
NoProfile == [of |-> {}, sidecar |-> NoVersion]
RepoBuild == [form |-> "repo", v |-> 1]

InitPgo ==
    /\ released = 1 /\ setup \in [defaults : Compiler, profile : Compiler, env : Compiler \cup {NoVersion}]
    /\ raw = {} /\ merged = NoProfile /\ onSystem = RepoBuild
    /\ noted = [mode |-> NoVersion, input |-> FALSE] /\ step = Resting /\ rounds = 0

Begin == step.pc = "idle" /\ rounds < MaxRounds /\ rounds' = rounds + 1

-----------------------------------------------------------------------------
(* The world around it                                                     *)

ReleaseOne ==
    /\ step.pc = "idle" /\ released < MaxUpstream /\ released' = released + 1
    /\ UNCHANGED <<setup, raw, merged, onSystem, noted, step, rounds>>

\* Only what clang instrumented writes .profraw, at any time.
Workload ==
    /\ onSystem.form = "instrumented"
    /\ \E n \in 1..MaxSamples : LET sample == [by |-> onSystem.v, n |-> n]
                              IN  sample \notin raw \cup merged.of /\ raw' = raw \cup {sample}
    /\ UNCHANGED <<released, setup, merged, onSystem, noted, step, rounds>>

DeleteStore ==
    /\ Begin /\ raw' = {} /\ merged' = NoProfile
    /\ UNCHANGED <<released, setup, onSystem, noted, step>>

RevertPackage ==
    /\ Begin /\ onSystem' = [RepoBuild EXCEPT !.v = released]
    /\ noted' = [mode |-> NoVersion, input |-> FALSE]
    /\ UNCHANGED <<released, setup, raw, merged, step>>

-----------------------------------------------------------------------------
(* build --pgo                                                             *)

Given(cc) == IF cc # NoVersion THEN cc ELSE setup.profile
HasProfile == merged.of # {}

\* The compiler that the reuse asks for: the profile of the package is not
\* resolved yet, so that of the environment stands in for it.
ReuseCompiler(cc) == IF cc # NoVersion THEN cc ELSE setup.env

\* The input that the record names, from the resolved profile.
InputNoted(cc) == HasProfile /\ Given(cc) = "clang"

\* Whether the build is given a profile.
Applies == step.pgo = "use" \/ (step.pgo = NoVersion /\ HasProfile /\ ReuseCompiler(step.cc) = "clang")

\* What it is then: gcc makes nothing of clang's flags.
FormOf == IF Given(step.cc) = "gcc" THEN "plain"
          ELSE IF step.pgo = "record" THEN "instrumented"
          ELSE IF Applies THEN "profiled" ELSE "plain"

\* Mutant: a rebuild that applies a profile is recorded as a plain one.
NotedOfUse == [mode |-> IF step.pgo = "use" THEN "pgo" ELSE "source_built", input |-> InputNoted(step.cc)]

\* What it is recorded as: "pgo" stands for the renamed package too.
Noted == [mode |-> IF Applies THEN "pgo" ELSE "source_built", input |-> InputNoted(step.cc)]

StartPgo ==
    /\ Begin /\ setup.defaults = "clang"
    /\ \E mode \in {"record", "use"}, cc \in {NoVersion, "clang"} :
          /\ mode = "use" => raw # {} \/ HasProfile
          /\ step' = [pc |-> IF mode = "use" /\ raw # {} THEN "merge" ELSE "build", pgo |-> mode,
                      cc |-> cc, inputs |-> raw]
    /\ UNCHANGED <<released, setup, raw, merged, onSystem, noted>>

\* Mutant: the profile that was there is replaced by the new one.
MergedFresh(files) == files

\* llvm-profdata takes the profile that was there with the new samples.
MergedOf(files) == merged.of \cup files

MergeProfile ==
    /\ step.pc = "merge"
    /\ merged' = [merged EXCEPT !.of = MergedOf(step.inputs)]
    /\ step' = [step EXCEPT !.pc = "sidecar"]
    /\ UNCHANGED <<released, setup, raw, onSystem, noted, rounds>>

\* The version that is installed by now under the stock name, whatever build
\* that is of.
WriteSidecar ==
    /\ step.pc = "sidecar"
    /\ merged' = IF noted.mode = "pgo" THEN merged ELSE [merged EXCEPT !.sidecar = onSystem.v]
    /\ step' = [step EXCEPT !.pc = "prune"]
    /\ UNCHANGED <<released, setup, raw, onSystem, noted, rounds>>

\* The samples that were merged, not those written in the meantime.
PruneSamples ==
    /\ step.pc = "prune" /\ raw' = raw \ step.inputs
    /\ step' = [step EXCEPT !.pc = "build"]
    /\ UNCHANGED <<released, setup, merged, onSystem, noted, rounds>>

-----------------------------------------------------------------------------
(* update, or build without --pgo, and the build itself                    *)

StartPlain ==
    /\ Begin
    /\ \E cc \in {NoVersion, "clang", "gcc"} :
          step' = [pc |-> "build", pgo |-> NoVersion, cc |-> cc, inputs |-> {}]
    /\ UNCHANGED <<released, setup, raw, merged, onSystem, noted>>

BuildAndInstall ==
    /\ step.pc = "build"
    /\ onSystem' = [form |-> FormOf, v |-> released] /\ noted' = Noted
    /\ step' = Resting
    /\ UNCHANGED <<released, setup, raw, merged, rounds>>

\* A kill, or a build that fails: the profile flags go with it.
Interrupted ==
    /\ step.pc # "idle" /\ step' = Resting
    /\ UNCHANGED <<released, setup, raw, merged, onSystem, noted, rounds>>

NextPgo ==
    \/ ReleaseOne \/ Workload \/ DeleteStore \/ RevertPackage \/ StartPgo \/ MergeProfile
    \/ WriteSidecar \/ PruneSamples \/ StartPlain \/ BuildAndInstall \/ Interrupted

PgoSpec == InitPgo /\ [][NextPgo]_pgoVars

-----------------------------------------------------------------------------
(* What a workload has collected is in the store until the operator         *)
(* deletes it, as samples or merged, wherever a merge was killed and        *)
(* however often it is done again (mesa_pgo.merge_profraw).                 *)
LosesNone == raw \cup merged.of \subseteq raw' \cup merged'.of

(* The entry calls a build profiled, and has its package renamed, exactly  *)
(* when the installed one applies a profile, for what clang builds         *)
(* (makepkg_wrapper.run).  What gcc builds is given one too, when the      *)
(* defaults or the environment name clang.                                 *)
RecordTellsProfile ==
    setup.profile = "clang" => (noted.mode = "pgo" <=> onSystem.form = "profiled")

(* No step loses a sample or leaves a record that is not true.              *)
SamplesKept == [][(DeleteStore \/ LosesNone) /\ RecordTellsProfile']_pgoVars
=============================================================================

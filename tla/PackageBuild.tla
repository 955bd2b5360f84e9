---------------------------- MODULE PackageBuild ----------------------------
(***************************************************************************)
(* One package directory under makepkg_wrapper.run: the recipe is patched  *)
(* into a sidecar, makepkg runs on the host or in the sandbox's container, *)
(* a failed run is retried, repaired by the user or given up, and what was *)
(* built is recorded.  Builds follow one another in one process or in      *)
(* several, and any of them may be killed between two steps.               *)
(*                                                                         *)
(* A recipe is told by how many times it was patched: 0 is what the        *)
(* checkout holds.  Compilers stand for their families.                    *)
(***************************************************************************)
EXTENDS Naturals, FiniteSets

CONSTANTS
    Compilers,      \* families of compilers, e.g. gcc and clang
    Keys,           \* cgroup properties a throttle may set
    Requests,       \* the builds that may be asked for
    MaxBuilds,      \* how many are
    None

ASSUME BuildAssumption ==
    /\ MaxBuilds \in Nat
    /\ Requests \subseteq
         [cc : Compilers,                       \* what the profile resolves to
          choice : Compilers \cup {None},       \* --toolchain
          row : {"keep", "save", "reset"},      \* --save-toolchain, --reset-toolchain
          batch : BOOLEAN, interactive : BOOLEAN, installs : BOOLEAN, force : BOOLEAN,
          owned : BOOLEAN,                      \* built by the toolchain or the kernel stage
          policy : BOOLEAN,                     \* [security] sandbox_builds
          override : BOOLEAN \cup {None},       \* the profile's sandbox_builds
          cap : SUBSET Keys,                    \* what its throttle limits
          scope : BOOLEAN]                      \* systemd-run is installed

ASSUME NoneApart == None \notin Compilers /\ None \notin 0 .. 2

VARIABLES
    dir,            \* [Files -> times patched] or None
    row,            \* the package's compiler in profiles.toml, or None
    ceiling,        \* the limits that hold on the devtools slice
    art,            \* the artifact in PKGDEST: its compiler, and whether a container built it
    record,         \* the entry of build_state: the same, as recorded
    prov,           \* the process's provenance: a sandboxed build succeeded
    proc,           \* the build that runs
    builds          \* builds so far

vars == <<dir, row, ceiling, art, record, prov, proc, builds>>

Files == {"PKGBUILD", "sidecar", "stash"}
Clean == [f \in Files |-> IF f = "PKGBUILD" THEN 0 ELSE None]
Idle  == [pc |-> "idle"]
Goto(pc) == [proc EXCEPT !.pc = pc]

(* suppressed() puts the permissive policy in place of an enabled one; the  *)
(* profile's switch is applied to whatever is in place.                     *)
Suppressed(r) == r.owned /\ r.policy
Sandboxed(r)  == IF r.override # None THEN r.override ELSE r.policy /\ ~r.owned

(* Where the throttle of a build is enforced: a scope around makepkg; for    *)
(* the memory of it an rlimit, without scopes; the slice of the container.  *)
Scope(r)  == IF ~Sandboxed(r) /\ r.scope THEN r.cap ELSE {}
Rlimit(r) == IF Sandboxed(r) \/ r.scope THEN {} ELSE r.cap \cap {"mem"}
Slice(r)  == IF Sandboxed(r) THEN ceiling ELSE {}

Used == IF proc.swap # None THEN proc.swap ELSE IF proc.fallback THEN "gcc" ELSE proc.cc

Init ==
    /\ dir = Clean /\ row = None /\ ceiling = {} /\ art = None /\ record = None
    /\ prov = FALSE /\ proc = Idle /\ builds = 0

-----------------------------------------------------------------------------
(* Up to makepkg.                                                           *)

Start(r) ==
    /\ proc.pc = "idle" /\ builds < MaxBuilds
    /\ builds' = builds + 1
    /\ proc' = [pc |-> "sync", req |-> r, cc |-> None, fallback |-> FALSE, menu |-> FALSE,
                swap |-> None, limited |-> FALSE, result |-> None, salvaged |-> FALSE]
    /\ UNCHANGED <<dir, row, ceiling, art, record, prov>>

(* A checkout that differs from its commit is built as it is; one without a *)
(* PKGBUILD is neither purged nor built, unless the user forces a purge.    *)
Sync ==
    /\ proc.pc = "sync"
    /\ \/ proc' = Idle /\ UNCHANGED dir
       \/ dir["PKGBUILD"] # None /\ proc' = Goto("patch") /\ UNCHANGED dir
       \/ proc' = Goto("patch") /\ dir' = Clean
    /\ UNCHANGED <<row, ceiling, art, record, prov, builds>>

SavedRow(r) == CASE r.row = "reset" -> None
                 [] r.row = "save" /\ r.choice # None -> r.choice
                 [] OTHER -> row

Patched == [dir EXCEPT !["sidecar"] = IF dir["PKGBUILD"] = 0 THEN 1 ELSE 2]

(* The row is saved before anything was built with it.                      *)
Patch ==
    /\ proc.pc = "patch"
    /\ \E written \in BOOLEAN : row' = IF written THEN SavedRow(proc.req) ELSE row
    /\ LET r == proc.req
           kept == IF r.row = "reset" THEN None ELSE row
           cc == IF r.choice # None THEN r.choice ELSE IF kept # None THEN kept ELSE r.cc
       IN  proc' = [proc EXCEPT !.pc = "prepare", !.cc = cc]
    /\ dir' = Patched
    /\ UNCHANGED <<ceiling, art, record, prov, builds>>

(* A profile that is not there, profile data a toolchain package needs.     *)
Skip ==
    /\ proc.pc = "patch" /\ proc' = Idle
    /\ UNCHANGED <<dir, row, ceiling, art, record, prov, builds>>

(* A recipe that cannot be patched or validated ends the build; so does a   *)
(* sandbox that cannot be prepared.  The sidecar stays.                     *)
Refused ==
    /\ proc.pc = "prepare" /\ proc' = Idle
    /\ prov' = FALSE
    /\ UNCHANGED <<dir, row, ceiling, art, record, builds>>

\* Mutant: a stash is swapped over.
PrepareOverStash ==
    /\ proc.pc = "prepare"
    /\ prov' = FALSE
    /\ proc' = Goto(IF Sandboxed(proc.req) THEN "stash" ELSE "run")
    /\ UNCHANGED <<dir, row, ceiling, art, record, builds>>

\* Mutant: the provenance of the build before is not cleared.
PrepareKeepingProvenance ==
    /\ proc.pc = "prepare"
    /\ \/ ~Sandboxed(proc.req) /\ proc' = Goto("run")
       \/ Sandboxed(proc.req) /\ dir["stash"] = None /\ proc' = Goto("stash")
    /\ UNCHANGED <<dir, row, ceiling, art, record, prov, builds>>

(* preflight: a chroot is configured, and no stash of a killed build is in  *)
(* the way.                                                                 *)
Prepare ==
    /\ proc.pc = "prepare"
    /\ prov' = FALSE
    /\ \/ ~Sandboxed(proc.req) /\ proc' = Goto("run")
       \/ /\ Sandboxed(proc.req) /\ ~Suppressed(proc.req) /\ dir["stash"] = None
          /\ proc' = Goto("stash")
    /\ UNCHANGED <<dir, row, ceiling, art, record, builds>>

Move(from, to) == [dir EXCEPT ![to] = dir[from], ![from] = None]

Stash ==
    /\ proc.pc = "stash" /\ proc' = Goto("place")
    /\ dir' = Move("PKGBUILD", "stash")
    /\ UNCHANGED <<row, ceiling, art, record, prov, builds>>

(* Undone when the second rename fails.                                     *)
Place ==
    /\ proc.pc = "place"
    /\ \/ proc' = Goto("limit") /\ dir' = Move("sidecar", "PKGBUILD")
       \/ proc' = Idle /\ dir' = Move("stash", "PKGBUILD")
    /\ UNCHANGED <<row, ceiling, art, record, prov, builds>>

(* A ceiling that cannot be set is a warning: the build runs without it,    *)
(* and under whatever was there.                                            *)
Limited(cap) == cap

Limit ==
    /\ proc.pc = "limit"
    /\ \E set \in BOOLEAN :
          /\ ceiling' = IF set THEN Limited(proc.req.cap) ELSE ceiling
          /\ proc' = [proc EXCEPT !.pc = "run", !.limited = set]
    /\ UNCHANGED <<dir, row, art, record, prov, builds>>

-----------------------------------------------------------------------------
(* makepkg, and back.                                                       *)

Built == [cc |-> Used, sandboxed |-> Sandboxed(proc.req)]
Ended(result) == [proc EXCEPT !.pc = IF Sandboxed(proc.req) THEN "lift" ELSE "decide", !.result = result]

(* An install may fail after the artifact was made.  A compiler that does   *)
(* not know a flag is only noticed in output that is captured.              *)
Makepkg ==
    /\ proc.pc = "run"
    /\ \/ art' = Built /\ proc' = Ended("ok")
       \/ /\ proc.req.installs /\ ~Sandboxed(proc.req)
          /\ art' = Built /\ proc' = Ended("failed")
       \/ proc' = Ended("failed") /\ UNCHANGED art
       \/ ~proc.req.interactive /\ proc' = Ended("mismatch") /\ UNCHANGED art
       \/ art # None /\ ~proc.req.force /\ proc' = Ended("already") /\ UNCHANGED art
    /\ UNCHANGED <<dir, row, ceiling, record, prov, builds>>

(* slice_limits' and as_canonical_pkgbuild's finally: each step may fail    *)
(* quietly only where the code says so, and a kill may fall between them.   *)
Lift ==
    /\ proc.pc = "lift"
    /\ ceiling' \in (IF proc.limited THEN {ceiling, ceiling \ proc.req.cap} ELSE {ceiling})
    /\ proc' = Goto("unplace")
    /\ UNCHANGED <<dir, row, art, record, prov, builds>>

Unplace ==
    /\ proc.pc = "unplace" /\ proc' = Goto("unstash")
    /\ dir' = Move("PKGBUILD", "sidecar")
    /\ UNCHANGED <<row, ceiling, art, record, prov, builds>>

Unstash ==
    /\ proc.pc = "unstash" /\ proc' = Goto("decide")
    /\ dir' = Move("stash", "PKGBUILD")
    /\ prov' = (proc.result = "ok")
    /\ UNCHANGED <<row, ceiling, art, record, builds>>

-----------------------------------------------------------------------------
(* What a failed run is answered with.                                      *)

Decided(result) == proc.pc = "decide" /\ proc.result = result

(* The sidecar is left for the user to look at.                             *)
GiveUp ==
    /\ Decided("failed") \/ (Decided("mismatch") /\ (proc.menu \/ proc.fallback))
    /\ proc' = Idle
    /\ UNCHANGED <<dir, row, ceiling, art, record, prov, builds>>

(* AlreadyBuilt is not a failure, and not a build either.                   *)
NothingToDo ==
    /\ Decided("already") /\ proc' = Idle
    /\ UNCHANGED <<dir, row, ceiling, art, record, prov, builds>>

\* Mutant: the fallback is taken every time.
FallBackAlways ==
    /\ Decided("mismatch") /\ ~proc.menu
    /\ proc' = [proc EXCEPT !.pc = "prepare", !.fallback = TRUE]
    /\ UNCHANGED <<dir, row, ceiling, art, record, prov, builds>>

(* The same recipe once more, with the flags gcc knows.                     *)
FallBack ==
    /\ Decided("mismatch") /\ ~proc.menu /\ ~proc.fallback
    /\ proc' = [proc EXCEPT !.pc = "prepare", !.fallback = TRUE]
    /\ UNCHANGED <<dir, row, ceiling, art, record, prov, builds>>

CanAsk == (Decided("failed") \/ (Decided("mismatch") /\ proc.menu)) /\ ~proc.req.batch

(* The artifacts of this version are there: install them by hand.           *)
HasArtifact == proc.req.installs /\ ~proc.menu /\ art # None

Salvage ==
    /\ CanAsk /\ HasArtifact
    /\ proc' = [proc EXCEPT !.pc = "persist", !.salvaged = TRUE]
    /\ UNCHANGED <<dir, row, ceiling, art, record, prov, builds>>

Again ==
    /\ CanAsk /\ HasArtifact
    /\ proc' = [proc EXCEPT !.pc = "prepare"]
    /\ UNCHANGED <<dir, row, ceiling, art, record, prov, builds>>

(* The recovery menu: as it is or edited, or with another compiler.         *)
Recover ==
    /\ CanAsk /\ ~HasArtifact
    /\ \E cc \in Compilers \cup {None} :
          proc' = [proc EXCEPT !.pc = "prepare", !.menu = TRUE, !.swap = cc]
    /\ UNCHANGED <<dir, row, ceiling, art, record, prov, builds>>

Succeed ==
    /\ Decided("ok")
    /\ proc' = Goto("persist")
    /\ UNCHANGED <<dir, row, ceiling, art, record, prov, builds>>

-----------------------------------------------------------------------------
(* After a success.                                                         *)

(* A compiler that helped is kept for the package, if it can be written.    *)
Persist ==
    /\ proc.pc = "persist"
    /\ row' \in (IF proc.swap # None THEN {row, proc.swap} ELSE {row})
    /\ dir' = [dir EXCEPT !["sidecar"] = None]
    /\ proc' = Goto("record")
    /\ UNCHANGED <<ceiling, art, record, prov, builds>>

(* Fresh profiling data of an instrumented compiler is fatal here.          *)
Instrumented ==
    /\ proc.pc = "record" /\ proc' = Idle
    /\ UNCHANGED <<dir, row, ceiling, art, record, prov, builds>>

Entry == [cc |-> proc.cc, sandboxed |-> prov]

RecordBuild ==
    /\ proc.pc = "record"
    /\ \/ record' = Entry /\ proc' = Goto("recorded")
       \/ record' = record /\ proc' = Idle
    /\ prov' = FALSE
    /\ UNCHANGED <<dir, row, ceiling, art, builds>>

Finish ==
    /\ proc.pc = "recorded" /\ proc' = Idle
    /\ UNCHANGED <<dir, row, ceiling, art, record, prov, builds>>

-----------------------------------------------------------------------------
(* The process ends, or is killed; the user puts a stashed recipe back as   *)
(* the refusal tells.                                                       *)

Exit ==
    /\ proc.pc = "idle" /\ prov /\ prov' = FALSE
    /\ UNCHANGED <<dir, row, ceiling, art, record, proc, builds>>

Kill ==
    /\ proc.pc # "idle" /\ proc' = Idle /\ prov' = FALSE
    /\ UNCHANGED <<dir, row, ceiling, art, record, builds>>

Restore ==
    /\ proc.pc = "idle" /\ dir["stash"] # None
    /\ dir' = Move("stash", "PKGBUILD")
    /\ UNCHANGED <<row, ceiling, art, record, prov, proc, builds>>

Steps ==
    \/ Sync \/ Skip \/ Patch \/ Refused \/ Prepare \/ Stash \/ Place \/ Limit \/ Makepkg
    \/ Lift \/ Unplace \/ Unstash \/ GiveUp \/ NothingToDo \/ FallBack \/ Salvage \/ Again
    \/ Recover \/ Succeed \/ Persist \/ Instrumented \/ RecordBuild \/ Finish

Next == (\E r \in Requests : Start(r)) \/ Steps \/ Exit \/ Kill \/ Restore

Spec == Init /\ [][Next]_vars

-----------------------------------------------------------------------------
(* The checkout's own recipe survives every failure and every kill: it is   *)
(* in place, or stashed where a later build finds it.                       *)
RecipeKept == \E f \in {"PKGBUILD", "stash"} : dir[f] = 0

(* What makepkg reads was patched exactly once, unless a killed sandboxed   *)
(* build left its patched copy under the recipe's name: only a sandboxed    *)
(* build looks for that.                                                    *)
LeftOver == dir["stash"] # None /\ ~Sandboxed(proc.req)
PatchedOnce ==
    proc.pc = "run" =>
        \/ dir[IF Sandboxed(proc.req) THEN "PKGBUILD" ELSE "sidecar"] = 1
        \/ LeftOver
RecipeSafe == RecipeKept /\ PatchedOnce

(* A recorded build is what is on disk: in the container if it says so, and *)
(* by the compiler it names.  Three repairs are not recorded: the flags of  *)
(* gcc, a compiler chosen in the menu, an artifact installed by hand.       *)
Repaired == proc.fallback \/ proc.swap # None \/ proc.salvaged
RecordTellsBuild ==
    proc.pc = "recorded" =>
        /\ record.sandboxed => art.sandboxed
        /\ ~Repaired => record = art

(* A build leaves the recipe as it was and a record of what it made.        *)
BuildSound == RecipeSafe /\ RecordTellsBuild
=============================================================================

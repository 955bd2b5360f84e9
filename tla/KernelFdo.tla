----------------------------- MODULE KernelFdo ------------------------------
(***************************************************************************)
(* The kernel's two rounds of sampled profiles, and which configuration    *)
(* the gates look at (pipeline/stages/kernel/fdo.py, gates.py,             *)
(* primitives/kernel_fdo.py, kconfig_history.py).                          *)
(*                                                                         *)
(* Every build of the kernel is a number; builds[n] tells what was built,  *)
(* from which profiles.  A profile is the number of the kernel that was    *)
(* sampled for it, 0 if there is none.  The two stores, "afdo" and "prop", *)
(* each keep a profile, a round and the profiles last applied; the second  *)
(* pins a copy of the first one's profile.                                 *)
(***************************************************************************)
EXTENDS Naturals, Sequences

CONSTANTS
    Requests,       \* mode, prop, explicit, review, allow: the ways run kernel is called
    VersionKnown,   \* the PKGBUILD tells its version before it is built
    MaxRelease, MaxKernels, MaxChanges, Unset

ASSUME FdoAssumption ==
    /\ MaxRelease \in Nat \ {0} /\ Unset \notin Nat \X Nat
    /\ Requests \subseteq [mode : {"off", "record", "use"}, prop : BOOLEAN, explicit : BOOLEAN,
                           review : BOOLEAN, allow : BOOLEAN]

VARIABLES
    version, config,        \* of the checkout, and what kernel.toml asks for: "good" or "brick"
    builds,
    kernelTree,             \* role to the build last begun in its directory, and whether it ended
    package,                \* <<role, version>> to the build in PKGDEST
    archive,                \* <<role, version>> to the build whose configuration was archived
    bootable,               \* the profiling kernel that is installed, or 0
    running,                \* it or another one, 0
    store, perf, changes,
    work                    \* the run

fdoVars == <<version, config, builds, kernelTree, package, archive, bootable, running, store, perf, changes, work>>

Roles == {"plain", "profiling", "fdo", "propeller"}
Stores == {"afdo", "prop"}
Off == [phase |-> "off"]

InitFdo ==
    /\ version = 1 /\ config = "good" /\ builds = <<>>
    /\ kernelTree = [r \in Roles |-> Unset] /\ package = [x \in Roles \X (1..MaxRelease) |-> 0]
    /\ archive = [x \in Roles \X (1..MaxRelease) |-> 0]
    /\ bootable = 0 /\ running = 0 /\ changes = 0
    /\ store = [m \in Stores |-> [profile |-> 0, pinned |-> 0, round |-> Unset, applied |-> Unset]]
    /\ perf = [m \in Stores |-> 0] /\ work = Off

MethodOf(prop) == IF prop THEN "prop" ELSE "afdo"

(* What a build from the store applies, and its fingerprint.                *)
Applies(m) == IF m = "prop" THEN <<store.prop.pinned, store.prop.profile>> ELSE <<store.afdo.profile, 0>>

(* The second round needs its record, of the pinned profile, and its pair.  *)
HasProfile(m) ==
    IF m = "afdo" THEN store.afdo.profile # 0
    ELSE store.prop.round # Unset /\ store.prop.pinned # 0 /\ store.prop.round.sha = store.prop.pinned
         /\ store.prop.profile # 0

-----------------------------------------------------------------------------
(* The plan.  A mode set in kernel.toml gives way where a request would be  *)
(* refused.                                                                 *)

RoleOf(mode, prop) ==
    CASE mode = "off" -> "plain" [] mode = "record" -> "profiling" [] mode = "use" /\ prop -> "propeller"
      [] mode = "use" /\ ~prop -> "fdo"

Work(q, prop, apply, force) ==
    [phase |-> "build", mode |-> q.mode, prop |-> prop, role |-> RoleOf(q.mode, prop), apply |-> apply,
     force |-> force, review |-> q.review, allow |-> q.allow, kernel |-> 0, audits |-> 0, fresh |-> FALSE]

\* Mutant: they are kept.
ClearedNever(m) == store

(* Profiles of the kernel that is about to be replaced are removed.         *)
Cleared(m) == [store EXCEPT ![m].profile = 0]

PlanRecord(q) ==
    /\ q.mode = "record"
    /\ LET m == MethodOf(q.prop)
           cleared == Cleared(m)
       IN  IF q.prop /\ cleared.afdo.profile = 0
           THEN store' = cleared /\ work' = Off
           ELSE /\ store' = IF q.prop THEN [cleared EXCEPT !.prop.pinned = cleared.afdo.profile] ELSE cleared
                /\ work' = Work(q, q.prop, <<store'[m].pinned, 0>>, TRUE)

\* Mutant: the version of the second round is not looked at.
FallsBackNever(q) == FALSE

FallsBack(q) ==
    q.prop /\ ~q.explicit /\ (~VersionKnown \/ store.prop.round.ver # version)

Mismatched(q) == q.prop /\ q.explicit /\ VersionKnown /\ store.prop.round.ver # version

\* Mutant: profiles are applied once.
StaleOnce(m) == store[m].applied = Unset

Stale(m) == store[m].applied # Applies(m)

PlanUse(q) ==
    /\ q.mode = "use"
    /\ HasProfile(MethodOf(q.prop)) /\ ~Mismatched(q)
    /\ LET prop == q.prop /\ ~FallsBack(q)
           m == MethodOf(prop)
       IN  /\ HasProfile(m)
           /\ work' = Work(q, prop, Applies(m), Stale(m))
    /\ UNCHANGED store

Plan(q) ==
    /\ work.phase = "off"
    /\ \/ PlanRecord(q)
       \/ PlanUse(q)
       \/ q.mode = "off" /\ work' = Work(q, FALSE, <<0, 0>>, FALSE) /\ UNCHANGED store
    /\ UNCHANGED <<version, config, builds, kernelTree, package, archive, bootable, running, perf, changes>>

-----------------------------------------------------------------------------
(* The build, which may be killed or fail with its tree half made, or be    *)
(* found done.                                                              *)

New == Len(builds) + 1
Here == <<work.role, version>>
Reusable == ~work.force /\ package[Here] # 0

Begun ==
    /\ New <= MaxKernels
    /\ builds' = Append(builds, [role |-> work.role, ver |-> version, config |-> config,
                                 apply |-> work.apply, prop |-> work.mode = "record" /\ work.prop])

BuildAnew ==
    /\ work.phase = "build" /\ (~Reusable \/ work.review)
    /\ Begun
    /\ kernelTree' = [kernelTree EXCEPT ![work.role] = [build |-> New, whole |-> TRUE]]
    /\ package' = [package EXCEPT ![Here] = New]
    /\ work' = [work EXCEPT !.phase = "audit", !.kernel = New, !.audits = New, !.fresh = TRUE]
    /\ UNCHANGED <<version, config, archive, bootable, running, store, perf, changes>>

BuildBreaks ==
    /\ work.phase = "build" /\ (~Reusable \/ work.review)
    /\ Begun
    /\ kernelTree' = [kernelTree EXCEPT ![work.role] = [build |-> New, whole |-> FALSE]]
    /\ work' = Off
    /\ UNCHANGED <<version, config, package, archive, bootable, running, store, perf, changes>>

\* Mutant: whatever the tree holds.
TreeConfig(kernel) ==
    IF kernelTree[work.role] # Unset THEN kernelTree[work.role].build ELSE kernel

(* The configuration of a package that is installed as it was built: that   *)
(* of its tree, if the release is the same, else the archived one, else its *)
(* own.                                                                     *)
ReusedConfig(kernel) ==
    LET t == kernelTree[work.role]
    IN  IF t # Unset /\ builds[t.build].ver = builds[kernel].ver THEN t.build
        ELSE IF archive[Here] # 0 THEN archive[Here] ELSE kernel

Reuse ==
    /\ work.phase = "build" /\ Reusable
    /\ work' = [work EXCEPT !.phase = "audit", !.kernel = package[Here], !.audits = ReusedConfig(package[Here])]
    /\ UNCHANGED <<version, config, builds, kernelTree, package, archive, bootable, running, store, perf, changes>>

(* The tree that is archived: the one just built, else the one called like  *)
(* the checkout, under the release it tells itself.                         *)
Archived == IF work.fresh THEN kernelTree[work.role] ELSE kernelTree["plain"]

Audit ==
    /\ work.phase = "audit"
    /\ IF builds[work.audits].config = "brick" /\ ~work.allow
       THEN work' = Off /\ UNCHANGED archive
       ELSE /\ work' = [work EXCEPT !.phase = "install"]
            /\ archive' = IF Archived = Unset THEN archive
                          ELSE LET b == builds[Archived.build]
                               IN  [archive EXCEPT ![<<b.role, b.ver>>] = Archived.build]
    /\ UNCHANGED <<version, config, builds, kernelTree, package, bootable, running, store, perf, changes>>

InstallKernel ==
    /\ work.phase = "install"
    /\ bootable' = IF work.role = "profiling" THEN work.kernel ELSE bootable
    /\ work' = [work EXCEPT !.phase = "finish"]
    /\ UNCHANGED <<version, config, builds, kernelTree, package, archive, running, store, perf, changes>>

(* The note of the round, or of the profiles applied.  If it cannot be      *)
(* written the run ends well without it: StopKernel.                        *)
Noted ==
    LET m == MethodOf(work.prop)
    IN  CASE work.mode = "record" -> [store EXCEPT ![m].round = [ver |-> version, sha |-> store[m].pinned]]
          [] work.mode = "use"    -> [store EXCEPT ![m].applied = work.apply]
          [] work.mode = "off"    -> store

Finish ==
    /\ work.phase = "finish" /\ work' = Off
    /\ store' = Noted
    /\ UNCHANGED <<version, config, builds, kernelTree, package, archive, bootable, running, perf, changes>>

StopKernel ==
    /\ work.phase \notin {"off"} /\ work' = Off
    /\ UNCHANGED <<version, config, builds, kernelTree, package, archive, bootable, running, store, perf, changes>>

-----------------------------------------------------------------------------
(* Between runs the operator boots, samples and converts, edits kernel.toml *)
(* and removes trees; a new version comes.                                  *)

(* The command line is printed only if the tree of the profiling kernel is  *)
(* that of the kernel running now.                                          *)
Vmlinux(k) == kernelTree["profiling"] # Unset /\ kernelTree["profiling"].whole
              /\ kernelTree["profiling"].build = k /\ k # 0

Sample(m) ==
    /\ Vmlinux(running)
    /\ perf' = [perf EXCEPT ![m] = running]
    /\ UNCHANGED <<version, config, builds, kernelTree, package, archive, bootable, running, store, changes>>

Convert(m) ==
    /\ Vmlinux(perf[m])
    /\ store' = [store EXCEPT ![m].profile = perf[m]]
    /\ UNCHANGED <<version, config, builds, kernelTree, package, archive, bootable, running, perf, changes>>

Boot ==
    /\ running' \in {0, bootable}
    /\ UNCHANGED <<version, config, builds, kernelTree, package, archive, bootable, store, perf, changes>>

Change ==
    /\ changes < MaxChanges /\ changes' = changes + 1
    /\ \/ version < MaxRelease /\ version' = version + 1 /\ UNCHANGED <<config, kernelTree>>
       \/ config' = (IF config = "good" THEN "brick" ELSE "good") /\ UNCHANGED <<version, kernelTree>>
       \/ \E r \in Roles : kernelTree[r] # Unset /\ kernelTree' = [kernelTree EXCEPT ![r] = Unset] /\ UNCHANGED <<version, config>>
    /\ UNCHANGED <<builds, package, archive, bootable, running, store, perf>>

BetweenRuns == work.phase = "off" /\ UNCHANGED work /\ (Boot \/ Change \/ \E m \in Stores : Sample(m) \/ Convert(m))

NextFdo ==
    \/ \E q \in Requests : Plan(q)
    \/ BuildAnew \/ BuildBreaks \/ Reuse \/ Audit \/ InstallKernel \/ Finish \/ StopKernel
    \/ BetweenRuns

FdoSpec == InitFdo /\ [][NextFdo]_fdoVars

-----------------------------------------------------------------------------
Applying == work.phase \in {"build", "audit", "install"} /\ work.mode = "use"

(* A kernel that applies a Propeller profile, of a version known before, is *)
(* of the version that was sampled, and the sampled kernel applied the same *)
(* AutoFDO profile.  This holds of profiles sampled on a kernel of the      *)
(* second round; nothing looks whether they were.                           *)
PropellerFits ==
    Applying /\ work.prop /\ VersionKnown /\ builds[work.apply[2]].prop =>
        /\ builds[work.apply[2]].ver = version
        /\ builds[work.apply[2]].apply[1] = work.apply[1]

(* The kernel that is installed, built now or earlier, applies the profiles *)
(* the store has now.                                                       *)
AppliesStore == work.phase = "install" /\ work.mode = "use" => builds[work.kernel].apply = work.apply

(* The profiles a kernel applies belong together, and are the store's.      *)
ProfilesFit == PropellerFits /\ AppliesStore
=============================================================================

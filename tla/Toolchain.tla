----------------------------- MODULE Toolchain -----------------------------
(***************************************************************************)
(* The toolchain stage (ToolchainStage.run, toolchain/*.py): the four      *)
(* passes of the PGO build, the profile they share with later runs, the    *)
(* no-build modes that install what an earlier run left, the install       *)
(* scope, its verification and its rollback.                               *)
(*                                                                         *)
(* A PKGBUILD is one base of Pkgs: Llvm, which holds libs and clang, and   *)
(* the others, built against it.  A run may end at any step, by an error   *)
(* or a kill: both leave the same files, since nothing is cleaned up on    *)
(* the way out.  pgo_lock keeps a second run out of the build.             *)
(***************************************************************************)
EXTENDS Naturals, FiniteSets

CONSTANTS
    Llvm,        \* the PKGBUILD of llvm, llvm-libs and clang
    Others,      \* the PKGBUILDs built against it (non_pgo)
    libs, clang, \* the packages of Llvm; each other base is one package
    MaxVersion,  \* the versions upstream reaches
    Major,       \* by version, the LLVM major its pkgver begins with
    MaxRuns,     \* the runs; the last one meets no failure
    None

ASSUME LlvmApart     == Llvm \notin Others
ASSUME PackagesApart == libs # clang /\ {libs, clang} \cap Others = {}
ASSUME BoundsTyped   == MaxVersion \in Nat \ {0} /\ MaxRuns \in Nat

Pkgs     == {Llvm} \cup Others
Packages == {libs, clang} \cup Others
BaseOf(m) == IF m \in {libs, clang} THEN Llvm ELSE m
Versions == 1 .. MaxVersion

ASSUME MajorsTyped == Major \in [Versions -> Nat \ {0}]

Passes       == {"single", "instrument", "bootstrap", "train", "optimize", "rest"}
Intermediate == {"instrumented", "bootstrap", "training"}
Finished     == {"optimized", "bolted"}
Kinds        == Intermediate \cup Finished \cup {"single"}
Modes        == {"pgo", "single", "bolt", "install"}     \* from source
Variants     == {"stock_llvm", "pgo_llvm", "pgo_llvm_intermediate"}

\* A profile is known by the run that trained it; whole once Pass 3 is over.
Profile  == [run : 1 .. MaxRuns, v : Versions, whole : BOOLEAN]
Artifact == [kind : Kinds, prof : Profile \cup {None}]
Versioned == [Packages -> 0 .. MaxVersion]
Recoveries == [sync : SUBSET Packages, to : Versioned]
Recorded   == [v : Versions, variant : Variants]
ASSUME NoneApart ==
    \A V \in {Pkgs, Profile, Artifact, Recoveries, Recorded} : None \notin V

VARIABLES
    src,       \* the version of the checkouts
    store,     \* pgo_store: clang.profdata and its version sidecar, a major (0: none)
    pkgdest,   \* by base and version, the packages in PKGDEST
    record,    \* by base, build_state's version and toolchain variant
    cache,     \* build_cache.json: by base, the inputs of a Pass-4 build and its artifact
    tree,      \* the build tree of Llvm
    sys,       \* by package, the installed version and kind
    sentinel,  \* the recovery on file
    runs,      \* the runs so far
    pc, mode,
    consult,   \* --reuse-built
    pass,      \* the pass,
    todo,      \* ... its PKGBUILDs not built yet,
    packed,    \* ... and the one packaged and not recorded yet
    snap,      \* snapshot_suite: the versions installed, and were they all cached?
    added      \* install_adds

files   == <<store, pkgdest, record, cache, tree>>
machine == <<sys, sentinel>>
local   == <<mode, consult, pass, todo, packed, snap, added>>
vars    == <<src, files, machine, runs, pc, local>>

PCs == {"idle", "repo", "gates", "profile", "purge", "build", "merge", "sidecar",
        "bolt", "check", "audit", "install", "verify", "rollback", "restore"}

Absent    == [v |-> 0, kind |-> "absent"]
Installed == [v : Versions, kind : Kinds \cup {"repo"}] \cup {Absent}
Present(s) == {m \in Packages : s[m] # Absent}

\* The packages LLVM_LOCKSTEP_SUITE keeps in step.
Suite == {libs, clang}

Nothing == [m \in Packages |-> 0]
Nobody  == [got |-> Nothing, cached |-> FALSE]
NoTree  == [v |-> 0, art |-> None, relocs |-> FALSE, packed |-> FALSE]

TypeOK ==
    /\ src \in Versions
    /\ store \in [data : Profile \cup {None}, sidecar : Nat]
    /\ pkgdest \in [Pkgs -> [Versions -> Artifact \cup {None}]]
    /\ record \in [Pkgs -> Recorded \cup {None}]
    /\ cache \in [Pkgs -> [v : Versions, prof : Profile \cup {None},
                          art : Artifact \cup {None}] \cup {None}]
    /\ tree \in [v : 0 .. MaxVersion, art : Artifact \cup {None},
                 relocs : BOOLEAN, packed : BOOLEAN]
    /\ sys \in [Packages -> Installed]
    /\ sentinel \in Recoveries \cup {None}
    /\ runs \in 0 .. MaxRuns
    /\ pc \in PCs /\ (pc # "idle" => runs # 0)
    /\ mode \in Modes \cup {"repo"} /\ consult \in BOOLEAN
    /\ pass \in Passes /\ todo \subseteq Pkgs /\ packed \in Pkgs \cup {None}
    /\ snap \in [got : Versioned, cached : BOOLEAN]
    /\ added \subseteq Packages

\* A recovery: the packages it takes from the repositories, and the version
\* of those it takes from the pacman cache.
Online(ms)   == [sync |-> ms, to |-> Nothing]
Offline(got) == [sync |-> {}, to |-> got]

Init ==
    /\ src = 1
    /\ store = [data |-> None, sidecar |-> 0]
    /\ pkgdest = [p \in Pkgs |-> [v \in Versions |-> None]]
    /\ record = [p \in Pkgs |-> None]
    /\ cache = [p \in Pkgs |-> None]
    /\ tree = NoTree
    /\ \E have \in {h \in SUBSET Packages : Suite \subseteq h} :
          sys = [m \in Packages |-> IF m \in have THEN [v |-> 1, kind |-> "repo"] ELSE Absent]
    /\ sentinel = None
    /\ runs = 0 /\ pc = "idle"
    /\ mode = "pgo" /\ consult = FALSE /\ pass = "single" /\ todo = {} /\ packed = None
    /\ snap = Nobody /\ added = {}

\* Failures, refusals and the user's pacman stop before the last run.
May == runs < MaxRuns

Ends ==
    /\ pc' = "idle"
    /\ mode' = "pgo" /\ consult' = FALSE /\ pass' = "single" /\ todo' = {} /\ packed' = None
    /\ snap' = Nobody /\ added' = {}

Goto(l) == pc' = l /\ UNCHANGED local

\* Pass p begins: on its PKGBUILDs ps.
Begin(p, ps) ==
    /\ pc' = "build" /\ pass' = p /\ todo' = ps
    /\ UNCHANGED <<mode, consult, packed, snap, added>>

\* Pass 4 begins, where --reuse-built is first asked.
BeginPass4 ==
    /\ pc' = "build" /\ pass' = "optimize" /\ todo' = {Llvm}
    /\ consult' \in BOOLEAN
    /\ UNCHANGED <<mode, packed, snap, added>>

\* Every installed package of s that is older comes from the repositories.
Synced(s) == [m \in Packages |-> IF s[m] # Absent /\ s[m].v < src
                                 THEN [v |-> src, kind |-> "repo"] ELSE s[m]]
FromRepo(ms) == [m \in Packages |-> IF m \in ms THEN [v |-> src, kind |-> "repo"] ELSE sys[m]]
\* install_repo_pkgs (--needed): a package of that version is left alone.
Needed(ms)   == FromRepo({m \in ms : sys[m].v # src})

\* The archives of the pacman cache are the repositories'.
Restored(s, got) == [m \in Packages |-> IF got[m] = 0 THEN s[m]
                                        ELSE [v |-> got[m], kind |-> "repo"]]

\* A transaction that stops part way: pacman has replaced some packages.
Partly(to) == \E ms \in SUBSET Packages :
    sys' = [m \in Packages |-> IF m \in ms THEN to[m] ELSE sys[m]]

-----------------------------------------------------------------------------
(* Around a run                                                            *)

\* The user's pacman -Syu, between the stage's own transactions.  A build
\* reads nothing of sys: one that comes during it is one at its end.
Upgrade ==
    /\ May /\ sys # Synced(sys)
    /\ pc \in {"idle", "gates", "audit", "verify", "rollback", "restore"}
    /\ sys' = Synced(sys)
    /\ UNCHANGED <<src, files, sentinel, runs, pc, local>>

\* A record on file stops the next run until its recovery has succeeded.
Recover ==
    /\ pc = "idle" /\ sentinel # None
    /\ LET to == Restored(FromRepo(sentinel.sync), sentinel.to)
       IN \/ sys' = to /\ sentinel' = None
          \/ May /\ Partly(to) /\ UNCHANGED sentinel
    /\ UNCHANGED <<src, files, runs, pc, local>>

\* sync_pkgbuild_dirs: each checkout is synced once, for all its packages; a
\* status that blocks ends the run, any other leaves upstream's version or the
\* one at hand (--no-update, which the no-build modes imply, a diverged tree).
\* Another verb, or the user, may have moved it before.
SyncDirs == src' \in src .. MaxVersion

\* snapshot_suite: the version of every package that is installed.
Snapshot == [got |-> [m \in Packages |-> sys[m].v], cached |-> FALSE]

\* A run from source: the checkouts are synced, and what is installed is
\* noted before anything changes it.
Start(md) ==
    /\ pc = "idle" /\ sentinel = None /\ runs < MaxRuns
    /\ runs + 1 = MaxRuns => md = "pgo"
    /\ runs' = runs + 1
    /\ SyncDirs
    /\ pc' = "gates" /\ mode' = md
    /\ snap' = Snapshot
    /\ UNCHANGED <<files, machine, consult, pass, todo, packed, added>>

\* repo_mode = "pacman" without PGO: the suite from the repositories.
StartRepo ==
    /\ pc = "idle" /\ sentinel = None /\ runs + 1 < MaxRuns
    /\ runs' = runs + 1
    /\ pc' = "repo" /\ mode' = "repo"
    /\ sentinel' = Online(Packages)
    /\ UNCHANGED <<src, files, sys, consult, pass, todo, packed, snap, added>>

InstallRepo ==
    /\ pc = "repo"
    /\ \/ /\ sys' = Needed(Packages) /\ sentinel' = None
       \/ May /\ Partly(Needed(Packages)) /\ UNCHANGED sentinel
    /\ Ends
    /\ UNCHANGED <<src, files, runs>>

-----------------------------------------------------------------------------
(* Gate 1 and the choice of the build                                      *)

\* build_llvm_single: everything in one pass, nothing installed.
BuildSingle == Begin("single", Pkgs)

\* Under the lock, the build the configuration and the flags ask for.
Dispatch ==
    \/ mode = "pgo"    /\ Goto("profile")
    \/ mode = "single" /\ BuildSingle
    \/ mode \in {"bolt", "install"} /\ Goto("check")

\* The gates pass and the operator confirms; the lock is taken.
Confirm ==
    /\ pc = "gates"
    /\ Dispatch
    /\ UNCHANGED <<src, files, machine, runs>>

\* validate_pgo_environment: the installed compiler runs, which one of a mixed
\* suite does not.  The operator lets an instrumented library pass.
CompilerRuns == \A m, n \in Suite : sys[m].v = sys[n].v

\* Mutant: any profile will do.
ReadyAnyVersion == store.data # None /\ store.sidecar # 0

\* check_existing_profdata: a point release, or another pkgrel, is built with
\* the profile an earlier version of its major has left.
Ready == store.data # None /\ store.sidecar = Major[src]

ReuseProfile ==
    /\ pc = "profile" /\ CompilerRuns /\ Ready
    /\ BeginPass4
    /\ UNCHANGED <<src, files, machine, runs>>

\* Mutant: a profile of another major is refused, not replaced.
RetrainNone ==
    /\ pc = "profile" /\ CompilerRuns /\ store.data = None
    /\ Goto("purge")
    /\ UNCHANGED <<src, files, machine, runs>>

\* There is no profile to reuse, or the operator declines it, or
\* --rebuild-profdata was given.
Retrain ==
    /\ pc = "profile" /\ CompilerRuns /\ (Ready => May)
    /\ Goto("purge")
    /\ UNCHANGED <<src, files, machine, runs>>

\* empty_dir_contents, file by file
PurgeData ==
    /\ pc = "purge" /\ store.data # None
    /\ store' = [store EXCEPT !.data = None]
    /\ UNCHANGED <<src, pkgdest, record, cache, tree, machine, runs, pc, local>>

PurgeSidecar ==
    /\ pc = "purge" /\ store.sidecar # 0
    /\ store' = [store EXCEPT !.sidecar = 0]
    /\ UNCHANGED <<src, pkgdest, record, cache, tree, machine, runs, pc, local>>

StartPasses ==
    /\ pc = "purge" /\ store = [data |-> None, sidecar |-> 0]
    /\ Begin("instrument", {Llvm})
    /\ UNCHANGED <<src, files, machine, runs>>

-----------------------------------------------------------------------------
(* The passes                                                              *)

Product(p) == CASE p = "single"     -> "single"
                [] p = "instrument" -> "instrumented"
                [] p = "bootstrap"  -> "bootstrap"
                [] p = "train"      -> "training"
                [] OTHER            -> "optimized"
Final(p)   == p \in {"optimize", "rest"}
Variant(p) == CASE p = "single" -> "stock_llvm"
                [] Final(p)     -> "pgo_llvm"
                [] OTHER        -> "pgo_llvm_intermediate"

Made == [kind |-> Product(pass), prof |-> IF Final(pass) THEN store.data ELSE None]

\* Mutant: the packages in PKGDEST are not looked at.
HitUnseen(p) == cache[p] # None /\ cache[p].v = src /\ cache[p].prof = store.data

\* The recorded inputs are the ones at hand, and the packages are still the
\* recorded ones.
Hit(p) == /\ cache[p] # None
          /\ cache[p].v = src /\ cache[p].prof = store.data
          /\ pkgdest[p][src] = cache[p].art

ReuseBuilt(p) ==
    /\ pc = "build" /\ Final(pass) /\ consult /\ p \in todo /\ packed = None
    /\ Hit(p)
    /\ todo' = todo \ {p}
    /\ UNCHANGED <<src, files, machine, runs, pc, mode, consult, pass, packed, snap, added>>

Built == tree.v = src /\ tree.art = Made /\ ~tree.packed

\* makepkg compiles.  --emit-relocs is given when [bolt] is enabled.
Compile(p) ==
    /\ pc = "build" /\ p \in todo /\ packed = None
    /\ ~(Final(pass) /\ consult /\ Hit(p))
    /\ p = Llvm /\ ~Built
    /\ \E r \in BOOLEAN :
          tree' = [v |-> src, art |-> Made, relocs |-> r /\ pass = "optimize", packed |-> FALSE]
    /\ UNCHANGED <<src, store, pkgdest, record, cache, machine, runs, pc, local>>

\* ... and replaces the packages of that version in PKGDEST (--force).
Package(p) ==
    /\ pc = "build" /\ p \in todo /\ packed = None
    /\ ~(Final(pass) /\ consult /\ Hit(p))
    /\ p = Llvm => Built
    /\ tree' = IF p = Llvm THEN [tree EXCEPT !.packed = TRUE] ELSE tree
    /\ pkgdest' = [pkgdest EXCEPT ![p][src] = Made]
    /\ todo' = todo \ {p} /\ packed' = p
    /\ UNCHANGED <<src, store, record, cache, machine, runs, pc, mode, consult, pass, snap, added>>

\* The build is recorded, or that fails with a warning; a Pass-4 build is
\* then recorded in the reuse cache.
Record ==
    /\ pc = "build" /\ packed # None
    /\ \/ record' = [record EXCEPT ![packed] = [v |-> src, variant |-> Variant(pass)]]
       \/ May /\ record' = record
    /\ cache' = IF Final(pass)
                THEN [cache EXCEPT ![packed] =
                        [v |-> src, prof |-> store.data, art |-> pkgdest[packed][src]]]
                ELSE cache
    /\ packed' = None
    /\ UNCHANGED <<src, store, pkgdest, tree, machine, runs, pc, mode, consult, pass, todo,
                   snap, added>>

\* merge_profraw: what is in the store and not merged yet.
Merged(over) == [run |-> runs, v |-> src, whole |-> over]

\* profraw_merge_daemon, while Pass 3 runs
MergeSome ==
    /\ pc = "build" /\ pass = "train" /\ store.data = None
    /\ store' = [store EXCEPT !.data = Merged(FALSE)]
    /\ UNCHANGED <<src, pkgdest, record, cache, tree, machine, runs, pc, local>>

\* The last PKGBUILD of pass p is built.
Over(p) == pc = "build" /\ pass = p /\ todo = {} /\ packed = None

\* Pass 1's packages are staged, its stray samples purged: Pass 2 builds the
\* rest against them, uninstrumented.
Bootstrap ==
    /\ Over("instrument") /\ Begin("bootstrap", Others)
    /\ UNCHANGED <<src, files, machine, runs>>

\* Pass 3 compiles everything with the staged compiler, which writes samples.
Train ==
    /\ Over("bootstrap") /\ Begin("train", Pkgs)
    /\ UNCHANGED <<src, files, machine, runs>>

\* The extra corpus has been compiled or has failed; the daemon is joined.
Trained ==
    /\ Over("train") /\ Goto("merge")
    /\ UNCHANGED <<src, files, machine, runs>>

\* Pass 4a is over: BOLT, when enabled, has its tree.
Optimized ==
    /\ Over("optimize") /\ Goto("bolt")
    /\ UNCHANGED <<src, files, machine, runs>>

\* Everything is built, nothing installed.
AllBuilt ==
    /\ Over("single") \/ Over("rest")
    /\ Goto("audit")
    /\ UNCHANGED <<src, files, machine, runs>>

\* The last merge, after the daemon has been joined; the operator may decline
\* to go on with a profile that is too small.
MergeAll ==
    /\ pc = "merge"
    /\ store' = [store EXCEPT !.data = Merged(TRUE)]
    /\ Goto("sidecar")
    /\ UNCHANGED <<src, pkgdest, record, cache, tree, machine, runs>>

\* write_profdata_version notes the major; a failure is a warning
WriteSidecar ==
    /\ pc = "sidecar"
    /\ \/ store' = [store EXCEPT !.sidecar = Major[src]]
       \/ May /\ store' = store
    /\ BeginPass4
    /\ UNCHANGED <<src, pkgdest, record, cache, tree, machine, runs>>

-----------------------------------------------------------------------------
(* BOLT and the no-build modes                                             *)

\* _cycle: the tree was linked with its relocations kept, and rewriting it
\* comes to the end.
Boltable == tree.v = src /\ tree.relocs

\* optimize_in_build: the tree's libraries are rewritten, packaged again and
\* recorded.
Rewrite ==
    /\ Boltable
    /\ pkgdest' = [pkgdest EXCEPT ![Llvm][src] = [tree.art EXCEPT !.kind = "bolted"]]
    /\ record' = [record EXCEPT ![Llvm] = [v |-> src, variant |-> "pgo_llvm"]]

\* Passes 4b and 4c build against what 4a, or BOLT, has packaged.
BeginRest == Begin("rest", Others)

\* After Pass 4a: the run goes on without BOLT when that cannot be.
Bolt ==
    /\ pc = "bolt" /\ mode = "pgo"
    /\ Rewrite \/ UNCHANGED <<pkgdest, record>>
    /\ BeginRest
    /\ UNCHANGED <<src, store, cache, tree, machine, runs>>

\* --bolt-only has nothing else to do: it must succeed.
BoltOnly ==
    /\ pc = "bolt" /\ mode = "bolt"
    /\ Rewrite
    /\ Goto("audit")
    /\ UNCHANGED <<src, store, cache, tree, machine, runs>>

\* check_last_pgo_build
LastIsPgo == record[Llvm] = [v |-> src, variant |-> "pgo_llvm"]

\* check_bolt_only_tree
CheckBolt ==
    /\ pc = "check" /\ mode = "bolt"
    /\ LastIsPgo /\ tree.v = src /\ tree.relocs /\ tree.packed /\ pkgdest[Llvm][src] # None
    /\ Goto("bolt")
    /\ UNCHANGED <<src, files, machine, runs>>

CheckInstall ==
    /\ pc = "check" /\ mode = "install"
    /\ LastIsPgo /\ \A p \in Pkgs : pkgdest[p][src] # None
    /\ Goto("audit")
    /\ UNCHANGED <<src, files, machine, runs>>

-----------------------------------------------------------------------------
(* Audit, install, verification, rollback                                  *)

\* collect_pgo_packages: what PKGDEST holds of this version.  With a profile
\* from an earlier version that need not be every PKGBUILD's, and --bolt-only
\* looks at Llvm's alone; what there is no package of stays as it is.
Shipped == {m \in Packages : pkgdest[BaseOf(m)][src] # None}
BuiltSuite == [m \in Packages |->
    IF m \in Shipped THEN [v |-> src, kind |-> pkgdest[BaseOf(m)][src].kind] ELSE sys[m]]

\* snapshot_recovery: offline from the snapshot, if the cache held all of it
\* and nothing has to go first.
Recovery ==
    IF added' = {} /\ snap'.cached THEN Offline(snap.got) ELSE Online(Suite \cup added')

\* install_adds
Additions == Shipped \ Present(sys)

\* Gate 2 passes and sudo is at hand.  Which archives the cache held at the
\* start matters only from here.
Audit ==
    /\ pc = "audit"
    /\ added' = Additions
    /\ \E all \in BOOLEAN : snap' = [snap EXCEPT !.cached = all /\ snap.got # Nothing]
    /\ sentinel' = Recovery
    /\ pc' = "install"
    /\ UNCHANGED <<src, files, sys, runs, mode, consult, pass, todo, packed>>

Install ==
    /\ pc = "install"
    /\ \/ sys' = BuiltSuite /\ Goto("verify")
       \/ May /\ Partly(BuiltSuite) /\ Ends
    /\ UNCHANGED <<src, files, sentinel, runs>>

\* Gate 3 finds the suite whole: the scope ends, the run is over.
Verified ==
    /\ pc = "verify"
    /\ sentinel' = None /\ Ends
    /\ UNCHANGED <<src, files, sys, runs>>

\* verify_llvm_install or an installed consumer finds an issue.
Rejected ==
    /\ pc = "verify" /\ May
    /\ Goto("rollback")
    /\ UNCHANGED <<src, files, machine, runs>>

\* rollback_to_snapshot: what this run added goes first (-Rdd) ...
Rollback ==
    /\ pc = "rollback"
    /\ IF snap.cached
       THEN /\ sys' = [m \in Packages |-> IF m \in added THEN Absent ELSE sys[m]]
            /\ Goto("restore")
       ELSE UNCHANGED sys /\ Ends
    /\ UNCHANGED <<src, files, sentinel, runs>>

\* Mutant: the record goes whatever pacman said.
RestoreClearing ==
    /\ pc = "restore"
    /\ \/ sys' = Restored(sys, snap.got)
       \/ May /\ Partly(Restored(sys, snap.got))
    /\ sentinel' = None
    /\ Ends
    /\ UNCHANGED <<src, files, runs>>

\* ... then the snapshot is installed.  The run ends either way.
Restore ==
    /\ pc = "restore"
    /\ \/ sys' = Restored(sys, snap.got) /\ sentinel' = None
       \/ May /\ Partly(Restored(sys, snap.got)) /\ UNCHANGED sentinel
    /\ Ends
    /\ UNCHANGED <<src, files, runs>>

\* An error or a kill: what is on disk stays.
Fail ==
    /\ pc # "idle" /\ May
    /\ Ends
    /\ UNCHANGED <<src, files, machine, runs>>

-----------------------------------------------------------------------------
Work ==
    \/ InstallRepo \/ Confirm
    \/ ReuseProfile \/ Retrain \/ PurgeData \/ PurgeSidecar \/ StartPasses
    \/ \E p \in Pkgs : ReuseBuilt(p) \/ Compile(p) \/ Package(p)
    \/ Record \/ Bootstrap \/ Train \/ Trained \/ Optimized \/ AllBuilt
    \/ MergeAll \/ WriteSidecar
    \/ Bolt \/ BoltOnly \/ CheckBolt \/ CheckInstall
    \/ Audit \/ Install \/ Verified \/ Rejected \/ Rollback \/ Restore

Next ==
    \/ Work \/ MergeSome \/ Fail \/ Upgrade \/ Recover \/ StartRepo
    \/ \E m \in Modes : Start(m)

Spec == Init /\ [][Next]_vars

\* A run that was started goes on; a user who was stopped runs it again, after
\* the recovery.
FairSpec == Spec /\ WF_vars(Work) /\ WF_vars(Recover) /\ WF_vars(Start("pgo"))

-----------------------------------------------------------------------------
(* What an optimizing pass leaves was compiled with a complete profile of its
   own LLVM major, whatever run trained it, at whatever version of that major,
   and however earlier ones ended.                                         *)
OptimizedFits ==
    \A p \in Pkgs, v \in Versions :
        LET a == pkgdest[p][v] IN
        (a # None /\ a.kind \in Finished) =>
            a.prof # None /\ Major[a.prof.v] = Major[v] /\ a.prof.whole

(* What a PGO run installs is the product of its last passes, and all of it
   compiled with the profile at hand, reused builds included.              *)
BuiltAsOne ==
    (mode = "pgo" /\ pc \in {"audit", "install"}) =>
        \A p \in Pkgs : /\ pkgdest[p][src] # None
                        /\ pkgdest[p][src].kind \in Finished
                        /\ pkgdest[p][src].prof = store.data

(* A profile is applied whole, within its own major, and to all that is     *)
(* installed.                                                               *)
InstalledFits == OptimizedFits /\ BuiltAsOne

(* With no recovery on file the installed suite is whole: of one version, all
   from the repositories or all from here.                                 *)
WholeOrRecorded ==
    sentinel = None =>
        \A m, n \in Suite :
            sys[m].v = sys[n].v /\ (sys[m].kind = "repo") = (sys[n].kind = "repo")

(* --install-only "refuses when the last build isn't the optimized build of
   the version you have checked out (including a run that stopped before its
   final pass ...)" (docs/guides/pgo.md:589-591): what it installs is finished. *)
InstallsFinished ==
    (mode = "install" /\ pc = "install") =>
        \A p \in Pkgs : pkgdest[p][src].kind \in Finished

(* Nothing an earlier run left on disk keeps the last one from installing the
   optimized toolchain.                                                    *)
EventuallyOptimized ==
    (runs = MaxRuns) ~> (\A m \in Packages : sys[m].v = src /\ sys[m].kind \in Finished)
=============================================================================

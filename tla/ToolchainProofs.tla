-------------------------- MODULE ToolchainProofs --------------------------
(***************************************************************************)
(* For every number of versions and runs, failing or killed anywhere: with *)
(* no recovery on file the installed suite is whole, and what a finished   *)
(* pass leaves was compiled with one whole profile of its own LLVM major.  *)
(* PackInv says what PKGDEST holds by then, SysInv what a record and a     *)
(* snapshot are of, FilesInv what the files left by any run say of a       *)
(* profile, PassInv where the run stands towards it, and DoneInv which     *)
(* bases its last passes have finished.  And of UpdateSet: what is of one  *)
(* PKGBUILD is updated, or built and installed, as one, and the pre-flight *)
(* tells the truth.                                                        *)
(***************************************************************************)
EXTENDS Toolchain, UpdateSet, FiniteSetTheorems, WellFoundedInduction, TLAPS

-----------------------------------------------------------------------------
(* What is in PKGDEST *)

Packed(p) == pkgdest[p][src] # None

\* What the run has packaged, or found in the reuse cache, is there; so is
\* Llvm's package wherever the suite is rewritten or installed.
PackInv ==
    /\ tree.relocs => tree.art # None
    /\ \A p \in Pkgs : cache[p] # None => cache[p].art # None
    /\ packed # None => pc = "build" /\ Packed(packed)
    /\ pc = "build" /\ pass \in {"single", "optimize"} => Llvm \in todo \/ Packed(Llvm)
    /\ pc = "build" /\ pass = "rest" => Packed(Llvm)
    /\ pc \in {"bolt", "audit", "install"} => Packed(Llvm)

-----------------------------------------------------------------------------
(* The types *)

LEMMA TypeInit == Init => TypeOK
<1> SUFFICES ASSUME Init PROVE TypeOK
  OBVIOUS
<1> USE BoundsTyped DEF Init
<1>1. 1 \in Versions /\ 0 \in 0 .. MaxVersion /\ 0 \in 0 .. MaxRuns
  BY DEF Versions
<1>2. src \in Versions /\ store \in [data : Profile \cup {None}, sidecar : Nat]
  BY <1>1
<1>3. /\ pkgdest \in [Pkgs -> [Versions -> Artifact \cup {None}]]
      /\ record \in [Pkgs -> Recorded \cup {None}]
      /\ cache \in [Pkgs -> [v : Versions, prof : Profile \cup {None},
                             art : Artifact \cup {None}] \cup {None}]
  OBVIOUS
<1>4. tree \in [v : 0 .. MaxVersion, art : Artifact \cup {None},
                relocs : BOOLEAN, packed : BOOLEAN]
  BY <1>1 DEF NoTree
<1>5. sys \in [Packages -> Installed]
  <2>1. [v |-> 1, kind |-> "repo"] \in Installed /\ Absent \in Installed
    BY <1>1 DEF Installed
  <2> QED BY <2>1
<1>6. snap \in [got : Versioned, cached : BOOLEAN]
  BY <1>1 DEF Nobody, Nothing, Versioned
<1>7. sentinel \in Recoveries \cup {None} /\ runs \in 0 .. MaxRuns /\ pc = "idle" /\ pc \in PCs
  BY <1>1 DEF PCs
<1>8. /\ mode \in Modes \cup {"repo"} /\ consult \in BOOLEAN /\ pass \in Passes
      /\ todo \subseteq Pkgs /\ packed \in Pkgs \cup {None} /\ added \subseteq Packages
  BY DEF Modes, Passes
<1> QED
  BY <1>2, <1>3, <1>4, <1>5, <1>6, <1>7, <1>8 DEF TypeOK

TypedFiles ==
    /\ store \in [data : Profile \cup {None}, sidecar : Nat]
    /\ pkgdest \in [Pkgs -> [Versions -> Artifact \cup {None}]]
    /\ record \in [Pkgs -> Recorded \cup {None}]
    /\ cache \in [Pkgs -> [v : Versions, prof : Profile \cup {None},
                           art : Artifact \cup {None}] \cup {None}]
    /\ tree \in [v : 0 .. MaxVersion, art : Artifact \cup {None},
                 relocs : BOOLEAN, packed : BOOLEAN]
TypedSystem == sys \in [Packages -> Installed] /\ sentinel \in Recoveries \cup {None}
TypedRun ==
    /\ src \in Versions /\ runs \in 0 .. MaxRuns
    /\ pc \in PCs /\ (pc # "idle" => runs # 0)
    /\ mode \in Modes \cup {"repo"} /\ consult \in BOOLEAN
    /\ pass \in Passes /\ todo \subseteq Pkgs /\ packed \in Pkgs \cup {None}
    /\ snap \in [got : Versioned, cached : BOOLEAN]
    /\ added \subseteq Packages

LEMMA TypeParts == TypeOK = (TypedFiles /\ TypedSystem /\ TypedRun)
  BY DEF TypeOK, TypedFiles, TypedSystem, TypedRun

\* What a transaction installs.
LEMMA InstalledTypes ==
    ASSUME TypeOK
    PROVE  /\ Synced(sys) \in [Packages -> Installed]
           /\ \A ms : FromRepo(ms) \in [Packages -> Installed]
           /\ \A s \in [Packages -> Installed], got \in Versioned :
                 Restored(s, got) \in [Packages -> Installed]
<1>1. [v |-> src, kind |-> "repo"] \in Installed /\ Absent \in Installed
  BY DEF TypeOK, Installed
<1>2. sys \in [Packages -> Installed]
  BY DEF TypeOK
<1>3. ASSUME NEW s \in [Packages -> Installed], NEW got \in Versioned
      PROVE  Restored(s, got) \in [Packages -> Installed]
  <2>1. ASSUME NEW m \in Packages, got[m] # 0 PROVE [v |-> got[m], kind |-> "repo"] \in Installed
    <3>1. got[m] \in Versions
      BY <2>1, BoundsTyped DEF Versioned, Versions
    <3> QED BY <3>1 DEF Installed
  <2> QED BY <2>1 DEF Restored
<1> QED
  BY <1>1, <1>2, <1>3 DEF Synced, FromRepo

LEMMA PartlyTyped ==
    ASSUME TypeOK, NEW to \in [Packages -> Installed], Partly(to)
    PROVE  sys' \in [Packages -> Installed]
  BY DEF Partly, TypeOK

\* A pass moves on: the run's own variables.
LEMMA RunMoves ==
    ASSUME TypeOK, UNCHANGED <<src, runs>>
    PROVE  /\ Ends => TypedRun'
           /\ \A l \in PCs : Goto(l) /\ pc # "idle" => TypedRun'
           /\ \A p \in Passes, ps \in SUBSET Pkgs : Begin(p, ps) /\ pc # "idle" => TypedRun'
           /\ BeginPass4 /\ pc # "idle" => TypedRun'
<1> USE DEF TypeOK, TypedRun
<1>1. ASSUME Ends PROVE TypedRun'
  <2>1. Nobody \in [got : Versioned, cached : BOOLEAN]
    BY BoundsTyped DEF Nobody, Nothing, Versioned
  <2> QED BY <1>1, <2>1 DEF Ends, PCs, Modes, Passes
<1>2. ASSUME NEW l \in PCs, Goto(l), pc # "idle" PROVE TypedRun'
  BY <1>2 DEF Goto, local
<1>3. ASSUME NEW p \in Passes, NEW ps \in SUBSET Pkgs, Begin(p, ps), pc # "idle" PROVE TypedRun'
  BY <1>3 DEF Begin, PCs
<1>4. ASSUME BeginPass4, pc # "idle" PROVE TypedRun'
  BY <1>4 DEF BeginPass4, PCs, Passes, Pkgs
<1> QED BY <1>1, <1>2, <1>3, <1>4

\* What a pass packages, and what a merge leaves.
LEMMA MadeTyped == TypeOK => Made \in Artifact
  BY DEF TypeOK, Made, Artifact, Product, Kinds, Intermediate, Finished

LEMMA MergedTyped ==
    ASSUME TypeOK, pc # "idle", NEW over \in BOOLEAN
    PROVE  Merged(over) \in Profile /\ Merged(over) # None
<1>1. runs \in 1 .. MaxRuns
  BY BoundsTyped DEF TypeOK
<1> QED BY <1>1, NoneApart DEF Merged, Profile, TypeOK

LEMMA StoreTyped ==
    ASSUME TypeOK
    PROVE  /\ \A d \in Profile \cup {None} :
                 [store EXCEPT !.data = d] \in [data : Profile \cup {None}, sidecar : Nat]
           /\ \A v \in Nat :
                 [store EXCEPT !.sidecar = v] \in [data : Profile \cup {None}, sidecar : Nat]
           /\ src \in 0 .. MaxVersion /\ Major[src] \in Nat \ {0}
<1>1. store \in [data : Profile \cup {None}, sidecar : Nat]
  BY DEF TypeOK
<1>2. src \in 0 .. MaxVersion /\ Major[src] \in Nat \ {0}
  BY BoundsTyped, MajorsTyped DEF TypeOK, Versions
<1> QED BY <1>1, <1>2

\* The libraries BOLT has rewritten.
Bolted(a) == [a EXCEPT !.kind = "bolted"]
LEMMA BoltedTyped ==
    ASSUME NEW a \in Artifact
    PROVE  Bolted(a) \in Artifact /\ Bolted(a).kind = "bolted" /\ Bolted(a).prof = a.prof
  BY DEF Bolted, Artifact, Kinds, Finished

LEMMA TypeStep ==
    ASSUME TypeOK, PackInv, [Next]_vars
    PROVE  TypeOK'
<1>t. TypedFiles /\ TypedSystem /\ TypedRun
  BY TypeParts
<1>f. UNCHANGED files => TypedFiles'
  BY <1>t DEF files, TypedFiles
<1>m. UNCHANGED machine => TypedSystem'
  BY <1>t DEF machine, TypedSystem
<1>r. UNCHANGED <<src, runs, pc, local>> => TypedRun'
  BY <1>t DEF local, TypedRun
<1> SUFFICES TypedFiles' /\ TypedSystem' /\ TypedRun'
  BY TypeParts DEF TypeOK, TypedFiles, TypedSystem, TypedRun
<1>1. CASE Upgrade
  BY <1>1, <1>f, <1>r, <1>t, InstalledTypes DEF Upgrade, TypedSystem
<1>2. CASE Recover
  <2>1. sentinel \in Recoveries
    BY <1>2 DEF Recover, TypeOK
  <2>2. FromRepo(sentinel.sync) \in [Packages -> Installed] /\ sentinel.to \in Versioned
    BY <2>1, InstalledTypes DEF Recoveries
  <2>3. Restored(FromRepo(sentinel.sync), sentinel.to) \in [Packages -> Installed]
    BY <2>2, InstalledTypes
  <2>4. sys' \in [Packages -> Installed] /\ sentinel' \in {None, sentinel}
    BY <1>2, <2>3, PartlyTyped DEF Recover
  <2> QED BY <1>2, <1>f, <1>r, <2>1, <2>4 DEF Recover, TypedSystem
<1>3. CASE StartRepo
  <2>1. sentinel' \in Recoveries
    BY <1>3, BoundsTyped DEF StartRepo, Online, Recoveries, Nothing, Versioned
  <2>2. runs' \in 0 .. MaxRuns /\ runs' # 0
    BY <1>3, BoundsTyped DEF StartRepo, TypeOK
  <2> QED BY <1>3, <1>f, <1>t, <2>1, <2>2 DEF StartRepo, TypedSystem, TypedRun, PCs
<1>4. ASSUME NEW md \in Modes, Start(md) PROVE TypedFiles' /\ TypedSystem' /\ TypedRun'
  <2>1. runs' \in 0 .. MaxRuns /\ runs' # 0
    BY <1>4, BoundsTyped DEF Start, TypeOK
  <2>2. src' \in Versions
    BY <1>4, BoundsTyped DEF Start, SyncDirs, TypeOK, Versions
  <2>3. Snapshot \in [got : Versioned, cached : BOOLEAN]
    <3>1. \A m \in Packages : sys[m].v \in 0 .. MaxVersion
      BY BoundsTyped DEF TypeOK, Installed, Absent, Versions
    <3> QED BY <3>1 DEF Snapshot, Versioned
  <2> QED BY <1>4, <1>f, <1>m, <1>t, <2>1, <2>2, <2>3 DEF Start, TypedRun, PCs
<1>5. CASE InstallRepo
  <2>1. Needed(Packages) \in [Packages -> Installed]
    BY InstalledTypes DEF Needed
  <2>2. sys' \in [Packages -> Installed] /\ sentinel' \in {None, sentinel}
    BY <1>5, <2>1, PartlyTyped DEF InstallRepo
  <2> QED BY <1>5, <1>f, <1>t, <2>2, RunMoves DEF InstallRepo, TypedSystem
<1>6. CASE Confirm
  <2>1. "single" \in Passes /\ {"profile", "check"} \subseteq PCs /\ Pkgs \in SUBSET Pkgs
    BY DEF Passes, PCs
  <2> QED BY <1>6, <1>f, <1>m, <2>1, RunMoves DEF Confirm, Dispatch, BuildSingle
<1>7. CASE ReuseProfile \/ Retrain
  <2>1. "purge" \in PCs
    BY DEF PCs
  <2> QED BY <1>7, <1>f, <1>m, <2>1, RunMoves DEF ReuseProfile, Retrain
<1>8. CASE PurgeData \/ PurgeSidecar
  BY <1>8, <1>m, <1>r, <1>t, StoreTyped DEF PurgeData, PurgeSidecar, TypedFiles
<1>9. CASE StartPasses
  <2>1. "instrument" \in Passes /\ {Llvm} \in SUBSET Pkgs
    BY DEF Passes, Pkgs
  <2> QED BY <1>9, <1>f, <1>m, <2>1, RunMoves DEF StartPasses
<1>10. ASSUME NEW p \in Pkgs, ReuseBuilt(p) PROVE TypedFiles' /\ TypedSystem' /\ TypedRun'
  BY <1>10, <1>f, <1>m, <1>t DEF ReuseBuilt, TypedRun
<1>11. ASSUME NEW p \in Pkgs, Compile(p) PROVE TypedFiles' /\ TypedSystem' /\ TypedRun'
  <2>1. PICK r \in BOOLEAN :
           tree' = [v |-> src, art |-> Made, relocs |-> r /\ pass = "optimize", packed |-> FALSE]
    BY <1>11 DEF Compile
  <2>2. (r /\ pass = "optimize") \in BOOLEAN
    OBVIOUS
  <2>3. tree' \in [v : 0 .. MaxVersion, art : Artifact \cup {None},
                   relocs : BOOLEAN, packed : BOOLEAN]
    BY <2>1, <2>2, MadeTyped, StoreTyped
  <2> QED BY <1>11, <1>m, <1>r, <1>t, <2>3 DEF Compile, TypedFiles
<1>12. ASSUME NEW p \in Pkgs, Package(p) PROVE TypedFiles' /\ TypedSystem' /\ TypedRun'
  <2>1. src \in Versions /\ pkgdest' = [pkgdest EXCEPT ![p][src] = Made]
    BY <1>12 DEF Package, TypeOK
  <2>2. pkgdest' \in [Pkgs -> [Versions -> Artifact \cup {None}]]
    BY <1>t, <2>1, MadeTyped DEF TypedFiles
  <2>3. tree' \in [v : 0 .. MaxVersion, art : Artifact \cup {None},
                   relocs : BOOLEAN, packed : BOOLEAN]
    BY <1>12, <1>t DEF Package, TypedFiles
  <2> QED BY <1>12, <1>m, <1>t, <2>2, <2>3 DEF Package, TypedFiles, TypedRun
<1>13. CASE Record
  <2>1. packed \in Pkgs /\ src \in Versions
    BY <1>13 DEF Record, TypeOK
  <2>2. [v |-> src, variant |-> Variant(pass)] \in Recorded
    BY <2>1 DEF Variant, Variants, Recorded
  <2>3. record' \in [Pkgs -> Recorded \cup {None}]
    BY <1>13, <1>t, <2>1, <2>2 DEF Record, TypedFiles
  <2>4. [v |-> src, prof |-> store.data, art |-> pkgdest[packed][src]]
           \in [v : Versions, prof : Profile \cup {None}, art : Artifact \cup {None}]
    BY <1>t, <2>1 DEF TypedFiles
  <2>5. cache' \in [Pkgs -> [v : Versions, prof : Profile \cup {None},
                             art : Artifact \cup {None}] \cup {None}]
    BY <1>13, <1>t, <2>1, <2>4 DEF Record, TypedFiles
  <2> QED BY <1>13, <1>m, <1>t, <2>3, <2>5 DEF Record, TypedFiles, TypedRun
<1>14. CASE MergeSome
  BY <1>14, <1>m, <1>r, <1>t, StoreTyped, MergedTyped DEF MergeSome, TypedFiles
<1>15. CASE Bootstrap \/ Train
  <2>1. {"bootstrap", "train"} \subseteq Passes /\ {Others, Pkgs} \subseteq SUBSET Pkgs
    BY DEF Passes, Pkgs
  <2> QED BY <1>15, <1>f, <1>m, <2>1, RunMoves DEF Bootstrap, Train, Over
<1>16. CASE Trained \/ Optimized \/ AllBuilt
  <2>1. {"merge", "bolt", "audit"} \subseteq PCs
    BY DEF PCs
  <2> QED BY <1>16, <1>f, <1>m, <2>1, RunMoves DEF Trained, Optimized, AllBuilt, Over
<1>17. CASE MergeAll
  <2>1. "sidecar" \in PCs
    BY DEF PCs
  <2> QED BY <1>17, <1>m, <1>t, <2>1, RunMoves, StoreTyped, MergedTyped DEF MergeAll, TypedFiles
<1>18. CASE WriteSidecar
  BY <1>18, <1>m, <1>t, RunMoves, StoreTyped DEF WriteSidecar, TypedFiles
<1>19. CASE Bolt \/ BoltOnly
  <2>1. ASSUME Rewrite
        PROVE  /\ pkgdest' \in [Pkgs -> [Versions -> Artifact \cup {None}]]
               /\ record' \in [Pkgs -> Recorded \cup {None}]
    <3>1. tree.art \in Artifact /\ src \in Versions
      BY <2>1 DEF Rewrite, Boltable, PackInv, TypeOK
    <3>2. Bolted(tree.art) \in Artifact
      BY <3>1, BoltedTyped
    <3>3. pkgdest' \in [Pkgs -> [Versions -> Artifact \cup {None}]]
      BY <1>t, <2>1, <3>1, <3>2 DEF Rewrite, TypedFiles, Bolted
    <3>4. [v |-> src, variant |-> "pgo_llvm"] \in Recorded
      BY <3>1 DEF Variants, Recorded
    <3>5. record' = [record EXCEPT ![Llvm] = [v |-> src, variant |-> "pgo_llvm"]]
      BY <2>1 DEF Rewrite
    <3> QED BY <1>t, <3>3, <3>4, <3>5 DEF TypedFiles
  <2>2. {"audit"} \subseteq PCs /\ "rest" \in Passes /\ Others \in SUBSET Pkgs
    BY DEF PCs, Passes, Pkgs
  <2> QED BY <1>19, <1>m, <1>t, <2>1, <2>2, RunMoves DEF Bolt, BoltOnly, BeginRest, TypedFiles
<1>20. CASE CheckBolt \/ CheckInstall
  <2>1. {"bolt", "audit"} \subseteq PCs
    BY DEF PCs
  <2> QED BY <1>20, <1>f, <1>m, <2>1, RunMoves DEF CheckBolt, CheckInstall
<1>21. CASE Audit
  <2>1. snap' \in [got : Versioned, cached : BOOLEAN]
    BY <1>21 DEF Audit, TypeOK
  <2>2. added' \subseteq Packages
    BY <1>21 DEF Audit, Additions, Shipped
  <2>3. sentinel' \in Recoveries
    BY <1>21, <2>1, <2>2, BoundsTyped DEF Audit, Recovery, Online, Offline, Recoveries, Nothing,
       Versioned, Suite, Packages
  <2> QED BY <1>21, <1>f, <1>t, <2>1, <2>2, <2>3 DEF Audit, TypedSystem, TypedRun, PCs
<1>22. CASE Install
  <2>1. BuiltSuite \in [Packages -> Installed]
    <3>1. ASSUME NEW m \in Shipped
          PROVE  [v |-> src, kind |-> pkgdest[BaseOf(m)][src].kind] \in Installed
      <4>1. BaseOf(m) \in Pkgs /\ src \in Versions
        BY DEF Shipped, BaseOf, Packages, Pkgs, TypeOK
      <4>2. pkgdest[BaseOf(m)][src] \in Artifact
        BY <1>t, <4>1 DEF Shipped, TypedFiles
      <4>3. pkgdest[BaseOf(m)][src].kind \in Kinds
        BY <4>2 DEF Artifact
      <4> QED BY <4>1, <4>3 DEF Installed
    <3> QED BY <1>t, <3>1 DEF BuiltSuite, TypedSystem
  <2>2. "verify" \in PCs
    BY DEF PCs
  <2> QED BY <1>22, <1>f, <1>t, <2>1, <2>2, PartlyTyped, RunMoves DEF Install, TypedSystem
<1>23. CASE Verified
  BY <1>23, <1>f, <1>t, RunMoves DEF Verified, TypedSystem
<1>24. CASE Rejected
  <2>1. "rollback" \in PCs
    BY DEF PCs
  <2> QED BY <1>24, <1>f, <1>m, <2>1, RunMoves DEF Rejected
<1>25. CASE Rollback
  <2>1. "restore" \in PCs /\ Absent \in Installed
    BY DEF PCs, Installed
  <2> QED BY <1>25, <1>f, <1>t, <2>1, RunMoves DEF Rollback, TypedSystem
<1>26. CASE Restore
  <2>1. Restored(sys, snap.got) \in [Packages -> Installed]
    BY <1>t, InstalledTypes DEF TypedSystem, TypedRun
  <2> QED BY <1>26, <1>f, <1>t, <2>1, PartlyTyped, RunMoves DEF Restore, TypedSystem
<1>27. CASE Fail
  BY <1>27, <1>f, <1>m, RunMoves DEF Fail
<1>28. CASE UNCHANGED vars
  BY <1>28, <1>f, <1>m, <1>r DEF vars
<1> QED
  BY <1>1, <1>2, <1>3, <1>4, <1>5, <1>6, <1>7, <1>8, <1>9, <1>10, <1>11, <1>12, <1>13,
     <1>14, <1>15, <1>16, <1>17, <1>18, <1>19, <1>20, <1>21, <1>22, <1>23, <1>24, <1>25,
     <1>26, <1>27, <1>28 DEF Next, Work

\* Only Pass 4a keeps the relocations.
LEMMA CompiledTree ==
    ASSUME NEW p \in Pkgs, Compile(p)
    PROVE  /\ tree'.v = src /\ tree'.art = Made
           /\ tree'.relocs => pass = "optimize"
<1>1. PICK r \in BOOLEAN :
         tree' = [v |-> src, art |-> Made, relocs |-> r /\ pass = "optimize", packed |-> FALSE]
  BY DEF Compile
<1>2. tree'.relocs = (r /\ pass = "optimize")
  BY <1>1
<1> QED BY <1>1, <1>2

LEMMA PackInit == Init => PackInv
  BY DEF Init, PackInv, NoTree, Pkgs

\* A step that replaces packages replaces some that were there, or a build's.
LEMMA PackageStays ==
    ASSUME TypeOK, PackInv, NEW p \in Pkgs, NEW v \in Versions, pkgdest[p][v] # None,
           [Next]_vars
    PROVE  pkgdest'[p][v] # None
<1>1. ASSUME NEW q \in Pkgs, NEW a \in Artifact,
             pkgdest' = [pkgdest EXCEPT ![q][src] = a]
      PROVE  pkgdest'[p][v] # None
  BY <1>1, NoneApart DEF TypeOK
<1>2. ASSUME UNCHANGED pkgdest PROVE pkgdest'[p][v] # None
  BY <1>2
<1>3. ASSUME Rewrite PROVE pkgdest'[p][v] # None
  <2>1. Bolted(tree.art) \in Artifact /\ Llvm \in Pkgs
    BY <1>3, BoltedTyped DEF Rewrite, Boltable, PackInv, TypeOK, Pkgs
  <2> QED BY <1>1, <1>3, <2>1 DEF Rewrite, Bolted
<1>4. CASE \E q \in Pkgs : Package(q)
  BY <1>1, <1>4, MadeTyped DEF Package
<1>5. CASE Bolt \/ BoltOnly
  BY <1>2, <1>3, <1>5 DEF Bolt, BoltOnly
<1>6. CASE InstallRepo \/ Confirm \/ ReuseProfile \/ Retrain \/ PurgeData \/ PurgeSidecar
           \/ StartPasses \/ (\E q \in Pkgs : ReuseBuilt(q) \/ Compile(q)) \/ Record
  BY <1>2, <1>6 DEF InstallRepo, Confirm, ReuseProfile, Retrain, PurgeData, PurgeSidecar,
     StartPasses, ReuseBuilt, Compile, Record, files
<1>7. CASE Bootstrap \/ Train \/ Trained \/ Optimized \/ AllBuilt \/ MergeAll \/ WriteSidecar
           \/ CheckBolt \/ CheckInstall \/ MergeSome
  BY <1>2, <1>7 DEF Bootstrap, Train, Trained, Optimized, AllBuilt, MergeAll, WriteSidecar,
     CheckBolt, CheckInstall, MergeSome, files
<1>8. CASE Audit \/ Install \/ Verified \/ Rejected \/ Rollback \/ Restore \/ Fail \/ Upgrade
           \/ Recover \/ StartRepo \/ (\E m \in Modes : Start(m)) \/ UNCHANGED vars
  BY <1>2, <1>8 DEF Audit, Install, Verified, Rejected, Rollback, Restore, Fail, Upgrade,
     Recover, StartRepo, Start, vars, files
<1> QED
  BY <1>4, <1>5, <1>6, <1>7, <1>8 DEF Next, Work

\* A step that builds nothing: what was packaged is of no more use than where
\* the run goes on to.
LEMMA PackFrame ==
    ASSUME PackInv, UNCHANGED <<tree, cache, pkgdest>>,
           packed' = None \/ (packed' = packed /\ pc' = "build" /\ src' = src),
           pc' \in {"build", "bolt", "audit", "install"} => src' = src,
           pc' = "build" /\ pass' \in {"single", "optimize"} => Llvm \in todo' \/ Packed(Llvm),
           pc' = "build" /\ pass' = "rest" => Packed(Llvm),
           pc' \in {"bolt", "audit", "install"} => Packed(Llvm)
    PROVE  PackInv'
  BY DEF PackInv, Packed

LEMMA PackStep ==
    ASSUME TypeOK, PackInv, [Next]_vars
    PROVE  PackInv'
<1>v. src \in Versions /\ Llvm \in Pkgs /\ Llvm \notin Others
  BY LlvmApart DEF TypeOK, Pkgs
<1>g. \A p \in Pkgs : pkgdest[p][src] # None => pkgdest'[p][src] # None
  BY <1>v, PackageStays
<1>k. pc # "build" => packed = None
  BY DEF PackInv
<1>1. CASE InstallRepo \/ Verified \/ Restore \/ Fail
  BY <1>1, PackFrame DEF InstallRepo, Verified, Restore, Fail, Ends, files
<1>2. CASE Confirm
  BY <1>2, <1>k, <1>v, PackFrame DEF Confirm, Dispatch, Goto, BuildSingle, Begin, files, local
<1>3. CASE ReuseProfile \/ Retrain \/ StartPasses
  BY <1>3, <1>k, PackFrame DEF ReuseProfile, BeginPass4, Retrain, StartPasses, Goto, Begin,
     files, local
<1>4. CASE PurgeData \/ PurgeSidecar
  BY <1>4, <1>k, PackFrame DEF PurgeData, PurgeSidecar, local
<1>5. ASSUME NEW p \in Pkgs, ReuseBuilt(p) PROVE PackInv'
  <2>1. /\ UNCHANGED <<tree, cache, pkgdest, src, pc, pass, packed>>
        /\ pc = "build" /\ todo' = todo \ {p} /\ pkgdest[p][src] = cache[p].art
        /\ cache[p] # None
    BY <1>5 DEF ReuseBuilt, Hit, files
  <2>2. Packed(p)
    BY <2>1 DEF PackInv, Packed
  <2>3. pass \in {"single", "optimize"} => Llvm \in todo' \/ Packed(Llvm)
    BY <2>1, <2>2 DEF PackInv
  <2>4. pass = "rest" => Packed(Llvm)
    BY <2>1 DEF PackInv
  <2> QED BY <2>1, <2>3, <2>4, PackFrame
<1>6. ASSUME NEW p \in Pkgs, Compile(p) PROVE PackInv'
  <2>1. tree'.art = Made /\ Made # None
    BY <1>6, CompiledTree, MadeTyped, NoneApart
  <2>2. UNCHANGED <<src, pkgdest, cache, pc, local>>
    BY <1>6 DEF Compile
  <2> QED BY <2>1, <2>2 DEF PackInv, Packed, local
<1>7. ASSUME NEW p \in Pkgs, Package(p) PROVE PackInv'
  <2>1. Made # None /\ pkgdest'[p][src] = Made
    BY <1>7, <1>v, MadeTyped, NoneApart DEF Package, TypeOK
  <2>2. tree'.relocs = tree.relocs /\ tree'.art = tree.art
    BY <1>7 DEF Package, TypeOK
  <2>3. /\ UNCHANGED <<src, cache, pc, pass>> /\ pc = "build"
        /\ packed' = p /\ todo' = todo \ {p}
    BY <1>7 DEF Package
  <2> QED BY <1>g, <1>v, <2>1, <2>2, <2>3 DEF PackInv, Packed
<1>8. CASE Record
  <2>1. /\ UNCHANGED <<src, tree, pkgdest, pc, pass, todo>> /\ pc = "build" /\ packed' = None
        /\ packed \in Pkgs /\ pkgdest[packed][src] # None
    BY <1>8 DEF Record, PackInv, Packed, TypeOK
  <2>2. \A p \in Pkgs : cache'[p] = cache[p] \/ cache'[p].art = pkgdest[packed][src]
    BY <1>8, <2>1 DEF Record, TypeOK
  <2>3. \A p \in Pkgs : cache'[p] # None => cache'[p].art # None
    BY <2>1, <2>2 DEF PackInv
  <2> QED BY <2>1, <2>3 DEF PackInv, Packed
<1>9. CASE Bootstrap \/ Train
  BY <1>9, PackFrame DEF Bootstrap, Train, Begin, Over, files
<1>10. CASE Trained
  BY <1>10, PackFrame DEF Trained, Over, Goto, local, files
<1>11. CASE Optimized \/ AllBuilt
  <2>1. Packed(Llvm)
    BY <1>11 DEF Optimized, AllBuilt, Over, PackInv
  <2> QED BY <1>11, <2>1, PackFrame DEF Optimized, AllBuilt, Over, Goto, local, files
<1>12. CASE MergeAll \/ WriteSidecar
  BY <1>12, <1>k, PackFrame DEF MergeAll, WriteSidecar, BeginPass4, Goto, local
<1>13. CASE MergeSome
  <2>1. /\ UNCHANGED <<src, tree, cache, pkgdest, pc, pass, todo, packed>>
        /\ pc = "build" /\ pass = "train"
    BY <1>13 DEF MergeSome, local
  <2> QED BY <2>1, PackFrame
<1>14. CASE Bolt \/ BoltOnly
  <2>1. /\ pc = "bolt" /\ pc' \in {"build", "audit"} /\ (pc' = "build" => pass' = "rest")
        /\ UNCHANGED <<src, cache, tree, packed>>
    BY <1>14 DEF Bolt, BoltOnly, BeginRest, Begin, Goto, local
  <2>2. pkgdest'[Llvm][src] # None /\ packed' = None
    BY <1>g, <1>k, <1>v, <2>1 DEF PackInv, Packed
  <2> QED BY <2>1, <2>2 DEF PackInv, Packed
<1>15. CASE CheckBolt \/ CheckInstall
  <2>1. Packed(Llvm)
    BY <1>15, <1>v DEF CheckBolt, CheckInstall, Packed
  <2> QED BY <1>15, <1>k, <2>1, PackFrame DEF CheckBolt, CheckInstall, Goto, local, files
<1>16. CASE Audit
  <2>1. Packed(Llvm)
    BY <1>16 DEF Audit, PackInv
  <2> QED BY <1>16, <1>k, <2>1, PackFrame DEF Audit, files
<1>17. CASE Install \/ Rejected \/ Rollback
  BY <1>17, <1>k, PackFrame DEF Install, Rejected, Rollback, Goto, Ends, local, files
<1>18. CASE Upgrade \/ Recover \/ UNCHANGED vars
  BY <1>18 DEF Upgrade, Recover, vars, local, files, PackInv, Packed
<1>19. CASE StartRepo \/ \E m \in Modes : Start(m)
  <2>1. /\ pc = "idle" /\ pc' \in {"repo", "gates"} /\ packed' = packed
        /\ UNCHANGED <<tree, cache, pkgdest>>
    BY <1>19 DEF StartRepo, Start, files
  <2> QED BY <1>k, <2>1, PackFrame
<1> QED
  BY <1>1, <1>2, <1>3, <1>4, <1>5, <1>6, <1>7, <1>8, <1>9, <1>10, <1>11, <1>12, <1>13,
     <1>14, <1>15, <1>16, <1>17, <1>18, <1>19 DEF Next, Work

-----------------------------------------------------------------------------
(* The suite *)

Whole(s) == \A m, n \in Suite :
               s[m].v = s[n].v /\ (s[m].kind = "repo") = (s[n].kind = "repo")

\* Versions of a suite that was installed whole.
Even(got) == got[libs] = got[clang] /\ got[libs] # 0

SysInv ==
    /\ Suite \subseteq Present(sys)
    /\ sentinel = None => Whole(sys)
    /\ pc \in {"repo", "verify"} => Whole(sys)
    /\ pc \in {"repo", "install", "verify", "rollback", "restore"} => sentinel # None
    /\ pc \notin {"idle", "repo"} => Even(snap.got)
    /\ added \cap Suite = {}
    /\ sentinel # None =>
          \/ Suite \subseteq sentinel.sync /\ sentinel.to = Nothing
          \/ Even(sentinel.to)


LEMMA SysInit == Init => SysInv
<1> SUFFICES ASSUME Init PROVE SysInv
  OBVIOUS
<1>1. PICK have \in SUBSET Packages :
         /\ Suite \subseteq have
         /\ sys = [m \in Packages |-> IF m \in have THEN [v |-> 1, kind |-> "repo"] ELSE Absent]
  BY DEF Init
<1>2. \A m \in Suite : m \in Packages /\ sys[m] = [v |-> 1, kind |-> "repo"]
  BY <1>1 DEF Suite, Packages
<1>3. \A m \in Suite : sys[m].v = 1 /\ sys[m].kind = "repo"
  BY <1>2
<1>4. Suite \subseteq Present(sys)
  BY <1>2 DEF Present, Absent
<1> QED
  BY <1>3, <1>4 DEF Init, SysInv, Whole

\* A package that is there has a version, one that is not has none.
LEMMA AbsentHasNone ==
    ASSUME TypeOK, NEW m \in Packages
    PROVE  (sys[m] = Absent) = (sys[m].v = 0)
<1>1. sys[m] \in Installed
  BY DEF TypeOK
<1> QED
  BY <1>1 DEF Installed, Absent, Versions

(* A whole suite stays whole through the user's pacman -Syu. *)
LEMMA SyncedWhole ==
    ASSUME TypeOK, Suite \subseteq Present(sys)
    PROVE  /\ Suite \subseteq Present(Synced(sys))
           /\ Whole(sys) => Whole(Synced(sys))
<1>1. ASSUME NEW m \in Suite
      PROVE  Synced(sys)[m] = IF sys[m].v < src THEN [v |-> src, kind |-> "repo"] ELSE sys[m]
  BY <1>1 DEF Synced, Present, Suite, Packages
<1>2. [v |-> src, kind |-> "repo"] # Absent
  BY DEF Absent, TypeOK, Versions
<1> QED
  BY <1>1, <1>2 DEF Present, Whole, Suite, Packages

(* The recoveries: what the suite is once one has come to its end. *)
LEMMA FromRepoWhole ==
    ASSUME TypeOK, NEW ms, Suite \subseteq ms
    PROVE  \A m \in Suite : FromRepo(ms)[m] = [v |-> src, kind |-> "repo"]
  BY DEF FromRepo, Suite, Packages

LEMMA RestoredWhole ==
    ASSUME NEW s, NEW got, Even(got)
    PROVE  \A m \in Suite : Restored(s, got)[m] = [v |-> got[m], kind |-> "repo"]
  BY DEF Restored, Even, Suite, Packages

LEMMA RestoredNothing ==
    ASSUME NEW s
    PROVE  \A m \in Suite : Restored(s, Nothing)[m] = s[m]
  BY DEF Restored, Nothing, Suite, Packages

LEMMA SuiteOfOne ==
    ASSUME NEW s \in [Packages -> Installed], NEW w,
           \A m \in Suite : s[m] = [v |-> w, kind |-> "repo"], w # 0
    PROVE  Suite \subseteq Present(s) /\ Whole(s)
<1>1. \A m \in Suite : m \in Packages /\ s[m].v = w /\ s[m].kind = "repo"
  BY DEF Suite, Packages
<1>2. Absent.v = 0
  BY DEF Absent
<1> QED BY <1>1, <1>2 DEF Present, Whole

LEMMA PartlyPresent ==
    ASSUME NEW to, Suite \subseteq Present(to), Suite \subseteq Present(sys), Partly(to)
    PROVE  Suite \subseteq Present(sys')
<1>1. \A m \in Suite : m \in Packages
  BY DEF Suite, Packages
<1>2. PICK ms \in SUBSET Packages :
         sys' = [m \in Packages |-> IF m \in ms THEN to[m] ELSE sys[m]]
  BY DEF Partly
<1>3. ASSUME NEW m \in Suite PROVE m \in Packages /\ sys'[m] # Absent
  BY <1>1, <1>2, <1>3 DEF Present
<1> QED BY <1>3 DEF Present

LEMMA OnlineRecords ==
    ASSUME NEW ms \in SUBSET Packages
    PROVE  /\ Online(ms) # None
           /\ Suite \subseteq ms =>
                 Suite \subseteq Online(ms).sync /\ Online(ms).to = Nothing
<1>1. Nothing \in Versioned
  BY BoundsTyped DEF Nothing, Versioned
<1> QED
  BY <1>1, NoneApart DEF Online, Recoveries

LEMMA OfflineRecords ==
    ASSUME NEW got \in Versioned
    PROVE  Offline(got) # None /\ Offline(got).to = got
  BY NoneApart DEF Offline, Recoveries

\* A run's own passes touch neither the system nor what is on file of it.
LEMMA SysFrame ==
    ASSUME SysInv, UNCHANGED <<machine, snap, added>>, pc \notin {"idle", "repo"},
           pc' \notin {"idle", "repo", "install", "verify", "rollback", "restore"}
    PROVE  SysInv'
  BY DEF SysInv, machine, Even

\* A run ends with a record on file, or a suite that is whole.
LEMMA SysEnds ==
    ASSUME SysInv, Ends, UNCHANGED sentinel \/ sentinel' = None,
           Suite \subseteq Present(sys'), sentinel' = None => Whole(sys')
    PROVE  SysInv'
  BY DEF SysInv, Ends, Even

LEMMA SysStep ==
    ASSUME TypeOK, TypeOK', PackInv, SysInv, [Next]_vars
    PROVE  SysInv'
<1>s. Suite \subseteq Packages
  BY DEF Suite, Packages
<1>0. src # 0
  BY DEF TypeOK, Versions
<1>1. CASE Upgrade
  <2>1. /\ sys' = Synced(sys)
        /\ UNCHANGED <<sentinel, pc, snap, added>>
    BY <1>1 DEF Upgrade, local
  <2>2. Suite \subseteq Present(sys') /\ (Whole(sys) => Whole(sys'))
    BY <2>1, SyncedWhole DEF SysInv
  <2> QED BY <2>1, <2>2 DEF SysInv, Even
<1>2. CASE Recover
  <2> DEFINE to == Restored(FromRepo(sentinel.sync), sentinel.to)
  <2>1. /\ pc = "idle" /\ sentinel # None /\ UNCHANGED <<pc, snap, added>>
        /\ \/ sys' = to /\ sentinel' = None
           \/ Partly(to) /\ UNCHANGED sentinel
    BY <1>2 DEF Recover, local
  <2>2. PICK w : w # 0 /\ \A m \in Suite : to[m] = [v |-> w, kind |-> "repo"]
    <3>1. CASE Suite \subseteq sentinel.sync /\ sentinel.to = Nothing
      <4>1. \A m \in Suite : FromRepo(sentinel.sync)[m] = [v |-> src, kind |-> "repo"]
        BY <3>1, FromRepoWhole
      <4>2. \A m \in Suite : to[m] = FromRepo(sentinel.sync)[m]
        BY <3>1, RestoredNothing
      <4> QED BY <1>0, <4>1, <4>2
    <3>2. CASE Even(sentinel.to)
      <4>1. \A m \in Suite : to[m] = [v |-> sentinel.to[m], kind |-> "repo"]
        BY <3>2, RestoredWhole
      <4>2. \A m \in Suite : sentinel.to[m] = sentinel.to[libs] /\ sentinel.to[libs] # 0
        BY <3>2 DEF Even, Suite
      <4>3. sentinel.to[libs] # 0
        BY <3>2 DEF Even
      <4> HIDE DEF to
      <4>4. \A m \in Suite : to[m] = [v |-> sentinel.to[libs], kind |-> "repo"]
        BY <4>1, <4>2
      <4> QED BY <4>3, <4>4
    <3> QED BY <2>1, <3>1, <3>2 DEF SysInv
  <2>3. Suite \subseteq Present(to) /\ Whole(to)
    <3>1. \A m \in Suite : m \in Packages /\ to[m].v = w /\ to[m].kind = "repo" /\ Absent.v = 0
      BY <1>s, <2>2 DEF Absent
    <3> HIDE DEF to
    <3> QED BY <2>2, <3>1 DEF Present, Whole
  <2> HIDE DEF to
  <2>4. Suite \subseteq Present(sys')
    BY <2>1, <2>3, PartlyPresent DEF SysInv
  <2> QED BY <2>1, <2>3, <2>4 DEF SysInv, Even
<1>3. CASE StartRepo
  <2>1. sentinel' # None /\ Suite \subseteq sentinel'.sync /\ sentinel'.to = Nothing
    BY <1>3, <1>s, OnlineRecords DEF StartRepo
  <2> QED BY <1>3, <2>1 DEF StartRepo, SysInv, Even
<1>4. ASSUME NEW md \in Modes, Start(md) PROVE SysInv'
  <2>1. sentinel = None /\ UNCHANGED machine /\ pc' = "gates" /\ snap' = Snapshot /\ added' = added
    BY <1>4 DEF Start
  <2>2. Even(snap'.got)
    <3>1. libs \in Suite /\ clang \in Suite /\ libs \in Packages /\ clang \in Packages
      BY DEF Suite, Packages
    <3>2. sys[libs].v = sys[clang].v /\ sys[libs].v # 0
      BY <2>1, <3>1, AbsentHasNone DEF SysInv, Whole, Present
    <3> QED BY <2>1, <3>1, <3>2 DEF Snapshot, Even
  <2> QED BY <2>1, <2>2 DEF SysInv, machine
<1>5. CASE InstallRepo
  <2>1. /\ pc = "repo" /\ Ends
        /\ \/ sys' = Needed(Packages) /\ sentinel' = None
           \/ Partly(Needed(Packages)) /\ UNCHANGED sentinel
    BY <1>5 DEF InstallRepo
  <2>2. ASSUME NEW m \in Suite
        PROVE  Needed(Packages)[m] = IF sys[m].v # src THEN [v |-> src, kind |-> "repo"] ELSE sys[m]
    BY <1>s, <2>2 DEF Needed, FromRepo
  <2>3. Whole(sys) /\ Suite \subseteq Present(sys)
    BY <2>1 DEF SysInv
  <2>4. [v |-> src, kind |-> "repo"] # Absent
    BY <1>0 DEF Absent
  <2>5. Suite \subseteq Present(Needed(Packages)) /\ Whole(Needed(Packages))
    BY <1>s, <2>2, <2>3, <2>4 DEF Present, Whole
  <2>6. Suite \subseteq Present(sys')
    BY <2>1, <2>3, <2>5, PartlyPresent
  <2>7. sentinel # None
    BY <2>1 DEF SysInv
  <2> QED BY <2>1, <2>5, <2>6, <2>7, SysEnds
<1>6. CASE Confirm
  BY <1>6, SysFrame DEF Confirm, Dispatch, Goto, local, BuildSingle, Begin
<1>7. CASE ReuseProfile \/ Retrain \/ PurgeData \/ PurgeSidecar \/ StartPasses
  BY <1>7, SysFrame DEF ReuseProfile, BeginPass4, Retrain, Goto, PurgeData, PurgeSidecar,
     StartPasses, Begin, local
<1>8. CASE \E p \in Pkgs : ReuseBuilt(p) \/ Compile(p) \/ Package(p)
  BY <1>8, SysFrame DEF ReuseBuilt, Compile, Package, local
<1>9. CASE Record \/ Bootstrap \/ Train \/ Trained \/ Optimized
  BY <1>9, SysFrame DEF Record, Bootstrap, Train, Trained, Optimized, Over, Begin, Goto, local
<1>10. CASE AllBuilt \/ MergeAll \/ WriteSidecar \/ MergeSome
  BY <1>10, SysFrame DEF AllBuilt, MergeAll, WriteSidecar, MergeSome, Over, BeginPass4,
     Goto, local
<1>11. CASE Bolt \/ BoltOnly \/ CheckBolt \/ CheckInstall
  BY <1>11, SysFrame DEF Bolt, BoltOnly, CheckBolt, CheckInstall, BeginRest, Begin, Goto, local
<1>12. CASE Audit
  <2>1. /\ pc = "audit" /\ added' = Additions /\ sentinel' = Recovery
        /\ pc' = "install" /\ UNCHANGED sys
    BY <1>12 DEF Audit
  <2>2. snap'.got = snap.got
    BY <1>12 DEF Audit, TypeOK
  <2>3. added' \in SUBSET Packages /\ added' \cap Suite = {}
    BY <2>1 DEF Additions, Shipped, SysInv
  <2>4. \/ sentinel' = Offline(snap.got)
        \/ sentinel' = Online(Suite \cup added')
    BY <2>1, <2>2 DEF Recovery
  <2>5. snap.got \in Versioned /\ Even(snap.got)
    BY <2>1 DEF TypeOK, SysInv
  <2>6. /\ sentinel' # None
        /\ \/ Suite \subseteq sentinel'.sync /\ sentinel'.to = Nothing
           \/ Even(sentinel'.to)
    BY <1>s, <2>3, <2>4, <2>5, OnlineRecords, OfflineRecords
  <2> QED BY <2>1, <2>2, <2>3, <2>5, <2>6 DEF SysInv, Even
<1>13. CASE Install
  <2>1. ASSUME NEW m \in Suite
        PROVE  m \in Packages /\ BuiltSuite[m] = [v |-> src, kind |-> pkgdest[Llvm][src].kind]
    <3>1. m \in Packages /\ BaseOf(m) = Llvm
      BY <1>s, <2>1 DEF BaseOf, Suite
    <3>2. m \in Shipped
      BY <1>13, <3>1 DEF Install, PackInv, Packed, Shipped
    <3> QED BY <3>1, <3>2 DEF BuiltSuite
  <2>2. [v |-> src, kind |-> pkgdest[Llvm][src].kind] # Absent
    BY <1>0 DEF Absent
  <2>3. Suite \subseteq Present(BuiltSuite) /\ Whole(BuiltSuite)
    BY <2>1, <2>2 DEF Present, Whole
  <2>4. CASE sys' = BuiltSuite /\ Goto("verify") /\ UNCHANGED sentinel
    BY <1>13, <2>3, <2>4 DEF Install, Goto, local, SysInv, Even
  <2>5. CASE Partly(BuiltSuite) /\ Ends /\ UNCHANGED sentinel
    <3>1. Suite \subseteq Present(sys') /\ sentinel # None
      BY <1>13, <2>3, <2>5, PartlyPresent DEF Install, SysInv
    <3> QED BY <2>5, <3>1, SysEnds
  <2> QED BY <1>13, <2>4, <2>5 DEF Install
<1>14. CASE Verified
  <2>1. Whole(sys') /\ Suite \subseteq Present(sys')
    BY <1>14 DEF Verified, SysInv
  <2> QED BY <1>14, <2>1, SysEnds DEF Verified
<1>15. CASE Rejected
  BY <1>15 DEF Rejected, Goto, local, machine, SysInv, Even
<1>16. CASE Rollback
  <2>1. ASSUME sys' = [m \in Packages |-> IF m \in added THEN Absent ELSE sys[m]]
        PROVE  Suite \subseteq Present(sys')
    <3>1. \A m \in Suite : sys'[m] = sys[m] /\ m \in Packages
      BY <1>s, <2>1 DEF SysInv
    <3> QED BY <3>1 DEF Present, SysInv
  <2>2. Suite \subseteq Present(sys')
    BY <1>16, <2>1 DEF Rollback, SysInv
  <2>3. sentinel # None
    BY <1>16 DEF Rollback, SysInv
  <2>4. CASE Goto("restore")
    BY <1>16, <2>2, <2>3, <2>4 DEF Rollback, Goto, local, SysInv, Even
  <2>5. CASE Ends
    BY <1>16, <2>2, <2>3, <2>5, SysEnds DEF Rollback
  <2> QED BY <1>16, <2>4, <2>5 DEF Rollback
<1>17. CASE Restore
  <2> DEFINE to == Restored(sys, snap.got)
  <2>1. /\ Ends
        /\ \/ sys' = to /\ sentinel' = None
           \/ Partly(to) /\ UNCHANGED sentinel
    BY <1>17 DEF Restore
  <2>2. Even(snap.got) /\ sentinel # None
    BY <1>17 DEF Restore, SysInv
  <2>3. \A m \in Suite : to[m] = [v |-> snap.got[libs], kind |-> "repo"]
    BY <2>2, RestoredWhole DEF Even, Suite
  <2>4. \A m \in Suite : m \in Packages /\ to[m].v = snap.got[libs] /\ to[m].kind = "repo" /\ Absent.v = 0
    BY <1>s, <2>3 DEF Absent
  <2> HIDE DEF to
  <2>5. Suite \subseteq Present(to) /\ Whole(to)
    BY <2>2, <2>4 DEF Present, Whole, Even
  <2>6. Suite \subseteq Present(sys')
    BY <2>1, <2>5, PartlyPresent DEF SysInv
  <2> QED BY <2>1, <2>2, <2>5, <2>6, SysEnds
<1>18. CASE Fail
  BY <1>18, SysEnds DEF Fail, machine, SysInv
<1>19. CASE UNCHANGED vars
  BY <1>19 DEF vars, machine, local, SysInv, Even
<1> QED
  BY <1>1, <1>2, <1>3, <1>4, <1>5, <1>6, <1>7, <1>8, <1>9, <1>10, <1>11, <1>12, <1>13,
     <1>14, <1>15, <1>16, <1>17, <1>18, <1>19 DEF Next, Work

-----------------------------------------------------------------------------
(* The profile *)

\* Profile d is whole and of major k.
Fits(d, k) == d # None /\ Major[d.v] = k /\ d.whole

\* The packages of base p are the product of a last pass, with the profile at hand.
Fin(p) == /\ pkgdest[p][src] # None
          /\ pkgdest[p][src].kind \in Finished
          /\ pkgdest[p][src].prof = store.data

Training == \/ pc = "build" /\ pass \in {"instrument", "bootstrap", "train"}
            \/ pc \in {"merge", "sidecar"}
Applying == \/ pc = "build" /\ Final(pass)
            \/ pc = "bolt" /\ mode = "pgo"

FilesInv ==
    /\ store.data # None /\ store.sidecar # 0 => Fits(store.data, store.sidecar)
    /\ \A p \in Pkgs : cache[p] # None =>
          /\ cache[p].art # None /\ cache[p].art.kind \in Finished
          /\ cache[p].art.prof = cache[p].prof
    /\ tree.relocs => /\ tree.art # None /\ Fits(tree.art.prof, Major[tree.v])
                      /\ store.data = None \/ tree.art.prof = store.data
    /\ OptimizedFits

PassInv ==
    /\ pc = "build" => mode = (IF pass = "single" THEN "single" ELSE "pgo")
    /\ pc \in {"profile", "purge", "merge", "sidecar"} => mode = "pgo"
    /\ packed # None => pc = "build" /\ packed \in Pkgs \ todo
    /\ pc = "build" /\ pass \in {"instrument", "optimize"} => todo \subseteq {Llvm}
    /\ pc = "build" /\ pass = "rest" => todo \subseteq Others
    /\ Training => store.sidecar = 0
    /\ Training /\ ~(pc = "build" /\ pass = "instrument" /\ Llvm \in todo) => ~tree.relocs
    /\ pc = "sidecar" \/ Applying => Fits(store.data, Major[src])

DoneInv ==
    /\ packed # None /\ Final(pass) => Fin(packed)
    /\ pc = "build" /\ pass = "optimize" /\ Llvm \notin todo => Fin(Llvm)
    /\ pc = "build" /\ pass = "rest" => \A p \in Pkgs \ todo : Fin(p)
    /\ pc = "bolt" /\ mode = "pgo" => Fin(Llvm)
    /\ BuiltAsOne

LEMMA ProfileInit == Init => FilesInv /\ PassInv /\ DoneInv
<1> SUFFICES ASSUME Init PROVE FilesInv /\ PassInv /\ DoneInv
  OBVIOUS
<1> USE DEF Init
<1>1. FilesInv
  BY DEF FilesInv, NoTree, OptimizedFits
<1>2. PassInv /\ DoneInv
  BY DEF PassInv, DoneInv, BuiltAsOne, Training, Applying
<1> QED BY <1>1, <1>2

\* What a last pass packages carries the profile at hand.
LEMMA FinalMade ==
    ASSUME TypeOK, Final(pass)
    PROVE  Made \in Artifact /\ Made # None /\ Made.kind = "optimized" /\ Made.prof = store.data
  BY MadeTyped, NoneApart DEF Made, Product, Final

LEMMA OtherMade ==
    ASSUME TypeOK, ~Final(pass)
    PROVE  Made \in Artifact /\ Made # None /\ Made.kind \notin Finished
  BY MadeTyped, NoneApart DEF Made, Product, Final, Finished, TypeOK, Passes

\* Replacing the packages of p with ones that fit.
LEMMA FitsReplaced ==
    ASSUME TypeOK, OptimizedFits, NEW p \in Pkgs, NEW a \in Artifact,
           pkgdest' = [pkgdest EXCEPT ![p][src] = a],
           a.kind \in Finished => Fits(a.prof, Major[src])
    PROVE  OptimizedFits'
<1>1. \A q \in Pkgs, v \in Versions :
         pkgdest'[q][v] = IF q = p /\ v = src THEN a ELSE pkgdest[q][v]
  BY DEF TypeOK
<1> QED BY <1>1 DEF OptimizedFits, Fits

LEMMA FilesStep ==
    ASSUME TypeOK, PackInv, FilesInv, PassInv, DoneInv, [Next]_vars
    PROVE  FilesInv'
<1> USE DEF FilesInv
<1>f. ASSUME UNCHANGED files PROVE FilesInv'
  BY <1>f DEF files, OptimizedFits
<1>o. ASSUME UNCHANGED pkgdest PROVE OptimizedFits'
  BY <1>o DEF OptimizedFits
<1>v. src \in Versions /\ src # 0 /\ Llvm \in Pkgs
  BY DEF TypeOK, Versions, Pkgs
<1>1. CASE PurgeData
  <2>1. store'.data = None /\ UNCHANGED <<pkgdest, cache, tree>>
    BY <1>1 DEF PurgeData, TypeOK
  <2> QED BY <1>o, <2>1
<1>2. CASE PurgeSidecar
  <2>1. store'.data = store.data /\ store'.sidecar = 0 /\ UNCHANGED <<pkgdest, cache, tree>>
    BY <1>2 DEF PurgeSidecar, TypeOK
  <2> QED BY <1>o, <2>1
<1>3. ASSUME NEW p \in Pkgs, Compile(p) PROVE FilesInv'
  <2>1. /\ UNCHANGED <<store, pkgdest, cache>>
        /\ tree'.relocs => Final(pass) /\ pc = "build"
        /\ tree'.art = Made /\ tree'.v = src
    BY <1>3, CompiledTree DEF Compile, Final
  <2>2. tree'.relocs => Fits(store.data, Major[src])
    BY <2>1 DEF PassInv, Applying
  <2> QED BY <1>o, <2>1, <2>2, FinalMade DEF Fits
<1>4. ASSUME NEW p \in Pkgs, Package(p) PROVE FilesInv'
  <2>1. /\ UNCHANGED <<store, cache>> /\ pc = "build"
        /\ tree'.relocs = tree.relocs /\ tree'.art = tree.art /\ tree'.v = tree.v
        /\ pkgdest' = [pkgdest EXCEPT ![p][src] = Made]
    BY <1>4 DEF Package, TypeOK
  <2>2. Made \in Artifact /\ (Made.kind \in Finished => Fits(Made.prof, Major[src]))
    BY <2>1, FinalMade, OtherMade DEF PassInv, Applying
  <2>3. OptimizedFits'
    BY <2>1, <2>2, FitsReplaced
  <2> QED BY <2>1, <2>3 DEF Fits
<1>5. CASE Record
  <2>1. UNCHANGED <<store, pkgdest, tree>> /\ packed \in Pkgs
    BY <1>5 DEF Record, PassInv
  <2>2. CASE ~Final(pass)
    BY <1>5, <1>o, <2>1, <2>2 DEF Record
  <2>3. CASE Final(pass)
    <3>1. Fin(packed)
      BY <1>5, <2>3 DEF Record, DoneInv
    <3>2. \A p \in Pkgs : cache'[p] = IF p = packed
             THEN [v |-> src, prof |-> store.data, art |-> pkgdest[packed][src]] ELSE cache[p]
      BY <1>5, <2>1, <2>3 DEF Record, TypeOK
    <3> QED BY <1>o, <2>1, <3>1, <3>2 DEF Fin
  <2> QED BY <2>2, <2>3
<1>6. CASE MergeSome \/ MergeAll
  <2>1. /\ store'.sidecar = store.sidecar /\ UNCHANGED <<pkgdest, cache, tree>>
        /\ Training /\ ~(pc = "build" /\ pass = "instrument" /\ Llvm \in todo)
    BY <1>6 DEF MergeSome, MergeAll, TypeOK, Training
  <2>2. store'.sidecar = 0 /\ ~tree'.relocs
    BY <2>1 DEF PassInv
  <2> QED BY <1>o, <2>1, <2>2
<1>7. CASE WriteSidecar
  <2>1. /\ store'.data = store.data /\ store'.sidecar \in {Major[src], store.sidecar}
        /\ UNCHANGED <<pkgdest, cache, tree>>
        /\ Fits(store.data, Major[src])
    BY <1>7 DEF WriteSidecar, TypeOK, PassInv
  <2> QED BY <1>o, <2>1
<1>8. CASE Bolt \/ BoltOnly
  <2>1. UNCHANGED <<src, store, cache, tree>> /\ (Rewrite \/ UNCHANGED pkgdest)
    BY <1>8 DEF Bolt, BoltOnly
  <2>2. ASSUME Rewrite PROVE OptimizedFits'
    <3>1. /\ Bolted(tree.art) \in Artifact /\ Bolted(tree.art).prof = tree.art.prof
          /\ Fits(tree.art.prof, Major[src])
      BY <2>2, BoltedTyped DEF Rewrite, Boltable, TypeOK
    <3> QED BY <1>v, <2>2, <3>1, FitsReplaced DEF Rewrite, Bolted
  <2> QED BY <1>o, <2>1, <2>2
<1>9. CASE InstallRepo \/ Confirm \/ ReuseProfile \/ Retrain \/ StartPasses
           \/ (\E p \in Pkgs : ReuseBuilt(p)) \/ Bootstrap \/ Train \/ Trained \/ Optimized
           \/ AllBuilt \/ CheckBolt \/ CheckInstall \/ Audit
  BY <1>9, <1>f DEF InstallRepo, Confirm, ReuseProfile, Retrain, StartPasses, ReuseBuilt,
     Bootstrap, Train, Trained, Optimized, AllBuilt, CheckBolt, CheckInstall, Audit
<1>10. CASE Install \/ Verified \/ Rejected \/ Rollback \/ Restore \/ Fail \/ Upgrade
           \/ Recover \/ StartRepo \/ (\E m \in Modes : Start(m)) \/ UNCHANGED vars
  BY <1>10, <1>f DEF Install, Verified, Rejected, Rollback, Restore, Fail, Upgrade,
     Recover, StartRepo, Start, vars
<1> QED
  BY <1>1, <1>2, <1>3, <1>4, <1>5, <1>6, <1>7, <1>8, <1>9, <1>10 DEF Next, Work

LEMMA PassStep ==
    ASSUME TypeOK, FilesInv, PassInv, [Next]_vars
    PROVE  PassInv'
<1> USE DEF PassInv, Training, Applying, Final
<1>v. src \in Versions /\ src # 0 /\ Llvm \in Pkgs
  BY DEF TypeOK, Versions, Pkgs
<1>1. CASE InstallRepo \/ Verified \/ Restore \/ Fail
  BY <1>1 DEF InstallRepo, Verified, Restore, Fail, Ends
<1>2. CASE Confirm
  BY <1>2 DEF Confirm, Dispatch, Goto, BuildSingle, Begin, local
<1>3. CASE ReuseProfile
  <2>1. Major[src] # 0
    BY <1>v, MajorsTyped
  <2> QED BY <1>3, <2>1 DEF ReuseProfile, Ready, BeginPass4, files, FilesInv
<1>4. CASE Retrain
  BY <1>4 DEF Retrain, Goto, local
<1>5. CASE PurgeData \/ PurgeSidecar
  BY <1>5 DEF PurgeData, PurgeSidecar, local
<1>6. CASE StartPasses
  BY <1>6 DEF StartPasses, Begin, files
<1>7. ASSUME NEW p \in Pkgs, ReuseBuilt(p) PROVE PassInv'
  BY <1>7 DEF ReuseBuilt, files
<1>8. ASSUME NEW p \in Pkgs, Compile(p) PROVE PassInv'
  BY <1>8, CompiledTree DEF Compile, local
<1>9. ASSUME NEW p \in Pkgs, Package(p) PROVE PassInv'
  <2>1. tree'.relocs = tree.relocs
    BY <1>9 DEF Package, TypeOK
  <2>2. p = Llvm /\ pass = "instrument" => tree.art.prof = None
    BY <1>9 DEF Package, Built, Made
  <2>3. p = Llvm /\ pass = "instrument" => ~tree.relocs
    BY <2>2 DEF FilesInv, Fits
  <2> QED BY <1>9, <2>1, <2>3 DEF Package
<1>10. CASE Record
  BY <1>10 DEF Record
<1>11. CASE Bootstrap \/ Train
  BY <1>11 DEF Bootstrap, Train, Over, Begin, files
<1>12. CASE Trained \/ Optimized \/ AllBuilt
  BY <1>12 DEF Trained, Optimized, AllBuilt, Over, Goto, local, files
<1>13. CASE MergeAll
  <2>1. Fits(store'.data, Major[src]) /\ store'.sidecar = store.sidecar
    BY <1>13, MergedTyped DEF MergeAll, Merged, Fits, TypeOK
  <2> QED BY <1>13, <2>1 DEF MergeAll, Goto, local
<1>14. CASE MergeSome
  <2>1. store'.sidecar = store.sidecar
    BY <1>14 DEF MergeSome, TypeOK
  <2> QED BY <1>14, <2>1 DEF MergeSome, local
<1>15. CASE WriteSidecar
  <2>1. store'.data = store.data
    BY <1>15 DEF WriteSidecar, TypeOK
  <2> QED BY <1>15, <2>1 DEF WriteSidecar, BeginPass4
<1>16. CASE Bolt \/ BoltOnly
  BY <1>16 DEF Bolt, BoltOnly, BeginRest, Begin, Goto, local
<1>17. CASE CheckBolt \/ CheckInstall
  BY <1>17 DEF CheckBolt, CheckInstall, Goto, local, files
<1>18. CASE Audit \/ Install \/ Rejected \/ Rollback
  BY <1>18 DEF Audit, Install, Rejected, Rollback, Goto, Ends, local, files
<1>19. CASE Upgrade \/ Recover \/ UNCHANGED vars
  BY <1>19 DEF Upgrade, Recover, vars, local, files
<1>20. CASE StartRepo \/ \E m \in Modes : Start(m)
  BY <1>20 DEF StartRepo, Start, files
<1> QED
  BY <1>1, <1>2, <1>3, <1>4, <1>5, <1>6, <1>7, <1>8, <1>9, <1>10, <1>11, <1>12, <1>13,
     <1>14, <1>15, <1>16, <1>17, <1>18, <1>19, <1>20 DEF Next, Work

\* A finished base stays finished while neither the profile nor src changes.
LEMMA FinStays ==
    ASSUME UNCHANGED <<src, pkgdest>>, store'.data = store.data, NEW p, Fin(p)
    PROVE  (Fin(p))'
  BY DEF Fin

LEMMA DoneStep ==
    ASSUME TypeOK, FilesInv, PassInv, DoneInv, [Next]_vars
    PROVE  DoneInv'
<1>v. src \in Versions /\ Llvm \in Pkgs /\ Pkgs = {Llvm} \cup Others
  BY DEF TypeOK, Pkgs
<1>d. /\ packed # None /\ Final(pass) => Fin(packed)
      /\ pc = "build" /\ pass = "optimize" /\ Llvm \notin todo => Fin(Llvm)
      /\ pc = "build" /\ pass = "rest" => \A p \in Pkgs \ todo : Fin(p)
      /\ pc = "bolt" /\ mode = "pgo" => Fin(Llvm)
      /\ mode = "pgo" /\ pc \in {"audit", "install"} => \A p \in Pkgs : Fin(p)
  BY DEF DoneInv, BuiltAsOne, Fin
<1>s. DoneInv' =
        (/\ packed' # None /\ Final(pass') => (Fin(packed))'
         /\ pc' = "build" /\ pass' = "optimize" /\ Llvm \notin todo' => (Fin(Llvm))'
         /\ pc' = "build" /\ pass' = "rest" => \A p \in Pkgs \ todo' : (Fin(p))'
         /\ pc' = "bolt" /\ mode' = "pgo" => (Fin(Llvm))'
         /\ mode' = "pgo" /\ pc' \in {"audit", "install"} => \A p \in Pkgs : (Fin(p))')
  BY DEF DoneInv, BuiltAsOne, Fin
<1>k. packed # None => pc = "build"
  BY DEF PassInv
<1>f. ASSUME UNCHANGED <<src, files>> PROVE \A p : Fin(p) => (Fin(p))'
  BY <1>f DEF files, Fin
<1>1. CASE InstallRepo \/ Verified \/ Restore \/ Fail
  BY <1>1, <1>s DEF InstallRepo, Verified, Restore, Fail, Ends
<1>2. CASE Confirm
  BY <1>2, <1>k, <1>s DEF Confirm, Dispatch, Goto, BuildSingle, Begin, local
<1>3. CASE ReuseProfile
  <2>1. /\ pc = "profile" /\ packed' = packed /\ pc' = "build" /\ pass' = "optimize"
        /\ todo' = {Llvm}
    BY <1>3 DEF ReuseProfile, BeginPass4
  <2> QED BY <1>k, <1>s, <2>1
<1>4. CASE Retrain \/ PurgeData \/ PurgeSidecar
  BY <1>4, <1>k, <1>s DEF Retrain, Goto, PurgeData, PurgeSidecar, local
<1>5. CASE StartPasses
  BY <1>5, <1>k, <1>s DEF StartPasses, Begin
<1>6. ASSUME NEW p \in Pkgs, ReuseBuilt(p) PROVE DoneInv'
  <2>1. /\ UNCHANGED <<src, files, pc, mode, pass, packed>>
        /\ pc = "build" /\ todo' = todo \ {p}
    BY <1>6 DEF ReuseBuilt
  <2>2. cache[p] # None /\ cache[p].prof = store.data /\ pkgdest[p][src] = cache[p].art
    BY <1>6 DEF ReuseBuilt, Hit
  <2>3. Fin(p)
    BY <2>2 DEF FilesInv, Fin
  <2>4. \A q \in Pkgs \ todo' : q = p \/ q \in Pkgs \ todo
    BY <2>1
  <2> QED BY <1>d, <1>f, <1>s, <1>v, <2>1, <2>3, <2>4
<1>7. ASSUME NEW p \in Pkgs, Compile(p) PROVE DoneInv'
  <2>1. /\ UNCHANGED <<src, pkgdest, store, pc, mode, pass, packed, todo>> /\ pc = "build"
    BY <1>7 DEF Compile, local
  <2>2. \A q : Fin(q) => (Fin(q))'
    BY <2>1, FinStays
  <2> QED BY <1>d, <1>s, <2>1, <2>2
<1>8. ASSUME NEW p \in Pkgs, Package(p) PROVE DoneInv'
  <2>1. /\ UNCHANGED <<src, store, pc, mode, pass>> /\ pc = "build"
        /\ todo' = todo \ {p} /\ packed' = p
        /\ pkgdest' = [pkgdest EXCEPT ![p][src] = Made]
    BY <1>8 DEF Package
  <2>2. ASSUME Final(pass) PROVE (Fin(p))'
    <3>1. pkgdest'[p][src] = Made
      BY <1>v, <2>1 DEF TypeOK
    <3> QED BY <2>1, <2>2, <3>1, FinalMade DEF Fin, Finished
  <2>3. \A q \in Pkgs \ {p} : Fin(q) => (Fin(q))'
    <3>1. \A q \in Pkgs \ {p} : pkgdest'[q] = pkgdest[q]
      BY <2>1 DEF TypeOK
    <3> QED BY <2>1, <3>1 DEF Fin
  <2>4. pass \in {"optimize", "rest"} => Final(pass)
    BY DEF Final
  <2> QED BY <1>d, <1>s, <1>v, <2>1, <2>2, <2>3, <2>4
<1>9. CASE Record
  <2>1. UNCHANGED <<src, pkgdest, store, pc, mode, pass, todo>> /\ packed' = None
    BY <1>9 DEF Record
  <2>2. \A q : Fin(q) => (Fin(q))'
    BY <2>1, FinStays
  <2> QED BY <1>d, <1>s, <2>1, <2>2
<1>10. CASE Bootstrap \/ Train \/ Trained
  BY <1>10, <1>k, <1>s DEF Bootstrap, Train, Trained, Over, Begin, Goto, local
<1>11. CASE Optimized
  BY <1>11, <1>d, <1>f, <1>s DEF Optimized, Over, Goto, local
<1>12. CASE AllBuilt
  <2>1. mode = "pgo" => pass = "rest"
    BY <1>12 DEF AllBuilt, Over, PassInv
  <2> QED BY <1>12, <1>d, <1>f, <1>s, <2>1 DEF AllBuilt, Over, Goto, local
<1>13. CASE MergeSome
  BY <1>13, <1>s DEF MergeSome, local, Final
<1>14. CASE MergeAll
  BY <1>14, <1>k, <1>s DEF MergeAll, Goto, local
<1>15. CASE WriteSidecar
  <2>1. /\ pc = "sidecar" /\ packed' = packed /\ pc' = "build" /\ pass' = "optimize"
        /\ todo' = {Llvm}
    BY <1>15 DEF WriteSidecar, BeginPass4
  <2> QED BY <1>k, <1>s, <2>1
<1>16. CASE Bolt
  <2>1. /\ pc = "bolt" /\ mode = "pgo" /\ UNCHANGED <<src, store>>
        /\ pc' = "build" /\ pass' = "rest" /\ todo' = Others /\ packed' = packed
        /\ Rewrite \/ UNCHANGED pkgdest
    BY <1>16 DEF Bolt, BeginRest, Begin
  <2>2. (Fin(Llvm))'
    <3>1. CASE UNCHANGED pkgdest
      BY <1>d, <2>1, <3>1, FinStays
    <3>2. CASE Rewrite
      <4>1. /\ Bolted(tree.art) \in Artifact
            /\ Bolted(tree.art).kind = "bolted" /\ Bolted(tree.art).prof = store.data
        <5>1. tree.art \in Artifact /\ tree.art.prof = store.data
          BY <2>1, <3>2 DEF Rewrite, Boltable, FilesInv, PassInv, Applying, Fits, TypeOK
        <5> QED BY <5>1, BoltedTyped
      <4>2. pkgdest'[Llvm][src] = Bolted(tree.art)
        BY <1>v, <3>2 DEF Rewrite, Bolted, TypeOK
      <4> QED BY <2>1, <4>1, <4>2, NoneApart DEF Fin, Finished
    <3> QED BY <2>1, <3>1, <3>2
  <2> QED BY <1>k, <1>s, <1>v, <2>1, <2>2
<1>17. CASE BoltOnly
  BY <1>17, <1>k, <1>s DEF BoltOnly, Goto, local
<1>18. CASE CheckBolt \/ CheckInstall
  BY <1>18, <1>k, <1>s DEF CheckBolt, CheckInstall, Goto, local
<1>19. CASE Audit
  BY <1>19, <1>d, <1>f, <1>k, <1>s DEF Audit
<1>20. CASE Install \/ Rejected \/ Rollback
  BY <1>20, <1>k, <1>s DEF Install, Rejected, Rollback, Goto, Ends, local
<1>21. CASE Upgrade \/ Recover \/ UNCHANGED vars
  BY <1>21, <1>d, <1>f, <1>s DEF Upgrade, Recover, vars, local
<1>22. CASE StartRepo \/ \E m \in Modes : Start(m)
  BY <1>22, <1>k, <1>s DEF StartRepo, Start
<1> QED
  BY <1>1, <1>2, <1>3, <1>4, <1>5, <1>6, <1>7, <1>8, <1>9, <1>10, <1>11, <1>12, <1>13,
     <1>14, <1>15, <1>16, <1>17, <1>18, <1>19, <1>20, <1>21, <1>22 DEF Next, Work

-----------------------------------------------------------------------------
(* The theorems *)

Inv == TypeOK /\ PackInv /\ SysInv /\ FilesInv /\ PassInv /\ DoneInv

LEMMA InvInit == Init => Inv
  BY TypeInit, PackInit, SysInit, ProfileInit DEF Inv

LEMMA InvStep == Inv /\ [Next]_vars => Inv'
<1> SUFFICES ASSUME Inv, [Next]_vars PROVE Inv'
  OBVIOUS
<1>1. TypeOK' /\ PackInv'
  BY TypeStep, PackStep DEF Inv
<1> QED
  BY <1>1, SysStep, FilesStep, PassStep, DoneStep DEF Inv

(* Every variable of the toolchain stage has its type: what is installed,   *)
(* recorded, rolled back to or recovered is a package that was there.       *)
THEOREM TypeCorrect == Spec => []TypeOK
  BY InvInit, InvStep, PTL DEF Spec, Inv

(* With no recovery on file the installed suite is whole, wherever an       *)
(* install, a rollback or a recovery stopped: the install scope, its        *)
(* sentinel, rollback_to_snapshot, snapshot_recovery.                       *)
THEOREM WholeUnlessRecorded == Spec => []WholeOrRecorded
<1>1. Inv => WholeOrRecorded
  BY DEF Inv, SysInv, Whole, WholeOrRecorded
<1> QED BY <1>1, InvInit, InvStep, PTL DEF Spec

(* What a last pass leaves was compiled with one whole profile of its own   *)
(* version, and a PGO run installs one profile's products, reused builds    *)
(* and BOLT's included: check_existing_profdata, the profile store, the     *)
(* reuse cache, optimize_in_build.                                          *)
THEOREM ProfileFits == Spec => []InstalledFits
<1>1. Inv => InstalledFits
  BY DEF Inv, FilesInv, DoneInv, InstalledFits
<1> QED BY <1>1, InvInit, InvStep, PTL DEF Spec

-----------------------------------------------------------------------------
(***************************************************************************)
(* What is taken on as one (UpdateSet).                                    *)
(***************************************************************************)

\* Of some numbers one is the least.
LEMMA LeastNumber ==
    ASSUME NEW T \in SUBSET Nat, T # {}
    PROVE  \E i \in T : \A j \in T : i <= j
<1>1. IsWellFoundedOn(OpToRel(<, Nat), Nat)
  BY NatLessThanWellFounded
<1>2. PICK i \in T : \A j \in T : ~(<<j, i>> \in OpToRel(<, Nat))
  BY <1>1, WFMin
<1>3. ASSUME NEW j \in T PROVE i <= j
  <2>1. ~(<<j, i>> \in OpToRel(<, Nat))
    BY <1>2
  <2> QED BY <2>1 DEF OpToRel
<1> QED BY <1>3

\* What holds of 0 and of the next number holds of all up to a bound.
LEMMA UpTo ==
    ASSUME NEW n \in Nat, NEW Ok, 0 \in Ok, \A i \in 0..n : i \in Ok /\ i + 1 <= n => i + 1 \in Ok
    PROVE  \A i \in 0..n : i \in Ok
<1> DEFINE Off == {i \in Nat : i <= n /\ i \notin Ok}
<1>1. Off \subseteq Nat /\ \A i \in Nat : i \in Off <=> i <= n /\ i \notin Ok
  OBVIOUS
<1> HIDE DEF Off
<1>2. Off = {}
  <2> SUFFICES ASSUME Off # {} PROVE FALSE
    OBVIOUS
  <2>1. PICK i \in Off : \A j \in Off : i <= j
    BY <1>1, LeastNumber
  <2>2. i # 0 /\ i - 1 \in 0..n /\ (i - 1) + 1 = i /\ i <= n /\ i - 1 \in Nat
    BY <1>1
  <2>3. i - 1 \in Ok
    BY <1>1, <2>1, <2>2
  <2> QED BY <1>1, <2>2, <2>3
<1> QED BY <1>1, <1>2

\* The first element in a set is in the sequence and in the set.
LEMMA FirstInIs ==
    ASSUME NEW S, NEW s \in Seq(S), NEW T, \E i \in DOMAIN s : s[i] \in T
    PROVE  FirstIn(s, T) \in T /\ \E i \in DOMAIN s : FirstIn(s, T) = s[i]
<1> DEFINE At == {i \in DOMAIN s : s[i] \in T}
<1>1. DOMAIN s = 1..Len(s) /\ Len(s) \in Nat
  OBVIOUS
<1>2. At \in SUBSET Nat /\ At # {}
  BY <1>1
<1>3. PICK i \in At : \A j \in At : i <= j
  BY <1>2, LeastNumber
<1>4. i \in DOMAIN s /\ s[i] \in T /\ \A j \in 1..(i - 1) : s[j] \notin T
  BY <1>1, <1>3
<1> DEFINE k == CHOOSE x \in DOMAIN s : s[x] \in T /\ \A j \in 1..(x - 1) : s[j] \notin T
<1>5. k \in DOMAIN s /\ s[k] \in T
  BY <1>4
<1> HIDE DEF k
<1>6. FirstIn(s, T) = s[k]
  BY DEF FirstIn, k
<1> QED BY <1>5, <1>6

\* A group has members, of which one speaks for it.
LEMMA GroupsAre ==
    ASSUME NEW w, MembersTyped(w)
    PROVE  \A g \in DOMAIN Assembled(w) :
             /\ Assembled(w)[g].members = {n \in Walked(w) : BaseFound(w, n) = g}
             /\ \E m \in Assembled(w)[g].members : Assembled(w)[g].as = Entry(w, m)
<1> TAKE g \in DOMAIN Assembled(w)
<1> DEFINE members == {n \in Walked(w) : BaseFound(w, n) = g}
<1>1. /\ g \in {BaseFound(w, n) : n \in Walked(w)}
      /\ Assembled(w)[g] = [members |-> members, as |-> Entry(w, Speaker(w, members))]
  BY DEF Assembled
<1>2. Walked(w) \subseteq w.installed
  BY DEF Walked, Asked, Adopted
<1>3. PICK n \in members : TRUE
  BY <1>1
<1>4. w.order \in Seq(w.installed) /\ \E i \in DOMAIN w.order : w.order[i] = n
  BY <1>2, <1>3 DEF MembersTyped
<1> HIDE DEF members
<1>5. \E i \in DOMAIN w.order : w.order[i] \in members
  BY <1>3, <1>4
<1>6. Speaker(w, members) \in members
  BY <1>4, <1>5, FirstInIs DEF Speaker
<1> QED BY <1>1, <1>6 DEF members

\* An update takes the members of one PKGBUILD on as one.
LEMMA AssembledAsOne ==
    ASSUME NEW w, MembersTyped(w)
    PROVE  MembersAsOne(w, Assembled(w))
<1> DEFINE o == Assembled(w)
           Alike == \A g \in DOMAIN o : \A m, n \in o[g].members : IsBuilt(w, m) = IsBuilt(w, n)
<1>1. DOMAIN o = {BaseFound(w, n) : n \in Walked(w)}
  BY DEF Assembled
<1>2. /\ Walked(w) \subseteq Adopted(w) /\ Walked(w) \subseteq w.installed
      /\ \A n \in Walked(w) : Owner(w, n) = Unsaid
  BY DEF Walked, Asked, Adopted
<1>3. \A g \in DOMAIN o : /\ o[g].members \subseteq Walked(w)
                          /\ \E m \in o[g].members : o[g].as = Entry(w, m)
  BY GroupsAre
<1> HIDE DEF o
<1>4. \A n \in w.installed : IsBuilt(w, n) \/ w.inLocalDb => BaseFound(w, n) = w.base /\ SeenBase(w, n) = w.base
  BY DEF MembersTyped, BaseFound, SeenBase
<1>5. w.inLocalDb => \A g, h \in DOMAIN o : g = h
  BY <1>1, <1>2, <1>4
<1>6. ASSUME Alike, NEW g \in DOMAIN o, NEW n \in o[g].members
      PROVE  /\ IsBuilt(w, n) => o[g].as.class # "pacman" /\ o[g].as.dir = w.record[n].dir
             /\ o[g].as.class = "pacman" => w.fromSource
  <2>1. PICK m \in o[g].members : o[g].as = Entry(w, m)
    BY <1>3
  <2>2. m \in Walked(w) /\ m \in w.installed /\ n \in w.installed /\ m \in Adopted(w)
    BY <1>2, <1>3, <2>1
  <2>3. o[g].as.class = Class(w, m) /\ (IsBuilt(w, m) => o[g].as.dir = w.record[m].dir)
    BY <2>1 DEF Entry
  <2>4. IsBuilt(w, n) => IsBuilt(w, m)
    BY <1>6
  <2>5. IsBuilt(w, m) => Class(w, m) # "pacman"
    BY DEF Class, MembersTyped
  <2>6. IsBuilt(w, n) => w.record[n].dir = w.record[m].dir
    BY <2>2, <2>4 DEF MembersTyped
  <2>7. ASSUME Class(w, m) = "pacman" PROVE w.fromSource
    <3>1. SourceOf(w, m) = "repo" /\ ~Acts(w, m) /\ ~IsBuilt(w, m)
      BY <2>7 DEF Class, MembersTyped
    <3>2. m \in w.foreign \/ w.fromSource
      BY <2>2, <3>1 DEF Adopted
    <3>3. m \notin w.foreign
      BY <2>2, <3>1 DEF SourceOf, MembersTyped
    <3> QED BY <3>2, <3>3
  <2> QED BY <2>3, <2>4, <2>5, <2>6, <2>7
<1>7. ASSUME w.kernel = w.base \/ (w.llvm /\ w.base \in w.suite), w.inLocalDb, ~w.stageOwned,
             NEW g \in DOMAIN o, NEW n \in o[g].members
      PROVE  n \in w.names
  <2>1. n \in Walked(w) /\ n \in w.installed /\ Owner(w, n) = Unsaid
    BY <1>2, <1>3
  <2>2. SeenBase(w, n) = w.base
    BY <1>4, <1>7, <2>1
  <2>3. ConfiguredOwner(w, n) \in {"kernel", "toolchain"}
    BY <1>7, <2>2 DEF ConfiguredOwner
  <2>4. Unsaid \notin {"kernel", "toolchain"}
    BY DEF MembersTyped
  <2> QED BY <1>7, <2>1, <2>3, <2>4 DEF Owner
<1> QED BY <1>5, <1>6, <1>7 DEF MembersAsOne, o

\* What is found after each of the names: the trees that are checked out stay,
\* and what is added is cloned, or nowhere to be had.
LookedUp(r, k, st) ==
    LET onDisk == OnDisk(r) IN
    /\ st = [dirs |-> st.dirs, missing |-> st.missing, clones |-> st.clones]
    /\ DOMAIN onDisk \subseteq DOMAIN st.dirs /\ DOMAIN st.dirs \subseteq Wanted(r)
    /\ \A n \in DOMAIN onDisk : st.dirs[n] = onDisk[n]
    /\ \A n \in DOMAIN st.dirs \ DOMAIN onDisk : st.dirs[n] = r.base[n] /\ r.base[n] \in st.clones
    /\ st.clones \subseteq {r.base[n] : n \in Remaining(r)} \cap DOMAIN r.upstream
    /\ st.missing \subseteq {n \in Remaining(r) : r.base[n] \notin DOMAIN r.upstream}
    /\ \A i \in 1..k : r.names[i] \in DOMAIN st.dirs \cup st.missing

Looking(r) ==
    CHOOSE f : f = [k \in 0..Len(r.names) |->
                       IF k = 0 THEN [dirs |-> OnDisk(r), missing |-> {}, clones |-> {}]
                       ELSE Clone(r, f[k - 1], r.names[k])]

\* The names are looked up one after the other.
LEMMA FoundInTurn ==
    ASSUME NEW r, NEW P, r.names \in Seq(P)
    PROVE  /\ Looking(r)[0] = [dirs |-> OnDisk(r), missing |-> {}, clones |-> {}]
           /\ \A i \in 0..Len(r.names) :
                i + 1 <= Len(r.names) => Looking(r)[i + 1] = Clone(r, Looking(r)[i], r.names[i + 1])
           /\ Found(r) = Looking(r)[Len(r.names)]
<1> DEFINE n == Len(r.names)
           start == [dirs |-> OnDisk(r), missing |-> {}, clones |-> {}]
           Then(f, i) == IF i = 0 THEN start ELSE Clone(r, f[i - 1], r.names[i])
           Ok == {i \in 0..n : \E f : f = [j \in 0..i |-> Then(f, j)]}
           g == Looking(r)
<1>1. n \in Nat
  OBVIOUS
<1>2. 0 \in Ok
  <2> DEFINE h == [j \in 0..0 |-> start]
  <2>1. \A j \in 0..0 : Then(h, j) = start
    OBVIOUS
  <2>2. h = [j \in 0..0 |-> Then(h, j)]
    BY <2>1
  <2> HIDE DEF h
  <2> QED BY <1>1, <2>2
<1>3. ASSUME NEW i \in 0..n, i \in Ok, i + 1 <= n PROVE i + 1 \in Ok
  <2>1. PICK f : f = [j \in 0..i |-> Then(f, j)]
    BY <1>3
  <2> DEFINE new == Clone(r, f[i], r.names[i + 1])
             h == [j \in 0..(i + 1) |-> IF j = i + 1 THEN new ELSE f[j]]
  <2>2. ASSUME NEW j \in 0..(i + 1) PROVE h[j] = Then(h, j)
    <3>1. CASE j = i + 1
      <4>1. h[j] = new /\ j # 0 /\ j - 1 = i /\ h[i] = f[i]
        BY <1>1, <3>1
      <4> HIDE DEF h
      <4> QED BY <3>1, <4>1
    <3>2. CASE j # i + 1
      <4>1. j \in 0..i /\ (j # 0 => j - 1 \in 0..i /\ j - 1 # i + 1 /\ j - 1 \in 0..(i + 1))
        BY <1>1, <3>2
      <4>2. h[j] = f[j] /\ (j # 0 => h[j - 1] = f[j - 1])
        BY <4>1, <3>2
      <4> HIDE DEF h
      <4>3. f[j] = Then(f, j)
        BY <2>1, <4>1
      <4> QED BY <4>2, <4>3
    <3> QED BY <3>1, <3>2
  <2>3. h = [j \in 0..(i + 1) |-> h[j]]
    OBVIOUS
  <2> HIDE DEF h
  <2>4. h = [j \in 0..(i + 1) |-> Then(h, j)]
    BY <2>2, <2>3
  <2> HIDE DEF Then
  <2> QED BY <1>1, <1>3, <2>4
<1>4. n \in Ok
  <2>1. \A i \in 0..n : i \in Ok /\ i + 1 <= n => i + 1 \in Ok
    <3> HIDE DEF Ok
    <3> QED BY <1>3
  <2> HIDE DEF Ok, n
  <2>2. \A i \in 0..n : i \in Ok
    BY <1>1, <1>2, <2>1, UpTo, Zenon
  <2>3. n \in 0..n
    BY <1>1
  <2> QED BY <2>2, <2>3
<1>5. g = [j \in 0..n |-> Then(g, j)]
  BY <1>4 DEF Looking
<1>6. Found(r) = g[n]
  BY DEF Found, Looking
<1> HIDE DEF g, Ok
<1>7. g[0] = start
  BY <1>1, <1>5
<1>8. ASSUME NEW i \in 0..n, i + 1 <= n PROVE g[i + 1] = Clone(r, g[i], r.names[i + 1])
  <2>1. i + 1 \in 0..n /\ i + 1 # 0 /\ (i + 1) - 1 = i
    BY <1>1, <1>8
  <2> QED BY <1>5, <2>1
<1> QED BY <1>6, <1>7, <1>8 DEF g

\* One name more.
LEMMA LookUpNext ==
    ASSUME NEW r, SuiteTyped(r), NEW k \in Nat, k + 1 \in DOMAIN r.names, NEW st, LookedUp(r, k, st)
    PROVE  LookedUp(r, k + 1, Clone(r, st, r.names[k + 1]))
<1> DEFINE n == r.names[k + 1]
           d == r.base[n]
           onDisk == OnDisk(r)
           later == {m \in Remaining(r) : m \in r.upstream[d] \cup {d}} \ (DOMAIN st.dirs \cup st.missing)
           served == {n} \cup later
           st2 == Clone(r, st, n)
<1>1. n \in Wanted(r) /\ Wanted(r) \subseteq DOMAIN r.base
  BY DEF SuiteTyped, Wanted
<1>2. \A i \in 1..(k + 1) : i \in 1..k \/ i = k + 1
  OBVIOUS
<1>3. Remaining(r) = Wanted(r) \ DOMAIN onDisk
  BY DEF Remaining
<1>4. /\ DOMAIN onDisk \subseteq DOMAIN st.dirs /\ DOMAIN st.dirs \subseteq Wanted(r)
      /\ \A m \in DOMAIN onDisk : st.dirs[m] = onDisk[m]
      /\ \A m \in DOMAIN st.dirs \ DOMAIN onDisk : st.dirs[m] = r.base[m] /\ r.base[m] \in st.clones
      /\ st.clones \subseteq {r.base[m] : m \in Remaining(r)} \cap DOMAIN r.upstream
      /\ st.missing \subseteq {m \in Remaining(r) : r.base[m] \notin DOMAIN r.upstream}
      /\ \A i \in 1..k : r.names[i] \in DOMAIN st.dirs \cup st.missing
      /\ st = [dirs |-> st.dirs, missing |-> st.missing, clones |-> st.clones]
  BY DEF LookedUp
<1> HIDE DEF onDisk
<1>5. CASE n \in DOMAIN st.dirs
  <2>1. st2 = st
    BY <1>5 DEF Clone
  <2>2. \A i \in 1..(k + 1) : r.names[i] \in DOMAIN st.dirs \cup st.missing
    BY <1>2, <1>4, <1>5
  <2> HIDE DEF st2
  <2> QED BY <1>4, <2>1, <2>2 DEF LookedUp, st2, onDisk
<1>6. CASE n \notin DOMAIN st.dirs /\ d \notin DOMAIN r.upstream
  <2>1. st2 = [dirs |-> st.dirs, missing |-> st.missing \cup {n}, clones |-> st.clones]
    BY <1>4, <1>6 DEF Clone, TreeOf
  <2>2. st2.dirs = st.dirs /\ st2.missing = st.missing \cup {n} /\ st2.clones = st.clones
    BY <2>1
  <2> HIDE DEF st2
  <2>3. n \in Remaining(r)
    BY <1>1, <1>3, <1>4, <1>6
  <2>4. \A i \in 1..(k + 1) : r.names[i] \in DOMAIN st2.dirs \cup st2.missing
    BY <1>2, <1>4, <2>2
  <2>5. st2.missing \subseteq {m \in Remaining(r) : r.base[m] \notin DOMAIN r.upstream}
    BY <1>4, <1>6, <2>2, <2>3
  <2> QED BY <1>4, <2>1, <2>2, <2>4, <2>5 DEF LookedUp, st2, onDisk
<1>7. CASE n \notin DOMAIN st.dirs /\ d \in DOMAIN r.upstream
  <2> DEFINE dirs2 == [m \in DOMAIN st.dirs \cup served |-> IF m \in served THEN d ELSE st.dirs[m]]
  <2>1. st2 = [dirs |-> dirs2, missing |-> st.missing, clones |-> st.clones \cup {d}]
    BY <1>4, <1>7 DEF Clone, TreeOf
  <2> HIDE DEF dirs2
  <2>2. st2.dirs = dirs2 /\ st2.missing = st.missing /\ st2.clones = st.clones \cup {d}
    BY <2>1
  <2> HIDE DEF st2
  <2>3. n \in Remaining(r)
    BY <1>1, <1>3, <1>4, <1>7
  <2>4. \A m \in served : m \in Remaining(r) /\ m \notin DOMAIN st.dirs /\ r.base[m] = d
    <3>1. d \in DOMAIN r.upstream => r.upstream[d] = {p \in DOMAIN r.base : r.base[p] = d}
      BY DEF SuiteTyped
    <3>2. \A p, q \in DOMAIN r.base : r.base[q] = p => r.base[p] = p
      BY DEF SuiteTyped
    <3>3. \A m \in Remaining(r) : m \in DOMAIN r.base
      BY <1>1, <1>3
    <3> QED BY <1>7, <2>3, <3>1, <3>2, <3>3
  <2> HIDE DEF served
  <2>5. n \in served
    BY DEF served
  <2>6. DOMAIN dirs2 = DOMAIN st.dirs \cup served /\ \A m \in DOMAIN dirs2 : dirs2[m] = IF m \in served THEN d ELSE st.dirs[m]
    BY DEF dirs2
  <2> HIDE DEF d
  <2>7. DOMAIN onDisk \subseteq DOMAIN dirs2 /\ DOMAIN dirs2 \subseteq Wanted(r)
    BY <1>3, <1>4, <2>4, <2>6
  <2>8. \A m \in DOMAIN onDisk : dirs2[m] = onDisk[m]
    BY <1>4, <2>4, <2>6
  <2>9. \A m \in DOMAIN dirs2 \ DOMAIN onDisk : dirs2[m] = r.base[m] /\ r.base[m] \in st.clones \cup {d}
    BY <1>4, <2>4, <2>6
  <2>10. st.clones \cup {d} \subseteq {r.base[m] : m \in Remaining(r)} \cap DOMAIN r.upstream
    BY <1>4, <1>7, <2>3 DEF d
  <2>11. \A i \in 1..(k + 1) : r.names[i] \in DOMAIN dirs2 \cup st.missing
    BY <1>2, <1>4, <2>5, <2>6
  <2> QED BY <1>4, <2>1, <2>2, <2>7, <2>8, <2>9, <2>10, <2>11 DEF LookedUp, st2, onDisk
<1> QED BY <1>5, <1>6, <1>7

\* All names have been looked up in the end.
LEMMA AllLookedUp ==
    ASSUME NEW r, SuiteTyped(r)
    PROVE  LookedUp(r, Len(r.names), Found(r))
<1> DEFINE n == Len(r.names)
           g == Looking(r)
           Fine == {i \in 0..n : LookedUp(r, i, g[i])}
<1>1. n \in Nat /\ DOMAIN r.names = 1..n /\ r.names \in Seq(DOMAIN r.base)
  BY DEF SuiteTyped
<1>2. /\ g[0] = [dirs |-> OnDisk(r), missing |-> {}, clones |-> {}]
      /\ \A i \in 0..n : i + 1 <= n => g[i + 1] = Clone(r, g[i], r.names[i + 1])
      /\ Found(r) = g[n]
  BY <1>1, FoundInTurn
<1> HIDE DEF g
<1>3. 0 \in Fine
  <2>1. g[0].dirs = OnDisk(r) /\ g[0].missing = {} /\ g[0].clones = {}
    BY <1>2
  <2>2. DOMAIN OnDisk(r) \subseteq Wanted(r)
    BY DEF OnDisk
  <2>3. g[0] = [dirs |-> g[0].dirs, missing |-> g[0].missing, clones |-> g[0].clones]
    BY <1>2, <2>1
  <2>4. \A i \in 1..0 : FALSE
    OBVIOUS
  <2>5. LookedUp(r, 0, g[0])
    BY <2>1, <2>2, <2>3, <2>4 DEF LookedUp
  <2> QED BY <1>1, <2>5
<1>4. ASSUME NEW i \in 0..n, i \in Fine, i + 1 <= n PROVE i + 1 \in Fine
  <2>1. i \in Nat /\ i + 1 \in 1..n /\ i + 1 \in 0..n /\ LookedUp(r, i, g[i])
    BY <1>1, <1>4
  <2>2. LookedUp(r, i + 1, g[i + 1])
    BY <1>1, <1>2, <1>4, <2>1, LookUpNext
  <2> QED BY <2>1, <2>2
<1>5. \A i \in 0..n : i \in Fine
  <2>1. \A i \in 0..n : i \in Fine /\ i + 1 <= n => i + 1 \in Fine
    <3> HIDE DEF Fine
    <3> QED BY <1>4
  <2> HIDE DEF Fine, n
  <2> QED BY <1>1, <1>3, <2>1, UpTo, Zenon
<1>6. LookedUp(r, n, g[n])
  BY <1>1, <1>5
<1> QED BY <1>2, <1>6

\* What is taken from a checkout is of its own tree, or listed in another.
LEMMA OnDiskIs ==
    ASSUME NEW r, SuiteTyped(r)
    PROVE  /\ \A n \in Wanted(r) : r.base[n] \in DOMAIN r.disk => n \in DOMAIN OnDisk(r)
           /\ \A n \in DOMAIN OnDisk(r) :
                /\ OnDisk(r)[n] \in DOMAIN r.disk
                /\ \E m \in Wanted(r) : OnDisk(r)[n] = r.base[m]
                /\ r.base[n] # OnDisk(r)[n] => n \in r.disk[OnDisk(r)[n]]
<1>1. \A n \in Wanted(r) : r.base[n] \in DOMAIN r.disk <=> n \in Direct(r)
  BY DEF Direct, TreeOf
<1>2. /\ DOMAIN OnDisk(r) = {m \in Wanted(r) : m \in Direct(r) \/ Lists(r, m) # {}}
      /\ \A n \in DOMAIN OnDisk(r) : 
            OnDisk(r)[n] = IF n \in Direct(r) THEN TreeOf(r, n) ELSE FirstIn(r.walk, Lists(r, n))
  BY DEF OnDisk
<1>3. ASSUME NEW n \in DOMAIN OnDisk(r)
      PROVE  /\ OnDisk(r)[n] \in DOMAIN r.disk
             /\ \E m \in Wanted(r) : OnDisk(r)[n] = r.base[m]
             /\ r.base[n] # OnDisk(r)[n] => n \in r.disk[OnDisk(r)[n]]
  <2>1. CASE n \in Direct(r)
    BY <1>1, <1>2, <1>3, <2>1 DEF TreeOf
  <2>2. CASE n \notin Direct(r)
    <3> DEFINE d == OnDisk(r)[n]
    <3>1. d = FirstIn(r.walk, Lists(r, n)) /\ Lists(r, n) # {}
      BY <1>2, <1>3, <2>2
    <3>2. \A x \in Lists(r, n) : /\ x \in DOMAIN r.disk /\ n \in r.disk[x]
                                 /\ \E m \in Wanted(r) : x = r.base[m]
      BY DEF Lists, Direct, TreeOf
    <3>3. r.walk \in Seq(DOMAIN r.disk) /\ \E i \in DOMAIN r.walk : r.walk[i] \in Lists(r, n)
      BY <3>1, <3>2 DEF SuiteTyped
    <3>4. d \in Lists(r, n)
      BY <3>1, <3>3, FirstInIs
    <3> QED BY <3>2, <3>4
  <2> QED BY <2>1, <2>2
<1> QED BY <1>1, <1>2, <1>3

(***************************************************************************)
(* THEOREM SuiteIsAsOne: for every suite the toolchain stage may find, with *)
(* whatever checkouts and clones, each package is built from the tree the   *)
(* repos build it from, each tree is built in one kind of pass, and all of  *)
(* it that is installed is installed with it (resolve_all_pkgbuilds,        *)
(* partition_by_pkgbuild, install_names).                                   *)
(***************************************************************************)
THEOREM SuiteIsAsOne ==
    ASSUME NEW r, SuiteTyped(r)
    PROVE  TreesAsOne(r, SuiteTrees(r))
<1> DEFINE f == Found(r)
           onDisk == OnDisk(r)
           o == SuiteTrees(r)
           Moved == {p \in DOMAIN r.base : \E d \in DOMAIN r.disk : p \in r.disk[d] /\ r.base[p] # d}
<1>1. /\ o.dirs = f.dirs /\ o.missing = f.missing /\ o.clones = f.clones
      /\ o.preview = {r.base[n] : n \in Remaining(r)}
      /\ o.pgo = Profiled(r, f.dirs) /\ o.install = InstallNames(r, f.dirs)
  BY DEF SuiteTrees, TreeOf
<1>2. LookedUp(r, Len(r.names), f)
  BY AllLookedUp
<1>3. Wanted(r) \subseteq DOMAIN r.base /\ \A n \in Wanted(r) : \E i \in 1..Len(r.names) : r.names[i] = n
  BY DEF SuiteTyped, Wanted
<1>4. Remaining(r) = Wanted(r) \ DOMAIN onDisk
  BY DEF Remaining
<1>5. /\ \A n \in Wanted(r) : r.base[n] \in DOMAIN r.disk => n \in DOMAIN onDisk
      /\ \A n \in DOMAIN onDisk :
           /\ onDisk[n] \in DOMAIN r.disk
           /\ \E m \in Wanted(r) : onDisk[n] = r.base[m]
           /\ r.base[n] # onDisk[n] => n \in r.disk[onDisk[n]]
  BY OnDiskIs
<1> HIDE DEF o, f, onDisk
<1>6. /\ DOMAIN onDisk \subseteq DOMAIN f.dirs /\ DOMAIN f.dirs \subseteq Wanted(r)
      /\ \A n \in DOMAIN onDisk : f.dirs[n] = onDisk[n]
      /\ \A n \in DOMAIN f.dirs \ DOMAIN onDisk : f.dirs[n] = r.base[n] /\ r.base[n] \in f.clones
      /\ f.clones \subseteq {r.base[n] : n \in Remaining(r)} \cap DOMAIN r.upstream
      /\ f.missing \subseteq {n \in Remaining(r) : r.base[n] \notin DOMAIN r.upstream}
      /\ Wanted(r) \subseteq DOMAIN f.dirs \cup f.missing
  BY <1>2, <1>3 DEF LookedUp, onDisk
<1>7. ASSUME NEW n \in o.missing PROVE r.base[n] \notin DOMAIN r.disk \cup DOMAIN r.upstream
  BY <1>1, <1>4, <1>5, <1>6
<1>8. ASSUME o.missing = {}
      PROVE  /\ \A n \in Wanted(r) \ Moved : o.dirs[n] = r.base[n]
             /\ \A n \in DOMAIN o.dirs : \E m \in Wanted(r) : o.dirs[n] = r.base[m]
             /\ \A m \in o.pgo, n \in Wanted(r) \ o.pgo : o.dirs[m] # o.dirs[n]
             /\ \A p \in r.installed, n \in DOMAIN o.dirs : r.base[p] = o.dirs[n] => p \in o.install
             /\ o.clones = o.preview
  <2>1. DOMAIN f.dirs = Wanted(r)
    BY <1>1, <1>6, <1>8
  <2>2. ASSUME NEW n \in Wanted(r) \ Moved PROVE o.dirs[n] = r.base[n]
    <3>1. CASE n \in DOMAIN onDisk
      BY <1>1, <1>3, <1>5, <1>6, <2>2, <3>1
    <3>2. CASE n \notin DOMAIN onDisk
      BY <1>1, <1>6, <2>1, <3>2
    <3> QED BY <3>1, <3>2
  <2>3. ASSUME NEW n \in DOMAIN o.dirs PROVE \E m \in Wanted(r) : o.dirs[n] = r.base[m]
    BY <1>1, <1>5, <1>6, <2>1, <2>3
  <2>4. ASSUME NEW m \in o.pgo, NEW n \in Wanted(r) \ o.pgo PROVE o.dirs[m] # o.dirs[n]
    BY <1>1, <2>1, <2>4 DEF Profiled
  <2>5. ASSUME NEW p \in r.installed, NEW n \in DOMAIN o.dirs, r.base[p] = o.dirs[n] PROVE p \in o.install
    <3> DEFINE d == o.dirs[n]
    <3>1. p \in DOMAIN r.base
      BY DEF SuiteTyped
    <3>2. d \in DOMAIN r.upstream => p \in r.upstream[d]
      BY <2>5, <3>1 DEF SuiteTyped
    <3>3. d \in DOMAIN r.disk => p \in r.disk[d]
      BY <2>5, <3>1 DEF SuiteTyped
    <3>4. d \in DOMAIN r.upstream \cup DOMAIN r.disk
      BY <1>1, <1>5, <1>6, <2>5
    <3> QED BY <1>1, <2>5, <3>2, <3>3, <3>4 DEF InstallNames
  <2>6. o.clones = o.preview
    BY <1>1, <1>4, <1>6, <2>1
  <2> QED BY <2>2, <2>3, <2>4, <2>5, <2>6
<1> QED BY <1>7, <1>8 DEF TreesAsOne, o

-----------------------------------------------------------------------------
(***************************************************************************)
(* What a batch of an update asks of the host (UpdateSet).                 *)
(***************************************************************************)

\* The suite is of one version.
LEMMA SuiteIsOne ==
    ASSUME NEW h, HostTyped(h)
    PROVE  SuiteAgrees(h) <=> \A v, u \in h.suite \ {"absent"} : v = u
<1> DEFINE S == {v \in h.suite : v # "absent"}
<1>1. IsFiniteSet(S)
  <2>1. IsFiniteSet(h.suite) /\ S \subseteq h.suite
    BY DEF HostTyped
  <2> QED BY <2>1, FS_Subset
<1>2. SuiteAgrees(h) <=> Cardinality(S) <= 1
  BY DEF SuiteAgrees
<1>3. S = h.suite \ {"absent"}
  OBVIOUS
<1> HIDE DEF S
<1>4. Cardinality(S) \in Nat /\ (Cardinality(S) = 0 <=> S = {})
  BY <1>1, FS_CardinalityType, FS_EmptySet
<1>5. CASE S = {}
  BY <1>2, <1>3, <1>4, <1>5
<1>6. CASE S # {}
  <2>1. PICK x \in S : TRUE
    BY <1>6
  <2>2. IsFiniteSet(S \ {x}) /\ Cardinality(S \ {x}) = Cardinality(S) - 1
    BY <1>1, <2>1, FS_RemoveElement
  <2>3. Cardinality(S \ {x}) \in Nat /\ (Cardinality(S \ {x}) = 0 <=> S \ {x} = {})
    BY <2>2, FS_CardinalityType, FS_EmptySet
  <2>4. Cardinality(S) <= 1 <=> S \ {x} = {}
    BY <2>2, <2>3, <1>4
  <2>5. S \ {x} = {} <=> \A v, u \in S : v = u
    BY <2>1
  <2> QED BY <2>4, <2>5, <1>2, <1>3
<1> QED BY <1>5, <1>6

\* A tool and a library for a pin are different needs.
LEMMA NeedsApart ==
    ASSUME NEW t, t # "cross", NEW pin, NEW u, NEW other
    PROVE  /\ Tool(t).tool = t /\ Cross(pin).tool = "cross" /\ Cross(pin).pin = pin /\ Tool(t) # Cross(pin)
           /\ Tool(t) = Tool(u) <=> t = u
           /\ Cross(pin) = Cross(other) <=> pin = other
BY DEF Tool, Cross

\* A need is a tool or a library.
Need(n) == (\E t : t # "cross" /\ n = Tool(t)) \/ (\E pin : n = Cross(pin))

\* Nothing else is asked of the host.
LEMMA EachNeed ==
    ASSUME NEW batch, BatchTyped(batch)
    PROVE  \A n \in BatchNeeds(batch) : Need(n)
<1> SUFFICES ASSUME NEW p \in batch, NEW n \in Needs1(p) \cup {Tool(c) : c \in p.compilers} PROVE Need(n)
  BY DEF BatchNeeds
<1>1. CASE n \in {Tool(c) : c \in p.compilers}
  <2>1. PICK c \in p.compilers : n = Tool(c)
    BY <1>1
  <2>2. c # "cross"
    BY <2>1 DEF BatchTyped
  <2> QED BY <2>1, <2>2 DEF Need
<1>2. CASE n \in Needs1(p)
  <2>1. n = Tool("rust") \/ n = Cross(p.pin) \/ (\E t \in {"cmake", "meson"} : n = Tool(t))
    BY <1>2 DEF Needs1
  <2> QED BY <2>1 DEF Need
<1> QED BY <1>1, <1>2

\* What a fix adds changes no other need's probe.
LEMMA OnlyFixed ==
    ASSUME NEW h, HostTyped(h), NEW failed, \A n \in failed : Need(n), NEW answers, NEW asked,
           NEW n, Need(n), n \notin Fixed(h, failed, answers, asked)
    PROVE  Probe(HostAfter(h, Fixed(h, failed, answers, asked)), n) <=> Probe(h, n)
<1> DEFINE fixed == Fixed(h, failed, answers, asked)
           g == HostAfter(h, fixed)
<1>1. \A m \in fixed : m \in failed /\ m.tool = "cross" /\ h.rustup /\ "rust" \in h.runs
  BY DEF Fixed, Fixable
<1>2. /\ g.runs = h.runs /\ g.rustup = h.rustup /\ g.system32 = h.system32 /\ g.suite = h.suite
      /\ g.with32 = h.with32 \cup {m.pin : m \in fixed}
  BY DEF HostAfter, HostTyped
<1> HIDE DEF fixed, g
<1>3. CASE \E t : t # "cross" /\ n = Tool(t)
  <2>1. n.tool # "cross"
    BY <1>3, NeedsApart
  <2> QED BY <2>1, <1>2 DEF Probe, CompilerRunsHere, SuiteAgrees, g, fixed
<1>4. CASE \E pin : n = Cross(pin)
  <2>1. PICK pin : n = Cross(pin)
    BY <1>4
  <2>2. n.tool = "cross" /\ n.pin = pin
    BY <2>1, NeedsApart
  <2>3. \A m \in fixed : m.pin # pin
    <3> SUFFICES ASSUME NEW m \in fixed, m.pin = pin PROVE FALSE
      OBVIOUS
    <3>1. Need(m) /\ m.tool = "cross"
      BY <1>1
    <3>2. \E other : m = Cross(other)
      BY <3>1, NeedsApart DEF Need
    <3>3. m = Cross(pin)
      BY <3>2, NeedsApart
    <3> QED BY <3>3, <2>1 DEF fixed
  <2>4. pin \in g.with32 <=> pin \in h.with32
    BY <2>3, <1>2
  <2>5. BuildsFor32(g, pin) <=> BuildsFor32(h, pin)
    BY <2>4, <1>2 DEF BuildsFor32
  <2> QED BY <2>2, <2>5 DEF Probe, g, fixed
<1> QED BY <1>3, <1>4 DEF Need

\* All its needs are met exactly when a package is served.
LEMMA ServedIs ==
    ASSUME NEW h, HostTyped(h), NEW p, "cross" \notin p.compilers, p.compilers \cap {"rust", "cmake", "meson"} = {}
    PROVE  (\A n \in Needs1(p) \cup {Tool(c) : c \in p.compilers} : Probe(h, n)) <=> Served(h, p)
<1> DEFINE One(v) == \A x, u \in v \ {"absent"} : x = u
           all == \A n \in Needs1(p) \cup {Tool(c) : c \in p.compilers} : Probe(h, n)
<1>1. ASSUME NEW t, t # "cross"
      PROVE  Probe(h, Tool(t)) <=> t \in h.runs /\ (t = "clang" => One(h.suite))
  <2>1. Tool(t).tool = t
    BY NeedsApart, <1>1
  <2>2. Probe(h, Tool(t)) <=> t \in h.runs /\ (t = "clang" => SuiteAgrees(h))
    BY <2>1, <1>1 DEF Probe, CompilerRunsHere
  <2> QED BY <2>2, SuiteIsOne
<1>2. Probe(h, Cross(p.pin)) <=> "rust" \in h.runs /\ IF h.rustup THEN p.pin \in h.with32 ELSE h.system32
  BY DEF Probe, Cross, BuildsFor32
<1> HIDE DEF One
<1>3. (\A n \in {Tool(c) : c \in p.compilers} : Probe(h, n))
         <=> p.compilers \subseteq h.runs /\ ("clang" \in p.compilers => One(h.suite))
  BY <1>1
<1>4. (\A n \in Needs1(p) : Probe(h, n))
         <=> /\ "rust" \in p.consumes => "rust" \in h.runs
             /\ "rust" \in p.consumes /\ p.lib32 => Probe(h, Cross(p.pin))
             /\ \A t \in p.consumes \cap {"cmake", "meson"} : t \in h.runs
  <2>1. Probe(h, Tool("rust")) <=> "rust" \in h.runs
    BY <1>1
  <2>2. \A t \in {"cmake", "meson"} : Probe(h, Tool(t)) <=> t \in h.runs
    BY <1>1
  <2> QED BY <2>1, <2>2 DEF Needs1
<1> QED BY <1>2, <1>3, <1>4 DEF Served, One

(***************************************************************************)
(* THEOREM PreflightTruly: the pre-flight lets a batch go on exactly when  *)
(* the host, with what rustup added on the way, has all that each of its   *)
(* packages needs, for any batch, host and answers.                        *)
(***************************************************************************)
THEOREM PreflightTruly ==
    ASSUME NEW h, HostTyped(h), NEW batch, BatchTyped(batch), NEW answers, NEW asked
    PROVE  Told(batch, Proceeds(batch, h, answers, asked, FALSE))
<1> DEFINE needs == BatchNeeds(batch)
           failed == FailedProbes(h, needs)
           fixed == Fixed(h, failed, answers, asked)
           g == HostAfter(h, fixed)
           o == Proceeds(batch, h, answers, asked, FALSE)
<1>1. o.host = g /\ (o.goes <=> (failed \ fixed) \cup FailedProbes(g, fixed) = {})
  BY DEF Proceeds, Remediated
<1>2. \A n \in needs : Need(n)
  BY EachNeed
<1>3. failed = {n \in needs : ~Probe(h, n)} /\ fixed \subseteq failed
  BY DEF FailedProbes, Fixed
<1>4. HostTyped(g)
  BY DEF HostTyped, HostAfter
<1>5. ASSUME NEW n \in needs \ fixed PROVE Probe(g, n) <=> Probe(h, n)
  <2>1. \A m \in failed : Need(m)
    BY <1>2, <1>3
  <2> QED BY <2>1, <1>2, <1>5, OnlyFixed
<1>6. FailedProbes(g, fixed) = {n \in fixed : ~Probe(g, n)}
  BY DEF FailedProbes
<1>7. needs = UNION {Needs1(p) \cup {Tool(c) : c \in p.compilers} : p \in {q \in batch : q.resolved}}
  BY DEF BatchNeeds
<1> HIDE DEF needs, failed, fixed, g, o
<1>8. o.goes <=> \A n \in needs : Probe(g, n)
  BY <1>1, <1>3, <1>5, <1>6
<1>9. ASSUME NEW p \in batch
      PROVE  (\A n \in Needs1(p) \cup {Tool(c) : c \in p.compilers} : Probe(g, n)) <=> Served(g, p)
  BY <1>4, ServedIs DEF BatchTyped
<1>10. (\A n \in needs : Probe(g, n)) <=> \A p \in batch : p.resolved => Served(g, p)
  BY <1>7, <1>9
<1>11. Told(batch, o)
  BY <1>1, <1>8, <1>10 DEF Told
<1> QED BY <1>11 DEF o
(***************************************************************************)
(* THEOREM BatchesAreSound: whatever worlds an update starts from, whatever *)
(* suites the toolchain stage takes on and whatever batches the pre-flight  *)
(* is asked about, the members of a PKGBUILD are taken on as one, and what  *)
(* is said of the host is so.                                               *)
(***************************************************************************)
THEOREM BatchesAreSound ==
    ASSUME NEW Worlds, \A w \in Worlds : MembersTyped(w),
           NEW Trees, \A r \in Trees : SuiteTyped(r),
           NEW Asks, \A b \in Asks : HostTyped(b.host) /\ BatchTyped(b.batch)
    PROVE  /\ Posed("update", Worlds) \/ Posed("suite", Trees) \/ Posed("preflight", Asks)
           /\ [][ComputeUpdate \/ ComputeSuite \/ ComputePreflight]_question
           => []BatchSound
<1> DEFINE Questions == Posed("update", Worlds) \/ Posed("suite", Trees) \/ Posed("preflight", Asks)
           Compute == ComputeUpdate \/ ComputeSuite \/ ComputePreflight
           Told1 == Proceeds(input.batch, input.host, input.answers, input.asked, input.off)
           OfUpdate == subject = "update" /\ input \in Worlds /\ (computed => output = Assembled(input))
           OfSuite  == subject = "suite" /\ input \in Trees /\ (computed => output = SuiteTrees(input))
           OfHost   == subject = "preflight" /\ input \in Asks /\ (computed => output = Told1)
           IInv == OfUpdate \/ OfSuite \/ OfHost
<1>1. Questions => IInv
  BY DEF Posed
<1>2. IInv /\ [Compute]_question => IInv'
  <2> SUFFICES ASSUME IInv, [Compute]_question PROVE IInv'
    OBVIOUS
  <2>1. CASE OfUpdate
    BY <2>1 DEF ComputeUpdate, ComputeSuite, ComputePreflight, Answer, question
  <2>2. CASE OfSuite
    BY <2>2 DEF ComputeUpdate, ComputeSuite, ComputePreflight, Answer, question
  <2>3. CASE OfHost
    BY <2>3 DEF ComputeUpdate, ComputeSuite, ComputePreflight, Answer, question
  <2> QED BY <2>1, <2>2, <2>3
<1>3. IInv => BatchSound
  <2> SUFFICES ASSUME IInv PROVE BatchSound
    OBVIOUS
  <2>1. UpdatedAsOne
    <3> SUFFICES ASSUME subject = "update", computed PROVE MembersAsOne(input, output)
      BY DEF UpdatedAsOne, Answered
    <3>1. input \in Worlds /\ output = Assembled(input)
      OBVIOUS
    <3> QED BY <3>1, AssembledAsOne
  <2>2. SuiteAsOne
    <3> SUFFICES ASSUME subject = "suite", computed PROVE TreesAsOne(input, output)
      BY DEF SuiteAsOne, Answered
    <3>1. input \in Trees /\ output = SuiteTrees(input)
      OBVIOUS
    <3> QED BY <3>1, SuiteIsAsOne
  <2>3. PreflightTells
    <3> SUFFICES ASSUME subject = "preflight", computed, ~input.off PROVE Told(input.batch, output)
      BY DEF PreflightTells, Answered
    <3>1. input \in Asks /\ output = Told1
      OBVIOUS
    <3>2. Told1 = Proceeds(input.batch, input.host, input.answers, input.asked, FALSE)
      BY DEF Proceeds
    <3> HIDE DEF Told1
    <3> QED BY <3>1, <3>2, PreflightTruly
  <2> QED BY <2>1, <2>2, <2>3 DEF BatchSound
<1> HIDE DEF IInv, Questions, Compute
<1>4. Questions /\ [][Compute]_question => []BatchSound
  BY <1>1, <1>2, <1>3, PTL
<1> QED BY <1>4 DEF Questions, Compute
=============================================================================

----------------------------- MODULE UpdateRun ------------------------------
(***************************************************************************)
(* `sysforge update' (update.py): which packages are outdated or were      *)
(* built with other flags or another compiler than they would be today,    *)
(* what is built of them, and how the run ends; run after run, while       *)
(* upstream, the profiles, the compiler and the user's own pacman change   *)
(* what it is about.                                                       *)
(*                                                                         *)
(* A version is a pair of the upstream version or commit v and the pkgrel  *)
(* r; Ver orders them.  A recipe is the PKGBUILD of a base: v, r, and the  *)
(* members it produces.  Of compilers only the one that is installed can   *)
(* be told from the rest: a fingerprint is Current, or of an Older one.    *)
(***************************************************************************)
EXTENDS Naturals, FiniteSets, FiniteSetsExt

CONSTANTS
    Bases,          \* pkgbases in scope
    Toolchain,      \* those of them the toolchain stage builds
    MembersOf,      \* [Bases -> the package names that may be installed of it]
    MaxV,           \* bound of v
    MaxChanges,     \* how often the world changes
    None            \* a value that is missing

ASSUME UpdateAssumption == Toolchain \subseteq Bases /\ MaxV \in Nat /\ MaxChanges \in Nat

\* A package is built from one PKGBUILD, and no version is the missing one.
ASSUME PackagesApart ==
    /\ \A b, c \in Bases : b # c => MembersOf[b] \cap MembersOf[c] = {}
    /\ None \notin Nat

VARIABLES
    kind,           \* [Bases -> "aur", "vcs", "repo" or "pacman"]
    source,         \* [Bases -> recipe] what upstream offers
    checkout,       \* [Bases -> recipe] in the build directory
    sidecar,        \* [Bases -> members] a failed build's PKGBUILD.sysforge, or None
    installed,      \* [names -> version] or None
    record,         \* [names -> entry] a source build's record, or None
    world,          \* the flags profiles resolve to, and the opt-outs
    changes,        \* changes of the world so far
    run,            \* the update that runs
    settled         \* the last complete run left nothing to do, and nothing changed since

vars == <<kind, source, checkout, sidecar, installed, record, world, changes, run, settled>>

Older   == 0
Current == 1
Outdated == [n \in DOMAIN record |->
                IF record[n] = None THEN None ELSE [record[n] EXCEPT !.fp = Older, !.builtWith = Older]]

Names   == UNION {MembersOf[b] : b \in Bases}
Ver(s)  == 2 * s.v + s.r
Recipes(b) == [v : 1..MaxV, r : 0..1, makes : (SUBSET MembersOf[b]) \ {{}}]
InstalledOf(b, ns) == {n \in ns : installed[n] # None}
RecordOf(b) == {record[n] : n \in {m \in MembersOf[b] : record[m] # None}}

Idle == [phase |-> "idle"]

(* devel, rebuild, offline, dry: the command line; names: the packages it   *)
(* names; owned: --include-stage-owned.                                     *)
Args == [devel : BOOLEAN, rebuild : BOOLEAN, offline : BOOLEAN, dry : BOOLEAN,
         names : SUBSET Names, owned : BOOLEAN]

-----------------------------------------------------------------------------
(* The world: upstream releases, profiles are edited, another compiler is   *)
(* installed, and packages are opted out or built by hand.  Upstream may    *)
(* release while an update runs; the rest of the world waits for it.        *)

Change == changes < MaxChanges /\ changes' = changes + 1 /\ settled' = FALSE

Release(b) ==
    /\ Change
    /\ \E s \in Recipes(b) :
          /\ \/ s.v = source[b].v + 1 /\ s.r = 0
             \/ s.v = source[b].v /\ s.r = source[b].r + 1
          /\ s.makes = source[b].makes \/ s.v # source[b].v
          /\ source' = [source EXCEPT ![b] = s]
    /\ run' = IF run.phase = "idle" THEN run ELSE [run EXCEPT !.calm = FALSE]
    /\ UNCHANGED <<kind, checkout, sidecar, installed, record, world>>

(* The user's own pacman puts another build of a package in place.          *)
Reinstall(n, b) ==
    /\ Change /\ run.phase = "idle" /\ n \in MembersOf[b] /\ record[n] # None
    /\ installed' = [installed EXCEPT ![n] = Ver(source[b])]
    /\ record' = [record EXCEPT ![n] = None]
    /\ UNCHANGED <<kind, source, checkout, sidecar, world, run>>

Edit ==
    /\ Change /\ run.phase = "idle"
    /\ \/ /\ world' \in {[world EXCEPT !.flags = 1 - @]}
                        \cup {[world EXCEPT !.optedOut = MembersOf[b]] : b \in Bases}
          /\ record' = record
       \/ record' = Outdated /\ world' = world
    /\ UNCHANGED <<kind, source, checkout, sidecar, installed, run>>

-----------------------------------------------------------------------------
(* The phases.                                                              *)

ReadOnly == run.args.dry

Start(args) ==
    /\ run.phase = "idle"
    /\ run' = [phase |-> "init", args |-> args, calm |-> TRUE, fp |-> Current,
               set |-> {}, fails |-> {}, action |-> <<>>,
               stale |-> {}, plan |-> {}, upgrade |-> {}, built |-> {}, failed |-> {}, declined |-> FALSE,
               code |-> None]
    /\ UNCHANGED <<kind, source, checkout, sidecar, installed, record, world, changes, settled>>

(* A package named on the command line is no longer opted out.              *)
ClearOptOut == IF ReadOnly THEN world.optedOut
               ELSE world.optedOut \ UNION {MembersOf[b] : b \in {c \in Bases :
                        MembersOf[c] \cap run.args.names \cap world.optedOut # {}}}

(* The installed names that update looks after: those from the AUR or with  *)
(* a source build on record, and with repo_mode = build_from_source all of  *)
(* them.  Opted-out ones leave unless they are named, and so do those a     *)
(* stage owns.                                                              *)
InScope(optedOut) ==
    {n \in Names :
        /\ installed[n] # None
        /\ n \in run.args.names \/ n \notin optedOut
        /\ run.args.names # {} => n \in run.args.names
        /\ \A b \in Toolchain : n \in MembersOf[b] => run.args.owned \/ n \in run.args.names}

Assemble ==
    /\ run.phase = "init"
    /\ world' = [world EXCEPT !.optedOut = ClearOptOut]
    /\ run' = [run EXCEPT !.phase = "assembled", !.set = InScope(ClearOptOut)]
    /\ settled' = (settled /\ world' = world)
    /\ UNCHANGED <<kind, source, checkout, sidecar, installed, record, changes>>

InSet == {b \in Bases : MembersOf[b] \cap run.set # {}}

(* Sources are fetched unless the run is offline; a VCS package's only with *)
(* --devel.  A source that cannot be brought up to date blocks its package. *)
Synced == IF run.args.offline THEN {} 
          ELSE {b \in InSet : kind[b] # "pacman" /\ (kind[b] = "vcs" => run.args.devel)}

SyncSources ==
    /\ run.phase = "assembled"
    /\ \E broken \in SUBSET Synced :
          /\ checkout' = [b \in Bases |-> IF b \in Synced \ broken THEN source[b] ELSE checkout[b]]
          /\ \E frozen \in SUBSET broken :
                run' = [run EXCEPT !.phase = "synced",
                                   !.fails = [b \in broken |-> IF b \in frozen THEN "frozen" ELSE "pull"]]
    /\ UNCHANGED <<kind, source, sidecar, installed, record, world, changes, settled>>

(* The members a build produces are told from the PKGBUILD it left, when    *)
(* the installed versions differ and one is there.                          *)
Produced(b, ns) ==
    IF sidecar[b] = None \/ ns \cap sidecar[b] = {} THEN ns ELSE ns \cap sidecar[b]

OldestOf(b, ns) ==
    LET live == InstalledOf(b, ns)
        names == IF Cardinality({installed[n] : n \in live}) > 1 THEN Produced(b, ns) ELSE ns
    IN  Min({installed[n] : n \in InstalledOf(b, names)})

\* Mutant: an equal version is rebuilt.
ComparedLoosely(new, old) == IF new >= old THEN "NEEDS_REBUILD" ELSE "DOWNGRADE"

Compared(new, old) == CASE new > old -> "NEEDS_REBUILD"
                        [] new = old -> "UP_TO_DATE"
                        [] OTHER     -> "DOWNGRADE"

(* Upstream's commit and the version a fetched VCS source evaluates to, if  *)
(* they can be had.                                                         *)
Peeked(b)    == {None, source[b].v}
Evaluated(b) == {None, Ver([checkout[b] EXCEPT !.v = source[b].v])}

\* Mutant: the pkgrel is not looked at.
ShortCutCommit(b, old, commit) ==
    \E e \in RecordOf(b) : e.ver = old /\ e.commit = commit

(* The commit that was built is still upstream's, and the PKGBUILD asks for *)
(* the pkgrel on record: no need to evaluate the version.                   *)
ShortCut(b, old, commit) ==
    \E e \in RecordOf(b) : e.ver = old /\ e.ver % 2 = checkout[b].r /\ e.commit = commit

CheckOne(b) ==
    LET old == OldestOf(b, MembersOf[b] \cap run.set)
    IN  IF kind[b] = "pacman" THEN
            IF run.args.offline THEN {"UP_TO_DATE"}
            ELSE {"SKIPPED_NO_CHECKUPDATES",
                  IF Ver(source[b]) > old THEN "NEEDS_PACMAN_UPGRADE" ELSE "UP_TO_DATE"}
        ELSE IF kind[b] = "vcs" /\ ~run.args.devel THEN {"DEVEL"}
        ELSE IF b \in DOMAIN run.fails THEN {IF run.fails[b] = "frozen" THEN "FROZEN" ELSE "PULL_FAILED"}
        ELSE IF kind[b] = "vcs" THEN
            {IF ShortCut(b, old, commit) THEN "UP_TO_DATE"
             ELSE IF new = None THEN "DEVEL_EVAL_FAILED" ELSE Compared(new, old) :
                commit \in Peeked(b), new \in Evaluated(b)}
        ELSE {Compared(Ver(checkout[b]), old)}

VersionCheck ==
    /\ run.phase = "synced"
    /\ \E a \in [InSet -> UNION {CheckOne(b) : b \in InSet}] :
          /\ \A b \in InSet : a[b] \in CheckOne(b)
          /\ run' = [run EXCEPT !.phase = "checked", !.action = a]
    /\ UNCHANGED <<kind, source, checkout, sidecar, installed, record, world, changes, settled>>

(* Built by another compiler than the active one, as the first member on    *)
(* record tells; or with other flags than the profile resolves to, as the   *)
(* first member tells if it was built from source.  Which one is first      *)
(* depends on the order of a set.                                           *)
CompilerDrift(b) == {record[n].fp # run.fp : n \in {m \in MembersOf[b] \cap run.set : record[m] # None}}
FlagDrift(b)     == {record[n] # None /\ record[n].flags # world.flags : n \in MembersOf[b] \cap run.set}

Drift ==
    /\ run.phase = "checked"
    /\ \E stale \in SUBSET InSet :
          /\ \A b \in stale : TRUE \in CompilerDrift(b) \cup FlagDrift(b)
          /\ \A b \in InSet \ stale : FALSE \in FlagDrift(b) /\ CompilerDrift(b) \in {{}, {TRUE, FALSE}, {FALSE}}
          /\ run' = [run EXCEPT !.phase = "drift", !.stale = stale]
    /\ UNCHANGED <<kind, source, checkout, sidecar, installed, record, world, changes, settled>>

(* With --rebuild-on-drift what is up to date but drifted is rebuilt; what  *)
(* could not be synced is not.                                              *)
Promoted == IF run.args.rebuild
            THEN [b \in InSet |-> IF b \in run.stale /\ kind[b] # "pacman" /\ run.action[b] = "UP_TO_DATE"
                                  THEN "NEEDS_REBUILD" ELSE run.action[b]]
            ELSE run.action

ToBuild == {b \in InSet : Promoted[b] = "NEEDS_REBUILD"} \ DOMAIN run.fails

Plan ==
    /\ run.phase = "drift"
    /\ run' = [run EXCEPT !.phase = IF ReadOnly THEN "done" ELSE "planned", !.plan = ToBuild,
                          !.upgrade = {b \in InSet : run.action[b] = "NEEDS_PACMAN_UPGRADE"},
                          !.code = IF ReadOnly THEN 0 ELSE None]
    /\ UNCHANGED <<kind, source, checkout, sidecar, installed, record, world, changes, settled>>

(* Asked, the user may say no; with nothing to do the run ends.             *)
Frozen == {b \in DOMAIN run.fails : run.fails[b] = "frozen"}

Decline ==
    /\ run.phase = "planned" /\ run.plan \cup run.upgrade # {}
    /\ run' = [run EXCEPT !.phase = "done", !.code = 0, !.declined = TRUE]
    /\ UNCHANGED <<kind, source, checkout, sidecar, installed, record, world, changes, settled>>

Confirm ==
    /\ run.phase = "planned"
    /\ run' = IF run.plan \cup run.upgrade \cup Frozen = {}
              THEN [run EXCEPT !.phase = "done", !.code = 0] ELSE [run EXCEPT !.phase = "building"]
    /\ UNCHANGED <<kind, source, checkout, sidecar, installed, record, world, changes, settled>>

-----------------------------------------------------------------------------
\* Mutant: the compiler the run started with.
FingerprintAtStart(b) == run.fp

(* The build: the toolchain's packages come first, and what follows is      *)
(* recorded with the compiler they installed.                               *)

Left == run.plan \ (run.built \cup run.failed)
Turn == IF Left \cap Toolchain # {} THEN Left \cap Toolchain ELSE Left

Fingerprint(b) ==
    IF run.plan \cap Toolchain = {} \/ run.plan \subseteq Toolchain \/ b \in Toolchain
    THEN run.fp ELSE Current

BuiltRecipe(b) == IF kind[b] = "vcs" THEN [checkout[b] EXCEPT !.v = source[b].v] ELSE checkout[b]

(* A success installs what the recipe makes of the names in scope; its      *)
(* record tells version, flags, compiler and commit.  builtWith is the      *)
(* compiler that really ran.  The patched PKGBUILD does not outlive it.     *)
BuildInstalls(b) ==
    /\ run.phase = "building" /\ b \in Turn
    /\ LET made == checkout[b].makes \cap run.set
           e == [ver |-> Ver(BuiltRecipe(b)), flags |-> world.flags, fp |-> Fingerprint(b),
                 commit |-> BuiltRecipe(b).v, builtWith |-> Current]
           old == [e EXCEPT !.fp = Older, !.builtWith = Older]
       IN  /\ installed' = [n \in Names |-> IF n \in made THEN e.ver ELSE installed[n]]
           /\ record' = [n \in Names |->
                            CASE n \in made -> IF b \in Toolchain THEN old ELSE e
                              [] n \notin made /\ b \in Toolchain -> Outdated[n]
                              [] OTHER -> record[n]]
    /\ sidecar' = [sidecar EXCEPT ![b] = None]
    /\ run' = [run EXCEPT !.built = @ \cup {b}, !.fp = IF b \in Toolchain THEN Older ELSE @]
    /\ UNCHANGED <<kind, source, checkout, world, changes, settled>>

(* A failed build leaves the PKGBUILD it patched, one that was refused or   *)
(* failed before leaves an older one, and a failed installation none.       *)
BuildFails(b) ==
    /\ run.phase = "building" /\ b \in Turn
    /\ \E left \in {checkout[b].makes, sidecar[b], None} : sidecar' = [sidecar EXCEPT ![b] = left]
    /\ run' = [run EXCEPT !.failed = @ \cup {b}]
    /\ UNCHANGED <<kind, source, checkout, installed, record, world, changes, settled>>

(* Every package that failed, or is frozen, makes the exit code 1; a source *)
(* that could not be pulled does not.                                       *)
ExitCode(upgraded) == IF run.failed \cup Frozen # {} \/ ~upgraded THEN 1 ELSE 0

(* Last pacman -Syu upgrades what is taken from the repositories.           *)
Report ==
    /\ run.phase = "building" /\ Left = {}
    /\ \E upgraded \in IF run.upgrade = {} THEN {TRUE} ELSE BOOLEAN :
          /\ installed' = [n \in Names |-> IF upgraded /\ \E b \in run.upgrade : n \in MembersOf[b] /\ installed[n] # None
                                           THEN Ver(source[CHOOSE b \in Bases : n \in MembersOf[b]])
                                           ELSE installed[n]]
          /\ run' = [run EXCEPT !.phase = "done", !.code = ExitCode(upgraded)]
    /\ UNCHANGED <<kind, source, checkout, sidecar, record, world, changes, settled>>

(* A run over everything, with --devel and --rebuild-on-drift.              *)
Complete == /\ run.args.devel /\ run.args.rebuild /\ run.args.names = {} /\ run.args.owned
            /\ ~run.args.offline /\ ~run.args.dry

(* What it has not done: its user declined, a source or a build failed, or  *)
(* a version could not be told.                                             *)
Unfinished ==
    (run.plan \ run.built) \cup DOMAIN run.fails
    \cup {b \in DOMAIN run.action : run.action[b] \in {"DEVEL_EVAL_FAILED", "SKIPPED_NO_CHECKUPDATES"}}
    \cup (IF run.built = {} /\ run.code = 1 THEN run.upgrade ELSE {})

Exit ==
    /\ run.phase = "done"
    /\ settled' = (Complete /\ run.calm /\ Unfinished = {} /\ run.code = 0
                   /\ run.fp = Current)
    /\ run' = Idle
    /\ UNCHANGED <<kind, source, checkout, sidecar, installed, record, world, changes>>

-----------------------------------------------------------------------------
Init ==
    /\ kind \in [Bases -> {"aur", "vcs", "repo", "pacman"}]
    /\ \A b \in Toolchain : kind[b] = "repo"
    /\ source = [b \in Bases |-> [v |-> 1, r |-> 0, makes |-> MembersOf[b]]]
    /\ checkout = source /\ sidecar = [b \in Bases |-> None]
    /\ installed \in [Names -> {2, None}]
    /\ record = [n \in Names |->
                    IF installed[n] = None \/ \E b \in Bases : n \in MembersOf[b] /\ kind[b] = "pacman" THEN None
                    ELSE [ver |-> 2, flags |-> 0, fp |-> Current, commit |-> 1, builtWith |-> Current]]
    /\ world = [flags |-> 0, optedOut |-> {}]
    /\ changes = 0 /\ run = Idle /\ settled = FALSE

Phases == Assemble \/ SyncSources \/ VersionCheck \/ Drift \/ Plan \/ Decline \/ Confirm
             \/ Report \/ Exit

Next ==
    \/ \E b \in Bases : Release(b) \/ BuildInstalls(b) \/ BuildFails(b)
    \/ \E b \in Bases, n \in Names : Reinstall(n, b)
    \/ Edit
    \/ \E args \in Args : Start(args)
    \/ Phases

Spec == Init /\ [][Next]_vars

-----------------------------------------------------------------------------
(* A complete run that left nothing undone is done: until something changes *)
(* the next one finds nothing to build.  A run that built the compiler      *)
(* leaves all the others drifted; a member that the PKGBUILD no longer      *)
(* makes keeps its version, so that its base is rebuilt each time; and of   *)
(* members that are not of one build, as when pacman put one of them in     *)
(* place, it depends on the run which one is asked.                         *)
Dropped(b) == \E n \in MembersOf[b] \ checkout[b].makes : installed[n] # None
Uneven(b)  == \E m, n \in MembersOf[b] :
    /\ installed[m] # None /\ installed[n] # None
    /\ record[m] # record[n] \/ installed[m] # installed[n]

UpdateSettles ==
    settled /\ run.phase = "planned" => \A b \in run.plan : Dropped(b) \/ Uneven(b)

(* Exit code 0 of a run that was not declined means that what it planned    *)
(* was built, and that everything else in scope was up to date, newer, or   *)
(* has a source or a version that could not be had.  A member is not looked *)
(* at while the PKGBUILD.sysforge of a failed build does not make it.       *)
Overlooked(b, n) == sidecar[b] # None /\ n \notin sidecar[b]

ZeroMeansBuilt ==
    run.phase = "done" /\ run.code = 0 /\ Complete /\ run.calm /\ ~run.declined =>
        \A b \in InSet \ Unfinished : \A n \in MembersOf[b] \cap run.set :
            installed[n] >= Ver(source[b]) \/ n \notin checkout[b].makes \/ Overlooked(b, n)

(* The compiler a record names is the one that built the package, though a  *)
(* run installs a new one on its way.                                       *)
RecordTellsCompiler == \A n \in Names : record[n] # None => record[n].fp = record[n].builtWith

(* What a run says by its exit code and its records is what it did.         *)
ReportIsTrue == ZeroMeansBuilt /\ RecordTellsCompiler
=============================================================================

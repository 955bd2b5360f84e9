---------------------------- MODULE BuildInstall ----------------------------
(***************************************************************************)
(* What sysforge knows of a package against what is installed: builds and  *)
(* their installation (build_core.build_and_install, install_built), the   *)
(* reconcile with pacman's own transactions (install_reconcile, update),   *)
(* uninstall and revert-to-stock, over the operations of BuildState.       *)
(*                                                                         *)
(* One verb runs at a time: all four are in a sentinel scope               *)
(* (StageSentinel).  The user's own pacman, which nothing excludes, may    *)
(* act between any two of its steps, and it may be killed at any of them.  *)
(* Each operation on build state loads the file, changes it and writes it  *)
(* whole, in one step; only a reconcile changes its copy first, clears the *)
(* window, and saves after.                                                *)
(*                                                                         *)
(* A build is its number: what an entry says of a build (version, flags,   *)
(* toolchain, commit) is told apart by which build it was, and built_at    *)
(* makes any two entries differ.  Of the fields that record() carries over *)
(* only owner_stage is kept, since it alone decides what happens to the    *)
(* entry later.  An artifact is named by its package and version.          *)
(***************************************************************************)
EXTENDS Integers, FiniteSets

CONSTANTS
    Name,       \* package names
    BaseOf,     \* the pkgbase that each is a member of
    MaxVer,     \* versions 1 .. MaxVer of a PKGBUILD
    MaxBuilds,  \* builds 1 .. MaxBuilds
    None,       \* no entry
    InRepo,     \* the packages that a sync repository carries
    DepsOf,     \* the bases each base is built after, when in the same batch
    Staged,     \* the bases a pipeline stage builds
    Kills,      \* may the verb be killed?
    Outside     \* may the user run pacman while a verb runs?

ASSUME BaseOfTyped == BaseOf \in [Name -> Name]
ASSUME BoundsTyped == MaxVer \in Nat \ {0} /\ MaxBuilds \in Nat

Base        == {BaseOf[n] : n \in Name}
Member(b)   == {n \in Name : BaseOf[n] = b}
Ver         == 1 .. MaxVer
Build       == 1 .. MaxBuilds
Repo        == 0                \* the package as the distribution built it

\* build_mode is "pacman" in a marker, which sync_with_installed() writes, and
\* in a demoted entry, which still knows its pkgbase.
Mode  == {"source", "demoted", "marker"}
Entry == [mode : Mode, build : Build \cup {Repo}, owned : BOOLEAN]
File  == [entry  : [Name -> Entry \cup {None}],
          failed : SUBSET Base,                           \* [failures]
          stash  : [Name -> [Ver -> Entry \cup {None}]]]  \* [reverted]

ASSUME NoneIsNoEntry == None \notin Entry \cup Build \cup {Repo}

Marker == [mode |-> "marker", build |-> Repo, owned |-> FALSE]

Tracked(f)        == {n \in Name : f.entry[n] # None}
SourceBuilt(f)    == {n \in Tracked(f) : f.entry[n].mode = "source"}
\* the entries that name their pkgbase
KnowsBase(f)      == {n \in Tracked(f) : f.entry[n].mode # "marker"}
Nothing           == [v \in Ver |-> None]

ASSUME InRepoTyped  == InRepo \subseteq Name
ASSUME DepsOfTyped  == DepsOf \in [Base -> SUBSET Base]
ASSUME StagedTyped  == Staged \subseteq Base
ASSUME SwitchesTyped == Kills \in BOOLEAN /\ Outside \in BOOLEAN

-----------------------------------------------------------------------------
(***************************************************************************)
(* The class BuildState (primitives/build_state.py): its operations on a   *)
(* loaded copy of build_state.toml, each named as its method.              *)
(***************************************************************************)
\* The entry that record() writes: a build that knows of no owning stage keeps
\* the owner of the prior entry.
Stamp(f, n, id, owns) ==
    [mode |-> "source", build |-> id, owned |-> owns \/ (n \in Tracked(f) /\ f.entry[n].owned)]

\* record() for each name of one build: it supersedes what a refused install
\* undid, and the base's failure.
Record(f, names, id, owns) ==
    [f EXCEPT !.entry  = [n \in Name |-> IF n \in names THEN Stamp(f, n, id, owns) ELSE @[n]],
              !.stash  = [n \in Name |-> IF n \in names THEN Nothing ELSE @[n]],
              !.failed = @ \ {BaseOf[n] : n \in names}]

RecordFailure(f, b) == [f EXCEPT !.failed = @ \cup {b}]

\* revert_record() for each refused artifact: the entries go back to was,
\* and the ones undone are kept under their artifact.
Revert(f, names, was, vers) ==
    [f EXCEPT !.entry = [n \in Name |-> IF n \in names THEN was[n] ELSE @[n]],
              !.stash = [n \in Name |->
                  IF n \in names /\ f.entry[n] \notin {None, was[n]}
                  THEN [@[n] EXCEPT ![vers[BaseOf[n]]] = f.entry[n]] ELSE @[n]]]

\* restore_reverted() for each artifact that pacman installed.
Restore(f, names, vers) ==
    LET kept(n) == f.stash[n][vers[BaseOf[n]]]
        back    == {n \in names : kept(n) # None}
    IN [f EXCEPT !.entry = [n \in Name |-> IF n \in back THEN kept(n) ELSE @[n]],
                 !.stash = [n \in Name |-> IF n \in back
                               THEN [@[n] EXCEPT ![vers[BaseOf[n]]] = None] ELSE @[n]]]

\* delete()
Delete(f, names) ==
    [f EXCEPT !.entry = [n \in Name |-> IF n \in names THEN None ELSE @[n]]]

\* reconcile_external_installs(): an entry installed over, and its siblings.
Demote(f, external) ==
    LET hit    == external \cap Tracked(f)
        unit   == hit \cup {n \in KnowsBase(f) :
                               \E m \in hit \cap KnowsBase(f) : BaseOf[m] = BaseOf[n]}
        stock  == {n \in unit \cap SourceBuilt(f) : ~f.entry[n].owned}
    IN [f EXCEPT !.entry = [n \in Name |-> IF n \in stock
                               THEN [mode |-> "demoted", build |-> Repo, owned |-> FALSE]
                               ELSE @[n]]]

\* sync_with_installed()
Sync(f, present) ==
    LET gone == Tracked(f) \ present
    IN [f EXCEPT !.entry = [n \in Name |-> CASE n \in gone -> None
                                             [] n \in present \ Tracked(f) -> Marker
                                             [] OTHER -> @[n]],
                 !.stash = [n \in Name |-> IF n \in gone THEN Nothing ELSE @[n]]]

-----------------------------------------------------------------------------
\* The pkgbases that the failure of a package may be recorded under.
FailureKeys(f, n) == {n} \cup (IF n \in KnowsBase(f) THEN {BaseOf[n]} ELSE {})

\* Mutant of ClearRemoved: a member that is still installed does not count.
ClearRemovedBlindly(f, removed, present) ==
    [f EXCEPT !.failed = @ \ UNION {FailureKeys(f, n) : n \in removed \ present}]

\* clear_removed_failures(): of the bases with no member left.
ClearRemoved(f, removed, present) ==
    [f EXCEPT !.failed = @ \ (UNION {FailureKeys(f, n) : n \in removed \ present}
                                 \ (present \cup {BaseOf[n] : n \in present}))]

\* clear_stale_failures()
ClearStale(f, touched, present) == ClearRemoved(f, touched \cup Tracked(f), present)

\* forget_packages(): the names, and every entry whose pkgbase one of them is.
Forget(f, names) ==
    LET gone  == (names \cap Tracked(f)) \cup {m \in KnowsBase(f) : BaseOf[m] \in names}
        keys  == names \cup {BaseOf[m] : m \in gone \cap KnowsBase(f)}
        left  == Delete(f, gone)
        owned == Tracked(left) \cup {BaseOf[m] : m \in KnowsBase(left)}
    IN [left EXCEPT !.failed = @ \ (keys \ owned)]

-----------------------------------------------------------------------------
VARIABLES
    file,       \* build_state.toml
    window,     \* by package, whose is its latest event in the two sentinel files
    present,    \* the installed packages
    last,       \* what pacman last installed, removed since or not
    art,        \* the artifacts in PKGDEST
    ver,        \* the version of each PKGBUILD
    builds,     \* the builds so far
    pc,         \* where the verb is
    verb,
    queue,      \* build_and_install: the targets left
    cur,        \* ... the target being built
    fresh,      \* ... was it built, or was an artifact reused?
    wanted,     \* ... requested;  uninstall: the package, if it is tracked
    forced,     \* ... --rebuild
    prior,      \* ... prior_state
    files,      \* ... built_pkg_files that no install has handled
    refused,    \* ... not_installed
    pending,    \* install_built: the artifacts of this transaction
    final,      \* ... is it the final bulk install?
    mem,        \* the copy that a reconcile has changed and not saved
    adrift,     \* packages whose record one of the known leaks may have left behind
    broken      \* bases whose last build failed, and whose failure must show

system == <<present, last, art, ver, builds>>
batch  == <<queue, cur, fresh, wanted, forced, prior, files, refused, pending, final>>
ghosts == <<adrift, broken>>
vars   == <<file, window, system, pc, verb, batch, mem, ghosts>>

Verbs == {"build", "update", "uninstall", "revert"}
PCs   == {"idle", "next", "made", "gate", "filter", "install", "mark", "restore", "undo",
          "end", "removed", "forget", "consume", "clear", "save", "sync", "plan"}

Touched     == {n \in Name : window[n] # "none"}
External    == {n \in Name : window[n] = "external"}
Reinstalled == External \cap InRepo    \* to be demoted by the next reconcile
NamesOf(bs) == {n \in Name : BaseOf[n] \in bs}
Artifact(n) == art[n][ver[BaseOf[n]]]
\* Source entries of a build that is not the one pacman installed last.  A
\* package that a stage owns stays its own when the user installs over it.
Ahead(f)    == {n \in SourceBuilt(f) : /\ f.entry[n].build # last[n]
                                       /\ f.entry[n].owned => last[n] # Repo}

TypeOK ==
    /\ file \in File
    /\ window \in [Name -> {"none", "own", "external"}]
    /\ present \in SUBSET Name
    /\ last \in [Name -> Build \cup {Repo, None}]
    /\ art \in [Name -> [Ver -> Build \cup {None}]]
    /\ ver \in [Base -> Ver]
    /\ builds \in 0 .. MaxBuilds
    /\ pc \in PCs
    /\ verb \in Verbs
    /\ queue \in SUBSET Base
    /\ cur \in Base \cup {None}
    /\ fresh \in BOOLEAN
    /\ wanted \in SUBSET Name
    /\ forced \in BOOLEAN
    /\ prior \in [Name -> Entry \cup {None}]
    /\ files \in SUBSET Name
    /\ refused \in SUBSET Name
    /\ pending \in SUBSET Name
    /\ final \in BOOLEAN
    /\ mem \in File
    /\ adrift \in SUBSET Name
    /\ broken \in SUBSET Base

NoEntries == [n \in Name |-> None]
Blank     == [entry |-> NoEntries, failed |-> {}, stash |-> [n \in Name |-> Nothing]]

Init ==
    /\ file = Blank
    /\ window = [n \in Name |-> "none"]
    /\ present \in SUBSET InRepo
    /\ last = [n \in Name |-> IF n \in present THEN Repo ELSE None]
    /\ art = [n \in Name |-> Nothing]
    /\ ver = [b \in Base |-> 1]
    /\ builds = 0
    /\ pc = "idle" /\ verb = "build"
    /\ queue = {} /\ cur = None /\ fresh = FALSE /\ wanted = {} /\ forced = FALSE
    /\ prior = NoEntries /\ files = {} /\ refused = {} /\ pending = {} /\ final = FALSE
    /\ mem = Blank
    /\ adrift = {} /\ broken = {}

\* The verb ends, and what it held goes with it.
Ends ==
    /\ pc' = "idle" /\ verb' = "build"
    /\ queue' = {} /\ cur' = None /\ fresh' = FALSE /\ wanted' = {} /\ forced' = FALSE
    /\ prior' = NoEntries /\ files' = {} /\ refused' = {} /\ pending' = {} /\ final' = FALSE
    /\ mem' = Blank

-----------------------------------------------------------------------------
(* pacman, run by the user                                                 *)

\* Between a transaction of sysforge's and the line that claims it there is
\* time for a kill, but not for another transaction.
UserMay == pc = "idle" \/ (Outside /\ pc # "mark")

Installs(names) ==
    /\ present' = present \cup names
    /\ last' = [n \in Name |-> IF n \in names THEN Repo ELSE last[n]]
    /\ window' = [n \in Name |-> IF n \in names THEN "external" ELSE window[n]]

\* With no member left, there is nothing whose failure would have to show.
Removes(n) ==
    /\ present' = present \ {n}
    /\ window' = [window EXCEPT ![n] = "external"]
    /\ broken' = broken \ {b \in {BaseOf[n]} : Member(b) \cap present = {n}}

\* The events that no reconcile will see: those between its reading the
\* window and clearing it, and those before the end of an update.
Lost == pc = "clear" \/ (verb = "update" /\ pc # "consume")

PacmanSync(n) ==
    /\ UserMay
    /\ n \in InRepo
    /\ Installs({n})
    /\ adrift' = IF Lost THEN adrift \cup {n} ELSE adrift
    /\ UNCHANGED <<file, art, ver, builds, pc, verb, batch, mem, broken>>

PacmanRemove(n) ==
    /\ UserMay
    /\ n \in present
    /\ Removes(n)
    /\ UNCHANGED <<file, last, art, ver, builds, pc, verb, batch, mem, adrift>>

\* A source sync, or an edit, brings a new version.
NewVersion(b) ==
    /\ pc = "idle"
    /\ ver[b] < MaxVer
    /\ ver' = [ver EXCEPT ![b] = @ + 1]
    /\ UNCHANGED <<file, window, present, last, art, builds, pc, verb, batch, mem, ghosts>>

-----------------------------------------------------------------------------
(* build_and_install                                                       *)

Starts(bs, names, rebuild) ==
    /\ bs # {}
    /\ queue' = bs
    /\ wanted' = names
    /\ forced' = rebuild
    /\ prior' = [n \in Name |-> IF n \in names THEN file.entry[n] ELSE None]
    /\ pc' = "next"
    /\ UNCHANGED <<cur, fresh, files, refused, pending, final>>

\* `sysforge build' asks for every member of its targets.
StartBuild(bs, rebuild) ==
    /\ pc = "idle"
    /\ Starts(bs, NamesOf(bs), rebuild)
    /\ UNCHANGED <<file, window, system, verb, mem, ghosts>>

\* A target comes after the ones in the batch that it depends on, and what
\* was built of those is installed first.
Turn(b)      == pc = "next" /\ b \in queue /\ DepsOf[b] \cap queue = {}
BuiltDeps(b) == {n \in files : BaseOf[n] \in DepsOf[b]}
Builds(b)    == Turn(b) /\ BuiltDeps(b) = {}

InstallDeps(b) ==
    /\ Turn(b)
    /\ BuiltDeps(b) # {}
    /\ pending' = BuiltDeps(b)
    /\ files' = files \ BuiltDeps(b)
    /\ pc' = "filter"
    /\ UNCHANGED <<file, window, system, verb, queue, cur, fresh, wanted, forced, prior, refused, final, mem, ghosts>>

\* makepkg has an artifact of this version for every member.
AlreadyBuilt(b) == ~forced /\ \A n \in Member(b) : Artifact(n) # None

Makes(b) ==
    /\ Builds(b)
    /\ ~AlreadyBuilt(b)
    /\ builds < MaxBuilds
    /\ builds' = builds + 1
    /\ art' = [n \in Name |-> IF BaseOf[n] = b THEN [art[n] EXCEPT ![ver[b]] = builds + 1]
                                               ELSE art[n]]
    /\ cur' = b /\ fresh' = TRUE
    /\ pc' = "made"
    /\ UNCHANGED <<file, window, present, last, ver, verb, queue, wanted, forced, prior, files, refused, pending, final, mem, ghosts>>

\* _record_build_state: one record for each pkgname of the PKGBUILD.
RecordBuild(owns) ==
    /\ pc = "made"
    /\ owns => cur \in Staged
    /\ file' = Record(file, Member(cur), builds, owns)
    /\ broken' = broken \ {cur}
    /\ pc' = "gate"
    /\ UNCHANGED <<window, system, verb, batch, mem, adrift>>

\* An artifact of an earlier run is reused, and nothing is recorded.
Reuses(b) ==
    /\ Builds(b)
    /\ AlreadyBuilt(b)
    /\ cur' = b /\ fresh' = FALSE
    /\ pc' = "gate"
    /\ UNCHANGED <<file, window, system, verb, queue, wanted, forced, prior, files, refused, pending, final, mem, ghosts>>

\* A failure must show until the base builds, or is gone: when a member is
\* installed, and when nothing knows of the package yet.
MustShow(b) ==
    \/ Member(b) \cap present # {}
    \/ Member(b) \cap (Tracked(file) \cup Touched) = {}

BuildFails(b) ==
    /\ Builds(b)
    /\ ~AlreadyBuilt(b)
    /\ file' = RecordFailure(file, b)
    /\ queue' = queue \ {b}
    /\ broken' = IF MustShow(b) THEN broken \cup {b} ELSE broken
    /\ UNCHANGED <<window, system, pc, verb, cur, fresh, wanted, forced, prior, files, refused, pending, final, mem, adrift>>

\* _source_built_abi_skew finds nothing.
Passes ==
    /\ pc = "gate"
    /\ files' = files \cup (IF fresh THEN Member(cur) ELSE Member(cur) \cap wanted)
    /\ queue' = queue \ {cur}
    /\ cur' = None /\ fresh' = FALSE
    /\ pc' = "next"
    /\ UNCHANGED <<file, window, system, verb, wanted, forced, prior, refused, pending, final, mem, ghosts>>

\* _refuse_skewed_install: the record of the build stays.
Skewed ==
    /\ pc = "gate"
    /\ SourceBuilt(file) \cap present # {}
    /\ file' = RecordFailure(file, cur)
    /\ adrift' = adrift \cup (Ahead(file) \cap Member(cur))
    /\ broken' = IF MustShow(cur) THEN broken \cup {cur} ELSE broken
    /\ queue' = queue \ {cur}
    /\ cur' = None /\ fresh' = FALSE
    /\ pc' = "next"
    /\ UNCHANGED <<window, system, verb, wanted, forced, prior, files, refused, pending, final, mem>>

\* The final bulk install.
Bulk ==
    /\ pc = "next" /\ queue = {}
    /\ pending' = files
    /\ files' = {}
    /\ final' = TRUE
    /\ pc' = "filter"
    /\ UNCHANGED <<file, window, system, verb, queue, cur, fresh, wanted, forced, prior, refused, mem, ghosts>>

-----------------------------------------------------------------------------
(* install_built                                                           *)

AfterInstall == IF final THEN "undo" ELSE "next"

\* Only what is installed or requested is kept; the records of the others go.
Filter ==
    LET keep == present \cup wanted
    IN /\ pc = "filter"
       /\ pending' = pending \cap keep
       /\ file' = Delete(file, pending \ keep)
       /\ pc' = IF pending \cap keep = {} THEN AfterInstall ELSE "install"
       /\ UNCHANGED <<window, system, verb, queue, cur, fresh, wanted, forced, prior, files, refused, final, mem, ghosts>>

InstallOk ==
    /\ pc = "install"
    /\ present' = present \cup pending
    /\ last' = [n \in Name |-> IF n \in pending THEN Artifact(n) ELSE last[n]]
    /\ window' = [n \in Name |-> IF n \in pending THEN "external" ELSE window[n]]
    /\ pc' = "mark"
    /\ UNCHANGED <<file, art, ver, builds, verb, batch, mem, ghosts>>

\* record_self_install
MarkOwn ==
    /\ pc = "mark"
    /\ window' = [n \in Name |-> IF n \in pending THEN "own" ELSE window[n]]
    /\ pc' = "restore"
    /\ UNCHANGED <<file, system, verb, batch, mem, ghosts>>

\* _restore_reverted_state
RestoreInstalled ==
    /\ pc = "restore"
    /\ file' = Restore(file, pending, ver)
    /\ adrift' = adrift \ {n \in pending \cap SourceBuilt(file') : file'.entry[n].build = last[n]}
    /\ pending' = {}
    /\ pc' = AfterInstall
    /\ UNCHANGED <<window, system, verb, queue, cur, fresh, wanted, forced, prior, files, refused, final, mem, broken>>

\* Mutant of Conflict: only the packages of the last conflict are not installed.
ConflictAnew(C) ==
    /\ pc = "install"
    /\ C # {} /\ C \subseteq pending
    /\ refused' = C
    /\ pending' = pending \ C
    /\ pc' = IF pending = C THEN AfterInstall ELSE "install"
    /\ UNCHANGED <<file, window, system, verb, queue, cur, fresh, wanted, forced, prior, files, final, mem, ghosts>>

\* pacman names the files in conflict: their packages are set aside, and the
\* rest is tried again.
Conflict(C) ==
    /\ pc = "install"
    /\ C # {} /\ C \subseteq pending
    /\ refused' = refused \cup C
    /\ pending' = pending \ C
    /\ pc' = IF pending = C THEN AfterInstall ELSE "install"
    /\ UNCHANGED <<file, window, system, verb, queue, cur, fresh, wanted, forced, prior, files, final, mem, ghosts>>

\* pacman names nobody.
Refuse ==
    /\ pc = "install"
    /\ refused' = refused \cup pending
    /\ pending' = {}
    /\ pc' = AfterInstall
    /\ UNCHANGED <<file, window, system, verb, queue, cur, fresh, wanted, forced, prior, files, final, mem, ghosts>>

\* _revert_uninstalled_state: of the requested packages only.
Undo ==
    /\ pc = "undo"
    /\ file' = Revert(file, refused \cap wanted, prior, ver)
    /\ adrift' = adrift \cup (Ahead(file) \cap (refused \ wanted))
    /\ IF verb = "update"
       THEN pc' = "end" /\ UNCHANGED <<verb, batch, mem>>
       ELSE Ends
    /\ UNCHANGED <<window, system, broken>>

-----------------------------------------------------------------------------
(* consume_external_installs, and update                                   *)

StartUpdate ==
    /\ pc = "idle"
    /\ verb' = "update"
    /\ pc' = "consume"
    /\ UNCHANGED <<file, window, system, batch, mem, ghosts>>

Consume ==
    /\ pc = "consume"
    /\ mem' = Demote(ClearStale(file, Touched, present), Reinstalled)
    /\ pc' = "clear"
    /\ UNCHANGED <<file, window, system, verb, batch, ghosts>>

\* The sentinel files are unlinked, with what came in since they were read.
ClearWindow ==
    /\ pc = "clear"
    /\ window' = [n \in Name |-> "none"]
    /\ pc' = "save"
    /\ UNCHANGED <<file, system, verb, batch, mem, ghosts>>

SaveReconciled ==
    /\ pc = "save"
    /\ file' = mem
    /\ IF verb = "update"
       THEN pc' = "sync" /\ mem' = Blank /\ UNCHANGED <<verb, batch>>
       ELSE Ends
    /\ UNCHANGED <<window, system, ghosts>>

SyncInstalled ==
    /\ pc = "sync"
    /\ file' = Sync(file, present)
    /\ pc' = "plan"
    /\ UNCHANGED <<window, system, verb, batch, mem, ghosts>>

\* What update maintains: installed, and built by sysforge or in no
\* repository.  What a stage owns is left to it unless asked for.
Maintained(included) ==
    {n \in present : /\ n \in SourceBuilt(file) \/ n \notin InRepo
                     /\ n \in Tracked(file) /\ file.entry[n].owned => included}

Plan(bs, rebuild, included) ==
    /\ pc = "plan"
    /\ bs \subseteq {BaseOf[n] : n \in Maintained(included)}
    /\ Starts(bs, Maintained(included) \cap NamesOf(bs), rebuild)
    /\ UNCHANGED <<file, window, system, verb, mem, ghosts>>

NothingToDo ==
    /\ pc = "plan"
    /\ Ends
    /\ UNCHANGED <<file, window, system, ghosts>>

\* Nothing to build, but pacman has upgrades.  Its -Syu leaves what sysforge
\* built alone (IgnoreGroup), and its events go with the window.
OnlyUpgrades ==
    /\ pc = "plan"
    /\ pc' = "end"
    /\ UNCHANGED <<file, window, system, verb, batch, mem, ghosts>>

\* The end of update clears the window without a reconcile.
EndUpdate ==
    /\ pc = "end"
    /\ window' = [n \in Name |-> "none"]
    /\ Ends
    /\ UNCHANGED <<file, system, ghosts>>

-----------------------------------------------------------------------------
(* uninstall, revert-to-stock                                              *)

Uninstall(n) ==
    /\ pc = "idle"
    /\ n \in present
    /\ Removes(n)
    /\ pending' = {n}
    /\ wanted' = {n} \cap Tracked(file)
    /\ verb' = "uninstall"
    /\ pc' = "removed"
    /\ UNCHANGED <<file, last, art, ver, builds, queue, cur, fresh, forced, prior, files, refused, final, mem, adrift>>

ClearFailures ==
    /\ pc = "removed"
    /\ file' = ClearRemoved(file, pending, present)
    /\ IF wanted = {} THEN Ends ELSE pc' = "forget" /\ UNCHANGED <<verb, batch, mem>>
    /\ UNCHANGED <<window, system, ghosts>>

\* Naming a split pkgbase reverts its installed members.
Reverts(n) ==
    LET unit == {m \in KnowsBase(file) : BaseOf[m] = n}
    IN IF BaseOf[n] = n /\ Cardinality(unit) > 1 THEN {n} \cup (unit \cap present) ELSE {n}

RevertToStock(n) ==
    /\ pc = "idle"
    /\ n \in SourceBuilt(file)
    /\ Reverts(n) \subseteq InRepo
    /\ Installs(Reverts(n))
    /\ wanted' = Reverts(n)
    /\ verb' = "revert"
    /\ pc' = "forget"
    /\ UNCHANGED <<file, art, ver, builds, queue, cur, fresh, forced, prior, files, refused, pending, final, mem, ghosts>>

\* With the last record of a base goes its failure: nothing builds it any more.
ForgetPackages ==
    /\ pc = "forget"
    /\ file' = Forget(file, wanted)
    /\ broken' = broken \ {b \in {BaseOf[n] : n \in wanted} : Member(b) \cap KnowsBase(file') = {}}
    /\ pc' = "consume"
    /\ UNCHANGED <<window, system, verb, batch, mem, adrift>>

-----------------------------------------------------------------------------
\* A kill leaves a record ahead of its install, an artifact that is not on
\* record, or a reconcile that is not saved.
Kill ==
    /\ Kills /\ pc # "idle"
    /\ adrift' = adrift \cup Ahead(file) \cup {n \in Name : pc = "made" /\ BaseOf[n] = cur}
    /\ Ends
    /\ UNCHANGED <<file, window, system, broken>>

BuildVerb ==
    \/ \E bs \in SUBSET Base, rebuild \in BOOLEAN : StartBuild(bs, rebuild)
    \/ \E b \in Base : InstallDeps(b) \/ Makes(b) \/ Reuses(b) \/ BuildFails(b)
    \/ \E owns \in BOOLEAN : RecordBuild(owns)
    \/ Passes \/ Skewed \/ Bulk

InstallBuilt ==
    \/ Filter \/ InstallOk \/ MarkOwn \/ RestoreInstalled \/ Refuse \/ Undo
    \/ \E C \in SUBSET pending : Conflict(C)

UpdateVerb ==
    \/ StartUpdate \/ Consume \/ ClearWindow \/ SaveReconciled \/ SyncInstalled
    \/ \E bs \in SUBSET Base, rebuild, included \in BOOLEAN : Plan(bs, rebuild, included)
    \/ NothingToDo \/ OnlyUpgrades \/ EndUpdate

RemovalVerbs ==
    \/ \E n \in Name : Uninstall(n) \/ RevertToStock(n)
    \/ ClearFailures \/ ForgetPackages

World ==
    \/ \E n \in Name : PacmanSync(n) \/ PacmanRemove(n)
    \/ \E b \in Base : NewVersion(b)
    \/ Kill

Next == BuildVerb \/ InstallBuilt \/ UpdateVerb \/ RemovalVerbs \/ World

Spec == Init /\ [][Next]_vars

-----------------------------------------------------------------------------
\* What a source entry says is installed is what pacman installed last, once
\* the verbs are done and when update plans from it: through refused, partial
\* and repeated installs, reuse of an artifact, reinstalls by the user.  The
\* exceptions are a reinstall still to be reconciled, and the known leaks.
EntryTellsInstalled == pc \in {"idle", "plan"} => Ahead(file) \subseteq adrift \cup Reinstalled

\* The failure of a base shows until it builds, its last member is removed, or
\* it is forgotten; no reconcile or removal of a sibling takes it away.
FailureListed == broken \subseteq file.failed

=============================================================================

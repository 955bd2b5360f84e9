------------------------ MODULE BuildInstallProofs ------------------------
(***************************************************************************)
(* Theorems about BuildState's operations and BuildInstall, and about the  *)
(* repair of the records (StateRepair).                                    *)
(***************************************************************************)
EXTENDS BuildInstall, StateRepair, TLAPS

USE DEF Base

\* record() writes a complete entry.
LEMMA StampTyped ==
    ASSUME NEW f \in File, NEW n \in Name, NEW id \in Build \cup {Repo}, NEW owns \in BOOLEAN
    PROVE  Stamp(f, n, id, owns) \in Entry
  BY NoneIsNoEntry DEF Stamp, File, Entry, Mode, Tracked

\* The stash that record() drops is one with no entry.
LEMMA NothingTyped == Nothing \in [Ver -> Entry \cup {None}]
  BY DEF Nothing

\* The marker that sync_with_installed() writes is an entry.
LEMMA MarkerTyped == Marker \in Entry
  BY DEF Marker, Entry, Mode

\* record() of all names of a build leaves a file of the format of build_state.toml.
LEMMA RecordTyped ==
    ASSUME NEW f \in File, NEW names \in SUBSET Name, NEW id \in Build \cup {Repo}, NEW owns \in BOOLEAN
    PROVE  Record(f, names, id, owns) \in File
  <1> DEFINE e == [n \in Name |-> IF n \in names THEN Stamp(f, n, id, owns) ELSE f.entry[n]]
             s == [n \in Name |-> IF n \in names THEN Nothing ELSE f.stash[n]]
             x == f.failed \ {BaseOf[n] : n \in names}
  <1>1. e \in [Name -> Entry \cup {None}]
    BY StampTyped DEF File
  <1>2. s \in [Name -> [Ver -> Entry \cup {None}]]
    BY NothingTyped DEF File
  <1>3. x \in SUBSET Base
    BY DEF File
  <1>4. Record(f, names, id, owns) = [f EXCEPT !.entry = e, !.stash = s, !.failed = x]
    BY DEF Record
  <1> HIDE DEF e, s, x
  <1> QED
    BY <1>1, <1>2, <1>3, <1>4 DEF File

\* record_failure() does so.
LEMMA RecordFailureTyped ==
    ASSUME NEW f \in File, NEW b \in Base
    PROVE  RecordFailure(f, b) \in File
  BY DEF RecordFailure, File

\* revert_record() does so, for any prior state.
LEMMA RevertTyped ==
    ASSUME NEW f \in File, NEW names \in SUBSET Name,
           NEW was \in [Name -> Entry \cup {None}], NEW v \in [Base -> Ver]
    PROVE  Revert(f, names, was, v) \in File
  <1> DEFINE e == [n \in Name |-> IF n \in names THEN was[n] ELSE f.entry[n]]
             kept(n) == [f.stash[n] EXCEPT ![v[BaseOf[n]]] = f.entry[n]]
             s == [n \in Name |-> IF n \in names /\ f.entry[n] \notin {None, was[n]}
                                  THEN kept(n) ELSE f.stash[n]]
  <1>1. e \in [Name -> Entry \cup {None}]
    BY DEF File
  <1>2. ASSUME NEW n \in Name
        PROVE  kept(n) \in [Ver -> Entry \cup {None}]
    BY DEF File
  <1>3. s \in [Name -> [Ver -> Entry \cup {None}]]
    <2> HIDE DEF kept
    <2> QED BY <1>2 DEF File
  <1>4. Revert(f, names, was, v) = [f EXCEPT !.entry = e, !.stash = s]
    BY DEF Revert
  <1> HIDE DEF e, s, kept
  <1> QED
    BY <1>1, <1>3, <1>4 DEF File

\* restore_reverted() does so.
LEMMA RestoreTyped ==
    ASSUME NEW f \in File, NEW names \in SUBSET Name, NEW v \in [Base -> Ver]
    PROVE  Restore(f, names, v) \in File
  <1> DEFINE kept(n) == f.stash[n][v[BaseOf[n]]]
             back    == {n \in names : kept(n) # None}
             less(n) == [f.stash[n] EXCEPT ![v[BaseOf[n]]] = None]
             e == [n \in Name |-> IF n \in back THEN kept(n) ELSE f.entry[n]]
             s == [n \in Name |-> IF n \in back THEN less(n) ELSE f.stash[n]]
  <1>1. ASSUME NEW n \in Name
        PROVE  /\ kept(n) \in Entry \cup {None}
               /\ less(n) \in [Ver -> Entry \cup {None}]
    BY BaseOfTyped DEF File
  <1>2. /\ e \in [Name -> Entry \cup {None}]
        /\ s \in [Name -> [Ver -> Entry \cup {None}]]
    <2> HIDE DEF kept, less
    <2> QED BY <1>1 DEF File
  <1>3. Restore(f, names, v) = [f EXCEPT !.entry = e, !.stash = s]
    BY DEF Restore
  <1> HIDE DEF e, s, kept, back, less
  <1> QED
    BY <1>2, <1>3 DEF File

\* delete() does so.
LEMMA DeleteTyped ==
    ASSUME NEW f \in File, NEW names \in SUBSET Name
    PROVE  Delete(f, names) \in File
  BY DEF Delete, File

\* reconcile_external_installs() does so, whatever was installed over.
LEMMA DemoteTyped ==
    ASSUME NEW f \in File, NEW external
    PROVE  Demote(f, external) \in File
  BY DEF Demote, File, Entry, Mode, Repo

\* sync_with_installed() does so, whatever is installed.
LEMMA SyncTyped ==
    ASSUME NEW f \in File, NEW names \in SUBSET Name
    PROVE  Sync(f, names) \in File
  <1> DEFINE gone == Tracked(f) \ names
             e == [n \in Name |-> CASE n \in gone -> None
                                    [] n \in names \ Tracked(f) -> Marker
                                    [] OTHER -> f.entry[n]]
             s == [n \in Name |-> IF n \in gone THEN Nothing ELSE f.stash[n]]
  <1>1. e \in [Name -> Entry \cup {None}]
    BY MarkerTyped DEF File
  <1>2. s \in [Name -> [Ver -> Entry \cup {None}]]
    BY NothingTyped DEF File
  <1>3. Sync(f, names) = [f EXCEPT !.entry = e, !.stash = s]
    BY DEF Sync
  <1> HIDE DEF e, s, gone
  <1> QED
    BY <1>1, <1>2, <1>3 DEF File

\* clear_removed_failures() and clear_stale_failures() do so.
LEMMA ClearTyped ==
    ASSUME NEW f \in File, NEW removed, NEW there
    PROVE  /\ ClearRemoved(f, removed, there) \in File
           /\ ClearStale(f, removed, there) \in File
  BY DEF ClearRemoved, ClearStale, File

\* forget_packages() does so.
LEMMA ForgetTyped ==
    ASSUME NEW f \in File, NEW names \in SUBSET Name
    PROVE  Forget(f, names) \in File
  <1> DEFINE gone == (names \cap Tracked(f)) \cup {m \in KnowsBase(f) : BaseOf[m] \in names}
  <1>1. gone \in SUBSET Name
    BY DEF Tracked, KnowsBase
  <1>2. Delete(f, gone) \in File
    BY <1>1, DeleteTyped
  <1>3. ASSUME NEW left \in File, NEW out PROVE [left EXCEPT !.failed = @ \ out] \in File
    BY DEF File
  <1> QED
    BY <1>2, <1>3 DEF Forget

-----------------------------------------------------------------------------
\* A target that is past makepkg, and before the install gate has let it go, is
\* a base of the batch.
HasTarget == pc \in {"made", "gate"} => cur \in Base
TypeInv   == TypeOK /\ HasTarget

\* What a verb that has ended holds is of its type.
LEMMA EndsTyped ==
    ASSUME Ends
    PROVE  /\ pc' = "idle" /\ verb' \in Verbs
           /\ queue' \in SUBSET Base /\ cur' \in Base \cup {None} /\ fresh' \in BOOLEAN
           /\ wanted' \in SUBSET Name /\ forced' \in BOOLEAN
           /\ prior' \in [Name -> Entry \cup {None}]
           /\ files' \in SUBSET Name /\ refused' \in SUBSET Name
           /\ pending' \in SUBSET Name /\ final' \in BOOLEAN
           /\ mem' \in File
  BY DEF Ends, Verbs, NoEntries, Blank, Nothing, File

\* An artifact is of a build, if there is one.
LEMMA ArtifactTyped ==
    ASSUME TypeOK
    PROVE  \A n \in Name : Artifact(n) \in Build \cup {None}
  BY BaseOfTyped DEF TypeOK, Artifact

\* A package whose entry is ahead of its installation is a package.
LEMMA AheadTyped == \A f : Ahead(f) \in SUBSET Name
  BY DEF Ahead, SourceBuilt, Tracked

\* The program starts with every variable of its type.
LEMMA InitTyped == Init => TypeInv
  <1> SUFFICES ASSUME Init PROVE TypeInv
    OBVIOUS
  <1>1. Blank \in File /\ NoEntries \in [Name -> Entry \cup {None}]
    BY DEF Blank, NoEntries, Nothing, File
  <1>2. /\ ver \in [Base -> Ver]
        /\ art \in [Name -> [Ver -> Build \cup {None}]]
        /\ last \in [Name -> Build \cup {Repo, None}]
        /\ builds \in 0 .. MaxBuilds
    BY BoundsTyped DEF Init, Nothing, Ver
  <1> QED
    BY <1>1, <1>2, InRepoTyped DEF Init, TypeInv, HasTarget, TypeOK, PCs, Verbs

\* build_and_install keeps every variable's type.
LEMMA BuildVerbTyped == TypeInv /\ BuildVerb => TypeInv'
  <1> SUFFICES ASSUME TypeInv, BuildVerb PROVE TypeInv'
    OBVIOUS
  <1> USE DEF TypeInv, HasTarget, system, batch, ghosts, PCs
  <1>1. ASSUME NEW bs \in SUBSET Base, NEW rebuild \in BOOLEAN, StartBuild(bs, rebuild)
        PROVE  TypeInv'
    BY <1>1 DEF StartBuild, Starts, NamesOf, TypeOK, File
  <1>2. ASSUME NEW b \in Base, InstallDeps(b) PROVE TypeInv'
    BY <1>2 DEF InstallDeps, BuiltDeps, TypeOK
  <1>3. ASSUME NEW b \in Base, Makes(b) PROVE TypeInv'
    <2>1. builds + 1 \in Build
      BY <1>3, BoundsTyped DEF Makes, TypeOK, Build
    <2>2. art' \in [Name -> [Ver -> Build \cup {None}]]
      BY <1>3, <2>1 DEF Makes, TypeOK
    <2> QED
      BY <1>3, <2>1, <2>2 DEF Makes, TypeOK, Build
  <1>4. ASSUME NEW b \in Base, Reuses(b) PROVE TypeInv'
    BY <1>4 DEF Reuses, TypeOK
  <1>5. ASSUME NEW b \in Base, BuildFails(b) PROVE TypeInv'
    BY <1>5, RecordFailureTyped DEF BuildFails, TypeOK
  <1>6. ASSUME NEW owns \in BOOLEAN, RecordBuild(owns) PROVE TypeInv'
    <2>1. Member(cur) \in SUBSET Name /\ builds \in Build \cup {Repo}
      BY BoundsTyped DEF Member, TypeOK, Build, Repo
    <2> QED
      BY <1>6, <2>1, RecordTyped DEF RecordBuild, TypeOK
  <1>7. CASE Passes
    BY <1>7 DEF Passes, TypeOK, Member
  <1>8. CASE Skewed
    <2>1. RecordFailure(file, cur) \in File
      BY <1>8, RecordFailureTyped DEF Skewed, TypeOK
    <2> QED
      BY <1>8, <2>1, AheadTyped DEF Skewed, TypeOK
  <1>9. CASE Bulk
    BY <1>9 DEF Bulk, TypeOK
  <1> QED
    BY <1>1, <1>2, <1>3, <1>4, <1>5, <1>6, <1>7, <1>8, <1>9 DEF BuildVerb

\* install_built keeps every variable's type.
LEMMA InstallBuiltTyped == TypeInv /\ InstallBuilt => TypeInv'
  <1> SUFFICES ASSUME TypeInv, InstallBuilt PROVE TypeInv'
    OBVIOUS
  <1> USE DEF TypeInv, HasTarget, system, batch, ghosts, PCs
  <1>1. CASE Filter
    BY <1>1, DeleteTyped DEF Filter, AfterInstall, TypeOK
  <1>2. CASE InstallOk
    BY <1>2, ArtifactTyped DEF InstallOk, TypeOK
  <1>3. CASE MarkOwn
    BY <1>3 DEF MarkOwn, TypeOK
  <1>4. CASE RestoreInstalled
    BY <1>4, RestoreTyped DEF RestoreInstalled, AfterInstall, TypeOK
  <1>5. CASE Refuse
    BY <1>5 DEF Refuse, AfterInstall, TypeOK
  <1>6. CASE Undo
    <2>1. file' \in File
      BY <1>6, RevertTyped DEF Undo, TypeOK
    <2> QED
      BY <1>6, <2>1, EndsTyped, AheadTyped DEF Undo, TypeOK
  <1>7. ASSUME NEW C \in SUBSET pending, Conflict(C) PROVE TypeInv'
    BY <1>7 DEF Conflict, AfterInstall, TypeOK
  <1> QED
    BY <1>1, <1>2, <1>3, <1>4, <1>5, <1>6, <1>7 DEF InstallBuilt

\* The reconcile and update keep every variable's type.
LEMMA UpdateVerbTyped == TypeInv /\ UpdateVerb => TypeInv'
  <1> SUFFICES ASSUME TypeInv, UpdateVerb PROVE TypeInv'
    OBVIOUS
  <1> USE DEF TypeInv, HasTarget, system, batch, ghosts, PCs
  <1>1. CASE StartUpdate
    BY <1>1 DEF StartUpdate, TypeOK, Verbs
  <1>2. CASE Consume
    BY <1>2, ClearTyped, DemoteTyped DEF Consume, TypeOK
  <1>3. CASE ClearWindow
    BY <1>3 DEF ClearWindow, TypeOK
  <1>4. CASE SaveReconciled
    <2>1. Blank \in File
      BY DEF Blank, NoEntries, Nothing, File
    <2> QED
      BY <1>4, <2>1, EndsTyped DEF SaveReconciled, TypeOK
  <1>5. CASE SyncInstalled
    BY <1>5, SyncTyped DEF SyncInstalled, TypeOK
  <1>6. ASSUME NEW bs \in SUBSET Base, NEW rebuild \in BOOLEAN, NEW included \in BOOLEAN,
               Plan(bs, rebuild, included)
        PROVE  TypeInv'
    BY <1>6 DEF Plan, Starts, NamesOf, TypeOK, File
  <1>7. CASE NothingToDo
    BY <1>7, EndsTyped DEF NothingToDo, TypeOK
  <1>8. CASE OnlyUpgrades
    BY <1>8 DEF OnlyUpgrades, TypeOK
  <1>9. CASE EndUpdate
    BY <1>9, EndsTyped DEF EndUpdate, TypeOK
  <1> QED
    BY <1>1, <1>2, <1>3, <1>4, <1>5, <1>6, <1>7, <1>8, <1>9 DEF UpdateVerb

\* uninstall and revert-to-stock keep every variable's type.
LEMMA RemovalVerbsTyped == TypeInv /\ RemovalVerbs => TypeInv'
  <1> SUFFICES ASSUME TypeInv, RemovalVerbs PROVE TypeInv'
    OBVIOUS
  <1> USE DEF TypeInv, HasTarget, system, batch, ghosts, PCs
  <1>1. ASSUME NEW n \in Name, Uninstall(n) PROVE TypeInv'
    BY <1>1 DEF Uninstall, Removes, TypeOK, Verbs
  <1>2. ASSUME NEW n \in Name, RevertToStock(n) PROVE TypeInv'
    <2>1. Reverts(n) \in SUBSET Name
      BY DEF Reverts, KnowsBase, Tracked
    <2> QED
      BY <1>2, <2>1 DEF RevertToStock, Installs, TypeOK, Verbs
  <1>3. CASE ClearFailures
    BY <1>3, ClearTyped, EndsTyped DEF ClearFailures, TypeOK
  <1>4. CASE ForgetPackages
    BY <1>4, ForgetTyped DEF ForgetPackages, TypeOK
  <1> QED
    BY <1>1, <1>2, <1>3, <1>4 DEF RemovalVerbs

\* What the user and the machine do keeps every variable's type.
LEMMA WorldTyped == TypeInv /\ World => TypeInv'
  <1> SUFFICES ASSUME TypeInv, World PROVE TypeInv'
    OBVIOUS
  <1> USE DEF TypeInv, HasTarget, system, batch, ghosts, PCs
  <1>1. ASSUME NEW n \in Name, PacmanSync(n) PROVE TypeInv'
    BY <1>1 DEF PacmanSync, Installs, TypeOK
  <1>2. ASSUME NEW n \in Name, PacmanRemove(n) PROVE TypeInv'
    BY <1>2 DEF PacmanRemove, Removes, TypeOK
  <1>3. ASSUME NEW b \in Base, NewVersion(b) PROVE TypeInv'
    <2>1. ver[b] \in Ver /\ ver[b] + 1 \in Ver
      BY <1>3, BoundsTyped DEF NewVersion, TypeOK, Ver
    <2>2. ver' \in [Base -> Ver]
      BY <1>3, <2>1 DEF NewVersion, TypeOK
    <2> QED
      BY <1>3, <2>2 DEF NewVersion, TypeOK
  <1>4. CASE Kill
    BY <1>4, EndsTyped, AheadTyped DEF Kill, TypeOK
  <1> QED
    BY <1>1, <1>2, <1>3, <1>4 DEF World

\* Every variable of the four verbs keeps its type, in particular the file that
\* each operation on build state leaves, for any packages and batches.
THEOREM TypeCorrect == Spec => []TypeOK
  <1>1. TypeInv /\ [Next]_vars => TypeInv'
    <2> SUFFICES ASSUME TypeInv, [Next]_vars PROVE TypeInv'
      OBVIOUS
    <2>1. CASE UNCHANGED vars
      BY <2>1 DEF vars, system, batch, ghosts, TypeInv, HasTarget, TypeOK
    <2> QED
      BY <2>1, BuildVerbTyped, InstallBuiltTyped, UpdateVerbTyped, RemovalVerbsTyped, WorldTyped
      DEF Next
  <1>2. TypeInv => TypeOK
    BY DEF TypeInv
  <1> QED
    BY <1>1, <1>2, InitTyped, PTL DEF Spec

-----------------------------------------------------------------------------
USE DEF Base

-----------------------------------------------------------------------------
(* What the file says of a package against its artifacts.  A source entry   *)
(* is of the newest build of the version at hand, unless the entry of that  *)
(* build is kept aside for when it is installed (a refused install).        *)

IsSource(e) == e # None /\ e.mode = "source"
Counted(e)  == IsSource(e) => e.build \in Build

FileOk(f, a, v, S) ==
    \A n \in Name :
        /\ Counted(f.entry[n])
        /\ \A w \in Ver : f.stash[n][w] # None =>
              IsSource(f.stash[n][w]) /\ f.stash[n][w].build \in Build /\ w <= v[BaseOf[n]]
        /\ n \in S /\ f.stash[n][v[BaseOf[n]]] # None => f.stash[n][v[BaseOf[n]]].build = a[n][v[BaseOf[n]]]
        /\ n \in S /\ IsSource(f.entry[n]) /\ f.stash[n][v[BaseOf[n]]] = None =>
              a[n][v[BaseOf[n]]] \in {None, f.entry[n].build}

\* The version of a package's PKGBUILD is a version.
LEMMA AtVersion ==
    ASSUME NEW v \in [Base -> Ver], NEW n \in Name
    PROVE  BaseOf[n] \in Base /\ v[BaseOf[n]] \in Ver
  BY BaseOfTyped

(* An operation that takes entries away, and what is kept aside with them.  *)
LEMMA ThinnedOk ==
    ASSUME NEW f, NEW g, NEW a, NEW v \in [Base -> Ver], NEW S, NEW R, R \subseteq S, FileOk(f, a, v, S),
           \A n \in Name : /\ g.entry[n] = f.entry[n] \/ ~IsSource(g.entry[n])
                           /\ \/ g.stash[n] = f.stash[n]
                              \/ g.stash[n] = Nothing /\ ~IsSource(g.entry[n])
    PROVE  FileOk(g, a, v, R)
<1>1. \A w \in Ver : Nothing[w] = None
  BY DEF Nothing
<1>2. ASSUME NEW n \in Name
      PROVE  /\ Counted(g.entry[n])
             /\ \A w \in Ver : g.stash[n][w] # None =>
                   IsSource(g.stash[n][w]) /\ g.stash[n][w].build \in Build /\ w <= v[BaseOf[n]]
             /\ n \in R /\ g.stash[n][v[BaseOf[n]]] # None => g.stash[n][v[BaseOf[n]]].build = a[n][v[BaseOf[n]]]
             /\ n \in R /\ IsSource(g.entry[n]) /\ g.stash[n][v[BaseOf[n]]] = None =>
                   a[n][v[BaseOf[n]]] \in {None, g.entry[n].build}
  <2>1. v[BaseOf[n]] \in Ver
    BY AtVersion
  <2>2. CASE g.stash[n] = f.stash[n]
    <3>1. g.entry[n] = f.entry[n] \/ ~IsSource(g.entry[n])
      OBVIOUS
    <3> QED  BY <2>2, <3>1 DEF FileOk, Counted
  <2>3. CASE g.stash[n] = Nothing /\ ~IsSource(g.entry[n])
    BY <1>1, <2>1, <2>3 DEF Counted
  <2> QED  BY <2>2, <2>3
<1> QED  BY <1>2 DEF FileOk

\* record() of a build whose artifacts are in PKGDEST.
LEMMA RecordOk ==
    ASSUME NEW f \in File, NEW a, NEW v \in [Base -> Ver], NEW S, NEW R, NEW names \in SUBSET Name,
           NEW id \in Build, NEW owns \in BOOLEAN,
           FileOk(f, a, v, S), R \subseteq S \cup names, \A n \in names : a[n][v[BaseOf[n]]] = id
    PROVE  FileOk(Record(f, names, id, owns), a, v, R)
<1> DEFINE g == Record(f, names, id, owns)
<1>1. ASSUME NEW n \in Name
      PROVE  /\ g.entry[n] = IF n \in names THEN Stamp(f, n, id, owns) ELSE f.entry[n]
             /\ g.stash[n] = IF n \in names THEN Nothing ELSE f.stash[n]
  BY DEF Record, File
<1>2. ASSUME NEW n \in Name PROVE IsSource(Stamp(f, n, id, owns)) /\ Stamp(f, n, id, owns).build = id
  <2>1. Stamp(f, n, id, owns) \in Entry
    BY StampTyped
  <2> QED  BY <2>1, NoneIsNoEntry DEF Stamp, IsSource
<1>3. \A w \in Ver : Nothing[w] = None
  BY DEF Nothing
<1> HIDE DEF g
<1>4. ASSUME NEW n \in names
      PROVE  IsSource(g.entry[n]) /\ g.entry[n].build = id /\ a[n][v[BaseOf[n]]] = id /\ g.stash[n] = Nothing
             /\ v[BaseOf[n]] \in Ver
  BY <1>1, <1>2, AtVersion
<1>5. ASSUME NEW n \in Name \ names
      PROVE  g.entry[n] = f.entry[n] /\ g.stash[n] = f.stash[n] /\ (n \in R => n \in S)
  BY <1>1
<1> QED  BY <1>3, <1>4, <1>5 DEF FileOk, Counted, g

(* A refused install: the entry goes back, and what is undone is kept.      *)
LEMMA RevertOk ==
    ASSUME NEW f \in File, NEW a, NEW v \in [Base -> Ver], NEW S, NEW R, R \subseteq S, NEW names \in SUBSET Name,
           NEW was \in [Name -> Entry \cup {None}], FileOk(f, a, v, S),
           \A n \in names : /\ Counted(was[n])
                            /\ f.entry[n] # was[n] =>
                                  /\ IsSource(f.entry[n])
                                  /\ n \in S => f.entry[n].build = a[n][v[BaseOf[n]]]
    PROVE  FileOk(Revert(f, names, was, v), a, v, R)
<1> DEFINE g == Revert(f, names, was, v)
<1>1. ASSUME NEW n \in Name
      PROVE  /\ g.entry[n] = IF n \in names THEN was[n] ELSE f.entry[n]
             /\ g.stash[n] = IF n \in names /\ f.entry[n] \notin {None, was[n]}
                             THEN [f.stash[n] EXCEPT ![v[BaseOf[n]]] = f.entry[n]] ELSE f.stash[n]
  BY DEF Revert, File
<1> HIDE DEF g
<1>2. ASSUME NEW n \in names, f.entry[n] # was[n]
      PROVE  /\ Counted(g.entry[n]) /\ v[BaseOf[n]] \in Ver /\ Ver \subseteq Int
             /\ g.stash[n][v[BaseOf[n]]] = f.entry[n] /\ f.entry[n] # None
             /\ IsSource(f.entry[n]) /\ f.entry[n].build \in Build
             /\ n \in S => f.entry[n].build = a[n][v[BaseOf[n]]]
             /\ \A w \in Ver : w # v[BaseOf[n]] => g.stash[n][w] = f.stash[n][w]
  <2>1. f.stash[n] \in [Ver -> Entry \cup {None}] /\ v[BaseOf[n]] \in Ver /\ IsSource(f.entry[n])
    BY <1>2, AtVersion DEF File
  <2>2. g.stash[n] = [f.stash[n] EXCEPT ![v[BaseOf[n]]] = f.entry[n]] /\ g.entry[n] = was[n]
    BY <1>1, <1>2, <2>1 DEF IsSource
  <2>3. f.entry[n].build \in Build /\ f.entry[n] # None
    BY <2>1 DEF FileOk, Counted, IsSource
  <2>4. Counted(g.entry[n]) /\ (n \in S => f.entry[n].build = a[n][v[BaseOf[n]]])
    BY <1>2, <2>2
  <2>5. Ver \subseteq Int
    BY DEF Ver
  <2>6. g.stash[n][v[BaseOf[n]]] = f.entry[n]
        /\ \A w \in Ver : w # v[BaseOf[n]] => g.stash[n][w] = f.stash[n][w]
    BY <2>1, <2>2
  <2> QED  BY <2>1, <2>3, <2>4, <2>5, <2>6
<1>3. ASSUME NEW n \in Name, ~(n \in names /\ f.entry[n] # was[n])
      PROVE  g.entry[n] = f.entry[n] /\ g.stash[n] = f.stash[n]
  BY <1>1, <1>3
<1>4. ASSUME NEW n \in Name
      PROVE  /\ Counted(g.entry[n])
             /\ \A w \in Ver : g.stash[n][w] # None =>
                   IsSource(g.stash[n][w]) /\ g.stash[n][w].build \in Build /\ w <= v[BaseOf[n]]
             /\ n \in S /\ g.stash[n][v[BaseOf[n]]] # None => g.stash[n][v[BaseOf[n]]].build = a[n][v[BaseOf[n]]]
             /\ n \in S /\ IsSource(g.entry[n]) /\ g.stash[n][v[BaseOf[n]]] = None =>
                   a[n][v[BaseOf[n]]] \in {None, g.entry[n].build}
  <2>1. CASE n \in names /\ f.entry[n] # was[n]
    BY <1>2, <2>1 DEF FileOk
  <2>2. CASE ~(n \in names /\ f.entry[n] # was[n])
    BY <1>3, <2>2 DEF FileOk
  <2> QED  BY <2>1, <2>2
<1> QED  BY <1>4 DEF FileOk, g

(* What is installed has its entry: the one that was kept for it, or the    *)
(* one it had.                                                              *)
LEMMA RestoreOk ==
    ASSUME NEW f \in File, NEW a, NEW v \in [Base -> Ver], NEW S, NEW R, NEW names \in SUBSET Name,
           NEW g, g = Restore(f, names, v), FileOk(f, a, v, S),
           \A n \in Name : n \in R \ S => n \in names /\ g.entry[n].build = a[n][v[BaseOf[n]]]
    PROVE  /\ FileOk(g, a, v, R)
           /\ \A n \in Name : g.entry[n] # f.entry[n] =>
                 n \in names /\ IsSource(g.entry[n]) /\ (n \in S => g.entry[n].build = a[n][v[BaseOf[n]]])
           /\ \A n \in names \cap S : IsSource(g.entry[n]) => a[n][v[BaseOf[n]]] \in {None, g.entry[n].build}
<1> DEFINE kept(n) == f.stash[n][v[BaseOf[n]]]
<1>1. ASSUME NEW n \in Name
      PROVE  /\ g.entry[n] = IF n \in names /\ kept(n) # None THEN kept(n) ELSE f.entry[n]
             /\ g.stash[n] = IF n \in names /\ kept(n) # None THEN [f.stash[n] EXCEPT ![v[BaseOf[n]]] = None]
                             ELSE f.stash[n]
  BY DEF Restore, File
<1>2. ASSUME NEW n \in names, kept(n) # None
      PROVE  /\ g.entry[n] = kept(n) /\ IsSource(g.entry[n]) /\ g.entry[n].build \in Build
             /\ n \in S => g.entry[n].build = a[n][v[BaseOf[n]]]
             /\ g.stash[n][v[BaseOf[n]]] = None /\ v[BaseOf[n]] \in Ver
             /\ \A w \in Ver : w # v[BaseOf[n]] => g.stash[n][w] = f.stash[n][w]
  <2>1. f.stash[n] \in [Ver -> Entry \cup {None}] /\ v[BaseOf[n]] \in Ver
    BY AtVersion DEF File
  <2> QED  BY <1>1, <1>2, <2>1 DEF FileOk
<1>3. ASSUME NEW n \in Name, ~(n \in names /\ kept(n) # None)
      PROVE  g.entry[n] = f.entry[n] /\ g.stash[n] = f.stash[n]
  BY <1>1, <1>3
<1>4. \A n \in Name : n \in R \ S => n \in names /\ g.entry[n].build = a[n][v[BaseOf[n]]]
  OBVIOUS
<1>5. ASSUME NEW n \in Name
      PROVE  /\ Counted(g.entry[n])
             /\ \A w \in Ver : g.stash[n][w] # None =>
                   IsSource(g.stash[n][w]) /\ g.stash[n][w].build \in Build /\ w <= v[BaseOf[n]]
             /\ n \in R /\ g.stash[n][v[BaseOf[n]]] # None => g.stash[n][v[BaseOf[n]]].build = a[n][v[BaseOf[n]]]
             /\ n \in R /\ IsSource(g.entry[n]) /\ g.stash[n][v[BaseOf[n]]] = None =>
                   a[n][v[BaseOf[n]]] \in {None, g.entry[n].build}
  <2>1. CASE n \in names /\ kept(n) # None
    BY <1>2, <1>4, <2>1 DEF FileOk, Counted
  <2>2. CASE n \in names /\ kept(n) = None
    BY <1>3, <1>4, <2>2 DEF FileOk
  <2>3. CASE n \notin names
    BY <1>3, <1>4, <2>3 DEF FileOk
  <2> QED  BY <2>1, <2>2, <2>3
<1>6. FileOk(g, a, v, R)
  BY <1>5 DEF FileOk
<1>7. ASSUME NEW n \in Name, g.entry[n] # f.entry[n]
      PROVE  n \in names /\ IsSource(g.entry[n]) /\ (n \in S => g.entry[n].build = a[n][v[BaseOf[n]]])
  BY <1>2, <1>3, <1>7
<1>8. ASSUME NEW n \in names \cap S, IsSource(g.entry[n])
      PROVE  a[n][v[BaseOf[n]]] \in {None, g.entry[n].build}
  <2>1. CASE kept(n) # None
    BY <1>2, <1>8, <2>1
  <2>2. CASE kept(n) = None
    BY <1>3, <1>8, <2>2 DEF FileOk
  <2> QED  BY <2>1, <2>2
<1> QED  BY <1>6, <1>7, <1>8
-----------------------------------------------------------------------------
(* The invariant.  While a batch is under way, entries run ahead of what is *)
(* installed: those of what waits for its install, is being installed or    *)
(* was refused.  All others tell what pacman installed last, are to be      *)
(* reconciled, or are known to have been left behind.                       *)

Batch == {"next", "made", "gate", "filter", "install", "mark", "restore", "undo"}
Read  == {"clear", "save"}

\* Not left behind, and not between makepkg and its record.
SoundNames == {n \in Name : n \notin adrift /\ ~(pc = "made" /\ BaseOf[n] = cur)}

FilesInv ==
    /\ FileOk(file, art, ver, SoundNames)
    /\ pc \in Read => FileOk(mem, art, ver, SoundNames)
    /\ \A n \in Name : Counted(prior[n])
    /\ \A n \in Name, w \in Ver : art[n][w] # None => w <= ver[BaseOf[n]]

UpTo(e, l) == IsSource(e) => e.build = l \/ (e.owned /\ l = Repo)

\* Installed over by the user, and the next reconcile will know.
Excused(n)  == /\ n \in Reinstalled /\ last[n] = Repo
               /\ verb = "update" => pc \in {"consume", "clear"}
InFlight(n) == /\ pc \in Batch
               /\ n \in files \cup refused \cup pending \/ (pc = "gate" /\ fresh /\ BaseOf[n] = cur)
Told(f, n)  == n \in adrift \/ UpTo(f.entry[n], last[n])

Tells ==
    \A n \in Name :
        /\ pc \notin Read => Told(file, n) \/ Excused(n) \/ InFlight(n)
        /\ pc = "clear" => Told(mem, n)
        /\ pc = "save" => Told(mem, n) \/ Excused(n)

\* Requested, and neither built in vain nor installed yet.
Awaited == NamesOf(queue) \cup files \cup refused \cup (IF pc \in {"filter", "install"} THEN pending ELSE {})

PriorTells ==
    pc \in Batch => \A n \in wanted :
        /\ n \in Awaited => n \in adrift \/ UpTo(prior[n], last[n]) \/ Excused(n)
        /\ BaseOf[n] \in queue /\ ~(pc = "gate" /\ BaseOf[n] = cur) => file.entry[n] = prior[n]
        /\ file.entry[n] # prior[n] =>
              IsSource(file.entry[n]) /\ (n \notin adrift => file.entry[n].build = Artifact(n))

Installed ==
    pc \in {"mark", "restore"} => \A n \in pending :
        \/ last[n] = Artifact(n)
        \/ pc = "restore" /\ last[n] = Repo /\ (n \in adrift \/ Excused(n))

VerbInv ==
    /\ pc = "idle" => verb = "build"
    /\ pc \in Batch => verb \in {"build", "update"}
    /\ pc \in {"sync", "plan", "end"} => verb = "update"
    /\ pc \in {"removed", "forget"} => verb \in {"uninstall", "revert"}
    /\ pc = "idle" \/ (verb = "update" /\ pc \in {"consume", "clear", "save", "sync", "plan"}) =>
          queue = {} /\ files = {} /\ refused = {} /\ pending = {} /\ ~final

BatchInv ==
    pc \in Batch =>
        /\ \A n \in files \cup refused \cup pending : BaseOf[n] \notin queue
        /\ files \cap refused = {} /\ files \cap pending = {} /\ refused \cap pending = {}
        /\ \A n \in files \cup pending : Artifact(n) # None
        /\ pc \in {"next", "made", "gate", "undo"} => pending = {}
        /\ final => queue = {} /\ files = {} /\ pc \notin {"next", "made", "gate"}
        /\ pc = "undo" => final
        /\ pc \in {"made", "gate"} => cur \in queue /\ \A n \in Member(cur) : Artifact(n) # None
        /\ pc = "made" => fresh /\ builds \in Build /\ \A n \in Member(cur) : Artifact(n) = builds

EntryInv == TypeInv /\ FilesInv /\ Tells /\ PriorTells /\ Installed /\ VerbInv /\ BatchInv

\* Ahead(file), which the property is about, in the terms of the invariant.
LEMMA AheadIs ==
    ASSUME NEW f
    PROVE  Ahead(f) = {n \in Name : ~UpTo(f.entry[n], last[n])}
  BY DEF Ahead, UpTo, IsSource, SourceBuilt, Tracked

(* Nothing that FilesInv is about changes.                                  *)
LEMMA FilesKept ==
    ASSUME TypeInv, FilesInv, UNCHANGED <<file, art, ver>>, SoundNames' \subseteq SoundNames,
           prior' = prior \/ \A n \in Name : Counted(prior'[n]),
           pc' \in Read => pc \in Read /\ mem' = mem
    PROVE  FilesInv'
<1>1. FileOk(file, art, ver, SoundNames')
  BY ThinnedOk DEF FilesInv, TypeInv, TypeOK
<1>2. pc' \in Read => FileOk(mem, art, ver, SoundNames')
  BY ThinnedOk DEF FilesInv, TypeInv, TypeOK
<1>3. FileOk(file, art, ver, SoundNames)' /\ (pc' \in Read => FileOk(mem, art, ver, SoundNames)')
  BY <1>1, <1>2
<1>4. \A n \in Name : Counted(prior[n])'
  BY DEF FilesInv
<1> QED  BY <1>3, <1>4 DEF FilesInv

(* The verb ends: what the file says then must hold on its own.             *)
LEMMA EndsOk ==
    ASSUME Ends, TypeInv', FileOk(file', art', ver', SoundNames'),
           \A n \in Name, w \in Ver : art'[n][w] # None => w <= ver'[BaseOf[n]],
           \A n \in Name : n \in adrift' \/ UpTo(file'.entry[n], last'[n]) \/ (n \in Reinstalled' /\ last'[n] = Repo)
    PROVE  EntryInv'
<1>1. /\ pc' = "idle" /\ verb' = "build" /\ queue' = {} /\ files' = {} /\ refused' = {} /\ pending' = {}
      /\ ~final' /\ prior' = NoEntries
  BY DEF Ends
<1>2. FilesInv'
  BY <1>1 DEF FilesInv, Read, NoEntries, Counted, IsSource
<1>3. Tells'
  BY <1>1 DEF Tells, Read, Told, Excused
<1>4. PriorTells' /\ Installed' /\ BatchInv' /\ VerbInv'
  BY <1>1 DEF PriorTells, Installed, BatchInv, VerbInv, Batch
<1> QED  BY <1>2, <1>3, <1>4 DEF EntryInv

(* A batch starts from an idle or planning verb.                            *)
LEMMA StartsOk ==
    ASSUME EntryInv, TypeInv', NEW bs, NEW names, NEW rebuild, Starts(bs, names, rebuild), pc \in {"idle", "plan"},
           UNCHANGED <<file, window, system, verb, mem, ghosts>>
    PROVE  EntryInv'
<1>0. /\ TypeInv /\ FilesInv /\ pc' = "next" /\ verb \in {"build", "update"}
      /\ files = {} /\ refused = {} /\ pending = {} /\ ~final
      /\ UNCHANGED <<file, window, present, last, art, ver, builds, verb, mem, adrift, files, refused, pending, final>>
  BY DEF EntryInv, VerbInv, Starts, system, ghosts
<1>1. FilesInv'
  <2>1. SoundNames' \subseteq SoundNames
    BY <1>0 DEF SoundNames
  <2>2. \A n \in Name : Counted(prior'[n])
    BY <1>0 DEF Starts, FilesInv, FileOk, Counted, IsSource
  <2> QED  BY <1>0, <2>1, <2>2, FilesKept DEF Read
<1>2. ASSUME NEW n \in Name PROVE n \in adrift \/ UpTo(file.entry[n], last[n]) \/ Excused(n)
  BY DEF EntryInv, Tells, InFlight, Batch, Read, Told
<1>3. ASSUME NEW n \in Name, Excused(n) PROVE Excused(n)'
  BY <1>0, <1>3 DEF Excused, Reinstalled, External, EntryInv, VerbInv
<1>4. Tells'
  BY <1>0, <1>2, <1>3 DEF Tells, Told, Read
<1>5. PriorTells'
  <2>1. ASSUME NEW n \in wanted' PROVE n \in Name /\ prior'[n] = file.entry[n]
    BY <1>0, <2>1 DEF Starts, TypeInv, TypeOK
  <2> QED  BY <1>0, <1>2, <1>3, <2>1 DEF PriorTells
<1>6. Installed' /\ VerbInv' /\ BatchInv'
  BY <1>0 DEF Installed, VerbInv, BatchInv, Batch
<1> QED  BY <1>1, <1>4, <1>5, <1>6 DEF EntryInv

(* A step of a batch that changes no entry and nothing of what is installed. *)
LEMMA MovesOk ==
    ASSUME EntryInv, TypeInv', pc \in Batch, pc' \in Batch, adrift \subseteq adrift',
           UNCHANGED <<file.entry, file.stash, window, system, verb, wanted, prior>>,
           SoundNames' \subseteq SoundNames, Awaited' \subseteq Awaited, queue' \subseteq queue,
           \A n \in Name : InFlight(n) => InFlight(n)' \/ n \in adrift' \/ UpTo(file.entry[n], last[n]),
           pc = "gate" => cur \notin queue' \/ (pc' = "gate" /\ cur' = cur),
           Installed', BatchInv'
    PROVE  EntryInv'
<1>0. /\ TypeInv /\ FilesInv /\ Tells /\ PriorTells /\ VerbInv
      /\ file'.entry = file.entry /\ file'.stash = file.stash
      /\ UNCHANGED <<window, present, last, art, ver, builds, verb, wanted, prior>>
  BY DEF EntryInv, system
<1>1. FilesInv'
  <2>1. FileOk(file, art, ver, SoundNames) /\ ver \in [Base -> Ver]
    BY <1>0 DEF FilesInv, TypeInv, TypeOK
  <2>2. FileOk(file', art, ver, SoundNames')
    BY <1>0, <2>1, ThinnedOk
  <2>3. pc' \notin Read
    BY DEF Read, Batch
  <2> QED  BY <1>0, <2>2, <2>3 DEF FilesInv
<1>2. ASSUME NEW n \in Name, Excused(n) PROVE Excused(n)' /\ verb # "update"
  BY <1>0, <1>2 DEF Excused, Reinstalled, External, Batch
<1>3. Tells'
  <2>1. ASSUME NEW n \in Name PROVE Told(file, n)' \/ Excused(n)' \/ InFlight(n)'
    <3>1. Told(file, n) \/ Excused(n) \/ InFlight(n)
      BY <1>0 DEF Tells, Read, Batch
    <3> QED  BY <1>0, <1>2, <3>1 DEF Told
  <2> QED  BY <2>1 DEF Tells, Read, Batch
<1>4. PriorTells'
  <2>1. ASSUME NEW n \in wanted' PROVE n \in wanted /\ n \in Name
    BY <1>0, <2>1 DEF TypeInv, TypeOK
  <2>2. ASSUME NEW n \in wanted', n \in Awaited'
        PROVE  n \in adrift' \/ UpTo(prior'[n], last'[n]) \/ Excused(n)'
    BY <1>0, <1>2, <2>1, <2>2 DEF PriorTells
  <2>3. ASSUME NEW n \in wanted', BaseOf[n] \in queue', ~(pc' = "gate" /\ BaseOf[n] = cur')
        PROVE  file'.entry[n] = prior'[n]
    BY <1>0, <2>1, <2>3 DEF PriorTells
  <2>4. ASSUME NEW n \in wanted', file'.entry[n] # prior'[n]
        PROVE  IsSource(file'.entry[n]) /\ (n \notin adrift' => file'.entry[n].build = Artifact(n)')
    BY <1>0, <2>1, <2>4 DEF PriorTells, Artifact
  <2> QED  BY <2>2, <2>3, <2>4 DEF PriorTells
<1>5. VerbInv'
  BY <1>0 DEF VerbInv, Batch
<1> QED  BY <1>1, <1>3, <1>4, <1>5 DEF EntryInv

\* What the next target is built after leaves the batch for its install.
LEMMA InstallDepsKept ==
    ASSUME EntryInv, TypeInv', NEW b \in Base, InstallDeps(b)
    PROVE  EntryInv'
<1> USE DEF InstallDeps, Turn, BuiltDeps, system, ghosts, Batch
<1>1. BatchInv'
  BY DEF EntryInv, BatchInv, Artifact, TypeInv, TypeOK
<1>2. \A n \in Name : InFlight(n) => InFlight(n)'
  BY DEF InFlight, EntryInv, BatchInv
<1>3. Awaited' \subseteq Awaited
  BY DEF Awaited, NamesOf, EntryInv, BatchInv
<1> QED  BY <1>1, <1>2, <1>3, MovesOk DEF SoundNames, Installed

\* An artifact that exists already is taken as it is, and no entry changes.
LEMMA ReusesKept ==
    ASSUME EntryInv, TypeInv', NEW b \in Base, Reuses(b)
    PROVE  EntryInv'
<1> USE DEF Reuses, Builds, Turn, AlreadyBuilt, system, ghosts, Batch
<1>1. BatchInv'
  BY DEF EntryInv, BatchInv, Artifact, Member
<1>2. \A n \in Name : InFlight(n) => InFlight(n)'
  BY DEF InFlight
<1>3. Awaited' \subseteq Awaited
  BY DEF Awaited, NamesOf
<1> QED  BY <1>1, <1>2, <1>3, MovesOk DEF SoundNames, Installed

\* A failed build leaves every entry as it was.
LEMMA BuildFailsKept ==
    ASSUME EntryInv, TypeInv', NEW b \in Base, BuildFails(b)
    PROVE  EntryInv'
<1> USE DEF BuildFails, Builds, Turn, system, ghosts, Batch
<1>0. file'.entry = file.entry /\ file'.stash = file.stash
  BY DEF RecordFailure, EntryInv, TypeInv, TypeOK, File
<1>1. BatchInv'
  BY DEF EntryInv, BatchInv, Artifact, Member
<1>2. \A n \in Name : InFlight(n) => InFlight(n)'
  BY DEF InFlight
<1>3. Awaited' \subseteq Awaited
  BY DEF Awaited, NamesOf
<1> QED  BY <1>0, <1>1, <1>2, <1>3, MovesOk DEF SoundNames, Installed

\* A target past the gate waits for its install.
LEMMA PassesKept ==
    ASSUME EntryInv, TypeInv', Passes
    PROVE  EntryInv'
<1> USE DEF Passes, system, ghosts, Batch
<1>1. BatchInv'
  BY DEF EntryInv, BatchInv, Artifact, Member
<1>2. \A n \in Name : InFlight(n) => InFlight(n)'
  BY DEF InFlight, Member
<1>3. Awaited' \subseteq Awaited
  BY DEF Awaited, NamesOf, Member, EntryInv, BatchInv
<1> QED  BY <1>1, <1>2, <1>3, MovesOk DEF SoundNames, Installed

\* A refused target keeps its record: one that runs ahead is known to have been left behind.
LEMMA SkewedKept ==
    ASSUME EntryInv, TypeInv', Skewed
    PROVE  EntryInv'
<1> USE DEF Skewed, system, ghosts, Batch
<1>0. file'.entry = file.entry /\ file'.stash = file.stash
  BY DEF RecordFailure, EntryInv, TypeInv, TypeOK, File
<1>1. BatchInv'
  BY DEF EntryInv, BatchInv, Artifact, Member
<1>2. \A n \in Name : InFlight(n) => InFlight(n)' \/ n \in adrift' \/ UpTo(file.entry[n], last[n])
  BY AheadIs DEF InFlight, Member
<1>3. Awaited' \subseteq Awaited
  BY DEF Awaited, NamesOf
<1> QED  BY <1>0, <1>1, <1>2, <1>3, MovesOk DEF SoundNames, Installed

\* The final transaction takes all that is left.
LEMMA BulkKept ==
    ASSUME EntryInv, TypeInv', Bulk
    PROVE  EntryInv'
<1> USE DEF Bulk, system, ghosts, Batch
<1>1. BatchInv'
  BY DEF EntryInv, BatchInv, Artifact
<1>2. \A n \in Name : InFlight(n) => InFlight(n)'
  BY DEF InFlight, EntryInv, BatchInv
<1>3. Awaited' \subseteq Awaited
  BY DEF Awaited, NamesOf
<1> QED  BY <1>1, <1>2, <1>3, MovesOk DEF SoundNames, Installed

\* What pacman names in a conflict is set aside.
LEMMA ConflictKept ==
    ASSUME EntryInv, TypeInv', NEW C \in SUBSET pending, Conflict(C)
    PROVE  EntryInv'
<1> USE DEF Conflict, AfterInstall, system, ghosts, Batch
<1>1. BatchInv'
  BY DEF EntryInv, BatchInv, Artifact
<1>2. \A n \in Name : InFlight(n) => InFlight(n)'
  BY DEF InFlight
<1>3. Awaited' \subseteq Awaited
  BY DEF Awaited, NamesOf
<1> QED  BY <1>1, <1>2, <1>3, MovesOk DEF SoundNames, Installed

\* A transaction that fails without a name is set aside whole.
LEMMA RefuseKept ==
    ASSUME EntryInv, TypeInv', Refuse
    PROVE  EntryInv'
<1> USE DEF Refuse, AfterInstall, system, ghosts, Batch
<1>1. BatchInv'
  BY DEF EntryInv, BatchInv, Artifact
<1>2. \A n \in Name : InFlight(n) => InFlight(n)'
  BY DEF InFlight
<1>3. Awaited' \subseteq Awaited
  BY DEF Awaited, NamesOf
<1> QED  BY <1>1, <1>2, <1>3, MovesOk DEF SoundNames, Installed

-----------------------------------------------------------------------------
\* makepkg leaves artifacts that no record tells of yet.
LEMMA MakesKept ==
    ASSUME EntryInv, TypeInv', NEW b \in Base, Makes(b)
    PROVE  EntryInv'
<1>0. /\ TypeInv /\ FilesInv /\ Tells /\ PriorTells /\ VerbInv /\ BatchInv
      /\ UNCHANGED <<file, window, present, last, ver, verb, queue, wanted, prior, files, refused, pending, final, mem, adrift>>
      /\ pc = "next" /\ pc' = "made" /\ b \in queue /\ cur' = b /\ fresh' /\ builds' = builds + 1
  BY DEF EntryInv, Makes, Builds, Turn, ghosts
<1>1. /\ builds' \in Build /\ ver \in [Base -> Ver] /\ builds' # None
      /\ \A n \in Name, w \in Ver :
            art'[n][w] = IF BaseOf[n] = b /\ w = ver[b] THEN builds' ELSE art[n][w]
  <2>1. builds' \in Build
    BY BoundsTyped DEF Makes, TypeInv, TypeOK, Build, EntryInv
  <2>2. builds' # None
    BY <2>1, NoneIsNoEntry
  <2> QED  BY <2>1, <2>2 DEF Makes, TypeInv, TypeOK, EntryInv
<1>2. ASSUME NEW n \in Name PROVE BaseOf[n] \in Base /\ ver[BaseOf[n]] \in Ver
                                 /\ Artifact(n)' = IF BaseOf[n] = b THEN builds' ELSE Artifact(n)
  BY <1>0, <1>1, AtVersion DEF Artifact
<1>3. SoundNames' = SoundNames \ Member(b)
  BY <1>0 DEF SoundNames, Member
<1>4. FilesInv'
  <2>1. FileOk(file, art', ver, SoundNames')
    <3>1. ASSUME NEW n \in Name PROVE n \in SoundNames' => BaseOf[n] # b
      BY <1>3 DEF Member
    <3>2. ASSUME NEW n \in Name
          PROVE  n \in SoundNames' => n \in SoundNames /\ art'[n][ver[BaseOf[n]]] = art[n][ver[BaseOf[n]]]
      BY <1>1, <1>2, <1>3, <3>1
    <3> QED  BY <1>0, <3>2 DEF FilesInv, FileOk
  <2>2. \A n \in Name, w \in Ver : art'[n][w] # None => w <= ver[BaseOf[n]]
    <3>1. Ver \subseteq Int
      BY DEF Ver
    <3> QED  BY <1>0, <1>1, <1>2, <3>1 DEF FilesInv
  <2> QED  BY <1>0, <2>1, <2>2 DEF FilesInv, Read
<1>5. ASSUME NEW n \in Name, Excused(n) PROVE Excused(n)'
  BY <1>0, <1>5 DEF Excused, Reinstalled, External
<1>6. Tells'
  <2>1. ASSUME NEW n \in Name, InFlight(n) PROVE InFlight(n)'
    BY <1>0, <2>1 DEF InFlight, Batch
  <2> QED  BY <1>0, <1>5, <2>1 DEF Tells, Read, Told
<1>7. PriorTells'
  <2>1. ASSUME NEW n \in wanted' PROVE n \in wanted /\ n \in Name
    BY <1>0, <2>1 DEF TypeInv, TypeOK
  <2>2. Awaited' = Awaited
    BY <1>0 DEF Awaited
  <2>3. ASSUME NEW n \in wanted', file'.entry[n] # prior'[n]
        PROVE  IsSource(file'.entry[n]) /\ (n \notin adrift' => file'.entry[n].build = Artifact(n)')
    <3>1. BaseOf[n] # b
      BY <1>0, <2>1, <2>3 DEF PriorTells, Batch
    <3> QED  BY <1>0, <1>2, <2>1, <2>3, <3>1 DEF PriorTells, Batch
  <2>4. ASSUME NEW n \in wanted'
        PROVE  /\ n \in Awaited' => n \in adrift' \/ UpTo(prior'[n], last'[n]) \/ Excused(n)'
               /\ BaseOf[n] \in queue' /\ ~(pc' = "gate" /\ BaseOf[n] = cur') => file'.entry[n] = prior'[n]
    BY <1>0, <1>5, <2>1, <2>2 DEF PriorTells, Batch
  <2> QED  BY <2>3, <2>4 DEF PriorTells
<1>8. BatchInv'
  <2>1. \A n \in files \cup pending : n \in Name
    BY <1>0 DEF TypeInv, TypeOK
  <2>2. \A n \in files' \cup pending' : Artifact(n)' # None
    BY <1>0, <1>1, <1>2, <2>1 DEF BatchInv, Batch
  <2>3. \A n \in Member(cur') : Artifact(n)' = builds' /\ Artifact(n)' # None
    BY <1>0, <1>1, <1>2 DEF Member
  <2> QED  BY <1>0, <1>1, <2>2, <2>3 DEF BatchInv, Batch
<1>9. VerbInv' /\ Installed'
  BY <1>0 DEF VerbInv, Installed, Batch
<1> QED  BY <1>4, <1>6, <1>7, <1>8, <1>9 DEF EntryInv

\* The record of a build is of the artifacts makepkg has just left.
LEMMA RecordBuildKept ==
    ASSUME EntryInv, TypeInv', NEW owns \in BOOLEAN, RecordBuild(owns)
    PROVE  EntryInv'
<1>0. /\ TypeInv /\ FilesInv /\ Tells /\ PriorTells /\ VerbInv /\ BatchInv
      /\ UNCHANGED <<window, present, last, art, ver, builds, verb, queue, cur, fresh, wanted, prior, files, refused, pending, final, mem, adrift>>
      /\ pc = "made" /\ pc' = "gate" /\ file' = Record(file, Member(cur), builds, owns)
      /\ fresh /\ builds \in Build /\ cur \in queue
  BY DEF EntryInv, RecordBuild, system, batch, BatchInv, Batch
<1>1. /\ file \in File /\ ver \in [Base -> Ver] /\ Member(cur) \in SUBSET Name
      /\ \A n \in Member(cur) : Artifact(n) = builds
  BY <1>0 DEF TypeInv, TypeOK, Member, BatchInv, Batch
<1>2. SoundNames = SoundNames' \ Member(cur)
  BY <1>0 DEF SoundNames, Member
<1>3. ASSUME NEW n \in Name
      PROVE  IF n \in Member(cur) THEN IsSource(file'.entry[n]) /\ file'.entry[n].build = builds
                                  ELSE file'.entry[n] = file.entry[n]
  <2>1. file'.entry[n] = IF n \in Member(cur) THEN Stamp(file, n, builds, owns) ELSE file.entry[n]
    BY <1>0, <1>1 DEF Record, File
  <2>2. Stamp(file, n, builds, owns) \in Entry
    BY <1>0, <1>1, StampTyped
  <2> QED  BY <2>1, <2>2, NoneIsNoEntry DEF Stamp, IsSource
<1>4. FilesInv'
  <2>1. FileOk(file', art, ver, SoundNames')
    BY <1>0, <1>1, <1>2, RecordOk DEF FilesInv, Artifact
  <2> QED  BY <1>0, <2>1 DEF FilesInv, Read
<1>5. ASSUME NEW n \in Name, Excused(n) PROVE Excused(n)'
  BY <1>0, <1>5 DEF Excused, Reinstalled, External
<1>6. Tells'
  <2>1. ASSUME NEW n \in Name, InFlight(n) PROVE InFlight(n)'
    BY <1>0, <2>1 DEF InFlight, Batch
  <2>2. ASSUME NEW n \in Member(cur) PROVE InFlight(n)'
    BY <1>0, <2>2 DEF InFlight, Batch, Member
  <2> QED  BY <1>0, <1>3, <1>5, <2>1, <2>2 DEF Tells, Read, Told
<1>7. PriorTells'
  <2>1. ASSUME NEW n \in wanted' PROVE n \in wanted /\ n \in Name
    BY <1>0, <2>1 DEF TypeInv, TypeOK
  <2>2. Awaited' = Awaited
    BY <1>0 DEF Awaited
  <2>3. ASSUME NEW n \in wanted', n \in Member(cur)
        PROVE  IsSource(file'.entry[n]) /\ file'.entry[n].build = Artifact(n)' /\ BaseOf[n] = cur'
    BY <1>0, <1>1, <1>3, <2>3 DEF Artifact, Member
  <2>4. ASSUME NEW n \in wanted', n \notin Member(cur)
        PROVE  file'.entry[n] = file.entry[n] /\ BaseOf[n] # cur'
    BY <1>0, <1>3, <2>1, <2>4 DEF Member
  <2>5. ASSUME NEW n \in wanted'
        PROVE  n \in Awaited' => n \in adrift' \/ UpTo(prior'[n], last'[n]) \/ Excused(n)'
    BY <1>0, <1>5, <2>1, <2>2 DEF PriorTells, Batch
  <2>6. ASSUME NEW n \in wanted'
        PROVE  /\ BaseOf[n] \in queue' /\ ~(pc' = "gate" /\ BaseOf[n] = cur') => file'.entry[n] = prior'[n]
               /\ file'.entry[n] # prior'[n] =>
                     IsSource(file'.entry[n]) /\ (n \notin adrift' => file'.entry[n].build = Artifact(n)')
    BY <1>0, <2>1, <2>3, <2>4 DEF PriorTells, Batch, Artifact
  <2> QED  BY <2>5, <2>6 DEF PriorTells
<1>8. BatchInv'
  BY <1>0 DEF BatchInv, Batch, Artifact
<1>9. VerbInv' /\ Installed'
  BY <1>0 DEF VerbInv, Installed, Batch
<1> QED  BY <1>4, <1>6, <1>7, <1>8, <1>9 DEF EntryInv

\* What is neither installed nor requested loses its record and is not installed.
LEMMA FilterKept ==
    ASSUME EntryInv, TypeInv', Filter
    PROVE  EntryInv'
<1> DEFINE out == pending \ (present \cup wanted)
<1>0. /\ TypeInv /\ FilesInv /\ Tells /\ PriorTells /\ VerbInv /\ BatchInv
      /\ UNCHANGED <<window, present, last, art, ver, builds, verb, queue, cur, fresh, wanted, prior, files, refused, final, mem, adrift>>
      /\ pc = "filter" /\ pc' \in {"next", "undo", "install"} /\ file' = Delete(file, out)
      /\ pending' = pending \ out /\ (pc' = "install" <=> pending' # {})
      /\ (pc' = "undo" => final) /\ (pc' = "next" => ~final)
  BY DEF EntryInv, Filter, system, ghosts, AfterInstall
<1>1. file \in File /\ ver \in [Base -> Ver] /\ wanted \subseteq Name
  BY <1>0 DEF TypeInv, TypeOK
<1>2. \A n \in Name : /\ file'.entry[n] = IF n \in out THEN None ELSE file.entry[n]
                      /\ file'.stash[n] = file.stash[n]
  BY <1>0, <1>1 DEF Delete, File
<1>3. SoundNames' = SoundNames
  BY <1>0 DEF SoundNames
<1> HIDE DEF out
<1>4. FilesInv'
  <2>1. FileOk(file', art, ver, SoundNames')
    BY <1>0, <1>1, <1>2, <1>3, ThinnedOk DEF FilesInv, IsSource
  <2> QED  BY <1>0, <2>1 DEF FilesInv, Read
<1>5. ASSUME NEW n \in Name, Excused(n) PROVE Excused(n)'
  BY <1>0, <1>5 DEF Excused, Reinstalled, External
<1>6. Tells'
  <2>1. ASSUME NEW n \in Name, InFlight(n), n \notin out PROVE InFlight(n)'
    BY <1>0, <2>1 DEF InFlight, Batch
  <2>2. ASSUME NEW n \in Name, n \in out PROVE Told(file, n)'
    BY <1>2, <2>2 DEF Told, UpTo, IsSource
  <2> QED  BY <1>0, <1>2, <1>5, <2>1, <2>2 DEF Tells, Read, Told
<1>7. PriorTells'
  <2>1. ASSUME NEW n \in wanted' PROVE n \in wanted /\ n \in Name /\ n \notin out
    BY <1>0, <1>1, <2>1 DEF out
  <2>2. Awaited' \subseteq Awaited
    BY <1>0 DEF Awaited
  <2> QED  BY <1>0, <1>2, <1>5, <2>1, <2>2 DEF PriorTells, Batch, Artifact
<1>8. BatchInv'
  BY <1>0 DEF BatchInv, Batch, Artifact
<1>9. VerbInv' /\ Installed'
  BY <1>0 DEF VerbInv, Installed, Batch
<1> QED  BY <1>4, <1>6, <1>7, <1>8, <1>9 DEF EntryInv

(* pacman has installed what was pending, and soon sysforge claims it.      *)
LEMMA PendingOk ==
    ASSUME EntryInv, TypeInv', pc \in {"install", "mark"}, pc' \in {"mark", "restore"},
           UNCHANGED <<file, art, ver, builds, verb, queue, cur, fresh, wanted, prior, files, refused, pending,
                       final, mem, adrift>>,
           \A n \in Name \ pending : last'[n] = last[n] /\ window'[n] = window[n],
           \A n \in pending : last'[n] = Artifact(n)
    PROVE  EntryInv'
<1>0. TypeInv /\ FilesInv /\ Tells /\ PriorTells /\ VerbInv /\ BatchInv
  BY DEF EntryInv
<1>1. FilesInv'
  BY <1>0 DEF FilesInv, Read, SoundNames
<1>2. ASSUME NEW n \in Name \ pending, Excused(n) PROVE Excused(n)'
  BY <1>2 DEF Excused, Reinstalled, External
<1>3. Tells'
  <2>1. ASSUME NEW n \in Name, InFlight(n) PROVE InFlight(n)'
    BY <1>0, <2>1 DEF InFlight, Batch
  <2>2. ASSUME NEW n \in pending PROVE InFlight(n)'
    BY <2>2 DEF InFlight, Batch
  <2> QED  BY <1>0, <1>2, <2>1, <2>2 DEF Tells, Read, Told
<1>4. PriorTells'
  <2>1. ASSUME NEW n \in wanted' PROVE n \in wanted /\ n \in Name
    BY <1>0, <2>1 DEF TypeInv, TypeOK
  <2>2. ASSUME NEW n \in Awaited' PROVE n \in Awaited /\ n \notin pending
    BY <1>0, <2>2 DEF Awaited, BatchInv, Batch, NamesOf
  <2> QED  BY <1>0, <1>2, <2>1, <2>2 DEF PriorTells, Batch, Artifact
<1>5. Installed' /\ VerbInv'
  BY <1>0 DEF Installed, VerbInv, Batch, Artifact
<1>6. BatchInv'
  BY <1>0 DEF BatchInv, Batch, Artifact
<1> QED  BY <1>1, <1>3, <1>4, <1>5, <1>6 DEF EntryInv

\* pacman installs the artifacts of the transaction.
LEMMA InstallOkKept ==
    ASSUME EntryInv, TypeInv', InstallOk
    PROVE  EntryInv'
<1>1. \A n \in Name : /\ last'[n] = IF n \in pending THEN Artifact(n) ELSE last[n]
                      /\ window'[n] = IF n \in pending THEN "external" ELSE window[n]
  BY DEF InstallOk
<1>2. pending \subseteq Name
  BY DEF EntryInv, TypeInv, TypeOK
<1> QED  BY <1>1, <1>2, PendingOk DEF InstallOk, batch, ghosts

\* sysforge claims the transaction as its own.
LEMMA MarkOwnKept ==
    ASSUME EntryInv, TypeInv', MarkOwn
    PROVE  EntryInv'
<1>1. \A n \in Name : window'[n] = IF n \in pending THEN "own" ELSE window[n]
  BY DEF MarkOwn
<1>2. \A n \in pending : last[n] = Artifact(n)
  BY DEF EntryInv, Installed, MarkOwn
<1> QED  BY <1>1, <1>2, PendingOk DEF MarkOwn, system, batch, ghosts

\* Every entry that restore_reverted() leaves is of a counted build.
LEMMA RestoredCounted ==
    ASSUME NEW f \in File, NEW a, NEW v \in [Base -> Ver], NEW S, NEW names \in SUBSET Name, FileOk(f, a, v, S)
    PROVE  \A n \in Name : Counted(Restore(f, names, v).entry[n])
<1> DEFINE kept(n) == f.stash[n][v[BaseOf[n]]]
<1>1. ASSUME NEW n \in Name
      PROVE  Restore(f, names, v).entry[n] = IF n \in names /\ kept(n) # None THEN kept(n) ELSE f.entry[n]
  BY DEF Restore, File
<1> QED  BY <1>1, AtVersion DEF FileOk, Counted

\* _restore_reverted_state: an entry that was kept for what is now installed comes back.
LEMMA RestoreInstalledKept ==
    ASSUME EntryInv, TypeInv', RestoreInstalled
    PROVE  EntryInv'
<1>0. /\ TypeInv /\ FilesInv /\ Tells /\ PriorTells /\ VerbInv /\ BatchInv /\ Installed
      /\ UNCHANGED <<window, present, last, art, ver, builds, verb, queue, cur, fresh, wanted, prior, files, refused, final, mem>>
      /\ pc = "restore" /\ pc' \in {"next", "undo"} /\ file' = Restore(file, pending, ver)
      /\ pending' = {} /\ (pc' = "undo" => final) /\ (pc' = "next" => ~final)
      /\ adrift' = adrift \ {n \in pending \cap SourceBuilt(file') : file'.entry[n].build = last[n]}
  BY DEF EntryInv, RestoreInstalled, system, ghosts, AfterInstall
<1>1. /\ file \in File /\ ver \in [Base -> Ver] /\ pending \in SUBSET Name /\ wanted \subseteq Name
      /\ file' \in File
  BY <1>0 DEF TypeInv, TypeOK
<1>2. SoundNames = Name \ adrift /\ SoundNames' = Name \ adrift'
  BY <1>0 DEF SoundNames
<1>3. ASSUME NEW n \in pending
      PROVE  last[n] = Artifact(n) \/ (last[n] = Repo /\ (n \in adrift \/ Excused(n)))
  BY <1>0 DEF Installed
<1>4. ASSUME NEW n \in Name, n \in SoundNames' \ SoundNames
      PROVE  n \in pending /\ IsSource(file'.entry[n]) /\ file'.entry[n].build = last[n]
  BY <1>0, <1>2, <1>4 DEF SourceBuilt, Tracked, IsSource
<1>5. \A n \in Name : Counted(file'.entry[n])
  <2>1. FileOk(file, art, ver, SoundNames)
    BY <1>0 DEF FilesInv
  <2> QED  BY <1>0, <1>1, <2>1, RestoredCounted
<1>6. \A n \in Name : n \in SoundNames' \ SoundNames =>
          n \in pending /\ file'.entry[n].build = art[n][ver[BaseOf[n]]]
  BY <1>0, <1>3, <1>4, <1>5 DEF Artifact, Counted, Build, Repo
<1>7. /\ FileOk(file', art, ver, SoundNames')
      /\ \A n \in Name : file'.entry[n] # file.entry[n] =>
            n \in pending /\ IsSource(file'.entry[n]) /\ (n \in SoundNames => file'.entry[n].build = Artifact(n))
      /\ \A n \in pending \cap SoundNames :
            IsSource(file'.entry[n]) => Artifact(n) \in {None, file'.entry[n].build}
  <2>1. FileOk(file, art, ver, SoundNames) /\ file' = Restore(file, pending, ver)
    BY <1>0 DEF FilesInv
  <2>2. \A n \in Name : n \in SoundNames' \ SoundNames =>
            n \in pending /\ file'.entry[n].build = art[n][ver[BaseOf[n]]]
    BY <1>6
  <2>3. FileOk(file', art, ver, SoundNames')
    BY <1>1, <2>1, <2>2, RestoreOk
  <2>4. \A n \in Name : file'.entry[n] # file.entry[n] =>
            n \in pending /\ IsSource(file'.entry[n]) /\ (n \in SoundNames => file'.entry[n].build = art[n][ver[BaseOf[n]]])
    BY <1>1, <2>1, <2>2, <2>3, RestoreOk
  <2>5. \A n \in pending \cap SoundNames :
            IsSource(file'.entry[n]) => art[n][ver[BaseOf[n]]] \in {None, file'.entry[n].build}
    BY <1>1, <2>1, <2>2, <2>3, RestoreOk
  <2> QED  BY <2>3, <2>4, <2>5 DEF Artifact
<1>8. FilesInv'
  BY <1>0, <1>7 DEF FilesInv, Read
<1>9. ASSUME NEW n \in Name, Excused(n) PROVE Excused(n)'
  BY <1>0, <1>9 DEF Excused, Reinstalled, External
<1>10. ASSUME NEW n \in Name \ pending PROVE file'.entry[n] = file.entry[n] /\ (n \in adrift => n \in adrift')
  BY <1>0, <1>7
<1>11. Tells'
  <2>1. ASSUME NEW n \in Name \ pending, InFlight(n) PROVE InFlight(n)'
    BY <1>0, <2>1 DEF InFlight, Batch
  <2>2. ASSUME NEW n \in pending, n \notin adrift' PROVE UpTo(file'.entry[n], last[n]) \/ Excused(n)
    <3>1. CASE n \in adrift
      BY <1>1, <1>2, <1>4, <2>2, <3>1 DEF UpTo
    <3>2. CASE n \notin adrift /\ last[n] = Artifact(n)
      <4>1. Artifact(n) # None
        BY <1>0 DEF BatchInv, Batch
      <4> QED  BY <1>1, <1>2, <1>7, <3>2, <4>1 DEF UpTo
    <3> QED  BY <1>0, <3>1, <3>2 DEF Installed
  <2> QED  BY <1>0, <1>1, <1>9, <1>10, <2>1, <2>2 DEF Tells, Read, Told
<1>12. PriorTells'
  <2>1. ASSUME NEW n \in wanted' PROVE n \in wanted /\ n \in Name
    BY <1>0, <1>1, <2>1
  <2>2. ASSUME NEW n \in Awaited' PROVE n \in Awaited /\ n \notin pending
    BY <1>0, <2>2 DEF Awaited, BatchInv, Batch, NamesOf
  <2>3. ASSUME NEW n \in wanted', n \in Awaited'
        PROVE  n \in adrift' \/ UpTo(prior'[n], last'[n]) \/ Excused(n)'
    BY <1>0, <1>9, <1>10, <2>1, <2>2, <2>3 DEF PriorTells, Batch
  <2>4. ASSUME NEW n \in wanted', BaseOf[n] \in queue' PROVE file'.entry[n] = prior'[n]
    <3>1. n \notin pending
      BY <1>0, <2>4 DEF BatchInv, Batch
    <3> QED  BY <1>0, <1>10, <2>1, <2>4, <3>1 DEF PriorTells, Batch
  <2>5. ASSUME NEW n \in wanted', file'.entry[n] # prior'[n]
        PROVE  IsSource(file'.entry[n]) /\ (n \notin adrift' => file'.entry[n].build = Artifact(n)')
    <3>1. Artifact(n)' = Artifact(n) /\ Artifact(n) = art[n][ver[BaseOf[n]]]
      BY <1>0 DEF Artifact
    <3>2. IsSource(file'.entry[n]) /\ (n \notin adrift => file'.entry[n].build = Artifact(n))
      BY <1>0, <1>2, <1>7, <2>1, <2>5 DEF PriorTells, Batch
    <3> QED  BY <1>2, <1>6, <2>1, <3>1, <3>2
  <2> QED  BY <2>3, <2>4, <2>5 DEF PriorTells
<1>13. BatchInv'
  BY <1>0 DEF BatchInv, Batch, Artifact
<1>14. VerbInv' /\ Installed'
  BY <1>0 DEF VerbInv, Installed, Batch
<1> QED  BY <1>8, <1>11, <1>12, <1>13, <1>14 DEF EntryInv

\* _revert_uninstalled_state: what was requested and not installed gets its prior entry back.
LEMMA UndoKept ==
    ASSUME EntryInv, TypeInv', Undo
    PROVE  EntryInv'
<1> DEFINE back == refused \cap wanted
<1>0. /\ TypeInv /\ FilesInv /\ Tells /\ PriorTells /\ VerbInv /\ BatchInv
      /\ UNCHANGED <<window, present, last, art, ver, builds>>
      /\ pc = "undo" /\ file' = Revert(file, back, prior, ver)
      /\ adrift' = adrift \cup (Ahead(file) \cap (refused \ wanted))
      /\ files = {} /\ pending = {}
  BY DEF EntryInv, Undo, system, BatchInv, Batch
<1>1. /\ file \in File /\ ver \in [Base -> Ver] /\ back \in SUBSET Name /\ wanted \subseteq Name
      /\ prior \in [Name -> Entry \cup {None}]
  BY <1>0 DEF TypeInv, TypeOK
<1>2. SoundNames = Name \ adrift /\ SoundNames' = Name \ adrift'
  BY <1>0 DEF SoundNames, Undo, Ends
<1>3. FileOk(file', art, ver, SoundNames')
  <2>1. SoundNames' \subseteq SoundNames
    BY <1>0, <1>2
  <2>2. \A n \in back : /\ Counted(prior[n])
                        /\ file.entry[n] # prior[n] =>
                              /\ IsSource(file.entry[n])
                              /\ n \in SoundNames => file.entry[n].build = art[n][ver[BaseOf[n]]]
    BY <1>0, <1>1, <1>2 DEF FilesInv, PriorTells, Batch, Artifact
  <2> HIDE DEF back
  <2> QED  BY <1>0, <1>1, <2>1, <2>2, RevertOk DEF FilesInv
<1>4. ASSUME NEW n \in Name
      PROVE  n \in adrift' \/ UpTo(file'.entry[n], last[n]) \/ Excused(n)
  <2>1. file'.entry[n] = IF n \in back THEN prior[n] ELSE file.entry[n]
    BY <1>0, <1>1 DEF Revert, File
  <2>2. CASE n \in back
    BY <1>0, <2>1, <2>2 DEF PriorTells, Batch, Awaited
  <2>3. CASE n \in refused \ wanted
    BY <1>0, <2>1, <2>3, AheadIs
  <2>4. CASE n \notin refused
    BY <1>0, <2>1, <2>4 DEF Tells, Read, Told, InFlight
  <2> QED  BY <2>2, <2>3, <2>4
<1>5. \A n \in Name, w \in Ver : art[n][w] # None => w <= ver[BaseOf[n]]
  BY <1>0 DEF FilesInv
<1>6. CASE verb = "update"
  <2>1. pc' = "end" /\ UNCHANGED <<verb, batch, mem>>
    BY <1>6 DEF Undo
  <2>2. \A n \in Name : ~Excused(n)
    BY <1>0, <1>6 DEF Excused
  <2>3. Tells'
    BY <1>0, <1>4, <2>1, <2>2 DEF Tells, Told, Read
  <2>4. FilesInv'
    BY <1>0, <1>3, <1>5, <2>1 DEF FilesInv, Read, batch
  <2> QED  BY <1>6, <2>1, <2>3, <2>4 DEF EntryInv, PriorTells, Installed, VerbInv, BatchInv, Batch
<1>7. CASE verb # "update"
  <2>1. Ends
    BY <1>7 DEF Undo
  <2>2. \A n \in Name : n \in adrift' \/ UpTo(file'.entry[n], last'[n]) \/ (n \in Reinstalled' /\ last'[n] = Repo)
    BY <1>0, <1>4 DEF Excused, Reinstalled, External
  <2> QED  BY <1>0, <1>3, <1>5, <2>1, <2>2, EndsOk
<1> QED  BY <1>6, <1>7

\* update starts at its reconcile.
LEMMA StartUpdateKept ==
    ASSUME EntryInv, TypeInv', StartUpdate
    PROVE  EntryInv'
<1>0. /\ TypeInv /\ FilesInv /\ Tells /\ VerbInv /\ pc = "idle" /\ pc' = "consume" /\ verb' = "update"
      /\ UNCHANGED <<file, window, present, last, art, ver, builds, queue, files, refused, pending, final, prior, mem, adrift>>
  BY DEF EntryInv, StartUpdate, system, batch, ghosts
<1>1. FilesInv'
  BY <1>0 DEF FilesInv, Read, SoundNames
<1>2. Tells'
  BY <1>0 DEF Tells, Read, Told, InFlight, Batch, Excused, Reinstalled, External
<1> QED  BY <1>0, <1>1, <1>2 DEF EntryInv, PriorTells, Installed, VerbInv, BatchInv, Batch

(* The reconcile: what the user installed over is no longer sysforge's, or  *)
(* a stage's.                                                               *)
LEMMA ConsumeKept ==
    ASSUME EntryInv, TypeInv', Consume
    PROVE  EntryInv'
<1> DEFINE swept == ClearStale(file, Touched, present)
<1>0. /\ TypeInv /\ FilesInv /\ Tells /\ VerbInv /\ pc = "consume" /\ pc' = "clear"
      /\ mem' = Demote(swept, Reinstalled)
      /\ UNCHANGED <<file, window, present, last, art, ver, builds, verb, queue, files, refused, pending, final, prior, adrift>>
  BY DEF EntryInv, Consume, system, batch, ghosts
<1>1. file \in File /\ ver \in [Base -> Ver]
  BY <1>0 DEF TypeInv, TypeOK
<1>2. swept.entry = file.entry /\ swept.stash = file.stash /\ swept \in File
  BY <1>1, ClearTyped DEF ClearStale, ClearRemoved, File
<1> HIDE DEF swept
<1>3. ASSUME NEW n \in Name
      PROVE  /\ mem'.stash[n] = file.stash[n]
             /\ mem'.entry[n] = file.entry[n] \/ ~IsSource(mem'.entry[n])
             /\ n \in Reinstalled /\ IsSource(file.entry[n]) /\ ~file.entry[n].owned => ~IsSource(mem'.entry[n])
  BY <1>0, <1>2 DEF Demote, File, IsSource, Tracked, SourceBuilt, KnowsBase
<1>4. SoundNames' = SoundNames
  BY <1>0 DEF SoundNames
<1>5. FilesInv'
  <2>1. FileOk(mem', art, ver, SoundNames)
    BY <1>0, <1>1, <1>3, ThinnedOk DEF FilesInv
  <2> QED  BY <1>0, <1>4, <2>1 DEF FilesInv
<1>6. Tells'
  <2>1. ASSUME NEW n \in Name PROVE Told(mem', n)
    <3>1. Told(file, n) \/ Excused(n)
      BY <1>0 DEF Tells, Read, InFlight, Batch
    <3>2. Told(file, n) => Told(mem', n)
      BY <1>3 DEF Told, UpTo
    <3>3. Excused(n) => Told(mem', n)
      BY <1>3 DEF Excused, Told, UpTo
    <3> QED  BY <3>1, <3>2, <3>3
  <2> QED  BY <1>0, <2>1 DEF Tells, Read, Told
<1> QED  BY <1>0, <1>5, <1>6 DEF EntryInv, PriorTells, Installed, VerbInv, BatchInv, Batch

\* The window is cleared once the copy knows what was in it.
LEMMA ClearWindowKept ==
    ASSUME EntryInv, TypeInv', ClearWindow
    PROVE  EntryInv'
<1>0. /\ TypeInv /\ FilesInv /\ Tells /\ VerbInv /\ pc = "clear" /\ pc' = "save"
      /\ UNCHANGED <<file, present, last, art, ver, builds, verb, queue, files, refused, pending, final, prior, mem, adrift>>
  BY DEF EntryInv, ClearWindow, system, batch, ghosts
<1>1. FilesInv'
  BY <1>0 DEF FilesInv, Read, SoundNames
<1>2. Tells'
  BY <1>0 DEF Tells, Read, Told
<1> QED  BY <1>0, <1>1, <1>2 DEF EntryInv, PriorTells, Installed, VerbInv, BatchInv, Batch

\* The reconciled copy becomes the file.
LEMMA SaveReconciledKept ==
    ASSUME EntryInv, TypeInv', SaveReconciled
    PROVE  EntryInv'
<1>0. /\ TypeInv /\ FilesInv /\ Tells /\ VerbInv /\ pc = "save" /\ file' = mem
      /\ UNCHANGED <<window, present, last, art, ver, builds, adrift>>
  BY DEF EntryInv, SaveReconciled, system, ghosts
<1>1. SoundNames = Name \ adrift /\ SoundNames' = SoundNames
  BY <1>0 DEF SoundNames, SaveReconciled, Ends
<1>2. ASSUME NEW n \in Name PROVE Told(mem, n) \/ Excused(n)
  BY <1>0 DEF Tells
<1>3. FileOk(file', art, ver, SoundNames') /\ \A n \in Name, w \in Ver : art[n][w] # None => w <= ver[BaseOf[n]]
  BY <1>0, <1>1 DEF FilesInv, Read
<1>4. CASE verb = "update"
  <2>1. pc' = "sync" /\ UNCHANGED <<verb, batch>>
    BY <1>4 DEF SaveReconciled
  <2>2. \A n \in Name : Told(mem, n)
    BY <1>0, <1>2, <1>4 DEF Excused
  <2>3. Tells'
    BY <1>0, <2>1, <2>2 DEF Tells, Told, Read
  <2>4. FilesInv'
    BY <1>0, <1>3, <2>1 DEF FilesInv, Read, batch
  <2> QED  BY <1>0, <1>4, <2>1, <2>3, <2>4 DEF EntryInv, PriorTells, Installed, VerbInv, BatchInv, Batch, batch
<1>5. CASE verb # "update"
  <2>1. Ends
    BY <1>5 DEF SaveReconciled
  <2>2. \A n \in Name : n \in adrift' \/ UpTo(file'.entry[n], last'[n]) \/ (n \in Reinstalled' /\ last'[n] = Repo)
    BY <1>0, <1>2 DEF Excused, Reinstalled, External, Told
  <2> QED  BY <1>0, <1>3, <2>1, <2>2, EndsOk
<1> QED  BY <1>4, <1>5

\* sync_with_installed() adds markers and drops the entries of what is gone.
LEMMA SyncInstalledKept ==
    ASSUME EntryInv, TypeInv', SyncInstalled
    PROVE  EntryInv'
<1>0. /\ TypeInv /\ FilesInv /\ Tells /\ VerbInv /\ pc = "sync" /\ pc' = "plan" /\ file' = Sync(file, present)
      /\ UNCHANGED <<window, present, last, art, ver, builds, verb, queue, files, refused, pending, final, prior, mem, adrift>>
  BY DEF EntryInv, SyncInstalled, system, batch, ghosts
<1>1. file \in File /\ ver \in [Base -> Ver]
  BY <1>0 DEF TypeInv, TypeOK
<1>2. ASSUME NEW n \in Name
      PROVE  /\ file'.entry[n] = file.entry[n] \/ ~IsSource(file'.entry[n])
             /\ file'.stash[n] = file.stash[n] \/ (file'.stash[n] = Nothing /\ ~IsSource(file'.entry[n]))
  BY <1>0, <1>1 DEF Sync, File, IsSource, Tracked, Marker
<1>3. SoundNames' = SoundNames
  BY <1>0 DEF SoundNames
<1>4. FilesInv'
  <2>1. FileOk(file', art, ver, SoundNames)
    BY <1>0, <1>1, <1>2, ThinnedOk DEF FilesInv
  <2> QED  BY <1>0, <1>3, <2>1 DEF FilesInv, Read
<1>5. Tells'
  <2>1. ASSUME NEW n \in Name, Told(file, n) PROVE Told(file, n)'
    BY <1>0, <1>2, <2>1 DEF Told, UpTo
  <2> QED  BY <1>0, <2>1 DEF Tells, Read, InFlight, Batch, Excused, Reinstalled, External
<1> QED  BY <1>0, <1>4, <1>5 DEF EntryInv, PriorTells, Installed, VerbInv, BatchInv, Batch

(* A verb that ends without a further change.                               *)
LEMMA QuietEndOk ==
    ASSUME EntryInv, TypeInv', Ends, UNCHANGED <<last, art, ver>>, adrift' = adrift \cup Ahead(file) \/ adrift' = adrift,
           file'.entry = file.entry /\ file'.stash = file.stash,
           SoundNames' \subseteq SoundNames,
           \A n \in Name : n \in adrift' \/ UpTo(file.entry[n], last[n]) \/ (n \in Reinstalled' /\ last[n] = Repo)
    PROVE  EntryInv'
<1>1. FileOk(file', art, ver, SoundNames')
  <2>1. FileOk(file, art, ver, SoundNames) /\ ver \in [Base -> Ver]
    BY DEF EntryInv, FilesInv, TypeInv, TypeOK
  <2> QED  BY <2>1, ThinnedOk
<1>2. \A n \in Name, w \in Ver : art[n][w] # None => w <= ver[BaseOf[n]]
  BY DEF EntryInv, FilesInv
<1> QED  BY <1>1, <1>2, EndsOk

\* An update with nothing to build ends.
LEMMA NothingToDoKept ==
    ASSUME EntryInv, TypeInv', NothingToDo
    PROVE  EntryInv'
<1>1. \A n \in Name : n \in adrift \/ UpTo(file.entry[n], last[n]) \/ (n \in Reinstalled' /\ last[n] = Repo)
  BY DEF NothingToDo, EntryInv, Tells, Read, Told, InFlight, Batch, Excused, Reinstalled, External
<1>2. SoundNames' = SoundNames
  BY DEF NothingToDo, Ends, SoundNames, ghosts
<1> QED  BY <1>1, <1>2, QuietEndOk DEF NothingToDo, system, ghosts

\* An update that only upgrades leaves every entry alone.
LEMMA OnlyUpgradesKept ==
    ASSUME EntryInv, TypeInv', OnlyUpgrades
    PROVE  EntryInv'
<1>0. /\ TypeInv /\ FilesInv /\ Tells /\ VerbInv /\ pc = "plan" /\ pc' = "end" /\ verb = "update"
      /\ UNCHANGED <<file, window, present, last, art, ver, builds, verb, queue, files, refused, pending, final, prior, mem, adrift>>
  BY DEF EntryInv, VerbInv, OnlyUpgrades, system, batch, ghosts
<1>1. FilesInv'
  BY <1>0 DEF FilesInv, Read, SoundNames
<1>2. Tells'
  BY <1>0 DEF Tells, Read, Told, InFlight, Batch, Excused
<1> QED  BY <1>0, <1>1, <1>2 DEF EntryInv, PriorTells, Installed, VerbInv, BatchInv, Batch

\* The end of an update clears the window, which nothing relies on by then.
LEMMA EndUpdateKept ==
    ASSUME EntryInv, TypeInv', EndUpdate
    PROVE  EntryInv'
<1>1. \A n \in Name : n \in adrift \/ UpTo(file.entry[n], last[n])
  BY DEF EndUpdate, EntryInv, VerbInv, Tells, Read, Told, InFlight, Batch, Excused
<1>2. SoundNames' = SoundNames
  BY DEF EndUpdate, Ends, SoundNames, ghosts
<1> QED  BY <1>1, <1>2, QuietEndOk DEF EndUpdate, system, ghosts

-----------------------------------------------------------------------------
\* A removal adds to the window and takes nothing out of it.
LEMMA UninstallKept ==
    ASSUME EntryInv, TypeInv', NEW n \in Name, Uninstall(n)
    PROVE  EntryInv'
<1>0. /\ TypeInv /\ FilesInv /\ Tells /\ VerbInv /\ pc = "idle" /\ pc' = "removed" /\ verb' = "uninstall"
      /\ window' = [window EXCEPT ![n] = "external"]
      /\ UNCHANGED <<file, last, art, ver, builds, queue, files, refused, final, prior, mem, adrift>>
  BY DEF EntryInv, Uninstall, Removes
<1>1. FilesInv'
  BY <1>0 DEF FilesInv, Read, SoundNames
<1>2. ASSUME NEW m \in Name, Excused(m) PROVE Excused(m)'
  BY <1>0, <1>2 DEF Excused, Reinstalled, External, TypeInv, TypeOK
<1>3. Tells'
  BY <1>0, <1>2 DEF Tells, Read, Told, InFlight, Batch
<1> QED  BY <1>0, <1>1, <1>3 DEF EntryInv, PriorTells, Installed, VerbInv, BatchInv, Batch

\* The failures that an uninstall clears are no entries.
LEMMA ClearFailuresKept ==
    ASSUME EntryInv, TypeInv', ClearFailures
    PROVE  EntryInv'
<1>0. /\ TypeInv /\ FilesInv /\ Tells /\ VerbInv /\ pc = "removed"
      /\ file'.entry = file.entry /\ file'.stash = file.stash
      /\ UNCHANGED <<window, present, last, art, ver, builds, adrift>>
  BY DEF EntryInv, ClearFailures, ClearRemoved, system, ghosts, TypeInv, TypeOK, File
<1>1. ASSUME NEW n \in Name PROVE Told(file, n) \/ Excused(n)
  BY <1>0 DEF Tells, Read, InFlight, Batch
<1>2. SoundNames' = SoundNames
  BY <1>0 DEF SoundNames, ClearFailures, Ends
<1>3. CASE Ends
  <2>1. \A n \in Name : n \in adrift \/ UpTo(file.entry[n], last[n]) \/ (n \in Reinstalled' /\ last[n] = Repo)
    BY <1>0, <1>1 DEF Excused, Reinstalled, External, Told
  <2> QED  BY <1>0, <1>2, <1>3, <2>1, QuietEndOk
<1>4. CASE pc' = "forget" /\ UNCHANGED <<verb, batch, mem>>
  <2>1. FilesInv'
    <3>1. FileOk(file', art, ver, SoundNames) /\ ver \in [Base -> Ver]
      BY <1>0, ThinnedOk DEF FilesInv, TypeInv, TypeOK
    <3> QED  BY <1>0, <1>2, <1>4, <3>1 DEF FilesInv, Read, batch
  <2>2. Tells'
    BY <1>0, <1>1, <1>4 DEF Tells, Read, Told, Excused, Reinstalled, External
  <2> QED  BY <1>0, <1>4, <2>1, <2>2 DEF EntryInv, PriorTells, Installed, VerbInv, BatchInv, Batch
<1> QED  BY <1>3, <1>4 DEF ClearFailures

\* A revert to stock installs over, and its own reconcile is to know.
LEMMA RevertToStockKept ==
    ASSUME EntryInv, TypeInv', NEW n \in Name, RevertToStock(n)
    PROVE  EntryInv'
<1>0. /\ TypeInv /\ FilesInv /\ Tells /\ VerbInv /\ pc = "idle" /\ pc' = "forget" /\ verb' = "revert"
      /\ Reverts(n) \subseteq InRepo
      /\ UNCHANGED <<file, art, ver, builds, queue, files, refused, pending, final, prior, mem, adrift>>
  BY DEF EntryInv, RevertToStock, ghosts
<1>1. FilesInv'
  BY <1>0 DEF FilesInv, Read, SoundNames
<1>2. ASSUME NEW m \in Name
      PROVE  IF m \in Reverts(n) THEN last'[m] = Repo /\ window'[m] = "external"
                                 ELSE last'[m] = last[m] /\ window'[m] = window[m]
  BY DEF RevertToStock, Installs
<1>3. ASSUME NEW m \in Name PROVE Told(file, m)' \/ Excused(m)'
  <2>1. CASE m \in Reverts(n)
    BY <1>0, <1>2, <2>1 DEF Excused, Reinstalled, External
  <2>2. CASE m \notin Reverts(n)
    BY <1>0, <1>2, <2>2 DEF Tells, Told, Read, InFlight, Batch, Excused, Reinstalled, External
  <2> QED  BY <2>1, <2>2
<1>4. Tells'
  BY <1>0, <1>3 DEF Tells, Read
<1> QED  BY <1>0, <1>1, <1>4 DEF EntryInv, PriorTells, Installed, VerbInv, BatchInv, Batch

\* forget_packages() only takes entries away.
LEMMA ForgetPackagesKept ==
    ASSUME EntryInv, TypeInv', ForgetPackages
    PROVE  EntryInv'
<1>0. /\ TypeInv /\ FilesInv /\ Tells /\ VerbInv /\ pc = "forget" /\ pc' = "consume" /\ file' = Forget(file, wanted)
      /\ UNCHANGED <<window, present, last, art, ver, builds, verb, queue, files, refused, pending, final, prior, mem, adrift>>
  BY DEF EntryInv, ForgetPackages, system, batch
<1>1. file \in File /\ ver \in [Base -> Ver]
  BY <1>0 DEF TypeInv, TypeOK
<1>2. ASSUME NEW n \in Name
      PROVE  /\ file'.entry[n] = file.entry[n] \/ ~IsSource(file'.entry[n])
             /\ file'.stash[n] = file.stash[n]
  BY <1>0, <1>1 DEF Forget, Delete, File, IsSource
<1>3. SoundNames' = SoundNames
  BY <1>0 DEF SoundNames
<1>4. FilesInv'
  <2>1. FileOk(file', art, ver, SoundNames)
    BY <1>0, <1>1, <1>2, ThinnedOk DEF FilesInv
  <2> QED  BY <1>0, <1>3, <2>1 DEF FilesInv, Read
<1>5. Tells'
  <2>1. ASSUME NEW n \in Name, Told(file, n) PROVE Told(file, n)'
    BY <1>0, <1>2, <2>1 DEF Told, UpTo
  <2>2. ASSUME NEW n \in Name, Excused(n) PROVE Excused(n)'
    BY <1>0, <2>2 DEF Excused, Reinstalled, External
  <2> QED  BY <1>0, <2>1, <2>2 DEF Tells, Read, InFlight, Batch
<1> QED  BY <1>0, <1>4, <1>5 DEF EntryInv, PriorTells, Installed, VerbInv, BatchInv, Batch

-----------------------------------------------------------------------------
\* The user installs over a package: its entry is to be reconciled, or known to be left behind.
LEMMA PacmanSyncKept ==
    ASSUME EntryInv, TypeInv', NEW n \in Name, PacmanSync(n)
    PROVE  EntryInv'
<1>0. /\ TypeInv /\ FilesInv /\ Tells /\ PriorTells /\ Installed /\ VerbInv /\ BatchInv
      /\ n \in InRepo /\ pc # "mark"
      /\ UNCHANGED <<file, art, ver, builds, pc, verb, queue, cur, fresh, wanted, prior, files, refused, pending, final, mem>>
      /\ adrift \subseteq adrift' /\ (Lost => n \in adrift')
  BY DEF EntryInv, PacmanSync, UserMay, batch
<1>1. /\ \A m \in Name \ {n} : last'[m] = last[m] /\ window'[m] = window[m]
      /\ last'[n] = Repo /\ window'[n] = "external"
  BY DEF PacmanSync, Installs
<1>2. n \in adrift' \/ Excused(n)'
  BY <1>0, <1>1 DEF Lost, Excused, Reinstalled, External
<1>3. ASSUME NEW m \in Name \ {n}, Excused(m) PROVE Excused(m)'
  BY <1>0, <1>1, <1>3 DEF Excused, Reinstalled, External
<1>4. FilesInv'
  <2>1. SoundNames' \subseteq SoundNames
    BY <1>0 DEF SoundNames
  <2> QED  BY <1>0, <2>1, FilesKept
<1>5. Tells'
  <2>1. pc = "clear" => n \in adrift'
    BY <1>0 DEF Lost
  <2>2. ASSUME NEW m \in Name, InFlight(m) PROVE InFlight(m)'
    BY <1>0, <2>2 DEF InFlight
  <2>3. ASSUME NEW m \in Name \ {n}, NEW f PROVE Told(f, m) => (m \in adrift' \/ UpTo(f.entry[m], last'[m]))
    BY <1>0, <1>1 DEF Told
  <2>4. ASSUME NEW m \in Name \ {n}
        PROVE  /\ pc' \notin Read => Told(file, m)' \/ Excused(m)' \/ InFlight(m)'
               /\ pc' = "clear" => Told(mem, m)'
               /\ pc' = "save" => Told(mem, m)' \/ Excused(m)'
    BY <1>0, <1>3, <2>2, <2>3 DEF Tells, Told
  <2>5. /\ pc' \notin Read => Told(file, n)' \/ Excused(n)' \/ InFlight(n)'
        /\ pc' = "clear" => Told(mem, n)'
        /\ pc' = "save" => Told(mem, n)' \/ Excused(n)'
    BY <1>0, <1>2, <2>1 DEF Told
  <2> QED  BY <2>4, <2>5 DEF Tells
<1>6. PriorTells'
  <2>1. ASSUME NEW m \in wanted' PROVE m \in wanted /\ m \in Name
    BY <1>0, <2>1 DEF TypeInv, TypeOK
  <2>2. Awaited' = Awaited
    BY <1>0 DEF Awaited
  <2>3. ASSUME NEW m \in wanted', m \in Awaited', pc \in Batch
        PROVE  m \in adrift' \/ UpTo(prior'[m], last'[m]) \/ Excused(m)'
    BY <1>0, <1>1, <1>2, <1>3, <2>1, <2>2, <2>3 DEF PriorTells
  <2> QED  BY <1>0, <2>1, <2>3 DEF PriorTells, Artifact
<1>7. Installed'
  BY <1>0, <1>1, <1>2, <1>3 DEF Installed, Artifact, TypeInv, TypeOK
<1>8. VerbInv' /\ BatchInv'
  BY <1>0 DEF VerbInv, BatchInv, Artifact
<1> QED  BY <1>4, <1>5, <1>6, <1>7, <1>8 DEF EntryInv

\* The user removes a package: no entry changes, nor what was installed last.
LEMMA PacmanRemoveKept ==
    ASSUME EntryInv, TypeInv', NEW n \in Name, PacmanRemove(n)
    PROVE  EntryInv'
<1>0. /\ TypeInv /\ FilesInv /\ Tells /\ PriorTells /\ Installed /\ VerbInv /\ BatchInv
      /\ window' = [window EXCEPT ![n] = "external"]
      /\ UNCHANGED <<file, last, art, ver, builds, pc, verb, queue, cur, fresh, wanted, prior, files, refused, pending, final, mem, adrift>>
  BY DEF EntryInv, PacmanRemove, Removes, batch
<1>1. ASSUME NEW m \in Name, Excused(m) PROVE Excused(m)'
  BY <1>0, <1>1 DEF Excused, Reinstalled, External, TypeInv, TypeOK
<1>2. FilesInv'
  BY <1>0 DEF FilesInv, SoundNames
<1>3. Tells'
  BY <1>0, <1>1 DEF Tells, Told, InFlight
<1>4. PriorTells'
  <2>1. ASSUME NEW m \in wanted' PROVE m \in wanted /\ m \in Name
    BY <1>0, <2>1 DEF TypeInv, TypeOK
  <2>2. Awaited' = Awaited
    BY <1>0 DEF Awaited
  <2> QED  BY <1>0, <1>1, <2>1, <2>2 DEF PriorTells, Artifact
<1>5. Installed'
  BY <1>0, <1>1 DEF Installed, Artifact, TypeInv, TypeOK
<1>6. VerbInv' /\ BatchInv'
  BY <1>0 DEF VerbInv, BatchInv, Artifact
<1> QED  BY <1>2, <1>3, <1>4, <1>5, <1>6 DEF EntryInv

(* No artifact of the version to come exists, and no entry is kept for it.  *)
LEMMA NewVersionKept ==
    ASSUME EntryInv, TypeInv', NEW b \in Base, NewVersion(b)
    PROVE  EntryInv'
<1>0. /\ TypeInv /\ FilesInv /\ Tells /\ VerbInv
      /\ ver' = [ver EXCEPT ![b] = @ + 1] /\ ver \in [Base -> Ver] /\ ver' \in [Base -> Ver] /\ pc = "idle"
      /\ UNCHANGED <<file, window, present, last, art, builds, pc, verb, queue, files, refused, pending, final, prior, mem, adrift>>
  BY DEF EntryInv, NewVersion, batch, ghosts, TypeInv, TypeOK
<1>1. ASSUME NEW n \in Name
      PROVE  /\ BaseOf[n] \in Base /\ ver[BaseOf[n]] \in Ver /\ ver'[BaseOf[n]] \in Ver /\ Ver \subseteq Int
             /\ BaseOf[n] # b => ver'[BaseOf[n]] = ver[BaseOf[n]]
             /\ BaseOf[n] = b => ver'[BaseOf[n]] = ver[BaseOf[n]] + 1
  BY <1>0, AtVersion DEF Ver
<1>2. FileOk(file, art, ver, SoundNames) /\ \A n \in Name, w \in Ver : art[n][w] # None => w <= ver[BaseOf[n]]
  BY <1>0 DEF FilesInv
<1>3. ASSUME NEW n \in Name
      PROVE  /\ \A w \in Ver : file.stash[n][w] # None => w <= ver'[BaseOf[n]]
             /\ \A w \in Ver : art[n][w] # None => w <= ver'[BaseOf[n]]
             /\ BaseOf[n] = b => file.stash[n][ver'[BaseOf[n]]] = None /\ art[n][ver'[BaseOf[n]]] = None
  <2>1. \A w \in Ver : w <= ver[BaseOf[n]] => w <= ver'[BaseOf[n]]
    BY <1>1
  <2>2. BaseOf[n] = b => ~(ver'[BaseOf[n]] <= ver[BaseOf[n]])
    BY <1>1
  <2>3. \A w \in Ver : /\ file.stash[n][w] # None => w <= ver[BaseOf[n]]
                       /\ art[n][w] # None => w <= ver[BaseOf[n]]
    BY <1>2 DEF FileOk
  <2> QED  BY <1>1, <2>1, <2>2, <2>3
<1>4. FileOk(file, art, ver', SoundNames)
  BY <1>1, <1>2, <1>3 DEF FileOk
<1>5. FilesInv'
  <2>1. SoundNames' = SoundNames
    BY <1>0 DEF SoundNames
  <2> QED  BY <1>0, <1>3, <1>4, <2>1 DEF FilesInv, Read
<1>6. Tells'
  BY <1>0 DEF Tells, Read, Told, InFlight, Batch, Excused, Reinstalled, External
<1> QED  BY <1>0, <1>5, <1>6 DEF EntryInv, PriorTells, Installed, VerbInv, BatchInv, Batch

\* A killed verb leaves behind what was ahead, and what was built and not recorded.
LEMMA KillKept ==
    ASSUME EntryInv, TypeInv', Kill
    PROVE  EntryInv'
<1>0. /\ FileOk(file, art, ver, SoundNames) /\ ver \in [Base -> Ver]
      /\ UNCHANGED <<file, window, present, last, art, ver>> /\ Ends
      /\ adrift' = adrift \cup Ahead(file) \cup {n \in Name : pc = "made" /\ BaseOf[n] = cur}
      /\ \A n \in Name, w \in Ver : art[n][w] # None => w <= ver[BaseOf[n]]
  BY DEF EntryInv, Kill, system, FilesInv, TypeInv, TypeOK
<1>1. SoundNames' \subseteq SoundNames
  BY <1>0 DEF SoundNames
<1>2. FileOk(file', art', ver', SoundNames')
  BY <1>0, <1>1, ThinnedOk
<1>3. \A n \in Name : n \in adrift' \/ UpTo(file'.entry[n], last'[n])
  BY <1>0, AheadIs
<1> QED  BY <1>0, <1>2, <1>3, EndsOk

-----------------------------------------------------------------------------
\* The program starts with the invariant.
LEMMA EntryInvInit == Init => EntryInv
<1> SUFFICES ASSUME Init PROVE EntryInv
  OBVIOUS
<1>1. TypeInv
  BY InitTyped
<1>2. \A n \in Name : file.entry[n] = None /\ file.stash[n] = Nothing /\ art[n] = Nothing /\ prior[n] = None
  BY DEF Init, Blank, NoEntries
<1>3. \A n \in Name : ver[BaseOf[n]] \in Ver
  BY <1>1, AtVersion DEF TypeInv, TypeOK
<1>4. FilesInv
  BY <1>2, <1>3 DEF FilesInv, FileOk, Counted, IsSource, Nothing, Read, Init
<1>5. Tells
  BY <1>2 DEF Tells, Read, Told, UpTo, IsSource, Init
<1> QED  BY <1>1, <1>4, <1>5 DEF EntryInv, PriorTells, Installed, VerbInv, BatchInv, Batch, Init

\* Every step keeps the invariant.
LEMMA EntryInvKept == EntryInv /\ [Next]_vars => EntryInv'
<1> SUFFICES ASSUME EntryInv, [Next]_vars PROVE EntryInv'
  OBVIOUS
<1>1. TypeInv'
  <2>1. CASE UNCHANGED vars
    BY <2>1 DEF vars, system, batch, ghosts, EntryInv, TypeInv, HasTarget, TypeOK
  <2> QED
    BY <2>1, BuildVerbTyped, InstallBuiltTyped, UpdateVerbTyped, RemovalVerbsTyped, WorldTyped
    DEF Next, EntryInv
<1>2. CASE BuildVerb
  <2>1. ASSUME NEW bs \in SUBSET Base, NEW rebuild \in BOOLEAN, StartBuild(bs, rebuild) PROVE EntryInv'
    BY <1>1, <2>1, StartsOk DEF StartBuild
  <2> QED
    BY <1>1, <1>2, <2>1, InstallDepsKept, MakesKept, ReusesKept, BuildFailsKept, RecordBuildKept,
       PassesKept, SkewedKept, BulkKept DEF BuildVerb
<1>3. CASE InstallBuilt
  BY <1>1, <1>3, FilterKept, InstallOkKept, MarkOwnKept, RestoreInstalledKept, RefuseKept, UndoKept,
     ConflictKept DEF InstallBuilt
<1>4. CASE UpdateVerb
  <2>1. ASSUME NEW bs \in SUBSET Base, NEW rebuild \in BOOLEAN, NEW included \in BOOLEAN,
               Plan(bs, rebuild, included)
        PROVE  EntryInv'
    BY <1>1, <2>1, StartsOk DEF Plan
  <2> QED
    BY <1>1, <1>4, <2>1, StartUpdateKept, ConsumeKept, ClearWindowKept, SaveReconciledKept,
       SyncInstalledKept, NothingToDoKept, OnlyUpgradesKept, EndUpdateKept DEF UpdateVerb
<1>5. CASE RemovalVerbs
  BY <1>1, <1>5, UninstallKept, RevertToStockKept, ClearFailuresKept, ForgetPackagesKept DEF RemovalVerbs
<1>6. CASE World
  BY <1>1, <1>6, PacmanSyncKept, PacmanRemoveKept, NewVersionKept, KillKept DEF World
<1>7. CASE UNCHANGED vars
  BY <1>1, <1>7 DEF vars, system, batch, ghosts, EntryInv, FilesInv, Tells, Told, Excused, Reinstalled, External,
     InFlight, PriorTells, Awaited, Installed, VerbInv, BatchInv, SoundNames, Artifact
<1> QED  BY <1>2, <1>3, <1>4, <1>5, <1>6, <1>7 DEF Next

\* Once the verbs are done, and when update plans, a source entry is of the build
\* that pacman installed last, is to be reconciled or is a known leak, for any
\* packages, pkgbases, versions, batches and any pacman of the user's in between.
THEOREM InstalledIsTold == Spec => []EntryTellsInstalled
<1>1. EntryInv => EntryTellsInstalled
  <2> SUFFICES ASSUME EntryInv, pc \in {"idle", "plan"} PROVE Ahead(file) \subseteq adrift \cup Reinstalled
    BY DEF EntryTellsInstalled
  <2>1. ASSUME NEW n \in Name PROVE n \in adrift \/ UpTo(file.entry[n], last[n]) \/ n \in Reinstalled
    BY DEF EntryInv, Tells, Read, Told, InFlight, Batch, Excused
  <2> QED  BY <2>1, AheadIs
<1> QED  BY <1>1, EntryInvInit, EntryInvKept, PTL DEF Spec

-----------------------------------------------------------------------------
(***************************************************************************)
(* What a repair leaves of the records (StateRepair).                      *)
(***************************************************************************)

\* A key is one member's.
LEMMA KeysApart ==
    ASSUME NEW m, NEW n, NEW a, NEW c
    PROVE  /\ Key(m, a).of = m /\ Key(m, a).own = a
           /\ Key(m, a) = Key(n, c) <=> m = n /\ a = c
BY DEF Key

\* A record rewritten for a member: its source's, but for the version, the base and an old mode.
Rewrites(g, m, r, s) ==
    /\ r.mode = "source_built" /\ r.rest = s.rest /\ r.origin = s.origin
    /\ r.version = "now" /\ r.base # Variable

\* Only the names of old build modes are replaced.
LEMMA NormalIs ==
    ASSUME NEW r, r = [f \in Fields |-> r[f]], r.mode \in {"legacy", "source_built"}
    PROVE  /\ Normal(r) = [f \in Fields |-> Normal(r)[f]]
           /\ Normal(r).mode = "source_built" /\ Normal(r).rest = r.rest /\ Normal(r).origin = r.origin
           /\ Normal(r).base = r.base /\ Normal(r).version = r.version
BY DEF Normal, Fields

\* A member's source is the record under its new key, if there is one.
LEMMA SourceIs ==
    ASSUME NEW g, GroupRead(g), NEW m \in g.listed
    PROVE  /\ \E k \in DOMAIN g.records : Source(g, m) = g.records[k]
           /\ Target(g, m) \in DOMAIN g.records => Source(g, m) = g.records[Target(g, m)]
           /\ Target(g, m) \notin DOMAIN g.records => Target(g, m).own = Source(g, m).origin
           /\ Target(g, m) \notin DOMAIN g.records => Key(m, ~Target(g, m).own) \notin DOMAIN g.records
<1> DEFINE D == DOMAIN g.records
           own == {k \in D : k.of = m}
           t == Target(g, m)
<1>1. \A k \in D : k = Key(k.of, k.own) /\ k.own \in BOOLEAN
  BY DEF GroupRead
<1>2. own = {Key(m, TRUE), Key(m, FALSE)} \cap D
  <2>1. \A k \in own : k \in {Key(m, TRUE), Key(m, FALSE)}
    BY <1>1
  <2>2. Key(m, TRUE).of = m /\ Key(m, FALSE).of = m
    BY KeysApart
  <2> QED BY <2>1, <2>2
<1>3. Source(g, m) = IF own = {} THEN g.records[g.first]
                     ELSE IF Key(m, FALSE) \in own THEN g.records[Key(m, FALSE)] ELSE g.records[Key(m, TRUE)]
  BY DEF Source
<1>4. g.first \in D
  BY DEF GroupRead
<1>5. t = Key(m, StillRenamed(g, m)) /\ StillRenamed(g, m) \in BOOLEAN
  BY DEF Target, StillRenamed
<1>6. t.of = m /\ t.own = StillRenamed(g, m)
  BY <1>5, KeysApart
<1>7. CASE Key(m, FALSE) \in D
  <2>1. ~StillRenamed(g, m) /\ Source(g, m) = g.records[Key(m, FALSE)]
    BY <1>2, <1>3, <1>7 DEF StillRenamed
  <2>2. t = Key(m, FALSE)
    BY <2>1, <1>5
  <2> QED BY <2>1, <2>2, <1>7
<1>8. CASE Key(m, FALSE) \notin D /\ Key(m, TRUE) \in D
  <2>1. StillRenamed(g, m) /\ Source(g, m) = g.records[Key(m, TRUE)]
    BY <1>2, <1>3, <1>8 DEF StillRenamed
  <2>2. t = Key(m, TRUE)
    BY <2>1, <1>5
  <2> QED BY <2>1, <2>2, <1>8
<1>9. CASE Key(m, FALSE) \notin D /\ Key(m, TRUE) \notin D
  <2>1. Source(g, m) = g.records[g.first]
    BY <1>2, <1>3, <1>9
  <2>2. StillRenamed(g, m) = Source(g, m).origin
    <3>1. Source(g, m).origin \in BOOLEAN
      BY <1>4, <2>1 DEF GroupRead
    <3>2. StillRenamed(g, m) <=> Source(g, m).origin
      BY <1>9 DEF StillRenamed
    <3> QED BY <3>1, <3>2, <1>5
  <2>3. t \notin D /\ Key(m, ~t.own) \notin D
    BY <1>5, <1>6, <1>9
  <2> QED BY <2>1, <2>2, <2>3, <1>4, <1>6
<1> QED BY <1>7, <1>8, <1>9

\* What is written for a member.
LEMMA CreatedIs ==
    ASSUME NEW g, GroupRead(g), NEW m \in g.listed
    PROVE  Rewrites(g, m, Created(g, m), Source(g, m))
<1> DEFINE s == Source(g, m)
           n == Normal(s)
<1>1. s = [f \in Fields |-> s[f]] /\ s.mode \in {"legacy", "source_built"}
  <2>1. PICK k \in DOMAIN g.records : s = g.records[k]
    BY SourceIs
  <2> QED BY <2>1 DEF GroupRead
<1> HIDE DEF s
<1>2. /\ n = [f \in Fields |-> n[f]] /\ n.mode = "source_built" /\ n.rest = s.rest /\ n.origin = s.origin
  BY <1>1, NormalIs
<1>3. Created(g, m) = [n EXCEPT !.version = "now",
                               !.base = IF ~StillRenamed(g, m) THEN "stock" ELSE IF @ # Variable THEN @ ELSE "own"]
  BY DEF Created, s
<1> HIDE DEF n
<1>4. /\ Created(g, m).version = "now" /\ Created(g, m).base # Variable
      /\ Created(g, m).mode = n.mode /\ Created(g, m).rest = n.rest /\ Created(g, m).origin = n.origin
  BY <1>2, <1>3 DEF Fields, Variable
<1> QED BY <1>2, <1>4 DEF Rewrites, s

(***************************************************************************)
(* THEOREM RepairLosesNothing: after state repair the records still say    *)
(* what they said besides the version, of the same packages; a renamed one *)
(* stays renamed, every member has one, and no variable is left, for any   *)
(* group of records and members.                                           *)
(***************************************************************************)
THEOREM RepairLosesNothing ==
    ASSUME NEW g, GroupRead(g)
    PROVE  Keeps(g, Repaired(g))
<1> DEFINE old == g.records
           new == Repaired(g)
           targets == {Target(g, m) : m \in g.listed}
<1>a. \A k \in DOMAIN old : old[k] = [f \in Fields |-> old[k][f]] /\ old[k].mode \in {"legacy", "source_built"}
  BY DEF GroupRead
<1>b. \A k \in DOMAIN old : k = Key(k.of, k.own) /\ k.own \in BOOLEAN
  BY DEF GroupRead
<1>c. \A k \in DOMAIN old : k.of # Variable => (k.own <=> old[k].origin)
  BY DEF GroupRead
<1>d. Variable \notin g.listed
  BY DEF GroupRead
<1>1. Skipped(g) <=> g.listed = {}
  BY DEF Skipped, GroupRead
<1>2. \A k \in DOMAIN old : /\ Normal(old[k]).mode = "source_built" /\ Normal(old[k]).rest = old[k].rest
                           /\ Normal(old[k]).base = old[k].base /\ Normal(old[k]).version = old[k].version
  <2> SUFFICES ASSUME NEW k \in DOMAIN old
               PROVE  /\ Normal(old[k]).mode = "source_built" /\ Normal(old[k]).rest = old[k].rest
                      /\ Normal(old[k]).base = old[k].base /\ Normal(old[k]).version = old[k].version
    OBVIOUS
  <2>1. old[k] = [f \in Fields |-> old[k][f]] /\ old[k].mode \in {"legacy", "source_built"}
    BY <1>a
  <2> HIDE DEF old
  <2> QED BY <2>1, NormalIs
<1>3. CASE g.listed = {}
  <2>1. new = [k \in DOMAIN old |-> Normal(old[k])]
    BY <1>1, <1>3 DEF Repaired
  <2> HIDE DEF new
  <2>2. Keeps(g, new)
    BY <2>1, <1>2, <1>3 DEF Keeps
  <2> QED BY <2>2 DEF new
<1>4. CASE g.listed # {}
  <2>1. new = [k \in targets \cup Kept(g) |-> IF k \in targets THEN Created(g, k.of) ELSE Normal(old[k])]
    BY <1>1, <1>4 DEF Repaired
  <2> HIDE DEF new
  <2>2. \A k \in targets : k.of \in g.listed /\ k = Target(g, k.of) /\ k.own \in BOOLEAN /\ k = Key(k.of, k.own)
    <3> SUFFICES ASSUME NEW m \in g.listed
                 PROVE  LET k == Target(g, m) IN k.of = m /\ k.own \in BOOLEAN /\ k = Key(k.of, k.own)
      OBVIOUS
    <3>1. StillRenamed(g, m) \in BOOLEAN
      BY DEF StillRenamed
    <3>2. Target(g, m) = Key(m, StillRenamed(g, m))
      BY DEF Target
    <3> QED BY <3>1, <3>2, KeysApart
  <2> HIDE DEF targets
  <2>3. \A k \in targets : new[k] = Created(g, k.of) /\ Rewrites(g, k.of, new[k], Source(g, k.of))
    BY <2>1, <2>2, CreatedIs
  <2>4. DOMAIN new = targets \cup Kept(g) /\ \A k \in Kept(g) \ targets : new[k] = Normal(old[k])
    BY <2>1
  <2>5. Kept(g) \subseteq DOMAIN old /\ \A k \in Kept(g) : ~Broken(g, k) /\ old[k].origin
    BY DEF Kept
  <2>6. \A k \in DOMAIN new : new[k].mode = "source_built"
    BY <2>3, <2>4, <2>5, <1>2 DEF Rewrites
  <2>7. ASSUME NEW k \in DOMAIN old \cap DOMAIN new PROVE new[k].rest = old[k].rest
    <3>1. CASE k \in targets
      <4>1. k = Target(g, k.of) /\ k.of \in g.listed
        BY <3>1, <2>2
      <4>2. Source(g, k.of) = old[k]
        BY <4>1, <2>7, SourceIs
      <4> QED BY <4>2, <3>1, <2>3 DEF Rewrites
    <3>2. CASE k \notin targets
      BY <3>2, <2>4, <2>5, <2>7, <1>2
    <3> QED BY <3>1, <3>2
  <2>8. ASSUME NEW k \in DOMAIN old, old[k].origin, k.of # Variable,
               ~(k.own /\ Key(k.of, FALSE) \in DOMAIN old /\ Broken(g, k)), k.of \in g.listed \/ ~Broken(g, k)
        PROVE  k \in DOMAIN new
    <3>1. CASE ~Broken(g, k)
      BY <3>1, <2>4, <2>8 DEF Kept
    <3>2. CASE Broken(g, k)
      <4>1. k.of \in g.listed /\ k.own /\ k = Key(k.of, TRUE) /\ Key(k.of, FALSE) \notin DOMAIN old
        <5>1. k = Key(k.of, k.own) /\ k.own \in BOOLEAN /\ k.own
          BY <2>8, <1>b, <1>c
        <5>2. k.own = TRUE
          BY <5>1
        <5> QED BY <5>1, <5>2, <3>2, <2>8
      <4>2. Target(g, k.of) = k
        BY <4>1 DEF Target, StillRenamed
      <4>3. k \in targets
        BY <4>1, <4>2 DEF targets
      <4> QED BY <4>3, <2>4
    <3> QED BY <3>1, <3>2
  <2>9. ASSUME NEW k \in DOMAIN new \ DOMAIN old
        PROVE  k.own = new[k].origin /\ Key(k.of, ~k.own) \notin DOMAIN old
    <3>1. k \in targets
      BY <2>4, <2>5, <2>9
    <3>2. k = Target(g, k.of) /\ k.of \in g.listed
      BY <3>1, <2>2
    <3>3. k.own = Source(g, k.of).origin /\ Key(k.of, ~k.own) \notin DOMAIN old
      BY <3>2, <2>9, SourceIs
    <3> QED BY <3>1, <3>3, <2>3 DEF Rewrites
  <2>10. ASSUME NEW m \in g.listed PROVE \E k \in DOMAIN new : k.of = m
    <3>1. Target(g, m) \in targets /\ Target(g, m).of = m
      BY KeysApart DEF targets, Target
    <3> QED BY <3>1, <2>4
  <2>11. ASSUME NEW k \in DOMAIN new PROVE ~Broken([records |-> new], k)
    <3>1. CASE k \in targets
      <4>1. k.of # Variable
        BY <3>1, <2>2, <1>d
      <4> QED BY <4>1, <3>1, <2>3 DEF Rewrites, Broken, Variable
    <3>2. CASE k \notin targets
      <4>1. k \in Kept(g) /\ k \in DOMAIN old /\ ~Broken(g, k) /\ new[k] = Normal(old[k])
        BY <3>2, <2>4, <2>5, <2>11
      <4> QED BY <4>1, <1>2 DEF Broken
    <3> QED BY <3>1, <3>2
  <2>12. Keeps(g, new)
    BY <1>4, <2>6, <2>7, <2>8, <2>9, <2>10, <2>11 DEF Keeps
  <2> QED BY <2>12 DEF new
<1> QED BY <1>3, <1>4
-----------------------------------------------------------------------------
(***************************************************************************)
(* THEOREM RepairsKeep: whatever groups of records state repair is asked   *)
(* to rewrite, it loses nothing that a later verb acts on.                 *)
(***************************************************************************)
THEOREM RepairsKeep ==
    ASSUME NEW Groups, \A g \in Groups : GroupRead(g)
    PROVE  Posed("repair", Groups) /\ [][ComputeRepair]_question => []RepairKeeps
<1> DEFINE IInv == input \in Groups /\ (computed => output = Repaired(input))
<1>1. Posed("repair", Groups) => IInv
  BY DEF Posed
<1>2. IInv /\ [ComputeRepair]_question => IInv'
  BY DEF ComputeRepair, Answer, question
<1>3. IInv => RepairKeeps
  BY RepairLosesNothing DEF RepairKeeps, Answered
<1> QED BY <1>1, <1>2, <1>3, PTL
=============================================================================

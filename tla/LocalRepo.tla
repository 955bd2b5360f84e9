----------------------------- MODULE LocalRepo ------------------------------
(***************************************************************************)
(* The sandbox's local pacman repo (local_repo.py): the packages that only *)
(* this host can provide, published for the containers.  One package is    *)
(* followed, with the versions it had; its builds are told apart by their  *)
(* number, which stands for the file's contents and its checksum (a build  *)
(* at the same version is another file of the same name, as _same_file     *)
(* says).  One process runs at a time: it syncs before its first container *)
(* and builds and installs more before the containers after that.          *)
(***************************************************************************)
EXTENDS Naturals

CONSTANTS Versions, MaxMade, Missing

ASSUME MissingApart == Missing \notin Versions \cup Nat /\ Missing \notin [v : Versions, sum : Nat]

VARIABLES
    made,           \* builds so far
    dest,           \* [Versions -> the build of the artifact in PKGDEST] or Missing
    host,           \* the version the host runs, or Missing
    own,            \* the package is in no stock repo, or sysforge built it
    file,           \* [Versions -> the build of the file in the repo] or Missing
    db,             \* the repo's entry: a version and a checksum, or Missing
    pc,             \* where the sync of this process is
    torn,           \* a sync ended between the file and its entry
    mirrored        \* what the host ran, of its own, when this process synced

repoVars == <<made, dest, host, own, file, db, pc, torn, mirrored>>

InitRepo ==
    /\ made = 0 /\ dest = [v \in Versions |-> Missing] /\ host = Missing /\ own = TRUE
    /\ file = [v \in Versions |-> Missing] /\ db = Missing /\ pc = "start" /\ torn = FALSE
    /\ mirrored = Missing

(* Builds, installs, pruning: before this process syncs and, because it     *)
(* syncs once (_synced), after that: a batch installs what a later member   *)
(* needs between two containers, and the sync of the second one is a no-op. *)
World == pc \in {"start", "synced"} /\ UNCHANGED <<file, db, pc, torn, mirrored>>

Build(v) == World /\ made < MaxMade /\ made' = made + 1 /\ dest' = [dest EXCEPT ![v] = made + 1] /\ UNCHANGED <<host, own>>
Prune(v) == World /\ dest[v] # Missing /\ dest' = [dest EXCEPT ![v] = Missing] /\ UNCHANGED <<made, host, own>>
Install(v) == World /\ dest[v] # Missing /\ host' = v /\ UNCHANGED <<made, dest, own>>
Uninstall == World /\ host # Missing /\ host' = Missing /\ UNCHANGED <<made, dest, own>>
Owned == World /\ own' = ~own /\ UNCHANGED <<made, dest, host>>

-----------------------------------------------------------------------------
(* sync, at the process's first container.                                  *)

\* Mutant: the newest artifact of a package that is installed is published.
DesiredNewest ==
    IF own /\ host # Missing /\ \E v \in Versions : dest[v] # Missing
    THEN CHOOSE v \in Versions : dest[v] # Missing /\ \A w \in Versions : dest[w] # Missing => w <= v
    ELSE Missing

(* Only the version the host runs is published, of what PKGDEST holds.      *)
Desired == IF own /\ host # Missing /\ dest[host] # Missing THEN host ELSE Missing

(* Pruned, but the repo has the build the host runs: its last copy.         *)
KeptInRepo == own /\ host # Missing /\ dest[host] = Missing
              /\ db # Missing /\ db.v = host /\ file[host] # Missing

Published(v) == db # Missing /\ db.v = v /\ file[v] = dest[v]
ToAdd == Desired # Missing /\ ~Published(Desired)
ToRemove == db # Missing /\ Desired = Missing /\ ~KeptInRepo

Link ==
    /\ pc = "start"
    /\ \/ ToAdd /\ file' = [file EXCEPT ![Desired] = dest[Desired]] /\ pc' = "add"
       \/ ~ToAdd /\ ToRemove /\ pc' = "remove" /\ UNCHANGED file
       \/ ~ToAdd /\ ~ToRemove /\ pc' = "synced" /\ UNCHANGED file
    /\ mirrored' = IF own THEN host ELSE Missing
    /\ UNCHANGED <<made, dest, host, own, db, torn>>

(* repo-add reads the file for its checksum.                                *)
Add ==
    /\ pc = "add"
    /\ db' = [v |-> Desired, sum |-> file[Desired]]
    /\ pc' = IF db # Missing /\ db.v # Desired THEN "drop" ELSE "synced"
    /\ file' = file /\ torn' = FALSE
    /\ UNCHANGED <<made, dest, host, own, mirrored>>

(* What the entry named before goes, unless it is the file just linked.     *)
Drop ==
    /\ pc = "drop" /\ pc' = "synced"
    /\ file' = [v \in Versions |-> IF v = db.v THEN file[v] ELSE Missing]
    /\ UNCHANGED <<made, dest, host, own, db, torn, mirrored>>

Unpublish ==
    /\ pc = "remove" /\ pc' = "synced"
    /\ db' = Missing /\ file' = [file EXCEPT ![db.v] = Missing]
    /\ UNCHANGED <<made, dest, host, own, torn, mirrored>>

(* The process ends; or is killed, or a tool fails, and its build refuses.  *)
EndSync ==
    /\ pc # "start" /\ pc' = "start"
    /\ torn' = (torn \/ pc = "add") /\ mirrored' = Missing
    /\ UNCHANGED <<made, dest, host, own, file, db>>

NextRepo ==
    \/ \E v \in Versions : Build(v) \/ Prune(v) \/ Install(v)
    \/ Uninstall \/ Owned \/ Link \/ Add \/ Drop \/ Unpublish \/ EndSync

RepoSpec == InitRepo /\ [][NextRepo]_repoVars

-----------------------------------------------------------------------------
(* Every container of a run gets the version this host ran, of its own,     *)
(* when the run synced, or none of ours, whatever the run has built, pruned *)
(* or installed since; and the entry's file is there and is the one it was  *)
(* made of.  A sync that ended between the file and its entry is not        *)
(* noticed by the next: the file is the right one, the checksum is not.     *)
PublishedIsInstalled ==
    pc = "synced" /\ db # Missing =>
        /\ db.v = mirrored
        /\ file[db.v] # Missing
        /\ torn \/ file[db.v] = db.sum
=============================================================================

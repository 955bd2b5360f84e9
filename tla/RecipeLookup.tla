---------------------------- MODULE RecipeLookup ----------------------------
(***************************************************************************)
(* Finding the PKGBUILD of a name (primitives/config.py find_pkgbuild,      *)
(* primitives/build_prep.py pkgctl_checkout, primitives/aur.py aur_clone)   *)
(* and the fetch verb (fetch.py).  A directory of that name is taken as it  *)
(* is; without one the packaging repository is cloned, from the AUR under   *)
(* the name of its pkgbase, over whatever a killed clone left there.        *)
(***************************************************************************)
EXTENDS Naturals

CONSTANTS
    MaxLookups,     \* lookups, over all processes
    Unasked         \* the scheduler has no answer yet

ASSUME UnaskedApart == Unasked \notin {"cloned", "failed", "refused", "frozen"}

Dirs == {"name", "base"}

VARIABLES
    target,         \* [kind, split]: from the "repo" or the "aur"; split: its pkgbase has another name
    at,             \* what lies in the directory of the name, and of the pkgbase:
                    \* "absent", "leftover" (.git alone), "half" (a git tree without its PKGBUILD),
                    \* "debris" (no git tree), "checkout", "edited"
    process,        \* [cleansrc, force, frozen] of the one that runs
    phase,          \* "off", "idle", "routing", "found", "missing", "done"
    cached,         \* the scheduler's answer for the pkgbase in this process
    before,         \* at, when the lookup began
    answered,       \* every request of this process was answered
    lookups

lookupVars == <<target, at, process, phase, cached, before, answered, lookups>>

Has(dir) == at[dir] \in {"checkout", "edited"}

InitLookup ==
    /\ target \in [kind : {"repo", "aur"}, split : BOOLEAN]
    /\ at = [d \in Dirs |-> "absent"] /\ before = at
    /\ process = [cleansrc |-> FALSE, force |-> FALSE, frozen |-> FALSE]
    /\ phase = "off" /\ cached = Unasked /\ answered = TRUE /\ lookups = 0

-----------------------------------------------------------------------------
(* Where it is cloned to, and from.                                        *)

\* Mutant: the AUR is asked for the repository of the name.
NameAsBase == "name"

\* The AUR's record of a name has its pkgbase.
PackageBase == IF target.split THEN "base" ELSE "name"

\* The AUR answers an unknown repository with an empty one; Arch's GitLab does not.
HasRepository(kind, base) == kind = target.kind /\ base = IF target.split THEN "base" ELSE "name"

\* purge_src: a tree with something of the user in it stays.
Protected(dir) == at[dir] \in {"half", "edited"} /\ ~process.force

Ends(result, dir, is, heard) ==
    /\ phase' = result /\ at' = [at EXCEPT ![dir] = is]
    /\ answered' = (answered /\ heard)

(* git clone, twice for a timeout or an error that may pass; what it leaves *)
(* behind is removed.                                                       *)
AurClone(base, dir) ==
    \/ /\ HasRepository("aur", base)
       /\ Ends("found", dir, "checkout", TRUE) /\ cached' = "cloned"
    \/ /\ ~HasRepository("aur", base)
       /\ Ends("missing", dir, "absent", TRUE) /\ cached' = "failed"
    \/ Ends("missing", dir, "absent", FALSE) /\ cached' = "failed"

-----------------------------------------------------------------------------
(* A lookup.                                                               *)

BeginLookup ==
    /\ phase = "off"
    /\ \E c, f, z \in BOOLEAN :
          (f => c) /\ process' = [cleansrc |-> c, force |-> f, frozen |-> z]
    /\ phase' = "idle" /\ cached' = Unasked /\ answered' = TRUE
    /\ UNCHANGED <<target, at, before, lookups>>

Look ==
    /\ phase \in {"idle", "found", "missing", "done"} /\ lookups < MaxLookups
    /\ phase' = IF Has("name") THEN "found" ELSE "routing"
    /\ before' = at /\ lookups' = lookups + 1
    /\ UNCHANGED <<target, at, process, cached, answered>>

\* A name in a sync database: no scheduler, no pkgbase, one attempt.
RepoRoute ==
    /\ phase = "routing" /\ target.kind = "repo"
    /\ IF process.frozen THEN Ends("missing", "name", at["name"], FALSE)
       ELSE \/ at["name"] \in {"half", "debris"} /\ Ends("missing", "name", at["name"], TRUE)
            \/ /\ at["name"] \in {"absent", "leftover"}
               /\ \/ HasRepository("repo", "name") /\ Ends("found", "name", "checkout", TRUE)
                  \/ ~HasRepository("repo", "name") /\ Ends("missing", "name", "absent", TRUE)
                  \/ Ends("missing", "name", "absent", FALSE)
    /\ UNCHANGED <<target, process, cached, before, lookups>>

\* The scheduler, asked for a recipe that is not there.
Synced(dir) ==
    IF cached # Unasked THEN Ends("missing", dir, at[dir], TRUE) /\ UNCHANGED cached
    ELSE IF Protected(dir) THEN Ends("missing", dir, at[dir], TRUE) /\ cached' = "refused"
    ELSE IF process.frozen THEN Ends("missing", dir, IF process.cleansrc THEN at[dir] ELSE "absent", FALSE)
                             /\ cached' = "frozen"
    ELSE AurClone(dir, dir)

\* The AUR's answer, empty for a name it has not and for one it did not get.
NoInfo == Ends("missing", "name", at["name"], FALSE) /\ UNCHANGED cached

AurRoute ==
    /\ phase = "routing" /\ target.kind = "aur"
    /\ \/ NoInfo
       \/ IF Has(PackageBase) THEN Ends("found", PackageBase, at[PackageBase], TRUE) /\ UNCHANGED cached
          ELSE Synced(PackageBase)
    /\ UNCHANGED <<target, process, before, lookups>>

\* fetch --cleansrc: once more through the scheduler, and as a package of the AUR.
Refetch ==
    LET dir == IF Has("name") THEN "name" ELSE "base"
    IN  /\ phase = "found" /\ process.cleansrc
        /\ IF cached # Unasked \/ process.frozen \/ Protected(dir)
           THEN Ends("done", dir, at[dir], TRUE)
                /\ cached' = IF cached = Unasked THEN "refused" ELSE cached
           ELSE AurClone(PackageBase, dir)
        /\ UNCHANGED <<target, process, before, lookups>>

-----------------------------------------------------------------------------
(* A kill, which leaves of a clone or of its removal what it had done, and  *)
(* the user.                                                                *)

\* The directory that is being removed and cloned.
Working(dir) ==
    /\ ~process.frozen /\ ~Protected(dir)
    /\ CASE phase = "routing" -> IF target.kind = "aur" THEN dir = PackageBase /\ ~Has(dir)
                                 ELSE dir = "name" /\ at[dir] # "debris"
         [] phase = "found" -> process.cleansrc /\ cached = Unasked /\ Has(dir)
         [] OTHER -> FALSE

KilledLookup ==
    /\ phase # "off" /\ phase' = "off"
    /\ \/ UNCHANGED at
       \/ \E dir \in Dirs, rest \in {"absent", "leftover", "half", "debris", "checkout"} :
             Working(dir) /\ at' = [at EXCEPT ![dir] = rest]
    /\ UNCHANGED <<target, process, cached, before, answered, lookups>>

Leave == phase \in {"idle", "found", "missing", "done"} /\ phase' = "off"
         /\ UNCHANGED <<target, at, process, cached, before, answered, lookups>>

ByUser ==
    /\ phase = "off"
    /\ \E d \in Dirs, to \in {"absent", "debris", "half", "edited", "checkout"} :
          /\ CASE to = "absent" -> TRUE [] to = "debris" -> at[d] = "absent"
               [] to = "checkout" -> at[d] = "edited" [] OTHER -> at[d] = "checkout"
          /\ at' = [at EXCEPT ![d] = to]
    /\ UNCHANGED <<target, process, phase, cached, before, answered, lookups>>

NextLookup == BeginLookup \/ Look \/ RepoRoute \/ AurRoute \/ Refetch \/ KilledLookup \/ Leave \/ ByUser

LookupSpec == InitLookup /\ [][NextLookup]_lookupVars

-----------------------------------------------------------------------------
(* Properties.                                                             *)

(* A name that has a recipe is found by every lookup whose requests are     *)
(* answered, whatever earlier clones left behind, unless a git tree with    *)
(* changes but no PKGBUILD is in the way.  Two things of repo packages fail *)
(* too: another name than the pkgbase's, and a directory that is no git     *)
(* tree (find_pkgbuild, pkgctl_checkout); and fetch --cleansrc of one       *)
(* removes the checkout and then asks the AUR for it (cmd_fetch).           *)
LookupFinds ==
    phase = "missing" /\ answered =>
        \/ \E d \in Dirs : before[d] = "half"
        \/ target.kind = "repo" /\ (target.split \/ before["name"] = "debris" \/ process.cleansrc)
=============================================================================

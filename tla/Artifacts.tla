----------------------------- MODULE Artifacts -----------------------------
(***************************************************************************)
(* A file of the operator's that sysforge manages (primitives/artifacts.py, *)
(* verbs/artifact.py): the live file, the managed copy, and the entry of    *)
(* the registry with the hashes of the copy and of what was deployed last.  *)
(* The operator writes to the live file at any time, and edits the copy     *)
(* from a second terminal; a verb can be killed between any two writes.     *)
(***************************************************************************)
EXTENDS Naturals

CONSTANTS Nothing, MaxWrites  \* a hash is the version it is of; writes by hand

ASSUME NothingApart == Nothing \notin [auth : Nat \cup {Nothing}, deployed : Nat \cup {Nothing}]

VARIABLES
    live,     \* the version at the destination, or Nothing
    hidden,   \* it is there, but not readable without sudo
    managed,  \* the version of the managed copy
    entry,    \* the registry's entry: auth and deployed
    ignored,  \* the version declined in a review
    verb,     \* the verb that is running
    editing,  \* the editor is open on the managed copy
    written,  \* how many versions were written by hand
    kept,     \* ghost: versions that the managed copy has ever been
    leak      \* ghost: the copy was changed and nobody hashed it
fileVars == <<live, hidden, managed, entry, ignored, verb, editing, written, kept, leak>>

IdleVerb == [pc |-> "idle"]
Doing(f) == verb.pc = f

InitFile ==
    /\ live = 1 /\ hidden = FALSE /\ managed = Nothing /\ entry = Nothing /\ ignored = Nothing
    /\ verb = IdleVerb /\ editing = FALSE /\ written = 1 /\ kept = {} /\ leak = FALSE

\* What can be read of the live file; what cannot counts as absent.
Seen == IF hidden THEN Nothing ELSE live

\* Mutant: a copy that was edited is pending, whatever happened to the file.
StatusPending(r, seen) ==
    CASE seen = Nothing                          -> "missing"
      [] r.auth # r.deployed                  -> "pending"
      [] r.auth = r.deployed /\ seen = r.auth -> "ok"
      [] OTHER                                -> "drifted"

\* The three-way comparison: which side moved since the last deploy.
Status(r, seen) ==
    CASE seen = Nothing                                       -> "missing"
      [] seen # Nothing /\ r.deployed = Nothing /\ seen = r.auth -> "ok"
      [] seen # Nothing /\ r.deployed = Nothing /\ seen # r.auth -> "conflict"
      [] OTHER -> IF seen = r.deployed
                  THEN IF r.auth = r.deployed THEN "ok" ELSE "pending"
                  ELSE IF r.auth = r.deployed THEN "drifted" ELSE "conflict"

-----------------------------------------------------------------------------
(* The operator                                                            *)

\* The live file is written, removed or hidden by hand.
Touch ==
    /\ \/ written < MaxWrites /\ live' = written + 1 /\ written' = written + 1 /\ hidden' = FALSE
       \/ live # Nothing /\ live' = Nothing /\ hidden' = FALSE /\ UNCHANGED written
       \/ live # Nothing /\ ~hidden /\ hidden' = TRUE /\ UNCHANGED <<live, written>>
    /\ verb' = IF Doing("idle") THEN verb ELSE [verb EXCEPT !.raced = TRUE]
    /\ UNCHANGED <<managed, entry, ignored, editing, kept, leak>>

(* artifact edit, whose sentinel-free scope keeps no other verb away.      *)
OpenEditor ==
    /\ entry # Nothing /\ ~editing /\ written < MaxWrites
    /\ editing' = TRUE /\ managed' = written + 1 /\ written' = written + 1
    /\ kept' = kept \cup {managed'}
    /\ UNCHANGED <<live, hidden, entry, ignored, verb, leak>>

(* The editor ends: only an exit code of 0 has the copy hashed again.      *)
Rehash == entry' = [entry EXCEPT !.auth = managed]
CloseEditor ==
    /\ editing /\ editing' = FALSE
    /\ \/ entry # Nothing /\ managed # Nothing /\ Rehash /\ leak' = FALSE
       \/ UNCHANGED entry /\ leak' = TRUE
    /\ UNCHANGED <<live, hidden, managed, ignored, verb, written, kept>>

-----------------------------------------------------------------------------
(* artifact adopt, and review, which offers what is neither managed nor    *)
(* declined as it is, and may decline it.                                  *)

Offered == entry = Nothing /\ Seen # Nothing /\ ignored # Seen

Adopt ==
    /\ Doing("idle") /\ entry = Nothing /\ Seen # Nothing
    /\ managed' = live /\ kept' = kept \cup {live}
    /\ verb' = [pc |-> "adopt", force |-> FALSE, data |-> live, raced |-> FALSE]
    /\ UNCHANGED <<live, hidden, entry, ignored, editing, written, leak>>

Register ==
    /\ Doing("adopt")
    /\ entry' = [auth |-> verb.data, deployed |-> verb.data] /\ leak' = FALSE
    /\ verb' = IdleVerb
    /\ UNCHANGED <<live, hidden, managed, ignored, editing, written, kept>>

(* Declined until it changes; a file that is gone is forgotten.            *)
Ignore ==
    /\ Doing("idle") /\ Offered /\ ignored' = Seen
    /\ UNCHANGED <<live, hidden, managed, entry, verb, editing, written, kept, leak>>
Forget ==
    /\ live = Nothing /\ ignored # Nothing /\ ignored' = Nothing
    /\ UNCHANGED <<live, hidden, managed, entry, verb, editing, written, kept, leak>>

-----------------------------------------------------------------------------
(* artifact deploy: the copy to the live file.                             *)

Declines(status, force, adopt) ==
    \/ adopt /\ status \in {"pending", "missing"}
    \/ status \in {"drifted", "conflict"} /\ ~force /\ ~adopt

StartDeploy ==
    /\ Doing("idle") /\ entry # Nothing
    /\ \E force, adopt \in BOOLEAN :
          LET status == Status(entry, Seen)
          IN  /\ ~(force /\ adopt) /\ ~Declines(status, force, adopt)
              /\ verb' = [pc |-> IF adopt THEN "absorb" ELSE "read", force |-> force,
                          sure |-> status = "ok" /\ ~adopt, data |-> Nothing, raced |-> FALSE]
    /\ UNCHANGED <<live, hidden, managed, entry, ignored, editing, written, kept, leak>>

(* --adopt-live: the live file into the copy, and its hash into the entry.   *)
Absorb ==
    /\ Doing("absorb")
    /\ IF Seen = Nothing THEN verb' = IdleVerb /\ UNCHANGED <<managed, kept>>
       ELSE managed' = live /\ kept' = kept \cup {live} /\ verb' = [verb EXCEPT !.pc = "rehash"]
    /\ UNCHANGED <<live, hidden, entry, ignored, editing, written, leak>>
AbsorbHash ==
    /\ Doing("rehash") /\ Rehash /\ leak' = FALSE
    /\ verb' = [verb EXCEPT !.pc = "read"]
    /\ UNCHANGED <<live, hidden, managed, ignored, editing, written, kept>>

ReadCopy ==
    /\ Doing("read")
    /\ verb' = IF managed = Nothing \/ verb.sure THEN IdleVerb ELSE [verb EXCEPT !.pc = "write", !.data = managed]
    /\ UNCHANGED <<live, hidden, managed, entry, ignored, editing, written, kept, leak>>

WriteLive ==
    /\ Doing("write")
    /\ live' = verb.data /\ hidden' = FALSE
    /\ verb' = [verb EXCEPT !.pc = "save"]
    /\ UNCHANGED <<managed, entry, ignored, editing, written, kept, leak>>

\* Mutant: the hash of the copy is the one of the entry.
DeployedKeepsHash(r, data) == [auth |-> r.auth, deployed |-> data]

(* The entry is read again, and gets the hash of what was written.           *)
Deployed(r, data) == [auth |-> data, deployed |-> data]
Save ==
    /\ Doing("save") /\ entry' = Deployed(entry, verb.data)
    /\ leak' = (managed # verb.data)
    /\ verb' = IdleVerb
    /\ UNCHANGED <<live, hidden, managed, ignored, editing, written, kept>>

-----------------------------------------------------------------------------
(* artifact remove: the live file, and with --purge the copy and the entry.  *)
(* The entry is saved as it was read.                                        *)

StartRemove ==
    /\ Doing("idle") /\ entry # Nothing
    /\ \E force, purge \in BOOLEAN :
          /\ ~Declines(Status(entry, Seen), force, FALSE)
          /\ verb' = [pc |-> "rm", force |-> force, purge |-> purge, auth |-> entry.auth, raced |-> FALSE]
    /\ UNCHANGED <<live, hidden, managed, entry, ignored, editing, written, kept, leak>>

RemoveLive ==
    /\ Doing("rm") /\ live' = Nothing /\ hidden' = FALSE
    /\ verb' = [verb EXCEPT !.pc = IF verb.purge THEN "unlink" ELSE "drop"]
    /\ UNCHANGED <<managed, entry, ignored, editing, written, kept, leak>>
Unlink ==
    /\ Doing("unlink") /\ managed' = Nothing
    /\ verb' = [verb EXCEPT !.pc = "drop"]
    /\ UNCHANGED <<live, hidden, entry, ignored, editing, written, kept, leak>>
DropEntry ==
    /\ Doing("drop")
    /\ entry' = IF verb.purge THEN Nothing ELSE [auth |-> verb.auth, deployed |-> Nothing]
    /\ leak' = (~verb.purge /\ (leak \/ entry.auth # verb.auth))
    /\ verb' = IdleVerb
    /\ UNCHANGED <<live, hidden, managed, ignored, editing, written, kept>>

(* A kill, or a sudo command that fails, between two writes.               *)
Killed ==
    /\ ~Doing("idle") /\ verb' = IdleVerb
    /\ leak' = (leak \/ Doing("rehash") \/ (Doing("drop") /\ verb.purge))
    /\ UNCHANGED <<live, hidden, managed, entry, ignored, editing, written, kept>>

NextFile ==
    \/ Touch \/ OpenEditor \/ CloseEditor \/ Adopt \/ Register \/ Ignore \/ Forget
    \/ StartDeploy \/ Absorb \/ AbsorbHash \/ ReadCopy \/ WriteLive \/ Save
    \/ StartRemove \/ RemoveLive \/ Unlink \/ DropEntry \/ Killed

FileSpec == InitFile /\ [][NextFile]_fileVars

-----------------------------------------------------------------------------
(* Nothing the operator wrote to the live file is overwritten or removed   *)
(* without --force before the managed copy had it (deploy and remove       *)
(* refuse), through kills between any two of their writes and any sequence *)
(* of edits on both sides.  A file that cannot be read counts as absent,   *)
(* and one written after the status was computed is not looked at again.   *)
Overwrites(to) == verb.pc \in {"write", "rm"} /\ to # live /\ ~verb.force /\ ~verb.raced /\ ~hidden
LiveKept(to) == Overwrites(to) => live \in kept \cup {Nothing}

(* An edit of the copy is never invisible: while nothing runs, the entry    *)
(* has the copy's hash, so that status_of tells what deploy would write.    *)
(* The exceptions: an editor that failed after it wrote, an edit overtaken  *)
(* by the entry of a deploy or removal that began before it, and a kill     *)
(* between the copy and its hash.                                           *)
CopyIsHashed == Doing("idle") /\ ~editing /\ entry # Nothing /\ ~leak => entry.auth = managed

(* No edit is lost on either side: of the live file, or of the copy.        *)
EditsKept == [][LiveKept(live') /\ CopyIsHashed']_fileVars
=============================================================================

--------------------------- MODULE PackagesStage ---------------------------
(***************************************************************************)
(* The packages stage (pipeline/stages/packages.py) over its progress in   *)
(* pipeline_state.toml (primitives/pipeline_state.py), as `run packages'   *)
(* starts it.  A process works on the copy of the file it loaded and saves *)
(* the whole copy after every outcome; only its build loop is under the    *)
(* stage lock, while its prompt and its first saves are not.               *)
(*                                                                         *)
(* Packages are their positions in packages.toml.  The lists of the file   *)
(* are sets: the loop walks the manifest, so their order is never used.    *)
(* Each step is one read or write of the file, of the lock, or of the      *)
(* system.  The record left by an interrupted scope is StageSentinel's.    *)
(***************************************************************************)
EXTENDS Integers

CONSTANTS
    N,         \* packages 1 .. N may be listed
    Proc,      \* the processes that may run the stage at once
    None,      \* no holder of the stage lock
    Other,     \* a holder that runs another verb: the lock is the same for all
    BareKey,   \* the packages whose name is a bare key of TOML
    Edits      \* is packages.toml edited between runs?

Package == 1 .. N

ASSUME NIsNatural == N \in Nat
ASSUME NoneIsNoProc == None \notin Proc
ASSUME OtherIsNoProc == Other \notin Proc \cup {None}
ASSUME BareKeyTyped == BareKey \subseteq Package
ASSUME EditsTyped == Edits \in BOOLEAN

Progress == [status    : {"pending", "running", "done", "failed"},
             built     : SUBSET Package,
             failed    : SUBSET Package,
             skipped   : SUBSET Package,
             remaining : SUBSET Package,
             errors    : SUBSET Package]  \* the packages with an error on file

VARIABLES
    manifest,  \* the packages listed in packages.toml
    disk,      \* the entry of the stage in pipeline_state.toml
    lock,      \* the process inside sentinel_scope
    installed, \* the packages whose installation succeeded at some time
    pc,        \* where each process is
    mem,       \* its copy of the entry
    retry,     \* its retry_set
    pos        \* the package its loop is at

vars == <<manifest, disk, lock, installed, pc, mem, retry, pos>>

Loop == {"deps", "loop", "building", "installed"}   \* inside sentinel_scope
PCs  == Loop \cup {"idle", "gated", "loaded", "init", "prompt", "scope",
                   "report", "returned", "raised"}

TypeOK ==
    /\ manifest \in SUBSET Package
    /\ disk \in Progress
    /\ lock \in Proc \cup {None, Other}
    /\ installed \in SUBSET Package
    /\ pc \in [Proc -> PCs]
    /\ mem \in [Proc -> Progress]
    /\ retry \in [Proc -> SUBSET Package]
    /\ pos \in [Proc -> 1 .. (N + 1)]

-----------------------------------------------------------------------------
(***************************************************************************)
(* The progress methods of PipelineState                                   *)
(***************************************************************************)
Nothing == [status |-> "pending", built |-> {}, failed |-> {}, skipped |-> {},
            remaining |-> {}, errors |-> {}]

\* Mutant: no requeue of a package in no bucket (before 3.5.0-B40).
InitPackageListOnce(m, names) ==
    IF m.remaining = {} /\ m.built = {}
    THEN [m EXCEPT !.remaining = names]
    ELSE m

\* A first list, or a requeue of the listed packages that are in no bucket.
InitPackageList(m, names) ==
    IF m.remaining = {} /\ m.built = {}
    THEN [m EXCEPT !.remaining = names]
    ELSE [m EXCEPT !.remaining =
             @ \cup (names \ (m.built \cup m.failed \cup m.skipped))]

MarkBuilding(m, x) == [m EXCEPT !.remaining = @ \ {x}]

\* An error on file is kept.
MarkBuilt(m, x) == [m EXCEPT !.built = @ \cup {x}, !.remaining = @ \ {x},
                             !.failed = @ \ {x}]

MarkFailed(m, x) == [m EXCEPT !.failed = @ \cup {x}, !.remaining = @ \ {x},
                              !.errors = @ \cup {x}]

\* mark_package_skipped for each of a set.
MarkSkipped(m, X) == [m EXCEPT !.skipped = @ \cup X, !.remaining = @ \ X,
                               !.failed = @ \ X]

\* The retried packages, back in the queue.
Requeue(m, X) == [m EXCEPT !.remaining = @ \cup X, !.failed = @ \ X]

\* _serialize writes the names of the errors table unquoted, so the file is
\* TOML only if each of them is a bare key.
Loads(d) == d.errors \subseteq BareKey

-----------------------------------------------------------------------------
Init ==
    /\ manifest \in SUBSET Package
    /\ disk = Nothing
    /\ lock = None
    /\ installed = {}
    /\ pc = [p \in Proc |-> "idle"]
    /\ mem = [p \in Proc |-> Nothing]
    /\ retry = [p \in Proc |-> {}]
    /\ pos = [p \in Proc |-> 1]

Go(p, to) == pc' = [pc EXCEPT ![p] = to]

\* A change of the copy that is saved at once.
SetAndSave(p, m) == mem' = [mem EXCEPT ![p] = m] /\ disk' = m

\* Mutant: the lock of a process that dies stays.
ReleaseAtEnd(p) == lock' = IF lock = p /\ pc[p] = "loop" THEN None ELSE lock

\* The lock goes with the scope, or with the process.
Release(p) == lock' = IF lock = p THEN None ELSE lock

Exit(p) ==
    /\ Go(p, "idle")
    /\ mem' = [mem EXCEPT ![p] = Nothing]
    /\ retry' = [retry EXCEPT ![p] = {}]
    /\ pos' = [pos EXCEPT ![p] = 1]

-----------------------------------------------------------------------------
(***************************************************************************)
(* Up to the scope: the gate of cli.py, the runner, the start of run().    *)
(***************************************************************************)
EditManifest ==
    /\ Edits
    /\ \A p \in Proc : pc[p] = "idle"
    /\ manifest' \in SUBSET Package
    /\ UNCHANGED <<disk, lock, installed, pc, mem, retry, pos>>

\* The gate refuses while another run holds the stage lock.
Gate(p) ==
    /\ pc[p] = "idle"
    /\ lock = None
    /\ Go(p, "gated")
    /\ UNCHANGED <<manifest, disk, lock, installed, mem, retry, pos>>

Load(p) ==
    /\ pc[p] = "gated"
    /\ Loads(disk)
    /\ mem' = [mem EXCEPT ![p] = disk]
    /\ Go(p, "loaded")
    /\ UNCHANGED <<manifest, disk, lock, installed, retry, pos>>

\* TOMLDecodeError: no stage can be run until the file is mended by hand.
LoadRaises(p) ==
    /\ pc[p] = "gated"
    /\ ~Loads(disk)
    /\ Exit(p)
    /\ UNCHANGED <<manifest, disk, lock, installed>>

\* The runner's mark_running.
BeginStage(p) ==
    /\ pc[p] = "loaded"
    /\ SetAndSave(p, [mem[p] EXCEPT !.status = "running"])
    /\ Go(p, "init")
    /\ UNCHANGED <<manifest, lock, installed, retry, pos>>

InitList(p) ==
    /\ pc[p] = "init"
    /\ SetAndSave(p, InitPackageList(mem[p], manifest))
    /\ Go(p, "prompt")
    /\ UNCHANGED <<manifest, lock, installed, retry, pos>>

\* packages.toml cannot be loaded, or the snapshot before the build failed.
RunRaises(p) ==
    /\ pc[p] = "init"
    /\ Go(p, "raised")
    /\ UNCHANGED <<manifest, disk, lock, installed, mem, retry, pos>>

NoPrompt(p) ==
    /\ pc[p] = "prompt"
    /\ mem[p].failed = {}
    /\ Go(p, "scope")
    /\ UNCHANGED <<manifest, disk, lock, installed, mem, retry, pos>>

\* Retry all (--retry-failed), skip all, or choose for each.
AnswerPrompt(p) ==
    /\ pc[p] = "prompt"
    /\ mem[p].failed # {}
    /\ \E skip \in SUBSET mem[p].failed :
          LET again == mem[p].failed \ skip
          IN  /\ SetAndSave(p, Requeue(MarkSkipped(mem[p], skip), again))
              /\ retry' = [retry EXCEPT ![p] = again]
    /\ Go(p, "scope")
    /\ UNCHANGED <<manifest, lock, installed, pos>>

AbortAtPrompt(p) ==
    /\ pc[p] = "prompt"
    /\ mem[p].failed # {}
    /\ Go(p, "raised")
    /\ UNCHANGED <<manifest, disk, lock, installed, mem, retry, pos>>

-----------------------------------------------------------------------------
(***************************************************************************)
(* Inside sentinel_scope                                                   *)
(***************************************************************************)
EnterScope(p) ==
    /\ pc[p] = "scope"
    /\ lock = None
    /\ lock' = p
    /\ Go(p, "deps")
    /\ UNCHANGED <<manifest, disk, installed, mem, retry, pos>>

ScopeRefused(p) ==
    /\ pc[p] = "scope"
    /\ lock # None
    /\ Go(p, "raised")
    /\ UNCHANGED <<manifest, disk, lock, installed, mem, retry, pos>>

\* resolve_aur_deps only warns; build_resolved_deps raises.
DepsBuilt(p) ==
    /\ pc[p] = "deps"
    /\ Go(p, "loop")
    /\ UNCHANGED <<manifest, disk, lock, installed, mem, retry, pos>>

\* An exception leaves the scope, its lock with it: of the dependency build, of
\* a package's build when it is no RuntimeError, or of a Ctrl-C seen by
\* interrupt.checkpoint() before the next package.
BodyRaises(p) ==
    /\ pc[p] \in {"deps", "building"} \/ (pc[p] = "loop" /\ pos[p] \in manifest)
    /\ Release(p)
    /\ Go(p, "raised")
    /\ UNCHANGED <<manifest, disk, installed, mem, retry, pos>>

\* The loop passes over a package: not listed, built, skipped, or not queued.
PassedOver(p) ==
    \/ pos[p] \notin manifest
    \/ pos[p] \in mem[p].built /\ pos[p] \notin retry[p]
    \/ pos[p] \in mem[p].skipped
    \/ pos[p] \notin mem[p].remaining /\ pos[p] \notin retry[p]

PassPackage(p) ==
    /\ pc[p] = "loop"
    /\ pos[p] <= N
    /\ PassedOver(p)
    /\ pos' = [pos EXCEPT ![p] = @ + 1]
    /\ UNCHANGED <<manifest, disk, lock, installed, pc, mem, retry>>

StartPackage(p) ==
    /\ pc[p] = "loop"
    /\ pos[p] <= N
    /\ ~PassedOver(p)
    /\ SetAndSave(p, MarkBuilding(mem[p], pos[p]))
    /\ Go(p, "building")
    /\ UNCHANGED <<manifest, lock, installed, retry, pos>>

\* The build, or `pacman -S', and the installation succeeded.
PackageInstalled(p) ==
    /\ pc[p] = "building"
    /\ installed' = installed \cup {pos[p]}
    /\ Go(p, "installed")
    /\ UNCHANGED <<manifest, disk, lock, mem, retry, pos>>

\* Mutant: recorded before the outcome is known.
RecordBuiltEarly(p) ==
    /\ pc[p] \in {"building", "installed"}
    /\ SetAndSave(p, MarkBuilt(mem[p], pos[p]))
    /\ pos' = [pos EXCEPT ![p] = @ + 1]
    /\ Go(p, "loop")
    /\ UNCHANGED <<manifest, lock, installed, retry>>

RecordBuilt(p) ==
    /\ pc[p] = "installed"
    /\ SetAndSave(p, MarkBuilt(mem[p], pos[p]))
    /\ pos' = [pos EXCEPT ![p] = @ + 1]
    /\ Go(p, "loop")
    /\ UNCHANGED <<manifest, lock, installed, retry>>

\* A RuntimeError costs this package and the loop goes on.
PackageFails(p) ==
    /\ pc[p] = "building"
    /\ SetAndSave(p, MarkFailed(mem[p], pos[p]))
    /\ pos' = [pos EXCEPT ![p] = @ + 1]
    /\ Go(p, "loop")
    /\ UNCHANGED <<manifest, lock, installed, retry>>

EndLoop(p) ==
    /\ pc[p] = "loop"
    /\ pos[p] = N + 1
    /\ Release(p)
    /\ Go(p, "report")
    /\ UNCHANGED <<manifest, disk, installed, mem, retry, pos>>

-----------------------------------------------------------------------------
(***************************************************************************)
(* After the scope                                                         *)
(***************************************************************************)
\* Mutant: the report looks at what is left to do.
ReportRemaining(p) ==
    /\ pc[p] = "report"
    /\ Go(p, IF mem[p].remaining # {} THEN "raised" ELSE "returned")
    /\ UNCHANGED <<manifest, disk, lock, installed, mem, retry, pos>>

\* A package still failed fails the stage.
Report(p) ==
    /\ pc[p] = "report"
    /\ Go(p, IF mem[p].failed # {} THEN "raised" ELSE "returned")
    /\ UNCHANGED <<manifest, disk, lock, installed, mem, retry, pos>>

\* The runner's mark_done, or mark_failed, of its copy.
RecordStage(p) ==
    /\ pc[p] \in {"returned", "raised"}
    /\ disk' = [mem[p] EXCEPT !.status = IF pc[p] = "returned" THEN "done"
                                                               ELSE "failed"]
    /\ Exit(p)
    /\ UNCHANGED <<manifest, lock, installed>>

\* A kill, a power loss, a second Ctrl-C: the copy and the lock are gone.
Crash(p) ==
    /\ pc[p] # "idle"
    /\ Release(p)
    /\ Exit(p)
    /\ UNCHANGED <<manifest, disk, installed>>

-----------------------------------------------------------------------------
(***************************************************************************)
(* Another verb, or stage, inside a scope of its own                       *)
(***************************************************************************)
OtherEnters ==
    /\ lock = None
    /\ lock' = Other
    /\ UNCHANGED <<manifest, disk, installed, pc, mem, retry, pos>>

OtherLeaves ==
    /\ lock = Other
    /\ lock' = None
    /\ UNCHANGED <<manifest, disk, installed, pc, mem, retry, pos>>

-----------------------------------------------------------------------------
\* What the process does by itself once it is started.
Advance(p) ==
    \/ Load(p) \/ LoadRaises(p) \/ BeginStage(p) \/ NoPrompt(p)
    \/ EnterScope(p) \/ ScopeRefused(p) \/ PassPackage(p) \/ StartPackage(p)
    \/ RecordBuilt(p) \/ EndLoop(p) \/ Report(p) \/ RecordStage(p)

Next ==
    \/ EditManifest
    \/ OtherEnters
    \/ OtherLeaves
    \/ \E p \in Proc :
          \/ Gate(p) \/ Advance(p) \/ InitList(p) \/ RunRaises(p)
          \/ AnswerPrompt(p) \/ AbortAtPrompt(p)
          \/ DepsBuilt(p) \/ PackageInstalled(p)
          \/ BodyRaises(p) \/ PackageFails(p) \/ Crash(p)

Spec == Init /\ [][Next]_vars

(***************************************************************************)
(* Fairness: a started process goes on; the operator starts the stage      *)
(* again and does not abort at every prompt; the manifest, the dependencies*)
(* and each package may fail any number of times, but not at every attempt;*)
(* kills and Ctrl-C come to an end, and so do the other verbs.             *)
(***************************************************************************)
FairSpec ==
    /\ Spec
    /\ \A p \in Proc :
          /\ WF_vars(Advance(p))
          /\ WF_vars(Gate(p))
          /\ SF_vars(InitList(p))
          /\ SF_vars(AnswerPrompt(p))
          /\ SF_vars(DepsBuilt(p))
          /\ \A x \in Package : SF_vars(pos[p] = x /\ PackageInstalled(p))
    /\ WF_vars(OtherLeaves)
    /\ <>[][/\ ~OtherEnters
            /\ \A p \in Proc : ~Crash(p) /\ ~(pc[p] = "loop" /\ BodyRaises(p))]_vars

-----------------------------------------------------------------------------
\* One package's failure costs no other package its turn, and no interruption
\* loses one: when the loop is over each listed package has an outcome
\* (3.5.0-B40).
EveryPackageAnswered ==
    \A p \in Proc :
        pc[p] \in {"report", "returned"} =>
            manifest \subseteq mem[p].built \cup mem[p].failed \cup mem[p].skipped

\* A package has one outcome, on file and in every copy.
OneOutcome ==
    \A d \in {disk} \cup {mem[p] : p \in Proc} :
        /\ d.built \cap d.failed = {}
        /\ d.built \cap d.skipped = {}
        /\ d.failed \cap d.skipped = {}

\* The file claims no package that was not installed, whoever wrote it last.
BuiltMeansInstalled == disk.built \subseteq installed

\* Run often enough, the stage gets done, whatever failed before, unless an
\* error was recorded that the file cannot be read back with.
EventuallyDone == []<>(disk.status = "done" \/ ~Loads(disk))

-----------------------------------------------------------------------------
\* What the file says to a reader of it (PackageLedger.tla).
Ledger == INSTANCE PackageLedger
    WITH Item    <- Package,
         wanted  <- manifest,
         settled <- disk.built \cup disk.skipped,
         done    <- disk.status = "done"

\* The stage, run by one process at a time, implements the ledger.
KeepsLedger == Ledger!Spec
=============================================================================

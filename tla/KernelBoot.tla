----------------------------- MODULE KernelBoot -----------------------------
(***************************************************************************)
(* The install half of the kernel stage (KernelStage.run, kernel/install,  *)
(* kernel/gates) and the boot entries it manages (primitives/boot_entries):*)
(* the prune before the build, Gate 1, the sentinel scope around install,  *)
(* initramfs, entry sync and Gate 3, the recovery of an interrupted scope, *)
(* and the prune `sysforge update' makes on its own.                       *)
(*                                                                         *)
(* A run may end at any step, by an error or a kill.  The operator works   *)
(* between the runs and during the build, which takes hours; not inside    *)
(* the install scope, which takes seconds.                                 *)
(***************************************************************************)
EXTENDS Naturals

CONSTANTS
    Plain,       \* kernel.toml's pkgname,
    Role,        \* its FDO build, installed beside it,
    Stock,       \* vmlinuz-linux, which the stage never builds
    Prefixes,    \* values of boot_entries_prefix
    OwnNames,    \* file names of entries the operator writes
    Initrds,     \* what the operator's entries load: "own", or "booster"
    Overlap,     \* may update's prune run beside the install scope?
    MaxVersion,  \* the builds of a kernel,
    MaxRuns,     \* the runs of the stage
    MaxEdits,    \* and the operator's deeds, all bounded
    None

ASSUME KernelsApart == Plain # Role /\ Stock \notin {Plain, Role} /\ None \notin {Plain, Role, Stock}
ASSUME InitrdsTyped == Initrds \subseteq {"own", "booster"}
ASSUME BoundsTyped  == MaxVersion \in Nat \ {0} /\ MaxRuns \in Nat /\ MaxEdits \in Nat

Built   == {Plain, Role}
Kernels == Built \cup {Stock}

\* entry_filename: the names of managed entries.
NameOf(k, p) == <<k, p>>
ManagedNames == Built \X Prefixes
Names == ManagedNames \cup OwnNames
ASSUME NamesApart == OwnNames \cap ManagedNames = {} /\ None \notin Names

Entry == [header : BOOLEAN, kernel : Kernels, tmpl : Names \cup {None},
          initrd : {"own", "booster"}, opts : 1 .. MaxEdits + 1]
ASSUME NoneIsNoEntry == None \notin Entry

VARIABLES
    image,      \* by kernel, the version of /boot/vmlinuz-<kernel>; 0 when absent
    initramfs,  \* by kernel, the version its initramfs was made for
    files,      \* /boot/loader/entries, by name
    selected,   \* LoaderEntrySelected
    prefix,     \* boot_entries_prefix
    sentinel,   \* the kernel sentinel is on file
    pc, target, \* the run: where it is, and the kernel it installs
    writes,     \* apply_plan: entries it has still to write,
    deletes,    \* ... and to remove
    skipped,    \* plan_sync: kernels it wrote no entry for
    pruning,    \* update: the entries its prune has still to remove
    runs, edits

boot == <<image, initramfs, files>>
plan == <<writes, deletes, skipped>>
vars == <<boot, selected, prefix, sentinel, pc, target, plan, pruning, runs, edits>>

PCs == {"idle", "prune", "gate1", "build", "install", "initramfs",
        "sync", "write", "delete", "verify"}

TypeOK ==
    /\ image \in [Kernels -> 0 .. MaxVersion]
    /\ initramfs \in [Kernels -> 0 .. MaxVersion]
    /\ files \in [Names -> Entry \cup {None}]
    /\ selected \in Names
    /\ prefix \in Prefixes
    /\ sentinel \in BOOLEAN
    /\ pc \in PCs
    /\ target \in Built \cup {None}
    /\ (pc = "idle") = (target = None)
    /\ writes \in SUBSET (ManagedNames \X Entry)
    /\ deletes \in SUBSET ManagedNames
    /\ skipped \in SUBSET Built
    /\ pruning \in SUBSET ManagedNames
    /\ runs \in 0 .. MaxRuns
    /\ edits \in 0 .. MaxEdits

Init ==
    /\ image = [k \in Kernels |-> IF k = Stock THEN 1 ELSE 0]
    /\ initramfs = image
    /\ \E n \in OwnNames, i \in Initrds :
          /\ files = [m \in Names |->
                IF m = n THEN [header |-> FALSE, kernel |-> Stock, tmpl |-> None,
                               initrd |-> i, opts |-> 1] ELSE None]
          /\ selected = n
    /\ prefix \in Prefixes
    /\ sentinel = FALSE
    /\ pc = "idle" /\ target = None
    /\ writes = {} /\ deletes = {} /\ skipped = {} /\ pruning = {}
    /\ runs = 0 /\ edits = 0

-----------------------------------------------------------------------------
(* The entries *)

Present == {n \in Names : files[n] # None}
\* Mutant: by the name alone.
ManagedByName == Present \cap ManagedNames

\* is_managed: a managed name and the header.
Managed == {n \in Present \cap ManagedNames : files[n].header}
Own     == Present \ Managed
Boots(n, k) == n \in Present /\ files[n].kernel = k
Images  == {k \in Kernels : image[k] # 0}

\* plan_prune: the managed entries whose image is gone.
Dangling == {n \in Managed : files[n].kernel \notin Images}

\* resolve_template: the selected entry, or the one a managed one was cloned
\* from; else an entry of the operator's for the kernel, then for linux.
Origin(n) ==
    IF n \in Managed /\ files[n].tmpl \in Own THEN files[n].tmpl ELSE n
Templates ==
    LET Booting(k) == {n \in Own : Boots(n, k)}
    IN IF selected \in Present THEN {Origin(selected)}
       ELSE IF Booting(Plain) # {} THEN Booting(Plain) ELSE Booting(Stock)

\* render_entry: the template's lines with the kernel's image, and with its
\* initramfs where the template loads that of its own kernel.
Rendered(k, t) == [header |-> TRUE, kernel |-> k, tmpl |-> t,
                   initrd |-> files[t].initrd, opts |-> files[t].opts]

\* plan_sync, from template t.
Targets   == {target} \cup {files[n].kernel : n \in Managed \ Dangling}
OwnBoots  == {k \in Targets : \E n \in Own : Boots(n, k)}
NameTaken == {k \in Targets \ OwnBoots : NameOf(k, prefix) \in Own}
Written   == Targets \ (OwnBoots \cup NameTaken)
SyncWrites(t) == {<<NameOf(k, prefix), Rendered(k, t)>> : k \in Written}
SyncDeletes ==
    Dangling \cup {n \in Managed : \/ files[n].kernel \in OwnBoots
                                   \/ /\ files[n].kernel \in Written
                                      /\ n # NameOf(files[n].kernel, prefix)}

-----------------------------------------------------------------------------
(* The run *)

Goto(l) == pc' = l /\ UNCHANGED <<target, plan>>
Ends == pc' = "idle" /\ target' = None /\ writes' = {} /\ deletes' = {} /\ skipped' = {}

\* Preflight and prune_boot_entries; an earlier run's sentinel stops it first.
Start(k) ==
    /\ pc = "idle" /\ ~sentinel /\ runs < MaxRuns
    /\ Templates # {}
    /\ runs' = runs + 1 /\ target' = k
    /\ deletes' = Dangling /\ pc' = "prune"
    /\ UNCHANGED <<boot, selected, prefix, sentinel, writes, skipped, pruning, edits>>

\* `rm -f' of one entry.
Remove(n) ==
    /\ deletes' = deletes \ {n}
    /\ files' = [files EXCEPT ![n] = None]
    /\ UNCHANGED <<image, initramfs, selected, prefix, sentinel, pc, target, writes,
                   skipped, pruning, runs, edits>>

Prune ==
    /\ pc = "prune"
    /\ \/ \E n \in deletes : Remove(n)
       \/ deletes = {} /\ Goto("gate1")
          /\ UNCHANGED <<boot, selected, prefix, sentinel, pruning, runs, edits>>

\* gate1_preflight: another kernel with an image and an initramfs.
Fallbacks == {k \in Kernels \ {target} : image[k] # 0 /\ initramfs[k] # 0}
Gate1 ==
    /\ pc = "gate1"
    /\ Fallbacks # {}
    /\ Goto("build")
    /\ UNCHANGED <<boot, selected, prefix, sentinel, pruning, runs, edits>>

\* The build and Gate 2 change nothing on /boot; then the sentinel is recorded.
EnterScope ==
    /\ pc = "build"
    /\ Overlap \/ pruning = {}
    /\ sentinel' = TRUE
    /\ Goto("install")
    /\ UNCHANGED <<boot, selected, prefix, pruning, runs, edits>>

\* install_built_packages: a new build, or the one already in PKGDEST.
Install ==
    /\ pc = "install"
    /\ \E v \in {image[target], image[target] + 1} :
          /\ v \in 1 .. MaxVersion
          /\ image' = [image EXCEPT ![target] = v]
    /\ Goto("initramfs")
    /\ UNCHANGED <<initramfs, files, selected, prefix, sentinel, pruning, runs, edits>>

\* Mutant: `mkinitcpio -p' of the kernel being installed.
RegeneratedOne == [k \in Kernels |-> IF k = target THEN image[k] ELSE initramfs[k]]
\* Mutant: an initramfs that is there is kept.
RegeneratedMissing == [k \in Kernels |-> IF initramfs[k] = 0 THEN image[k] ELSE initramfs[k]]

\* `mkinitcpio -P': every preset, so every installed kernel.
Regenerated == [k \in Kernels |-> IF image[k] # 0 THEN image[k] ELSE initramfs[k]]
RunMkinitcpio ==
    /\ pc = "initramfs"
    /\ initramfs' = Regenerated
    /\ Goto("sync")
    /\ UNCHANGED <<image, files, selected, prefix, sentinel, pruning, runs, edits>>

\* sync_boot_entries: plan_sync and the ownership check apply_plan begins with.
Sync ==
    /\ pc = "sync"
    /\ \E t \in Templates :
          /\ \A w \in SyncWrites(t) : w[1] \notin Own
          /\ writes' = SyncWrites(t)
    /\ SyncDeletes \cap Own = {}
    /\ deletes' = SyncDeletes
    /\ skipped' = NameTaken
    /\ pc' = "write" /\ UNCHANGED target
    /\ UNCHANGED <<boot, selected, prefix, sentinel, pruning, runs, edits>>

\* Mutant: the removals first.
WriteLast ==
    /\ pc = "write"
    /\ \/ \E n \in deletes : Remove(n)
       \/ /\ deletes = {}
          /\ \E w \in writes :
                /\ writes' = writes \ {w}
                /\ files' = [files EXCEPT ![w[1]] = w[2]]
          /\ UNCHANGED <<image, initramfs, selected, prefix, sentinel, pc, target, deletes,
                         skipped, pruning, runs, edits>>
       \/ /\ deletes = {} /\ writes = {} /\ Goto("delete")
          /\ UNCHANGED <<boot, selected, prefix, sentinel, pruning, runs, edits>>

\* apply_plan: all the writes, each a rename into place, then the removals.
Write ==
    /\ pc = "write"
    /\ \/ \E w \in writes :
            /\ writes' = writes \ {w}
            /\ files' = [files EXCEPT ![w[1]] = w[2]]
            /\ UNCHANGED <<pc, target, deletes, skipped>>
       \/ writes = {} /\ Goto("delete") /\ UNCHANGED files
    /\ UNCHANGED <<image, initramfs, selected, prefix, sentinel, pruning, runs, edits>>
Delete ==
    /\ pc = "delete"
    /\ \/ \E n \in deletes : Remove(n)
       \/ /\ deletes = {} /\ target \notin skipped
          /\ Goto("verify")
          /\ UNCHANGED <<boot, selected, prefix, sentinel, pruning, runs, edits>>

\* gate3_verify: an image, an initramfs, and an entry that boots the image.
Gate3 ==
    /\ pc = "verify"
    /\ image[target] # 0 /\ initramfs[target] # 0
    /\ \E n \in Names : Boots(n, target)
    /\ sentinel' = FALSE
    /\ Ends
    /\ UNCHANGED <<boot, selected, prefix, pruning, runs, edits>>

\* A refusal, an error or a kill.  pacman may have failed on either side of
\* the files, mkinitcpio on either side of any preset.
Fail ==
    /\ pc # "idle"
    /\ \/ UNCHANGED <<image, initramfs>>
       \/ /\ pc = "initramfs"
          /\ \E ks \in SUBSET Images :
                initramfs' = [k \in Kernels |-> IF k \in ks THEN image[k] ELSE initramfs[k]]
          /\ UNCHANGED image
    /\ Ends
    /\ UNCHANGED <<files, selected, prefix, sentinel, pruning, runs, edits>>

\* The recovery of kernel_recovery, before a later run: `mkinitcpio -P'.
Recover ==
    /\ pc = "idle" /\ sentinel
    /\ initramfs' = Regenerated
    /\ sentinel' = FALSE
    /\ UNCHANGED <<image, files, selected, prefix, pc, target, plan, pruning, runs, edits>>

-----------------------------------------------------------------------------
(* update's prune, which takes no lock of the stage's *)

Quiet == Overlap \/ pc \in {"idle", "build"}
UpdatePlans ==
    /\ pruning = {} /\ Quiet
    /\ Dangling # {}
    /\ pruning' = Dangling
    /\ UNCHANGED <<boot, selected, prefix, sentinel, pc, target, plan, runs, edits>>
UpdateRemoves ==
    /\ Quiet
    /\ \E n \in pruning :
          /\ pruning' = pruning \ {n}
          /\ files' = [files EXCEPT ![n] = None]
    /\ UNCHANGED <<image, initramfs, selected, prefix, sentinel, pc, target, plan, runs, edits>>

-----------------------------------------------------------------------------
(* The operator *)

Deed ==
    /\ edits < MaxEdits /\ edits' = edits + 1
    /\ pc \in {"idle", "build"} /\ pruning = {}
    /\ UNCHANGED <<sentinel, pc, target, plan, pruning, runs>>

\* Writes, or edits, an entry of their own.
WriteOwn ==
    /\ Deed
    /\ \E n \in OwnNames, k \in Images, i \in Initrds :
          files' = [files EXCEPT ![n] = [header |-> FALSE, kernel |-> k, tmpl |-> None,
                                         initrd |-> i, opts |-> edits + 2]]
    /\ UNCHANGED <<image, initramfs, selected, prefix>>
RemoveOwn ==
    /\ Deed
    /\ \E n \in Own : files' = [files EXCEPT ![n] = None]
    /\ UNCHANGED <<image, initramfs, selected, prefix>>
\* Drops the header of a managed entry, to keep it.
TakeOver ==
    /\ Deed
    /\ \E n \in Managed : files' = [files EXCEPT ![n].header = FALSE]
    /\ UNCHANGED <<image, initramfs, selected, prefix>>
RemoveKernel ==
    /\ Deed
    /\ \E k \in Images :
          /\ image' = [image EXCEPT ![k] = 0]
          /\ initramfs' = [initramfs EXCEPT ![k] = 0]
    /\ UNCHANGED <<files, selected, prefix>>
SetPrefix ==
    /\ Deed
    /\ prefix' \in Prefixes \ {prefix}
    /\ UNCHANGED <<boot, selected>>
Reboot ==
    /\ Deed /\ pc = "idle"
    /\ selected' \in {n \in Present : files[n].kernel \in Images} \ {selected}
    /\ UNCHANGED <<boot, prefix>>

Operator == WriteOwn \/ RemoveOwn \/ TakeOver \/ RemoveKernel \/ SetPrefix \/ Reboot

Next ==
    \/ \E k \in Built : Start(k)
    \/ Prune \/ Gate1 \/ EnterScope \/ Install \/ RunMkinitcpio
    \/ Sync \/ Write \/ Delete \/ Gate3
    \/ Fail \/ Recover
    \/ UpdatePlans \/ UpdateRemoves
    \/ Operator

Spec == Init /\ [][Next]_vars

-----------------------------------------------------------------------------
(* Properties *)

Bootable(k) == image[k] # 0 /\ \E n \in Names : Boots(n, k)

(* Neither the stage nor update ever leaves an installed kernel without     *)
(* the last entry it had, whichever write or removal a kill comes after:    *)
(* plan_sync and apply_plan, the prunes.                                    *)
EntryKept ==
    [][edits' = edits => \A k \in Kernels : Bootable(k) => Bootable(k)']_vars

(* No step of sysforge touches an entry it does not manage, a managed name  *)
(* the operator took over included.                                         *)
OwnUntouched ==
    [][edits' = edits =>
          \A n \in Present : n \in OwnNames \/ ~files[n].header
                => files'[n] = files[n]]_vars

(* An installed kernel whose initramfs is not its own is on file for the    *)
(* recovery that makes it: the sentinel scope, kernel_recovery.             *)
TornIsRecorded == \A k \in Images : initramfs[k] # image[k] => sentinel

\* A torn kernel installation is repaired before another run changes the
\* kernel: the stage keeps the promise of the sentinel (GuardedChange.tla).
Health == IF ~sentinel THEN "sound" ELSE IF pc = "idle" THEN "torn" ELSE "changing"
Promise == INSTANCE GuardedChange WITH health <- Health
KeepsPromise == Promise!Spec

(* A run that ends well leaves a kernel that boots with its own initramfs:  *)
(* mkinitcpio, render_entry, Gate 3.                                        *)
DoneMeansBootable ==
    [][pc = "verify" /\ ~sentinel' =>
          /\ initramfs'[target] = image'[target]
          /\ \E n \in Names : /\ files'[n] # None /\ files'[n].kernel = target
                              /\ files'[n].initrd = "own"]_vars
=============================================================================

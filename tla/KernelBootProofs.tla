-------------------------- MODULE KernelBootProofs --------------------------
(***************************************************************************)
(* For every number of builds, runs and deeds: a torn installation is on   *)
(* file and repaired before the next, the operator's entries are left      *)
(* alone, no installed kernel loses its last entry, and a run that ends    *)
(* well leaves a kernel that boots.  BootInv says where the sentinel is on *)
(* file and from where on every initramfs is its image's, PlanInv that what*)
(* is still to be written or removed is sysforge's, and KeepInv that each  *)
(* entry to be removed boots nothing or has its replacement.               *)
(*                                                                         *)
(* And for every number of releases and kernels: the profiles a kernel is  *)
(* built with are of its version and its round.  FdoInv says that profiles *)
(* are sampled from ever newer kernels, that what was noted is not newer   *)
(* than what the packages apply, what the noted round allows the tree and  *)
(* the profile to be of, and what the run's profiles are.                  *)
(***************************************************************************)
EXTENDS KernelBoot, KernelFdo, TLAPS

Scope   == {"install", "initramfs", "sync", "write", "delete", "verify"}
Before  == {"prune", "gate1", "build"}
Matched == \A k \in Kernels : image[k] # 0 => initramfs[k] = image[k]

\* The names a managed entry has, or a plan may use.
Ours(n) == n \in ManagedNames /\ (files[n] = None \/ files[n].header)

BootInv ==
    /\ image \in [Kernels -> Nat] /\ initramfs \in [Kernels -> Nat]
    /\ pc \in {"idle"} \cup Before \cup Scope
    /\ target \in Built \cup {None} /\ (pc # "idle" => target \in Built)
    /\ pc \in Scope => sentinel
    /\ pc \in Before => ~sentinel
    /\ pc \in {"sync", "write", "delete", "verify"} => Matched
    /\ ~sentinel => Matched

PlanInv ==
    /\ files \in [Names -> Entry \cup {None}]
    /\ edits \in 0 .. MaxEdits
    /\ prefix \in Prefixes
    /\ \A n \in Managed : files[n].kernel \in Built
    /\ \A n \in deletes \cup pruning : Ours(n)
    /\ \A w \in writes : Ours(w[1]) /\ w[2] \in Entry /\ w[2].header /\ w[2].kernel \in Built
    /\ pc \in {"idle", "gate1", "build"} => deletes = {}
    /\ pc \in {"idle", "prune", "gate1", "build"} => writes = {}

LEMMA BootInit == Init => BootInv
  BY KernelsApart DEF Init, BootInv, Matched, Scope, Before, Kernels, Built

(* Each step keeps the sentinel's half of the invariant. *)
LEMMA BootStep == BootInv /\ [Next]_vars => BootInv'
<1> SUFFICES ASSUME BootInv, [Next]_vars PROVE BootInv'
  OBVIOUS
<1> USE DEF BootInv, Scope, Before, Matched
<1>1. ASSUME NEW k \in Built, Start(k) PROVE BootInv'
  BY <1>1 DEF Start, boot
<1>2. CASE Prune
  BY <1>2 DEF Prune, Remove, Goto, boot, plan
<1>3. CASE Gate1
  BY <1>3 DEF Gate1, Goto, boot, plan
<1>4. CASE EnterScope
  BY <1>4 DEF EnterScope, Goto, boot, plan
<1>5. CASE Install
  <2>1. PICK v \in 1 .. MaxVersion : image' = [image EXCEPT ![target] = v]
    BY <1>5 DEF Install
  <2>2. v \in Nat
    BY <2>1
  <2>3. image' \in [Kernels -> Nat]
    BY <2>1, <2>2
  <2> QED
    BY <1>5, <2>1, <2>3 DEF Install, Goto, plan
<1>6. CASE RunMkinitcpio
  BY <1>6 DEF RunMkinitcpio, Regenerated, Goto, plan
<1>7. CASE Sync
  BY <1>7 DEF Sync, boot
<1>8. CASE Write
  BY <1>8 DEF Write, Goto, plan
<1>9. CASE Delete
  BY <1>9 DEF Delete, Remove, Goto, boot, plan
<1>10. CASE Gate3
  BY <1>10 DEF Gate3, Ends, boot
<1>11. CASE Fail
  <2>1. CASE UNCHANGED <<image, initramfs>>
    BY <1>11, <2>1 DEF Fail, Ends
  <2>2. CASE pc = "initramfs" /\ \E ks \in SUBSET Images :
                initramfs' = [k \in Kernels |-> IF k \in ks THEN image[k] ELSE initramfs[k]]
                /\ UNCHANGED image
    BY <1>11, <2>2 DEF Fail, Ends
  <2> QED BY <1>11, <2>1, <2>2 DEF Fail
<1>12. CASE Recover
  BY <1>12 DEF Recover, Regenerated
<1>13. CASE UpdatePlans \/ UpdateRemoves
  BY <1>13 DEF UpdatePlans, UpdateRemoves, boot
<1>14. CASE Operator
  <2>1. CASE RemoveKernel
    BY <1>14, <2>1 DEF RemoveKernel, Deed, Images
  <2>2. CASE WriteOwn \/ RemoveOwn \/ TakeOver \/ SetPrefix \/ Reboot
    BY <1>14, <2>2 DEF WriteOwn, RemoveOwn, TakeOver, SetPrefix, Reboot, Deed, boot
  <2> QED BY <1>14, <2>1, <2>2 DEF Operator
<1>15. CASE UNCHANGED vars
  BY <1>15 DEF vars, boot
<1> QED
  BY <1>1, <1>2, <1>3, <1>4, <1>5, <1>6, <1>7, <1>8, <1>9, <1>10, <1>11, <1>12,
     <1>13, <1>14, <1>15 DEF Next

(* An installed kernel whose initramfs is not its own is on file for the    *)
(* recovery that makes it: sentinel_scope, run_mkinitcpio, kernel_recovery. *)
THEOREM TornKernelRecorded == Spec => []TornIsRecorded
<1>1. BootInv => TornIsRecorded
  BY DEF BootInv, Matched, TornIsRecorded, Images
<1> QED
  BY <1>1, BootInit, BootStep, PTL DEF Spec

(* KernelBoot implements GuardedChange: a torn installation is repaired     *)
(* before another run changes the kernel.                                   *)
LEMMA PromiseStep == BootInv /\ BootInv' /\ [Next]_vars => [Promise!Next]_Health
<1> SUFFICES ASSUME BootInv, BootInv', [Next]_vars PROVE [Promise!Next]_Health
  OBVIOUS
<1> USE DEF BootInv, Scope, Before, Health, Promise!Next, Promise!Begin,
           Promise!Complete, Promise!Interrupt, Promise!Repair
<1>1. ASSUME NEW k \in Built, Start(k) PROVE UNCHANGED Health
  BY <1>1 DEF Start
<1>2. CASE Prune
  BY <1>2 DEF Prune, Remove, Goto
<1>3. CASE Gate1
  BY <1>3 DEF Gate1, Goto
<1>4. CASE EnterScope
  BY <1>4 DEF EnterScope, Goto
<1>5. CASE Install \/ RunMkinitcpio \/ Sync \/ Write \/ Delete
  BY <1>5 DEF Install, RunMkinitcpio, Sync, Write, Delete, Remove, Goto
<1>6. CASE Gate3
  BY <1>6 DEF Gate3, Ends
<1>7. CASE Fail
  BY <1>7 DEF Fail, Ends
<1>8. CASE Recover
  BY <1>8 DEF Recover
<1>9. CASE UpdatePlans \/ UpdateRemoves
  BY <1>9 DEF UpdatePlans, UpdateRemoves
<1>10. CASE Operator
  BY <1>10 DEF Operator, WriteOwn, RemoveOwn, TakeOver, RemoveKernel, SetPrefix,
               Reboot, Deed
<1>11. CASE UNCHANGED vars
  BY <1>11 DEF vars
<1> QED
  BY <1>1, <1>2, <1>3, <1>4, <1>5, <1>6, <1>7, <1>8, <1>9, <1>10, <1>11 DEF Next

(* The sentinel's promise, kept by the kernel stage: the pre-run check,     *)
(* sentinel_scope and kernel_recovery.                                      *)
THEOREM KernelKeepsPromise == Spec => KeepsPromise
<1>1. Init => Promise!Init
  BY DEF Init, Promise!Init, Health
<1> QED
  BY <1>1, BootInit, BootStep, PromiseStep, PTL DEF Spec, KeepsPromise, Promise!Spec

-----------------------------------------------------------------------------
(* The operator's entries *)

LEMMA PlanInit == Init => PlanInv
<1> SUFFICES ASSUME Init PROVE PlanInv
  OBVIOUS
<1>1. files \in [Names -> Entry \cup {None}] /\ edits \in 0 .. MaxEdits
  BY BoundsTyped, InitrdsTyped DEF Init, Entry, Kernels
<1>2. Managed = {}
  BY NamesApart DEF Init, Managed, Present
<1> QED
  BY <1>1, <1>2 DEF Init, PlanInv

LEMMA DanglingOurs == Dangling \subseteq {n \in ManagedNames : Ours(n)}
  BY DEF Dangling, Managed, Present, Ours

LEMMA PlanStep == BootInv /\ PlanInv /\ [Next]_vars => PlanInv'
<1> SUFFICES ASSUME BootInv, PlanInv, [Next]_vars PROVE PlanInv'
  OBVIOUS
<1> USE DEF PlanInv, Ours, Managed, Present
<1>1. ASSUME NEW k \in Built, Start(k) PROVE PlanInv'
  BY <1>1, DanglingOurs DEF Start, boot
<1>2. ASSUME NEW n \in deletes, Remove(n), pc \in {"prune", "delete"} PROVE PlanInv'
  BY <1>2 DEF Remove, Names
<1>3. CASE Prune
  <2>1. CASE \E n \in deletes : Remove(n)
    BY <1>2, <1>3, <2>1 DEF Prune
  <2>2. CASE deletes = {} /\ Goto("gate1") /\ UNCHANGED <<files, prefix, pruning, edits>>
    BY <1>3, <2>2 DEF Prune, Goto, plan
  <2> QED BY <1>3, <2>1, <2>2 DEF Prune, boot
<1>4. CASE Gate1 \/ EnterScope \/ Install \/ RunMkinitcpio
  BY <1>4 DEF Gate1, EnterScope, Install, RunMkinitcpio, Goto, boot, plan
<1>5. CASE Sync
  <2>1. SyncDeletes \subseteq {n \in ManagedNames : Ours(n)}
    BY DanglingOurs DEF SyncDeletes
  <2>2. PICK t \in Templates : /\ \A w \in SyncWrites(t) : w[1] \notin Own
                               /\ writes' = SyncWrites(t)
    BY <1>5 DEF Sync
  <2>3. Written \subseteq Built
    BY <1>5 DEF Written, Targets, Sync, Dangling, BootInv
  <2>t. t \in Names /\ files[t] \in Entry
    BY <2>2, NamesApart DEF Templates, Origin, Boots, Own, Entry
  <2>4. ASSUME NEW w \in writes' PROVE Ours(w[1]) /\ w[2] \in Entry /\ w[2].header /\ w[2].kernel \in Built
    <3>1. PICK k \in Written : w = <<NameOf(k, prefix), Rendered(k, t)>>
      BY <2>2, <2>4 DEF SyncWrites
    <3>2. w[1] \in ManagedNames
      BY <3>1, <2>3 DEF NameOf, ManagedNames
    <3>3. w[1] \notin Own
      BY <2>2, <2>4
    <3>4. w[2] \in Entry /\ w[2].header /\ w[2].kernel \in Built
      BY <3>1, <2>3, <2>t DEF Rendered, Entry, Kernels
    <3> QED BY <3>2, <3>3, <3>4 DEF Own, Names
  <2> QED BY <1>5, <2>1, <2>4 DEF Sync, boot
<1>6. CASE Write
  <2>1. ASSUME NEW w \in writes, writes' = writes \ {w},
               files' = [files EXCEPT ![w[1]] = w[2]]
        PROVE  PlanInv'
    BY <1>6, <2>1 DEF Write, Goto, plan, Names
  <2>2. CASE writes = {} /\ Goto("delete") /\ UNCHANGED files
    BY <1>6, <2>2 DEF Write, Goto, plan
  <2> QED BY <1>6, <2>1, <2>2 DEF Write
<1>7. CASE Delete
  <2>1. CASE \E n \in deletes : Remove(n)
    BY <1>2, <1>7, <2>1 DEF Delete
  <2>2. CASE deletes = {} /\ Goto("verify") /\ UNCHANGED <<files, prefix, pruning, edits>>
    BY <1>7, <2>2 DEF Goto, plan, Delete
  <2> QED BY <1>7, <2>1, <2>2 DEF Delete, boot
<1>8. CASE Gate3 \/ Fail
  BY <1>8 DEF Gate3, Fail, Ends, boot
<1>9. CASE Recover
  BY <1>9 DEF Recover, plan
<1>10. CASE UpdatePlans
  BY <1>10, DanglingOurs DEF UpdatePlans, boot, plan
<1>11. CASE UpdateRemoves
  BY <1>11 DEF UpdateRemoves, plan, Names
<1>12. CASE Operator
  <2> SUFFICES ASSUME Deed, deletes = {}, writes = {}, pruning = {}
               PROVE  PlanInv'
    BY <1>12 DEF Operator, WriteOwn, RemoveOwn, TakeOver, RemoveKernel, SetPrefix,
                 Reboot, Deed
  <2>1. CASE WriteOwn
    <3>1. PICK n \in OwnNames, k \in Images, i \in Initrds :
             files' = [files EXCEPT ![n] = [header |-> FALSE, kernel |-> k, tmpl |-> None,
                                            initrd |-> i, opts |-> edits + 2]]
      BY <2>1 DEF WriteOwn
    <3>2. edits' \in 0 .. MaxEdits /\ edits + 2 \in 1 .. MaxEdits + 1
      BY BoundsTyped DEF Deed
    <3>3. [header |-> FALSE, kernel |-> k, tmpl |-> None, initrd |-> i,
           opts |-> edits + 2] \in Entry
      BY <3>2, InitrdsTyped DEF Entry, Images
    <3>4. files' \in [Names -> Entry \cup {None}]
      BY <3>1, <3>3
    <3>5. n \notin ManagedNames /\ Managed' = Managed
      BY <3>1, NamesApart DEF Names
    <3> QED
      BY <2>1, <3>1, <3>2, <3>4, <3>5 DEF WriteOwn, Deed, plan
  <2>2. CASE RemoveOwn
    BY <2>2, BoundsTyped DEF RemoveOwn, Deed, plan, Own
  <2>3. CASE TakeOver
    <3>1. PICK n \in Managed : files' = [files EXCEPT ![n].header = FALSE]
      BY <2>3 DEF TakeOver
    <3>2. edits' \in 0 .. MaxEdits
      BY BoundsTyped DEF Deed
    <3>3. files[n] \in Entry /\ [files[n] EXCEPT !.header = FALSE] \in Entry
      BY DEF Entry
    <3>4. files' \in [Names -> Entry \cup {None}] /\ Managed' \subseteq Managed \ {n}
      BY <3>1, <3>3 DEF Entry
    <3> QED
      BY <2>3, <3>1, <3>2, <3>4 DEF TakeOver, Deed, plan
  <2>4. CASE RemoveKernel \/ SetPrefix \/ Reboot
    BY <2>4, BoundsTyped DEF RemoveKernel, SetPrefix, Reboot, Deed, plan, boot
  <2> QED BY <1>12, <2>1, <2>2, <2>3, <2>4 DEF Operator
<1>13. CASE UNCHANGED vars
  BY <1>13 DEF vars, boot, plan
<1> QED
  BY <1>1, <1>3, <1>4, <1>5, <1>6, <1>7, <1>8, <1>9, <1>10, <1>11, <1>12, <1>13 DEF Next

LEMMA OwnUntouchedStep ==
    PlanInv /\ [Next]_vars =>
        [edits' = edits => \A n \in Present : n \in OwnNames \/ ~files[n].header
                                => files'[n] = files[n]]_vars
<1> SUFFICES ASSUME PlanInv, [Next]_vars, edits' = edits,
                    NEW n \in Present, n \in OwnNames \/ ~files[n].header
             PROVE  files'[n] = files[n]
  OBVIOUS
<1>1. ~Ours(n)
  BY NamesApart DEF Ours, Present
<1>2. n \in Names /\ n \notin deletes \cup pruning /\ \A w \in writes : w[1] # n
  BY <1>1 DEF PlanInv, Present
<1>3. ~Operator
  BY DEF PlanInv, Operator, WriteOwn, RemoveOwn, TakeOver, RemoveKernel, SetPrefix,
         Reboot, Deed
<1>4. ASSUME NEW m \in deletes, Remove(m) PROVE files'[n] = files[n]
  BY <1>2, <1>4 DEF Remove, PlanInv
<1>5. CASE Prune
  BY <1>4, <1>5 DEF Prune, boot
<1>6. CASE Delete
  BY <1>4, <1>6 DEF Delete, boot
<1>7. CASE Write \/ UpdateRemoves
  BY <1>2, <1>7 DEF Write, UpdateRemoves, PlanInv
<1>8. CASE (\E k \in Built : Start(k)) \/ UpdatePlans \/ UNCHANGED vars
  BY <1>8 DEF Start, UpdatePlans, vars, boot
<1>9. CASE Gate1 \/ EnterScope \/ Install \/ RunMkinitcpio \/ Sync \/ Gate3 \/ Fail \/ Recover
  BY <1>9 DEF Gate1, EnterScope, Install, RunMkinitcpio, Sync, Gate3, Fail, Recover, boot
<1> QED
  BY <1>3, <1>5, <1>6, <1>7, <1>8, <1>9 DEF Next

(* No step of the stage or of update touches an entry sysforge does not     *)
(* manage: is_managed, plan_sync, plan_prune, apply_plan.                   *)
THEOREM OwnEntriesUntouched == Spec => OwnUntouched
<1>1. Init => BootInv /\ PlanInv
  BY BootInit, PlanInit
<1> QED
  BY <1>1, BootStep, PlanStep, OwnUntouchedStep, PTL DEF Spec, OwnUntouched
-----------------------------------------------------------------------------
(* Every kernel keeps an entry *)

\* An entry nothing boots any more, gone, or of a kernel whose image is gone.
Orphan(n) == files[n] = None \/ image[files[n].kernel] = 0

\* The kernel of entry n has another that this plan leaves alone or writes.
Replaced(n) ==
    LET k == files[n].kernel
        m == NameOf(k, prefix)
    IN \/ \E o \in Own : Boots(o, k)
       \/ m \notin deletes /\ (Boots(m, k) \/ \E w \in writes : w[1] = m)

KeepInv ==
    /\ \A n \in Managed : files[n].kernel = n[1]
    /\ \A w \in writes : w[2].kernel = w[1][1] /\ w[1] \notin deletes
    /\ \A n \in pruning : Orphan(n)
    /\ pc \in Scope => pruning = {}
    /\ pc = "prune" => \A n \in deletes : Orphan(n)
    /\ pc \in {"write", "delete"} => \A n \in deletes : Orphan(n) \/ Replaced(n)
    /\ pc \in {"initramfs", "sync", "write", "delete", "verify"} => image[target] # 0
    /\ pc \in {"delete", "verify"} => writes = {}

LEMMA KeepInit == Init => KeepInv
<1> SUFFICES ASSUME Init PROVE KeepInv
  OBVIOUS
<1>1. Managed = {}
  BY NamesApart DEF Init, Managed, Present
<1> QED
  BY <1>1 DEF Init, KeepInv, Scope

(* A managed name tells its kernel. *)
LEMMA NameTells ==
    ASSUME NEW k \in Built, NEW p \in Prefixes
    PROVE  NameOf(k, p) \in ManagedNames /\ NameOf(k, p)[1] = k
  BY DEF NameOf, ManagedNames

LEMMA DanglingOrphan ==
    ASSUME PlanInv, NEW n \in Dangling PROVE Orphan(n)
  BY DEF PlanInv, Dangling, Orphan, Managed, Images, Kernels

(* What plan_sync removes is an orphan or replaced, and never what it writes. *)
LEMMA SyncReplaces ==
    ASSUME BootInv, PlanInv, KeepInv, Sync
    PROVE  /\ \A w \in writes' : w[2].kernel = w[1][1] /\ w[1] \notin SyncDeletes
           /\ \A n \in SyncDeletes : Orphan(n) \/ (Replaced(n))'
<1>1. PICK t \in Templates : writes' = SyncWrites(t)
  BY DEF Sync
<1>2. /\ UNCHANGED <<files, image, prefix, target>> /\ deletes' = SyncDeletes
      /\ prefix \in Prefixes
  BY DEF Sync, boot, PlanInv
<1>3. Written \subseteq Built /\ \A k \in Written : image[k] # 0
  BY DEF Written, Targets, Sync, Dangling, BootInv, PlanInv, KeepInv, Images
<1>4. ASSUME NEW k \in Written PROVE NameOf(k, prefix) \notin SyncDeletes
  <2>1. NameOf(k, prefix)[1] = k /\ k \in Kernels
    BY <1>2, <1>3, NameTells DEF Kernels
  <2>2. NameOf(k, prefix) \in Managed => files[NameOf(k, prefix)].kernel = k
    BY <2>1 DEF KeepInv
  <2>3. NameOf(k, prefix) \notin Dangling
    BY <1>3, <2>1, <2>2 DEF Dangling, Images
  <2>4. k \notin OwnBoots
    BY DEF Written
  <2> QED BY <2>2, <2>3, <2>4 DEF SyncDeletes
<1>5. ASSUME NEW w \in writes' PROVE w[2].kernel = w[1][1] /\ w[1] \notin SyncDeletes
  <2>1. PICK k \in Written : w = <<NameOf(k, prefix), Rendered(k, t)>>
    BY <1>1 DEF SyncWrites
  <2> QED BY <1>2, <1>3, <1>4, <2>1, NameTells DEF Rendered
<1>6. ASSUME NEW n \in SyncDeletes, ~Orphan(n) PROVE (Replaced(n))'
  <2> DEFINE k == files[n].kernel
  <2>1. n \notin Dangling
    BY <1>6, DanglingOrphan
  <2>2. CASE k \in OwnBoots
    BY <1>2, <2>2 DEF OwnBoots, Replaced, Own, Managed, Present, Boots
  <2>3. CASE k \in Written /\ n # NameOf(k, prefix)
    <3>1. <<NameOf(k, prefix), Rendered(k, t)>> \in writes'
      BY <1>1, <2>3 DEF SyncWrites
    <3>2. \E w \in writes' : w[1] = NameOf(k, prefix)
      BY <3>1
    <3> QED BY <1>2, <1>4, <2>3, <3>2 DEF Replaced, NameOf
  <2> QED BY <1>6, <2>1, <2>2, <2>3 DEF SyncDeletes
<1> QED BY <1>5, <1>6

(* `rm -f' of an entry of the plan: the others stay replaced. *)
LEMMA RemoveKeeps ==
    ASSUME PlanInv, KeepInv, NEW n \in deletes, Remove(n), pc \in {"prune", "delete"}
    PROVE  KeepInv'
<1> USE DEF Remove, KeepInv
<1>1. n \in Names /\ files' = [files EXCEPT ![n] = None] /\ deletes' = deletes \ {n}
  BY DEF PlanInv, Ours, Names
<1>2. files \in [Names -> Entry \cup {None}] /\ pruning \subseteq Names /\ deletes \subseteq Names
  BY DEF PlanInv, Ours, Names
<1>3. Managed' \subseteq Managed /\ \A m \in Managed' : files'[m] = files[m]
  BY <1>1, <1>2 DEF Managed, Present
<1>4. \A m \in pruning \cup deletes : Orphan(m) => (Orphan(m))'
  BY <1>1, <1>2 DEF Orphan
<1>5. ASSUME NEW m \in deletes', pc = "delete", ~Orphan(m) PROVE (Replaced(m))'
  <2>1. Replaced(m) /\ writes = {} /\ m # n
    BY <1>1, <1>5
  <2>2. files'[m] = files[m] /\ prefix' = prefix
    BY <1>1, <1>2, <2>1
  <2>3. CASE \E o \in Own : Boots(o, files[m].kernel)
    <3>1. PICK o \in Own : Boots(o, files[m].kernel)
      BY <2>3
    <3>2. o # n
      BY <3>1 DEF PlanInv, Ours, Own, Managed, Present
    <3>3. o \in Own' /\ (Boots(o, files[m].kernel))'
      BY <1>1, <1>2, <2>2, <3>1, <3>2 DEF Own, Managed, Present, Boots
    <3> QED BY <2>2, <3>3 DEF Replaced, Boots
  <2>4. CASE /\ NameOf(files[m].kernel, prefix) \notin deletes
             /\ Boots(NameOf(files[m].kernel, prefix), files[m].kernel)
    BY <1>1, <1>2, <2>2, <2>4 DEF Replaced, Boots, Present, NameOf
  <2> QED BY <2>1, <2>3, <2>4 DEF Replaced
<1> QED
  BY <1>1, <1>2, <1>3, <1>4, <1>5 DEF Scope

(* Each write of the plan, a rename into place, leaves the rest replaced. *)
LEMMA WriteKeeps ==
    ASSUME PlanInv, KeepInv, pc = "write", NEW w \in writes, Write,
           writes' = writes \ {w}, files' = [files EXCEPT ![w[1]] = w[2]],
           UNCHANGED <<pc, target, deletes, skipped>>
    PROVE  KeepInv'
<1>1. UNCHANGED <<image, prefix, pruning>>
  BY DEF Write
<1>2. files \in [Names -> Entry \cup {None}] /\ w[1] \in Names /\ w[1] \in ManagedNames
  BY DEF PlanInv, Ours, Names
<1>3. w[2] # None /\ w[2].header /\ w[2].kernel = w[1][1] /\ w[1] \notin deletes
  BY NoneIsNoEntry DEF PlanInv, KeepInv
<1>4. \A m \in Managed' : files'[m].kernel = m[1]
  BY <1>2, <1>3 DEF Managed, Present, KeepInv
<1>5. ASSUME NEW m \in deletes PROVE (Orphan(m) \/ Replaced(m))'
  <2>1. Orphan(m) \/ Replaced(m)
    BY DEF KeepInv
  <2>2. m \in Names /\ files'[m] = files[m]
    BY <1>2, <1>3 DEF PlanInv, Ours, Names
  <2>3. CASE Orphan(m)
    BY <1>1, <2>2, <2>3 DEF Orphan
  <2>4. CASE \E o \in Own : Boots(o, files[m].kernel)
    <3>1. PICK o \in Own : Boots(o, files[m].kernel)
      BY <2>4
    <3>2. o # w[1]
      BY <3>1 DEF PlanInv, Ours, Own, Managed, Present
    <3>3. o \in Own' /\ (Boots(o, files[m].kernel))'
      BY <1>2, <2>2, <3>1, <3>2 DEF Own, Managed, Present, Boots
    <3> QED BY <2>2, <3>3 DEF Replaced, Boots
  <2>5. CASE /\ NameOf(files[m].kernel, prefix) \notin deletes
             /\ \/ Boots(NameOf(files[m].kernel, prefix), files[m].kernel)
                \/ \E v \in writes : v[1] = NameOf(files[m].kernel, prefix)
    <3> DEFINE r == NameOf(files[m].kernel, prefix)
    <3>1. r[1] = files[m].kernel
      BY DEF NameOf
    <3>2. CASE w[1] = r
      BY <1>1, <1>2, <1>3, <2>2, <2>5, <3>1, <3>2 DEF Replaced, Boots, Present, NameOf
    <3>3. CASE w[1] # r
      <4>1. CASE Boots(r, files[m].kernel)
        BY <1>1, <1>2, <2>2, <2>5, <3>3, <4>1 DEF Replaced, Boots, Present, NameOf
      <4>2. CASE \E v \in writes : v[1] = r
        BY <1>1, <2>2, <2>5, <3>3, <4>2 DEF Replaced, NameOf
      <4> QED BY <2>5, <4>1, <4>2
    <3> QED BY <3>2, <3>3
  <2> QED BY <2>1, <2>3, <2>4, <2>5 DEF Replaced
<1> QED
  BY <1>1, <1>4, <1>5 DEF KeepInv, Scope

LEMMA KeepStep ==
    ASSUME ~Overlap, BootInv, PlanInv, KeepInv, [Next]_vars
    PROVE  KeepInv'
<1> USE DEF Scope
<1> DEFINE Idle == UNCHANGED <<image, files, prefix>>
<1>0. ASSUME Idle PROVE /\ Managed' = Managed /\ Own' = Own
                        /\ \A n \in Names : Orphan(n) = (Orphan(n))'
                        /\ \A n, k : Boots(n, k) = (Boots(n, k))'
  BY <1>0 DEF Managed, Own, Present, Orphan, Boots
<1>n. deletes \cup pruning \subseteq Names
  BY DEF PlanInv, Ours, Names
<1>1. ASSUME NEW k \in Built, Start(k) PROVE KeepInv'
  <2>1. \A n \in Dangling : n \in Names /\ Orphan(n)
    BY DanglingOrphan DEF Dangling, Managed, Present
  <2> QED
    BY <1>0, <1>1, <1>n, <2>1 DEF Start, boot, KeepInv, PlanInv
<1>2. CASE Prune
  <2>1. CASE \E n \in deletes : Remove(n)
    BY <1>2, <2>1, RemoveKeeps DEF Prune
  <2>2. CASE Goto("gate1") /\ UNCHANGED <<boot, prefix, pruning>>
    BY <1>0, <1>n, <2>2 DEF Goto, plan, boot, KeepInv
  <2> QED BY <1>2, <2>1, <2>2 DEF Prune
<1>3. CASE Gate1 \/ EnterScope
  BY <1>0, <1>n, <1>3 DEF Gate1, EnterScope, Goto, boot, plan, KeepInv
<1>4. CASE Install
  <2>1. PICK v \in 1 .. MaxVersion : image' = [image EXCEPT ![target] = v]
    BY <1>4 DEF Install
  <2>2. target \in Kernels /\ v # 0 /\ image'[target] = v
    BY <1>4, <2>1 DEF Install, BootInv, Kernels
  <2>3. Managed' = Managed
    BY <1>4 DEF Install, Managed, Present
  <2> QED
    BY <1>4, <2>2, <2>3 DEF Install, Goto, plan, KeepInv
<1>5. CASE RunMkinitcpio
  BY <1>0, <1>n, <1>5 DEF RunMkinitcpio, Goto, plan, KeepInv
<1>6. CASE Sync
  <2>1. /\ \A w \in writes' : w[2].kernel = w[1][1] /\ w[1] \notin SyncDeletes
        /\ \A n \in SyncDeletes : Orphan(n) \/ (Replaced(n))'
    BY <1>6, SyncReplaces
  <2>2. SyncDeletes \subseteq Names
    BY DEF SyncDeletes, Dangling, Managed, Present
  <2> QED BY <1>0, <1>6, <1>n, <2>1, <2>2 DEF Sync, boot, KeepInv
<1>7. CASE Write
  <2>1. CASE writes = {} /\ Goto("delete") /\ UNCHANGED files
    <3>1. \A n \in deletes : Replaced(n) => (Replaced(n))'
      BY <1>0, <1>7, <2>1 DEF Write, Goto, plan, Replaced, Own, Managed, Present, Boots, NameOf
    <3> QED BY <1>0, <1>7, <1>n, <2>1, <3>1 DEF Write, Goto, plan, KeepInv
  <2> QED BY <1>7, <2>1, WriteKeeps DEF Write
<1>8. CASE Delete
  <2>1. CASE \E n \in deletes : Remove(n)
    BY <1>8, <2>1, RemoveKeeps DEF Delete
  <2>2. CASE Goto("verify") /\ UNCHANGED <<boot, prefix, pruning>>
    BY <1>0, <1>8, <1>n, <2>2 DEF Delete, Goto, plan, boot, KeepInv
  <2> QED BY <1>8, <2>1, <2>2 DEF Delete
<1>9. CASE Gate3 \/ Fail
  <2>1. Idle /\ UNCHANGED pruning /\ Ends
    BY <1>9 DEF Gate3, Fail, boot
  <2> QED BY <1>0, <1>n, <2>1 DEF Ends, KeepInv
<1>10. CASE Recover
  BY <1>0, <1>n, <1>10 DEF Recover, plan, KeepInv
<1>11. CASE UpdatePlans
  <2>1. \A n \in Dangling : n \in Names /\ Orphan(n)
    BY DanglingOrphan DEF Dangling, Managed, Present
  <2>2. pc \in {"idle", "build"}
    BY <1>11 DEF UpdatePlans, Quiet
  <2> QED BY <1>0, <1>n, <1>11, <2>1, <2>2 DEF UpdatePlans, boot, plan, KeepInv
<1>12. CASE UpdateRemoves
  <2>1. PICK n \in pruning : /\ pruning' = pruning \ {n}
                             /\ files' = [files EXCEPT ![n] = None]
    BY <1>12 DEF UpdateRemoves
  <2>2. pc \in {"idle", "build"} /\ UNCHANGED <<image, prefix, pc, target, plan>>
    BY <1>12 DEF UpdateRemoves, Quiet
  <2>3. files \in [Names -> Entry \cup {None}] /\ n \in Names
    BY <1>n DEF PlanInv
  <2>4. Managed' \subseteq Managed /\ \A m \in Managed' : files'[m] = files[m]
    BY <2>1, <2>3 DEF Managed, Present
  <2>5. \A m \in pruning : Orphan(m) => (Orphan(m))'
    BY <1>n, <2>1, <2>2, <2>3 DEF Orphan
  <2> QED BY <2>1, <2>2, <2>4, <2>5 DEF plan, KeepInv, PlanInv
<1>13. CASE Operator
  <2>1. Deed
    BY <1>13 DEF Operator, WriteOwn, RemoveOwn, TakeOver, RemoveKernel, SetPrefix, Reboot
  <2>2. /\ pc' = pc /\ pc \in {"idle", "build"} /\ UNCHANGED <<target, plan>>
        /\ pruning' = {} /\ deletes = {} /\ writes = {}
    BY <2>1 DEF Deed, PlanInv
  <2>3. Managed' \subseteq Managed /\ \A n \in Managed' : files'[n].kernel = files[n].kernel
    <3>1. CASE WriteOwn
      BY <3>1, NamesApart DEF WriteOwn, Managed, Present, PlanInv, Names
    <3>2. CASE RemoveOwn
      BY <3>2 DEF RemoveOwn, Managed, Present, PlanInv
    <3>3. CASE TakeOver
      <4>1. PICK n \in Managed : files' = [files EXCEPT ![n].header = FALSE]
        BY <3>3 DEF TakeOver
      <4>2. n \in Names /\ files[n] \in Entry
        BY DEF Managed, Present, PlanInv
      <4>3. files'[n].header = FALSE
        BY <4>1, <4>2 DEF PlanInv, Entry
      <4>4. \A m \in Names \ {n} : files'[m] = files[m]
        BY <4>1 DEF PlanInv
      <4> QED BY <4>3, <4>4 DEF Managed, Present
    <3>4. CASE RemoveKernel \/ SetPrefix \/ Reboot
      BY <3>4 DEF RemoveKernel, SetPrefix, Reboot, boot, Managed, Present
    <3> QED BY <1>13, <3>1, <3>2, <3>3, <3>4 DEF Operator
  <2> QED BY <2>2, <2>3 DEF plan, KeepInv
<1>14. CASE UNCHANGED vars
  <2>1. \A n \in deletes : Replaced(n) = (Replaced(n))'
    BY <1>14 DEF vars, boot, plan, Replaced, Own, Managed, Present, Boots
  <2> QED BY <1>0, <1>n, <1>14, <2>1 DEF vars, boot, plan, KeepInv
<1> QED
  BY <1>1, <1>2, <1>3, <1>4, <1>5, <1>6, <1>7, <1>8, <1>9, <1>10, <1>11, <1>12,
     <1>13, <1>14 DEF Next

(* What boots a kernel survives each removal and write. *)
LEMMA EntryKeptStep ==
    ASSUME BootInv, PlanInv, KeepInv, [Next]_vars, edits' = edits,
           NEW k \in Kernels, Bootable(k)
    PROVE  (Bootable(k))'
<1>1. PICK n \in Names : Boots(n, k)
  BY DEF Bootable
<1>2. image[k] # 0 /\ n \in Present /\ files[n].kernel = k
  BY <1>1 DEF Bootable, Boots
<1>t. files \in [Names -> Entry \cup {None}] /\ deletes \cup pruning \subseteq Names
  BY DEF PlanInv, Ours, Names
<1>3. ~Operator
  BY DEF PlanInv, Operator, WriteOwn, RemoveOwn, TakeOver, RemoveKernel, SetPrefix,
         Reboot, Deed
<1>4. CASE UNCHANGED files /\ image'[k] # 0
  BY <1>1, <1>4 DEF Bootable, Boots, Present
<1>5. ASSUME NEW m \in deletes, pc \in {"prune", "delete"},
             files' = [files EXCEPT ![m] = None], image' = image
      PROVE  (Bootable(k))'
  <2>1. CASE m # n
    BY <1>1, <1>2, <1>t, <1>5, <2>1 DEF Bootable, Boots, Present
  <2>2. CASE m = n
    <3>1. ~Orphan(n)
      BY <1>2, <2>2 DEF Orphan, Present
    <3>2. pc = "delete" /\ Replaced(n) /\ writes = {}
      BY <1>5, <2>2, <3>1 DEF KeepInv
    <3>3. PICK o \in Names : Boots(o, k) /\ o # n
      <4>1. \A o \in Own : o # n
        BY <1>2, <2>2 DEF PlanInv, Ours, Own, Managed, Present
      <4> QED BY <1>2, <2>2, <3>2, <4>1 DEF Replaced, Boots, Present
    <3> QED BY <1>2, <1>t, <1>5, <2>2, <3>3 DEF Bootable, Boots, Present
  <2> QED BY <2>1, <2>2
<1>6. CASE Prune
  <2>1. CASE \E m \in deletes : Remove(m)
    BY <1>5, <1>6, <2>1 DEF Prune, Remove
  <2> QED BY <1>2, <1>4, <1>6, <2>1 DEF Prune, boot
<1>7. CASE Delete
  <2>1. CASE \E m \in deletes : Remove(m)
    BY <1>5, <1>7, <2>1 DEF Delete, Remove
  <2> QED BY <1>2, <1>4, <1>7, <2>1 DEF Delete, boot
<1>8. CASE Write
  <2>1. CASE UNCHANGED files
    BY <1>2, <1>4, <1>8, <2>1 DEF Write
  <2>2. ASSUME NEW w \in writes, files' = [files EXCEPT ![w[1]] = w[2]]
        PROVE  (Bootable(k))'
    <3>1. w[2] # None /\ w[2].kernel = w[1][1]
      BY NoneIsNoEntry DEF PlanInv, KeepInv
    <3>2. CASE w[1] = n
      <4>1. n \in Managed
        BY <1>2, <3>2 DEF PlanInv, Ours, Managed, Present
      <4> QED
        BY <1>1, <1>2, <1>t, <1>8, <2>2, <3>1, <3>2, <4>1
           DEF Write, KeepInv, Bootable, Boots, Present
    <3>3. CASE w[1] # n
      BY <1>1, <1>2, <1>t, <1>8, <2>2, <3>3 DEF Write, Bootable, Boots, Present
    <3> QED BY <3>2, <3>3
  <2> QED BY <1>8, <2>1, <2>2 DEF Write
<1>9. CASE UpdateRemoves
  <2>1. PICK m \in pruning : files' = [files EXCEPT ![m] = None]
    BY <1>9 DEF UpdateRemoves
  <2>2. m # n
    BY <1>2 DEF KeepInv, Orphan, Present
  <2> QED
    BY <1>1, <1>2, <1>9, <1>t, <2>1, <2>2 DEF UpdateRemoves, Bootable, Boots, Present
<1>10. CASE Install
  <2>1. image'[k] # 0
    BY <1>2, <1>10 DEF Install, BootInv
  <2> QED BY <1>4, <1>10, <2>1 DEF Install
<1>11. CASE (\E b \in Built : Start(b)) \/ UpdatePlans \/ UNCHANGED vars
  BY <1>2, <1>4, <1>11 DEF Start, UpdatePlans, vars, boot
<1>12. CASE Gate1 \/ EnterScope \/ RunMkinitcpio \/ Sync \/ Gate3 \/ Fail \/ Recover
  BY <1>2, <1>4, <1>12 DEF Gate1, EnterScope, RunMkinitcpio, Sync, Gate3, Fail, Recover, boot
<1> QED
  BY <1>3, <1>6, <1>7, <1>8, <1>9, <1>10, <1>11, <1>12 DEF Next

(* With update's prune outside the install scope, no step of the stage or   *)
(* of update takes the last entry of an installed kernel: plan_sync writes  *)
(* what replaces an entry before apply_plan removes it, the prunes remove   *)
(* what boots nothing.                                                      *)
THEOREM LastEntryStays == ASSUME ~Overlap PROVE Spec => EntryKept
<1>1. Init => BootInv /\ PlanInv /\ KeepInv
  BY BootInit, PlanInit, KeepInit
<1>2. BootInv /\ PlanInv /\ KeepInv /\ [Next]_vars =>
          [edits' = edits => \A k \in Kernels : Bootable(k) => Bootable(k)']_vars
  BY EntryKeptStep
<1>3. BootInv /\ PlanInv /\ KeepInv /\ [Next]_vars => (BootInv /\ PlanInv /\ KeepInv)'
  BY BootStep, PlanStep, KeepStep
<1> QED
  BY <1>1, <1>2, <1>3, PTL DEF Spec, EntryKept

-----------------------------------------------------------------------------
(* A run that ends well *)

\* Every entry, on file or to be written, loads the initramfs of its own kernel.
AllOwn ==
    /\ \A n \in Present : files[n].initrd = "own"
    /\ \A w \in writes : w[2].initrd = "own"

LEMMA InitrdInit == ASSUME Initrds = {"own"}, Init PROVE AllOwn
  BY DEF Init, AllOwn, Present

LEMMA InitrdStep ==
    ASSUME Initrds = {"own"}, PlanInv, AllOwn, [Next]_vars
    PROVE  AllOwn'
<1> USE DEF AllOwn, Present
<1>1. ASSUME NEW n \in Names, files' = [files EXCEPT ![n] = None], writes' \subseteq writes
      PROVE  AllOwn'
  BY <1>1 DEF PlanInv
<1>2. ASSUME UNCHANGED files, writes' \subseteq writes PROVE AllOwn'
  BY <1>2
<1>n. deletes \cup pruning \subseteq Names /\ Own \subseteq Names
  BY DEF PlanInv, Ours, Names, Own
<1>3. CASE Prune \/ Delete
  BY <1>1, <1>2, <1>3, <1>n DEF Prune, Delete, Remove, Goto, boot, plan
<1>4. CASE Sync
  <2>1. PICK t \in Templates : writes' = SyncWrites(t)
    BY <1>4 DEF Sync
  <2>2. t \in Present
    BY NamesApart DEF Templates, Origin, Boots, Own, PlanInv
  <2> QED BY <1>4, <2>1, <2>2 DEF Sync, boot, SyncWrites, Rendered
<1>5. CASE Write
  <2>1. CASE \E w \in writes : /\ writes' = writes \ {w}
                               /\ files' = [files EXCEPT ![w[1]] = w[2]]
    BY <2>1 DEF PlanInv
  <2>2. CASE UNCHANGED files /\ writes' = writes
    BY <1>2, <2>2
  <2> QED BY <1>5, <2>1, <2>2 DEF Write, Goto, plan
<1>6. CASE UpdateRemoves
  BY <1>1, <1>6, <1>n DEF UpdateRemoves, plan
<1>7. CASE (\E k \in Built : Start(k)) \/ Gate1 \/ EnterScope \/ Install \/ RunMkinitcpio
           \/ UpdatePlans \/ Recover \/ UNCHANGED vars
  BY <1>2, <1>7 DEF Start, Gate1, EnterScope, Install, RunMkinitcpio, UpdatePlans,
                    Recover, Goto, vars, boot, plan
<1>8. CASE Gate3 \/ Fail
  BY <1>2, <1>8 DEF Gate3, Fail, Ends, boot
<1>9. CASE Operator
  <2>1. CASE WriteOwn
    BY <2>1 DEF WriteOwn, Deed, plan, PlanInv
  <2>2. CASE RemoveOwn
    BY <1>1, <1>n, <2>2 DEF RemoveOwn, Deed, plan
  <2>3. CASE TakeOver
    <3>1. PICK n \in Managed : files' = [files EXCEPT ![n].header = FALSE]
      BY <2>3 DEF TakeOver
    <3>2. n \in Names /\ files[n] \in Entry /\ files[n].initrd = "own"
      BY DEF Managed, PlanInv
    <3>3. files'[n].initrd = "own"
      BY <3>1, <3>2 DEF PlanInv, Entry
    <3>4. \A m \in Names \ {n} : files'[m] = files[m]
      BY <3>1 DEF PlanInv
    <3> QED BY <2>3, <3>3, <3>4 DEF TakeOver, Deed, plan
  <2>4. CASE RemoveKernel \/ SetPrefix \/ Reboot
    BY <1>2, <2>4 DEF RemoveKernel, SetPrefix, Reboot, Deed, boot, plan
  <2> QED BY <1>9, <2>1, <2>2, <2>3, <2>4 DEF Operator
<1> QED
  BY <1>3, <1>4, <1>5, <1>6, <1>7, <1>8, <1>9 DEF Next

LEMMA DoneStep ==
    ASSUME BootInv, PlanInv, AllOwn, [Next]_vars, pc = "verify", ~sentinel'
    PROVE  /\ initramfs'[target] = image'[target]
           /\ \E n \in Names : /\ files'[n] # None /\ files'[n].kernel = target
                               /\ files'[n].initrd = "own"
<1>1. sentinel
  BY DEF BootInv, Scope
<1>2. Gate3
  BY <1>1 DEF Next, Start, Prune, Remove, Gate1, EnterScope, Install, RunMkinitcpio,
              Sync, Write, Delete, Fail, Recover, UpdatePlans, UpdateRemoves, Operator,
              WriteOwn, RemoveOwn, TakeOver, RemoveKernel, SetPrefix, Reboot, Deed, vars
<1>3. target \in Kernels /\ Matched /\ UNCHANGED boot
  BY <1>2 DEF BootInv, Gate3, Kernels
<1> QED
  BY <1>2, <1>3 DEF Gate3, Boots, Present, Matched, AllOwn, boot

(* Among entries that load the initramfs of their own kernel, a run that    *)
(* passes Gate 3 leaves a kernel that boots, with the initramfs mkinitcpio  *)
(* made for it: render_entry, run_mkinitcpio, gate3_verify.                 *)
THEOREM DoneBoots == ASSUME Initrds = {"own"} PROVE Spec => DoneMeansBootable
<1>1. Init => BootInv /\ PlanInv /\ AllOwn
  BY BootInit, PlanInit, InitrdInit
<1>2. BootInv /\ PlanInv /\ AllOwn /\ [Next]_vars => (BootInv /\ PlanInv /\ AllOwn)'
  BY BootStep, PlanStep, InitrdStep
<1>3. BootInv /\ PlanInv /\ AllOwn /\ [Next]_vars =>
          [pc = "verify" /\ ~sentinel' =>
              /\ initramfs'[target] = image'[target]
              /\ \E n \in Names : /\ files'[n] # None /\ files'[n].kernel = target
                                  /\ files'[n].initrd = "own"]_vars
  BY DoneStep
<1> QED
  BY <1>1, <1>2, <1>3, PTL DEF Spec, DoneMeansBootable
-----------------------------------------------------------------------------
(* The types *)

LEMMA TypeInit == Init => TypeOK
<1> SUFFICES ASSUME Init PROVE TypeOK
  OBVIOUS
<1>1. image \in [Kernels -> 0 .. MaxVersion]
  BY BoundsTyped DEF Init
<1>2. selected \in Names
  BY DEF Init, Names
<1>3. PlanInv
  BY PlanInit
<1>4. /\ initramfs = image /\ prefix \in Prefixes /\ sentinel = FALSE
      /\ pc = "idle" /\ target = None /\ runs = 0 /\ edits = 0
      /\ writes = {} /\ deletes = {} /\ skipped = {} /\ pruning = {}
  BY DEF Init
<1>5. 0 \in 0 .. MaxRuns
  BY BoundsTyped
<1> QED
  BY <1>1, <1>2, <1>3, <1>4, <1>5 DEF TypeOK, PlanInv, PCs

LEMMA TypeStep ==
    ASSUME TypeOK, BootInv, PlanInv, PlanInv', [Next]_vars
    PROVE  TypeOK'
<1> USE DEF TypeOK
<1>1. /\ (files \in [Names -> Entry \cup {None}])'
      /\ (prefix \in Prefixes)' /\ (edits \in 0 .. MaxEdits)'
      /\ (writes \in SUBSET (ManagedNames \X Entry))'
      /\ (deletes \in SUBSET ManagedNames)' /\ (pruning \in SUBSET ManagedNames)'
  <2>1. ASSUME NEW w \in writes' PROVE w \in ManagedNames \X Entry
    <3>1. w[1] \in ManagedNames /\ w[2] \in Entry
      BY DEF PlanInv, Ours
    <3>2. w \in writes \/ \E a \in ManagedNames, e \in Entry : w = <<a, e>>
      <4>1. writes' \subseteq writes \/ Sync
        BY DEF Next, Start, Prune, Remove, Gate1, EnterScope, Install, RunMkinitcpio,
           Write, Delete, Gate3, Fail, Recover, UpdatePlans, UpdateRemoves, Operator,
           WriteOwn, RemoveOwn, TakeOver, RemoveKernel, SetPrefix, Reboot, Deed, Goto,
           Ends, vars, plan
      <4>2. CASE Sync
        BY <3>1, <4>2 DEF Sync, SyncWrites
      <4> QED BY <4>1, <4>2
    <3> QED BY <3>2
  <2> QED BY <2>1 DEF PlanInv, Ours
<1>2. ASSUME UNCHANGED <<image, initramfs, selected, sentinel, runs>>,
             \/ UNCHANGED <<pc, target, skipped>>
             \/ pc' \in PCs \ {"idle"} /\ pc # "idle" /\ UNCHANGED <<target, skipped>>
             \/ Ends
      PROVE  TypeOK'
  BY <1>1, <1>2, KernelsApart DEF PCs, Ends
<1>3. ASSUME NEW k \in Built, Start(k) PROVE TypeOK'
  <2>1. k # None
    BY KernelsApart DEF Built
  <2>2. runs' \in 0 .. MaxRuns
    BY <1>3, BoundsTyped DEF Start
  <2> QED BY <1>1, <1>3, <2>1, <2>2 DEF Start, boot, PCs
<1>4. CASE Prune
  BY <1>2, <1>4 DEF Prune, Remove, Goto, boot, plan, PCs
<1>5. CASE Gate1
  BY <1>2, <1>5 DEF Gate1, Goto, boot, plan, PCs
<1>6. CASE EnterScope
  <2>1. sentinel' \in BOOLEAN /\ pc' = "install" /\ target' # None
    BY <1>6 DEF EnterScope, Goto
  <2> QED BY <1>1, <1>6, <2>1 DEF EnterScope, Goto, boot, plan, PCs
<1>7. CASE Install
  <2>1. PICK v \in 1 .. MaxVersion : image' = [image EXCEPT ![target] = v]
    BY <1>7 DEF Install
  <2>2. v \in 0 .. MaxVersion
    BY <2>1, BoundsTyped
  <2>3. image' \in [Kernels -> 0 .. MaxVersion] /\ target # None
    BY <1>7, <2>1, <2>2 DEF Install
  <2> QED BY <1>1, <1>7, <2>3 DEF Install, Goto, plan, PCs
<1>r. Regenerated \in [Kernels -> 0 .. MaxVersion]
  BY DEF Regenerated
<1>8. CASE RunMkinitcpio
  BY <1>1, <1>8, <1>r DEF RunMkinitcpio, Goto, plan, PCs
<1>9. CASE Sync
  <2>1. target \in Built /\ NameTaken \subseteq Built /\ target # None
    BY <1>9, KernelsApart DEF Sync, NameTaken, Targets, Dangling, PlanInv, Built
  <2> QED BY <1>1, <1>9, <2>1 DEF Sync, boot, PCs
<1>10. CASE Write
  BY <1>2, <1>10 DEF Write, Goto, plan, PCs
<1>11. CASE Delete
  BY <1>2, <1>11 DEF Delete, Remove, Goto, boot, plan, PCs
<1>12. CASE Gate3
  BY <1>1, <1>12 DEF Gate3, Ends, boot, PCs
<1>13. CASE Fail
  <2>1. initramfs' \in [Kernels -> 0 .. MaxVersion]
    BY <1>13 DEF Fail
  <2> QED BY <1>1, <1>13, <2>1 DEF Fail, Ends, PCs
<1>14. CASE Recover
  BY <1>1, <1>14, <1>r DEF Recover, plan
<1>15. CASE UpdatePlans
  BY <1>2, <1>15 DEF UpdatePlans, boot, plan
<1>16. CASE UpdateRemoves
  BY <1>2, <1>16 DEF UpdateRemoves, plan
<1>17. CASE Operator
  <2>1. CASE WriteOwn \/ RemoveOwn \/ TakeOver \/ SetPrefix
    BY <1>2, <2>1 DEF WriteOwn, RemoveOwn, TakeOver, SetPrefix, Deed, boot, plan
  <2>2. CASE RemoveKernel
    <3>1. 0 \in 0 .. MaxVersion
      BY BoundsTyped
    <3>2. image' \in [Kernels -> 0 .. MaxVersion] /\ initramfs' \in [Kernels -> 0 .. MaxVersion]
      BY <2>2, <3>1 DEF RemoveKernel
    <3> QED BY <1>1, <2>2, <3>2 DEF RemoveKernel, Deed, plan
  <2>3. CASE Reboot
    BY <1>1, <2>3 DEF Reboot, Present, Deed, boot, plan
  <2> QED BY <1>17, <2>1, <2>2, <2>3 DEF Operator
<1>18. CASE UNCHANGED vars
  BY <1>2, <1>18 DEF vars, boot, plan
<1> QED
  BY <1>3, <1>4, <1>5, <1>6, <1>7, <1>8, <1>9, <1>10, <1>11, <1>12, <1>13, <1>14, <1>15,
     <1>16, <1>17, <1>18 DEF Next

(* Every variable of the kernel stage has its type, and no run is without   *)
(* the kernel it installs: the whole module.                                *)
THEOREM TypeCorrect == Spec => []TypeOK
<1>1. Init => TypeOK /\ BootInv /\ PlanInv
  BY BootInit, PlanInit, TypeInit
<1>2. TypeOK /\ BootInv /\ PlanInv /\ [Next]_vars => (TypeOK /\ BootInv /\ PlanInv)'
  BY BootStep, PlanStep, TypeStep
<1> QED
  BY <1>1, <1>2, PTL DEF Spec

-----------------------------------------------------------------------------
(* The rounds of sampled profiles.                                         *)

Build    == [role : Roles, ver : Nat, config : {"good", "brick"}, apply : Nat \X Nat, prop : BOOLEAN]
Works    == [phase : {"build", "audit", "install", "finish"}, mode : {"off", "record", "use"},
             prop : BOOLEAN, role : Roles, apply : Nat \X Nat, force : BOOLEAN, review : BOOLEAN,
             allow : BOOLEAN, kernel : Nat, audits : Nat, fresh : BOOLEAN]
Kept     == [profile : Nat, pinned : Nat, round : {Unset} \cup [ver : Nat, sha : Nat],
             applied : {Unset} \cup (Nat \X Nat)]
Tree     == kernelTree["profiling"]
Numbers  == 1 .. Len(builds)

FdoTyped ==
    /\ version \in 1 .. MaxRelease /\ config \in {"good", "brick"}
    /\ builds \in Seq(Build)
    /\ kernelTree \in [Roles -> {Unset} \cup [build : Nat, whole : BOOLEAN]]
    /\ \A r \in Roles : kernelTree[r] # Unset => kernelTree[r].build \in Numbers
    /\ package \in [Roles \X (1 .. MaxRelease) -> Nat] /\ archive \in [Roles \X (1 .. MaxRelease) -> Nat]
    /\ \A x \in Roles \X (1 .. MaxRelease) : package[x] # 0 =>
          package[x] \in Numbers /\ builds[package[x]].role = x[1] /\ x[2] <= version
    /\ store \in [Stores -> Kept] /\ perf \in [Stores -> Nat]
    /\ work \in {Off} \cup Works

(* Profiles are sampled from ever newer kernels: no profile that a build or  *)
(* the store has is newer than the one in the store, if it has one, or than  *)
(* the kernel whose tree is there.                                           *)
UpTo(a, limit) == a[1] <= limit /\ a[2] <= limit
Within(a, last, tree, afdo, prop) ==
    /\ UpTo(a, last) /\ (tree # Unset => UpTo(a, tree.build))
    /\ afdo # 0 => a[1] <= afdo
    /\ prop # 0 => a[2] <= prop
Bounded(a) == Within(a, Len(builds), Tree, store.afdo.profile, store.prop.profile)

ProfilesGrow ==
    /\ \A n \in Numbers : Bounded(builds[n].apply)
    /\ \A n \in Numbers : builds[n].prop \/ builds[n].role = "propeller" => builds[n].apply[1] <= store.prop.pinned
    /\ \A n \in Numbers : builds[n].role = "fdo" => builds[n].apply[2] = 0
    /\ Bounded(<<store.afdo.profile, store.prop.profile>>) /\ Bounded(<<store.prop.pinned, 0>>)
    /\ store.afdo.pinned = 0
    /\ \A m \in Stores : store[m].applied # Unset => Bounded(store[m].applied)
    /\ store.afdo.applied # Unset => store.afdo.applied[2] = 0
    /\ store.prop.applied # Unset => store.prop.applied[1] <= store.prop.pinned

(* What a package applies is not older than what was noted last.            *)
RoleIn(m) == IF m = "prop" THEN "propeller" ELSE "fdo"
NotOlder ==
    \A m \in Stores :
        LET p == package[<<RoleIn(m), version>>]
        IN  p # 0 /\ store[m].applied # Unset =>
                /\ store[m].applied[1] <= builds[p].apply[1]
                /\ store[m].applied[2] <= builds[p].apply[2]

(* Since the round was noted, only kernels of its version, with its or newer *)
(* profiles, were built to be sampled.                                       *)
OfRound(k) == builds[k].prop => builds[k].ver = version /\ store.prop.round.sha <= builds[k].apply[1]
RoundInv ==
    store.prop.round # Unset =>
        /\ store.prop.round.ver <= version /\ store.prop.round.sha <= store.prop.pinned
        /\ store.prop.round.ver = version =>
              /\ store.prop.profile # 0 => OfRound(store.prop.profile)
              /\ Tree # Unset => OfRound(Tree.build)

(* The run: its profiles are the store's, and what it has built is its own. *)
HasBuilt == work.phase \in {"audit", "install", "finish"}
WorkInv ==
    work # Off =>
        /\ work.role = RoleOf(work.mode, work.prop)
        /\ work.mode = "off" => work.apply = <<0, 0>> /\ ~work.prop
        /\ work.mode = "record" =>
              /\ work.force /\ work.apply = <<store[MethodOf(work.prop)].pinned, 0>>
              /\ work.prop => store.prop.profile = 0
              /\ work.prop /\ HasBuilt /\ Tree # Unset =>
                    builds[Tree.build].ver = version /\ builds[Tree.build].apply[1] = store.prop.pinned
        /\ work.mode = "use" =>
              /\ work.apply = Applies(MethodOf(work.prop)) /\ store[MethodOf(work.prop)].profile # 0
              /\ ~work.force => store[MethodOf(work.prop)].applied = work.apply
              /\ HasBuilt => /\ work.kernel = package[<<work.role, version>>] /\ work.kernel # 0
                          /\ builds[work.kernel].apply = work.apply
              /\ work.prop /\ VersionKnown /\ builds[work.apply[2]].prop =>
                    builds[work.apply[2]].ver = version /\ builds[work.apply[2]].apply[1] = work.apply[1]

FdoInv == FdoTyped /\ ProfilesGrow /\ NotOlder /\ RoundInv /\ WorkInv

\* The tree of the kernel that is sampled is of a build.
LEMMA TreeIs ==
    ASSUME FdoTyped
    PROVE  Len(builds) \in Nat /\ (Tree # Unset => Tree.build \in Numbers /\ Tree.build \in Nat)
<1>1. Len(builds) \in Nat
  BY DEF FdoTyped
<1>2. Tree # Unset => Tree.build \in Numbers
  BY DEF FdoTyped, Tree, Roles
<1> QED
  BY <1>1, <1>2 DEF Numbers

LEMMA PairWithin ==
    ASSUME NEW x, NEW y, NEW last, NEW tree, NEW afdo, NEW prop
    PROVE  Within(<<x, y>>, last, tree, afdo, prop) <=>
              /\ x <= last /\ y <= last /\ (tree # Unset => x <= tree.build /\ y <= tree.build)
              /\ (afdo # 0 => x <= afdo) /\ (prop # 0 => y <= prop)
  BY DEF Within, UpTo

\* The profiles of two builds, taken together.
LEMMA WithinMixed ==
    ASSUME NEW a, NEW b, NEW last, NEW tree, NEW afdo, NEW prop,
           Within(a, last, tree, afdo, prop), Within(b, last, tree, afdo, prop)
    PROVE  Within(<<a[1], b[2]>>, last, tree, afdo, prop)
  BY DEF Within, UpTo

\* What is known of the store's fields and of the numbers in them.
LEMMA StoreIs ==
    ASSUME FdoTyped
    PROVE  /\ store.afdo \in Kept /\ store.prop \in Kept /\ store \in [Stores -> Kept]
           /\ store.afdo.profile \in Nat /\ store.prop.profile \in Nat /\ store.prop.pinned \in Nat
           /\ store.prop.round # Unset => store.prop.round.ver \in Nat /\ store.prop.round.sha \in Nat
           /\ \A m \in Stores : store[m].applied # Unset => store[m].applied \in Nat \X Nat
           /\ version \in Nat
           /\ \A n \in Numbers : builds[n] \in Build /\ builds[n].apply \in Nat \X Nat /\ builds[n].ver \in Nat
<1>1. store \in [Stores -> Kept] /\ store.afdo \in Kept /\ store.prop \in Kept
  BY DEF FdoTyped, Stores
<1>2. \A n \in Numbers : builds[n] \in Build
  BY DEF FdoTyped, Numbers
<1>3. version \in Nat
  BY FdoAssumption DEF FdoTyped
<1> QED
  BY <1>1, <1>2, <1>3 DEF Kept, Build

\* No profile at all is within every bound.
LEMMA NoneBounded == FdoTyped => Bounded(<<0, 0>>)
  BY TreeIs, StoreIs DEF Bounded, Within, UpTo

LEMMA RoleIs ==
    /\ \A prop : RoleOf("off", prop) = "plain" /\ RoleOf("record", prop) = "profiling"
    /\ RoleOf("use", TRUE) = "propeller" /\ RoleOf("use", FALSE) = "fdo"
  BY DEF RoleOf

\* What a run is to apply is bounded like what was applied.
LEMMA WorkBounded ==
    ASSUME FdoTyped, ProfilesGrow, WorkInv, work # Off
    PROVE  /\ work \in Works /\ Bounded(work.apply)
           /\ work.role = "propeller" => work.mode = "use" /\ work.prop
           /\ work.role = "fdo" => work.mode = "use" /\ ~work.prop /\ work.apply[2] = 0
           /\ work.role = "profiling" <=> work.mode = "record"
           /\ work.role = "propeller" \/ (work.mode = "record" /\ work.prop) => work.apply[1] = store.prop.pinned
           /\ work.mode = "use" => work.role = RoleIn(MethodOf(work.prop))
<1>1. work \in Works /\ work.role = RoleOf(work.mode, work.prop)
  BY DEF FdoTyped, WorkInv
<1>2. /\ store \in [Stores -> Kept] /\ store.afdo.profile \in Nat
      /\ store.prop.profile \in Nat /\ store.prop.pinned \in Nat
  BY DEF FdoTyped, Stores, Kept
<1>3. CASE work.mode = "off"
  <2>1. work.apply = <<0, 0>> /\ ~work.prop /\ work.role = "plain"
    BY <1>1, <1>3, RoleIs DEF WorkInv
  <2>2. Bounded(<<0, 0>>)
    BY NoneBounded
  <2> QED
    BY <1>1, <1>3, <2>1, <2>2
<1>4. CASE work.mode = "record"
  <2>1. work.apply = <<store[MethodOf(work.prop)].pinned, 0>> /\ work.role = "profiling"
    BY <1>1, <1>4, RoleIs DEF WorkInv
  <2>2. CASE work.prop
    <3>1. work.apply = <<store.prop.pinned, 0>>
      BY <2>1, <2>2 DEF MethodOf
    <3>2. Bounded(<<store.prop.pinned, 0>>) /\ work.apply[1] = store.prop.pinned
      BY <3>1 DEF ProfilesGrow
    <3> QED
      BY <1>1, <1>4, <2>1, <2>2, <3>1, <3>2
  <2>3. CASE ~work.prop
    <3>1. work.apply = <<0, 0>>
      BY <2>1, <2>3 DEF MethodOf, ProfilesGrow
    <3>2. Bounded(<<0, 0>>)
      BY NoneBounded
    <3> QED
      BY <1>1, <1>4, <2>1, <2>3, <3>1, <3>2
  <2> QED
    BY <2>2, <2>3
<1>5. CASE work.mode = "use"
  <2>1. work.apply = Applies(MethodOf(work.prop)) /\ work.prop \in BOOLEAN
    BY <1>1, <1>5 DEF WorkInv, Works
  <2>2. CASE work.prop
    <3>1. work.apply = <<store.prop.pinned, store.prop.profile>> /\ work.role = "propeller"
      BY <1>1, <1>5, <2>1, <2>2, RoleIs DEF Applies, MethodOf
    <3>2. Bounded(<<store.prop.pinned, store.prop.profile>>)
      <4>1. Bounded(<<store.afdo.profile, store.prop.profile>>) /\ Bounded(<<store.prop.pinned, 0>>)
        BY DEF ProfilesGrow
      <4> QED
        BY <4>1 DEF Bounded, Within, UpTo
    <3> QED
      <4>1. work.apply[1] = store.prop.pinned /\ Bounded(work.apply)
        BY <3>1, <3>2
      <4>2. RoleIn(MethodOf(work.prop)) = "propeller"
        BY <2>2 DEF RoleIn, MethodOf
      <4> QED
        BY <1>1, <1>5, <2>2, <3>1, <4>1, <4>2
  <2>3. CASE ~work.prop
    <3>1. work.apply = <<store.afdo.profile, 0>> /\ work.role = "fdo"
      BY <1>1, <1>5, <2>1, <2>3, RoleIs DEF Applies, MethodOf
    <3>2. Bounded(<<store.afdo.profile, 0>>)
      BY NoneBounded, WithinMixed DEF ProfilesGrow, Bounded
    <3> QED
      BY <1>1, <1>5, <2>3, <3>1, <3>2 DEF RoleIn, MethodOf
  <2> QED
    BY <2>1, <2>2, <2>3
<1> QED
  BY <1>1, <1>3, <1>4, <1>5 DEF Works

LEMMA FdoInit == InitFdo => FdoInv
<1> SUFFICES ASSUME InitFdo PROVE FdoInv
  OBVIOUS
<1> DEFINE none == [profile |-> 0, pinned |-> 0, round |-> Unset, applied |-> Unset]
<1>1. /\ builds = <<>> /\ Len(builds) = 0 /\ Numbers = {} /\ work = Off
      /\ store = [m \in Stores |-> none] /\ store.afdo = none /\ store.prop = none
  BY DEF InitFdo, Numbers, Stores
<1>2. \A r \in Roles : kernelTree[r] = Unset
  BY DEF InitFdo
<1>3. FdoTyped
  <2>1. store \in [Stores -> Kept]
    BY <1>1 DEF Kept
  <2>2. /\ package \in [Roles \X (1 .. MaxRelease) -> Nat] /\ archive \in [Roles \X (1 .. MaxRelease) -> Nat]
        /\ \A x \in Roles \X (1 .. MaxRelease) : package[x] = 0
    BY DEF InitFdo
  <2>3. version \in 1 .. MaxRelease /\ perf \in [Stores -> Nat] /\ config \in {"good", "brick"}
    BY FdoAssumption DEF InitFdo
  <2>4. kernelTree \in [Roles -> {Unset} \cup [build : Nat, whole : BOOLEAN]]
    BY DEF InitFdo
  <2>5. builds \in Seq(Build)
    BY <1>1
  <2> QED
    BY <1>1, <1>2, <2>1, <2>2, <2>3, <2>4, <2>5 DEF FdoTyped
<1>4. ProfilesGrow
  <2>1. Tree = Unset
    BY <1>2 DEF Tree, Roles
  <2>2. \A m \in Stores : store[m].applied = Unset
    BY <1>1
  <2> QED
    BY <1>1, <2>1, <2>2 DEF ProfilesGrow, Bounded, Within, UpTo
<1>5. NotOlder /\ RoundInv /\ WorkInv
  BY <1>1 DEF NotOlder, RoundInv, WorkInv
<1> QED
  BY <1>3, <1>4, <1>5 DEF FdoInv

\* A plan clears the profiles that a sampled kernel replaces, or takes those of the store.
LEMMA PlanFits ==
    ASSUME FdoInv, NEW q \in Requests, Plan(q)
    PROVE  FdoInv'
<1>1. /\ FdoTyped /\ ProfilesGrow /\ NotOlder /\ RoundInv /\ work = Off
      /\ UNCHANGED <<version, config, builds, kernelTree, package, archive, perf>>
      /\ q.mode \in {"off", "record", "use"} /\ q.prop \in BOOLEAN /\ q.review \in BOOLEAN /\ q.allow \in BOOLEAN
  BY FdoAssumption DEF FdoInv, Plan, FdoTyped, Works
<1>2. /\ store \in [Stores -> Kept] /\ store.afdo \in Kept /\ store.prop \in Kept
      /\ store.afdo.profile \in Nat /\ store.prop.profile \in Nat /\ store.prop.pinned \in Nat
      /\ store.afdo.pinned \in Nat
  BY <1>1 DEF FdoTyped, Stores, Kept
<1>3. Tree' = Tree /\ Numbers' = Numbers
  BY <1>1 DEF Tree, Numbers
<1>4. ASSUME store' \in [Stores -> Kept], work' \in {Off} \cup Works PROVE FdoTyped'
  BY <1>1, <1>3, <1>4 DEF FdoTyped
<1>5. CASE PlanRecord(q)
  <2> DEFINE m == MethodOf(q.prop)
  <2>1. /\ q.mode = "record" /\ m \in Stores
        /\ \/ store' = Cleared(m) /\ work' = Off /\ q.prop
           \/ /\ store' = IF q.prop THEN [Cleared(m) EXCEPT !.prop.pinned = Cleared(m).afdo.profile] ELSE Cleared(m)
              /\ work' = Work(q, q.prop, <<store'[m].pinned, 0>>, TRUE)
              /\ q.prop => Cleared(m).afdo.profile # 0
    BY <1>1, <1>5 DEF PlanRecord, MethodOf, Stores
  <2>2. Cleared(m) = [store EXCEPT ![m].profile = 0]
    BY DEF Cleared
  <2>3. /\ store' \in [Stores -> Kept]
        /\ \A s \in Stores : store'[s].applied = store[s].applied /\ store'[s].round = store[s].round
                             /\ store'[s].profile = IF s = m THEN 0 ELSE store[s].profile
        /\ store'.afdo.pinned = store.afdo.pinned
        /\ store'.prop.pinned # store.prop.pinned =>
              q.prop /\ store.afdo.profile # 0 /\ store'.prop.pinned = store.afdo.profile
    <3>1. CASE ~q.prop
      <4>1. m = "afdo" /\ store' = [store EXCEPT !["afdo"].profile = 0]
        BY <2>1, <2>2, <3>1 DEF MethodOf
      <4>2. store'["afdo"] = [store["afdo"] EXCEPT !.profile = 0] /\ store'["prop"] = store["prop"]
        BY <1>2, <4>1 DEF Stores
      <4>3. store'["afdo"] \in Kept /\ store' \in [Stores -> Kept]
        BY <1>2, <4>1, <4>2 DEF Kept, Stores
      <4> QED
        BY <1>2, <3>1, <4>1, <4>2, <4>3 DEF Kept, Stores
    <3>2. CASE q.prop /\ store' = Cleared(m)
      <4>1. m = "prop" /\ store' = [store EXCEPT !["prop"].profile = 0]
        BY <2>2, <3>2 DEF MethodOf
      <4>2. store'["prop"] = [store["prop"] EXCEPT !.profile = 0] /\ store'["afdo"] = store["afdo"]
        BY <1>2, <4>1 DEF Stores
      <4>3. store'["prop"] \in Kept /\ store' \in [Stores -> Kept]
        BY <1>2, <4>1, <4>2 DEF Kept, Stores
      <4> QED
        BY <1>2, <4>1, <4>2, <4>3 DEF Kept, Stores
    <3>3. CASE q.prop /\ Cleared(m).afdo.profile # 0
               /\ store' = [Cleared(m) EXCEPT !.prop.pinned = Cleared(m).afdo.profile]
      <4> DEFINE cleared == Cleared(m)
      <4>1. m = "prop" /\ cleared = [store EXCEPT !["prop"].profile = 0]
        BY <2>2, <3>3 DEF MethodOf
      <4>2. /\ cleared["prop"] = [store["prop"] EXCEPT !.profile = 0] /\ cleared["afdo"] = store["afdo"]
            /\ cleared["prop"] \in Kept /\ cleared \in [Stores -> Kept]
        BY <1>2, <4>1 DEF Kept, Stores
      <4> HIDE DEF cleared
      <4>3. /\ store'["prop"] = [cleared["prop"] EXCEPT !.pinned = store["afdo"].profile]
            /\ store'["afdo"] = store["afdo"] /\ store' \in [Stores -> Kept] /\ store.afdo.profile # 0
        <5>1. store' = [cleared EXCEPT !["prop"].pinned = cleared["afdo"].profile] /\ cleared.afdo.profile # 0
          BY <3>3 DEF cleared
        <5>2. [cleared["prop"] EXCEPT !.pinned = store["afdo"].profile] \in Kept
          BY <1>2, <4>2 DEF Kept
        <5> QED
          BY <1>2, <4>2, <5>1, <5>2 DEF Stores
      <4> QED
        <5>1. /\ store'["prop"].pinned = store["afdo"].profile /\ store'["prop"].profile = 0
              /\ store'["prop"].applied = store["prop"].applied /\ store'["prop"].round = store["prop"].round
          BY <1>2, <4>2, <4>3 DEF Kept
        <5>2. \A s \in Stores : store'[s].applied = store[s].applied /\ store'[s].round = store[s].round
          BY <4>3, <5>1 DEF Stores
        <5>3. \A s \in Stores : store'[s].profile = IF s = m THEN 0 ELSE store[s].profile
          BY <4>1, <4>3, <5>1 DEF Stores
        <5>4. q.prop /\ store.afdo.profile # 0 /\ store'.prop.pinned = store.afdo.profile
          BY <3>3, <4>3, <5>1
        <5> QED
          BY <4>3, <5>2, <5>3, <5>4
    <3> QED
      BY <2>1, <2>2, <3>1, <3>2, <3>3
  <2>4. /\ store'.afdo.applied = store.afdo.applied /\ store'.prop.applied = store.prop.applied
        /\ store'.prop.round = store.prop.round /\ store'.prop.profile \in {0, store.prop.profile}
        /\ store'.afdo.profile \in {0, store.afdo.profile} /\ (q.prop => store'.prop.profile = 0)
        /\ store'.afdo.profile \in Nat /\ store'.prop.profile \in Nat /\ store'.prop.pinned \in Nat
    BY <1>2, <2>3 DEF Stores, MethodOf, Kept
  <2>5. /\ store.prop.pinned <= store'.prop.pinned
        /\ \A a \in Nat \X Nat : Bounded(a) /\ a[1] <= store.prop.pinned => a[1] <= store'.prop.pinned
    <3>1. Bounded(<<store.prop.pinned, 0>>)
      BY <1>1 DEF ProfilesGrow
    <3>2. store'.prop.pinned # store.prop.pinned =>
             store.afdo.profile # 0 /\ store'.prop.pinned = store.afdo.profile
      BY <2>3
    <3> QED
      BY <1>2, <3>1, <3>2 DEF Bounded, Within
  <2>6. FdoTyped'
    <3>1. Work(q, q.prop, <<store'[m].pinned, 0>>, TRUE) \in Works
      <4>1. store'[m].pinned \in Nat
        BY <2>1, <2>3 DEF Kept
      <4> QED
        BY <1>1, <2>1, <4>1, RoleIs DEF Work, Works, Roles
    <3> QED
      BY <1>4, <2>1, <2>3, <3>1
  <2>7. \A a : Bounded(a) => Within(a, Len(builds), Tree, store'.afdo.profile, store'.prop.profile)
    BY <1>2, <2>4 DEF Bounded, Within
  <2>8. ProfilesGrow'
    <3>1. \A n \in Numbers : builds[n].prop \/ builds[n].role = "propeller" =>
             builds[n].apply[1] <= store'.prop.pinned
      BY <1>1, <2>5, StoreIs DEF ProfilesGrow
    <3>2. Bounded(<<store'.prop.pinned, 0>>)
      <4>1. CASE store'.prop.pinned = store.prop.pinned
        BY <1>1, <4>1 DEF ProfilesGrow
      <4>2. CASE store'.prop.pinned = store.afdo.profile
        <5>1. Bounded(<<store.afdo.profile, store.prop.profile>>)
          BY <1>1 DEF ProfilesGrow
        <5> QED
          BY <1>1, <1>2, <4>2, <5>1, TreeIs DEF Bounded, Within, UpTo
      <4> QED
        BY <2>3, <4>1, <4>2
    <3>3. Bounded(<<store'.afdo.profile, store'.prop.profile>>)
      <4>1. Bounded(<<store.afdo.profile, store.prop.profile>>)
        BY <1>1 DEF ProfilesGrow
      <4> QED
        BY <1>1, <1>2, <2>4, <4>1, TreeIs DEF Bounded, Within, UpTo
    <3>4. store.prop.applied # Unset => store.prop.applied[1] <= store'.prop.pinned
      BY <1>1, <2>5, StoreIs DEF ProfilesGrow, Stores
    <3> QED
      BY <1>1, <1>3, <2>3, <2>4, <2>7, <3>1, <3>2, <3>3, <3>4 DEF ProfilesGrow, Bounded
  <2>9. NotOlder'
    BY <1>1, <2>3 DEF NotOlder
  <2>10. RoundInv'
    <3>1. \A k : OfRound(k)' <=> OfRound(k)
      BY <1>1, <2>4 DEF OfRound
    <3>2. store.prop.round # Unset => store.prop.round.sha \in Nat
      BY <1>2 DEF Kept
    <3> QED
      BY <1>1, <1>2, <1>3, <2>4, <2>5, <3>1, <3>2 DEF RoundInv
  <2>11. WorkInv'
    <3>1. CASE work' = Off
      BY <3>1 DEF WorkInv
    <3>2. CASE work' = Work(q, q.prop, <<store'[m].pinned, 0>>, TRUE)
      <4>1. /\ work'.mode = "record" /\ work'.prop = q.prop /\ work'.role = RoleOf("record", q.prop)
            /\ work'.force /\ work'.apply = <<store'[MethodOf(q.prop)].pinned, 0>> /\ work'.phase = "build"
        BY <2>1, <3>2 DEF Work
      <4> QED
        BY <2>4, <4>1 DEF WorkInv, HasBuilt
    <3> QED
      BY <2>1, <3>1, <3>2
  <2> QED
    BY <2>6, <2>8, <2>9, <2>10, <2>11 DEF FdoInv
<1>6. CASE UNCHANGED store
  <2>1. ProfilesGrow'
    BY <1>1, <1>3, <1>6 DEF ProfilesGrow, Bounded, Within, UpTo
  <2>2. NotOlder' /\ RoundInv'
    BY <1>1, <1>3, <1>6 DEF NotOlder, RoundInv, OfRound
  <2>3. CASE PlanUse(q)
    <3>0. PICK prop \in BOOLEAN, m \in Stores : prop = (q.prop /\ ~FallsBack(q)) /\ m = MethodOf(prop)
      BY DEF MethodOf, Stores
    <3>1. /\ q.mode = "use" /\ HasProfile(MethodOf(q.prop)) /\ ~Mismatched(q)
          /\ HasProfile(m) /\ work' = Work(q, prop, Applies(m), Stale(m))
      BY <2>3, <3>0 DEF PlanUse
    <3>2. work' \in Works
      <4>1. Applies(m) \in Nat \X Nat
        BY <1>2 DEF Applies
      <4>2. Stale(m) \in BOOLEAN
        BY DEF Stale
      <4>3. RoleOf("use", prop) \in Roles
        BY <3>1, RoleIs DEF Roles
      <4> QED
        BY <1>1, <3>1, <4>1, <4>2, <4>3 DEF Work, Works
    <3>3. /\ work'.mode = "use" /\ work'.prop = prop /\ work'.role = RoleOf("use", prop)
          /\ work'.force = Stale(m) /\ work'.apply = Applies(m) /\ work'.phase = "build"
      BY <3>1 DEF Work
    <3>4. store[m].profile # 0
      BY <3>0, <3>1 DEF HasProfile, MethodOf
    <3>5. ASSUME prop, VersionKnown, builds[Applies(m)[2]].prop
          PROVE  builds[Applies(m)[2]].ver = version /\ builds[Applies(m)[2]].apply[1] = Applies(m)[1]
      <4>1. q.prop /\ m = "prop" /\ Applies(m) = <<store.prop.pinned, store.prop.profile>>
        BY <3>0, <3>5 DEF MethodOf, Applies
      <4>2. /\ store.prop.round # Unset /\ store.prop.round.sha = store.prop.pinned
            /\ store.prop.profile # 0
        BY <3>1, <4>1 DEF HasProfile
      <4>3. store.prop.round.ver = version
        BY <3>0, <3>1, <3>5, <4>1 DEF FallsBack, Mismatched
      <4>4. OfRound(store.prop.profile)
        BY <1>1, <4>2, <4>3 DEF RoundInv
      <4>5. store.prop.profile \in Numbers
        BY <1>1, <1>2, <4>2, TreeIs DEF ProfilesGrow, Bounded, Within, UpTo, Numbers
      <4>6. builds[store.prop.profile].apply[1] <= store.prop.pinned /\ builds[store.prop.profile] \in Build
        BY <1>1, <3>5, <4>1, <4>5 DEF ProfilesGrow, FdoTyped, Numbers
      <4>7. builds[store.prop.profile].apply[1] \in Nat
        BY <4>6 DEF Build
      <4> QED
        BY <1>2, <3>5, <4>1, <4>2, <4>4, <4>6, <4>7 DEF OfRound
    <3>6. WorkInv'
      <4>1. ~Stale(m) => store[m].applied = Applies(m)
        BY DEF Stale
      <4>2. Applies(m)' = Applies(m)
        BY <1>6 DEF Applies
      <4>3. MethodOf(work'.prop) = m
        BY <3>0, <3>3
      <4>4. ~HasBuilt'
        BY <3>3 DEF HasBuilt
      <4> QED
        BY <1>1, <1>6, <3>3, <3>4, <3>5, <4>1, <4>2, <4>3, <4>4 DEF WorkInv
    <3> QED
      BY <1>2, <1>4, <1>6, <2>1, <2>2, <3>2, <3>6 DEF FdoInv
  <2>4. CASE q.mode = "off" /\ work' = Work(q, FALSE, <<0, 0>>, FALSE)
    <3>1. work' \in Works
      BY <1>1, <2>4, RoleIs DEF Work, Works, Roles
    <3>2. WorkInv'
      BY <2>4 DEF WorkInv, Work, HasBuilt
    <3> QED
      BY <1>2, <1>4, <1>6, <2>1, <2>2, <3>1, <3>2 DEF FdoInv
  <2>5. PlanUse(q) \/ (q.mode = "off" /\ work' = Work(q, FALSE, <<0, 0>>, FALSE)) \/ PlanRecord(q)
    BY DEF Plan
  <2> QED
    BY <1>5, <2>3, <2>4, <2>5
<1> QED
  BY <1>5, <1>6 DEF Plan, PlanUse

\* A step that leaves alone what the profiles are of, and keeps the run's own invariant.
LEMMA WorkOnly ==
    ASSUME FdoInv, UNCHANGED <<version, config, builds, kernelTree, package, store, perf>>,
           archive' \in [Roles \X (1 .. MaxRelease) -> Nat], work' \in {Off} \cup Works, WorkInv'
    PROVE  FdoInv'
<1>1. Tree' = Tree /\ Numbers' = Numbers
  BY DEF Tree, Numbers
<1>2. FdoTyped'
  BY <1>1 DEF FdoInv, FdoTyped
<1>3. ProfilesGrow'
  BY <1>1 DEF FdoInv, ProfilesGrow, Bounded
<1>4. NotOlder' /\ RoundInv'
  BY <1>1 DEF FdoInv, NotOlder, RoundInv, OfRound
<1> QED
  BY <1>2, <1>3, <1>4 DEF FdoInv

\* Stopping, and the steps of a run that has no work left to tell of.
LEMMA StopsFits ==
    ASSUME FdoInv, UNCHANGED <<version, config, builds, kernelTree, package, archive, store, perf>>, work' = Off
    PROVE  FdoInv'
<1>1. archive' \in [Roles \X (1 .. MaxRelease) -> Nat]
  BY DEF FdoInv, FdoTyped
<1>2. WorkInv'
  BY DEF WorkInv
<1> QED
  BY <1>1, <1>2, WorkOnly

\* One more build.
LEMMA OneMore ==
    ASSUME FdoTyped, NEW e \in Build, builds' = Append(builds, e)
    PROVE  /\ builds' \in Seq(Build) /\ Len(builds)' = New /\ Numbers' = Numbers \cup {New}
           /\ \A n \in Numbers : builds'[n] = builds[n] /\ n < New /\ n # New
           /\ builds'[New] = e /\ New \in Nat \ {0}
<1>1. builds \in Seq(Build)
  BY DEF FdoTyped
<1>2. builds' \in Seq(Build) /\ Len(builds') = Len(builds) + 1 /\ Len(builds) \in Nat
  BY <1>1
<1>3. \A n \in 1 .. Len(builds) : builds'[n] = builds[n]
  BY <1>1
<1>4. builds'[Len(builds) + 1] = e
  BY <1>1
<1> QED
  BY <1>2, <1>3, <1>4 DEF New, Numbers

\* A build applies what its run was to apply; what the store has is not older.
LEMMA BuildFits ==
    ASSUME FdoInv, work.phase = "build", Begun, NEW whole \in BOOLEAN,
           kernelTree' = [kernelTree EXCEPT ![work.role] = [build |-> New, whole |-> whole]],
           package' = package \/ package' = [package EXCEPT ![Here] = New],
           UNCHANGED <<version, config, archive, store, perf>>, work' \in {Off} \cup Works
    PROVE  /\ FdoTyped' /\ ProfilesGrow' /\ NotOlder' /\ RoundInv'
           /\ \A n \in Numbers : builds'[n] = builds[n]
           /\ New # 0 /\ builds'[New].apply = work.apply /\ builds'[New].ver = version
           /\ work.role = "profiling" => Tree'.build = New
           /\ work.role # "profiling" => Tree' = Tree
<1> DEFINE e == [role |-> work.role, ver |-> version, config |-> config,
                 apply |-> work.apply, prop |-> work.mode = "record" /\ work.prop]
<1>0. FdoTyped /\ ProfilesGrow /\ NotOlder /\ RoundInv /\ WorkInv
  BY DEF FdoInv
<1>1. /\ work \in Works /\ work # Off /\ work.role \in Roles /\ work.apply \in Nat \X Nat
      /\ work.mode \in {"off", "record", "use"} /\ work.prop \in BOOLEAN
  BY <1>0 DEF FdoTyped, Works, Off
<1>2. /\ Bounded(work.apply)
      /\ work.role = "propeller" => work.mode = "use" /\ work.prop
      /\ work.role = "fdo" => work.mode = "use" /\ ~work.prop /\ work.apply[2] = 0
      /\ work.role = "profiling" <=> work.mode = "record"
      /\ work.role = "propeller" \/ (work.mode = "record" /\ work.prop) => work.apply[1] = store.prop.pinned
  BY <1>0, <1>1, WorkBounded
<1>3. e \in Build
  BY <1>0, <1>1, StoreIs DEF Build, FdoTyped
<1>4. builds' = Append(builds, e)
  BY DEF Begun
<1>5. /\ e.role = work.role /\ e.ver = version /\ e.apply = work.apply
      /\ e.prop = (work.mode = "record" /\ work.prop)
  OBVIOUS
<1> HIDE DEF e
<1>6. /\ builds' \in Seq(Build) /\ Len(builds)' = New /\ Numbers' = Numbers \cup {New}
      /\ \A n \in Numbers : builds'[n] = builds[n] /\ n < New /\ n # New
      /\ builds'[New] = e /\ New \in Nat \ {0}
  BY <1>0, <1>3, <1>4, OneMore
<1>7. /\ work.role = "profiling" => Tree' = [build |-> New, whole |-> whole]
      /\ work.role # "profiling" => Tree' = Tree
  BY <1>0, <1>1 DEF FdoTyped, Tree, Roles
<1>8. \A a \in Nat \X Nat : Bounded(a) => Within(a, New, Tree', store.afdo.profile, store.prop.profile)
  BY <1>0, <1>6, <1>7, TreeIs DEF Bounded, Within, UpTo, New
<1>9. FdoTyped'
  <2>1. /\ kernelTree' \in [Roles -> {Unset} \cup [build : Nat, whole : BOOLEAN]]
        /\ \A r \in Roles : kernelTree'[r] # Unset => kernelTree'[r].build \in Numbers'
    BY <1>0, <1>1, <1>6 DEF FdoTyped
  <2>2. /\ package' \in [Roles \X (1 .. MaxRelease) -> Nat]
        /\ \A x \in Roles \X (1 .. MaxRelease) : package'[x] # 0 =>
              package'[x] \in Numbers' /\ builds'[package'[x]].role = x[1] /\ x[2] <= version
    <3>1. Here \in Roles \X (1 .. MaxRelease) /\ Here[1] = work.role /\ Here[2] = version
      BY <1>0, <1>1 DEF FdoTyped, Here
    <3>2. package \in [Roles \X (1 .. MaxRelease) -> Nat] /\ version \in Nat
      BY <1>0, StoreIs DEF FdoTyped
    <3>3. \A x \in Roles \X (1 .. MaxRelease) : package[x] # 0 =>
             package[x] \in Numbers /\ builds[package[x]].role = x[1] /\ x[2] <= version
      BY <1>0 DEF FdoTyped
    <3>4. package' = package \/ package' = [package EXCEPT ![Here] = New]
      OBVIOUS
    <3>5. package' \in [Roles \X (1 .. MaxRelease) -> Nat]
      BY <1>6, <3>2, <3>4
    <3>6. ASSUME NEW x \in Roles \X (1 .. MaxRelease), package'[x] # 0
          PROVE  package'[x] \in Numbers' /\ builds'[package'[x]].role = x[1] /\ x[2] <= version
      <4>1. CASE package'[x] = package[x]
        BY <1>6, <3>3, <3>6, <4>1
      <4>2. CASE package'[x] # package[x]
        <5>1. x = Here /\ package'[x] = New
          BY <3>2, <3>4, <4>2
        <5> QED
          BY <1>5, <1>6, <3>1, <3>2, <5>1
      <4> QED
        BY <4>1, <4>2
    <3> QED
      BY <3>5, <3>6
  <2> QED
    BY <1>0, <1>6, <2>1, <2>2 DEF FdoTyped
<1>10. ProfilesGrow'
  <2>1. \A n \in Numbers' : Within(builds'[n].apply, New, Tree', store.afdo.profile, store.prop.profile)
    <3>1. ASSUME NEW n \in Numbers
          PROVE  Within(builds'[n].apply, New, Tree', store.afdo.profile, store.prop.profile)
      <4>1. builds[n].apply \in Nat \X Nat /\ Bounded(builds[n].apply) /\ builds'[n] = builds[n]
        BY <1>0, <1>6, StoreIs DEF ProfilesGrow
      <4> QED
        BY <1>8, <4>1
    <3>2. Within(builds'[New].apply, New, Tree', store.afdo.profile, store.prop.profile)
      <4>1. builds'[New].apply = work.apply
        BY <1>5, <1>6
      <4>2. Within(work.apply, New, Tree', store.afdo.profile, store.prop.profile)
        BY <1>1, <1>2, <1>8
      <4> QED
        BY <4>1, <4>2
    <3>3. ASSUME NEW n \in Numbers'
          PROVE  Within(builds'[n].apply, New, Tree', store.afdo.profile, store.prop.profile)
      <4>1. CASE n \in Numbers
        BY <3>1, <4>1
      <4>2. CASE n = New
        BY <3>2, <4>2
      <4> QED
        BY <1>6, <4>1, <4>2
    <3> QED
      BY <3>3
  <2>2. \A n \in Numbers' : builds'[n].prop \/ builds'[n].role = "propeller" => builds'[n].apply[1] <= store.prop.pinned
    <3>1. \A n \in Numbers : builds'[n].prop \/ builds'[n].role = "propeller" => builds'[n].apply[1] <= store.prop.pinned
      BY <1>0, <1>6 DEF ProfilesGrow
    <3>2. builds'[New].prop \/ builds'[New].role = "propeller" => builds'[New].apply[1] <= store.prop.pinned
      <4>1. /\ builds'[New].role = work.role /\ builds'[New].apply = work.apply
            /\ builds'[New].prop = (work.mode = "record" /\ work.prop)
        BY <1>5, <1>6
      <4>2. store.prop.pinned <= store.prop.pinned
        BY <1>0, StoreIs
      <4> QED
        BY <1>2, <4>1, <4>2
    <3> QED
      BY <1>6, <3>1, <3>2
  <2>3. \A n \in Numbers' : builds'[n].role = "fdo" => builds'[n].apply[2] = 0
    BY <1>0, <1>2, <1>5, <1>6 DEF ProfilesGrow
  <2>4. /\ Within(<<store.afdo.profile, store.prop.profile>>, New, Tree', store.afdo.profile, store.prop.profile)
        /\ Within(<<store.prop.pinned, 0>>, New, Tree', store.afdo.profile, store.prop.profile)
        /\ \A m \in Stores : store[m].applied # Unset =>
              Within(store[m].applied, New, Tree', store.afdo.profile, store.prop.profile)
    BY <1>0, <1>8, StoreIs DEF ProfilesGrow
  <2> QED
    BY <1>0, <1>6, <2>1, <2>2, <2>3, <2>4 DEF ProfilesGrow, Bounded
<1>11. NotOlder'
  <2> SUFFICES ASSUME NEW m \in Stores, store[m].applied # Unset, package'[<<RoleIn(m), version>>] # 0
               PROVE  /\ store[m].applied[1] <= builds'[package'[<<RoleIn(m), version>>]].apply[1]
                      /\ store[m].applied[2] <= builds'[package'[<<RoleIn(m), version>>]].apply[2]
    BY DEF NotOlder
  <2> DEFINE x == <<RoleIn(m), version>>
  <2>1. x \in Roles \X (1 .. MaxRelease)
    BY <1>0 DEF FdoTyped, RoleIn, Roles
  <2>2. CASE package'[x] = package[x]
    <3>1. package[x] \in Numbers /\ builds'[package[x]] = builds[package[x]]
      BY <1>0, <1>6, <2>1, <2>2 DEF FdoTyped
    <3> QED
      BY <1>0, <2>2, <3>1 DEF NotOlder
  <2>3. CASE package'[x] # package[x]
    <3>1. package'[x] = New /\ x = Here
      BY <1>0, <2>1, <2>3 DEF FdoTyped
    <3>2. work.role = RoleIn(m)
      BY <3>1 DEF Here
    <3>3. builds'[package'[x]].apply = work.apply
      BY <1>5, <1>6, <3>1
    <3>4. store[m].applied \in Nat \X Nat /\ Bounded(store[m].applied)
      BY <1>0, StoreIs DEF ProfilesGrow
    <3>5. CASE m = "prop"
      <4>1. work.mode = "use" /\ work.prop
        BY <1>2, <3>2, <3>5 DEF RoleIn
      <4>2. work.apply = <<store.prop.pinned, store.prop.profile>> /\ store.prop.profile # 0
        BY <1>0, <1>1, <4>1 DEF WorkInv, Applies, MethodOf
      <4>3. store.prop.applied[1] <= store.prop.pinned /\ store[m] = store.prop
        BY <1>0, <3>5 DEF ProfilesGrow
      <4> QED
        BY <3>3, <3>4, <3>5, <4>2, <4>3 DEF Bounded, Within
    <3>6. CASE m = "afdo"
      <4>1. work.mode = "use" /\ ~work.prop
        BY <1>2, <3>2, <3>6 DEF RoleIn
      <4>2. work.apply = <<store.afdo.profile, 0>> /\ store.afdo.profile # 0
        BY <1>0, <1>1, <4>1 DEF WorkInv, Applies, MethodOf
      <4>3. store.afdo.applied[2] = 0 /\ store[m] = store.afdo
        BY <1>0, <3>6 DEF ProfilesGrow
      <4> QED
        BY <3>3, <3>4, <3>6, <4>2, <4>3 DEF Bounded, Within
    <3> QED
      BY <3>5, <3>6 DEF Stores
  <2> QED
    BY <2>2, <2>3
<1>12. RoundInv'
  <2> SUFFICES ASSUME store.prop.round # Unset
               PROVE  /\ store.prop.round.ver <= version /\ store.prop.round.sha <= store.prop.pinned
                      /\ store.prop.round.ver = version =>
                           /\ store.prop.profile # 0 => OfRound(store.prop.profile)'
                           /\ Tree' # Unset => OfRound(Tree.build)'
    BY DEF RoundInv
  <2>1. store.prop.round.ver <= version /\ store.prop.round.sha <= store.prop.pinned
    BY <1>0 DEF RoundInv
  <2>2. \A k \in Numbers : OfRound(k) => OfRound(k)'
    BY <1>6 DEF OfRound
  <2>3. store.prop.profile # 0 => store.prop.profile \in Numbers
    <3>1. Bounded(<<store.afdo.profile, store.prop.profile>>)
      BY <1>0 DEF ProfilesGrow
    <3> QED
      BY <1>0, <3>1, StoreIs, TreeIs DEF Bounded, Within, UpTo, Numbers
  <2>4. store.prop.round.ver = version /\ store.prop.profile # 0 => OfRound(store.prop.profile)'
    <3>1. store.prop.round.ver = version /\ store.prop.profile # 0 => OfRound(store.prop.profile)
      BY <1>0 DEF RoundInv
    <3> QED
      BY <1>6, <2>3, <3>1 DEF OfRound
  <2>5. store.prop.round.ver = version /\ Tree' # Unset => OfRound(Tree.build)'
    <3>1. CASE work.role = "profiling"
      <4>1. Tree'.build = New
        BY <1>7, <3>1
      <4>2. builds'[New].prop => builds'[New].ver = version /\ builds'[New].apply[1] = store.prop.pinned
        BY <1>2, <1>5, <1>6
      <4> QED
        BY <2>1, <4>1, <4>2 DEF OfRound
    <3>2. CASE work.role # "profiling"
      <4>1. Tree' = Tree /\ (Tree # Unset => Tree.build \in Numbers)
        BY <1>0, <1>7, <3>2, TreeIs
      <4>2. store.prop.round.ver = version /\ Tree # Unset => OfRound(Tree.build)
        BY <1>0 DEF RoundInv
      <4> QED
        BY <1>6, <4>1, <4>2 DEF OfRound
    <3> QED
      BY <3>1, <3>2
  <2> QED
    BY <2>1, <2>4, <2>5
<1> QED
  BY <1>5, <1>6, <1>7, <1>9, <1>10, <1>11, <1>12

\* A build that ends, or breaks off.
LEMMA BuildingFits == FdoInv /\ (BuildAnew \/ BuildBreaks) => FdoInv'
<1> SUFFICES ASSUME FdoInv, BuildAnew \/ BuildBreaks PROVE FdoInv'
  OBVIOUS
<1>0. FdoTyped /\ ProfilesGrow /\ WorkInv /\ work.phase = "build" /\ Begun
      /\ UNCHANGED <<version, config, archive, store, perf>>
  BY DEF FdoInv, BuildAnew, BuildBreaks
<1>1. work \in Works /\ work # Off
  BY <1>0 DEF FdoTyped, Off
<1>2. CASE BuildBreaks
  <2>1. FdoTyped' /\ ProfilesGrow' /\ NotOlder' /\ RoundInv'
    BY <1>0, <1>2, BuildFits DEF BuildBreaks
  <2>2. WorkInv'
    BY <1>2 DEF BuildBreaks, WorkInv
  <2> QED
    BY <2>1, <2>2 DEF FdoInv
<1>3. CASE BuildAnew
  <2>1. /\ work' = [work EXCEPT !.phase = "audit", !.kernel = New, !.audits = New, !.fresh = TRUE]
        /\ kernelTree' = [kernelTree EXCEPT ![work.role] = [build |-> New, whole |-> TRUE]]
        /\ package' = [package EXCEPT ![Here] = New]
    BY <1>3 DEF BuildAnew
  <2>2. New \in Nat
    BY <1>0, TreeIs DEF New
  <2>3. work' \in Works
    BY <1>1, <2>1, <2>2 DEF Works
  <2>4. /\ FdoTyped' /\ ProfilesGrow' /\ NotOlder' /\ RoundInv'
        /\ \A n \in Numbers : builds'[n] = builds[n]
        /\ New # 0 /\ builds'[New].apply = work.apply /\ builds'[New].ver = version
        /\ work.role = "profiling" => Tree'.build = New
    BY <1>0, <2>1, <2>3, BuildFits
  <2>5. /\ work'.mode = work.mode /\ work'.prop = work.prop /\ work'.role = work.role
        /\ work'.apply = work.apply /\ work'.force = work.force /\ work'.kernel = New
        /\ work.mode \in {"off", "record", "use"} /\ work.prop \in BOOLEAN
    BY <1>1, <2>1 DEF Works
  <2>6. WorkInv'
    <3>1. work.role = RoleOf(work.mode, work.prop)
      BY <1>0, <1>1 DEF WorkInv
    <3>2. CASE work.mode = "off"
      BY <1>0, <1>1, <2>5, <3>1, <3>2 DEF WorkInv
    <3>3. CASE work.mode = "record"
      <4>1. work.force /\ work.apply = <<store[MethodOf(work.prop)].pinned, 0>> /\ (work.prop => store.prop.profile = 0)
        BY <1>0, <1>1, <3>3 DEF WorkInv
      <4>2. work.role = "profiling"
        BY <3>1, <3>3, RoleIs
      <4>3. work.prop => builds'[Tree'.build].ver = version /\ builds'[Tree'.build].apply[1] = store.prop.pinned
        <5> SUFFICES ASSUME work.prop
                     PROVE  builds'[Tree'.build].ver = version /\ builds'[Tree'.build].apply[1] = store.prop.pinned
          OBVIOUS
        <5>1. work.apply = <<store.prop.pinned, 0>>
          BY <4>1 DEF MethodOf
        <5>2. Tree'.build = New
          BY <2>4, <4>2
        <5>3. builds'[New].ver = version /\ builds'[New].apply[1] = store.prop.pinned
          BY <2>4, <5>1
        <5> QED
          BY <5>2, <5>3
      <4> QED
        BY <1>0, <2>5, <3>1, <3>3, <4>1, <4>3 DEF WorkInv
    <3>4. CASE work.mode = "use"
      <4>1. /\ work.apply = Applies(MethodOf(work.prop)) /\ store[MethodOf(work.prop)].profile # 0
            /\ ~work.force => store[MethodOf(work.prop)].applied = work.apply
            /\ work.prop /\ VersionKnown /\ builds[work.apply[2]].prop =>
                  builds[work.apply[2]].ver = version /\ builds[work.apply[2]].apply[1] = work.apply[1]
        BY <1>0, <1>1, <3>4 DEF WorkInv
      <4>2. package'[<<work.role, version>>] = New
        <5>1. Here \in Roles \X (1 .. MaxRelease)
          BY <1>0, <1>1 DEF FdoTyped, Works, Here
        <5> QED
          BY <1>0, <2>1, <5>1 DEF FdoTyped, Here
      <4>3. work.prop => work.apply[2] \in Numbers
        <5> SUFFICES ASSUME work.prop PROVE work.apply[2] \in Numbers
          OBVIOUS
        <5>1. work.apply[2] = store.prop.profile /\ store.prop.profile # 0
          BY <4>1 DEF Applies, MethodOf
        <5>2. Bounded(<<store.afdo.profile, store.prop.profile>>)
          BY <1>0 DEF ProfilesGrow
        <5> QED
          BY <1>0, <5>1, <5>2, StoreIs, TreeIs DEF Bounded, Within, UpTo, Numbers
      <4>4. Applies(MethodOf(work.prop))' = Applies(MethodOf(work.prop))
        BY <1>0, <2>5 DEF Applies
      <4> QED
        BY <1>0, <2>4, <2>5, <3>1, <3>4, <4>1, <4>2, <4>3, <4>4 DEF WorkInv
    <3> QED
      BY <2>5, <3>2, <3>3, <3>4
  <2> QED
    BY <2>4, <2>6 DEF FdoInv
<1> QED
  BY <1>2, <1>3

\* A package that is found done applies the profiles the run is to apply.
LEMMA ReuseFits == FdoInv /\ Reuse => FdoInv'
<1> SUFFICES ASSUME FdoInv, Reuse PROVE FdoInv'
  OBVIOUS
<1>0. /\ FdoTyped /\ ProfilesGrow /\ NotOlder /\ WorkInv /\ work.phase = "build" /\ ~work.force /\ package[Here] # 0
      /\ work' = [work EXCEPT !.phase = "audit", !.kernel = package[Here], !.audits = ReusedConfig(package[Here])]
      /\ UNCHANGED <<version, config, builds, kernelTree, package, archive, store, perf>>
  BY DEF FdoInv, Reuse, Reusable
<1>1. work \in Works /\ work # Off /\ work.role \in Roles /\ work.mode \in {"off", "record", "use"}
      /\ work.prop \in BOOLEAN /\ work.apply \in Nat \X Nat
  BY <1>0 DEF FdoTyped, Works, Off
<1>2. Here \in Roles \X (1 .. MaxRelease) /\ Here = <<work.role, version>>
  BY <1>0, <1>1 DEF FdoTyped, Here
<1>3. package[Here] \in Numbers /\ builds[package[Here]].role = work.role /\ package[Here] \in Nat
  BY <1>0, <1>2 DEF FdoTyped
<1>4. ReusedConfig(package[Here]) \in Nat
  <2>1. archive[Here] \in Nat
    BY <1>0, <1>2 DEF FdoTyped
  <2>2. kernelTree[work.role] # Unset => kernelTree[work.role].build \in Nat
    BY <1>0, <1>1 DEF FdoTyped
  <2> QED
    BY <1>3, <2>1, <2>2 DEF ReusedConfig
<1>5. work' \in Works
  BY <1>0, <1>1, <1>3, <1>4 DEF Works
<1>6. /\ work'.mode = work.mode /\ work'.prop = work.prop /\ work'.role = work.role
      /\ work'.apply = work.apply /\ work'.force = work.force /\ work'.kernel = package[Here]
  BY <1>0, <1>1 DEF Works
<1>7. work.mode # "record" /\ work.role = RoleOf(work.mode, work.prop)
  BY <1>0, <1>1 DEF WorkInv
<1>8. archive' \in [Roles \X (1 .. MaxRelease) -> Nat]
  BY <1>0 DEF FdoTyped
<1>9. WorkInv'
  <2>1. CASE work.mode = "off"
    BY <1>0, <1>1, <1>6, <1>7, <2>1 DEF WorkInv
  <2>2. CASE work.mode = "use"
    <3>1. /\ work.apply = Applies(MethodOf(work.prop)) /\ store[MethodOf(work.prop)].profile # 0
          /\ store[MethodOf(work.prop)].applied = work.apply
          /\ work.prop /\ VersionKnown /\ builds[work.apply[2]].prop =>
                  builds[work.apply[2]].ver = version /\ builds[work.apply[2]].apply[1] = work.apply[1]
      BY <1>0, <1>1, <2>2 DEF WorkInv
    <3>2. builds[package[Here]].apply = work.apply
      <4> DEFINE a == builds[package[Here]].apply
      <4>1. a \in Nat \X Nat /\ Bounded(a)
        BY <1>0, <1>3, StoreIs DEF ProfilesGrow
      <4>2. Unset # work.apply
        BY <1>1, FdoAssumption
      <4>3. CASE work.prop
        <5>1. work.role = "propeller" /\ MethodOf(work.prop) = "prop"
          BY <1>7, <2>2, <4>3, RoleIs DEF MethodOf
        <5>2. work.apply = <<store.prop.pinned, store.prop.profile>> /\ store.prop.profile # 0
          BY <3>1, <5>1 DEF Applies
        <5>3. a[1] <= store.prop.pinned
          BY <1>0, <1>3, <5>1 DEF ProfilesGrow
        <5>4. store.prop.applied[1] <= a[1] /\ store.prop.applied[2] <= a[2]
          BY <1>0, <1>2, <3>1, <4>2, <5>1 DEF NotOlder, RoleIn, Stores
        <5>5. a[1] = store.prop.pinned /\ a[2] = store.prop.profile
          <6>1. store.prop.applied[1] = store.prop.pinned /\ store.prop.applied[2] = store.prop.profile
            BY <3>1, <5>1, <5>2
          <6>2. a[2] <= store.prop.profile /\ a[1] \in Nat /\ a[2] \in Nat
            BY <4>1, <5>2 DEF Bounded, Within
          <6> QED
            BY <1>0, <5>3, <5>4, <6>1, <6>2, StoreIs
        <5> QED
          BY <4>1, <5>2, <5>5
      <4>4. CASE ~work.prop
        <5>1. work.role = "fdo" /\ MethodOf(work.prop) = "afdo"
          BY <1>1, <1>7, <2>2, <4>4, RoleIs DEF MethodOf
        <5>2. work.apply = <<store.afdo.profile, 0>> /\ store.afdo.profile # 0
          BY <3>1, <5>1 DEF Applies
        <5>3. a[2] = 0
          BY <1>0, <1>3, <5>1 DEF ProfilesGrow
        <5>4. store.afdo.applied[1] <= a[1]
          BY <1>0, <1>2, <3>1, <4>2, <5>1 DEF NotOlder, RoleIn, Stores
        <5>5. a[1] = store.afdo.profile
          <6>1. store.afdo.applied[1] = store.afdo.profile
            BY <3>1, <5>1, <5>2
          <6>2. a[1] <= store.afdo.profile /\ a[1] \in Nat
            BY <4>1, <5>2 DEF Bounded, Within
          <6> QED
            BY <1>0, <5>4, <6>1, <6>2, StoreIs
        <5> QED
          BY <4>1, <5>2, <5>3, <5>5
      <4> QED
        BY <4>3, <4>4
    <3>3. Applies(MethodOf(work.prop))' = Applies(MethodOf(work.prop))
      BY <1>0, <1>6 DEF Applies
    <3> QED
      BY <1>0, <1>2, <1>6, <1>7, <2>2, <3>1, <3>2, <3>3 DEF WorkInv
  <2> QED
    BY <1>1, <1>7, <2>1, <2>2
<1> QED
  BY <1>0, <1>5, <1>8, <1>9, WorkOnly

\* The audit and the installation change the phase of the run.
LEMMA PhaseFits == FdoInv /\ (Audit \/ InstallKernel) => FdoInv'
<1> SUFFICES ASSUME FdoInv, Audit \/ InstallKernel PROVE FdoInv'
  OBVIOUS
<1>0. /\ FdoTyped /\ WorkInv /\ work.phase \in {"audit", "install"}
      /\ UNCHANGED <<version, config, builds, kernelTree, package, store, perf>>
  BY DEF FdoInv, Audit, InstallKernel
<1>1. work \in Works /\ work # Off
  BY <1>0 DEF FdoTyped, Off
<1>2. archive' \in [Roles \X (1 .. MaxRelease) -> Nat]
  <2>1. \A r \in Roles : kernelTree[r] # Unset => kernelTree[r].build \in Nat
    BY <1>0 DEF FdoTyped
  <2>2. Archived # Unset => Archived.build \in Nat
    BY <1>1, <2>1 DEF Archived, Works, Roles
  <2> QED
    BY <1>0, <2>2 DEF FdoTyped, Audit, InstallKernel
<1>3. CASE work' = Off
  <2>1. WorkInv'
    BY <1>3 DEF WorkInv
  <2> QED
    BY <1>0, <1>2, <1>3, <2>1, WorkOnly
<1>4. CASE work' = [work EXCEPT !.phase = "install"] \/ work' = [work EXCEPT !.phase = "finish"]
  <2>1. work' \in Works
    BY <1>1, <1>4 DEF Works
  <2>2. /\ work'.mode = work.mode /\ work'.prop = work.prop /\ work'.role = work.role /\ work'.apply = work.apply
        /\ work'.force = work.force /\ work'.kernel = work.kernel
    BY <1>1, <1>4 DEF Works
  <2>3. HasBuilt
    BY <1>0 DEF HasBuilt
  <2>4. Applies(MethodOf(work.prop))' = Applies(MethodOf(work.prop))
    BY <1>0, <2>2 DEF Applies
  <2>5. Tree' = Tree
    BY <1>0 DEF Tree
  <2>6. WorkInv'
    BY <1>0, <1>1, <2>2, <2>3, <2>4, <2>5 DEF WorkInv
  <2> QED
    BY <1>0, <1>2, <2>1, <2>6, WorkOnly
<1> QED
  BY <1>3, <1>4 DEF Audit, InstallKernel

\* The note of the run: the round, or the profiles that were applied.
LEMMA FinishFits == FdoInv /\ Finish => FdoInv'
<1> SUFFICES ASSUME FdoInv, Finish PROVE FdoInv'
  OBVIOUS
<1>0. /\ FdoTyped /\ ProfilesGrow /\ NotOlder /\ RoundInv /\ WorkInv /\ work.phase = "finish" /\ work' = Off
      /\ UNCHANGED <<version, config, builds, kernelTree, package, archive, perf>> /\ store' = Noted
  BY DEF FdoInv, Finish
<1>1. /\ work \in Works /\ work # Off /\ work.mode \in {"off", "record", "use"} /\ work.prop \in BOOLEAN
      /\ work.apply \in Nat \X Nat /\ HasBuilt
  BY <1>0 DEF FdoTyped, Works, Off, HasBuilt
<1>2. PICK m \in Stores : m = MethodOf(work.prop)
  BY DEF MethodOf, Stores
<1>3. /\ store \in [Stores -> Kept] /\ store.afdo \in Kept /\ store.prop \in Kept /\ version \in Nat
  BY <1>0, StoreIs
<1>4. Tree' = Tree /\ Numbers' = Numbers
  BY <1>0 DEF Tree, Numbers
<1>5. WorkInv'
  BY <1>0 DEF WorkInv
<1>6. ASSUME store' \in [Stores -> Kept] PROVE FdoTyped'
  BY <1>0, <1>4, <1>6 DEF FdoTyped
<1>7. CASE work.mode = "off"
  <2>1. store' = store
    BY <1>0, <1>7 DEF Noted
  <2> QED
    BY <1>0, <2>1, StopsFits
<1>8. CASE work.mode = "record"
  <2>1. store' = [store EXCEPT ![m].round = [ver |-> version, sha |-> store[m].pinned]]
    BY <1>0, <1>2, <1>8 DEF Noted
  <2>2. /\ store' \in [Stores -> Kept]
        /\ \A s \in Stores : store'[s].applied = store[s].applied /\ store'[s].profile = store[s].profile
                             /\ store'[s].pinned = store[s].pinned
        /\ m = "prop" => store'["prop"].round = [ver |-> version, sha |-> store["prop"].pinned]
        /\ m # "prop" => store'["prop"].round = store["prop"].round
    <3>1. [ver |-> version, sha |-> store[m].pinned] \in [ver : Nat, sha : Nat]
      BY <1>3 DEF Kept
    <3>2. \A s \in Stores : s # m => store'[s] = store[s]
      BY <1>3, <2>1
    <3>3. store'[m] = [store[m] EXCEPT !.round = [ver |-> version, sha |-> store[m].pinned]]
      BY <1>3, <2>1
    <3>4. store'[m] \in Kept
      BY <1>3, <3>1, <3>3 DEF Kept
    <3>5. store' \in [Stores -> Kept]
      BY <1>3, <2>1, <3>1 DEF Kept
    <3>6. /\ store'[m].applied = store[m].applied /\ store'[m].profile = store[m].profile
          /\ store'[m].pinned = store[m].pinned /\ store'[m].round = [ver |-> version, sha |-> store[m].pinned]
      BY <1>3, <3>3 DEF Kept
    <3> QED
      BY <3>2, <3>5, <3>6 DEF Stores
  <2>3. /\ store'.afdo.profile = store.afdo.profile /\ store'.prop.profile = store.prop.profile
        /\ store'.prop.pinned = store.prop.pinned /\ store'.afdo.pinned = store.afdo.pinned
        /\ store'.afdo.applied = store.afdo.applied /\ store'.prop.applied = store.prop.applied
    BY <2>2 DEF Stores
  <2>4. ProfilesGrow'
    BY <1>0, <1>4, <2>2, <2>3 DEF ProfilesGrow, Bounded
  <2>5. NotOlder'
    BY <1>0, <2>2 DEF NotOlder
  <2>6. RoundInv'
    <3>1. CASE work.prop
      <4>1. m = "prop" /\ store.prop.profile = 0
        BY <1>0, <1>1, <1>2, <1>8, <3>1 DEF WorkInv, MethodOf
      <4>2. store'.prop.round.ver = version /\ store'.prop.round.sha = store.prop.pinned
        BY <2>2, <4>1
      <4>3. Tree # Unset => builds[Tree.build].ver = version /\ builds[Tree.build].apply[1] = store.prop.pinned
        BY <1>0, <1>1, <1>8, <3>1 DEF WorkInv
      <4>4. store.prop.pinned \in Nat
        BY <1>0, StoreIs
      <4> QED
        BY <1>0, <1>3, <1>4, <2>3, <4>1, <4>2, <4>3, <4>4 DEF RoundInv, OfRound
    <3>2. CASE ~work.prop
      <4>1. store'.prop.round = store.prop.round
        BY <1>2, <2>2, <3>2 DEF MethodOf
      <4> QED
        BY <1>0, <1>4, <2>3, <4>1 DEF RoundInv, OfRound
    <3> QED
      BY <3>1, <3>2
  <2> QED
    BY <1>5, <1>6, <2>2, <2>4, <2>5, <2>6 DEF FdoInv
<1>9. CASE work.mode = "use"
  <2>1. store' = [store EXCEPT ![m].applied = work.apply]
    BY <1>0, <1>2, <1>9 DEF Noted
  <2>2. /\ store' \in [Stores -> Kept] /\ \A s \in Stores : s # m => store'[s] = store[s]
        /\ \A s \in Stores : store'[s].round = store[s].round /\ store'[s].profile = store[s].profile
                             /\ store'[s].pinned = store[s].pinned
        /\ store'[m].applied = work.apply
    <3>1. \A s \in Stores : s # m => store'[s] = store[s]
      BY <1>3, <2>1
    <3>2. store'[m] = [store[m] EXCEPT !.applied = work.apply]
      BY <1>3, <2>1
    <3>3. store' \in [Stores -> Kept]
      BY <1>1, <1>3, <2>1 DEF Kept
    <3>4. /\ store'[m].round = store[m].round /\ store'[m].profile = store[m].profile
          /\ store'[m].pinned = store[m].pinned /\ store'[m].applied = work.apply
      BY <1>3, <3>2 DEF Kept
    <3> QED
      BY <3>1, <3>3, <3>4
  <2>3. /\ store'.afdo.profile = store.afdo.profile /\ store'.prop.profile = store.prop.profile
        /\ store'.prop.pinned = store.prop.pinned /\ store'.afdo.pinned = store.afdo.pinned
        /\ store'.prop.round = store.prop.round
    BY <2>2 DEF Stores
  <2>4. /\ Bounded(work.apply)
        /\ work.role = "propeller" => work.apply[1] = store.prop.pinned
        /\ work.role = "fdo" => work.apply[2] = 0
        /\ work.role = RoleIn(m)
    BY <1>0, <1>1, <1>2, <1>9, WorkBounded
  <2>5. ProfilesGrow'
    <3>1. \A s \in Stores : store'[s].applied # Unset => Bounded(store'[s].applied)
      BY <1>0, <2>2, <2>4 DEF ProfilesGrow
    <3>2. store'.afdo.applied # Unset => store'.afdo.applied[2] = 0
      <4>1. CASE m = "afdo"
        BY <2>2, <2>4, <4>1 DEF RoleIn
      <4>2. CASE m # "afdo"
        BY <1>0, <2>2, <4>2 DEF ProfilesGrow, Stores
      <4> QED
        BY <4>1, <4>2
    <3>3. store'.prop.applied # Unset => store'.prop.applied[1] <= store.prop.pinned
      <4>1. CASE m = "prop"
        <5>1. work.role = "propeller" /\ store'.prop.applied = work.apply
          BY <2>2, <2>4, <4>1 DEF RoleIn
        <5> QED
          BY <1>0, <2>4, <5>1, StoreIs
      <4>2. CASE m # "prop"
        BY <1>0, <2>2, <4>2 DEF ProfilesGrow, Stores
      <4> QED
        BY <4>1, <4>2
    <3> QED
      BY <1>0, <1>4, <2>3, <3>1, <3>2, <3>3 DEF ProfilesGrow, Bounded
  <2>6. NotOlder'
    <3> SUFFICES ASSUME NEW s \in Stores, store'[s].applied # Unset, package[<<RoleIn(s), version>>] # 0
                 PROVE  /\ store'[s].applied[1] <= builds[package[<<RoleIn(s), version>>]].apply[1]
                        /\ store'[s].applied[2] <= builds[package[<<RoleIn(s), version>>]].apply[2]
      BY <1>0 DEF NotOlder
    <3>1. CASE s = m
      <4>1. builds[package[<<RoleIn(s), version>>]].apply = work.apply
        BY <1>0, <1>1, <1>9, <2>4, <3>1 DEF WorkInv
      <4>2. store'[s].applied = work.apply /\ work.apply[1] \in Nat /\ work.apply[2] \in Nat
        BY <1>1, <2>2, <3>1
      <4> QED
        BY <4>1, <4>2
    <3>2. CASE s # m
      BY <1>0, <2>2, <3>2 DEF NotOlder
    <3> QED
      BY <3>1, <3>2
  <2>7. RoundInv'
    BY <1>0, <1>4, <2>3 DEF RoundInv, OfRound
  <2> QED
    BY <1>5, <1>6, <2>2, <2>5, <2>6, <2>7 DEF FdoInv
<1> QED
  BY <1>1, <1>7, <1>8, <1>9

\* Profiles are of the kernel whose tree is there: no others are newer.
LEMMA ConvertFits ==
    ASSUME FdoInv, work = Off, UNCHANGED work, NEW m \in Stores, Convert(m)
    PROVE  FdoInv'
<1>0. /\ FdoTyped /\ ProfilesGrow /\ NotOlder /\ RoundInv
      /\ UNCHANGED <<version, config, builds, kernelTree, package, archive, perf>>
      /\ store' = [store EXCEPT ![m].profile = perf[m]] /\ Tree # Unset /\ perf[m] = Tree.build /\ perf[m] # 0
  BY DEF FdoInv, Convert, Vmlinux, Tree
<1>1. /\ store \in [Stores -> Kept] /\ perf[m] \in Nat /\ Tree.build \in Nat /\ perf[m] <= Len(builds)
      /\ Len(builds) \in Nat /\ store.afdo.profile \in Nat /\ store.prop.profile \in Nat /\ store.prop.pinned \in Nat
  BY <1>0, StoreIs, TreeIs DEF Numbers
<1>2. Tree' = Tree /\ Numbers' = Numbers
  BY <1>0 DEF Tree, Numbers
<1>3. /\ store' \in [Stores -> Kept] /\ \A s \in Stores : s # m => store'[s] = store[s]
      /\ \A s \in Stores : store'[s].round = store[s].round /\ store'[s].applied = store[s].applied
                           /\ store'[s].pinned = store[s].pinned
      /\ store'[m].profile = perf[m]
  <2>1. \A s \in Stores : s # m => store'[s] = store[s]
    BY <1>0, <1>1
  <2>2. store'[m] = [store[m] EXCEPT !.profile = perf[m]]
    BY <1>0, <1>1
  <2>3. store' \in [Stores -> Kept]
    BY <1>0, <1>1 DEF Kept
  <2>4. /\ store'[m].round = store[m].round /\ store'[m].applied = store[m].applied
        /\ store'[m].pinned = store[m].pinned /\ store'[m].profile = perf[m]
    BY <1>1, <2>2 DEF Kept
  <2> QED
    BY <2>1, <2>3, <2>4
<1>4. /\ store'.prop.round = store.prop.round /\ store'.prop.pinned = store.prop.pinned
      /\ store'.afdo.pinned = store.afdo.pinned
      /\ store'.afdo.applied = store.afdo.applied /\ store'.prop.applied = store.prop.applied
      /\ store'.afdo.profile \in {store.afdo.profile, Tree.build}
      /\ store'.prop.profile \in {store.prop.profile, Tree.build}
  BY <1>0, <1>3 DEF Stores
<1>5. FdoTyped'
  BY <1>0, <1>2, <1>3 DEF FdoTyped
<1>6. \A a : Bounded(a) => Within(a, Len(builds), Tree, store'.afdo.profile, store'.prop.profile)
  BY <1>0, <1>4 DEF Bounded, Within, UpTo
<1>7. ProfilesGrow'
  <2> DEFINE Fits(a) == Within(a, Len(builds), Tree, store'.afdo.profile, store'.prop.profile)
  <2>1. Fits(<<store'.afdo.profile, store'.prop.profile>>)
    <3>1. Within(<<store.afdo.profile, store.prop.profile>>, Len(builds), Tree, store.afdo.profile, store.prop.profile)
      BY <1>0 DEF ProfilesGrow, Bounded
    <3>2. store.afdo.profile <= Len(builds) /\ store.prop.profile <= Len(builds)
          /\ store.afdo.profile <= Tree.build /\ store.prop.profile <= Tree.build
      BY <1>0, <3>1, PairWithin
    <3>3. /\ store'.afdo.profile <= Len(builds) /\ store'.prop.profile <= Len(builds)
          /\ store'.afdo.profile <= Tree.build /\ store'.prop.profile <= Tree.build
          /\ store'.afdo.profile <= store'.afdo.profile /\ store'.prop.profile <= store'.prop.profile
      BY <1>0, <1>1, <1>4, <3>2
    <3> QED
      BY <3>3, PairWithin
  <2>2. Fits(<<store'.prop.pinned, 0>>)
    BY <1>0, <1>4, <1>6 DEF ProfilesGrow
  <2>3. \A s \in Stores : store'[s].applied # Unset => Fits(store'[s].applied)
    BY <1>0, <1>3, <1>6 DEF ProfilesGrow
  <2>4. \A n \in Numbers : Fits(builds[n].apply)
    BY <1>0, <1>6 DEF ProfilesGrow
  <2> QED
    BY <1>0, <1>2, <1>3, <1>4, <2>1, <2>2, <2>3, <2>4 DEF ProfilesGrow, Bounded
<1>8. NotOlder'
  BY <1>0, <1>3 DEF NotOlder
<1>9. RoundInv'
  BY <1>0, <1>2, <1>4 DEF RoundInv, OfRound
<1>10. WorkInv'
  BY DEF WorkInv
<1> QED
  BY <1>5, <1>7, <1>8, <1>9, <1>10 DEF FdoInv

\* A new version has no package and no round; a tree that is removed binds no profile.
LEMMA ChangeFits == FdoInv /\ work = Off /\ UNCHANGED work /\ Change => FdoInv'
<1> SUFFICES ASSUME FdoInv, work = Off, UNCHANGED work, Change PROVE FdoInv'
  OBVIOUS
<1>0. /\ FdoTyped /\ ProfilesGrow /\ NotOlder /\ RoundInv
      /\ UNCHANGED <<builds, package, archive, store, perf>> /\ Numbers' = Numbers
  BY DEF FdoInv, Change, Numbers
<1>1. WorkInv'
  BY DEF WorkInv
<1>2. CASE version < MaxRelease /\ version' = version + 1 /\ UNCHANGED <<config, kernelTree>>
  <2>1. version' \in 1 .. MaxRelease /\ version \in Nat /\ version < version'
    BY <1>0, <1>2, FdoAssumption, StoreIs DEF FdoTyped
  <2>2. Tree' = Tree
    BY <1>2 DEF Tree
  <2>3. FdoTyped'
    BY <1>0, <1>2, <2>1 DEF FdoTyped
  <2>4. ProfilesGrow'
    BY <1>0, <2>2 DEF ProfilesGrow, Bounded
  <2>5. NotOlder'
    <3>1. \A r \in Roles : package[<<r, version'>>] = 0
      BY <1>0, <2>1 DEF FdoTyped
    <3> QED
      BY <1>0, <3>1 DEF NotOlder, RoleIn, Roles
  <2>6. RoundInv'
    BY <1>0, <2>1, StoreIs DEF RoundInv
  <2> QED
    BY <1>1, <2>3, <2>4, <2>5, <2>6 DEF FdoInv
<1>3. CASE config' = (IF config = "good" THEN "brick" ELSE "good") /\ UNCHANGED <<version, kernelTree>>
  <2>1. config' \in {"good", "brick"} /\ Tree' = Tree
    BY <1>3 DEF Tree
  <2>2. FdoTyped'
    BY <1>0, <1>3, <2>1 DEF FdoTyped
  <2>3. ProfilesGrow' /\ NotOlder' /\ RoundInv'
    BY <1>0, <1>3, <2>1 DEF ProfilesGrow, Bounded, NotOlder, RoundInv, OfRound
  <2> QED
    BY <1>1, <2>2, <2>3 DEF FdoInv
<1>4. CASE (\E r \in Roles : kernelTree[r] # Unset /\ kernelTree' = [kernelTree EXCEPT ![r] = Unset])
           /\ UNCHANGED <<version, config>>
  <2>1. Tree' = Tree \/ Tree' = Unset
    BY <1>0, <1>4 DEF FdoTyped, Tree, Roles
  <2>2. FdoTyped'
    BY <1>0, <1>4 DEF FdoTyped
  <2>3. ProfilesGrow'
    BY <1>0, <2>1 DEF ProfilesGrow, Bounded, Within
  <2>4. NotOlder' /\ RoundInv'
    BY <1>0, <1>4, <2>1 DEF NotOlder, RoundInv, OfRound
  <2> QED
    BY <1>1, <2>2, <2>3, <2>4 DEF FdoInv
<1> QED
  BY <1>2, <1>3, <1>4 DEF Change

LEMMA BetweenFits == FdoInv /\ BetweenRuns => FdoInv'
<1> SUFFICES ASSUME FdoInv, BetweenRuns PROVE FdoInv'
  OBVIOUS
<1>1. work = Off /\ UNCHANGED work
  BY DEF BetweenRuns, FdoInv, FdoTyped, Works
<1>2. CASE Boot
  BY <1>1, <1>2, StopsFits DEF Boot
<1>3. CASE Change
  BY <1>1, <1>3, ChangeFits
<1>4. ASSUME NEW m \in Stores, Convert(m) PROVE FdoInv'
  BY <1>1, <1>4, ConvertFits
<1>5. ASSUME NEW m \in Stores, Sample(m) PROVE FdoInv'
  <2>1. /\ perf' = [perf EXCEPT ![m] = running] /\ Tree # Unset /\ running = Tree.build
        /\ UNCHANGED <<version, config, builds, kernelTree, package, archive, store>>
    BY <1>5 DEF Sample, Vmlinux, Tree
  <2>2. Tree' = Tree /\ Numbers' = Numbers
    BY <2>1 DEF Tree, Numbers
  <2>3. FdoTyped'
    BY <2>1, <2>2, <1>1, TreeIs DEF FdoInv, FdoTyped
  <2>4. ProfilesGrow' /\ NotOlder' /\ RoundInv'
    BY <2>1, <2>2 DEF FdoInv, ProfilesGrow, Bounded, NotOlder, RoundInv, OfRound
  <2>5. WorkInv'
    BY <1>1 DEF WorkInv
  <2> QED
    BY <2>3, <2>4, <2>5 DEF FdoInv
<1> QED
  BY <1>2, <1>3, <1>4, <1>5 DEF BetweenRuns

\* FdoInv holds in every reachable state of the rounds.
THEOREM FdoHolds == FdoSpec => []FdoInv
<1>1. FdoInv /\ [NextFdo]_fdoVars => FdoInv'
  <2> SUFFICES ASSUME FdoInv, [NextFdo]_fdoVars PROVE FdoInv'
    OBVIOUS
  <2>1. ASSUME NEW q \in Requests, Plan(q) PROVE FdoInv'
    BY <2>1, PlanFits
  <2>2. CASE BuildAnew \/ BuildBreaks
    BY <2>2, BuildingFits
  <2>3. CASE Reuse
    BY <2>3, ReuseFits
  <2>4. CASE Audit \/ InstallKernel
    BY <2>4, PhaseFits
  <2>5. CASE Finish
    BY <2>5, FinishFits
  <2>6. CASE StopKernel
    BY <2>6, StopsFits DEF StopKernel
  <2>7. CASE BetweenRuns
    BY <2>7, BetweenFits
  <2>8. CASE UNCHANGED fdoVars
    <3>1. UNCHANGED <<version, config, builds, kernelTree, package, archive, store, perf, work>>
      BY <2>8 DEF fdoVars
    <3>2. Tree' = Tree
      BY <3>1 DEF Tree
    <3>3. WorkInv'
      BY <3>1, <3>2 DEF FdoInv, WorkInv, Applies, HasBuilt
    <3>4. archive' \in [Roles \X (1 .. MaxRelease) -> Nat] /\ work' \in {Off} \cup Works
      BY <3>1 DEF FdoInv, FdoTyped
    <3> QED
      BY <3>1, <3>3, <3>4, WorkOnly
  <2> QED
    BY <2>1, <2>2, <2>3, <2>4, <2>5, <2>6, <2>7, <2>8 DEF NextFdo
<1> QED
  BY <1>1, FdoInit, PTL DEF FdoSpec

\* The profiles that a kernel applies were sampled on a kernel of the same     *)
\* version and round, and what is installed applies the store's profiles.
THEOREM RoundsFit == FdoSpec => []ProfilesFit
<1>1. FdoInv => ProfilesFit
  <2> SUFFICES ASSUME FdoInv PROVE ProfilesFit
    OBVIOUS
  <2>1. work # Off => work \in Works
    BY DEF FdoInv, FdoTyped
  <2>2. work.phase \in {"build", "audit", "install"} => work # Off
    BY DEF Off
  <2>3. PropellerFits
    BY <2>1, <2>2 DEF FdoInv, WorkInv, PropellerFits, Applying
  <2>4. AppliesStore
    BY <2>1, <2>2 DEF FdoInv, WorkInv, AppliesStore, HasBuilt
  <2> QED
    BY <2>3, <2>4 DEF ProfilesFit
<1> QED
  BY <1>1, FdoHolds, PTL
=============================================================================

------------------------ MODULE StageSentinelProofs ------------------------
(***************************************************************************)
(* What StageSentinel guarantees for any number of processes, whatever     *)
(* they were started as.                                                   *)
(***************************************************************************)
EXTENDS StageSentinel, KernelConfig, SequenceTheorems, WellFoundedInduction, TLAPS

\* Every run is started as a kind whose fields are typed.
LEMMA KindFields ==
    ASSUME NEW k \in Kinds
    PROVE  /\ k.gated \in BOOLEAN /\ k.armsOnMutation \in BOOLEAN
           /\ k.attended \in BOOLEAN /\ k.recovery \in BOOLEAN
           /\ k.scopes \in {1, 2}
BY KindsTyped DEF KindType

\* Initially everything has its type.
LEMMA TypeInit == Init => TypeOK
<1>1. ASSUME Init PROVE \A r \in Run : kind[r] \in Kinds /\ kind[r].scopes \in {1, 2}
  BY <1>1, KindFields DEF Init
<1>2. ASSUME Init PROVE TypeOK
  BY <1>1, <1>2 DEF Init, TypeOK, PCs, Body, Check
<1> QED BY <1>2

\* Every step of every run keeps every variable in its type.
LEMMA TypeStep == TypeOK /\ [Next]_vars => TypeOK'
<1> SUFFICES ASSUME TypeOK, [Next]_vars PROVE TypeOK'
  OBVIOUS
<1> USE NoneIsNoRun DEF PCs, Body, Check
<1>0. CASE UNCHANGED vars
  BY <1>0 DEF TypeOK, vars
<1>1. CASE Next
  <2> PICK r \in Run : Step(r) \/ Environment(r)
    BY <1>1 DEF Next
  <2>1. CASE Start(r) \/ ProbeTakes(r) \/ ProbeReleases(r) \/ ProbeRefuses(r)
              \/ ProbeFaults(r)
    BY <2>1 DEF TypeOK, Start, ProbeTakes, ProbeReleases, ProbeRefuses,
                ProbeFaults, Go, Release
  <2>2. CASE ReadRecord(r)
    BY <2>2 DEF TypeOK, ReadRecord, Go, Proceed
  <2>3. CASE Declines(r) \/ AcceptsClear(r) \/ AcceptsRecovery(r)
              \/ RecoveryFails(r) \/ RecoverySucceeds(r)
    BY <2>3 DEF TypeOK, Declines, AcceptsClear, AcceptsRecovery,
                RecoveryFails, RecoverySucceeds, Go
  <2>4. CASE Wipe(r) \/ Verify(r)
    BY <2>4 DEF TypeOK, Wipe, Verify, Go, Proceed
  <2>5. CASE OpenScope(r)
    <3>1. left[r] - 1 \in 0 .. 2
      BY <2>5 DEF TypeOK, OpenScope
    <3> QED BY <2>5, <3>1 DEF TypeOK, OpenScope, Go
  <2>9. CASE Finish(r) \/ Acquire(r) \/ AcquireRefused(r) \/ AcquireFaults(r)
    BY <2>9 DEF TypeOK, Finish, Acquire, AcquireRefused, AcquireFaults, Go
  <2>6. CASE EnterBody(r) \/ ArmAtFirstChange(r) \/ ChangeSystem(r)
              \/ FirstCtrlC(r)
    BY <2>6 DEF TypeOK, EnterBody, ArmAtFirstChange, ChangeSystem, FirstCtrlC,
                Arm, Go
  <2>7. CASE Interrupted(r) \/ BodyRaises(r) \/ Crash(r)
    BY <2>7 DEF TypeOK, Interrupted, BodyRaises, Crash, Abandon, Go, Release
  <2>8. CASE BodyCompletes(r) \/ ClearRecord(r) \/ LeaveScope(r)
    BY <2>8 DEF TypeOK, BodyCompletes, ClearRecord, LeaveScope, Go, Release
  <2> QED BY <2>1, <2>2, <2>3, <2>4, <2>5, <2>6, <2>7, <2>8, <2>9
             DEF Step, Environment
<1> QED BY <1>0, <1>1

\* Type correctness of the sentinel's state, in every behaviour.
THEOREM TypeCorrect == Spec => []TypeOK
<1>1. Init => TypeOK BY TypeInit
<1>2. TypeOK /\ [Next]_vars => TypeOK' BY TypeStep
<1> QED BY <1>1, <1>2, PTL DEF Spec

-----------------------------------------------------------------------------
(***************************************************************************)
(* One body at a time.  A process in its scope, or in the instant of its   *)
(* probe, is the one the lock names: that is inductive, OneInside is not.  *)
(***************************************************************************)
Held == \A r \in Run : InBody(r) \/ pc[r] = "probing" => lock = r

LockInv == TypeOK /\ Held

\* Without OSErrors of the lock file, a process inside is the lock's holder.
LEMMA HeldStep ==
    ASSUME "lock" \notin Faults
    PROVE  LockInv /\ [Next]_vars => Held'
<1> SUFFICES ASSUME "lock" \notin Faults, LockInv, [Next]_vars PROVE Held'
  OBVIOUS
<1> USE NoneIsNoRun DEF LockInv, Held, InBody, Body, TypeOK
<1>0. CASE UNCHANGED vars
  BY <1>0 DEF vars
<1>1. CASE Next
  <2> PICK r \in Run : Step(r) \/ Environment(r)
    BY <1>1 DEF Next
  <2>1. CASE Start(r) \/ ProbeTakes(r) \/ ProbeReleases(r) \/ ProbeRefuses(r)
              \/ ProbeFaults(r)
    BY <2>1 DEF Start, ProbeTakes, ProbeReleases, ProbeRefuses, ProbeFaults,
                Go, Release
  <2>2. CASE ReadRecord(r) \/ Declines(r) \/ AcceptsClear(r)
              \/ AcceptsRecovery(r) \/ RecoveryFails(r) \/ RecoverySucceeds(r)
    BY <2>2 DEF ReadRecord, Declines, AcceptsClear, AcceptsRecovery,
                RecoveryFails, RecoverySucceeds, Go, Proceed
  <2>3. CASE Wipe(r) \/ Verify(r) \/ OpenScope(r) \/ Finish(r)
    BY <2>3 DEF Wipe, Verify, OpenScope, Finish, Go, Proceed
  <2>4. CASE Acquire(r) \/ AcquireRefused(r) \/ AcquireFaults(r)
    BY <2>4 DEF Acquire, AcquireRefused, AcquireFaults, Go
  <2>5. CASE EnterBody(r) \/ ArmAtFirstChange(r) \/ ChangeSystem(r)
              \/ FirstCtrlC(r)
    BY <2>5 DEF EnterBody, ArmAtFirstChange, ChangeSystem, FirstCtrlC, Go
  <2>6. CASE Interrupted(r) \/ BodyRaises(r) \/ Crash(r)
    BY <2>6 DEF Interrupted, BodyRaises, Crash, Abandon, Go, Release
  <2>7. CASE BodyCompletes(r) \/ ClearRecord(r) \/ LeaveScope(r)
    BY <2>7 DEF BodyCompletes, ClearRecord, LeaveScope, Go, Release
  <2> QED BY <2>1, <2>2, <2>3, <2>4, <2>5, <2>6, <2>7 DEF Step, Environment
<1> QED BY <1>0, <1>1

\* Two install-bearing bodies never run at once, for any set of processes and
\* any interleaving, as long as the lock file itself can be used.
THEOREM Exclusive ==
    ASSUME "lock" \notin Faults
    PROVE  Spec => []OneInside
<1>1. Init => LockInv
  BY TypeInit DEF Init, LockInv, Held, InBody, Body
<1>2. LockInv /\ [Next]_vars => LockInv'
  BY TypeStep, HeldStep DEF LockInv
<1>3. LockInv => OneInside
  BY DEF LockInv, Held, OneInside
<1> QED BY <1>1, <1>2, <1>3, PTL DEF Spec

-----------------------------------------------------------------------------
(***************************************************************************)
(* One process at a time, as when a machine has one operator and a crash   *)
(* is followed by a reboot.  The inductive invariant says, for each point  *)
(* of a run, what it has established about the record and the system: a    *)
(* run past the check has seen both empty, and nobody else moves.          *)
(***************************************************************************)
Alone == \A r, q \in Run : Live(r) /\ Live(q) => r = q

ChangedIn(r) ==
    changed[r] => pc[r] = "body" /\ armed[r]

ArmedIn(r) ==
    armed[r] => pc[r] \in {"body", "clearing", "leaving", "ended"}

Established(r) ==
    /\ pc[r] \in {"asked", "recovering"} => seen[r] = record
    /\ pc[r] \in {"acquire", "entered", "body", "clearing", "leaving"}
          => torn = {}
    /\ pc[r] = "wiping" => torn = {}
    /\ pc[r] = "verify" => torn = {} /\ record = None
    /\ pc[r] \in {"acquire", "entered"} => record = None
    /\ pc[r] = "body" /\ armed[r] => record = r

PromiseInv ==
    /\ TypeOK
    /\ Alone
    /\ TornIsRecorded
    /\ \A r \in Run : ChangedIn(r) /\ ArmedIn(r) /\ Established(r)

\* What a step of one process leaves true when no other process is alive and
\* the record is written whenever it should be.
LEMMA PromiseStep ==
    ASSUME Concurrent = FALSE, "write" \notin Faults
    PROVE  PromiseInv /\ [Next]_vars => PromiseInv'
<1> SUFFICES ASSUME Concurrent = FALSE, "write" \notin Faults,
                    PromiseInv, [Next]_vars
             PROVE  PromiseInv'
  OBVIOUS
<1>t. TypeOK'
  BY TypeStep DEF PromiseInv
<1> SUFFICES /\ Alone' /\ TornIsRecorded'
             /\ \A q \in Run : ChangedIn(q)' /\ ArmedIn(q)' /\ Established(q)'
  BY <1>t DEF PromiseInv
<1> USE NoneIsNoRun DEF PromiseInv, TypeOK, Alone, Live, TornIsRecorded,
        ChangedIn, ArmedIn, Established
<1>0. CASE UNCHANGED vars
  BY <1>0 DEF vars
<1>1. CASE Next
  <2> PICK r \in Run : Step(r) \/ Environment(r)
    BY <1>1 DEF Next
  <2>1. CASE Start(r)
    BY <2>1 DEF Start, Go
  <2>2. CASE ProbeTakes(r) \/ ProbeReleases(r) \/ ProbeRefuses(r)
              \/ ProbeFaults(r)
    BY <2>2 DEF ProbeTakes, ProbeReleases, ProbeRefuses, ProbeFaults, Go
  <2>3. CASE ReadRecord(r)
    BY <2>3 DEF ReadRecord, Go, Proceed
  <2>4. CASE Declines(r) \/ RecoveryFails(r) \/ Finish(r)
    BY <2>4 DEF Declines, RecoveryFails, Finish, Go
  <2>5. CASE AcceptsClear(r) \/ AcceptsRecovery(r) \/ RecoverySucceeds(r)
    BY <2>5 DEF AcceptsClear, AcceptsRecovery, RecoverySucceeds, Go
  <2>6. CASE Wipe(r) \/ Verify(r)
    BY <2>6 DEF Wipe, Verify, Go, Proceed
  <2>7. CASE OpenScope(r)
    BY <2>7 DEF OpenScope, Go
  <2>8. CASE Acquire(r) \/ AcquireRefused(r) \/ AcquireFaults(r)
    BY <2>8 DEF Acquire, AcquireRefused, AcquireFaults, Go
  <2>9. CASE EnterBody(r)
    BY <2>9 DEF EnterBody, Arm, Go
  <2>10. CASE ArmAtFirstChange(r)
    BY <2>10 DEF ArmAtFirstChange, Arm
  <2>11. CASE ChangeSystem(r) \/ FirstCtrlC(r)
    BY <2>11 DEF ChangeSystem, FirstCtrlC
  <2>12. CASE Interrupted(r) \/ BodyRaises(r) \/ Crash(r)
    BY <2>12 DEF Interrupted, BodyRaises, Crash, Abandon, Go
  <2>13. CASE BodyCompletes(r) \/ ClearRecord(r)
    BY <2>13 DEF BodyCompletes, ClearRecord, Go
  <2>14. CASE LeaveScope(r)
    BY <2>14 DEF LeaveScope, Go
  <2> QED BY <2>1, <2>2, <2>3, <2>4, <2>5, <2>6, <2>7, <2>8, <2>9, <2>10,
             <2>11, <2>12, <2>13, <2>14 DEF Step, Environment
<1> QED BY <1>0, <1>1

\* The first state of a machine that never ran sysforge.
LEMMA PromiseInit == Init => PromiseInv
<1> SUFFICES ASSUME Init PROVE PromiseInv
  OBVIOUS
<1>1. TypeOK
  BY TypeInit
<1> QED
  BY <1>1 DEF Init, PromiseInv, Alone, Live, TornIsRecorded, ChangedIn,
              ArmedIn, Established

\* The invariant that the promise rests on holds in every behaviour.
LEMMA PromiseInvariant ==
    ASSUME Concurrent = FALSE, "write" \notin Faults
    PROVE  Spec => []PromiseInv
<1>1. Init => PromiseInv
  BY PromiseInit
<1>2. PromiseInv /\ [Next]_vars => PromiseInv'
  BY PromiseStep
<1> QED BY <1>1, <1>2, PTL DEF Spec

\* A half-changed system always has the record of the run that left it so,
\* through any sequence of crashes, failed clears and failed recoveries.
THEOREM NeverSilent ==
    ASSUME Concurrent = FALSE, "write" \notin Faults
    PROVE  Spec => []TornIsRecorded
<1>1. Spec => []PromiseInv
  BY PromiseInvariant
<1>2. PromiseInv => TornIsRecorded
  BY DEF PromiseInv
<1> QED BY <1>1, <1>2, PTL

\* Every step of the sentinel is a step of the promise, or changes nothing of
\* what the promise is about.
LEMMA PromiseRefined ==
    PromiseInv /\ [Next]_vars => [Promise!Next]_health
<1> SUFFICES ASSUME PromiseInv, [Next]_vars PROVE [Promise!Next]_health
  OBVIOUS
<1> USE DEF PromiseInv, TypeOK, Alone, ChangedIn, Established, TornIsRecorded
<1> USE DEF health, Promise!Next, Promise!Begin, Promise!Complete,
            Promise!Interrupt, Promise!Repair
<1>0. ASSUME UNCHANGED <<changed, torn>> PROVE UNCHANGED health
  BY <1>0
<1>1. CASE UNCHANGED vars
  BY <1>0, <1>1 DEF vars
<1>2. CASE Next
  <2> PICK r \in Run : Step(r) \/ Environment(r)
    BY <1>2 DEF Next
  <2>1. ASSUME Live(r), pc[r] # "body"
        PROVE  \A q \in Run : ~changed[q]
    BY <2>1 DEF Live
  <2>2. CASE UNCHANGED <<changed, torn>>
    BY <1>0, <2>2
  <2>3. CASE AcceptsClear(r) \/ RecoverySucceeds(r)
    <3>1. /\ \A q \in Run : ~changed[q]
          /\ changed' = changed
      BY <2>3, <2>1 DEF AcceptsClear, RecoverySucceeds, Live
    <3>2. torn' = {}
      BY <2>3 DEF AcceptsClear, RecoverySucceeds
    <3> QED BY <3>1, <3>2
  <2>4. CASE ChangeSystem(r)
    <3>1. torn = {} /\ torn' = {}
      BY <2>4 DEF ChangeSystem
    <3>2. changed'[r]
      BY <2>4 DEF ChangeSystem
    <3> QED BY <3>1, <3>2
  <2>5. CASE Interrupted(r) \/ BodyRaises(r) \/ Crash(r)
    <3>0. Live(r) /\ Abandon(r)
      BY <2>5 DEF Interrupted, BodyRaises, Crash, Live
    <3>1. CASE changed[r]
      <4>1. r \in torn'
        BY <3>0, <3>1 DEF Abandon
      <4>2. \A q \in Run : ~changed'[q]
        BY <3>0, <3>1 DEF Abandon, Live
      <4> QED BY <3>1, <4>1, <4>2
    <3>2. CASE ~changed[r]
      <4>1. changed' = changed /\ torn' = torn
        BY <3>0, <3>2 DEF Abandon
      <4> QED BY <1>0, <4>1
    <3> QED BY <3>1, <3>2
  <2>6. CASE BodyCompletes(r)
    <3>1. torn = {} /\ torn' = {}
      BY <2>6 DEF BodyCompletes
    <3>2. \A q \in Run : ~changed'[q]
      BY <2>6 DEF BodyCompletes, Live
    <3> QED BY <3>1, <3>2
  <2> QED
    BY <2>2, <2>3, <2>4, <2>5, <2>6
       DEF Step, Environment, Start, ProbeTakes, ProbeReleases, ProbeRefuses,
           ProbeFaults, ReadRecord, Declines, AcceptsRecovery, RecoveryFails,
           Wipe, Verify, OpenScope, Finish, Acquire, AcquireRefused,
           AcquireFaults, EnterBody, ArmAtFirstChange, FirstCtrlC,
           ClearRecord, LeaveScope
<1> QED BY <1>1, <1>2

\* The sentinel implements GuardedChange: nothing changes a torn system but
\* its repair, for any sequence of runs, one at a time.
THEOREM Implements ==
    ASSUME Concurrent = FALSE, "write" \notin Faults
    PROVE  Spec => KeepsPromise
<1>1. Init => Promise!Init
  BY DEF Init, Promise!Init, health
<1>2. Spec => []PromiseInv
  BY PromiseInvariant
<1>3. PromiseInv /\ [Next]_vars => [Promise!Next]_health
  BY PromiseRefined
<1> QED BY <1>1, <1>2, <1>3, PTL DEF Spec, KeepsPromise, Promise!Spec

-----------------------------------------------------------------------------
(***************************************************************************)
(* Any number of unattended processes at once (cron, a shell loop, CI).    *)
(* None of them may answer the prompt, so the record changes only under    *)
(* the lock, and what is under the lock is one process.                    *)
(***************************************************************************)
NeverAsked == \A r \in Run : pc[r] \notin {"asked", "recovering", "wiping", "verify"}

RecordInv == LockInv /\ NeverAsked /\ (\A r \in Run : ArmedIn(r)) /\ LiveRecordKept

\* A step of one unattended process leaves the record invariant true.
LEMMA RecordStep ==
    ASSUME Faults \cap {"lock", "write"} = {}, \A k \in Kinds : ~k.attended
    PROVE  RecordInv /\ [Next]_vars => RecordInv'
<1> SUFFICES ASSUME Faults \cap {"lock", "write"} = {},
                    \A k \in Kinds : ~k.attended, RecordInv, [Next]_vars
             PROVE  RecordInv'
  OBVIOUS
<1>l. LockInv'
  BY TypeStep, HeldStep DEF RecordInv, LockInv
<1> SUFFICES NeverAsked' /\ (\A q \in Run : ArmedIn(q)') /\ LiveRecordKept'
  BY <1>l DEF RecordInv
<1> USE NoneIsNoRun DEF RecordInv, LockInv, Held, InBody, Body, TypeOK,
        NeverAsked, ArmedIn, LiveRecordKept
<1>0. CASE UNCHANGED vars
  BY <1>0 DEF vars
<1>1. CASE Next
  <2> PICK r \in Run : Step(r) \/ Environment(r)
    BY <1>1 DEF Next
  <2>1. CASE Start(r) \/ ProbeTakes(r) \/ ProbeReleases(r) \/ ProbeRefuses(r)
              \/ ProbeFaults(r)
    BY <2>1 DEF Start, ProbeTakes, ProbeReleases, ProbeRefuses, ProbeFaults, Go
  <2>2. CASE ReadRecord(r)
    BY <2>2 DEF ReadRecord, Go, Proceed
  <2>3. CASE Declines(r) \/ AcceptsClear(r) \/ AcceptsRecovery(r)
              \/ RecoveryFails(r) \/ RecoverySucceeds(r) \/ Wipe(r) \/ Verify(r)
    BY <2>3 DEF Declines, AcceptsClear, AcceptsRecovery, RecoveryFails,
                RecoverySucceeds, Wipe, Verify
  <2>4. CASE OpenScope(r) \/ Finish(r) \/ Acquire(r) \/ AcquireRefused(r)
              \/ AcquireFaults(r)
    BY <2>4 DEF OpenScope, Finish, Acquire, AcquireRefused, AcquireFaults, Go
  <2>5. CASE EnterBody(r) \/ ArmAtFirstChange(r)
    BY <2>5 DEF EnterBody, ArmAtFirstChange, Arm, Go
  <2>6. CASE ChangeSystem(r) \/ FirstCtrlC(r)
    BY <2>6 DEF ChangeSystem, FirstCtrlC
  <2>7. CASE Interrupted(r) \/ BodyRaises(r) \/ Crash(r)
    BY <2>7 DEF Interrupted, BodyRaises, Crash, Abandon, Go
  <2>8. CASE BodyCompletes(r) \/ ClearRecord(r) \/ LeaveScope(r)
    BY <2>8 DEF BodyCompletes, ClearRecord, LeaveScope, Go
  <2> QED BY <2>1, <2>2, <2>3, <2>4, <2>5, <2>6, <2>7, <2>8
             DEF Step, Environment
<1> QED BY <1>0, <1>1

\* Among processes that cannot prompt, the record always names the one that
\* is changing the system, however their steps interleave.
THEOREM UnattendedRecord ==
    ASSUME Faults \cap {"lock", "write"} = {}, \A k \in Kinds : ~k.attended
    PROVE  Spec => []LiveRecordKept
<1>1. Init => RecordInv
  BY TypeInit DEF Init, RecordInv, LockInv, Held, InBody, Body, NeverAsked,
                  ArmedIn, LiveRecordKept
<1>2. RecordInv /\ [Next]_vars => RecordInv'
  BY RecordStep
<1>3. RecordInv => LiveRecordKept
  BY DEF RecordInv
<1> QED BY <1>1, <1>2, <1>3, PTL DEF Spec
-----------------------------------------------------------------------------
(* The configuration of the kernel that a stage builds.                     *)

\* Of some numbers one is the least.
LEMMA LeastNumber ==
    ASSUME NEW T \in SUBSET Nat, T # {}
    PROVE  \E i \in T : \A j \in T : i <= j
<1>1. IsWellFoundedOn(OpToRel(<, Nat), Nat)
  BY NatLessThanWellFounded
<1>2. PICK i \in T : \A j \in T : ~(<<j, i>> \in OpToRel(<, Nat))
  BY <1>1, WFMin
<1>3. ASSUME NEW j \in T PROVE i <= j
  <2>1. ~(<<j, i>> \in OpToRel(<, Nat))
    BY <1>2
  <2> QED BY <2>1 DEF OpToRel
<1> QED BY <1>3

\* What holds of 0 and of the next number holds of all up to a bound.
LEMMA UpTo ==
    ASSUME NEW n \in Nat, NEW Ok, 0 \in Ok, \A i \in 0..n : i \in Ok /\ i + 1 <= n => i + 1 \in Ok
    PROVE  \A i \in 0..n : i \in Ok
<1> DEFINE Off == {i \in Nat : i <= n /\ i \notin Ok}
<1>1. Off \subseteq Nat /\ \A i \in Nat : i \in Off <=> i <= n /\ i \notin Ok
  OBVIOUS
<1> HIDE DEF Off
<1>2. Off = {}
  <2> SUFFICES ASSUME Off # {} PROVE FALSE
    OBVIOUS
  <2>1. PICK i \in Off : \A j \in Off : i <= j
    BY <1>1, LeastNumber
  <2>2. i # 0 /\ i - 1 \in 0..n /\ (i - 1) + 1 = i /\ i <= n /\ i - 1 \in Nat
    BY <1>1
  <2>3. i - 1 \in Ok
    BY <1>1, <2>1, <2>2
  <2> QED BY <1>1, <2>2, <2>3
<1> QED BY <1>1, <1>2

Steps == Writing \cup Kconfig \cup {"seed", "fragment", "hotplug", "verify", "ask", "staged"}

Keeping(lines, kinds) ==
    CHOOSE g : g = [i \in 0..Len(lines) |->
                       IF i = 0 THEN <<>>
                       ELSE IF lines[i] \in kinds THEN Append(g[i - 1], lines[i]) ELSE g[i - 1]]

\* The lines of some kinds are as many as they are when all of them come first.
LEMMA OnlyIs ==
    ASSUME NEW S, NEW lines \in Seq(S), NEW kinds
    PROVE  /\ Only(lines, kinds) \in Seq(S \cap kinds)
           /\ \A at \in 0..Len(lines) :
                (\A i \in 1..at : lines[i] \in kinds) /\ (\A i \in (at + 1)..Len(lines) : lines[i] \notin kinds)
                  => Len(Only(lines, kinds)) = at
<1> DEFINE n == Len(lines)
           Then(g, i) == IF i = 0 THEN <<>>
                         ELSE IF lines[i] \in kinds THEN Append(g[i - 1], lines[i]) ELSE g[i - 1]
           Ok == {i \in 0..n : \E g : g = [j \in 0..i |-> Then(g, j)]}
           g == Keeping(lines, kinds)
<1>1. n \in Nat /\ \A i \in 1..n : lines[i] \in S
  OBVIOUS
<1>2. 0 \in Ok
  <2> DEFINE h == [j \in 0..0 |-> <<>>]
  <2>1. \A j \in 0..0 : Then(h, j) = <<>>
    OBVIOUS
  <2>2. h = [j \in 0..0 |-> Then(h, j)]
    BY <2>1
  <2> HIDE DEF h
  <2> QED BY <1>1, <2>2
<1>3. ASSUME NEW i \in 0..n, i \in Ok, i + 1 <= n PROVE i + 1 \in Ok
  <2>1. PICK f : f = [j \in 0..i |-> Then(f, j)]
    BY <1>3
  <2> DEFINE new == IF lines[i + 1] \in kinds THEN Append(f[i], lines[i + 1]) ELSE f[i]
             h == [j \in 0..(i + 1) |-> IF j = i + 1 THEN new ELSE f[j]]
  <2>2. ASSUME NEW j \in 0..(i + 1) PROVE h[j] = Then(h, j)
    <3>1. CASE j = i + 1
      <4>1. h[j] = new /\ j # 0 /\ j - 1 = i /\ h[i] = f[i]
        BY <1>1, <3>1
      <4> HIDE DEF h
      <4> QED BY <3>1, <4>1
    <3>2. CASE j # i + 1
      <4>1. j \in 0..i /\ (j # 0 => j - 1 \in 0..i /\ j - 1 # i + 1 /\ j - 1 \in 0..(i + 1))
        BY <1>1, <3>2
      <4>2. h[j] = f[j] /\ (j # 0 => h[j - 1] = f[j - 1])
        BY <4>1, <3>2
      <4> HIDE DEF h
      <4>3. f[j] = Then(f, j)
        BY <2>1, <4>1
      <4> QED BY <4>2, <4>3
    <3> QED BY <3>1, <3>2
  <2>3. h = [j \in 0..(i + 1) |-> h[j]]
    OBVIOUS
  <2> HIDE DEF h
  <2>4. h = [j \in 0..(i + 1) |-> Then(h, j)]
    BY <2>2, <2>3
  <2> HIDE DEF Then
  <2> QED BY <1>1, <1>3, <2>4
<1>4. n \in Ok
  <2>1. \A i \in 0..n : i \in Ok /\ i + 1 <= n => i + 1 \in Ok
    <3> HIDE DEF Ok
    <3> QED BY <1>3
  <2> HIDE DEF Ok, n
  <2>2. \A i \in 0..n : i \in Ok
    BY <1>1, <1>2, <2>1, UpTo, Zenon
  <2>3. n \in 0..n
    BY <1>1
  <2> QED BY <2>2, <2>3
<1>5. g = [j \in 0..n |-> Then(g, j)]
  BY <1>4 DEF Keeping
<1>6. Only(lines, kinds) = g[n]
  BY DEF Only, Keeping
<1> HIDE DEF g, Ok
<1>7. g[0] = <<>> /\ \A i \in 0..n : i + 1 <= n =>
        g[i + 1] = IF lines[i + 1] \in kinds THEN Append(g[i], lines[i + 1]) ELSE g[i]
  <2>1. g[0] = <<>>
    BY <1>1, <1>5
  <2>2. ASSUME NEW i \in 0..n, i + 1 <= n
        PROVE  g[i + 1] = IF lines[i + 1] \in kinds THEN Append(g[i], lines[i + 1]) ELSE g[i]
    <3>1. i + 1 \in 0..n /\ i + 1 # 0 /\ (i + 1) - 1 = i
      BY <1>1, <2>2
    <3> QED BY <1>5, <3>1
  <2> QED BY <2>1, <2>2
<1>8. ASSUME NEW at \in 0..n,
             \A i \in 1..at : lines[i] \in kinds, \A i \in (at + 1)..n : lines[i] \notin kinds
      PROVE  Len(g[n]) = at
  <2> HIDE DEF n
  <2> DEFINE Fine == {i \in 0..n : g[i] \in Seq(S) /\ Len(g[i]) = IF i <= at THEN i ELSE at}
  <2>0. \A i : i \in Fine <=> i \in 0..n /\ g[i] \in Seq(S) /\ Len(g[i]) = IF i <= at THEN i ELSE at
    OBVIOUS
  <2> HIDE DEF Fine
  <2>1. 0 \in Fine
    <3>1. <<>> \in Seq(S) /\ Len(<<>>) = 0
      OBVIOUS
    <3>2. 0 \in 0..n
      BY <1>1
    <3>3. g[0] = <<>>
      BY <1>7
    <3>4. 0 <= at
      BY <1>1, <1>8
    <3>5. g[0] \in Seq(S) /\ Len(g[0]) = 0
      BY <3>1, <3>3
    <3> HIDE DEF g
    <3> QED BY <2>0, <3>2, <3>4, <3>5
  <2>2. ASSUME NEW i \in 0..n, i \in Fine, i + 1 <= n PROVE i + 1 \in Fine
    <3>1. CASE i + 1 <= at
      <4>1. i + 1 \in 1..at /\ i + 1 \in 1..n /\ i <= at /\ i + 1 \in 0..n
        BY <1>1, <1>8, <2>2, <3>1
      <4>2. lines[i + 1] \in kinds /\ lines[i + 1] \in S /\ g[i + 1] = Append(g[i], lines[i + 1])
        BY <1>1, <1>7, <1>8, <2>2, <4>1
      <4>3. g[i] \in Seq(S) /\ Len(g[i]) = i
        BY <2>0, <2>2, <4>1
      <4>4. Append(g[i], lines[i + 1]) \in Seq(S) /\ Len(Append(g[i], lines[i + 1])) = i + 1
        BY <4>2, <4>3
      <4> QED BY <2>0, <3>1, <4>1, <4>2, <4>4
    <3>2. CASE ~(i + 1 <= at)
      <4>1. i + 1 \in (at + 1)..n /\ i + 1 \in 0..n /\ (i <= at => i = at)
        BY <1>1, <1>8, <2>2, <3>2
      <4>2. lines[i + 1] \notin kinds /\ g[i + 1] = g[i]
        BY <1>7, <1>8, <2>2, <4>1
      <4>3. g[i] \in Seq(S) /\ Len(g[i]) = at
        BY <2>0, <2>2, <4>1
      <4> QED BY <2>0, <3>2, <4>1, <4>2, <4>3
    <3> QED BY <3>1, <3>2
  <2>3. n \in Fine
    <3>1. \A i \in 0..n : i \in Fine /\ i + 1 <= n => i + 1 \in Fine
      BY <2>2
    <3>2. \A i \in 0..n : i \in Fine
      BY <1>1, <2>1, <3>1, UpTo, Zenon
    <3>3. n \in 0..n
      BY <1>1
    <3> QED BY <3>2, <3>3
  <2> QED BY <1>1, <1>8, <2>0, <2>3
<1>9. g[n] \in Seq(S \cap kinds)
  <2> HIDE DEF n
  <2> DEFINE Fine == {i \in 0..n : g[i] \in Seq(S \cap kinds)}
  <2>0. \A i : i \in Fine <=> i \in 0..n /\ g[i] \in Seq(S \cap kinds)
    OBVIOUS
  <2> HIDE DEF Fine
  <2>1. 0 \in Fine
    <3>1. <<>> \in Seq(S \cap kinds)
      OBVIOUS
    <3>2. 0 \in 0..n
      BY <1>1
    <3>3. g[0] = <<>>
      BY <1>7
    <3> HIDE DEF g
    <3> QED BY <2>0, <3>1, <3>2, <3>3
  <2>2. ASSUME NEW i \in 0..n, i \in Fine, i + 1 <= n PROVE i + 1 \in Fine
    <3>1. i + 1 \in 1..n /\ i + 1 \in 0..n
      BY <1>1, <2>2
    <3>2. lines[i + 1] \in S /\ g[i] \in Seq(S \cap kinds)
      BY <1>1, <2>0, <2>2, <3>1
    <3>3. lines[i + 1] \in kinds => Append(g[i], lines[i + 1]) \in Seq(S \cap kinds)
      BY <3>2
    <3>4. g[i + 1] = IF lines[i + 1] \in kinds THEN Append(g[i], lines[i + 1]) ELSE g[i]
      BY <1>7, <2>2
    <3> QED BY <2>0, <3>1, <3>2, <3>3, <3>4
  <2>3. n \in Fine
    <3>1. \A i \in 0..n : i \in Fine /\ i + 1 <= n => i + 1 \in Fine
      BY <2>2
    <3>2. \A i \in 0..n : i \in Fine
      BY <1>1, <2>1, <3>1, UpTo, Zenon
    <3>3. n \in 0..n
      BY <1>1
    <3> QED BY <3>2, <3>3
  <2> QED BY <2>0, <2>3
<1> QED BY <1>6, <1>8, <1>9

Ran(m, files, lines) ==
    CHOOSE g : g = [i \in 0..Len(lines) |->
                       IF i = 0 THEN [config |-> m.shipped, said |-> {}, asked |-> FALSE]
                       ELSE Did(m, files, g[i - 1], lines[i])]

\* The states prepare() runs through are defined.
LEMMA RanIs ==
    ASSUME NEW m, NEW files, NEW lines \in Seq(Steps)
    PROVE  LET g == Ran(m, files, lines)
               t == g[Len(lines)]
           IN  /\ g[0] = [config |-> m.shipped, said |-> {}, asked |-> FALSE]
               /\ \A i \in 0..Len(lines) : i + 1 <= Len(lines) => g[i + 1] = Did(m, files, g[i], lines[i + 1])
               /\ Prepared(m, files, lines) = [t EXCEPT !.config = Settle(m, t.config)]
<1> DEFINE n == Len(lines)
           start == [config |-> m.shipped, said |-> {}, asked |-> FALSE]
           Then(g, i) == IF i = 0 THEN start ELSE Did(m, files, g[i - 1], lines[i])
           Ok == {i \in 0..n : \E g : g = [j \in 0..i |-> Then(g, j)]}
           g == Ran(m, files, lines)
<1>1. n \in Nat
  OBVIOUS
<1>2. 0 \in Ok
  <2> DEFINE h == [j \in 0..0 |-> start]
  <2>1. \A j \in 0..0 : Then(h, j) = start
    OBVIOUS
  <2>2. h = [j \in 0..0 |-> Then(h, j)]
    BY <2>1
  <2> HIDE DEF h
  <2> QED BY <1>1, <2>2
<1>3. ASSUME NEW i \in 0..n, i \in Ok, i + 1 <= n PROVE i + 1 \in Ok
  <2>1. PICK f : f = [j \in 0..i |-> Then(f, j)]
    BY <1>3
  <2> DEFINE h == [j \in 0..(i + 1) |-> IF j = i + 1 THEN Did(m, files, f[i], lines[i + 1]) ELSE f[j]]
  <2>2. ASSUME NEW j \in 0..(i + 1) PROVE h[j] = Then(h, j)
    <3>1. CASE j = i + 1
      <4>1. h[j] = Did(m, files, f[i], lines[i + 1]) /\ j # 0 /\ j - 1 = i /\ h[i] = f[i]
        BY <1>1, <3>1
      <4> HIDE DEF h, start
      <4> QED BY <3>1, <4>1
    <3>2. CASE j # i + 1
      <4>1. j \in 0..i /\ (j # 0 => j - 1 \in 0..i /\ j - 1 # i + 1 /\ j - 1 \in 0..(i + 1))
        BY <1>1, <3>2
      <4>2. h[j] = f[j] /\ (j # 0 => h[j - 1] = f[j - 1])
        BY <4>1, <3>2
      <4> HIDE DEF h, start
      <4>3. f[j] = Then(f, j)
        BY <2>1, <4>1
      <4> QED BY <4>2, <4>3
    <3> QED BY <3>1, <3>2
  <2>3. h = [j \in 0..(i + 1) |-> h[j]]
    OBVIOUS
  <2> HIDE DEF h
  <2>4. h = [j \in 0..(i + 1) |-> Then(h, j)]
    BY <2>2, <2>3
  <2> HIDE DEF Then
  <2> QED BY <1>1, <1>3, <2>4
<1>4. n \in Ok
  <2>1. \A i \in 0..n : i \in Ok /\ i + 1 <= n => i + 1 \in Ok
    <3> HIDE DEF Ok
    <3> QED BY <1>3
  <2> HIDE DEF Ok, n
  <2>2. \A i \in 0..n : i \in Ok
    BY <1>1, <1>2, <2>1, UpTo, Zenon
  <2>3. n \in 0..n
    BY <1>1
  <2> QED BY <2>2, <2>3
<1>5. g = [j \in 0..n |-> Then(g, j)]
  BY <1>4 DEF Ran
<1>6. Prepared(m, files, lines) = [g[n] EXCEPT !.config = Settle(m, g[n].config)]
  BY DEF Prepared, Ran
<1> HIDE DEF g, Ok, start
<1>7. g[0] = start
  BY <1>1, <1>5
<1>8. ASSUME NEW i \in 0..n, i + 1 <= n PROVE g[i + 1] = Did(m, files, g[i], lines[i + 1])
  <2>1. i + 1 \in 0..n /\ i + 1 # 0 /\ (i + 1) - 1 = i
    BY <1>1, <1>8
  <2> QED BY <1>5, <2>1
<1> QED BY <1>6, <1>7, <1>8 DEF g, start

\* A state of prepare() is a configuration, what was said, and whether anyone was asked.
Whole(t) == t = [config |-> t.config, said |-> t.said, asked |-> t.asked]

\* After a line there is a state again.
LEMMA DidWhole ==
    ASSUME NEW m, NEW files, NEW t, Whole(t), NEW line \in Steps
    PROVE  Whole(Did(m, files, t, line))
<1>1. DOMAIN t = {"config", "said", "asked"}
  BY DEF Whole
<1> QED BY <1>1 DEF Did, Whole, Steps, Writing, Kconfig

\* What the last lines do.
LEMMA LastLines ==
    ASSUME NEW m, NEW files, NEW t, Whole(t)
    PROVE  /\ Did(m, files, t, "verify").config = t.config
           /\ Did(m, files, t, "verify").said
                = t.said \cup Missed(files.fragment, t.config) \cup Missed(files.hotplug, t.config)
           /\ Did(m, files, t, "hotplug").config = Merge(m, files.hotplug, t.config)
           /\ Did(m, files, t, "ask").config = Reviewed(m, t.config)
           /\ Did(m, files, t, "resolve").config = Settle(m, t.config)
<1>1. DOMAIN t = {"config", "said", "asked"}
  BY DEF Whole
<1> QED BY <1>1 DEF Did

\* A configuration over another has the options of both.
LEMMA OverIs ==
    ASSUME NEW f, NEW c
    PROVE  /\ DOMAIN Over(f, c) = DOMAIN f \cup DOMAIN c
           /\ \A o \in DOMAIN f : Over(f, c)[o] = f[o]
BY DEF Over

\* What kconfig settles keeps its options, and is settled.
LEMMA SettleIs ==
    ASSUME NEW m, NEW c
    PROVE  /\ DOMAIN Settle(m, c) = DOMAIN c
           /\ Settle(m, Settle(m, c)) = Settle(m, c)
           /\ \A o \in DOMAIN c : Settle(m, c)[o] # c[o] => o \in m.gone \/ o \in m.bools \/ o = "rust"
<1>1. DOMAIN Settle(m, c) = DOMAIN c
  BY DEF Settle
<1>2. \A o \in DOMAIN c : Settle(m, c)[o] # c[o] => o \in m.gone \/ o \in m.bools \/ o = "rust"
  BY DEF Settle
<1>3. \A o \in DOMAIN c : Settle(m, Settle(m, c))[o] = Settle(m, c)[o]
  BY DEF Settle
<1>4. Settle(m, Settle(m, c)) = Settle(m, c)
  <2> DEFINE d == Settle(m, c)
  <2>1. d = [o \in DOMAIN c |-> d[o]]
    BY DEF Settle
  <2>2. Settle(m, d) = [o \in DOMAIN c |-> Settle(m, d)[o]]
    BY DEF Settle
  <2> HIDE DEF d
  <2> QED BY <1>3, <2>1, <2>2 DEF d
<1> QED BY <1>1, <1>2, <1>4

\* A line of the PKGBUILD's loses no option of what it ships.
LEMMA LineKeeps ==
    ASSUME NEW m, NEW files, NEW t, Whole(t), NEW line \in Writing \cup Kconfig,
           DOMAIN m.shipped \subseteq DOMAIN t.config
    PROVE  DOMAIN m.shipped \subseteq DOMAIN Did(m, files, t, line).config
<1> DEFINE c == t.config
           u == Did(m, files, t, line)
<1>0. DOMAIN t = {"config", "said", "asked"}
  BY DEF Whole
<1>1. CASE line = "write"
  BY <1>0, <1>1 DEF Did
<1>2. CASE line = "merge"
  <2>1. u.config = Over(m.packagers, c)
    BY <1>0, <1>2 DEF Did
  <2>2. DOMAIN c \subseteq DOMAIN Over(m.packagers, c)
    BY DEF Over
  <2> QED BY <2>1, <2>2
<1>3. CASE line = "append"
  <2>1. u.config = c \/ u.config = Over(files.fragment, c)
    BY <1>0, <1>3 DEF Did
  <2>2. DOMAIN c \subseteq DOMAIN Over(files.fragment, c)
    BY DEF Over
  <2> QED BY <2>1, <2>2
<1>4. CASE line \in {"resolve", "old"}
  <2>1. u.config = Settle(m, c)
    BY <1>0, <1>4 DEF Did
  <2> QED BY <2>1, SettleIs
<1>5. CASE line = "trim"
  <2>1. u.config = Fit(m, c, Loaded(m))
    BY <1>0, <1>5 DEF Did
  <2>2. DOMAIN Fit(m, c, Loaded(m)) = DOMAIN c
    BY SettleIs DEF Fit
  <2> QED BY <2>1, <2>2
<1>6. CASE line = "menu"
  <2>1. u.config = Reviewed(m, c)
    BY <1>0, <1>6 DEF Did
  <2>2. DOMAIN Reviewed(m, c) = DOMAIN c
    BY SettleIs DEF Reviewed
  <2> QED BY <2>1, <2>2
<1> QED BY <1>1, <1>2, <1>3, <1>4, <1>5, <1>6 DEF Writing, Kconfig

\* Where the elements of two sequences are in the two joined.
LEMMA JoinedIs ==
    ASSUME NEW S, NEW a \in Seq(S), NEW b \in Seq(S), NEW p, NEW q, Len(a) = p, Len(b) = q
    PROVE  /\ a \o b \in Seq(S)
           /\ Len(a \o b) = p + q
           /\ \A i \in 1..p : (a \o b)[i] = a[i]
           /\ \A j \in 1..q : (a \o b)[p + j] = b[j]
<1>1. p \in Nat /\ q \in Nat
  OBVIOUS
<1>2. a \o b \in Seq(S) /\ Len(a \o b) = p + q
  OBVIOUS
<1>3. ASSUME NEW i \in 1..p PROVE (a \o b)[i] = a[i]
  BY <1>1, <1>3
<1>4. ASSUME NEW j \in 1..q PROVE (a \o b)[p + j] = b[j]
  <2>1. p + j \in 1..(Len(a) + Len(b)) /\ ~(p + j <= Len(a)) /\ (p + j) - Len(a) = j
    BY <1>1
  <2> QED BY <2>1
<1> QED BY <1>2, <1>3, <1>4

\* Where the elements of a sequence are once more are put into it.
LEMMA InsertedAtIs ==
    ASSUME NEW S, NEW s \in Seq(S), NEW more \in Seq(S), NEW at \in 0..Len(s)
    PROVE  LET r == InsertedAt(s, at, more)
           IN  /\ r \in Seq(S)
               /\ Len(r) = Len(s) + Len(more)
               /\ \A j \in 1..Len(more) : r[at + j] = more[j]
               /\ \A i \in (at + 1)..Len(s) : r[i + Len(more)] = s[i]
<1> DEFINE front == SubSeq(s, 1, at)
           back == SubSeq(s, at + 1, Len(s))
           n == Len(s)
           k == Len(more)
<1>1. n \in Nat /\ k \in Nat /\ at \in Nat /\ at <= n
  OBVIOUS
<1>2. front \in Seq(S) /\ Len(front) = at
  <2>1. \A i \in 1..at : s[i] \in S
    BY <1>1
  <2> QED BY <1>1, <2>1, SubSeqProperties
<1>3. /\ back \in Seq(S)
      /\ Len(back) = n - at
      /\ \A i \in 1..(n - at) : back[i] = s[at + i]
  <2>1. \A i \in (at + 1)..n : s[i] \in S
    BY <1>1
  <2>2. CASE at = n
    <3>1. back = <<>>
      BY <1>1, <2>2
    <3> QED BY <1>1, <2>2, <3>1
  <2>3. CASE at < n
    <3>1. at + 1 \in 1..(n + 1) /\ n \in at..n /\ n - (at + 1) + 1 = n - at
      BY <1>1, <2>3
    <3>2. back \in Seq(S)
      BY <1>1, <2>1, SubSeqProperties
    <3>3. Len(back) = n - at
      <4>1. Len(back) = IF at + 1 <= n THEN n - (at + 1) + 1 ELSE 0
        BY <1>1, <2>1, SubSeqProperties
      <4>2. at + 1 <= n
        BY <1>1, <2>3
      <4> HIDE DEF back
      <4> QED BY <3>1, <4>1, <4>2
    <3>4. ASSUME NEW i \in 1..(n - at) PROVE back[i] = s[at + i]
      <4>1. (at + 1) + i - 1 = at + i /\ i \in 1..(n - (at + 1) + 1)
        BY <1>1, <3>1
      <4> QED BY <1>1, <4>1
    <3> QED BY <3>2, <3>3, <3>4
  <2> QED BY <1>1, <2>2, <2>3
<1>4. /\ front \o more \in Seq(S)
      /\ Len(front \o more) = at + k
      /\ \A j \in 1..k : (front \o more)[at + j] = more[j]
  <2> HIDE DEF front, k
  <2>1. Len(more) = k
    BY DEF k
  <2> QED BY <1>2, <2>1, JoinedIs
<1> DEFINE fm == front \o more
<1> HIDE DEF front, back
<1>5. /\ fm \o back \in Seq(S)
      /\ Len(fm \o back) = n + k
      /\ \A j \in 1..(at + k) : (fm \o back)[j] = fm[j]
      /\ \A i \in 1..(n - at) : (fm \o back)[at + k + i] = back[i]
  <2>1. fm \in Seq(S) /\ Len(fm) = at + k
    BY <1>4
  <2> HIDE DEF fm
  <2>2. (at + k) + (n - at) = n + k
    BY <1>1
  <2> HIDE DEF n, k
  <2> QED BY <1>3, <2>1, <2>2, JoinedIs
<1>6. InsertedAt(s, at, more) = fm \o back
  BY DEF InsertedAt, front, back
<1> DEFINE r == fm \o back
<1>7. ASSUME NEW j \in 1..k PROVE r[at + j] = more[j]
  <2>1. at + j \in 1..(at + k)
    BY <1>1
  <2> QED BY <1>4, <1>5, <2>1
<1>8. ASSUME NEW i \in (at + 1)..n PROVE r[i + k] = s[i]
  <2>1. i - at \in 1..(n - at) /\ at + k + (i - at) = i + k /\ at + (i - at) = i
    BY <1>1
  <2> QED BY <1>3, <1>5, <2>1
<1> QED BY <1>5, <1>6, <1>7, <1>8

(* A plan closes with the check, and before it comes the merge of what is   *)
(* merged again, or that and then the review.                              *)
Closes(s) ==
    LET n == Len(s)
    IN  /\ n >= 2 /\ s[n] = "verify"
        /\ \/ s[n - 1] = "hotplug"
           \/ n >= 3 /\ s[n - 1] \in {"ask", "resolve"} /\ s[n - 2] = "hotplug"

\* What is inserted last closes the plan.
LEMMA InsertedCloses ==
    ASSUME NEW s \in Seq(Steps), NEW more \in Seq(Steps), NEW at, at = Len(s), Closes(more)
    PROVE  Closes(InsertedAt(s, at, more)) /\ InsertedAt(s, at, more) \in Seq(Steps)
<1> DEFINE k == Len(more)
           r == InsertedAt(s, at, more)
<1>1. k \in Nat /\ at \in 0..Len(s) /\ at \in Nat
  OBVIOUS
<1>2. r \in Seq(Steps) /\ Len(r) = at + k /\ \A j \in 1..k : r[at + j] = more[j]
  <2>1. ASSUME NEW x \in 0..Len(s)
        PROVE  LET z == InsertedAt(s, x, more)
               IN  z \in Seq(Steps) /\ Len(z) = Len(s) + Len(more) /\ \A j \in 1..Len(more) : z[x + j] = more[j]
    BY InsertedAtIs
  <2> QED BY <1>1, <2>1
<1> HIDE DEF r, k
<1>3. /\ k >= 2 /\ k \in 1..k /\ k - 1 \in 1..k /\ at + (k - 1) = (at + k) - 1
      /\ k >= 3 => k - 2 \in 1..k /\ at + (k - 2) = (at + k) - 2
  BY <1>1 DEF Closes, k
<1>4. r[at + k] = more[k] /\ r[(at + k) - 1] = more[k - 1] /\ (k >= 3 => r[(at + k) - 2] = more[k - 2])
  BY <1>1, <1>2, <1>3
<1>5. at + k >= 2 /\ (k >= 3 => at + k >= 3)
  BY <1>1, <1>3
<1>6. /\ more[k] = "verify"
      /\ \/ more[k - 1] = "hotplug"
         \/ k >= 3 /\ more[k - 1] \in {"ask", "resolve"} /\ more[k - 2] = "hotplug"
  BY DEF Closes, k
<1>7. Closes(r)
  BY <1>2, <1>4, <1>5, <1>6 DEF Closes
<1> QED BY <1>2, <1>7 DEF r

\* What is inserted before the last steps leaves the plan closed.
LEMMA InsertedStaysClosed ==
    ASSUME NEW s \in Seq(Steps), NEW more \in Seq(Steps), NEW at \in 0..Len(s),
           Closes(s), s[Len(s) - 1] = "hotplug" => at <= Len(s) - 2, s[Len(s) - 1] # "hotplug" => at <= Len(s) - 3
    PROVE  Closes(InsertedAt(s, at, more)) /\ InsertedAt(s, at, more) \in Seq(Steps)
<1> DEFINE n == Len(s)
           k == Len(more)
           r == InsertedAt(s, at, more)
<1>1. n \in Nat /\ k \in Nat /\ at \in Nat
  OBVIOUS
<1>2. r \in Seq(Steps) /\ Len(r) = n + k /\ \A i \in (at + 1)..n : r[i + k] = s[i]
  BY InsertedAtIs
<1>3. /\ n >= 2 /\ s[n] = "verify"
      /\ \/ s[n - 1] = "hotplug" /\ at <= n - 2
         \/ n >= 3 /\ s[n - 1] \in {"ask", "resolve"} /\ s[n - 2] = "hotplug" /\ at <= n - 3
  BY DEF Closes
<1> HIDE DEF r, n, k
<1>4. n \in (at + 1)..n /\ n - 1 \in (at + 1)..n /\ (n - 1) + k = (n + k) - 1 /\ n + k >= 2
  BY <1>1, <1>3
<1>5. r[n + k] = "verify" /\ r[(n + k) - 1] = s[n - 1]
  BY <1>2, <1>3, <1>4
<1>6. CASE s[n - 1] = "hotplug"
  BY <1>2, <1>4, <1>5, <1>6 DEF Closes, r
<1>7. CASE n >= 3 /\ s[n - 1] \in {"ask", "resolve"} /\ s[n - 2] = "hotplug" /\ at <= n - 3
  <2>1. n - 2 \in (at + 1)..n /\ (n - 2) + k = (n + k) - 2 /\ n + k >= 3
    BY <1>1, <1>7
  <2>2. r[(n + k) - 2] = "hotplug"
    BY <1>2, <1>7, <2>1
  <2> QED BY <1>2, <1>4, <1>5, <1>7, <2>1, <2>2 DEF Closes, r
<1> QED BY <1>3, <1>6, <1>7

\* The planned steps close with the check.
LEMMA PostCloses ==
    ASSUME NEW k, NEW lines, k.targets \in Seq(Kconfig)
    PROVE  LET post == Post(k, lines)
           IN  /\ post \in Seq(Steps) /\ Closes(post) /\ Len(post) >= 2
               /\ post[Len(post) - 1] # "hotplug" => Len(post) >= 3
<1> DEFINE own == Only(k.targets, Kconfig \ {"menu"})
           made == Generate(k)
           review == Review(k, lines)
           post == Post(k, lines)
<1>1. made \in Seq(Steps)
  <2>1. own \in Seq(Kconfig \cap (Kconfig \ {"menu"}))
    BY OnlyIs
  <2>2. own \in Seq(Kconfig)
    BY <2>1
  <2>3. made = [i \in DOMAIN own |-> IF own[i] = "trim" THEN "staged" ELSE own[i]]
    BY DEF Generate
  <2>4. \A i \in 1..Len(own) : (IF own[i] = "trim" THEN "staged" ELSE own[i]) \in Steps
    BY <2>2 DEF Steps
  <2> HIDE DEF own
  <2>5. made \in [1..Len(own) -> Steps]
    BY <2>2, <2>3, <2>4
  <2>6. Len(own) \in Nat
    BY <2>2
  <2> HIDE DEF made
  <2> QED BY <2>5, <2>6
<1>2. review = <<>> \/ \E one \in {"ask", "resolve"} : review = <<one>>
  BY DEF Review
<1>3. post = ((made \o <<"hotplug">>) \o review) \o <<"verify">>
  BY DEF Post
<1> HIDE DEF made, review, post
<1> DEFINE l == Len(made)
           hot == made \o <<"hotplug">>
<1>4. /\ hot \in Seq(Steps) /\ Len(hot) = l + 1 /\ hot[l + 1] = "hotplug" /\ l \in Nat
  <2>1. <<"hotplug">> \in Seq(Steps)
    BY DEF Steps
  <2> QED BY <1>1, <2>1
<1> HIDE DEF l, hot
<1>5. ASSUME review = <<>>
      PROVE  /\ post \in Seq(Steps) /\ Closes(post) /\ Len(post) >= 2
             /\ post[Len(post) - 1] # "hotplug" => Len(post) >= 3
  <2>1. hot \o review = hot
    BY <1>4, <1>5
  <2>2. post = hot \o <<"verify">>
    BY <1>3, <2>1 DEF hot
  <2>3. <<"verify">> \in Seq(Steps)
    BY DEF Steps
  <2>4. post \in Seq(Steps) /\ Len(post) = l + 2 /\ post[l + 2] = "verify" /\ post[l + 1] = "hotplug"
    BY <1>4, <2>2, <2>3
  <2>5. (l + 2) - 1 = l + 1 /\ l + 2 >= 2
    BY <1>4
  <2> QED BY <2>4, <2>5 DEF Closes
<1>6. ASSUME NEW one \in {"ask", "resolve"}, review = <<one>>
      PROVE  /\ post \in Seq(Steps) /\ Closes(post) /\ Len(post) >= 2
             /\ post[Len(post) - 1] # "hotplug" => Len(post) >= 3
  <2>1. <<"verify">> \in Seq(Steps) /\ review \in Seq(Steps) /\ Len(review) = 1 /\ review[1] = one
    BY <1>6 DEF Steps, Kconfig
  <2>2. /\ hot \o review \in Seq(Steps) /\ Len(hot \o review) = l + 2
        /\ (hot \o review)[l + 1] = "hotplug" /\ (hot \o review)[l + 2] = one
    <3>1. 1 \in 1..1 /\ l + 1 \in 1..(l + 1) /\ (l + 1) + 1 = l + 2
      BY <1>4
    <3> DEFINE p == l + 1
               q == 1
    <3>2. hot \in Seq(Steps) /\ Len(hot) = p /\ hot[p] = "hotplug" /\ Len(review) = q
      BY <1>4, <2>1
    <3> HIDE DEF p, q
    <3>3. /\ hot \o review \in Seq(Steps) /\ Len(hot \o review) = p + q
          /\ \A i \in 1..p : (hot \o review)[i] = hot[i]
          /\ \A j \in 1..q : (hot \o review)[p + j] = review[j]
      BY <2>1, <3>2, JoinedIs
    <3> QED BY <2>1, <3>1, <3>2, <3>3 DEF p, q
  <2>3. post = (hot \o review) \o <<"verify">>
    BY <1>3 DEF hot
  <2> DEFINE h == hot \o review
  <2> HIDE DEF h
  <2>4. h \in Seq(Steps) /\ Len(h) = l + 2 /\ h[l + 1] = "hotplug" /\ h[l + 2] = one /\ post = h \o <<"verify">>
    BY <2>2, <2>3 DEF h
  <2>5. /\ post \in Seq(Steps) /\ Len(post) = l + 3
        /\ post[l + 3] = "verify" /\ post[l + 2] = one /\ post[l + 1] = "hotplug"
    BY <1>4, <2>1, <2>4
  <2>6. (l + 3) - 1 = l + 2 /\ (l + 3) - 2 = l + 1 /\ l + 3 >= 3
    BY <1>4
  <2> QED BY <1>6, <2>5, <2>6 DEF Closes
<1> QED BY <1>2, <1>5, <1>6 DEF post

\* What leads up to a closed plan is closed with it.
LEMMA JoinedCloses ==
    ASSUME NEW s \in Seq(Steps), NEW more \in Seq(Steps), Closes(more)
    PROVE  Closes(s \o more) /\ s \o more \in Seq(Steps)
<1> DEFINE n == Len(s)
           k == Len(more)
           r == s \o more
<1>1. n \in Nat /\ k \in Nat
  OBVIOUS
<1>2. r \in Seq(Steps) /\ Len(r) = n + k /\ \A j \in 1..k : r[n + j] = more[j]
  <2>1. Len(s) = n /\ Len(more) = k
    OBVIOUS
  <2> HIDE DEF n, k
  <2> QED BY <2>1, JoinedIs
<1>3. /\ more[k] = "verify" /\ k >= 2
      /\ \/ more[k - 1] = "hotplug"
         \/ k >= 3 /\ more[k - 1] \in {"ask", "resolve"} /\ more[k - 2] = "hotplug"
  BY DEF Closes
<1> HIDE DEF r, k, n
<1>4. /\ k \in 1..k /\ k - 1 \in 1..k /\ n + (k - 1) = (n + k) - 1 /\ n + k >= 2
      /\ k >= 3 => k - 2 \in 1..k /\ n + (k - 2) = (n + k) - 2 /\ n + k >= 3
  BY <1>1, <1>3
<1>5. r[n + k] = more[k] /\ r[(n + k) - 1] = more[k - 1] /\ (k >= 3 => r[(n + k) - 2] = more[k - 2])
  BY <1>1, <1>2, <1>4
<1>6. Closes(r)
  BY <1>2, <1>3, <1>4, <1>5 DEF Closes
<1> QED BY <1>2, <1>6 DEF r

\* The first line of some kinds.
LEMMA FirstIs ==
    ASSUME NEW S, NEW lines \in Seq(S), NEW kinds, Has(lines, kinds)
    PROVE  LET f == FirstOf(lines, kinds)
           IN  f \in 1..Len(lines) /\ lines[f] \in kinds /\ \A j \in 1..(f - 1) : lines[j] \notin kinds
<1> DEFINE T == {i \in 1..Len(lines) : lines[i] \in kinds}
<1>1. T \in SUBSET Nat /\ T # {} /\ \A i : i \in T <=> i \in 1..Len(lines) /\ lines[i] \in kinds
  BY DEF Has
<1> HIDE DEF T
<1>2. PICK i \in T : \A j \in T : i <= j
  BY <1>1, LeastNumber
<1>3. i \in 1..Len(lines) /\ lines[i] \in kinds
  BY <1>1
<1>4. \A j \in 1..(i - 1) : lines[j] \notin kinds
  BY <1>1, <1>2, <1>3
<1>5. DOMAIN lines = 1..Len(lines)
  OBVIOUS
<1> QED BY <1>3, <1>4, <1>5 DEF FirstOf

\* The last line of some kinds.
LEMMA LastIs ==
    ASSUME NEW S, NEW lines \in Seq(S), NEW kinds, Has(lines, kinds)
    PROVE  LET f == LastOf(lines, kinds)
           IN  f \in 1..Len(lines) /\ lines[f] \in kinds /\ \A j \in (f + 1)..Len(lines) : lines[j] \notin kinds
<1> DEFINE n == Len(lines)
           T == {i \in 0..n : n - i \in 1..n /\ lines[n - i] \in kinds}
<1>1. T \in SUBSET Nat /\ \A i : i \in T <=> i \in 0..n /\ n - i \in 1..n /\ lines[n - i] \in kinds
  OBVIOUS
<1>2. PICK l \in 1..n : lines[l] \in kinds
  BY DEF Has
<1>3. n \in Nat /\ DOMAIN lines = 1..n
  OBVIOUS
<1> HIDE DEF T, n
<1>4. n - l \in T
  <2>1. n - l \in 0..n /\ n - (n - l) = l
    BY <1>2, <1>3
  <2> QED BY <1>1, <1>2, <2>1
<1>5. PICK i \in T : \A j \in T : i <= j
  BY <1>1, <1>4, LeastNumber
<1>6. n - i \in 1..n /\ lines[n - i] \in kinds
  BY <1>1
<1>7. ASSUME NEW j \in ((n - i) + 1)..n, lines[j] \in kinds PROVE FALSE
  <2>1. i \in Nat /\ j \in 1..n /\ n - j \in 0..n /\ n - (n - j) = j /\ ~(i <= n - j)
    BY <1>1, <1>3, <1>6, <1>7
  <2>2. n - j \in T
    BY <1>1, <1>7, <2>1
  <2> QED BY <1>5, <2>1, <2>2
<1> QED BY <1>3, <1>6, <1>7 DEF LastOf, n

(* Where nothing of the PKGBUILD's shows a menu, what is merged again and   *)
(* checked comes after all its lines.                                      *)
LEMMA AnchorsOf ==
    ASSUME NEW own \in Seq(Writing \cup Kconfig), ~Has(own, {"menu"}), PreAnchor(own) # 0,
           ~Has(own, Kconfig) => PreAnchor(own) \in {0, Len(own)},
           \A i, j \in DOMAIN own : i < j /\ own[j] \in Writing => own[i] \in Writing
    PROVE  PostAnchor(own) = Len(own) /\ PreAnchor(own) \in 1..Len(own)
<1> DEFINE n == Len(own)
<1>1. n \in Nat /\ DOMAIN own = 1..n /\ \A i \in 1..n : own[i] \in Writing \cup Kconfig
  OBVIOUS
<1>2. Writing \cap Kconfig = {}
  BY DEF Writing, Kconfig
<1>3. PreAnchor(own) \in 1..n
  <2>1. CASE Has(own, {"resolve", "old", "trim"})
    BY <2>1, FirstIs DEF PreAnchor
  <2>2. CASE ~Has(own, {"resolve", "old", "trim"}) /\ Has(own, {"write"})
    BY <2>2, FirstIs DEF PreAnchor
  <2> QED BY <2>1, <2>2 DEF PreAnchor
<1>4. CASE Has(own, Kconfig)
  <2> DEFINE f == LastOf(own, Kconfig)
  <2>1. f \in 1..n /\ own[f] \in Kconfig /\ \A j \in (f + 1)..n : own[j] \notin Kconfig
    BY <1>4, LastIs
  <2>2. PostAnchor(own) = f
    BY <1>4 DEF PostAnchor
  <2> HIDE DEF f, n
  <2>3. f = n
    <3> SUFFICES ASSUME f # n PROVE FALSE
      OBVIOUS
    <3>1. n \in (f + 1)..n /\ n \in 1..n /\ f < n
      BY <1>1, <2>1
    <3>2. own[n] \in Writing
      BY <1>1, <2>1, <3>1
    <3>3. own[f] \in Writing
      BY <1>1, <2>1, <3>1, <3>2
    <3> QED BY <1>2, <2>1, <3>3
  <2> QED BY <1>3, <2>2, <2>3 DEF n
<1>5. CASE ~Has(own, Kconfig)
  BY <1>3, <1>5 DEF PostAnchor
<1> QED BY <1>4, <1>5

\* A PKGBUILD whose menus are answered for it is as it was otherwise.
LEMMA QuietIs ==
    ASSUME NEW lines \in Seq(Writing \cup Kconfig), WritesFirst(lines)
    PROVE  LET own == Quiet(lines)
           IN  /\ own \in Seq(Writing \cup Kconfig) /\ Len(own) = Len(lines)
               /\ ~Has(own, {"menu"})
               /\ ~Has(own, Kconfig) => PreAnchor(own) \in {0, Len(own)}
               /\ \A i, j \in DOMAIN own : i < j /\ own[j] \in Writing => own[i] \in Writing
<1> DEFINE own == Quiet(lines)
           n == Len(lines)
<1>1. n \in Nat /\ DOMAIN lines = 1..n /\ \A i \in 1..n : lines[i] \in Writing \cup Kconfig
  OBVIOUS
<1>2. own = [i \in 1..n |-> IF lines[i] \in {"menu", "old"} THEN "resolve" ELSE lines[i]]
  BY DEF Quiet
<1> HIDE DEF own, n
<1>3. \A i \in 1..n : own[i] = IF lines[i] \in {"menu", "old"} THEN "resolve" ELSE lines[i]
  BY <1>2
<1>4. own \in [1..n -> Writing \cup Kconfig]
  BY <1>1, <1>2 DEF Kconfig
<1>5. own \in Seq(Writing \cup Kconfig) /\ Len(own) = n /\ DOMAIN own = 1..n
  BY <1>1, <1>4
<1>6. \A i \in 1..n : own[i] \in Writing <=> lines[i] \in Writing
  BY <1>3 DEF Writing
<1>7. \A i \in 1..n : own[i] \in Kconfig <=> lines[i] \in Kconfig
  BY <1>3 DEF Kconfig
<1>8. ~Has(own, {"menu"})
  BY <1>3, <1>5 DEF Has
<1>9. ~Has(own, Kconfig) => PreAnchor(own) \in {0, Len(own)}
  <2> SUFFICES ASSUME ~Has(own, Kconfig) PROVE PreAnchor(own) \in {0, Len(own)}
    OBVIOUS
  <2>1. \A i \in 1..n : lines[i] \notin Kconfig
    BY <1>5, <1>7 DEF Has
  <2>2. own = lines
    <3>1. \A i \in 1..n : own[i] = lines[i]
      BY <1>3, <2>1 DEF Kconfig
    <3> QED BY <1>1, <1>2, <3>1
  <2>3. ~Has(lines, Kconfig)
    BY <1>1, <2>1 DEF Has
  <2> QED BY <2>2, <2>3 DEF WritesFirst
<1> QED BY <1>1, <1>5, <1>6, <1>8, <1>9 DEF WritesFirst, own, n

(* In the prepare() that sysforge writes, the merge of what is merged       *)
(* again, a review at most, and the check are the last steps, unless a menu *)
(* of the PKGBUILD's is shown.                                              *)
LEMMA InstallCloses ==
    ASSUME NEW k, NEW lines \in Seq(Writing \cup Kconfig), WritesFirst(lines), k.targets \in Seq(Kconfig),
           ~Unplanned(k, lines), Anchored(k, lines), ~(k.targets = <<>> /\ k.review /\ Has(lines, {"menu"}))
    PROVE  Install(k, lines) \in Seq(Steps) /\ Closes(Install(k, lines))
<1> DEFINE n == Len(lines)
           pre == Pre(lines)
           post == Post(k, lines)
<1>1. n \in Nat /\ DOMAIN lines = 1..n /\ \A i \in 1..n : lines[i] \in Writing \cup Kconfig
  OBVIOUS
<1>2. pre \in Seq(Steps)
  <2>1. <<>> \in Seq(Steps) /\ <<"seed">> \in Seq(Steps) /\ <<"seed", "fragment">> \in Seq(Steps)
    BY DEF Steps
  <2> QED BY <2>1 DEF Pre
<1>3. /\ post \in Seq(Steps) /\ Closes(post) /\ Len(post) >= 2
      /\ post[Len(post) - 1] # "hotplug" => Len(post) >= 3
  BY PostCloses
<1> HIDE DEF n, pre, post
<1>4. CASE k.targets # <<>>
  <2> DEFINE f == FirstOf(lines, Kconfig)
             kept == Only(lines, Writing)
  <2>1. Has(lines, Kconfig)
    BY <1>4 DEF Unplanned
  <2>2. f \in 1..n /\ lines[f] \in Kconfig /\ \A j \in 1..(f - 1) : lines[j] \notin Kconfig
    BY <2>1, FirstIs DEF n
  <2> HIDE DEF f
  <2> DEFINE at == f - 1
  <2>3. at \in 0..n /\ at + 1 = f
    BY <1>1, <2>2
  <2>4. \A i \in 1..at : lines[i] \in Writing
    BY <1>1, <2>2, <2>3
  <2>5. ASSUME NEW i \in (at + 1)..n PROVE lines[i] \notin Writing
    <3>1. i \in 1..n /\ f \in 1..n /\ (i = f \/ f < i)
      BY <1>1, <2>2, <2>3
    <3>2. lines[f] \notin Writing
      BY <2>2 DEF Writing, Kconfig
    <3> QED BY <1>1, <3>1, <3>2 DEF WritesFirst
  <2> HIDE DEF at
  <2>6. kept \in Seq((Writing \cup Kconfig) \cap Writing) /\ Len(kept) = at
    BY <2>3, <2>4, <2>5, OnlyIs DEF n
  <2> HIDE DEF kept
  <2>7. kept \in Seq(Steps)
    BY <2>6 DEF Steps
  <2>8. pre \o post \in Seq(Steps) /\ Closes(pre \o post)
    BY <1>2, <1>3, JoinedCloses
  <2>9. Install(k, lines) = InsertedAt(kept, at, pre \o post)
    BY <1>4 DEF Install, kept, at, f, pre, post
  <2> QED BY <2>6, <2>7, <2>8, <2>9, InsertedCloses
<1>5. CASE k.targets = <<>>
  <2> DEFINE own == IF k.review THEN lines ELSE Quiet(lines)
             l == Len(own)
             front == PreAnchor(own)
  <2>1. /\ own \in Seq(Writing \cup Kconfig) /\ ~Has(own, {"menu"})
        /\ ~Has(own, Kconfig) => PreAnchor(own) \in {0, Len(own)}
        /\ \A i, j \in DOMAIN own : i < j /\ own[j] \in Writing => own[i] \in Writing
    <3>1. CASE k.review
      BY <1>5, <3>1 DEF WritesFirst
    <3>2. CASE ~k.review
      BY <3>2, QuietIs
    <3> QED BY <3>1, <3>2
  <2>2. front # 0
    BY <1>5 DEF Anchored
  <2> HIDE DEF own
  <2>3. PostAnchor(own) = l /\ front \in 1..l
    BY <2>1, <2>2, AnchorsOf
  <2>4. l \in Nat /\ ~(front > l) /\ own \in Seq(Steps)
    BY <2>1, <2>3 DEF Steps
  <2> DEFINE whole == InsertedAt(own, l, post)
  <2>5. Install(k, lines) = InsertedAt(whole, front, pre)
    BY <1>5, <2>2, <2>3, <2>4 DEF Install, own, pre, post
  <2>6. Closes(whole) /\ whole \in Seq(Steps)
    BY <1>3, <2>4, InsertedCloses
  <2>7. /\ Len(whole) = l + Len(post)
        /\ whole[l + (Len(post) - 1)] = post[Len(post) - 1]
    <3>1. l \in 0..Len(own)
      BY <2>4
    <3>2. ASSUME NEW x \in 0..Len(own)
          PROVE  LET z == InsertedAt(own, x, post)
                 IN  Len(z) = Len(own) + Len(post) /\ \A j \in 1..Len(post) : z[x + j] = post[j]
      BY <1>3, <2>4, InsertedAtIs
    <3>3. Len(post) - 1 \in 1..Len(post)
      BY <1>3
    <3> QED BY <3>1, <3>2, <3>3
  <2> DEFINE p == Len(post)
  <2>8. p \in Nat /\ p >= 2
    BY <1>3
  <2> HIDE DEF whole, l, front, p
  <2>9. (l + p) - 1 = l + (p - 1) /\ front \in 0..(l + p) /\ front <= (l + p) - 2 /\ (p >= 3 => front <= (l + p) - 3)
    BY <2>3, <2>4, <2>8
  <2>10. /\ whole[Len(whole) - 1] = "hotplug" => front <= Len(whole) - 2
         /\ whole[Len(whole) - 1] # "hotplug" => front <= Len(whole) - 3
    BY <1>3, <2>7, <2>9 DEF p
  <2>11. front \in 0..Len(whole)
    BY <2>7, <2>9 DEF p
  <2> QED BY <1>2, <2>5, <2>6, <2>10, <2>11, InsertedStaysClosed
<1> QED BY <1>4, <1>5

\* Every state of prepare() is one.
LEMMA RanWhole ==
    ASSUME NEW m, NEW files, NEW lines \in Seq(Steps)
    PROVE  \A i \in 0..Len(lines) : Whole(Ran(m, files, lines)[i])
<1> DEFINE g == Ran(m, files, lines)
           n == Len(lines)
           Good == {i \in 0..n : Whole(g[i])}
<1>1. n \in Nat /\ \A i \in 1..n : lines[i] \in Steps
  OBVIOUS
<1>2. /\ g[0] = [config |-> m.shipped, said |-> {}, asked |-> FALSE]
      /\ \A i \in 0..n : i + 1 <= n => g[i + 1] = Did(m, files, g[i], lines[i + 1])
  BY RanIs
<1>3. \A i : i \in Good <=> i \in 0..n /\ Whole(g[i])
  OBVIOUS
<1> HIDE DEF g, n, Good
<1>4. 0 \in Good
  <2>1. Whole(g[0])
    BY <1>2 DEF Whole
  <2> QED BY <1>1, <1>3, <2>1
<1>5. ASSUME NEW i \in 0..n, i \in Good, i + 1 <= n PROVE i + 1 \in Good
  <2>1. i + 1 \in 0..n /\ i + 1 \in 1..n
    BY <1>1, <1>5
  <2>2. lines[i + 1] \in Steps /\ g[i + 1] = Did(m, files, g[i], lines[i + 1])
    BY <1>1, <1>2, <1>5, <2>1
  <2>3. Whole(g[i])
    BY <1>3, <1>5
  <2>4. Whole(g[i + 1])
    BY <2>2, <2>3, DidWhole
  <2> QED BY <1>3, <2>1, <2>4
<1>6. \A i \in 0..n : i \in Good /\ i + 1 <= n => i + 1 \in Good
  BY <1>5
<1>7. \A i \in 0..n : i \in Good
  BY <1>1, <1>4, <1>6, UpTo, Zenon
<1> QED BY <1>3, <1>7 DEF g, n

(* A plan that closes tells of each option merged again that the kernel     *)
(* does not have, and only the review or the kernel takes one away.         *)
LEMMA ClosedTells ==
    ASSUME NEW m, NEW files, NEW lines \in Seq(Steps), Closes(lines), "rust" \notin DOMAIN files.hotplug
    PROVE  LET t == Prepared(m, files, lines)
               lost == Missed(files.hotplug, t.config)
           IN  lost \subseteq t.said /\ lost \subseteq m.edited \cup m.gone \cup m.bools
<1> DEFINE g == Ran(m, files, lines)
           n == Len(lines)
           t == Prepared(m, files, lines)
           h == files.hotplug
           c == g[n - 1].config
<1>1. n \in Nat /\ n >= 2 /\ \A i \in 1..n : lines[i] \in Steps
  BY DEF Closes
<1>2. \A i \in 0..n : Whole(g[i])
  BY RanWhole
<1>3. /\ g[0] = [config |-> m.shipped, said |-> {}, asked |-> FALSE]
      /\ \A i \in 0..n : i + 1 <= n => g[i + 1] = Did(m, files, g[i], lines[i + 1])
      /\ t = [g[n] EXCEPT !.config = Settle(m, g[n].config)]
  BY RanIs
<1> HIDE DEF g, n, t
<1>5. \A i \in 1..n : lines[i] \in Steps /\ Whole(g[i - 1]) /\ g[i] = Did(m, files, g[i - 1], lines[i])
  <2> SUFFICES ASSUME NEW i \in 1..n
               PROVE  lines[i] \in Steps /\ Whole(g[i - 1]) /\ g[i] = Did(m, files, g[i - 1], lines[i])
    OBVIOUS
  <2>1. i - 1 \in 0..n /\ (i - 1) + 1 = i /\ (i - 1) + 1 <= n
    BY <1>1
  <2> QED BY <1>1, <1>2, <1>3, <2>1
<1>6. g[n].config = c /\ Missed(h, c) \subseteq g[n].said
  <2>1. n \in 1..n /\ lines[n] = "verify"
    BY <1>1 DEF Closes, n
  <2>2. Whole(g[n - 1]) /\ g[n] = Did(m, files, g[n - 1], "verify") /\ "verify" \in Steps
    BY <1>5, <2>1
  <2> QED BY <2>2, LastLines
<1>7. t.config = Settle(m, c) /\ t.said = g[n].said
  <2>1. n \in 0..n
    BY <1>1
  <2>2. Whole(g[n])
    BY <1>2, <2>1
  <2>3. DOMAIN g[n] = {"config", "said", "asked"}
    BY <2>2 DEF Whole
  <2> QED BY <1>3, <1>6, <2>3
<1>8. CASE h = NoFile
  BY <1>8 DEF Missed
<1>9. ASSUME h # NoFile
      PROVE  Settle(m, c) = c /\ Missed(h, c) \subseteq m.edited \cup m.gone \cup m.bools
  <2> DEFINE Merged(i) == Settle(m, Over(h, g[i].config))
             Kept == m.gone \cup m.bools
  <2>1. ASSUME NEW i \in 1..n, lines[i] = "hotplug" PROVE g[i].config = Merged(i - 1)
    <3>1. Whole(g[i - 1]) /\ g[i] = Did(m, files, g[i - 1], "hotplug") /\ "hotplug" \in Steps
      BY <1>5, <2>1
    <3>2. g[i].config = Merge(m, h, g[i - 1].config)
      BY <3>1, LastLines
    <3> QED BY <1>9, <3>2 DEF Merge
  <2>2. ASSUME NEW i
        PROVE  /\ DOMAIN h \subseteq DOMAIN Merged(i)
               /\ \A o \in DOMAIN h : Merged(i)[o] = h[o] \/ o \in Kept
               /\ Settle(m, Merged(i)) = Merged(i)
    <3> DEFINE v == Over(h, g[i].config)
    <3>1. DOMAIN h \subseteq DOMAIN v /\ \A o \in DOMAIN h : v[o] = h[o]
      BY DEF Over
    <3> HIDE DEF v
    <3>2. /\ DOMAIN Settle(m, v) = DOMAIN v
          /\ Settle(m, Settle(m, v)) = Settle(m, v)
          /\ \A o \in DOMAIN v : Settle(m, v)[o] # v[o] => o \in m.gone \/ o \in m.bools \/ o = "rust"
      BY SettleIs
    <3>3. Merged(i) = Settle(m, v)
      BY DEF v
    <3> HIDE DEF Merged
    <3> QED BY <3>1, <3>2, <3>3
  <2> HIDE DEF Merged
  <2>3. CASE lines[n - 1] = "hotplug"
    <3>1. n - 1 \in 1..n
      BY <1>1
    <3>2. c = Merged((n - 1) - 1)
      BY <2>1, <2>3, <3>1
    <3> HIDE DEF c
    <3> QED BY <1>9, <2>2, <3>2 DEF Missed
  <2>4. CASE n >= 3 /\ lines[n - 1] \in {"ask", "resolve"} /\ lines[n - 2] = "hotplug"
    <3>1. n - 1 \in 1..n /\ n - 2 \in 1..n /\ (n - 1) - 1 = n - 2
      BY <1>1, <2>4
    <3> DEFINE b == g[n - 2].config
               x == [o \in DOMAIN b |-> IF o \in m.edited THEN "n" ELSE b[o]]
    <3>2. b = Merged((n - 2) - 1)
      BY <2>1, <2>4, <3>1
    <3>3. DOMAIN h \subseteq DOMAIN b /\ \A o \in DOMAIN h : b[o] = h[o] \/ o \in Kept
      BY <2>2, <3>2
    <3>4. c = Settle(m, b) \/ c = Settle(m, x)
      <4>1. Whole(g[n - 2]) /\ g[n - 1] = Did(m, files, g[n - 2], lines[n - 1]) /\ lines[n - 1] \in Steps
        BY <1>5, <3>1
      <4>2. c = Settle(m, b) \/ c = Reviewed(m, b)
        BY <2>4, <4>1, LastLines
      <4> QED BY <4>2 DEF Reviewed
    <3> HIDE DEF b, c
    <3>5. DOMAIN x = DOMAIN b /\ \A o \in DOMAIN b : x[o] = b[o] \/ o \in m.edited
      OBVIOUS
    <3> HIDE DEF x
    <3>6. ASSUME NEW y, c = Settle(m, y), DOMAIN y = DOMAIN b, \A o \in DOMAIN b : y[o] = b[o] \/ o \in m.edited
          PROVE  Settle(m, c) = c /\ \A o \in DOMAIN h : c[o] = h[o] \/ o \in m.edited \cup Kept
      <4>1. /\ DOMAIN Settle(m, y) = DOMAIN y
            /\ Settle(m, Settle(m, y)) = Settle(m, y)
            /\ \A o \in DOMAIN y : Settle(m, y)[o] # y[o] => o \in m.gone \/ o \in m.bools \/ o = "rust"
        BY SettleIs
      <4> QED BY <3>3, <3>6, <4>1
    <3>7. Settle(m, c) = c /\ \A o \in DOMAIN h : c[o] = h[o] \/ o \in m.edited \cup Kept
      BY <3>4, <3>5, <3>6
    <3> QED BY <1>9, <3>7 DEF Missed
  <2> QED BY <2>3, <2>4 DEF Closes, n
<1>10. CASE h # NoFile
  <2> HIDE DEF c
  <2> QED BY <1>6, <1>7, <1>9, <1>10 DEF t
<1> QED BY <1>8, <1>10

\* The lines of a PKGBUILD lose no option of what it ships.
LEMMA ShippedStay ==
    ASSUME NEW m, NEW files, NEW lines \in Seq(Writing \cup Kconfig)
    PROVE  DOMAIN m.shipped \subseteq DOMAIN Prepared(m, files, lines).config
<1> DEFINE g == Ran(m, files, lines)
           n == Len(lines)
           t == Prepared(m, files, lines)
           Good == {i \in 0..n : DOMAIN m.shipped \subseteq DOMAIN g[i].config}
<1>1. n \in Nat /\ lines \in Seq(Steps) /\ \A i \in 1..n : lines[i] \in Writing \cup Kconfig
  BY DEF Steps
<1>2. /\ g[0] = [config |-> m.shipped, said |-> {}, asked |-> FALSE]
      /\ \A i \in 0..n : i + 1 <= n => g[i + 1] = Did(m, files, g[i], lines[i + 1])
      /\ t = [g[n] EXCEPT !.config = Settle(m, g[n].config)]
  BY <1>1, RanIs
<1>3. \A i \in 0..n : Whole(g[i])
  BY <1>1, RanWhole
<1>4. \A i : i \in Good <=> i \in 0..n /\ DOMAIN m.shipped \subseteq DOMAIN g[i].config
  OBVIOUS
<1> HIDE DEF g, n, t, Good
<1>5. 0 \in Good
  BY <1>1, <1>2, <1>4
<1>6. ASSUME NEW i \in 0..n, i \in Good, i + 1 <= n PROVE i + 1 \in Good
  <2>1. i + 1 \in 0..n /\ i + 1 \in 1..n
    BY <1>1, <1>6
  <2> DEFINE line == lines[i + 1]
             at == g[i]
  <2>2. line \in Writing \cup Kconfig /\ Whole(at) /\ DOMAIN m.shipped \subseteq DOMAIN at.config
    BY <1>1, <1>3, <1>4, <1>6, <2>1
  <2>3. g[i + 1] = Did(m, files, at, line)
    BY <1>2, <1>6
  <2> HIDE DEF line, at
  <2>4. DOMAIN m.shipped \subseteq DOMAIN Did(m, files, at, line).config
    BY <2>2, LineKeeps
  <2> QED BY <1>4, <2>1, <2>3, <2>4
<1>7. \A i \in 0..n : i \in Good /\ i + 1 <= n => i + 1 \in Good
  BY <1>6
<1>8. \A i \in 0..n : i \in Good
  BY <1>1, <1>5, <1>7, UpTo, Zenon
<1>9. n \in 0..n /\ Whole(g[n]) /\ DOMAIN m.shipped \subseteq DOMAIN g[n].config
  <2>1. n \in 0..n
    BY <1>1
  <2> QED BY <1>3, <1>4, <1>8, <2>1
<1>10. t.config = Settle(m, g[n].config)
  <2>1. DOMAIN g[n] = {"config", "said", "asked"}
    BY <1>9 DEF Whole
  <2> QED BY <1>2, <2>1
<1>11. DOMAIN t.config = DOMAIN g[n].config
  BY <1>10, SettleIs
<1> QED BY <1>9, <1>11 DEF t

\* The files beside a PKGBUILD.
Filed(f) ==
    f = [base |-> f.base, overlay |-> f.overlay, fragment |-> f.fragment, hotplug |-> f.hotplug, staged |-> f.staged]

\* A run leaves files where there were some.
LEMMA StagedFiled ==
    ASSUME NEW k, NEW m, NEW before, NEW marks, Filed(before)
    PROVE  Filed(Staged(k, m, before, marks).files)
<1> DEFINE based == WriteBase(k, m, before)
           f1 == WriteFragment(k, m, based)
           f2 == WriteHotplug(k, m, f1)
           f3 == StageSnapshot(k, f2, marks)
<1>1. DOMAIN before = {"base", "overlay", "fragment", "hotplug", "staged"}
  BY DEF Filed
<1>2. Filed(based) /\ DOMAIN based = {"base", "overlay", "fragment", "hotplug", "staged"}
  <2> DEFINE a == IF k.overlay THEN NoFile ELSE BaseText(k, m)
             b == IF k.overlay THEN BaseText(k, m) ELSE NoFile
  <2>1. based = [before EXCEPT !.base = a, !.overlay = b]
    BY DEF WriteBase
  <2> HIDE DEF a, b, based
  <2> QED BY <1>1, <2>1 DEF Filed
<1> HIDE DEF based
<1>3. Filed(f1) /\ DOMAIN f1 = {"base", "overlay", "fragment", "hotplug", "staged"}
  BY <1>2 DEF WriteFragment, Filed
<1> HIDE DEF f1
<1>4. Filed(f2) /\ DOMAIN f2 = {"base", "overlay", "fragment", "hotplug", "staged"}
  BY <1>3 DEF WriteHotplug, Filed
<1> HIDE DEF f2
<1>5. Filed(f3)
  BY <1>4 DEF StageSnapshot, Filed
<1> HIDE DEF f3
<1>6. Staged(k, m, before, marks).files \in {before, based, f3}
  BY DEF Staged, based, f1, f2, f3
<1> QED BY <1>2, <1>5, <1>6

Anew(k, m, marks) ==
    [base |-> IF k.overlay THEN NoFile ELSE BaseText(k, m),
     overlay |-> IF k.overlay THEN BaseText(k, m) ELSE NoFile,
     fragment |-> IF k.merge /\ DOMAIN Requested(k, m) # {} THEN Requested(k, m) ELSE NoFile,
     hotplug |-> IF k.hotplug THEN m.hotplug ELSE NoFile,
     staged |-> IF k.capture /\ marks # {} THEN marks ELSE NoFile]

\* A run that goes on has written every file anew.
LEMMA StagedAnew ==
    ASSUME NEW k, NEW m, NEW before, NEW marks, Filed(before), ~BadTargets(k), ~NeedsFragment(k)
    PROVE  Staged(k, m, before, marks) = [files |-> Anew(k, m, marks), goes |-> ~Gated(m, Anew(k, m, marks).fragment)]
<1> DEFINE a == IF k.overlay THEN NoFile ELSE BaseText(k, m)
           b == IF k.overlay THEN BaseText(k, m) ELSE NoFile
           c == IF k.merge /\ DOMAIN Requested(k, m) # {} THEN Requested(k, m) ELSE NoFile
           d == IF k.hotplug THEN m.hotplug ELSE NoFile
           e == IF k.capture /\ marks # {} THEN marks ELSE NoFile
           based == WriteBase(k, m, before)
           f1 == WriteFragment(k, m, based)
           f2 == WriteHotplug(k, m, f1)
           f3 == StageSnapshot(k, f2, marks)
<1>1. based = [before EXCEPT !.base = a, !.overlay = b]
  BY DEF WriteBase
<1>2. f1 = [based EXCEPT !.fragment = c] /\ f2 = [f1 EXCEPT !.hotplug = d] /\ f3 = [f2 EXCEPT !.staged = e]
  BY DEF WriteFragment, WriteHotplug, StageSnapshot
<1>3. Staged(k, m, before, marks) = [files |-> f3, goes |-> ~Gated(m, f3.fragment)]
  BY DEF Staged
<1> HIDE DEF a, b, c, d, e, based, f1, f2, f3
<1>4. f3 = [base |-> a, overlay |-> b, fragment |-> c, hotplug |-> d, staged |-> e]
  BY <1>1, <1>2 DEF Filed
<1> QED BY <1>3, <1>4 DEF a, b, c, d, e, Anew

\* So what lay there before does not matter.
LEMMA StagedAlike ==
    ASSUME NEW k, NEW m, NEW one, NEW two, NEW marks, Filed(one), Filed(two),
           Staged(k, m, one, marks).goes \/ Staged(k, m, two, marks).goes
    PROVE  Staged(k, m, one, marks) = Staged(k, m, two, marks)
<1>1. ~BadTargets(k) /\ ~NeedsFragment(k)
  BY DEF Staged
<1> QED BY <1>1, StagedAnew

\* What an earlier run left is files.
LEMMA LeftFiled ==
    ASSUME NEW r
    PROVE  Filed(LeftBehind(r)) /\ Filed(NoFiles)
<1>1. Filed(NoFiles)
  BY DEF Filed, NoFiles
<1> QED BY <1>1, StagedFiled DEF LeftBehind

\* What a run asked for is in the kernel's configuration, or it says so.
LEMMA BuiltTells ==
    ASSUME NEW r, RunTyped(r), NEW before, Filed(before), NEW marks,
           NEW it, it = Built(r.k, r.m, r.lines, before, marks), it.built
    PROVE  LET lost == Missed(it.files.hotplug, it.config)
               last == r.k.targets # <<>> \/ (Anchored(r.k, r.lines) /\ ~Has(r.lines, {"menu"}))
           IN  /\ Missed(it.files.fragment, it.config) \subseteq it.said
               /\ PackagersMenu(r) \/ lost \subseteq it.said
               /\ last => lost \subseteq r.m.edited \cup r.m.gone \cup r.m.bools
<1> DEFINE k == r.k
           m == r.m
           lines == r.lines
           staged == Staged(k, m, before, marks)
           files == staged.files
           plan == Install(k, lines)
           t == Prepared(m, files, plan)
           lost == Missed(files.hotplug, t.config)
           unsaid == IF Anchored(k, lines) THEN {} ELSE DOMAIN t.config
<1>1. staged.goes /\ ~Unplanned(k, lines)
  <2> SUFFICES ASSUME ~staged.goes \/ Unplanned(k, lines) PROVE FALSE
    OBVIOUS
  <2>1. it = [files |-> staged.files, built |-> FALSE]
    BY DEF Built
  <2> QED BY <2>1
<1>2. /\ it.files = files /\ it.config = t.config
      /\ it.said = t.said \cup Drift(files, t.config) \cup unsaid
  BY <1>1 DEF Built
<1>3. lines \in Seq(Writing \cup Kconfig) /\ WritesFirst(lines) /\ k.targets \in Seq(Kconfig)
  BY DEF RunTyped
<1>4. DOMAIN m.hotplug \subseteq DOMAIN m.shipped /\ "rust" \notin DOMAIN m.hotplug
  BY DEF RunTyped
<1>5. files.hotplug = IF k.hotplug THEN m.hotplug ELSE NoFile
  <2>1. ~BadTargets(k) /\ ~NeedsFragment(k)
    BY <1>1 DEF Staged
  <2>2. files = Anew(k, m, marks)
    BY <2>1, StagedAnew
  <2> QED BY <2>2 DEF Anew
<1> HIDE DEF k, m, lines, staged, plan, t, unsaid
<1>6. Missed(it.files.fragment, it.config) \subseteq it.said
  BY <1>2 DEF Drift
<1>7. CASE files.hotplug = NoFile
  BY <1>2, <1>6, <1>7 DEF Missed
<1>8. CASE files.hotplug # NoFile
  <2>1. files.hotplug = m.hotplug /\ "rust" \notin DOMAIN files.hotplug
    BY <1>4, <1>5, <1>8
  <2>2. CASE Anchored(k, lines) /\ ~(k.targets = <<>> /\ k.review /\ Has(lines, {"menu"}))
    <3>1. plan \in Seq(Steps) /\ Closes(plan)
      BY <1>1, <1>3, <2>2, InstallCloses DEF plan
    <3>2. lost \subseteq t.said /\ lost \subseteq m.edited \cup m.gone \cup m.bools
      BY <2>1, <3>1, ClosedTells DEF t
    <3> HIDE DEF files, lost
    <3> QED BY <1>2, <1>6, <3>2 DEF k, m, lines, lost
  <2>3. CASE ~Anchored(k, lines)
    <3>1. plan = lines
      BY <2>3 DEF plan, Install, Anchored
    <3>2. DOMAIN m.shipped \subseteq DOMAIN t.config
      BY <1>3, <3>1, ShippedStay DEF t
    <3>3. lost \subseteq DOMAIN t.config
      BY <1>4, <2>1, <3>2 DEF Missed
    <3>4. unsaid = DOMAIN t.config
      BY <2>3 DEF unsaid
    <3>5. k.targets = <<>>
      BY <2>3 DEF Anchored
    <3> HIDE DEF files, lost
    <3> QED BY <1>2, <1>6, <2>3, <3>3, <3>4, <3>5 DEF k, lines, lost
  <2>4. CASE Anchored(k, lines) /\ k.targets = <<>> /\ k.review /\ Has(lines, {"menu"})
    <3> HIDE DEF files, lost
    <3> QED BY <1>6, <2>4 DEF PackagersMenu, k, lines
  <2> QED BY <2>2, <2>3, <2>4
<1> QED BY <1>7, <1>8

(* The configuration of a kernel: nothing that an earlier run left enters   *)
(* it, and what its settings ask for is in it or said                       *)
(* (pipeline/stages/kernel/kconfig.py, primitives/kconfig_plan.py).  For    *)
(* every run of which the PKGBUILD writes its configuration before it       *)
(* makes it another, and the kernel knows the options of the devices.       *)
THEOREM ConfigurationsAreSound ==
    ASSUME NEW Runs, \A r \in Runs : RunTyped(r)
    PROVE  Posed("kconfig", Runs) /\ [][ComputeKconfig]_question => []KconfigSound
<1> DEFINE IInv == /\ subject = "kconfig" => input \in Runs
                   /\ Answered("kconfig") => output = KernelBuilds(input)
<1>1. Posed("kconfig", Runs) => IInv
  BY DEF Posed, Answered
<1>2. IInv /\ [ComputeKconfig]_question => IInv'
  BY DEF ComputeKconfig, Answer, Answered, question
<1>3. IInv => KconfigSound
  <2> SUFFICES ASSUME IInv, Answered("kconfig") PROVE KconfigSound
    BY DEF KconfigSound, SettingsDecide, RequestedOrSaid
  <2> DEFINE r == input
             marks == Snapshot(r.k, r.m, r.seen)
             mine == Built(r.k, r.m, r.lines, LeftBehind(r), marks)
             clean == Built(r.k, r.m, r.lines, NoFiles, marks)
  <2>1. RunTyped(r) /\ output = [left |-> mine, clean |-> clean]
    BY DEF Answered, KernelBuilds
  <2>2. Filed(LeftBehind(r)) /\ Filed(NoFiles)
    BY LeftFiled
  <2>3. output.left = mine /\ output.clean = clean
    BY <2>1
  <2>4. ASSUME clean.built PROVE mine = clean
    <3>1. Staged(r.k, r.m, NoFiles, marks).goes
      BY <2>4 DEF Built
    <3>2. Staged(r.k, r.m, LeftBehind(r), marks) = Staged(r.k, r.m, NoFiles, marks)
      BY <2>2, <3>1, StagedAlike
    <3> QED BY <3>2 DEF Built
  <2>5. SettingsDecide
    BY <2>3, <2>4 DEF SettingsDecide
  <2> HIDE DEF mine, clean, marks
  <2>6. RequestedOrSaid
    <3> SUFFICES ASSUME mine.built
                 PROVE  LET lost == Missed(mine.files.hotplug, mine.config)
                            last == r.k.targets # <<>> \/ (Anchored(r.k, r.lines) /\ ~Has(r.lines, {"menu"}))
                        IN  /\ Missed(mine.files.fragment, mine.config) \subseteq mine.said
                            /\ PackagersMenu(r) \/ lost \subseteq mine.said
                            /\ last => lost \subseteq r.m.edited \cup r.m.gone \cup r.m.bools
      BY <2>3 DEF RequestedOrSaid
    <3> QED BY <2>1, <2>2, BuiltTells DEF mine
  <2> QED BY <2>5, <2>6 DEF KconfigSound
<1> QED BY <1>1, <1>2, <1>3, PTL
=============================================================================

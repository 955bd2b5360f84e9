------------------------ MODULE PackagesStageProofs ------------------------
(***************************************************************************)
(* What the packages stage guarantees for any manifest and any number of   *)
(* processes that save their copies of the file over one another.          *)
(*                                                                         *)
(* And of the checkpoint that comes before it, for any editors, files and  *)
(* answers: the stages after it find files that parse and the editor that  *)
(* was picked, and so does the next login.                                 *)
(***************************************************************************)
EXTENDS PackagesStage, Reconfigure, WellFoundedInduction, TLAPS

\* The operations of PipelineState make progress entries out of entries.
LEMMA OperationsTyped ==
    ASSUME NEW m \in Progress, NEW x \in Package, NEW X \in SUBSET Package
    PROVE  /\ InitPackageList(m, X) \in Progress
           /\ MarkBuilding(m, x) \in Progress
           /\ MarkBuilt(m, x) \in Progress
           /\ MarkFailed(m, x) \in Progress
           /\ MarkSkipped(m, X) \in Progress
           /\ Requeue(m, X) \in Progress
<1> USE DEF Progress
<1>1. InitPackageList(m, X) \in Progress
  BY DEF InitPackageList
<1>2. MarkBuilding(m, x) \in Progress
  BY DEF MarkBuilding
<1>3. MarkBuilt(m, x) \in Progress
  BY DEF MarkBuilt
<1>4. MarkFailed(m, x) \in Progress
  BY DEF MarkFailed
<1>5. MarkSkipped(m, X) \in Progress /\ Requeue(m, X) \in Progress
  BY DEF MarkSkipped, Requeue
<1> QED BY <1>1, <1>2, <1>3, <1>4, <1>5

\* The file before the first run is a progress entry.
LEMMA NothingTyped == Nothing \in Progress
BY DEF Nothing, Progress

-----------------------------------------------------------------------------
(***************************************************************************)
(* Type correctness: a package is being built only at a listed position.   *)
(***************************************************************************)
AtPackage(p) == pc[p] \in {"building", "installed"} => pos[p] \in Package

Typed == TypeOK /\ \A p \in Proc : AtPackage(p)

\* The initial state is typed.
LEMMA TypedInit == Init => Typed
<1> SUFFICES ASSUME Init PROVE Typed
  OBVIOUS
<1>1. 1 \in 1 .. (N + 1)
  BY NIsNatural
<1> QED BY <1>1, NothingTyped DEF Init, Typed, TypeOK, AtPackage, PCs

\* A process that leaves is as it was before it started.
LEMMA ExitTyped ==
    ASSUME Typed, NEW p \in Proc, Exit(p), manifest' = manifest,
           disk' \in Progress, lock' \in Proc \cup {None, Other},
           installed' = installed
    PROVE  Typed'
<1>1. 1 \in 1 .. (N + 1)
  BY NIsNatural
<1> QED BY <1>1, NothingTyped
           DEF Typed, TypeOK, AtPackage, PCs, Exit, Go

\* A step that changes only one copy, the file, and where that process is.
LEMMA SaveTyped ==
    ASSUME Typed, NEW p \in Proc, NEW m \in Progress, SetAndSave(p, m),
           NEW to \in PCs, Go(p, to),
           to \in {"building", "installed"} => pos'[p] \in Package,
           UNCHANGED <<manifest, lock, installed>>,
           retry' \in [Proc -> SUBSET Package],
           pos' \in [Proc -> 1 .. (N + 1)],
           \A q \in Proc : q # p => pos'[q] = pos[q]
    PROVE  Typed'
BY DEF Typed, TypeOK, AtPackage, SetAndSave, Go

\* Every step keeps the types.
LEMMA TypedStep == Typed /\ [Next]_vars => Typed'
<1> SUFFICES ASSUME Typed, [Next]_vars PROVE Typed'
  OBVIOUS
<1>n. Package = 1 .. N /\ N \in Nat /\ \A x \in Package : x + 1 \in 1 .. (N + 1)
  BY NIsNatural DEF Package
<1>0. CASE UNCHANGED vars
  BY <1>0 DEF Typed, TypeOK, AtPackage, vars
<1>1. CASE EditManifest \/ OtherEnters \/ OtherLeaves
  BY <1>1 DEF EditManifest, OtherEnters, OtherLeaves, Typed, TypeOK, AtPackage
<1>2. ASSUME NEW p \in Proc, Gate(p) \/ NoPrompt(p) \/ AbortAtPrompt(p)
             \/ EnterScope(p) \/ ScopeRefused(p) \/ DepsBuilt(p) \/ RunRaises(p)
             \/ BodyRaises(p) \/ PackageInstalled(p) \/ EndLoop(p) \/ Report(p)
      PROVE  Typed'
  <2>1. UNCHANGED <<manifest, disk, mem, retry, pos>>
    BY <1>2 DEF Gate, NoPrompt, AbortAtPrompt, EnterScope, ScopeRefused,
                DepsBuilt, RunRaises, BodyRaises, PackageInstalled, EndLoop,
                Report
  <2>2. lock' \in Proc \cup {None, Other}
    BY <1>2 DEF Gate, NoPrompt, AbortAtPrompt, EnterScope, ScopeRefused,
                DepsBuilt, RunRaises, BodyRaises, PackageInstalled, EndLoop,
                Report, Release, Typed, TypeOK
  <2>3. installed' \in SUBSET Package
    BY <1>2 DEF Gate, NoPrompt, AbortAtPrompt, EnterScope, ScopeRefused,
                DepsBuilt, RunRaises, BodyRaises, PackageInstalled, EndLoop,
                Report, Typed, TypeOK, AtPackage
  <2>4. PICK to \in PCs : /\ Go(p, to)
                          /\ to = "building" => FALSE
                          /\ to = "installed" => pc[p] = "building"
    BY <1>2 DEF Gate, NoPrompt, AbortAtPrompt, EnterScope, ScopeRefused,
                DepsBuilt, RunRaises, BodyRaises, PackageInstalled, EndLoop,
                Report, PCs, Loop
  <2> QED BY <2>1, <2>2, <2>3, <2>4 DEF Typed, TypeOK, AtPackage, Go
<1>3. ASSUME NEW p \in Proc, Load(p) PROVE Typed'
  BY <1>3 DEF Load, Go, Typed, TypeOK, AtPackage, PCs
<1>4. ASSUME NEW p \in Proc, LoadRaises(p) \/ Crash(p) PROVE Typed'
  <2>1. Exit(p) /\ UNCHANGED <<manifest, disk, installed>>
    BY <1>4 DEF LoadRaises, Crash
  <2>2. lock' \in Proc \cup {None, Other}
    BY <1>4 DEF LoadRaises, Crash, Release, Typed, TypeOK
  <2> QED BY <2>1, <2>2, ExitTyped DEF Typed, TypeOK
<1>5. ASSUME NEW p \in Proc, BeginStage(p) PROVE Typed'
  <2>1. [mem[p] EXCEPT !.status = "running"] \in Progress
    BY DEF Typed, TypeOK, Progress
  <2> QED BY <1>5, <2>1, SaveTyped DEF BeginStage, PCs, Typed, TypeOK
<1>6. ASSUME NEW p \in Proc, InitList(p) PROVE Typed'
  <2>1. InitPackageList(mem[p], manifest) \in Progress
    <3>1. mem[p] \in Progress /\ manifest \in SUBSET Package
      BY DEF Typed, TypeOK
    <3> QED BY <3>1 DEF InitPackageList, Progress
  <2> QED BY <1>6, <2>1, SaveTyped DEF InitList, PCs, Typed, TypeOK
<1>7. ASSUME NEW p \in Proc, AnswerPrompt(p) PROVE Typed'
  <2>1. PICK skip \in SUBSET mem[p].failed :
           /\ SetAndSave(p, Requeue(MarkSkipped(mem[p], skip),
                                    mem[p].failed \ skip))
           /\ retry' = [retry EXCEPT ![p] = mem[p].failed \ skip]
    BY <1>7 DEF AnswerPrompt
  <2>2. mem[p] \in Progress /\ mem[p].failed \in SUBSET Package
    BY DEF Typed, TypeOK, Progress
  <2>3. Requeue(MarkSkipped(mem[p], skip), mem[p].failed \ skip) \in Progress
    BY <2>2 DEF MarkSkipped, Requeue, Progress
  <2>4. retry' \in [Proc -> SUBSET Package]
    BY <2>1, <2>2 DEF Typed, TypeOK
  <2> QED BY <1>7, <2>1, <2>3, <2>4, SaveTyped
             DEF AnswerPrompt, PCs, Typed, TypeOK
<1>8. ASSUME NEW p \in Proc, PassPackage(p) PROVE Typed'
  BY <1>8, <1>n DEF PassPackage, Typed, TypeOK, AtPackage
<1>9. ASSUME NEW p \in Proc, StartPackage(p) PROVE Typed'
  <2>1. pos[p] \in Package /\ mem[p] \in Progress
    BY <1>9, <1>n DEF StartPackage, Typed, TypeOK
  <2> QED BY <1>9, <2>1, OperationsTyped, SaveTyped
             DEF StartPackage, PCs, Loop, Typed, TypeOK
<1>10. ASSUME NEW p \in Proc, RecordBuilt(p) \/ PackageFails(p) PROVE Typed'
  <2>1. pos[p] \in Package /\ mem[p] \in Progress
    BY <1>10 DEF RecordBuilt, PackageFails, Typed, TypeOK, AtPackage
  <2>2. pos' = [pos EXCEPT ![p] = @ + 1] /\ Go(p, "loop")
        /\ UNCHANGED <<manifest, lock, installed, retry>>
    BY <1>10 DEF RecordBuilt, PackageFails
  <2>3. /\ pos' \in [Proc -> 1 .. (N + 1)]
        /\ \A q \in Proc : q # p => pos'[q] = pos[q]
    BY <1>n, <2>1, <2>2 DEF Typed, TypeOK
  <2>4. \E m \in Progress : SetAndSave(p, m)
    BY <1>10, <2>1, OperationsTyped DEF RecordBuilt, PackageFails
  <2> QED BY <2>2, <2>3, <2>4, SaveTyped DEF PCs, Loop, Typed, TypeOK
<1>11. ASSUME NEW p \in Proc, RecordStage(p) PROVE Typed'
  <2>1. disk' \in Progress
    BY <1>11 DEF RecordStage, Typed, TypeOK, Progress
  <2> QED BY <1>11, <2>1, ExitTyped DEF RecordStage, Typed, TypeOK
<1> QED BY <1>0, <1>1, <1>2, <1>3, <1>4, <1>5, <1>6, <1>7, <1>8, <1>9, <1>10,
           <1>11 DEF Next, Advance

\* Type correctness of the stage, for any manifest and any processes.
THEOREM TypeCorrect == Spec => []TypeOK
<1>1. Typed => TypeOK
  BY DEF Typed
<1> QED BY <1>1, TypedInit, TypedStep, PTL DEF Spec

-----------------------------------------------------------------------------
(***************************************************************************)
(* The outcomes.  What a process knows of its own copy does not depend on  *)
(* the others, which touch neither its variables nor, while it runs, the   *)
(* manifest; the file is always some process's copy.                       *)
(***************************************************************************)
Answered(m) == m.built \cup m.failed \cup m.skipped

Disjoint(m) ==
    /\ m.built \cap m.failed = {}
    /\ m.built \cap m.skipped = {}
    /\ m.failed \cap m.skipped = {}

\* A package being built has no outcome but an earlier failure.
AtWork(p) ==
    pc[p] \in {"building", "installed"} =>
        pos[p] \notin mem[p].built \cup mem[p].skipped

Fresh(p) ==
    pc[p] \in {"idle", "gated", "loaded", "init", "prompt"} =>
        retry[p] = {} /\ pos[p] = 1

\* A retried package is built only by this loop.
Retried(p) == \A x \in retry[p] \cap mem[p].built : x < pos[p]

Counting(p) ==
    pc[p] \in {"prompt", "scope", "report", "returned"} \cup Loop

\* A listed package is answered, queued, or the one at work; it is answered
\* once the loop has passed it.
Counted(p) ==
    /\ Counting(p) => \A x \in manifest :
          /\ \/ x \in Answered(mem[p]) \cup mem[p].remaining
             \/ pc[p] \in {"building", "installed"} /\ x = pos[p]
          /\ x < pos[p] => x \in Answered(mem[p])
    /\ pc[p] \in {"report", "returned"} => pos[p] = N + 1

Proven(p) ==
    /\ mem[p].built \subseteq installed
    /\ pc[p] = "installed" => pos[p] \in installed

Good(p) == Disjoint(mem[p]) /\ AtWork(p) /\ Fresh(p) /\ Retried(p)
           /\ Counted(p) /\ Proven(p)

Sound ==
    /\ Typed
    /\ Disjoint(disk) /\ disk.built \subseteq installed
    /\ \A p \in Proc : Good(p)

\* Before the first run nothing has an outcome.
LEMMA SoundInit == Init => Sound
<1> SUFFICES ASSUME Init PROVE Sound
  OBVIOUS
<1>1. Disjoint(Nothing) /\ Nothing.built = {}
  BY DEF Disjoint, Nothing
<1>2. \A p \in Proc : Good(p)
  BY <1>1 DEF Init, Good, AtWork, Fresh, Retried, Counting, Counted, Proven, Loop
<1> QED BY <1>1, <1>2, TypedInit DEF Sound, Init

\* It is enough to look at the process that takes the step.
LEMMA OthersKeep ==
    ASSUME Sound, NEW p \in Proc, manifest' = manifest,
           installed \subseteq installed',
           \A q \in Proc \ {p} : /\ pc'[q] = pc[q] /\ mem'[q] = mem[q]
                                 /\ retry'[q] = retry[q] /\ pos'[q] = pos[q]
    PROVE  \A q \in Proc \ {p} : Good(q)'
BY DEF Sound, Good, Disjoint, AtWork, Fresh, Retried, Counting, Counted,
       Answered, Proven

\* A process that leaves is as it was before it started.
LEMMA ExitGood ==
    ASSUME Sound, NEW p \in Proc, Exit(p), manifest' = manifest,
           installed' = installed
    PROVE  \A q \in Proc : Good(q)'
<1>1. /\ pc' = [pc EXCEPT ![p] = "idle"] /\ mem' = [mem EXCEPT ![p] = Nothing]
      /\ retry' = [retry EXCEPT ![p] = {}] /\ pos' = [pos EXCEPT ![p] = 1]
  BY DEF Exit, Go
<1>2. /\ pc'[p] = "idle" /\ mem'[p] = Nothing /\ retry'[p] = {} /\ pos'[p] = 1
      /\ \A q \in Proc \ {p} : /\ pc'[q] = pc[q] /\ mem'[q] = mem[q]
                               /\ retry'[q] = retry[q] /\ pos'[q] = pos[q]
  BY <1>1 DEF Sound, Typed, TypeOK
<1>3. Good(p)'
  BY <1>2 DEF Good, Disjoint, Nothing, AtWork, Fresh, Retried, Counting,
              Counted, Loop, Proven
<1> QED BY <1>2, <1>3, OthersKeep

\* Every step keeps the outcomes sound.
LEMMA SoundStep == Sound /\ [Next]_vars => Sound'
<1> SUFFICES ASSUME Sound, [Next]_vars PROVE Sound'
  OBVIOUS
<1>t. Typed /\ Typed'
  BY TypedStep DEF Sound
<1>n. Package = 1 .. N /\ N \in Nat /\ \A x \in 1 .. (N + 1) : x \in Int
  BY NIsNatural DEF Package
<1>f. /\ manifest \in SUBSET Package /\ installed \in SUBSET Package
      /\ pc \in [Proc -> PCs] /\ mem \in [Proc -> Progress]
      /\ retry \in [Proc -> SUBSET Package] /\ pos \in [Proc -> 1 .. (N + 1)]
  BY <1>t DEF Typed, TypeOK
<1>m. \A q \in Proc : mem[q] \in Progress /\ pos[q] \in Int
  BY <1>f, <1>n
<1>s. ASSUME NEW p \in Proc, Good(p)', manifest' = manifest,
             installed \subseteq installed',
             disk' = disk \/ (disk' = mem'[p]),
             \A q \in Proc \ {p} : /\ pc'[q] = pc[q] /\ mem'[q] = mem[q]
                                   /\ retry'[q] = retry[q] /\ pos'[q] = pos[q]
      PROVE  Sound'
  <2>1. \A q \in Proc : Good(q)'
    BY <1>s, OthersKeep
  <2>2. Disjoint(disk)' /\ (disk.built \subseteq installed)'
    BY <1>s DEF Sound, Good, Disjoint, Proven
  <2> QED BY <1>t, <2>1, <2>2 DEF Sound
<1>0. CASE UNCHANGED vars
  BY <1>0, <1>t DEF Sound, Good, Disjoint, AtWork, Fresh, Retried, Counting,
                    Counted, Answered, Proven, vars
<1>1. CASE EditManifest
  <2>1. \A q \in Proc : pc[q] = "idle"
    BY <1>1 DEF EditManifest
  <2> QED BY <1>1, <1>t, <2>1 DEF EditManifest, Sound, Good, Disjoint, AtWork,
                    Fresh, Retried, Counting, Counted, Answered, Proven, Loop
<1>o. CASE OtherEnters \/ OtherLeaves
  BY <1>o, <1>t DEF OtherEnters, OtherLeaves, Sound, Good, Disjoint, AtWork,
                    Fresh, Retried, Counting, Counted, Answered, Proven
<1>2. ASSUME NEW p \in Proc, Gate(p) \/ NoPrompt(p) \/ AbortAtPrompt(p)
             \/ EnterScope(p) \/ ScopeRefused(p) \/ DepsBuilt(p) \/ RunRaises(p)
             \/ BodyRaises(p)
      PROVE  Sound'
  <2>1. UNCHANGED <<manifest, disk, installed, mem, retry, pos>>
    BY <1>2 DEF Gate, NoPrompt, AbortAtPrompt, EnterScope, ScopeRefused,
                DepsBuilt, RunRaises, BodyRaises
  <2>2. PICK to : /\ pc' = [pc EXCEPT ![p] = to]
                  /\ \/ to = "gated" /\ pc[p] = "idle"
                     \/ to = "scope" /\ pc[p] = "prompt"
                     \/ to = "deps" /\ pc[p] = "scope"
                     \/ to = "loop" /\ pc[p] = "deps"
                     \/ to = "raised"
    BY <1>2 DEF Gate, NoPrompt, AbortAtPrompt, EnterScope, ScopeRefused,
                DepsBuilt, RunRaises, BodyRaises, Go
  <2>3. pc'[p] = to /\ \A q \in Proc \ {p} : pc'[q] = pc[q]
    BY <2>2, <1>f
  <2>4. Good(p)'
    BY <2>1, <2>2, <2>3 DEF Sound, Good, Disjoint, AtWork, Fresh, Retried,
                            Counting, Counted, Answered, Proven, Loop
  <2> QED BY <1>s, <2>1, <2>3, <2>4
<1>3. ASSUME NEW p \in Proc, Load(p) PROVE Sound'
  <2>1. UNCHANGED <<manifest, disk, installed, retry, pos>> /\ pc[p] = "gated"
    BY <1>3 DEF Load
  <2>2. /\ pc'[p] = "loaded" /\ mem'[p] = disk
        /\ \A q \in Proc \ {p} : pc'[q] = pc[q] /\ mem'[q] = mem[q]
    BY <1>3, <1>f DEF Load, Go
  <2>3. Good(p)'
    BY <2>1, <2>2 DEF Sound, Good, Disjoint, AtWork, Fresh, Retried, Counting,
                      Counted, Loop, Proven
  <2> QED BY <1>s, <2>1, <2>2, <2>3
<1>4. ASSUME NEW p \in Proc, LoadRaises(p) \/ Crash(p) PROVE Sound'
  <2>1. Exit(p) /\ UNCHANGED <<manifest, disk, installed>>
    BY <1>4 DEF LoadRaises, Crash
  <2>2. \A q \in Proc : Good(q)'
    BY <2>1, ExitGood
  <2> QED BY <1>t, <2>1, <2>2 DEF Sound, Disjoint
<1>5. ASSUME NEW p \in Proc, BeginStage(p) PROVE Sound'
  <2> DEFINE m == [mem[p] EXCEPT !.status = "running"]
  <2>1. UNCHANGED <<manifest, installed, retry, pos>> /\ pc[p] = "loaded"
    BY <1>5 DEF BeginStage
  <2>2. /\ pc'[p] = "init" /\ mem'[p] = m /\ disk' = m
        /\ \A q \in Proc \ {p} : pc'[q] = pc[q] /\ mem'[q] = mem[q]
    BY <1>5, <1>f DEF BeginStage, Go, SetAndSave
  <2>3. m.built = mem[p].built /\ m.failed = mem[p].failed
        /\ m.skipped = mem[p].skipped
    BY <1>m DEF Progress
  <2> HIDE DEF m
  <2>4. Good(p)'
    BY <2>1, <2>2, <2>3 DEF Sound, Good, Disjoint, AtWork, Fresh, Retried,
                            Counting, Counted, Loop, Proven
  <2> QED BY <1>s, <2>1, <2>2, <2>4
<1>6. ASSUME NEW p \in Proc, InitList(p) PROVE Sound'
  <2> DEFINE m == InitPackageList(mem[p], manifest)
  <2>1. UNCHANGED <<manifest, installed, retry, pos>> /\ pc[p] = "init"
    BY <1>6 DEF InitList
  <2>2. /\ pc'[p] = "prompt" /\ mem'[p] = m /\ disk' = m
        /\ \A q \in Proc \ {p} : pc'[q] = pc[q] /\ mem'[q] = mem[q]
    BY <1>6, <1>f DEF InitList, Go, SetAndSave
  <2>3. /\ m.built = mem[p].built /\ m.failed = mem[p].failed
        /\ m.skipped = mem[p].skipped
        /\ manifest \subseteq Answered(m) \cup m.remaining
    BY <1>m DEF Progress, InitPackageList, Answered
  <2>4. retry[p] = {} /\ pos[p] = 1
    BY <2>1 DEF Sound, Good, Fresh
  <2> HIDE DEF m
  <2>5. Good(p)'
    BY <1>f, <1>n, <2>1, <2>2, <2>3, <2>4 DEF Sound, Good, Disjoint, AtWork,
                      Fresh, Retried, Counting, Counted, Loop, Proven
  <2> QED BY <1>s, <2>1, <2>2, <2>5
<1>7. ASSUME NEW p \in Proc, AnswerPrompt(p) PROVE Sound'
  <2>1. PICK skip \in SUBSET mem[p].failed :
           /\ SetAndSave(p, Requeue(MarkSkipped(mem[p], skip),
                                    mem[p].failed \ skip))
           /\ retry' = [retry EXCEPT ![p] = mem[p].failed \ skip]
    BY <1>7 DEF AnswerPrompt
  <2> DEFINE m == Requeue(MarkSkipped(mem[p], skip), mem[p].failed \ skip)
  <2>2. UNCHANGED <<manifest, installed, pos>> /\ pc[p] = "prompt"
    BY <1>7 DEF AnswerPrompt
  <2>3. /\ pc'[p] = "scope" /\ mem'[p] = m /\ disk' = m
        /\ retry'[p] = mem[p].failed \ skip
        /\ \A q \in Proc \ {p} : /\ pc'[q] = pc[q] /\ mem'[q] = mem[q]
                                 /\ retry'[q] = retry[q]
    BY <1>7, <1>f, <2>1 DEF AnswerPrompt, Go, SetAndSave
  <2>4. /\ m.built = mem[p].built /\ m.failed = {}
        /\ m.skipped = mem[p].skipped \cup skip
        /\ m.remaining = (mem[p].remaining \ skip) \cup (mem[p].failed \ skip)
    BY <1>m DEF Progress, MarkSkipped, Requeue
  <2>5. pos[p] = 1 /\ Disjoint(mem[p]) /\ Counted(p)
    BY <2>2 DEF Sound, Good, Fresh
  <2> HIDE DEF m
  <2>6. Disjoint(mem[p])' /\ Retried(p)'
    BY <2>3, <2>4, <2>5 DEF Disjoint, Retried
  <2>7. \A x \in manifest : x \in Answered(m) \cup m.remaining /\ ~(x < pos[p])
    BY <1>f, <1>n, <2>2, <2>4, <2>5 DEF Counted, Counting, Answered
  <2>8. Counted(p)' /\ AtWork(p)' /\ Fresh(p)'
    BY <2>2, <2>3, <2>7 DEF Counted, Counting, AtWork, Fresh, Loop
  <2>9. Proven(p)'
    BY <2>2, <2>3, <2>4 DEF Sound, Good, Proven
  <2> QED BY <1>s, <2>2, <2>3, <2>6, <2>8, <2>9 DEF Good
<1>8. ASSUME NEW p \in Proc, PassPackage(p) PROVE Sound'
  <2>1. /\ UNCHANGED <<manifest, disk, installed, pc, mem, retry>>
        /\ pc[p] = "loop" /\ PassedOver(p)
    BY <1>8 DEF PassPackage
  <2>2. /\ pos'[p] = pos[p] + 1
        /\ \A q \in Proc \ {p} : pos'[q] = pos[q]
    BY <1>8, <1>f DEF PassPackage
  <2>3. pos[p] \in manifest => pos[p] \in Answered(mem[p])
    BY <2>1 DEF Sound, Good, Counted, Counting, Loop, PassedOver, Answered
  <2>4. Counted(p)' /\ Retried(p)'
    BY <1>f, <1>m, <1>n, <2>1, <2>2, <2>3
       DEF Sound, Good, Counted, Counting, Loop, Retried, Answered
  <2>5. Good(p)'
    BY <2>1, <2>2, <2>4 DEF Sound, Good, Disjoint, AtWork, Fresh, Proven
  <2> QED BY <1>s, <2>1, <2>2, <2>5
<1>9. ASSUME NEW p \in Proc, StartPackage(p) PROVE Sound'
  <2> DEFINE m == MarkBuilding(mem[p], pos[p])
  <2>1. /\ UNCHANGED <<manifest, installed, retry, pos>>
        /\ pc[p] = "loop" /\ ~PassedOver(p)
    BY <1>9 DEF StartPackage
  <2>2. /\ pc'[p] = "building" /\ mem'[p] = m /\ disk' = m
        /\ \A q \in Proc \ {p} : pc'[q] = pc[q] /\ mem'[q] = mem[q]
    BY <1>9, <1>f DEF StartPackage, Go, SetAndSave
  <2>3. /\ m.built = mem[p].built /\ m.failed = mem[p].failed
        /\ m.skipped = mem[p].skipped
        /\ m.remaining = mem[p].remaining \ {pos[p]}
    BY <1>m DEF Progress, MarkBuilding
  <2> HIDE DEF m
  <2>4. pos[p] \notin mem[p].built \cup mem[p].skipped
    BY <1>m, <2>1 DEF PassedOver, Sound, Good, Retried
  <2>5. Counted(p)'
    BY <2>1, <2>2, <2>3 DEF Sound, Good, Counted, Counting, Loop, Answered
  <2>6. Good(p)'
    BY <2>1, <2>2, <2>3, <2>4, <2>5 DEF Sound, Good, Disjoint, AtWork, Fresh,
                                        Retried, Proven
  <2> QED BY <1>s, <2>1, <2>2, <2>6
<1>10. ASSUME NEW p \in Proc, PackageInstalled(p) PROVE Sound'
  <2>1. /\ UNCHANGED <<manifest, disk, mem, retry, pos>> /\ pc[p] = "building"
        /\ installed' = installed \cup {pos[p]}
    BY <1>10 DEF PackageInstalled
  <2>2. /\ pc'[p] = "installed" /\ \A q \in Proc \ {p} : pc'[q] = pc[q]
    BY <1>10, <1>f DEF PackageInstalled, Go
  <2>3. Good(p)'
    BY <2>1, <2>2 DEF Sound, Good, Disjoint, AtWork, Fresh, Retried, Counting,
                      Counted, Loop, Answered, Proven
  <2> QED BY <1>s, <2>1, <2>2, <2>3
<1>11. ASSUME NEW p \in Proc, RecordBuilt(p) PROVE Sound'
  <2> DEFINE m == MarkBuilt(mem[p], pos[p])
  <2>1. UNCHANGED <<manifest, installed, retry>> /\ pc[p] = "installed"
    BY <1>11 DEF RecordBuilt
  <2>2. /\ pc'[p] = "loop" /\ mem'[p] = m /\ disk' = m /\ pos'[p] = pos[p] + 1
        /\ \A q \in Proc \ {p} : /\ pc'[q] = pc[q] /\ mem'[q] = mem[q]
                                 /\ pos'[q] = pos[q]
    BY <1>11, <1>f DEF RecordBuilt, Go, SetAndSave
  <2>3. /\ m.built = mem[p].built \cup {pos[p]}
        /\ m.failed = mem[p].failed \ {pos[p]}
        /\ m.skipped = mem[p].skipped
        /\ m.remaining = mem[p].remaining \ {pos[p]}
    BY <1>m DEF Progress, MarkBuilt
  <2> HIDE DEF m
  <2>4. pos[p] \notin mem[p].skipped /\ pos[p] \in installed /\ Good(p)
    BY <2>1 DEF Sound, Good, AtWork, Proven
  <2>5. Disjoint(mem[p])' /\ AtWork(p)' /\ Fresh(p)' /\ Proven(p)'
    BY <2>1, <2>2, <2>3, <2>4 DEF Good, Disjoint, AtWork, Fresh, Proven
  <2>6. Retried(p)'
    BY <1>f, <1>m, <1>n, <2>1, <2>2, <2>3, <2>4 DEF Good, Retried
  <2>7. Counted(p)'
    BY <1>f, <1>m, <1>n, <2>1, <2>2, <2>3, <2>4
       DEF Good, Counted, Counting, Loop, Answered
  <2> QED BY <1>s, <2>1, <2>2, <2>5, <2>6, <2>7 DEF Good
<1>12. ASSUME NEW p \in Proc, PackageFails(p) PROVE Sound'
  <2> DEFINE m == MarkFailed(mem[p], pos[p])
  <2>1. UNCHANGED <<manifest, installed, retry>> /\ pc[p] = "building"
    BY <1>12 DEF PackageFails
  <2>2. /\ pc'[p] = "loop" /\ mem'[p] = m /\ disk' = m /\ pos'[p] = pos[p] + 1
        /\ \A q \in Proc \ {p} : /\ pc'[q] = pc[q] /\ mem'[q] = mem[q]
                                 /\ pos'[q] = pos[q]
    BY <1>12, <1>f DEF PackageFails, Go, SetAndSave
  <2>3. /\ m.built = mem[p].built
        /\ m.failed = mem[p].failed \cup {pos[p]}
        /\ m.skipped = mem[p].skipped
        /\ m.remaining = mem[p].remaining \ {pos[p]}
    BY <1>m DEF Progress, MarkFailed
  <2> HIDE DEF m
  <2>4. pos[p] \notin mem[p].built \cup mem[p].skipped /\ Good(p)
    BY <2>1 DEF Sound, Good, AtWork
  <2>5. Disjoint(mem[p])' /\ AtWork(p)' /\ Fresh(p)' /\ Proven(p)'
    BY <2>1, <2>2, <2>3, <2>4 DEF Good, Disjoint, AtWork, Fresh, Proven
  <2>6. Retried(p)'
    BY <1>f, <1>m, <1>n, <2>1, <2>2, <2>3, <2>4 DEF Good, Retried
  <2>7. Counted(p)'
    BY <1>f, <1>m, <1>n, <2>1, <2>2, <2>3, <2>4
       DEF Good, Counted, Counting, Loop, Answered
  <2> QED BY <1>s, <2>1, <2>2, <2>5, <2>6, <2>7 DEF Good
<1>13. ASSUME NEW p \in Proc, EndLoop(p) \/ Report(p) PROVE Sound'
  <2>1. UNCHANGED <<manifest, disk, installed, mem, retry, pos>>
    BY <1>13 DEF EndLoop, Report
  <2>2. /\ \/ pc[p] = "loop" /\ pos[p] = N + 1 /\ pc'[p] = "report"
           \/ pc[p] = "report" /\ pc'[p] \in {"raised", "returned"}
        /\ \A q \in Proc \ {p} : pc'[q] = pc[q]
    BY <1>13, <1>f DEF EndLoop, Report, Go
  <2>3. Good(p)'
    BY <2>1, <2>2 DEF Sound, Good, Disjoint, AtWork, Fresh, Retried, Counting,
                      Counted, Loop, Answered, Proven
  <2> QED BY <1>s, <2>1, <2>2, <2>3
<1>14. ASSUME NEW p \in Proc, RecordStage(p) PROVE Sound'
  <2>1. Exit(p) /\ UNCHANGED <<manifest, installed>>
    BY <1>14 DEF RecordStage
  <2>2. /\ disk'.built = mem[p].built /\ disk'.failed = mem[p].failed
        /\ disk'.skipped = mem[p].skipped
    BY <1>14, <1>m DEF RecordStage, Progress
  <2>3. \A q \in Proc : Good(q)'
    BY <2>1, ExitGood
  <2>4. Disjoint(disk)' /\ (disk.built \subseteq installed)'
    BY <2>1, <2>2 DEF Sound, Good, Disjoint, Proven
  <2> QED BY <1>t, <2>3, <2>4 DEF Sound
<1> QED BY <1>0, <1>1, <1>o, <1>2, <1>3, <1>4, <1>5, <1>6, <1>7, <1>8, <1>9,
           <1>10, <1>11, <1>12, <1>13, <1>14 DEF Next, Advance

\* The file never claims a package that was not installed, whatever crashed
\* and whichever process wrote it last.
THEOREM NoFalseBuilt == Spec => []BuiltMeansInstalled
<1>1. Sound => BuiltMeansInstalled
  BY DEF Sound, BuiltMeansInstalled
<1> QED BY <1>1, SoundInit, SoundStep, PTL DEF Spec

\* No package is in two of the lists built, failed and skipped.
THEOREM OneOutcomeEach == Spec => []OneOutcome
<1>1. Sound => OneOutcome
  BY DEF Sound, Good, Disjoint, OneOutcome
<1> QED BY <1>1, SoundInit, SoundStep, PTL DEF Spec

\* A loop that ends has answered for every listed package, after any sequence
\* of failures, interruptions and retries.
THEOREM NoneForgotten == Spec => []EveryPackageAnswered
<1>1. Sound => EveryPackageAnswered
  <2> SUFFICES ASSUME Sound, NEW p \in Proc, pc[p] \in {"report", "returned"},
                      NEW x \in manifest
               PROVE  x \in Answered(mem[p])
    BY DEF EveryPackageAnswered, Answered
  <2>1. pos[p] = N + 1 /\ (x < pos[p] => x \in Answered(mem[p]))
    BY DEF Sound, Good, Counted, Counting
  <2>2. x \in 1 .. N /\ N \in Nat
    BY NIsNatural DEF Sound, Typed, TypeOK, Package
  <2> QED BY <2>1, <2>2
<1> QED BY <1>1, SoundInit, SoundStep, PTL DEF Spec

-----------------------------------------------------------------------------
(***************************************************************************)
(* One process at a time implements the ledger: its copy is the file from  *)
(* the load on, because every change of the copy is saved at once.         *)
(***************************************************************************)
AtMostOne == \A p, q \in Proc : p = q

Synced(p) ==
    /\ pc[p] \notin {"idle", "gated"} => mem[p] = disk
    /\ pc[p] = "returned" => mem[p].failed = {}

Single == Sound /\ \A p \in Proc : Synced(p)

\* Every step of the only process keeps its copy and the file the same.
LEMMA SingleStep == AtMostOne /\ Single /\ [Next]_vars => Single'
<1> SUFFICES ASSUME AtMostOne, Single, [Next]_vars PROVE Single'
  OBVIOUS
<1>s. Sound' /\ Sound
  BY SoundStep DEF Single
<1>f. pc \in [Proc -> PCs] /\ mem \in [Proc -> Progress]
  BY <1>s DEF Sound, Typed, TypeOK
<1> SUFFICES ASSUME NEW p \in Proc PROVE Synced(p)'
  BY <1>s DEF Single
<1>1. \A q \in Proc : q = p
  BY DEF AtMostOne
<1>2. CASE UNCHANGED vars
  BY <1>2 DEF Single, Synced, vars
<1>3. CASE EditManifest \/ OtherEnters \/ OtherLeaves
  BY <1>3 DEF EditManifest, OtherEnters, OtherLeaves, Single, Synced
<1>4. CASE Gate(p) \/ Load(p) \/ NoPrompt(p) \/ AbortAtPrompt(p) \/ EnterScope(p)
           \/ ScopeRefused(p) \/ DepsBuilt(p) \/ RunRaises(p) \/ BodyRaises(p)
           \/ PackageInstalled(p) \/ EndLoop(p) \/ PassPackage(p)
  BY <1>4, <1>f DEF Gate, Load, NoPrompt, AbortAtPrompt, EnterScope,
        ScopeRefused, DepsBuilt, RunRaises, BodyRaises, PackageInstalled,
        EndLoop, PassPackage, Go, Single, Synced
<1>5. CASE Report(p)
  BY <1>5, <1>f DEF Report, Go, Single, Synced
<1>6. CASE LoadRaises(p) \/ Crash(p) \/ RecordStage(p)
  BY <1>6, <1>f DEF LoadRaises, Crash, RecordStage, Exit, Go, Synced
<1>7. CASE BeginStage(p) \/ InitList(p) \/ AnswerPrompt(p) \/ StartPackage(p)
           \/ RecordBuilt(p) \/ PackageFails(p)
  <2>1. mem'[p] = disk' /\ pc'[p] # "returned"
    BY <1>7, <1>f DEF BeginStage, InitList, AnswerPrompt, StartPackage,
          RecordBuilt, PackageFails, SetAndSave, Go
  <2> QED BY <2>1 DEF Synced
<1> QED BY <1>1, <1>2, <1>3, <1>4, <1>5, <1>6, <1>7 DEF Next, Advance

\* What the reader of the file sees of a step.
LedgerStep == Ledger!Next \/ UNCHANGED <<manifest, disk>>

\* Every step of the only process is a step of the ledger, or none.
LEMMA StepIsLedgers ==
    AtMostOne /\ Single /\ [Next]_vars
        => [Ledger!Next]_<<manifest, disk.built \cup disk.skipped,
                           disk.status = "done">>
<1> SUFFICES ASSUME AtMostOne, Single, [Next]_vars
             PROVE  LedgerStep
  BY DEF LedgerStep
<1>t. Typed /\ Typed' /\ Sound
  BY TypedStep DEF Single, Sound
<1>f. disk \in Progress /\ disk' \in Progress /\ manifest \in SUBSET Package
      /\ manifest' \in SUBSET Package
  BY <1>t DEF Typed, TypeOK
<1>k. ASSUME manifest' = manifest,
             disk.built \cup disk.skipped \subseteq disk'.built \cup disk'.skipped,
             disk'.status = disk.status
      PROVE  LedgerStep
  <2>1. disk'.built \cup disk'.skipped \subseteq Package
    BY <1>f DEF Progress
  <2> QED BY <1>k, <2>1 DEF LedgerStep, Ledger!Next, Ledger!Settle
<1>r. ASSUME manifest' = manifest, disk'.status # "done",
             disk.built \cup disk.skipped = disk'.built \cup disk'.skipped
      PROVE  LedgerStep
  <2>1. (disk'.status = "done") = FALSE
    BY <1>r
  <2> QED BY <1>r, <2>1 DEF LedgerStep, Ledger!Next, Ledger!Reopen
<1>0. CASE UNCHANGED vars
  BY <1>0 DEF LedgerStep, vars
<1>1. CASE EditManifest
  BY <1>1, <1>f DEF EditManifest, LedgerStep, Ledger!Next, Ledger!Rewrite
<1>o. CASE OtherEnters \/ OtherLeaves
  BY <1>o DEF OtherEnters, OtherLeaves, LedgerStep
<1>2. ASSUME NEW p \in Proc,
             Gate(p) \/ Load(p) \/ NoPrompt(p) \/ AbortAtPrompt(p)
             \/ EnterScope(p) \/ ScopeRefused(p) \/ DepsBuilt(p) \/ RunRaises(p)
             \/ BodyRaises(p) \/ PackageInstalled(p) \/ EndLoop(p)
             \/ PassPackage(p) \/ Report(p) \/ LoadRaises(p) \/ Crash(p)
      PROVE  LedgerStep
  BY <1>2 DEF Gate, Load, NoPrompt, AbortAtPrompt, EnterScope, ScopeRefused,
        DepsBuilt, RunRaises, BodyRaises, PackageInstalled, EndLoop,
        PassPackage, Report, LoadRaises, Crash, LedgerStep
<1>3. ASSUME NEW p \in Proc,
             BeginStage(p) \/ InitList(p) \/ AnswerPrompt(p) \/ StartPackage(p)
             \/ RecordBuilt(p) \/ PackageFails(p)
      PROVE  LedgerStep
  <2>1. mem[p] = disk /\ manifest' = manifest
    BY <1>3 DEF Single, Synced, BeginStage, InitList, AnswerPrompt,
                StartPackage, RecordBuilt, PackageFails
  <2>2. CASE BeginStage(p)
    <3>1. disk' = [disk EXCEPT !.status = "running"]
      BY <2>1, <2>2 DEF BeginStage, SetAndSave
    <3> QED BY <1>r, <1>f, <2>1, <3>1 DEF Progress
  <2>3. CASE InitList(p)
    <3>1. disk' = InitPackageList(disk, manifest)
      BY <2>1, <2>3 DEF InitList, SetAndSave
    <3> QED BY <1>k, <1>f, <2>1, <3>1 DEF Progress, InitPackageList
  <2>4. CASE AnswerPrompt(p)
    <3>1. PICK skip \in SUBSET disk.failed :
             disk' = Requeue(MarkSkipped(disk, skip), disk.failed \ skip)
      BY <2>1, <2>4 DEF AnswerPrompt, SetAndSave
    <3> QED BY <1>k, <1>f, <2>1, <3>1 DEF Progress, Requeue, MarkSkipped
  <2>5. CASE StartPackage(p)
    <3>1. disk' = MarkBuilding(disk, pos[p])
      BY <2>1, <2>5 DEF StartPackage, SetAndSave
    <3> QED BY <1>k, <1>f, <2>1, <3>1 DEF Progress, MarkBuilding
  <2>6. CASE RecordBuilt(p)
    <3>1. disk' = MarkBuilt(disk, pos[p])
      BY <2>1, <2>6 DEF RecordBuilt, SetAndSave
    <3> QED BY <1>k, <1>f, <2>1, <3>1 DEF Progress, MarkBuilt
  <2>7. CASE PackageFails(p)
    <3>1. disk' = MarkFailed(disk, pos[p])
      BY <2>1, <2>7 DEF PackageFails, SetAndSave
    <3> QED BY <1>k, <1>f, <2>1, <3>1 DEF Progress, MarkFailed
  <2> QED BY <1>3, <2>2, <2>3, <2>4, <2>5, <2>6, <2>7
<1>4. ASSUME NEW p \in Proc, RecordStage(p) PROVE LedgerStep
  <2>1. mem[p] = disk /\ manifest' = manifest
    BY <1>4 DEF Single, Synced, RecordStage
  <2>2. CASE pc[p] = "raised"
    <3>1. disk' = [disk EXCEPT !.status = "failed"]
      BY <1>4, <2>1, <2>2 DEF RecordStage
    <3> QED BY <1>r, <1>f, <2>1, <3>1 DEF Progress
  <2>3. CASE pc[p] = "returned"
    <3>1. disk' = [disk EXCEPT !.status = "done"] /\ disk.failed = {}
      BY <1>4, <2>1, <2>3 DEF RecordStage, Single, Synced
    <3>2. pos[p] = N + 1 /\ \A x \in manifest :
                               x < pos[p] => x \in Answered(disk)
      BY <1>t, <2>1, <2>3 DEF Sound, Good, Counted, Counting
    <3>3. \A x \in manifest : x < N + 1
      BY <1>f, NIsNatural DEF Package
    <3>4. manifest \subseteq disk.built \cup disk.skipped
      BY <3>1, <3>2, <3>3 DEF Answered
    <3>5. disk'.status = "done" /\ disk'.built = disk.built
          /\ disk'.skipped = disk.skipped
      BY <1>f, <3>1 DEF Progress
    <3>6. (disk'.status = "done") = TRUE
      BY <3>5
    <3> QED BY <2>1, <3>4, <3>5, <3>6 DEF LedgerStep, Ledger!Next, Ledger!Announce
  <2> QED BY <1>4, <2>2, <2>3 DEF RecordStage
<1> QED BY <1>0, <1>1, <1>o, <1>2, <1>3, <1>4 DEF Next, Advance

\* Run by one process at a time, the stage implements the ledger: what is
\* settled stays settled, and done is announced only of a settled manifest.
THEOREM Implements == ASSUME AtMostOne PROVE Spec => KeepsLedger
<1>1. Init => Single
  BY SoundInit DEF Init, Single, Synced
<1>2. Init => Ledger!Init
  <2> SUFFICES ASSUME Init PROVE Ledger!Init
    OBVIOUS
  <2>1. Nothing.built \cup Nothing.skipped = {} /\ Nothing.status # "done"
    BY DEF Nothing
  <2> QED BY <2>1 DEF Init, Ledger!Init
<1>3. Single /\ [Next]_vars => Single'
  BY SingleStep
<1>4. Single /\ [Next]_vars => [Ledger!Next]_<<manifest,
         disk.built \cup disk.skipped, disk.status = "done">>
  BY StepIsLedgers
<1> QED BY <1>1, <1>2, <1>3, <1>4, PTL DEF Spec, KeepsLedger, Ledger!Spec

-----------------------------------------------------------------------------
(* The checkpoint before the stage.  ReconfTyped;  StageInv says what is     *)
(* known of an editor once it was picked, and at the handover; SavedInv what *)
(* the files hold once the pick was saved to them.                           *)

Commands == Editors \cup {NoEditor}
EnvFiles == {"system", "user"}
RunFields == {"pc", "todo", "editor", "asked", "standalone", "prev", "for", "left"}
RunIs(r) == r = [pc |-> r.pc, todo |-> r.todo, editor |-> r.editor, asked |-> r.asked,
                 standalone |-> r.standalone, prev |-> r.prev, for |-> r.for, left |-> r.left]

ReconfTyped ==
    /\ onPath \subseteq Editors
    /\ conf \in [editor : Commands, tables : BOOLEAN, parses : BOOLEAN]
    /\ files \in [system : Seq(Lines), user : Seq(Lines)]
    /\ pick \in [editor : Commands, declined : BOOLEAN, saved : SUBSET Targets, warned : BOOLEAN]
    /\ RunIs(run) /\ run.left \in SUBSET Targets
    /\ env = [sf |-> env.sf, editor |-> env.editor, visual |-> env.visual]

StageInv ==
    /\ run.pc # "idle" /\ pick.editor # NoEditor => env.sf = pick.editor /\ Usable(pick.editor)
    /\ run.pc \in {"targets", "save"} => pick.editor # NoEditor
    /\ run.pc \in {"pick", "targets", "save"} /\ run.for = "handover" => broken = {}
    /\ run.pc \in {"confirm", "done"} => broken = {} /\ (run.asked /\ ~run.standalone => Usable(Resolved))

\* The file shows the pick to whoever reads its last assignment.
Places(text, var) == {i \in DOMAIN text : text[i].var = var}
Odd(file, text) == \E i \in DOMAIN text : text[i].form \notin IF file = "system" THEN {"bare"} ELSE {"export", "split"}
Shows(file, text, e) ==
    ~Odd(file, text) => /\ Places(text, "EDITOR") # {}
                        /\ text[LastOf(Places(text, "EDITOR"))].value = e

\* What the operator was told, or need not be, of a higher rung.
Weighed ==
    \/ pick.editor = NoEditor \/ pick.declined \/ pick.warned \/ "sysforge" \in pick.saved
    \/ pick.saved = {} /\ run.left = {}
    \/ "sysforge" \notin run.left /\ (conf.parses => conf.editor \in {NoEditor, pick.editor})

SavedInv ==
    /\ run.pc = "targets" => pick.saved = {}
    /\ run.pc # "save" => run.left = {}
    /\ pick.saved # {} => pick.editor \in Editors
    /\ "sysforge" \in pick.saved => conf.editor = pick.editor
    /\ \A file \in EnvFiles \cap pick.saved : Shows(file, files[file], pick.editor)
    /\ Weighed
    /\ run.pc = "idle" => env.sf = sf /\ env.editor = FromLogin("EDITOR")

ReconfInv == ReconfTyped /\ StageInv /\ SavedInv

\* Some place is the first, and one is the last.
LEMMA FirstIs ==
    ASSUME NEW S \in SUBSET Nat, S # {}
    PROVE  FirstOf(S) \in S /\ \A j \in S : FirstOf(S) <= j
<1> DEFINE Less == {xy \in Nat \X Nat : xy[1] < xy[2]}
<1>1. IsWellFoundedOn(Less, Nat)
  BY NatLessThanWellFounded, Zenon DEF OpToRel
<1>2. PICK i \in S : \A j \in S : ~(<<j, i>> \in Less)
  BY <1>1, WFMin
<1>3. ASSUME NEW j \in S PROVE i <= j
  <2>1. ~(<<j, i>> \in Less)
    BY <1>2
  <2> QED  BY <2>1
<1> QED  BY <1>3 DEF FirstOf

LEMMA LastIs ==
    ASSUME NEW n \in Nat, NEW S \in SUBSET (1 .. n), S # {}
    PROVE  LastOf(S) \in S /\ \A j \in S : LastOf(S) >= j
<1> DEFINE U == {k \in Nat : \A j \in S : j <= k}
<1>1. U \in SUBSET Nat /\ n \in U
  OBVIOUS
<1>2. /\ FirstOf(U) \in U /\ \A k \in U : FirstOf(U) <= k
  BY <1>1, FirstIs
<1>3. FirstOf(U) \in S
  <2> SUFFICES ASSUME FirstOf(U) \notin S PROVE FALSE
    OBVIOUS
  <2>1. \A j \in S : j \in Nat /\ 1 <= j /\ j < FirstOf(U)
    BY <1>2
  <2>2. FirstOf(U) \in Nat /\ FirstOf(U) # 0
    <3>1. PICK j \in S : TRUE
      OBVIOUS
    <3> QED  BY <1>2, <2>1, <3>1
  <2>3. FirstOf(U) - 1 \in Nat /\ \A j \in S : j <= FirstOf(U) - 1
    BY <2>1, <2>2
  <2> QED  BY <1>2, <2>2, <2>3
<1> QED  BY <1>2, <1>3 DEF LastOf

\* What two sequences are, one after the other.
LEMMA JoinIs ==
    ASSUME NEW Of, NEW s \in Seq(Of), NEW t \in Seq(Of)
    PROVE  /\ s \o t \in Seq(Of) /\ Len(s \o t) = Len(s) + Len(t)
           /\ \A i \in 1 .. Len(s) : (s \o t)[i] = s[i]
           /\ \A i \in 1 .. Len(t) : (s \o t)[Len(s) + i] = t[i]
OBVIOUS

\* The rungs, one after the other.
LEMMA ResolvedIs ==
    ASSUME ReconfTyped
    PROVE  /\ Usable(env.sf) => Resolved = env.sf
           /\ ~Usable(env.sf) /\ conf.parses /\ Usable(conf.editor) => Resolved = conf.editor
           /\ ~Usable(env.sf) /\ ~(conf.parses /\ Usable(conf.editor)) /\ Usable(env.editor) => Resolved = env.editor
<1> DEFINE rungs == {i \in DOMAIN Chain : Usable(Chain[i])}
           told == IF conf.parses THEN conf.editor ELSE NoEditor
<1>1. Detected \in Seq(Editors) /\ Len(Detected) \in Nat
  BY DetectedTyped
<1>2. /\ DOMAIN Chain = 1 .. (4 + Len(Detected))
      /\ Chain[1] = env.sf /\ Chain[2] = told /\ Chain[3] = env.editor
  BY <1>1 DEF Chain
<1>3. Usable(told) <=> conf.parses /\ Usable(conf.editor)
  BY NoEditorApart DEF Usable, ReconfTyped
<1>4. rungs \in SUBSET Nat
  BY <1>1, <1>2
<1>5. rungs # {} => Resolved = Chain[FirstOf(rungs)]
  BY DEF Resolved
<1>6. CASE Usable(env.sf)
  <2>1. 1 \in rungs /\ \A j \in rungs : 1 <= j
    BY <1>1, <1>2, <1>6
  <2>2. FirstOf(rungs) = 1
    BY <1>4, <2>1, FirstIs
  <2> QED  BY <1>2, <1>5, <1>6, <2>1, <2>2
<1>7. CASE ~Usable(env.sf) /\ Usable(told)
  <2>1. 2 \in rungs /\ \A j \in rungs : 2 <= j
    BY <1>1, <1>2, <1>7
  <2>2. FirstOf(rungs) = 2
    BY <1>4, <2>1, FirstIs
  <2> QED  BY <1>2, <1>3, <1>5, <1>7, <2>1, <2>2
<1>8. CASE ~Usable(env.sf) /\ ~Usable(told) /\ Usable(env.editor)
  <2>1. 3 \in rungs /\ \A j \in rungs : 3 <= j
    BY <1>1, <1>2, <1>8
  <2>2. FirstOf(rungs) = 3
    BY <1>4, <2>1, FirstIs
  <2> QED  BY <1>2, <1>3, <1>5, <1>8, <2>1, <2>2
<1> QED  BY <1>3, <1>6, <1>7, <1>8

\* A plan's file shows the editor it was made for.
LEMMA PlanIs ==
    ASSUME ReconfTyped, NEW file \in EnvFiles, NEW e \in Editors
    PROVE  Plan(file, e) \in Seq(Lines) /\ Shows(file, Plan(file, e), e)
<1> DEFINE text == files[file]
           both == {"EDITOR", "VISUAL"}
<1>1. text \in Seq(Lines) /\ Len(text) \in Nat /\ DOMAIN text = 1 .. Len(text)
  BY DEF ReconfTyped, EnvFiles
<1>2. \A i \in DOMAIN text : text[i] \in Lines
  BY <1>1
<1>3. CASE \A var \in both : Current(file, var, e)
  <2>1. Plan(file, e) = text
    BY <1>3 DEF Plan
  <2>2. Current(file, "EDITOR", e)
    BY <1>3
  <2>3. ASSUME ~Odd(file, text) PROVE Hits(file, "EDITOR") = Places(text, "EDITOR")
    BY <2>3 DEF Hits, Places, Odd, Found
  <2> QED  BY <1>1, <2>1, <2>2, <2>3 DEF Shows, Current
<1>4. CASE ~(\A var \in both : Current(file, var, e))
  <2> DEFINE line(i) == IF text[i].var = "other" \/ i \notin Hits(file, text[i].var) THEN text[i]
                        ELSE IF i = FirstOf(Hits(file, text[i].var)) THEN Line(file, text[i].var, e)
                        ELSE Line(file, "other", NoEditor)
             A == [i \in DOMAIN text |-> line(i)]
             B == Added(file, "EDITOR", e)
             C == Added(file, "VISUAL", e)
  <2>1. Plan(file, e) = A \o B \o C
    BY <1>4 DEF Plan
  <2>2. \A v \in {"EDITOR", "VISUAL", "other"}, c \in Commands : Line(file, v, c) \in Lines
    BY DEF Line, Lines, Written, Commands
  <2>3. A \in Seq(Lines) /\ Len(A) = Len(text)
    <3>1. \A i \in 1 .. Len(text) : line(i) \in Lines
      BY <1>1, <1>2, <2>2 DEF Lines, Commands
    <3> HIDE DEF line
    <3> QED  BY <1>1, <3>1
  <2>4. /\ B \in Seq(Lines) /\ C \in Seq(Lines)
        /\ B = <<>> \/ B = <<Line(file, "EDITOR", e)>>
        /\ C = <<>> \/ C = <<Line(file, "VISUAL", e)>>
    BY <2>2 DEF Added, Commands
  <2>5. /\ Plan(file, e) \in Seq(Lines) /\ Len(Plan(file, e)) = Len(A) + Len(B) + Len(C)
        /\ \A i \in 1 .. Len(A) : Plan(file, e)[i] = A[i]
        /\ \A i \in 1 .. Len(B) : Plan(file, e)[Len(A) + i] = B[i]
        /\ \A i \in 1 .. Len(C) : Plan(file, e)[Len(A) + Len(B) + i] = C[i]
    <3> HIDE DEF A, B, C
    <3> DEFINE AB == A \o B
    <3>1. /\ AB \in Seq(Lines) /\ Len(AB) = Len(A) + Len(B) /\ Len(A) \in Nat /\ Len(B) \in Nat /\ Len(C) \in Nat
          /\ \A i \in 1 .. Len(A) : AB[i] = A[i]
          /\ \A i \in 1 .. Len(B) : AB[Len(A) + i] = B[i]
      BY <2>3, <2>4, JoinIs
    <3>2. Plan(file, e) = AB \o C
      BY <2>1
    <3> HIDE DEF AB
    <3>5. AB \in Seq(Lines) /\ C \in Seq(Lines)
      BY <2>4, <3>1
    <3>3. /\ AB \o C \in Seq(Lines) /\ Len(AB \o C) = Len(AB) + Len(C)
          /\ \A i \in 1 .. Len(AB) : (AB \o C)[i] = AB[i]
          /\ \A i \in 1 .. Len(C) : (AB \o C)[Len(AB) + i] = C[i]
      BY <3>5, JoinIs
    <3>4. (1 .. Len(A)) \subseteq (1 .. Len(AB)) /\ \A i \in 1 .. Len(B) : Len(A) + i \in 1 .. Len(AB)
      BY <3>1
    <3> QED  BY <3>1, <3>2, <3>3, <3>4
  <2> DEFINE new == Plan(file, e)
             at == Places(new, "EDITOR")
  <2>6. SUFFICES ASSUME ~Odd(file, new) PROVE at # {} /\ new[LastOf(at)].value = e
    BY <2>5 DEF Shows
  <2>7. ASSUME NEW i \in at PROVE new[i].value = e
    <3>5. Len(A) \in Nat /\ Len(B) \in Nat /\ Len(C) \in Nat
      <4> HIDE DEF A, B, C
      <4> QED  BY <2>3, <2>4
    <3>1. i \in 1 .. (Len(A) + Len(B) + Len(C)) /\ new[i].var = "EDITOR"
      BY <2>3, <2>4, <2>5 DEF Places
    <3>2. CASE i \in 1 .. Len(A)
      <4>1. new[i] = line(i) /\ i \in DOMAIN text /\ i \in DOMAIN new
        <5>1. i \in DOMAIN text /\ A[i] = line(i)
          BY <1>1, <2>3, <3>2
        <5>2. new[i] = A[i] /\ i \in DOMAIN new
          <6> HIDE DEF A
          <6> QED  BY <2>5, <3>2 DEF Places
        <5> QED  BY <5>1, <5>2
      <4>2. CASE text[i].var = "other"
        BY <3>1, <4>1, <4>2
      <4>3. CASE text[i].var # "other" /\ i \notin Hits(file, text[i].var)
        <5>1. new[i] = text[i] /\ text[i].form \notin Found(file)
          BY <4>1, <4>3 DEF Hits
        <5>2. Odd(file, new)
          BY <4>1, <5>1 DEF Odd, Found
        <5> QED  BY <2>6, <5>2
      <4>4. CASE text[i].var # "other" /\ i \in Hits(file, text[i].var)
        BY <3>1, <4>1, <4>4 DEF Line
      <4> QED  BY <4>2, <4>3, <4>4
    <3>3. CASE i \in (Len(A) + 1) .. (Len(A) + Len(B))
      <4>1. new[i] = B[i - Len(A)] /\ B = <<Line(file, "EDITOR", e)>> /\ i - Len(A) = 1
        <5> HIDE DEF A, B, C
        <5>1. i - Len(A) \in 1 .. Len(B) /\ Len(A) + (i - Len(A)) = i
          BY <2>3, <2>4, <3>3
        <5>2. B = <<Line(file, "EDITOR", e)>>
          BY <2>4, <5>1
        <5> QED  BY <2>5, <5>1, <5>2
      <4> QED  BY <4>1 DEF Line
    <3>4. CASE i \in (Len(A) + Len(B) + 1) .. (Len(A) + Len(B) + Len(C))
      <4>1. new[i] = C[i - (Len(A) + Len(B))] /\ C = <<Line(file, "VISUAL", e)>> /\ i - (Len(A) + Len(B)) = 1
        <5> HIDE DEF A, B, C
        <5>1. i - (Len(A) + Len(B)) \in 1 .. Len(C) /\ Len(A) + Len(B) + (i - (Len(A) + Len(B))) = i
          BY <3>4, <3>5
        <5>2. C = <<Line(file, "VISUAL", e)>>
          BY <2>4, <5>1
        <5> QED  BY <2>5, <5>1, <5>2
      <4> QED  BY <3>1, <4>1 DEF Line
    <3> HIDE DEF A, B, C, new
    <3> QED  BY <3>1, <3>2, <3>3, <3>4, <3>5
  <2>8. at # {}
    <3>1. CASE Hits(file, "EDITOR") = {}
      <4>1. B = <<Line(file, "EDITOR", e)>>
        BY <3>1 DEF Added
      <4>2. Len(A) \in Nat /\ Len(C) \in Nat /\ Len(B) = 1 /\ B[1] = Line(file, "EDITOR", e)
        <5> HIDE DEF A, B, C
        <5> QED  BY <2>3, <2>4, <4>1
      <4>3. Len(A) + 1 \in DOMAIN new /\ new[Len(A) + 1] = Line(file, "EDITOR", e)
        <5> HIDE DEF A, B, C
        <5> QED  BY <2>5, <4>2
      <4> QED  BY <4>3 DEF Places, Line
    <3>2. CASE Hits(file, "EDITOR") # {}
      <4> DEFINE f == FirstOf(Hits(file, "EDITOR"))
      <4>1. Hits(file, "EDITOR") \in SUBSET Nat
        BY <1>1 DEF Hits
      <4>2. f \in Hits(file, "EDITOR")
        BY <3>2, <4>1, FirstIs
      <4>3. f \in DOMAIN text /\ text[f].var = "EDITOR"
        BY <4>2 DEF Hits
      <4>4. line(f) = Line(file, "EDITOR", e)
        BY <4>2, <4>3
      <4>5. f \in 1 .. Len(A) /\ A[f] = Line(file, "EDITOR", e)
        BY <1>1, <2>3, <4>3, <4>4
      <4>6. f \in DOMAIN new /\ new[f] = Line(file, "EDITOR", e)
        <5> HIDE DEF A, B, C, f
        <5> QED  BY <2>3, <2>4, <2>5, <4>5
      <4> QED  BY <4>6 DEF Places, Line
    <3> QED  BY <3>1, <3>2
  <2>9. LastOf(at) \in at
    <3>1. at \in SUBSET (1 .. Len(new)) /\ Len(new) \in Nat
      BY <2>5 DEF Places
    <3> QED  BY <2>8, <3>1, LastIs
  <2> QED  BY <2>7, <2>8, <2>9
<1> QED  BY <1>3, <1>4

\* A file that shows the pick and is read as it was written reaches the login.
LEMMA LoginIs ==
    ASSUME ReconfTyped, NEW e \in Editors
    PROVE  /\ Shows("user", files.user, e) /\ ~Odd("user", files.user) => FromLogin("EDITOR") = e
           /\ Shows("system", files.system, e) /\ ~Odd("system", files.system) /\ files.user = <<>> => FromLogin("EDITOR") = e
<1>1. /\ files.user \in Seq(Lines) /\ Len(files.user) \in Nat /\ DOMAIN files.user = 1 .. Len(files.user)
      /\ files.system \in Seq(Lines) /\ Len(files.system) \in Nat /\ DOMAIN files.system = 1 .. Len(files.system)
  BY DEF ReconfTyped
<1>2. ASSUME Shows("user", files.user, e), ~Odd("user", files.user) PROVE FromLogin("EDITOR") = e
  <2> DEFINE text == files.user
             of(i) == text[i].var = "EDITOR"
             exports(i) == of(i) /\ text[i].form # "bare"
             set == {i \in DOMAIN text : of(i) /\ (FromPam("EDITOR") # NoEditor \/ \E j \in 1..i : exports(j))}
  <2>1. \A i \in DOMAIN text : text[i].form # "bare" /\ i \in 1 .. i
    BY <1>1, <1>2 DEF Odd
  <2>2. set = Places(text, "EDITOR")
    BY <2>1 DEF Places
  <2>3. set # {} /\ text[LastOf(set)].value = e
    BY <1>2, <2>2 DEF Shows
  <2> QED  BY <2>3 DEF FromLogin
<1>3. ASSUME Shows("system", files.system, e), ~Odd("system", files.system), files.user = <<>> PROVE FromLogin("EDITOR") = e
  <2> DEFINE set == {i \in DOMAIN files.system : files.system[i].var = "EDITOR"}
  <2>1. set # {} /\ files.system[LastOf(set)].value = e
    BY <1>3 DEF Shows, Places
  <2>2. LastOf(set) \in DOMAIN files.system
    <3>1. set \in SUBSET (1 .. Len(files.system))
      BY <1>1
    <3> QED  BY <1>1, <2>1, <3>1, LastIs
  <2>3. files.system[LastOf(set)].form # "split"
    BY <1>3, <2>2 DEF Odd
  <2>4. FromPam("EDITOR") = e
    BY <2>1, <2>3 DEF FromPam
  <2>5. DOMAIN files.user = {}
    BY <1>1, <1>3
  <2> QED  BY <2>4, <2>5 DEF FromLogin
<1> QED  BY <1>2, <1>3

\* The invariant holds what the property says.
LEMMA ReconfSound == ReconfInv => EditorSound
<1> SUFFICES ASSUME ReconfInv PROVE HandoverSound /\ PickSettles
  BY DEF EditorSound
<1>0. ReconfTyped /\ StageInv /\ SavedInv
  BY DEF ReconfInv
<1>1. HandoverSound
  BY <1>0, ResolvedIs DEF StageInv, HandoverSound
<1>2. PickSettles
  <2> SUFFICES ASSUME run.pc = "idle", pick.saved # {}, Usable(pick.editor), conf.parses, ~Usable(sf),
                      ~pick.warned, ~pick.declined,
                      "sysforge" \in pick.saved \/ ~Misread("user"),
                      pick.saved # {"system"} \/ (~Misread("system") /\ files.user = <<>>)
               PROVE  Resolved = pick.editor
    BY DEF PickSettles
  <2>1. pick.editor \in Editors /\ pick.editor # NoEditor /\ ~Usable(NoEditor) /\ env.sf = sf /\ env.editor = FromLogin("EDITOR")
    BY <1>0, NoEditorApart DEF SavedInv, ReconfTyped, Usable
  <2>2. CASE "sysforge" \in pick.saved
    BY <1>0, <2>1, <2>2, ResolvedIs DEF SavedInv
  <2>3. CASE "sysforge" \notin pick.saved
    <3>1. conf.editor \in {NoEditor, pick.editor}
      BY <1>0, <2>1, <2>3 DEF SavedInv, Weighed
    <3>2. \A file \in EnvFiles : Misread(file) <=> Odd(file, files[file])
      BY DEF Misread, Odd
    <3>3. "user" \in pick.saved \/ pick.saved = {"system"}
      BY <1>0, <2>3 DEF ReconfTyped, Targets
    <3>4. FromLogin("EDITOR") = pick.editor
      <4>1. CASE "user" \in pick.saved
        BY <1>0, <2>1, <2>3, <3>2, <4>1, LoginIs DEF SavedInv, EnvFiles
      <4>2. CASE pick.saved = {"system"}
        BY <1>0, <2>1, <2>3, <3>2, <4>2, LoginIs DEF SavedInv, EnvFiles
      <4> QED  BY <3>3, <4>1, <4>2
    <3> QED  BY <1>0, <2>1, <3>1, <3>4, ResolvedIs
  <2> QED  BY <2>2, <2>3
<1> QED  BY <1>1, <1>2

LEMMA ReconfInit == InitReconf => ReconfInv
<1> SUFFICES ASSUME InitReconf PROVE ReconfInv
  OBVIOUS
<1>1. ReconfTyped
  BY FilesTyped DEF InitReconf, ReconfTyped, RunIs, Waiting, NoPick, Commands, Targets
<1>2. StageInv
  BY DEF InitReconf, StageInv, Waiting, NoPick
<1>3. SavedInv
  BY DEF InitReconf, SavedInv, Waiting, NoPick, Weighed
<1> QED  BY <1>1, <1>2, <1>3 DEF ReconfInv

\* Steps that save nothing keep what is known of what was saved.
LEMMA SavedStays ==
    ASSUME ReconfInv, UNCHANGED <<conf, files, pick>>, run'.left = run.left,
           run.pc # "save", run'.pc \notin {"idle", "targets", "save"}
    PROVE  SavedInv'
BY DEF ReconfInv, SavedInv, Weighed, Shows, Odd, Places

\* And those that only move on keep the types.
LEMMA TypedStays ==
    ASSUME ReconfInv, RunIs(run'), run'.left = run.left, UNCHANGED <<onPath, conf, files, env, pick>>
    PROVE  ReconfTyped'
BY DEF ReconfInv, ReconfTyped

\* What it is resolved from is what resolves.
LEMMA ResolvedStays == UNCHANGED <<onPath, conf, env>> => Resolved' = Resolved
BY DEF Resolved, Chain, Usable

\* The first rung decides after a step as well as before it.
LEMMA RungDecides ==
    ASSUME env'.sf \in onPath'
    PROVE  Resolved' = env'.sf
<1> DEFINE rungs == {i \in DOMAIN Chain' : Chain'[i] \in onPath'}
<1>1. Detected \in Seq(Editors) /\ Len(Detected) \in Nat
  BY DetectedTyped
<1>2. DOMAIN Chain' = 1 .. (4 + Len(Detected)) /\ Chain'[1] = env'.sf
  BY <1>1 DEF Chain
<1>3. 1 \in rungs /\ rungs \in SUBSET Nat /\ \A j \in rungs : 1 <= j
  BY <1>1, <1>2
<1>4. FirstOf(rungs) = 1
  BY <1>3, FirstIs
<1> QED  BY <1>2, <1>3, <1>4 DEF Resolved, Usable

\* Each step keeps the invariant.
LEMMA LoginKeeps == ReconfInv /\ Login => ReconfInv'
<1> SUFFICES ASSUME ReconfInv, Login PROVE ReconfInv'
  OBVIOUS
<1>0. ReconfTyped /\ StageInv /\ SavedInv /\ run' = Waiting /\ UNCHANGED <<onPath, conf, files, sf, pick>>
  BY DEF ReconfInv, Login
<1>1. run'.pc = "idle" /\ run'.left = {} /\ RunIs(run') /\ run.left = {}
  BY <1>0 DEF Waiting, RunIs, SavedInv, Login
<1>2. /\ env'.sf = sf' /\ env'.editor = FromLogin("EDITOR")'
      /\ env' = [sf |-> env'.sf, editor |-> env'.editor, visual |-> env'.visual]
  <2>1. FromLogin("EDITOR")' = FromLogin("EDITOR") /\ FromLogin("VISUAL")' = FromLogin("VISUAL")
    BY <1>0 DEF FromLogin, FromPam
  <2> QED  BY <1>0, <2>1 DEF Login
<1>3. ReconfTyped'
  BY <1>0, <1>1, <1>2 DEF ReconfTyped
<1>4. StageInv'
  BY <1>1 DEF StageInv
<1>5. SavedInv'
  BY <1>0, <1>1, <1>2 DEF SavedInv, Weighed, Shows, Odd, Places
<1> QED  BY <1>3, <1>4, <1>5 DEF ReconfInv

LEMMA StartKeeps == ReconfInv /\ StartReconf => ReconfInv'
<1> SUFFICES ASSUME ReconfInv, StartReconf PROVE ReconfInv'
  OBVIOUS
<1>0. ReconfTyped /\ SavedInv /\ UNCHANGED <<onPath, conf, files, sf, env>>
  BY DEF ReconfInv, StartReconf
<1>1. /\ pick' = NoPick /\ pick'.editor = NoEditor /\ pick'.saved = {}
      /\ run'.pc = "steps" /\ run'.left = {} /\ RunIs(run')
  BY DEF StartReconf, Waiting, NoPick, RunIs
<1>2. ReconfTyped'
  BY <1>0, <1>1 DEF ReconfTyped, NoPick, Commands, Targets
<1>3. StageInv'
  BY <1>1 DEF StageInv
<1>4. SavedInv'
  BY <1>1 DEF SavedInv, Weighed
<1> QED  BY <1>2, <1>3, <1>4 DEF ReconfInv

LEMMA CancelKeeps == ReconfInv /\ Cancel => ReconfInv'
<1> SUFFICES ASSUME ReconfInv, Cancel PROVE ReconfInv'
  OBVIOUS
<1>0. ReconfTyped /\ StageInv /\ run.pc = "pick" /\ UNCHANGED <<onPath, conf, files, sf, env, broken, pick>>
  BY DEF ReconfInv, Cancel
<1>1. run'.pc \in {"steps", "aborted"} /\ run'.left = run.left /\ RunIs(run')
  BY <1>0 DEF Cancel, ReconfTyped, RunIs
<1>2. StageInv'
  BY <1>0, <1>1 DEF StageInv, Usable
<1> QED  BY <1>0, <1>1, <1>2, SavedStays, TypedStays DEF ReconfInv

LEMMA InstallKeeps == ReconfInv /\ InstallEditor => ReconfInv'
<1> SUFFICES ASSUME ReconfInv, InstallEditor PROVE ReconfInv'
  OBVIOUS
<1>0. /\ ReconfTyped /\ StageInv /\ SavedInv /\ run.pc = "pick" /\ onPath \subseteq onPath' /\ onPath' \subseteq Editors
      /\ UNCHANGED <<conf, files, sf, env, broken, run, pick>>
  BY DEF ReconfInv, ReconfTyped, InstallEditor
<1>1. ReconfTyped'
  BY <1>0 DEF ReconfTyped
<1>2. StageInv'
  BY <1>0 DEF StageInv, Usable
<1>3. SavedInv'
  BY <1>0 DEF SavedInv, Weighed, Shows, Odd, Places
<1> QED  BY <1>1, <1>2, <1>3 DEF ReconfInv

LEMMA AcceptKeeps == ReconfInv /\ Accept => ReconfInv'
<1> SUFFICES ASSUME ReconfInv, Accept PROVE ReconfInv'
  OBVIOUS
<1>0. /\ ReconfTyped /\ StageInv /\ SavedInv /\ run.pc = "pick" /\ run.left = {}
      /\ UNCHANGED <<onPath, conf, files, sf, broken>>
  BY DEF ReconfInv, SavedInv, Accept
<1>1. PICK e \in onPath : /\ env' = [env EXCEPT !.sf = e] /\ pick' = [NoPick EXCEPT !.editor = e]
                          /\ run' = [run EXCEPT !.pc = "targets", !.editor = e]
  BY DEF Accept, AdoptEditor
<1>2. e \in Editors /\ e # NoEditor
  BY <1>0, <1>1, NoEditorApart DEF ReconfTyped
<1>3. /\ pick' = [editor |-> e, declined |-> FALSE, saved |-> {}, warned |-> FALSE]
      /\ run'.pc = "targets" /\ run'.left = {} /\ run'.for = run.for /\ RunIs(run')
      /\ env' = [sf |-> e, editor |-> env.editor, visual |-> env.visual]
  BY <1>0, <1>1 DEF NoPick, ReconfTyped, RunIs
<1>4. ReconfTyped'
  BY <1>0, <1>2, <1>3 DEF ReconfTyped, Commands, Targets
<1>5. StageInv'
  BY <1>0, <1>1, <1>2, <1>3 DEF StageInv, Usable
<1>6. SavedInv'
  BY <1>3 DEF SavedInv, Weighed
<1> QED  BY <1>4, <1>5, <1>6 DEF ReconfInv

LEMMA TargetsKeep == ReconfInv /\ SelectTargets => ReconfInv'
<1> SUFFICES ASSUME ReconfInv, SelectTargets PROVE ReconfInv'
  OBVIOUS
<1>0. /\ ReconfTyped /\ StageInv /\ SavedInv /\ run.pc = "targets" /\ pick.saved = {} /\ pick.editor # NoEditor
      /\ UNCHANGED <<onPath, conf, files, sf, env, broken>>
  BY DEF ReconfInv, StageInv, SavedInv, SelectTargets
<1>1. PICK selected \in SUBSET Targets :
          /\ pick' = [pick EXCEPT !.declined = "sysforge" \in selected, !.warned = Shadowed(pick.editor, selected)]
          /\ run' = [run EXCEPT !.pc = IF selected = {} THEN After ELSE "save", !.left = selected]
  BY DEF SelectTargets
<1>2. /\ pick'.editor = pick.editor /\ pick'.saved = {} /\ pick'.declined = ("sysforge" \in selected)
      /\ pick'.warned = Shadowed(pick.editor, selected)
      /\ pick' \in [editor : Commands, declined : BOOLEAN, saved : SUBSET Targets, warned : BOOLEAN]
  <2> DEFINE warns == Shadowed(pick.editor, selected)
             asks == "sysforge" \in selected
  <2>1. warns \in BOOLEAN /\ asks \in BOOLEAN
    BY DEF Shadowed
  <2>2. pick' = [pick EXCEPT !.declined = asks, !.warned = warns]
    BY <1>1
  <2> HIDE DEF warns, asks
  <2>3. /\ pick' \in [editor : Commands, declined : BOOLEAN, saved : SUBSET Targets, warned : BOOLEAN]
        /\ pick'.editor = pick.editor /\ pick'.saved = {} /\ pick'.declined = asks /\ pick'.warned = warns
    BY <1>0, <2>1, <2>2 DEF ReconfTyped
  <2> QED  BY <2>3 DEF warns, asks
<1>3. /\ run'.pc = (IF selected = {} THEN After ELSE "save") /\ run'.left = selected /\ run'.for = run.for
      /\ run'.asked = run.asked /\ run'.standalone = run.standalone /\ RunIs(run')
  BY <1>0, <1>1 DEF ReconfTyped, RunIs
<1>4. ReconfTyped'
  BY <1>0, <1>2, <1>3 DEF ReconfTyped
<1>5. StageInv'
  <2>1. env'.sf = pick.editor /\ env'.sf \in onPath'
    BY <1>0 DEF StageInv, Usable
  <2>2. Resolved' \in onPath'
    BY <2>1, RungDecides
  <2> QED  BY <1>0, <1>2, <1>3, <2>1, <2>2 DEF StageInv, After, Usable
<1>6. SavedInv'
  <2>1. Weighed'
    BY <1>0, <1>2, <1>3 DEF Weighed, Shadowed
  <2> QED  BY <1>0, <1>2, <1>3, <2>1 DEF SavedInv, After
<1> QED  BY <1>4, <1>5, <1>6 DEF ReconfInv

LEMMA SaveKeeps == ReconfInv /\ SaveOne => ReconfInv'
<1> SUFFICES ASSUME ReconfInv, SaveOne PROVE ReconfInv'
  OBVIOUS
<1>0. /\ ReconfTyped /\ StageInv /\ SavedInv /\ run.pc = "save" /\ pick.editor # NoEditor /\ pick.editor \in Editors
      /\ UNCHANGED <<onPath, sf, env, broken>>
  BY DEF ReconfInv, ReconfTyped, StageInv, SaveOne, Commands
<1>1. PICK to \in run.left :
          /\ run' = [run EXCEPT !.left = @ \ {to}, !.pc = IF run.left = {to} THEN After ELSE "save"]
          /\ \/ UNCHANGED <<conf, files, pick>>
             \/ /\ IF to = "sysforge" THEN SaveConf(pick.editor) /\ UNCHANGED files
                   ELSE files' = [files EXCEPT ![to] = Plan(to, pick.editor)] /\ UNCHANGED conf
                /\ pick' = [pick EXCEPT !.saved = @ \cup {to}, !.declined = @ /\ to # "sysforge"]
  BY DEF SaveOne
<1>2. /\ run'.pc = (IF run.left = {to} THEN After ELSE "save") /\ run'.left = run.left \ {to} /\ run'.for = run.for
      /\ run'.asked = run.asked /\ run'.standalone = run.standalone /\ RunIs(run') /\ to \in Targets
      /\ run'.pc # "idle" /\ run'.pc # "targets" /\ (run'.pc # "save" => run'.left = {})
      /\ run'.left \in SUBSET Targets
  BY <1>0, <1>1 DEF ReconfTyped, RunIs, After
<1>3. CASE UNCHANGED <<conf, files, pick>>
  <2>1. ReconfTyped'
    BY <1>0, <1>2, <1>3 DEF ReconfTyped
  <2>2. StageInv'
    <3>1. env'.sf = pick.editor /\ env'.sf \in onPath'
      BY <1>0 DEF StageInv, Usable
    <3>2. Resolved' \in onPath'
      BY <3>1, RungDecides
    <3> QED  BY <1>0, <1>2, <1>3, <3>1, <3>2 DEF StageInv, After, Usable
  <2>3. Weighed'
    BY <1>0, <1>1, <1>2, <1>3 DEF SavedInv, Weighed
  <2>4. \A file \in EnvFiles \cap pick'.saved : Shows(file, files'[file], pick'.editor)
    BY <1>0, <1>3 DEF SavedInv
  <2>5. SavedInv'
    BY <1>0, <1>2, <1>3, <2>3, <2>4 DEF SavedInv, Shows, Odd, Places
  <2> QED  BY <2>1, <2>2, <2>5 DEF ReconfInv
<1>4. CASE /\ IF to = "sysforge" THEN SaveConf(pick.editor) /\ UNCHANGED files
              ELSE files' = [files EXCEPT ![to] = Plan(to, pick.editor)] /\ UNCHANGED conf
           /\ pick' = [pick EXCEPT !.saved = @ \cup {to}, !.declined = @ /\ to # "sysforge"]
  <2>1. /\ pick'.editor = pick.editor /\ pick'.saved = pick.saved \cup {to} /\ pick'.warned = pick.warned
        /\ pick'.declined = (pick.declined /\ to # "sysforge")
        /\ pick' \in [editor : Commands, declined : BOOLEAN, saved : SUBSET Targets, warned : BOOLEAN]
    BY <1>0, <1>2, <1>4 DEF ReconfTyped
  <2>2. /\ conf' \in [editor : Commands, tables : BOOLEAN, parses : BOOLEAN]
        /\ to = "sysforge" => conf'.editor = pick.editor
        /\ to # "sysforge" => conf' = conf
    <3>1. CASE to # "sysforge"
      BY <1>0, <1>4, <3>1 DEF ReconfTyped
    <3>2. CASE to = "sysforge" /\ ~conf.parses
      <4>1. SaveConf(pick.editor)
        BY <1>4, <3>2
      <4>2. conf' = [editor |-> pick.editor, tables |-> FALSE, parses |-> TRUE]
        BY <3>2, <4>1 DEF SaveConf
      <4> QED  BY <1>0, <3>2, <4>2 DEF Commands
    <3>3. CASE to = "sysforge" /\ conf.parses
      <4> DEFINE reads == ~conf.tables
      <4>1. SaveConf(pick.editor) /\ reads \in BOOLEAN
        BY <1>4, <3>3
      <4>2. conf' = [conf EXCEPT !.editor = pick.editor, !.parses = reads]
        BY <3>3, <4>1 DEF SaveConf
      <4> HIDE DEF reads
      <4> QED  BY <1>0, <3>3, <4>1, <4>2 DEF ReconfTyped, Commands
    <3> QED  BY <1>0, <3>1, <3>2, <3>3 DEF ReconfTyped
  <2>3. /\ files' \in [system : Seq(Lines), user : Seq(Lines)]
        /\ to # "sysforge" => Shows(to, files'[to], pick.editor)
        /\ \A file \in EnvFiles : file # to => files'[file] = files[file]
    <3>1. CASE to = "sysforge"
      BY <1>0, <1>4, <3>1 DEF ReconfTyped
    <3>2. CASE to # "sysforge"
      <4>1. to \in EnvFiles
        BY <1>2, <3>2 DEF EnvFiles, Targets
      <4>2. Plan(to, pick.editor) \in Seq(Lines) /\ Shows(to, Plan(to, pick.editor), pick.editor)
        BY <1>0, <4>1, PlanIs
      <4>3. files' = [files EXCEPT ![to] = Plan(to, pick.editor)]
        BY <1>4, <3>2
      <4>4. files'[to] = Plan(to, pick.editor)
        BY <1>0, <4>1, <4>3 DEF ReconfTyped, EnvFiles
      <4> QED  BY <1>0, <3>2, <4>1, <4>2, <4>3, <4>4 DEF ReconfTyped, EnvFiles
    <3> QED  BY <3>1, <3>2
  <2>4. ReconfTyped'
    BY <1>0, <1>2, <2>1, <2>2, <2>3 DEF ReconfTyped
  <2>5. StageInv'
    <3>1. env'.sf = pick.editor /\ env'.sf \in onPath'
      BY <1>0 DEF StageInv, Usable
    <3>2. Resolved' \in onPath'
      BY <3>1, RungDecides
    <3> QED  BY <1>0, <1>2, <2>1, <3>1, <3>2 DEF StageInv, After, Usable
  <2>6. SavedInv'
    <3>1. \A file \in EnvFiles \cap pick'.saved : Shows(file, files'[file], pick'.editor)
      BY <1>0, <2>1, <2>3 DEF SavedInv, EnvFiles
    <3>2. Weighed'
      <4>1. CASE to = "sysforge"
        BY <2>1, <4>1 DEF Weighed
      <4>2. CASE to # "sysforge"
        BY <1>0, <1>1, <1>2, <2>1, <2>2, <4>2 DEF SavedInv, Weighed
      <4> QED  BY <4>1, <4>2
    <3> QED  BY <1>0, <1>2, <2>1, <2>2, <3>1, <3>2 DEF SavedInv
  <2> QED  BY <2>4, <2>5, <2>6 DEF ReconfInv
<1> QED  BY <1>1, <1>3, <1>4

LEMMA StepsKeep == ReconfInv /\ (GateStep \/ EditorStep \/ OtherStep \/ ConfigStep) => ReconfInv'
<1> SUFFICES ASSUME ReconfInv, GateStep \/ EditorStep \/ OtherStep \/ ConfigStep PROVE ReconfInv'
  OBVIOUS
<1>0. ReconfTyped /\ StageInv /\ run.pc = "steps" /\ UNCHANGED <<onPath, conf, files, sf, env, pick>>
  BY DEF ReconfInv, GateStep, EditorStep, OtherStep, ConfigStep
<1>1. /\ run'.pc \in {"steps", "pick", "aborted"} /\ run'.left = run.left /\ RunIs(run')
      /\ run'.pc = "pick" => run'.for # "handover"
  BY <1>0 DEF GateStep, EditorStep, OtherStep, ConfigStep, Picks, ReconfTyped, RunIs
<1>2. StageInv'
  BY <1>0, <1>1 DEF StageInv, Usable
<1> QED  BY <1>0, <1>1, <1>2, SavedStays, TypedStays DEF ReconfInv

LEMMA HandoverKeeps == ReconfInv /\ Handover => ReconfInv'
<1> SUFFICES ASSUME ReconfInv, Handover PROVE ReconfInv'
  OBVIOUS
<1>0. ReconfTyped /\ StageInv /\ run.pc = "steps" /\ UNCHANGED <<onPath, conf, files, sf, env, broken, pick>>
  BY DEF ReconfInv, Handover
<1>1. /\ run'.pc \in {"confirm", "pick", "aborted"} /\ run'.left = run.left /\ RunIs(run')
      /\ run'.asked = run.asked /\ run'.standalone = run.standalone
      /\ run'.pc \in {"confirm", "pick"} => broken = {}
      /\ run'.pc = "confirm" => Usable(Resolved) \/ run.standalone \/ ~run.asked
  BY <1>0 DEF Handover, Validated, Picks, ReconfTyped, RunIs
<1>2. StageInv'
  BY <1>0, <1>1, ResolvedStays DEF StageInv, Usable
<1> QED  BY <1>0, <1>1, <1>2, SavedStays, TypedStays DEF ReconfInv

LEMMA ConfirmKeeps == ReconfInv /\ Confirm => ReconfInv'
<1> SUFFICES ASSUME ReconfInv, Confirm PROVE ReconfInv'
  OBVIOUS
<1>0. ReconfTyped /\ StageInv /\ run.pc = "confirm" /\ UNCHANGED <<onPath, conf, files, sf, env, broken, pick>>
  BY DEF ReconfInv, Confirm
<1>1. /\ run'.pc \in {"done", "aborted"} /\ run'.left = run.left /\ RunIs(run')
      /\ run'.asked = run.asked /\ run'.standalone = run.standalone
  BY <1>0 DEF Confirm, ReconfTyped, RunIs
<1>2. StageInv'
  BY <1>0, <1>1, ResolvedStays DEF StageInv, Usable
<1> QED  BY <1>0, <1>1, <1>2, SavedStays, TypedStays DEF ReconfInv

LEMMA ReconfStep == ReconfInv /\ [NextReconf]_reconfVars => ReconfInv'
<1> SUFFICES ASSUME ReconfInv, [NextReconf]_reconfVars PROVE ReconfInv'
  OBVIOUS
<1>1. CASE UNCHANGED reconfVars
  <2>1. UNCHANGED <<onPath, conf, files, sf, env, broken, run, pick>>
    BY <1>1 DEF reconfVars
  <2>2. FromLogin("EDITOR")' = FromLogin("EDITOR")
    BY <2>1 DEF FromLogin, FromPam
  <2>3. ReconfTyped' /\ StageInv'
    BY <2>1, ResolvedStays DEF ReconfInv, ReconfTyped, StageInv, Usable
  <2>4. SavedInv'
    BY <2>1, <2>2 DEF ReconfInv, SavedInv, Weighed, Shows, Odd, Places
  <2> QED  BY <2>3, <2>4 DEF ReconfInv
<1> QED
  BY <1>1, LoginKeeps, StartKeeps, CancelKeeps, InstallKeeps, AcceptKeeps, TargetsKeep, SaveKeeps,
     StepsKeep, HandoverKeeps, ConfirmKeeps DEF NextReconf

(* HandoverSound and PickSettles (_gate_editor_for_pipeline, _adopt_editor,  *)
(* plan_write): for any editors, any contents of the files and any answers.  *)
THEOREM CheckpointSound == CheckpointSpec => []EditorSound
<1>1. CheckpointSpec => []ReconfInv
  BY ReconfInit, ReconfStep, PTL DEF CheckpointSpec
<1> QED  BY <1>1, ReconfSound, PTL
=============================================================================

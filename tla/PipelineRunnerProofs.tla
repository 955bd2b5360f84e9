----------------------- MODULE PipelineRunnerProofs -----------------------
(***************************************************************************)
(* What the pipeline's checkpoint file guarantees for any number of stages *)
(* and of processes that write it without any lock; and of the profiles    *)
(* the pipeline's builds take their flags from: for any profile, system    *)
(* and package the flags of a build are one toolchain's, and an edit that  *)
(* changes them changes what was recorded of them (Profiles).              *)
(***************************************************************************)
EXTENDS PipelineRunner, Profiles, SandboxSeeds, FiniteSetTheorems, WellFoundedInduction, TLAPS

CONSTANT Tokens     \* whatever the value of a flag key may hold

NatOrder == {ss \in Nat \X Nat : ss[1] < ss[2]}

\* Every nonempty set of positions has a first one.
LEMMA FirstOf ==
    ASSUME NEW T \in SUBSET Nat, T # {}
    PROVE  \E i \in T : \A j \in T : i <= j
<1>1. IsWellFoundedOn(NatOrder, Nat)
  BY NatLessThanWellFounded, Zenon DEF OpToRel, NatOrder
<1>2. PICK i \in T : \A j \in T : ~(<<j, i>> \in NatOrder)
  BY <1>1, WFMin
<1>3. ASSUME NEW j \in T PROVE i <= j
  <2>1. ~(<<j, i>> \in NatOrder)
    BY <1>2
  <2> QED BY <2>1 DEF NatOrder
<1> QED BY <1>3

\* The index of --resume is a stage that is not handled and is preceded by
\* handled ones only, or one past the last stage.
LEMMA ResumeIndexMeaning ==
    ASSUME NEW m
    PROVE  /\ ResumeIndex(m) \in 1 .. (N + 1)
           /\ ResumeIndex(m) = N + 1 \/ ~Handled(m, ResumeIndex(m))
           /\ \A s \in Stage : s < ResumeIndex(m) => Handled(m, s)
<1> DEFINE T == {i \in 1 .. (N + 1) : i = N + 1 \/ ~Handled(m, i)}
<1>1. T \in SUBSET Nat /\ N + 1 \in T
  BY NIsPositive
<1>2. PICK i \in T : \A j \in T : i <= j
  BY <1>1, FirstOf
<1>3. \A s \in Stage : s < i => Handled(m, s)
  BY <1>2, NIsPositive DEF Stage
<1> HIDE DEF T
<1>4. i \in 1 .. (N + 1) /\ (i = N + 1 \/ ~Handled(m, i))
  BY <1>2 DEF T
<1> QED BY <1>3, <1>4 DEF ResumeIndex

-----------------------------------------------------------------------------
(***************************************************************************)
(* What a checkpoint claims, and what each operation adds to the claim.    *)
(***************************************************************************)
Claims(m) == {s \in Stage : m.status[s] = "done" \/ s \in m.first}

\* What each transition of PipelineState adds to the claims: mark_done and
\* note_completed their own stage, the others and serialization nothing.
LEMMA ClaimsOfMarks ==
    ASSUME NEW m \in Checkpoint, NEW s \in Stage
    PROVE  /\ Claims(Empty) = {}
           /\ Claims(MarkRunning(m, s)) \subseteq Claims(m)
           /\ Claims(MarkFailed(m, s)) \subseteq Claims(m)
           /\ Claims(MarkSkippedTo(m, s)) \subseteq Claims(m)
           /\ Claims(SetResult(m, s)) = Claims(m)
           /\ Claims(MarkDone(m, s)) \subseteq Claims(m) \cup {s}
           /\ Claims(NoteCompleted(m, s)) \subseteq Claims(m) \cup {s}
           /\ Claims(Serialize(m)) = Claims(m)
<1>1. Claims(Empty) = {}
  BY DEF Claims, Empty
<1>2. Claims(MarkRunning(m, s)) \subseteq Claims(m)
  BY DEF Claims, MarkRunning, Checkpoint
<1>3. Claims(MarkFailed(m, s)) \subseteq Claims(m)
  BY DEF Claims, MarkFailed, Checkpoint
<1>4. Claims(MarkSkippedTo(m, s)) \subseteq Claims(m)
  BY DEF Claims, MarkSkippedTo, Checkpoint
<1>5. Claims(SetResult(m, s)) = Claims(m)
  BY DEF Claims, SetResult, Checkpoint
<1>6. Claims(MarkDone(m, s)) \subseteq Claims(m) \cup {s}
  BY DEF Claims, MarkDone, Checkpoint
<1>7. Claims(NoteCompleted(m, s)) \subseteq Claims(m) \cup {s}
  BY DEF Claims, NoteCompleted, Checkpoint
<1>8. Claims(Serialize(m)) = Claims(m)
  BY DEF Claims, Serialize, Checkpoint
<1> QED BY <1>1, <1>2, <1>3, <1>4, <1>5, <1>6, <1>7, <1>8

\* The file before the first run is a checkpoint.
LEMMA EmptyTyped == Empty \in Checkpoint
BY DEF Empty, Checkpoint, Status

\* The operations build checkpoints out of checkpoints.
LEMMA MarksTyped ==
    ASSUME NEW m \in Checkpoint, NEW s \in Stage
    PROVE  /\ MarkRunning(m, s) \in Checkpoint
           /\ MarkFailed(m, s) \in Checkpoint
           /\ MarkSkippedTo(m, s) \in Checkpoint
           /\ SetResult(m, s) \in Checkpoint
           /\ MarkDone(m, s) \in Checkpoint
           /\ NoteCompleted(m, s) \in Checkpoint
           /\ Serialize(m) \in Checkpoint
<1> USE DEF Checkpoint, Status
<1>2. MarkRunning(m, s) \in Checkpoint /\ MarkFailed(m, s) \in Checkpoint
  BY DEF MarkRunning, MarkFailed
<1>4. MarkSkippedTo(m, s) \in Checkpoint
  BY DEF MarkSkippedTo
<1>5. SetResult(m, s) \in Checkpoint /\ NoteCompleted(m, s) \in Checkpoint
  BY DEF SetResult, NoteCompleted
<1>6. MarkDone(m, s) \in Checkpoint
  BY DEF MarkDone
<1>8. Serialize(m) \in Checkpoint
  BY DEF Serialize
<1> QED BY <1>2, <1>4, <1>5, <1>6, <1>8

-----------------------------------------------------------------------------
(***************************************************************************)
(* Type correctness.  The index is a stage whenever a stage is running.    *)
(***************************************************************************)
AtStage(p) == pc[p] \in {"running", "returned"} \/ Alone(p) => idx[p] \in Stage

Inv == TypeOK /\ \A p \in Proc : AtStage(p)

\* A save leaves a checkpoint in the file.
LEMMA SaveTyped ==
    ASSUME TypeOK, NEW p \in Proc, NEW m \in Checkpoint,
           SaveLenient(p, m) \/ Save(p, m) \/ UNCHANGED disk
    PROVE  disk' \in Checkpoint
<1>1. Stage # {} /\ 1 \in Stage
  BY NIsPositive DEF Stage
<1>2. Serialize(m) \in Checkpoint
  BY <1>1, MarksTyped
<1> QED BY <1>2 DEF TypeOK, SaveLenient, Save

\* The initial state is typed.
LEMMA InvInit == Init => Inv
<1> SUFFICES ASSUME Init PROVE Inv
  OBVIOUS
<1>1. 1 \in Stage /\ 1 \in 1 .. (N + 1)
  BY NIsPositive DEF Stage
<1>2. Empty \in Checkpoint
  BY EmptyTyped
<1>3. NoInvocation \in InvocationType /\ NoInvocation.mode = "fresh"
  BY <1>1 DEF NoInvocation, InvocationType
<1> QED BY <1>1, <1>2, <1>3 DEF Init, Inv, TypeOK, AtStage, Alone

\* Leaving resets the process to what Init made it.
LEMMA ExitKeeps ==
    ASSUME Inv, NEW p \in Proc, Exit(p), disk' \in Checkpoint,
           onISO' \in BOOLEAN, completed' \in SUBSET Stage
    PROVE  Inv'
<1>1. 1 \in Stage /\ 1 \in 1 .. (N + 1)
  BY NIsPositive DEF Stage
<1>2. Empty \in Checkpoint
  BY EmptyTyped
<1>3. NoInvocation \in InvocationType /\ NoInvocation.mode = "fresh"
  BY <1>1 DEF NoInvocation, InvocationType
<1>4. TypeOK'
  BY <1>1, <1>2, <1>3 DEF Inv, TypeOK, Exit, Go
<1>5. \A q \in Proc : AtStage(q)'
  BY <1>3 DEF Inv, TypeOK, AtStage, Alone, Exit, Go
<1> QED BY <1>4, <1>5 DEF Inv

\* Every step keeps the types, and a stage running only at a stage's position.
LEMMA InvStep == Inv /\ [Next]_vars => Inv'
<1> SUFFICES ASSUME Inv, [Next]_vars PROVE Inv'
  OBVIOUS
<1>n. Stage = 1 .. N /\ N \in Nat /\ N > 0 /\ Stage \subseteq 1 .. (N + 1)
      /\ \A s \in Stage : s + 1 \in 1 .. (N + 1)
  BY NIsPositive DEF Stage
<1>0. CASE UNCHANGED vars
  BY <1>0 DEF Inv, TypeOK, AtStage, Alone, vars
<1>1. ASSUME NEW p \in Proc, NEW o \in Invocations, Launch(p, o) PROVE Inv'
  <2>1. o \in InvocationType /\ o.stage \in Stage
    BY InvocationsTyped DEF InvocationType
  <2>2. StartIndex(o) \in 1 .. (N + 1)
    BY <2>1, <1>n, ResumeIndexMeaning DEF StartIndex, InvocationType
  <2>3. o.mode = "alone" => StartIndex(o) \in Stage
    BY <2>1 DEF StartIndex
  <2>4. disk \in Checkpoint /\ MarkSkippedTo(disk, o.stage) \in Checkpoint
    BY <2>1, MarksTyped DEF Inv, TypeOK
  <2>5. TypeOK'
    BY <1>1, <2>1, <2>2, <2>4 DEF Inv, TypeOK, Launch, Set, Go
  <2>6. \A q \in Proc : AtStage(q)'
    BY <1>1, <2>3 DEF Inv, TypeOK, AtStage, Alone, Launch, Go
  <2> QED BY <2>5, <2>6 DEF Inv
<1>2. ASSUME NEW p \in Proc, Begin(p) PROVE Inv'
  <2>1. disk' \in Checkpoint
    BY <1>2, SaveTyped DEF Inv, TypeOK, Begin
  <2> QED BY <1>2, <2>1 DEF Inv, TypeOK, AtStage, Alone, Begin, Go
<1>3. ASSUME NEW p \in Proc, PassStage(p) PROVE Inv'
  BY <1>3, <1>n DEF Inv, TypeOK, AtStage, Alone, PassStage
<1>4. ASSUME NEW p \in Proc, RefuseRoot(p) \/ EndPipeline(p) \/ Crash(p)
      PROVE  Inv'
  <2>1. Exit(p) /\ disk' = disk /\ onISO' = onISO /\ completed' = completed
    BY <1>4 DEF RefuseRoot, EndPipeline, Crash
  <2> QED BY <2>1, ExitKeeps DEF Inv, TypeOK
<1>5. ASSUME NEW p \in Proc, StartStage(p) \/ StartAlone(p) PROVE Inv'
  <2>1. idx[p] \in Stage
    BY <1>5 DEF StartStage, StartAlone, Inv, AtStage
  <2>2. mem[p] \in Checkpoint /\ MarkRunning(mem[p], idx[p]) \in Checkpoint
    BY <2>1, MarksTyped DEF Inv, TypeOK
  <2>3. disk' \in Checkpoint
    BY <1>5, <2>2, SaveTyped DEF Inv, StartStage, StartAlone
  <2>4. TypeOK'
    BY <1>5, <2>1, <2>2, <2>3 DEF Inv, TypeOK, StartStage, StartAlone, Set, Go
  <2>5. \A q \in Proc : AtStage(q)'
    BY <1>5, <2>1 DEF Inv, TypeOK, AtStage, Alone, StartStage, StartAlone, Go
  <2> QED BY <2>4, <2>5 DEF Inv
<1>6. ASSUME NEW p \in Proc, StageCheckpoints(p) PROVE Inv'
  <2>1. idx[p] \in Stage
    BY <1>6 DEF StageCheckpoints, Inv, AtStage
  <2>2. SetResult(mem[p], idx[p]) \in Checkpoint
    BY <2>1, MarksTyped DEF Inv, TypeOK
  <2>3. disk' \in Checkpoint
    BY <1>6, <2>2, SaveTyped DEF Inv, StageCheckpoints
  <2> QED BY <1>6, <2>2, <2>3 DEF Inv, TypeOK, AtStage, Alone,
                                 StageCheckpoints, Set
<1>7. ASSUME NEW p \in Proc, StageReturns(p) PROVE Inv'
  BY <1>7 DEF Inv, TypeOK, AtStage, Alone, StageReturns, Go
<1>8. ASSUME NEW p \in Proc, RecordDone(p) PROVE Inv'
  <2>1. idx[p] \in Stage
    BY <1>8 DEF RecordDone, Inv, AtStage
  <2>2. MarkDone(mem[p], idx[p]) \in Checkpoint
    BY <2>1, MarksTyped DEF Inv, TypeOK
  <2>3. disk' \in Checkpoint
    BY <1>8, <2>2, SaveTyped DEF Inv, RecordDone
  <2> QED BY <1>8, <1>n, <2>1, <2>2, <2>3
             DEF Inv, TypeOK, AtStage, Alone, RecordDone, Set, Go
<1>9. ASSUME NEW p \in Proc,
             RecordAloneDone(p) \/ StageRaises(p) \/ StageWantsReboot(p)
      PROVE  Inv'
  <2>1. idx[p] \in Stage
    BY <1>9 DEF RecordAloneDone, StageRaises, StageWantsReboot, Inv, AtStage
  <2>2. /\ mem[p] \in Checkpoint
        /\ MarkDone(mem[p], idx[p]) \in Checkpoint
        /\ NoteCompleted(mem[p], idx[p]) \in Checkpoint
        /\ MarkFailed(mem[p], idx[p]) \in Checkpoint
    BY <2>1, MarksTyped DEF Inv, TypeOK
  <2>3. disk' \in Checkpoint
    BY <1>9, <2>2, SaveTyped
       DEF Inv, RecordAloneDone, StageRaises, StageWantsReboot
  <2>4. Exit(p) /\ onISO' = onISO /\ completed' = completed
    BY <1>9 DEF RecordAloneDone, StageRaises, StageWantsReboot
  <2> QED BY <2>3, <2>4, ExitKeeps DEF Inv, TypeOK
<1>10. ASSUME Reboot PROVE Inv'
  BY <1>10 DEF Inv, TypeOK, AtStage, Alone, Reboot
<1> QED
  BY <1>0, <1>1, <1>2, <1>3, <1>4, <1>5, <1>6, <1>7, <1>8, <1>9, <1>10
     DEF Next, Advance

\* Type correctness of the runner, for any pipeline and any command lines.
THEOREM TypeCorrect == Spec => []TypeOK
<1>1. Inv => TypeOK
  BY DEF Inv
<1> QED BY <1>1, InvInit, InvStep, PTL DEF Spec

-----------------------------------------------------------------------------
(***************************************************************************)
(* No claim without work.  A process saves its whole copy over whatever    *)
(* another process saved in the meantime, so the copies must be earned as  *)
(* well as the file, and a stage must be earned from its return to its     *)
(* mark.                                                                   *)
(***************************************************************************)
CopiesEarned == \A p \in Proc : Claims(mem[p]) \subseteq completed

ReturnEarned(p) ==
    /\ pc[p] = "returned" /\ ~opt[p].dry => idx[p] \in completed
    /\ pc[p] \in {"running", "returned"} /\ ~Alone(p) => ~opt[p].dry

Earned ==
    /\ Inv
    /\ Claims(disk) \subseteq completed
    /\ CopiesEarned
    /\ \A p \in Proc : ReturnEarned(p)

\* A save of a copy that claims only completed stages claims no more.
LEMMA SaveEarned ==
    ASSUME Earned, NEW p \in Proc, NEW m \in Checkpoint,
           Claims(m) \subseteq completed,
           SaveLenient(p, m) \/ Save(p, m) \/ UNCHANGED disk
    PROVE  Claims(disk') \subseteq completed
<1>1. 1 \in Stage
  BY NIsPositive DEF Stage
<1>2. Claims(Serialize(m)) = Claims(m)
  BY <1>1, ClaimsOfMarks
<1> QED BY <1>2 DEF Earned, SaveLenient, Save

\* A process that leaves takes its claims with it.
LEMMA ExitEarned ==
    ASSUME Earned, Inv', NEW p \in Proc, Exit(p),
           Claims(disk') \subseteq completed, completed' = completed
    PROVE  Earned'
<1>1. Claims(Empty) = {}
  BY DEF Claims, Empty
<1>2. mem' = [mem EXCEPT ![p] = Empty] /\ mem \in [Proc -> Checkpoint]
  BY DEF Exit, Earned, Inv, TypeOK
<1>3. \A q \in Proc : Claims(mem'[q]) \subseteq completed
  BY <1>1, <1>2 DEF Earned, CopiesEarned
<1>4. Claims(disk)' \subseteq completed'
  BY DEF Claims
<1>5. CopiesEarned'
  BY <1>3 DEF CopiesEarned, Claims
<1>6. \A q \in Proc : ReturnEarned(q)'
  BY DEF Earned, Inv, TypeOK, ReturnEarned, Alone, Exit, Go, NoInvocation
<1> QED BY <1>4, <1>5, <1>6 DEF Earned

\* A step that replaces one copy by m and stays in the pipeline.
LEMMA CopyEarned ==
    ASSUME Earned, NEW p \in Proc, NEW m, Set(p, m), NEW C,
           completed \subseteq C, Claims(m) \subseteq C
    PROVE  \A q \in Proc : Claims(mem'[q]) \subseteq C
<1>1. mem' = [mem EXCEPT ![p] = m] /\ mem \in [Proc -> Checkpoint]
  BY DEF Set, Earned, Inv, TypeOK
<1> QED BY <1>1 DEF Earned, CopiesEarned

\* Initially nothing is claimed.
LEMMA EarnedInit == Init => Earned
<1> SUFFICES ASSUME Init PROVE Earned
  OBVIOUS
<1>1. Claims(Empty) = {}
  BY DEF Claims, Empty
<1> QED BY <1>1, InvInit DEF Init, Earned, CopiesEarned, ReturnEarned

\* Every step leaves only claims that were earned.
LEMMA EarnedStep == Earned /\ [Next]_vars => Earned'
<1> SUFFICES ASSUME Earned, [Next]_vars PROVE Earned'
  OBVIOUS
<1>i. Inv /\ Inv'
  BY InvStep DEF Earned
<1>t. /\ disk \in Checkpoint /\ mem \in [Proc -> Checkpoint]
      /\ pc \in [Proc -> {"idle", "begin", "loop", "running", "returned"}]
      /\ opt \in [Proc -> InvocationType] /\ idx \in [Proc -> 1 .. (N + 1)]
  BY <1>i DEF Inv, TypeOK
<1>p. ASSUME Claims(disk') \subseteq completed',
             \A p \in Proc : Claims(mem'[p]) \subseteq completed',
             \A p \in Proc : ReturnEarned(p)'
      PROVE  Earned'
  BY <1>i, <1>p DEF Earned, CopiesEarned, Claims
<1>0. CASE UNCHANGED vars
  BY <1>0, <1>p DEF Earned, CopiesEarned, ReturnEarned, Alone, vars
<1>1. ASSUME NEW p \in Proc, NEW o \in Invocations, Launch(p, o)
      PROVE  Earned'
  <2> DEFINE m == IF o.mode = "from" THEN MarkSkippedTo(disk, o.stage) ELSE disk
  <2>1. o.stage \in Stage
    BY InvocationsTyped DEF InvocationType
  <2>2. Claims(m) \subseteq completed
    BY <1>t, <2>1, ClaimsOfMarks DEF Earned
  <2>3. Set(p, m) /\ disk' = disk /\ completed' = completed
    BY <1>1 DEF Launch
  <2>4. \A q \in Proc : Claims(mem'[q]) \subseteq completed
    BY <2>2, <2>3, CopyEarned
  <2>5. \A q \in Proc : ReturnEarned(q)'
    BY <1>1, <1>t DEF Earned, ReturnEarned, Alone, Launch, Go
  <2> QED BY <1>p, <2>3, <2>4, <2>5 DEF Earned
<1>2. ASSUME NEW p \in Proc, Begin(p) PROVE Earned'
  <2>1. Claims(disk') \subseteq completed
    BY <1>2, <1>t, SaveEarned DEF Earned, CopiesEarned, Begin
  <2>2. \A q \in Proc : ReturnEarned(q)'
    BY <1>2, <1>t DEF Earned, ReturnEarned, Alone, Begin, Go
  <2> QED BY <1>2, <1>p, <2>1, <2>2 DEF Earned, CopiesEarned, Begin
<1>3. ASSUME NEW p \in Proc, PassStage(p) PROVE Earned'
  <2>1. \A q \in Proc : ReturnEarned(q)'
    BY <1>3, <1>t DEF Earned, ReturnEarned, Alone, PassStage
  <2> QED BY <1>3, <1>p, <2>1 DEF Earned, CopiesEarned, PassStage
<1>4. ASSUME NEW p \in Proc, RefuseRoot(p) \/ EndPipeline(p) \/ Crash(p)
      PROVE  Earned'
  <2>1. Exit(p) /\ disk' = disk /\ completed' = completed
    BY <1>4 DEF RefuseRoot, EndPipeline, Crash
  <2> QED BY <1>i, <2>1, ExitEarned DEF Earned
<1>5. ASSUME NEW p \in Proc, StartStage(p) \/ StartAlone(p) PROVE Earned'
  <2>1. idx[p] \in Stage
    BY <1>5, <1>i DEF StartStage, StartAlone, Inv, AtStage
  <2>2. /\ MarkRunning(mem[p], idx[p]) \in Checkpoint
        /\ Claims(MarkRunning(mem[p], idx[p])) \subseteq completed
    BY <1>t, <2>1, MarksTyped, ClaimsOfMarks DEF Earned, CopiesEarned
  <2>3. Claims(disk') \subseteq completed /\ completed' = completed
    BY <1>5, <2>2, SaveEarned DEF StartStage, StartAlone
  <2>4. Set(p, MarkRunning(mem[p], idx[p])) \/ mem' = mem
    BY <1>5 DEF StartStage, StartAlone
  <2>5. \A q \in Proc : Claims(mem'[q]) \subseteq completed
    BY <2>2, <2>4, CopyEarned DEF Earned, CopiesEarned
  <2>6. \A q \in Proc : ReturnEarned(q)'
    BY <1>5, <1>t DEF Earned, ReturnEarned, Alone, StartStage, StartAlone, Go
  <2> QED BY <1>p, <2>3, <2>5, <2>6
<1>6. ASSUME NEW p \in Proc, StageCheckpoints(p) PROVE Earned'
  <2>1. idx[p] \in Stage
    BY <1>6, <1>i DEF StageCheckpoints, Inv, AtStage
  <2>2. /\ SetResult(mem[p], idx[p]) \in Checkpoint
        /\ Claims(SetResult(mem[p], idx[p])) \subseteq completed
    BY <1>t, <2>1, MarksTyped, ClaimsOfMarks DEF Earned, CopiesEarned
  <2>3. Claims(disk') \subseteq completed /\ completed' = completed
    BY <1>6, <2>2, SaveEarned DEF StageCheckpoints
  <2>4. \A q \in Proc : Claims(mem'[q]) \subseteq completed
    BY <1>6, <2>2, CopyEarned DEF StageCheckpoints
  <2>5. \A q \in Proc : ReturnEarned(q)'
    BY <1>6, <1>t DEF Earned, ReturnEarned, Alone, StageCheckpoints
  <2> QED BY <1>p, <2>3, <2>4, <2>5
<1>7. ASSUME NEW p \in Proc, StageReturns(p) PROVE Earned'
  <2>1. completed \subseteq completed' /\ UNCHANGED <<disk, mem>>
    BY <1>7 DEF StageReturns
  <2>2. \A q \in Proc : ReturnEarned(q)'
    BY <1>7, <1>t DEF Earned, ReturnEarned, Alone, StageReturns, Go
  <2> QED BY <1>p, <2>1, <2>2 DEF Earned, CopiesEarned
<1>8. ASSUME NEW p \in Proc, RecordDone(p) PROVE Earned'
  <2>1. idx[p] \in Stage /\ idx[p] \in completed
    BY <1>8, <1>i DEF RecordDone, Earned, ReturnEarned, Inv, AtStage
  <2>2. /\ MarkDone(mem[p], idx[p]) \in Checkpoint
        /\ Claims(MarkDone(mem[p], idx[p])) \subseteq completed
    BY <1>t, <2>1, MarksTyped, ClaimsOfMarks DEF Earned, CopiesEarned
  <2>3. Claims(disk') \subseteq completed /\ completed' = completed
    BY <1>8, <2>2, SaveEarned DEF RecordDone
  <2>4. \A q \in Proc : Claims(mem'[q]) \subseteq completed
    BY <1>8, <2>2, CopyEarned DEF RecordDone
  <2>5. \A q \in Proc : ReturnEarned(q)'
    BY <1>8, <1>t DEF Earned, ReturnEarned, Alone, RecordDone, Go
  <2> QED BY <1>p, <2>3, <2>4, <2>5
<1>9. ASSUME NEW p \in Proc, RecordAloneDone(p) PROVE Earned'
  <2>1. idx[p] \in Stage /\ (~opt[p].dry => idx[p] \in completed)
    BY <1>9, <1>i DEF RecordAloneDone, Earned, ReturnEarned, Inv, AtStage
  <2>2. /\ MarkDone(mem[p], idx[p]) \in Checkpoint
        /\ NoteCompleted(mem[p], idx[p]) \in Checkpoint
        /\ ~opt[p].dry =>
              /\ Claims(MarkDone(mem[p], idx[p])) \subseteq completed
              /\ Claims(NoteCompleted(mem[p], idx[p])) \subseteq completed
    BY <1>t, <2>1, MarksTyped, ClaimsOfMarks DEF Earned, CopiesEarned
  <2>3. Claims(disk') \subseteq completed
    BY <1>9, <2>2, SaveEarned DEF RecordAloneDone, TracksStatus, Earned
  <2> QED BY <1>9, <1>i, <2>3, ExitEarned DEF RecordAloneDone
<1>10. ASSUME NEW p \in Proc, StageRaises(p) \/ StageWantsReboot(p)
       PROVE  Earned'
  <2>1. idx[p] \in Stage
    BY <1>10, <1>i DEF StageRaises, StageWantsReboot, Inv, AtStage
  <2>2. /\ MarkFailed(mem[p], idx[p]) \in Checkpoint /\ mem[p] \in Checkpoint
        /\ Claims(MarkFailed(mem[p], idx[p])) \subseteq completed
        /\ Claims(mem[p]) \subseteq completed
    BY <1>t, <2>1, MarksTyped, ClaimsOfMarks DEF Earned, CopiesEarned
  <2>3. Claims(disk') \subseteq completed
    BY <1>10, <2>2, SaveEarned DEF StageRaises, StageWantsReboot
  <2> QED BY <1>10, <1>i, <2>3, ExitEarned DEF StageRaises, StageWantsReboot
<1>11. ASSUME Reboot PROVE Earned'
  <2>1. \A q \in Proc : ReturnEarned(q)'
    BY <1>11 DEF Earned, ReturnEarned, Alone, Reboot
  <2> QED BY <1>11, <1>p, <2>1 DEF Earned, CopiesEarned, Reboot
<1> QED
  BY <1>0, <1>1, <1>2, <1>3, <1>4, <1>5, <1>6, <1>7, <1>8, <1>9, <1>10, <1>11
     DEF Next, Advance

\* The checkpoint file claims no stage that did not complete, whatever crashed
\* and however many processes wrote the file over one another.
THEOREM NoFalseClaim == Spec => []DoneMeansCompleted
<1>1. Earned => DoneMeansCompleted
  BY DEF Earned, Claims, DoneMeansCompleted
<1> QED BY <1>1, EarnedInit, EarnedStep, PTL DEF Spec

-----------------------------------------------------------------------------
(***************************************************************************)
(* The record of a build's flags.                                          *)
(***************************************************************************)

\* Nothing after the filter looks at the profile, but for its compiler.
LEMMA RestIsOne ==
    ASSUME NEW one, NEW two, NEW p,
           two.system = one.system, two.kernel = one.kernel, two.cc = one.cc, two.ld = one.ld,
           two.llvmVariant = one.llvmVariant, two.noFullLto = one.noFullLto, two.noLto = one.noLto,
           two.extra = one.extra, two.lib32 = one.lib32, two.musl = one.musl,
           UsesGcc(two) = UsesGcc(one)
    PROVE  Written(one, MuslFit(one, Lib32Fit(one, Extended(one, LtoFit(one, GccFit(one, LinkerFit(one, Overridden(one, p))))))))
         = Written(two, MuslFit(two, Lib32Fit(two, Extended(two, LtoFit(two, GccFit(two, LinkerFit(two, Overridden(two, p))))))))
<1>0. \A q, k : Eff(one, q, k) = Eff(two, q, k)
  BY DEF Eff
<1>1. \A q, ks, tokens : Strip(one, q, ks, tokens) = Strip(two, q, ks, tokens)
  BY <1>0 DEF Strip
<1>2. \A q : EffectiveLinker(one, q) = EffectiveLinker(two, q)
  BY <1>0, Zenon DEF EffectiveLinker
<1>3. \A q : Overridden(one, q) = Overridden(two, q)
  BY <1>0 DEF Overridden
<1>4. \A q : LinkerFit(one, q) = LinkerFit(two, q)
  BY <1>0, <1>1, <1>2 DEF LinkerFit
<1>a. \A q : FullForThin(one, q) = FullForThin(two, q)
  BY <1>0 DEF FullForThin
<1>b. \A q : NoFullLto(one, q) = NoFullLto(two, q)
  BY <1>1 DEF NoFullLto
<1>5. \A q : GccFit(one, q) = GccFit(two, q)
  BY <1>0, <1>2, <1>a, <1>b DEF GccFit
<1>6. \A q : LtoFit(one, q) = LtoFit(two, q)
  BY <1>0, <1>1, <1>b DEF LtoFit
<1>7. \A q : Extended(one, q) = Extended(two, q)
  BY <1>0 DEF Extended
<1>8. \A q : Lib32Fit(one, q) = Lib32Fit(two, q)
  BY DEF Lib32Fit
<1>9. \A q : MuslFit(one, q) = MuslFit(two, q)
  BY <1>0, <1>1 DEF MuslFit
<1>10. \A q : Written(one, q) = Written(two, q)
  BY DEF Written
<1> QED BY <1>3, <1>4, <1>5, <1>6, <1>7, <1>8, <1>9, <1>10

\* What is recorded of the profile decides what the filter lets through.
LEMMA RecordDecides ==
    ASSUME NEW one, NEW two, two.system = one.system, two.kernel = one.kernel, two.preserve = one.preserve,
           two.consumes = one.consumes, two.everyKey = one.everyKey,
           OfFlags(one.profile, Tokens), OfFlags(two.profile, Tokens), Serialized(one) = Serialized(two)
    PROVE  /\ Preserved(one, Filtered(one)) = Preserved(two, Filtered(two))
           /\ one.profile["CC"] = two.profile["CC"]
<1> DEFINE P(b) == IF b.kernel THEN b.profile ELSE Preserved(b, b.profile)
<1>1. \A k \in Keys \ Internal : ~(one.kernel /\ k \in FlagKeys) => P(one)[k] = P(two)[k]
  <2> SUFFICES ASSUME NEW k \in Keys \ Internal, ~(one.kernel /\ k \in FlagKeys) PROVE P(one)[k] = P(two)[k]
    OBVIOUS
  <2>1. Serialized(one)[k] = Serialized(two)[k]
    OBVIOUS
  <2> QED BY <2>1 DEF Serialized, CleanOfKernel
<1>2. DOMAIN one.profile = Keys /\ DOMAIN two.profile = Keys
  BY DEF OfFlags
<1>3. \A k \in Keys \ (Internal \cup FlagKeys) : one.profile[k] = two.profile[k]
  BY <1>1, <1>2 DEF Preserved, ApplyPreserved
<1>4. \A k \in Keys \ FlagKeys : Filtered(one)[k] = Filtered(two)[k]
  BY <1>3 DEF Filtered
<1>5. DOMAIN Filtered(one) = Keys /\ DOMAIN Filtered(two) = Keys
  BY DEF Filtered
<1>6. "CC" \in Keys \ (Internal \cup FlagKeys) /\ FlagKeys \subseteq Keys \ Internal
  BY DEF Keys, Internal, FlagKeys, BundleKeys
<1>7. CASE one.kernel
  <2>1. \A k \in FlagKeys : Filtered(one)[k] = Filtered(two)[k]
    BY <1>6, <1>7 DEF Filtered, CleanOfKernel
  <2>2. Filtered(one) = Filtered(two)
    BY <2>1, <1>4 DEF Filtered
  <2> QED BY <2>2, <1>3, <1>6 DEF Preserved
<1>8. CASE ~one.kernel
  <2>1. \A k \in FlagKeys : Filtered(one)[k] = one.profile[k] /\ Filtered(two)[k] = two.profile[k]
    BY <1>6, <1>8 DEF Filtered, FlagKeys, Internal, CleanOfKernel
  <2>2. \A k \in FlagKeys : Preserved(one, one.profile)[k] = Preserved(two, two.profile)[k]
    BY <1>1, <1>6, <1>8
  <2>3. \A k \in FlagKeys : /\ Preserved(one, Filtered(one))[k] = Preserved(one, one.profile)[k]
                            /\ Preserved(two, Filtered(two))[k] = Preserved(two, two.profile)[k]
    BY <2>1, <1>2, <1>5, <1>6 DEF Preserved, ApplyPreserved, FlagKeys, ValueOr
  <2>4. \A k \in Keys \ FlagKeys : /\ Preserved(one, Filtered(one))[k] = Filtered(one)[k]
                            /\ Preserved(two, Filtered(two))[k] = Filtered(two)[k]
    BY <1>5 DEF Preserved, ApplyPreserved
  <2>5. \A k \in Keys : Preserved(one, Filtered(one))[k] = Preserved(two, Filtered(two))[k]
    BY <2>2, <2>3, <2>4, <1>4
  <2>6. /\ Preserved(one, Filtered(one)) = [k \in Keys |-> Preserved(one, Filtered(one))[k]]
        /\ Preserved(two, Filtered(two)) = [k \in Keys |-> Preserved(two, Filtered(two))[k]]
    BY <1>5 DEF Preserved, ApplyPreserved, Filtered
  <2> QED BY <2>5, <2>6, <1>3, <1>6
<1> QED BY <1>7, <1>8

(* An edit of a profile that changes the conf of a build changes what was   *)
(* recorded of it, for any system, preserve set and circumstances.          *)
LEMMA EditIsSeen ==
    ASSUME NEW one, NEW two, NEW p, OfFlags(one.profile, Tokens), OfFlags(p, Tokens),
           one = [f \in BuildFields |-> one[f]], two = [one EXCEPT !.profile = p]
    PROVE  DriftIsSeen(one, two)
<1> USE DEF BuildFields
<1> SUFFICES ASSUME Serialized(one) = Serialized(two) PROVE Emitted(one) = Emitted(two)
  BY DEF DriftIsSeen
<1>1. /\ two.system = one.system /\ two.kernel = one.kernel /\ two.cc = one.cc /\ two.ld = one.ld
      /\ two.llvmVariant = one.llvmVariant /\ two.noFullLto = one.noFullLto /\ two.noLto = one.noLto
      /\ two.extra = one.extra /\ two.lib32 = one.lib32 /\ two.musl = one.musl
      /\ two.preserve = one.preserve /\ two.consumes = one.consumes /\ two.everyKey = one.everyKey
      /\ two.gccInPkgbuild = one.gccInPkgbuild /\ two.gccFallback = one.gccFallback
      /\ two.profile = p
  OBVIOUS
<1>2. /\ Preserved(one, Filtered(one)) = Preserved(two, Filtered(two))
      /\ one.profile["CC"] = two.profile["CC"]
  BY <1>1, RecordDecides
<1>3. UsesGcc(two) = UsesGcc(one)
  BY <1>1, <1>2 DEF UsesGcc
<1> QED BY <1>1, <1>2, <1>3, RestIsOne DEF Emitted

(***************************************************************************)
(* THEOREM EditsAreSeen: whatever edit of a profile changes the conf that  *)
(* a build gets changes what was recorded of its flags, for any system,    *)
(* preserve set and circumstances of the build.                            *)
(***************************************************************************)
THEOREM EditsAreSeen ==
    ASSUME NEW Edits, \A x \in Edits : Edited(x, Tokens)
    PROVE  Posed("drift", Edits) /\ [][ComputeDrift]_question => []DriftSees
<1>1. Posed("drift", Edits) => input \in Edits
  BY DEF Posed
<1>2. input \in Edits /\ [ComputeDrift]_question => (input \in Edits)'
  BY DEF ComputeDrift, Answer, question
<1>3. input \in Edits => DriftSees
  BY EditIsSeen DEF DriftSees, Edited
<1> QED BY <1>1, <1>2, <1>3, PTL

-----------------------------------------------------------------------------
(* The chain of corrections.  Val is what a key is worth, Regular what each  *)
(* correction needs and keeps.                                               *)

Val(b, p, k) == IF Eff(b, p, k) = Absent THEN {} ELSE Eff(b, p, k)
IsConf(p) == p = [k \in Keys |-> p[k]] /\ \A k \in Keys : p[k] = Absent \/ p[k] \in SUBSET Tokens
LinkTokens == {Lld, Bfd}
ClassNames == {"ld", "lto", "march", "pgo"}
Apart(v) == v \cap ClassNames = {} /\ \A t, u \in v : ~Clash(t, u)

Regular(b, p) ==
    /\ IsConf(p)
    /\ \A k \in FlagKeys \cup {"LTOFLAGS"} :
         /\ Val(b, p, k) \cap PgoTokens = {}
         /\ k # "LDFLAGS" => Val(b, p, k) \cap LldOnly = {}
         /\ k \notin {"CFLAGS", "CXXFLAGS"} => Val(b, p, k) \cap Marches = {}
    /\ Apart(Val(b, p, "LDFLAGS"))

Named == {Lld, Bfd, RefC, "-flto", "!lto", "ld", "lld", "bfd"} \cup PgoTokens
Meant == Named \subseteq Tokens /\ Absent \notin SUBSET Tokens

\* The keys the proofs speak of are keys, and which of them are not flag keys.
LEMMA KeysAre ==
    /\ FlagKeys \subseteq Keys /\ {"LTOFLAGS", "RUSTFLAGS", "OPTIONS", "CC"} \subseteq Keys
    /\ FlagKeys = {"CFLAGS", "CXXFLAGS", "LDFLAGS"}
    /\ FlagKeys \cap {"LTOFLAGS", "RUSTFLAGS", "OPTIONS", "CC"} = {}
BY DEF Keys, FlagKeys, BundleKeys, Internal

\* A value without some tokens, or with part of another, has its tokens apart.
LEMMA FewerApart == ASSUME NEW v, Apart(v), NEW w, w \subseteq v PROVE Apart(w)
BY DEF Apart

\* Only the two linker tokens are of class ld.
LEMMA LinkerClass ==
    ASSUME NEW t, t \notin ClassNames
    PROVE  /\ ClassOf(t) = "ld" <=> t \in LinkTokens
           /\ ClassOf(t) = "lto" <=> t \in {"-flto", "-flto=thin"}
           /\ ClassOf(t) = "pgo" <=> t \in PgoTokens
BY DEF ClassOf, LinkTokens, ClassNames, Lld, Bfd, PgoTokens

\* One linker is as good as another.
LEMMA InjectApart ==
    ASSUME NEW v, Apart(v), NEW l \in {"lld", "bfd"}
    PROVE  /\ Apart(InjectLinker(v, l))
           /\ \E t \in LinkTokens : Linker[t] = l /\ InjectLinker(v, l) = (v \ LinkTokens) \cup {t}
<1> DEFINE t == CHOOSE x \in LinkTokens : Linker[x] = l
<1>1. \E x \in LinkTokens : Linker[x] = l
  BY DEF LinkTokens, Linker, Lld, Bfd
<1>2. t \in LinkTokens /\ Linker[t] = l
  BY <1>1
<1>3. InjectLinker(v, l) = (v \ LinkTokens) \cup {t}
  BY DEF InjectLinker, DropLinker, LinkTokens
<1> HIDE DEF t
<1>4. t \notin ClassNames
  BY <1>2 DEF ClassNames, LinkTokens, Lld, Bfd
<1>5. ASSUME NEW x \in v \ LinkTokens PROVE ClassOf(x) # ClassOf(t)
  <2>1. x \notin ClassNames
    BY DEF Apart
  <2> QED BY <2>1, <1>2, <1>4, LinkerClass
<1>6. Apart(InjectLinker(v, l))
  BY <1>3, <1>4, <1>5 DEF Apart, Clash
<1> QED BY <1>2, <1>3, <1>6

\* Full LTO instead of thin.
LEMMA FullApart ==
    ASSUME NEW v, Apart(v), "-flto=thin" \in v
    PROVE  Apart((v \ {"-flto=thin"}) \cup {"-flto"})
<1>1. "-flto" \notin ClassNames /\ "-flto=thin" \notin ClassNames
  BY DEF ClassNames
<1>2. ASSUME NEW x \in v \ {"-flto=thin"}, x # "-flto" PROVE ClassOf(x) # ClassOf("-flto")
  <2>1. x \notin ClassNames /\ ClassOf(x) # ClassOf("-flto=thin")
    BY DEF Apart, Clash
  <2> QED BY <2>1, <1>1, LinkerClass
<1> QED BY <1>1, <1>2 DEF Apart, Clash

\* The linker is told by the linker tokens.
LEMMA SameLinker ==
    ASSUME NEW v, NEW w, v # Absent, w # Absent, v \cap LinkTokens = w \cap LinkTokens
    PROVE  LinkerIn(v) = LinkerIn(w)
<1>1. LinkersOf(v) = LinkersOf(w)
  BY DEF LinkersOf, LinkTokens
<1> QED BY <1>1 DEF LinkerIn

\* A linker that is not the default one is named by a token of the value.
LEMMA TheLinker ==
    ASSUME NEW v, v # Absent, Apart(v), NEW l, LinkerIn(v) = l
    PROVE  l # "ld" => \E t \in v \cap LinkTokens : l = Linker[t]
<1>1. l = Runs(LinkersOf(v))
  BY DEF LinkerIn
<1>2. CASE LinkersOf(v) = {} \/ ~(LinkersOf(v) \subseteq Installed)
  BY <1>1, <1>2 DEF Runs
<1>3. CASE ~(LinkersOf(v) = {} \/ ~(LinkersOf(v) \subseteq Installed))
  <2>1. l \in LinkersOf(v)
    BY <1>1, <1>3 DEF Runs
  <2> QED BY <2>1 DEF LinkersOf, LinkTokens
<1> QED BY <1>2, <1>3

-----------------------------------------------------------------------------
\* What the two ways to change values of a conf do.
Loses(b, p, ks, tokens, q) ==
    /\ IsConf(q)
    /\ \A k \in Keys : Val(b, q, k) = IF k \in ks THEN Val(b, p, k) \ tokens ELSE Val(b, p, k)
    /\ \A k \in Keys \ ks : q[k] = p[k]
    /\ \A k \in Keys : p[k] # Absent => q[k] # Absent

\* strip_tokens: the keys named lose the tokens, whoever gave them, and nothing
\* else changes.
LEMMA StripIs ==
    ASSUME Meant, NEW b, IsConf(b.system), NEW p, IsConf(p), NEW ks \in SUBSET Keys, NEW tokens
    PROVE  Loses(b, p, ks, tokens, Strip(b, p, ks, tokens))
<1> DEFINE q == Strip(b, p, ks, tokens)
<1>1. \A k \in Keys : Eff(b, p, k) = Absent \/ Eff(b, p, k) \in SUBSET Tokens
  BY DEF Eff, ValueOr, IsConf
<1>2. \A k \in Keys : q[k] = IF k \in ks /\ Eff(b, p, k) # Absent /\ Eff(b, p, k) \cap tokens # {}
                             THEN Eff(b, p, k) \ tokens ELSE p[k]
  BY DEF Strip
<1>3. q = [k \in Keys |-> q[k]]
  BY DEF Strip
<1> HIDE DEF q
<1>4. \A k \in Keys : q[k] = Absent \/ q[k] \in SUBSET Tokens
  BY <1>1, <1>2 DEF IsConf
<1>5. ASSUME NEW k \in Keys
      PROVE  Val(b, q, k) = IF k \in ks THEN Val(b, p, k) \ tokens ELSE Val(b, p, k)
  <2>1. CASE k \in ks /\ Eff(b, p, k) # Absent /\ Eff(b, p, k) \cap tokens # {}
    <3>1. q[k] = Eff(b, p, k) \ tokens /\ q[k] # Absent
      BY <2>1, <1>1, <1>2 DEF Meant
    <3> QED BY <3>1, <2>1 DEF Val, Eff, ValueOr
  <2>2. CASE ~(k \in ks /\ Eff(b, p, k) # Absent /\ Eff(b, p, k) \cap tokens # {})
    <3>1. q[k] = p[k]
      BY <2>2, <1>2
    <3>2. Eff(b, q, k) = Eff(b, p, k)
      BY <3>1 DEF Eff, ValueOr
    <3> QED BY <3>2, <2>2 DEF Val
  <2> QED BY <2>1, <2>2
<1>6. \A k \in Keys : p[k] # Absent => q[k] # Absent
  BY <1>1, <1>2 DEF Meant
<1> QED BY <1>2, <1>3, <1>4, <1>5, <1>6 DEF q, IsConf, Loses

\* A key is given a value, and nothing else changes.
LEMMA SetIs ==
    ASSUME Meant, NEW b, NEW p, IsConf(p), NEW j \in Keys, NEW v \in SUBSET Tokens,
           NEW q, q = [k \in Keys |-> q[k]], q[j] = v, \A k \in Keys \ {j} : q[k] = p[k]
    PROVE  /\ IsConf(q) /\ Val(b, q, j) = v
           /\ \A k \in Keys \ {j} : Val(b, q, k) = Val(b, p, k)
<1>1. v # Absent
  BY DEF Meant
<1>2. IsConf(q)
  BY DEF IsConf
<1>3. Val(b, q, j) = v /\ \A k \in Keys \ {j} : Val(b, q, k) = Val(b, p, k)
  BY <1>1 DEF Val, Eff, ValueOr
<1> QED BY <1>2, <1>3

\* An EXCEPT is one.
LEMMA SetOne ==
    ASSUME NEW p, IsConf(p), NEW j \in Keys, NEW v, NEW q, q = [p EXCEPT ![j] = v]
    PROVE  q = [k \in Keys |-> q[k]] /\ q[j] = v /\ \A k \in Keys \ {j} : q[k] = p[k]
BY DEF IsConf

\* A value that loses tokens stays regular.
LEMMA FewerRegular ==
    ASSUME NEW b, NEW p, Regular(b, p), NEW q, IsConf(q),
           \A k \in FlagKeys \cup {"LTOFLAGS"} : Val(b, q, k) \subseteq Val(b, p, k)
    PROVE  Regular(b, q)
<1>1. Apart(Val(b, q, "LDFLAGS"))
  BY FewerApart, KeysAre DEF Regular
<1>2. \A k \in FlagKeys \cup {"LTOFLAGS"} :
         /\ Val(b, q, k) \cap PgoTokens = {}
         /\ k # "LDFLAGS" => Val(b, q, k) \cap LldOnly = {}
         /\ k \notin {"CFLAGS", "CXXFLAGS"} => Val(b, q, k) \cap Marches = {}
  BY DEF Regular
<1> QED BY <1>1, <1>2 DEF Regular

-----------------------------------------------------------------------------
(* Step by step.                                                            *)

\* The system's conf and the profile are confs.
LEMMA BothConfs == ASSUME NEW b, WellConfigured(b, Tokens) PROVE IsConf(b.system) /\ IsConf(b.profile)
BY DEF WellConfigured, OfFlags, IsConf

\* What is restored is the system's, and of classes that are open.
LEMMA RestoredFrom ==
    ASSUME NEW value, NEW system, NEW preserve
    PROVE  /\ RestoredTokens(value, system, preserve) \subseteq system
           /\ \A t \in RestoredTokens(value, system, preserve), u \in value : ClassOf(u) # ClassOf(t)
BY DEF RestoredTokens

\* What the profile and the system give to a key.
LEMMA KeyPreserved ==
    ASSUME NEW b, WellConfigured(b, Tokens), NEW k \in FlagKeys, Filtered(b)[k] # Absent
    PROVE  \E r : /\ Preserved(b, Filtered(b))[k] = b.profile[k] \cup r
                  /\ b.system[k] = Absent => r = {}
                  /\ b.system[k] # Absent => r \subseteq b.system[k]
                  /\ b.profile[k] = {RefC} \/ \A t \in r, u \in b.profile[k] : ClassOf(u) # ClassOf(t)
<1> DEFINE f == Filtered(b)
           Gives(r) == /\ Preserved(b, f)[k] = b.profile[k] \cup r
                       /\ b.system[k] = Absent => r = {}
                       /\ b.system[k] # Absent => r \subseteq b.system[k]
                       /\ b.profile[k] = {RefC} \/ \A t \in r, u \in b.profile[k] : ClassOf(u) # ClassOf(t)
<1>1. f[k] = b.profile[k] /\ DOMAIN f = Keys /\ k \in Keys
  BY KeysAre DEF Filtered
<1> SUFFICES \E r : Gives(r)
  OBVIOUS
<1> HIDE DEF f
<1>2. CASE b.preserve = {}
  <2>1. Preserved(b, f)[k] = b.profile[k] \cup {}
    BY <1>1, <1>2 DEF Preserved
  <2>2. Gives({})
    BY <2>1
  <2> HIDE DEF Gives
  <2> QED BY <2>2
<1>3. CASE b.preserve # {} /\ b.system[k] = Absent
  <2>1. ApplyPreserved(f, b.system, b.preserve)[k] = f[k]
    BY <1>1, <1>3 DEF ApplyPreserved
  <2>2. Preserved(b, f)[k] = b.profile[k] \cup {}
    BY <2>1, <1>1, <1>3 DEF Preserved
  <2>3. Gives({})
    BY <2>2, <1>3
  <2> HIDE DEF Gives
  <2> QED BY <2>3
<1>4. CASE b.preserve # {} /\ b.system[k] # Absent /\ b.profile[k] # {RefC}
  <2> DEFINE r == RestoredTokens(f[k], b.system[k], b.preserve)
  <2>1. ApplyPreserved(f, b.system, b.preserve)[k] = f[k] \cup r
    BY <1>1, <1>4 DEF ApplyPreserved, f
  <2>2. Gives(r)
    BY <2>1, <1>1, <1>4, RestoredFrom DEF Preserved
  <2> QED BY <2>2
<1>5. CASE b.preserve # {} /\ b.system[k] # Absent /\ b.profile[k] = {RefC}
  <2>1. \E base : ApplyPreserved(f, b.system, b.preserve)[k] = f[k] \cup RestoredTokens(base, b.system[k], b.preserve)
    BY <1>1, <1>5 DEF ApplyPreserved, f
  <2>2. PICK base : ApplyPreserved(f, b.system, b.preserve)[k] = f[k] \cup RestoredTokens(base, b.system[k], b.preserve)
    BY <2>1
  <2> DEFINE r == RestoredTokens(base, b.system[k], b.preserve)
  <2>3. r \subseteq b.system[k]
    BY RestoredFrom
  <2>4. Gives(r)
    BY <2>2, <2>3, <1>1, <1>5 DEF Preserved
  <2> QED BY <2>4
<1> QED BY <1>2, <1>3, <1>4, <1>5

\* What the profile gives, with the preserved tokens of the system, is regular.
LEMMA PreservedRegular ==
    ASSUME Meant, NEW b, WellConfigured(b, Tokens)
    PROVE  /\ Regular(b, Preserved(b, Filtered(b)))
           /\ \A k \in Keys : Preserved(b, Filtered(b))[k] = Absent <=> Filtered(b)[k] = Absent
<1> DEFINE f == Filtered(b)
           p == Preserved(b, f)
<1>1. IsConf(b.system) /\ IsConf(b.profile)
  BY BothConfs
<1>2. /\ f = [k \in Keys |-> f[k]] /\ \A k \in Keys : f[k] = Absent \/ f[k] = b.profile[k]
  BY DEF Filtered
<1>3. IsConf(f)
  BY <1>1, <1>2 DEF IsConf
<1>4. /\ p = [k \in Keys |-> p[k]]
      /\ \A k \in Keys \ FlagKeys : p[k] = f[k]
      /\ \A k \in FlagKeys : f[k] = Absent => p[k] = Absent
  <2>1. DOMAIN f = Keys
    BY <1>2
  <2> HIDE DEF f
  <2>2. CASE b.preserve = {}
    <3>1. p = f
      BY <2>2 DEF Preserved
    <3> QED BY <3>1, <1>2
  <2>3. CASE b.preserve # {}
    <3>1. p = ApplyPreserved(f, b.system, b.preserve)
      BY <2>3 DEF Preserved
    <3> HIDE DEF p
    <3>2. p = [k \in Keys |-> p[k]]
      BY <3>1, <2>1 DEF ApplyPreserved
    <3>3. \A k \in Keys \ FlagKeys : p[k] = f[k]
      BY <3>1, <2>1 DEF ApplyPreserved
    <3>4. ASSUME NEW k \in FlagKeys, f[k] = Absent PROVE p[k] = Absent
      <4>0. {RefC} \in SUBSET Tokens
        BY DEF Meant, Named
      <4>1. k \in Keys /\ {RefC} # Absent
        BY <4>0, KeysAre DEF Meant
      <4> QED BY <3>1, <3>4, <2>1, <4>1 DEF ApplyPreserved
    <3> QED BY <3>2, <3>3, <3>4
  <2> QED BY <2>2, <2>3
<1> HIDE DEF p
<1>5. ASSUME NEW k \in FlagKeys, f[k] # Absent
      PROVE  \E r \in SUBSET Tokens :
               /\ p[k] = b.profile[k] \cup r /\ b.profile[k] \in SUBSET Tokens
               /\ b.system[k] = Absent => r = {}
               /\ b.system[k] # Absent => r \subseteq b.system[k]
               /\ b.profile[k] = {RefC} \/ \A t \in r, u \in b.profile[k] : ClassOf(u) # ClassOf(t)
  <2>1. b.profile[k] \in SUBSET Tokens /\ (b.system[k] = Absent \/ b.system[k] \in SUBSET Tokens) /\ k \in Keys
    BY <1>1, <1>2, <1>5, KeysAre DEF IsConf
  <2> QED BY <1>5, <2>1, KeyPreserved DEF p
<1>6. IsConf(p)
  BY <1>3, <1>4, <1>5, KeysAre DEF IsConf
<1>7. \A k \in Keys : p[k] = Absent <=> f[k] = Absent
  BY <1>4, <1>5, KeysAre DEF Meant
<1>8. ASSUME NEW k \in FlagKeys \cup {"LTOFLAGS"}
      PROVE  /\ Val(b, p, k) \cap PgoTokens = {}
             /\ k # "LDFLAGS" => Val(b, p, k) \cap LldOnly = {}
             /\ k \notin {"CFLAGS", "CXXFLAGS"} => Val(b, p, k) \cap Marches = {}
  <2> DEFINE Fit(v) == /\ v \cap PgoTokens = {}
                       /\ k # "LDFLAGS" => v \cap LldOnly = {}
                       /\ k \notin {"CFLAGS", "CXXFLAGS"} => v \cap Marches = {}
  <2>1. (b.system[k] # Absent => Fit(b.system[k])) /\ (b.profile[k] # Absent => Fit(b.profile[k])) /\ k \in Keys
    BY KeysAre DEF WellConfigured, Placed
  <2>2. CASE p[k] = Absent
    <3>1. Val(b, p, k) = {} \/ (b.system[k] # Absent /\ Val(b, p, k) = b.system[k])
      BY <2>2 DEF Val, Eff, ValueOr
    <3> QED BY <3>1, <2>1
  <2>3. CASE p[k] # Absent /\ k \notin FlagKeys
    <3>1. p[k] = b.profile[k]
      BY <2>3, <2>1, <1>2, <1>4
    <3> QED BY <3>1, <2>1, <2>3 DEF Val, Eff, ValueOr
  <2>4. CASE p[k] # Absent /\ k \in FlagKeys
    <3>1. f[k] # Absent /\ b.profile[k] # Absent
      BY <2>4, <2>1, <1>7, <1>2
    <3>2. PICK r \in SUBSET Tokens :
               /\ p[k] = b.profile[k] \cup r
               /\ b.system[k] = Absent => r = {}
               /\ b.system[k] # Absent => r \subseteq b.system[k]
      BY <1>5, <2>4, <3>1
    <3>3. Val(b, p, k) = b.profile[k] \cup r
      BY <3>2, <2>4 DEF Val, Eff, ValueOr
    <3>4. Fit(b.profile[k]) /\ (r = {} \/ (r \subseteq b.system[k] /\ Fit(b.system[k])))
      BY <2>1, <3>1, <3>2
    <3> QED BY <3>3, <3>4
  <2> QED BY <2>2, <2>3, <2>4
<1>9. Apart(Val(b, p, "LDFLAGS"))
  <2> DEFINE k == "LDFLAGS"
  <2>1. k \in FlagKeys /\ k \in Keys /\ b.system[k] # Absent /\ Apart(b.system[k])
        /\ (b.profile[k] # Absent => Apart(b.profile[k]))
    BY KeysAre DEF WellConfigured, OfFlags, Apart, ClassNames
  <2>2. CASE p[k] = Absent
    <3>1. Val(b, p, k) = b.system[k]
      BY <2>2, <2>1 DEF Val, Eff, ValueOr
    <3> QED BY <3>1, <2>1
  <2>3. CASE p[k] # Absent
    <3>1. f[k] # Absent /\ b.profile[k] # Absent
      BY <2>3, <2>1, <1>7, <1>2
    <3>2. PICK r \in SUBSET Tokens :
               /\ p[k] = b.profile[k] \cup r
               /\ r \subseteq b.system[k]
               /\ b.profile[k] = {RefC} \/ \A t \in r, u \in b.profile[k] : ClassOf(u) # ClassOf(t)
      BY <1>5, <2>1, <3>1
    <3>3. Val(b, p, k) = b.profile[k] \cup r
      BY <3>2, <2>3 DEF Val, Eff, ValueOr
    <3>4. Apart(r) /\ Apart(b.profile[k])
      BY <2>1, <3>1, <3>2, FewerApart
    <3>5. \A t \in r, u \in b.profile[k] : t = u \/ ClassOf(u) # ClassOf(t)
      <4>1. ASSUME NEW t \in r, t # RefC PROVE ClassOf(t) # ClassOf(RefC)
        <5>1. t \notin ClassNames
          BY <3>4 DEF Apart
        <5> QED BY <5>1, <4>1 DEF ClassOf, RefC, Lld, Bfd, ClassNames
      <4> QED BY <4>1, <3>2
    <3> QED BY <3>3, <3>4, <3>5 DEF Apart, Clash
  <2> QED BY <2>2, <2>3
<1> QED BY <1>6, <1>7, <1>8, <1>9 DEF Regular, p

\* Another value for the linker that is as good.
LEMMA LinkerRegular ==
    ASSUME Meant, NEW b, NEW p, Regular(b, p), NEW v \in SUBSET Tokens, Apart(v),
           v \cap PgoTokens = {}, v \cap Marches = {}
    PROVE  Regular(b, [p EXCEPT !["LDFLAGS"] = v])
<1> DEFINE q == [p EXCEPT !["LDFLAGS"] = v]
<1>1. /\ IsConf(q) /\ Val(b, q, "LDFLAGS") = v
      /\ \A k \in Keys \ {"LDFLAGS"} : Val(b, q, k) = Val(b, p, k)
  <2>1. q = [k \in Keys |-> q[k]] /\ q["LDFLAGS"] = v /\ \A k \in Keys \ {"LDFLAGS"} : q[k] = p[k]
    BY SetOne, KeysAre DEF Regular
  <2>2. IsConf(p) /\ "LDFLAGS" \in Keys
    BY KeysAre DEF Regular
  <2> HIDE DEF q
  <2> DEFINE j == "LDFLAGS"
  <2>3. j \in Keys /\ q[j] = v /\ \A k \in Keys \ {j} : q[k] = p[k]
    BY <2>1, <2>2
  <2>4. IsConf(q) /\ Val(b, q, j) = v /\ \A k \in Keys \ {j} : Val(b, q, k) = Val(b, p, k)
    <3> HIDE DEF j
    <3> QED BY <2>1, <2>2, <2>3, SetIs
  <2> QED BY <2>4
<1> HIDE DEF q
<1>2. \A k \in FlagKeys \cup {"LTOFLAGS"} :
         /\ Val(b, q, k) \cap PgoTokens = {}
         /\ k # "LDFLAGS" => Val(b, q, k) \cap LldOnly = {}
         /\ k \notin {"CFLAGS", "CXXFLAGS"} => Val(b, q, k) \cap Marches = {}
  BY <1>1, KeysAre DEF Regular
<1>3. Regular(b, q)
  BY <1>1, <1>2 DEF Regular
<1> QED BY <1>3 DEF q

\* A value is a set of tokens.
LEMMA ValIs ==
    ASSUME NEW b, IsConf(b.system), NEW p, IsConf(p), NEW k \in Keys
    PROVE  /\ Val(b, p, k) \in SUBSET Tokens
           /\ ValueOr(p, k, {}) \in SUBSET Tokens /\ ValueOr(p, k, {}) \subseteq Val(b, p, k)
           /\ Eff(b, p, k) # Absent => Val(b, p, k) = Eff(b, p, k)
BY DEF Val, Eff, ValueOr, IsConf

\* With a linker injected the value is still good.
LEMMA InjectRegular ==
    ASSUME Meant, NEW b, NEW p, Regular(b, p), IsConf(b.system), NEW v \in SUBSET Tokens, v \subseteq Val(b, p, "LDFLAGS"),
           NEW l \in {"lld", "bfd"}
    PROVE  Regular(b, [p EXCEPT !["LDFLAGS"] = InjectLinker(v, l)])
<1>1. Apart(v) /\ v \cap PgoTokens = {} /\ v \cap Marches = {}
  BY FewerApart, KeysAre DEF Regular
<1>2. PICK t \in LinkTokens : InjectLinker(v, l) = (v \ LinkTokens) \cup {t}
  BY <1>1, InjectApart
<1>3. t \in Tokens /\ t \notin PgoTokens /\ t \notin Marches
  BY DEF Meant, Named, LinkTokens, Lld, Bfd, PgoTokens, Marches
<1>4. /\ InjectLinker(v, l) \in SUBSET Tokens
      /\ InjectLinker(v, l) \cap PgoTokens = {} /\ InjectLinker(v, l) \cap Marches = {}
  BY <1>1, <1>2, <1>3
<1> QED BY <1>1, <1>4, InjectApart, LinkerRegular

\* The caller's compiler and linker leave a regular conf regular.
LEMMA OverriddenRegular ==
    ASSUME Meant, NEW b, WellConfigured(b, Tokens), NEW p, Regular(b, p)
    PROVE  Regular(b, Overridden(b, p))
<1> DEFINE q == IF b.cc = Absent THEN p ELSE [p EXCEPT !["CC"] = {b.cc}]
<1>1. IsConf(b.system) /\ IsConf(p) /\ {"LDFLAGS", "CC"} \subseteq Keys
  BY BothConfs, KeysAre DEF Regular
<1>2. Regular(b, q)
  <2>1. CASE b.cc = Absent
    BY <2>1
  <2>2. CASE b.cc # Absent
    <3>1. {b.cc} \in SUBSET Tokens
      BY <2>2 DEF WellConfigured
    <3> DEFINE r == [p EXCEPT !["CC"] = {b.cc}]
    <3>2. IsConf(r) /\ \A k \in Keys \ {"CC"} : Val(b, r, k) = Val(b, p, k)
      <4>1. r = [k \in Keys |-> r[k]] /\ r["CC"] = {b.cc} /\ \A k \in Keys \ {"CC"} : r[k] = p[k]
        BY SetOne, <1>1
      <4>2. "CC" \in Keys /\ IsConf(p)
        BY <1>1
      <4> HIDE DEF q, r
      <4>3. r["CC"] \in SUBSET Tokens /\ r["CC"] = {b.cc}
        BY <3>1, <4>1
      <4> QED BY <4>1, <4>2, <4>3, SetIs
    <3>3. q = r
      BY <2>2
    <3> HIDE DEF r
    <3>4. \A k \in FlagKeys \cup {"LTOFLAGS"} : Val(b, r, k) = Val(b, p, k)
      BY <3>2, KeysAre
    <3>5. Regular(b, r)
      BY <3>2, <3>4, FewerRegular
    <3> QED BY <3>3, <3>5
  <2> QED BY <2>1, <2>2
<1> HIDE DEF q
<1>3. IsConf(q)
  BY <1>2 DEF Regular
<1>4. Overridden(b, p) \in {q} \cup {[q EXCEPT !["LDFLAGS"] = InjectLinker(ValueOr(q, "LDFLAGS", {}), b.ld)],
                                    [q EXCEPT !["LDFLAGS"] = InjectLinker(Val(b, q, "LDFLAGS"), "lld")]}
  BY DEF Overridden, q, Val
<1>5. Regular(b, [q EXCEPT !["LDFLAGS"] = InjectLinker(Val(b, q, "LDFLAGS"), "lld")])
  BY <1>1, <1>2, <1>3, ValIs, InjectRegular
<1>6. ASSUME b.ld # Absent
      PROVE  Regular(b, [q EXCEPT !["LDFLAGS"] = InjectLinker(ValueOr(q, "LDFLAGS", {}), b.ld)])
  BY <1>1, <1>2, <1>3, <1>6, ValIs, InjectRegular DEF WellConfigured
<1>7. CASE b.ld # Absent
  BY <1>2, <1>4, <1>5, <1>6, <1>7
<1>8. CASE b.ld = Absent
  <2>1. Overridden(b, p) \in {q, [q EXCEPT !["LDFLAGS"] = InjectLinker(Val(b, q, "LDFLAGS"), "lld")]}
    BY <1>8 DEF Overridden, q, Val
  <2> QED BY <2>1, <1>2, <1>5
<1> QED BY <1>7, <1>8
-----------------------------------------------------------------------------
(* What the linker's correction settles, and the later ones keep.           *)

ValueKeys == FlagKeys \cup {"LTOFLAGS"}

Linked(b, p) ==
    /\ EffectiveLinker(b, p) # "lld" => Val(b, p, "LDFLAGS") \cap LldOnly = {}
    /\ p["RUSTFLAGS"] \in {Absent, {}, {EffectiveLinker(b, p)}}

\* A system has linker flags.
LEMMA LinkerValue ==
    ASSUME NEW b, WellConfigured(b, Tokens), NEW p, IsConf(p)
    PROVE  /\ Eff(b, p, "LDFLAGS") # Absent /\ Val(b, p, "LDFLAGS") # Absent
           /\ Val(b, p, "LDFLAGS") = Eff(b, p, "LDFLAGS")
           /\ EffectiveLinker(b, p) = LinkerIn(Val(b, p, "LDFLAGS"))
<1>1. b.system["LDFLAGS"] # Absent
  BY DEF WellConfigured
<1>2. Eff(b, p, "LDFLAGS") # Absent
  BY <1>1 DEF Eff, ValueOr
<1> QED BY <1>2 DEF Val, EffectiveLinker

\* Whoever leaves the linker, and what rustc links with, alone.
LEMMA KeepsLinked ==
    ASSUME NEW b, WellConfigured(b, Tokens), NEW p, IsConf(p), Linked(b, p), NEW q, IsConf(q), q["RUSTFLAGS"] = p["RUSTFLAGS"],
           Val(b, q, "LDFLAGS") \cap LinkTokens = Val(b, p, "LDFLAGS") \cap LinkTokens,
           Val(b, q, "LDFLAGS") \cap LldOnly \subseteq Val(b, p, "LDFLAGS")
    PROVE  Linked(b, q) /\ EffectiveLinker(b, q) = EffectiveLinker(b, p)
<1>1. EffectiveLinker(b, q) = EffectiveLinker(b, p)
  BY LinkerValue, SameLinker
<1> QED BY <1>1 DEF Linked

\* The classes of tokens have nothing in common.
LEMMA TokensDiffer ==
    /\ LinkTokens \cap (LldOnly \cup PgoTokens \cup LtoTokens \cup Marches) = {}
    /\ LldOnly \cap (PgoTokens \cup LtoTokens \cup Marches) = {}
    /\ PgoTokens \cap (LtoTokens \cup Marches) = {} /\ LtoTokens \cap Marches = {}
    /\ FullLto \subseteq LtoTokens /\ "-flto=thin" \in LtoTokens /\ LtoTokens = {"-flto", "-flto=thin"} /\ FullLto = {"-flto"}
    /\ RefC \notin LinkTokens \cup LldOnly \cup PgoTokens \cup LtoTokens \cup Marches
BY DEF LinkTokens, LldOnly, PgoTokens, LtoTokens, Marches, FullLto, Lld, Bfd, RefC

\* The linker that runs is a name.
LEMMA LinkerNamed ==
    ASSUME Meant, NEW v, v # Absent, Apart(v)
    PROVE  LinkerIn(v) \in {"ld", "lld", "bfd"} /\ {LinkerIn(v)} \in SUBSET Tokens
<1>1. LinkerIn(v) \in {"ld", "lld", "bfd"}
  BY TheLinker DEF LinkTokens, Linker, Lld, Bfd
<1> QED BY <1>1 DEF Meant, Named

\* With what is stripped from it the linker's value is regular, and rustc's follows.
LEMMA LinkerFitLinked ==
    ASSUME Meant, NEW b, WellConfigured(b, Tokens), NEW p, Regular(b, p)
    PROVE  Regular(b, LinkerFit(b, p)) /\ Linked(b, LinkerFit(b, p))
<1> DEFINE l == EffectiveLinker(b, p)
           s == IF l # "lld" THEN Strip(b, p, {"LDFLAGS"}, LldOnly) ELSE p
           rust == p["RUSTFLAGS"]
           q == LinkerFit(b, p)
<1>1. IsConf(p) /\ IsConf(b.system) /\ Eff(b, p, "LDFLAGS") # Absent /\ {"LDFLAGS", "RUSTFLAGS"} \subseteq Keys
  BY BothConfs, LinkerValue, KeysAre DEF Regular
<1>2. q = IF rust = Absent \/ rust = {} THEN s ELSE [s EXCEPT !["RUSTFLAGS"] = {l}]
  BY <1>1 DEF LinkerFit
<1>3. /\ IsConf(s) /\ s["RUSTFLAGS"] = rust
      /\ \A k \in Keys : Val(b, s, k) = IF k = "LDFLAGS" /\ l # "lld" THEN Val(b, p, k) \ LldOnly ELSE Val(b, p, k)
  <2>1. CASE l = "lld"
    BY <2>1, <1>1
  <2>2. CASE l # "lld"
    <3>1. s = Strip(b, p, {"LDFLAGS"}, LldOnly)
      BY <2>2
    <3> HIDE DEF s
    <3>2. "RUSTFLAGS" \in Keys \ {"LDFLAGS"} /\ {"LDFLAGS"} \in SUBSET Keys
      BY <1>1
    <3>3. Loses(b, p, {"LDFLAGS"}, LldOnly, s)
      BY <3>1, <3>2, <1>1, StripIs
    <3> QED BY <3>3, <3>2, <2>2 DEF Loses
  <2> QED BY <2>1, <2>2
<1> HIDE DEF s, q, l, rust
<1>4. /\ IsConf(q) /\ q["RUSTFLAGS"] \in {Absent, {}, {l}}
      /\ \A k \in Keys \ {"RUSTFLAGS"} : Val(b, q, k) = Val(b, s, k)
  <2>1. CASE rust = Absent \/ rust = {}
    BY <2>1, <1>2, <1>3
  <2>2. CASE ~(rust = Absent \/ rust = {})
    <3>1. q = [s EXCEPT !["RUSTFLAGS"] = {l}]
      BY <2>2, <1>2
    <3>2. {l} \in SUBSET Tokens
      BY <1>1, LinkerNamed, LinkerValue DEF Regular, l
    <3>3. q = [k \in Keys |-> q[k]] /\ q["RUSTFLAGS"] = {l} /\ \A k \in Keys \ {"RUSTFLAGS"} : q[k] = s[k]
      BY <3>1, <1>1, <1>3 DEF IsConf
    <3> QED BY <3>2, <3>3, <1>1, <1>3, SetIs
  <2> QED BY <2>1, <2>2
<1>5. \A k \in ValueKeys : Val(b, q, k) = IF k = "LDFLAGS" /\ l # "lld" THEN Val(b, p, k) \ LldOnly ELSE Val(b, p, k)
  BY <1>3, <1>4, KeysAre DEF ValueKeys
<1>6. Regular(b, q)
  BY <1>4, <1>5, FewerRegular DEF ValueKeys
<1>7. Val(b, q, "LDFLAGS") \cap LinkTokens = Val(b, p, "LDFLAGS") \cap LinkTokens
  BY <1>5, KeysAre, TokensDiffer DEF ValueKeys
<1>8. EffectiveLinker(b, q) = l
  BY <1>1, <1>4, <1>7, LinkerValue, SameLinker DEF l
<1>9. Linked(b, q)
  BY <1>4, <1>5, <1>8, KeysAre DEF Linked, ValueKeys
<1> QED BY <1>6, <1>9 DEF q

-----------------------------------------------------------------------------
(* LTO.                                                                     *)

ForGcc(b, p) ==
    UsesGcc(b) => /\ \A k \in ValueKeys : "-flto=thin" \notin Val(b, p, k)
                  /\ EffectiveLinker(b, p) = "lld" => \A k \in ValueKeys : Val(b, p, k) \cap LtoTokens = {}

\* The linker stays, and so does what it was told.
SameLinked(b, p, q) == Regular(b, q) /\ Linked(b, q) /\ EffectiveLinker(b, q) = EffectiveLinker(b, p)
NoThin(b, p) == \A k \in ValueKeys : "-flto=thin" \notin Val(b, p, k)

\* gcc is given no thin LTO.
LEMMA FullForThinIs ==
    ASSUME Meant, NEW b, WellConfigured(b, Tokens), NEW p, Regular(b, p), Linked(b, p)
    PROVE  SameLinked(b, p, FullForThin(b, p)) /\ NoThin(b, FullForThin(b, p))
<1> DEFINE q == FullForThin(b, p)
<1>1. IsConf(p) /\ IsConf(b.system) /\ {"LDFLAGS", "RUSTFLAGS"} \subseteq Keys /\ ValueKeys \subseteq Keys
      /\ "RUSTFLAGS" \notin ValueKeys /\ "LDFLAGS" \in ValueKeys
  BY BothConfs, KeysAre DEF Regular, ValueKeys
<1>2. /\ q = [k \in Keys |-> q[k]]
      /\ \A k \in Keys : q[k] = IF k \in ValueKeys /\ Eff(b, p, k) # Absent /\ "-flto=thin" \in Eff(b, p, k)
                              THEN (Eff(b, p, k) \ {"-flto=thin"}) \cup {"-flto"} ELSE p[k]
  BY DEF FullForThin, ValueKeys
<1> HIDE DEF q
<1>3. "-flto" \in Tokens
  BY DEF Meant, Named
<1>4. \A k \in Keys : Eff(b, p, k) = Absent \/ Eff(b, p, k) \in SUBSET Tokens
  BY <1>1 DEF Eff, ValueOr, IsConf
<1>5. IsConf(q)
  BY <1>1, <1>2, <1>3, <1>4 DEF IsConf
<1>6. ASSUME NEW k \in ValueKeys
      PROVE  Val(b, q, k) = IF "-flto=thin" \in Val(b, p, k) THEN (Val(b, p, k) \ {"-flto=thin"}) \cup {"-flto"}
                            ELSE Val(b, p, k)
  <2>1. CASE Eff(b, p, k) # Absent /\ "-flto=thin" \in Eff(b, p, k)
    <3>1. q[k] = (Eff(b, p, k) \ {"-flto=thin"}) \cup {"-flto"} /\ q[k] \in SUBSET Tokens
      BY <2>1, <1>1, <1>2, <1>3, <1>4
    <3>2. q[k] # Absent
      BY <3>1 DEF Meant
    <3> QED BY <3>1, <3>2, <2>1 DEF Val, Eff, ValueOr
  <2>2. CASE ~(Eff(b, p, k) # Absent /\ "-flto=thin" \in Eff(b, p, k))
    <3>1. q[k] = p[k]
      BY <2>2, <1>1, <1>2
    <3>2. Eff(b, q, k) = Eff(b, p, k)
      BY <3>1 DEF Eff, ValueOr
    <3> QED BY <3>2, <2>2 DEF Val
  <2> QED BY <2>1, <2>2
<1>7. Apart(Val(b, q, "LDFLAGS"))
  BY <1>1, <1>6, FullApart DEF Regular
<1>8. \A k \in ValueKeys :
         /\ Val(b, q, k) \cap PgoTokens = {}
         /\ k # "LDFLAGS" => Val(b, q, k) \cap LldOnly = {}
         /\ k \notin {"CFLAGS", "CXXFLAGS"} => Val(b, q, k) \cap Marches = {}
  BY <1>6, TokensDiffer DEF Regular, ValueKeys
<1>9. Regular(b, q)
  BY <1>5, <1>7, <1>8 DEF Regular, ValueKeys
<1>10. /\ Val(b, q, "LDFLAGS") \cap LinkTokens = Val(b, p, "LDFLAGS") \cap LinkTokens
       /\ Val(b, q, "LDFLAGS") \cap LldOnly \subseteq Val(b, p, "LDFLAGS")
       /\ q["RUSTFLAGS"] = p["RUSTFLAGS"]
  BY <1>1, <1>2, <1>6, TokensDiffer
<1>11. Linked(b, q) /\ EffectiveLinker(b, q) = EffectiveLinker(b, p)
  BY <1>1, <1>5, <1>10, KeepsLinked
<1> QED BY <1>6, <1>9, <1>11 DEF q, SameLinked, NoThin

\* A conf whose values lose tokens that do not matter to the linker.
LEMMA FewerLinked ==
    ASSUME NEW b, WellConfigured(b, Tokens), NEW p, Regular(b, p), Linked(b, p), NEW q, IsConf(q),
           q["RUSTFLAGS"] = p["RUSTFLAGS"],
           \A k \in ValueKeys : Val(b, q, k) \subseteq Val(b, p, k),
           Val(b, q, "LDFLAGS") \cap LinkTokens = Val(b, p, "LDFLAGS") \cap LinkTokens
    PROVE  SameLinked(b, p, q)
<1>1. "LDFLAGS" \in ValueKeys /\ IsConf(p)
  BY KeysAre DEF ValueKeys, Regular
<1>2. Regular(b, q)
  BY FewerRegular DEF ValueKeys
<1> QED BY <1>1, <1>2, KeepsLinked DEF SameLinked

\* A correction that takes tokens from the compiler's and the linker's flags.
Strips(b, p, tokens, q) ==
    /\ SameLinked(b, p, q)
    /\ \A k \in FlagKeys : Val(b, q, k) = Val(b, p, k) \ tokens
    /\ Val(b, q, "LTOFLAGS") = Val(b, p, "LTOFLAGS")

\* Stripping what is no linker token leaves the linker alone.
LEMMA StripLinked ==
    ASSUME Meant, NEW b, WellConfigured(b, Tokens), NEW p, Regular(b, p), Linked(b, p), NEW tokens, tokens \cap LinkTokens = {}
    PROVE  Strips(b, p, tokens, Strip(b, p, FlagKeys, tokens))
<1> DEFINE q == Strip(b, p, FlagKeys, tokens)
<1>1. IsConf(p) /\ IsConf(b.system)
  BY BothConfs DEF Regular
<1>2. Loses(b, p, FlagKeys, tokens, q)
  BY <1>1, KeysAre, StripIs
<1> HIDE DEF q
<1>3. /\ \A k \in FlagKeys : Val(b, q, k) = Val(b, p, k) \ tokens
      /\ Val(b, q, "LTOFLAGS") = Val(b, p, "LTOFLAGS") /\ q["RUSTFLAGS"] = p["RUSTFLAGS"]
  BY <1>2, KeysAre DEF Loses
<1>4. /\ \A k \in ValueKeys : Val(b, q, k) \subseteq Val(b, p, k)
      /\ Val(b, q, "LDFLAGS") \cap LinkTokens = Val(b, p, "LDFLAGS") \cap LinkTokens
  BY <1>3, KeysAre DEF ValueKeys
<1>5. SameLinked(b, p, q)
  BY <1>2, <1>3, <1>4, FewerLinked DEF Loses
<1> QED BY <1>3, <1>5 DEF q, Strips

SetsOther(b, p, j, q) ==
    /\ SameLinked(b, p, q) /\ \A k \in FlagKeys : Val(b, q, k) = Val(b, p, k)
    /\ Val(b, q, "LTOFLAGS") = IF j = "LTOFLAGS" THEN {} ELSE Val(b, p, "LTOFLAGS")

\* A key that the linker does not read is given another value.
LEMMA SetLinked ==
    ASSUME Meant, NEW b, WellConfigured(b, Tokens), NEW p, Regular(b, p), Linked(b, p),
           NEW j \in {"LTOFLAGS", "OPTIONS"}, NEW v \in SUBSET Tokens, j = "LTOFLAGS" => v = {}
    PROVE  SetsOther(b, p, j, [p EXCEPT ![j] = v])
<1> DEFINE q == [p EXCEPT ![j] = v]
<1>1. IsConf(p) /\ j \in Keys
  BY KeysAre DEF Regular
<1>2. q = [k \in Keys |-> q[k]] /\ q[j] = v /\ \A k \in Keys \ {j} : q[k] = p[k]
  BY <1>1 DEF IsConf
<1> HIDE DEF q
<1>3. /\ IsConf(q) /\ Val(b, q, j) = v
      /\ \A k \in Keys \ {j} : Val(b, q, k) = Val(b, p, k)
  BY <1>1, <1>2, SetIs
<1>4. /\ \A k \in FlagKeys : Val(b, q, k) = Val(b, p, k)
      /\ Val(b, q, "LTOFLAGS") = IF j = "LTOFLAGS" THEN {} ELSE Val(b, p, "LTOFLAGS")
      /\ q["RUSTFLAGS"] = p["RUSTFLAGS"]
  BY <1>2, <1>3, KeysAre
<1>5. /\ \A k \in ValueKeys : Val(b, q, k) \subseteq Val(b, p, k)
      /\ Val(b, q, "LDFLAGS") \cap LinkTokens = Val(b, p, "LDFLAGS") \cap LinkTokens
  BY <1>4, KeysAre DEF ValueKeys
<1>6. SameLinked(b, p, q)
  BY <1>3, <1>4, <1>5, FewerLinked
<1> QED BY <1>4, <1>6 DEF q, SetsOther

\* Full LTO goes, from every key.
DropsFull(b, p, q) ==
    /\ SameLinked(b, p, q) /\ Val(b, q, "LTOFLAGS") = {}
    /\ \A k \in FlagKeys : Val(b, q, k) = Val(b, p, k) \ FullLto

\* After it no key holds full LTO, and the linker is the same.
LEMMA NoFullLtoIs ==
    ASSUME Meant, NEW b, WellConfigured(b, Tokens), NEW p, Regular(b, p), Linked(b, p)
    PROVE  DropsFull(b, p, NoFullLto(b, p))
<1> DEFINE s == Strip(b, p, FlagKeys, FullLto)
           q == [s EXCEPT !["LTOFLAGS"] = {}]
<1>1. Strips(b, p, FullLto, s)
  BY StripLinked, TokensDiffer
<1>2. q = NoFullLto(b, p)
  BY DEF NoFullLto
<1> HIDE DEF s
<1>3. Regular(b, s) /\ Linked(b, s)
  BY <1>1 DEF Strips, SameLinked
<1>4. SetsOther(b, s, "LTOFLAGS", q)
  BY <1>3, SetLinked
<1> HIDE DEF q
<1>5. DropsFull(b, p, q)
  BY <1>1, <1>4 DEF DropsFull, Strips, SameLinked, SetsOther
<1> QED BY <1>2, <1>5

\* What gcc was denied stays denied.
LEMMA FewerForGcc ==
    ASSUME NEW b, NEW p, ForGcc(b, p), NEW q, EffectiveLinker(b, q) = EffectiveLinker(b, p),
           \A k \in ValueKeys : Val(b, q, k) \subseteq Val(b, p, k)
    PROVE  ForGcc(b, q)
BY DEF ForGcc

\* What gcc and its linker cannot take goes.
LEMMA GccFitIs ==
    ASSUME Meant, NEW b, WellConfigured(b, Tokens), NEW p, Regular(b, p), Linked(b, p)
    PROVE  Regular(b, GccFit(b, p)) /\ Linked(b, GccFit(b, p)) /\ ForGcc(b, GccFit(b, p))
<1> DEFINE f == FullForThin(b, p)
           r == NoFullLto(b, f)
           o == Eff(b, p, "OPTIONS")
<1>1. SameLinked(b, p, f) /\ NoThin(b, f)
  BY FullForThinIs
<1> HIDE DEF f
<1>2. DropsFull(b, f, r)
  BY <1>1, NoFullLtoIs DEF SameLinked
<1> HIDE DEF r
<1>3. \A k \in ValueKeys : Val(b, r, k) \cap LtoTokens = {}
  BY <1>1, <1>2, TokensDiffer DEF NoThin, DropsFull, ValueKeys
<1>4. Regular(b, r) /\ Linked(b, r) /\ ForGcc(b, r)
  BY <1>2, <1>3, TokensDiffer DEF DropsFull, SameLinked, ForGcc
<1>5. CASE ~UsesGcc(b)
  <2>1. GccFit(b, p) = p
    BY <1>5 DEF GccFit
  <2> QED BY <2>1, <1>5 DEF ForGcc
<1>6. CASE UsesGcc(b) /\ EffectiveLinker(b, p) # "lld"
  <2>1. GccFit(b, p) = f
    BY <1>6 DEF GccFit, f
  <2> QED BY <2>1, <1>1, <1>6 DEF SameLinked, NoThin, ForGcc
<1>7. CASE UsesGcc(b) /\ EffectiveLinker(b, p) = "lld" /\ (o = Absent \/ "lto" \notin o)
  <2>1. GccFit(b, p) = r
    BY <1>7 DEF GccFit, f, r
  <2> QED BY <2>1, <1>4
<1>8. CASE UsesGcc(b) /\ EffectiveLinker(b, p) = "lld" /\ ~(o = Absent \/ "lto" \notin o)
  <2> DEFINE v == (o \ {"lto"}) \cup {"!lto"}
             q == [r EXCEPT !["OPTIONS"] = v]
  <2>1. GccFit(b, p) = q
    BY <1>8 DEF GccFit, f, r
  <2>2. o \in SUBSET Tokens
    <3>1. IsConf(p) /\ IsConf(b.system) /\ "OPTIONS" \in Keys
      BY BothConfs, KeysAre DEF Regular
    <3> QED BY <3>1, <1>8 DEF IsConf, Eff, ValueOr
  <2>3. v \in SUBSET Tokens
    BY <2>2 DEF Meant, Named
  <2> HIDE DEF v
  <2>4. SetsOther(b, r, "OPTIONS", q)
    BY <2>3, <1>4, SetLinked
  <2> HIDE DEF q
  <2>5. ForGcc(b, q)
    BY <2>4, <1>4, FewerForGcc DEF ValueKeys, SameLinked, SetsOther
  <2> QED BY <2>1, <2>4, <2>5 DEF SameLinked, SetsOther
<1> QED BY <1>5, <1>6, <1>7, <1>8

NoLto(b, p) == b.noLto => \A k \in ValueKeys : Val(b, p, k) \cap LtoTokens = {}
Fitted(b, p) == Regular(b, p) /\ Linked(b, p) /\ ForGcc(b, p) /\ NoLto(b, p)

\* What the PKGBUILD forbids goes.
LEMMA LtoFitIs ==
    ASSUME Meant, NEW b, WellConfigured(b, Tokens), NEW p, Regular(b, p), Linked(b, p), ForGcc(b, p)
    PROVE  Fitted(b, LtoFit(b, p))
<1> DEFINE q == IF b.noFullLto THEN NoFullLto(b, p) ELSE p
           r == Strip(b, q, FlagKeys, LtoTokens)
           e == [r EXCEPT !["LTOFLAGS"] = {}]
<1>1. Regular(b, q) /\ Linked(b, q) /\ ForGcc(b, q)
  <2>1. CASE b.noFullLto
    <3>1. DropsFull(b, p, NoFullLto(b, p))
      BY NoFullLtoIs
    <3>2. ForGcc(b, NoFullLto(b, p))
      BY <3>1, FewerForGcc DEF DropsFull, SameLinked, ValueKeys
    <3> QED BY <2>1, <3>1, <3>2 DEF DropsFull, SameLinked
  <2>2. CASE ~b.noFullLto
    BY <2>2
  <2> QED BY <2>1, <2>2
<1>2. LtoFit(b, p) = IF ~b.noLto THEN q ELSE IF Eff(b, q, "LTOFLAGS") = Absent THEN r ELSE e
  BY DEF LtoFit
<1> HIDE DEF q
<1>3. Strips(b, q, LtoTokens, r)
  BY <1>1, StripLinked, TokensDiffer
<1> HIDE DEF r
<1>4. Regular(b, r) /\ Linked(b, r) /\ ForGcc(b, r) /\ \A k \in FlagKeys : Val(b, r, k) \cap LtoTokens = {}
  <2>1. \A k \in ValueKeys : Val(b, r, k) \subseteq Val(b, q, k)
    BY <1>3 DEF Strips, ValueKeys
  <2> QED BY <2>1, <1>1, <1>3, FewerForGcc DEF Strips, SameLinked
<1>5. SetsOther(b, r, "LTOFLAGS", e)
  BY <1>4, SetLinked
<1> HIDE DEF e
<1>6. CASE ~b.noLto
  BY <1>1, <1>2, <1>6 DEF Fitted, NoLto
<1>7. CASE b.noLto /\ Eff(b, q, "LTOFLAGS") = Absent
  <2>1. Val(b, r, "LTOFLAGS") = {}
    BY <1>3, <1>7 DEF Strips, Val
  <2> QED BY <2>1, <1>2, <1>4, <1>7 DEF Fitted, NoLto, ValueKeys
<1>8. CASE b.noLto /\ Eff(b, q, "LTOFLAGS") # Absent
  <2>1. ForGcc(b, e)
    BY <1>4, <1>5, FewerForGcc DEF SameLinked, ValueKeys, SetsOther
  <2> QED BY <2>1, <1>2, <1>4, <1>5, <1>8 DEF Fitted, NoLto, ValueKeys, SameLinked, SetsOther
<1> QED BY <1>6, <1>7, <1>8
-----------------------------------------------------------------------------
(* The extra flags, and the packages that cannot take them.                 *)

\* Where the values stand once the flags of a PGO build were added.
Settled(b, p) ==
    /\ IsConf(p) /\ Linked(b, p) /\ ForGcc(b, p) /\ NoLto(b, p) /\ Apart(Val(b, p, "LDFLAGS"))
    /\ Val(b, p, "LTOFLAGS") \cap PgoTokens = {}
    /\ \A k \in ValueKeys : /\ k # "LDFLAGS" => Val(b, p, k) \cap LldOnly = {}
                            /\ k \notin {"CFLAGS", "CXXFLAGS"} => Val(b, p, k) \cap Marches = {}

\* The extra flags of a PGO build disturb neither linker nor LTO.
LEMMA ExtendedIs ==
    ASSUME Meant, NEW b, WellConfigured(b, Tokens), NEW p, Fitted(b, p)
    PROVE  Settled(b, Extended(b, p))
<1> DEFINE e == Extended(b, p)
<1>1. IsConf(p) /\ IsConf(b.system) /\ ValueKeys \subseteq Keys /\ FlagKeys \subseteq Keys
      /\ "LDFLAGS" \in ValueKeys /\ "LDFLAGS" \in FlagKeys /\ "RUSTFLAGS" \in Keys \ FlagKeys
      /\ "LTOFLAGS" \in ValueKeys \ FlagKeys
  BY BothConfs, KeysAre DEF Fitted, Regular, ValueKeys
<1>2. \A k \in Keys : Val(b, p, k) \in SUBSET Tokens
  BY <1>1, ValIs
<1>3. b.extra \subseteq PgoTokens /\ b.extra \in SUBSET Tokens
  BY DEF WellConfigured, Meant, Named
<1>4. /\ e = [k \in Keys |-> e[k]]
      /\ \A k \in Keys : e[k] = p[k] \/ (k \in FlagKeys /\ e[k] = Val(b, p, k) \cup b.extra)
  BY DEF Extended, Val
<1> HIDE DEF e
<1>5. IsConf(e)
  BY <1>1, <1>2, <1>3, <1>4 DEF IsConf
<1>6. \A k \in Keys : Val(b, e, k) = Val(b, p, k) \/ (k \in FlagKeys /\ Val(b, e, k) = Val(b, p, k) \cup b.extra)
  <2> SUFFICES ASSUME NEW k \in Keys
               PROVE  Val(b, e, k) = Val(b, p, k) \/ (k \in FlagKeys /\ Val(b, e, k) = Val(b, p, k) \cup b.extra)
    OBVIOUS
  <2>1. CASE e[k] = p[k]
    BY <2>1 DEF Val, Eff, ValueOr
  <2>2. CASE k \in FlagKeys /\ e[k] = Val(b, p, k) \cup b.extra
    <3>1. e[k] \in SUBSET Tokens
      BY <2>2, <1>2, <1>3
    <3>2. e[k] # Absent
      BY <3>1 DEF Meant
    <3>3. Val(b, e, k) = e[k]
      BY <3>2 DEF Val, Eff, ValueOr
    <3> QED BY <3>3, <2>2
  <2> QED BY <1>4, <2>1, <2>2
<1>7. e["RUSTFLAGS"] = p["RUSTFLAGS"] /\ Val(b, e, "LTOFLAGS") = Val(b, p, "LTOFLAGS")
  BY <1>1, <1>4, <1>6
<1>8. /\ Val(b, e, "LDFLAGS") \cap LinkTokens = Val(b, p, "LDFLAGS") \cap LinkTokens
      /\ Val(b, e, "LDFLAGS") \cap LldOnly \subseteq Val(b, p, "LDFLAGS")
  BY <1>1, <1>3, <1>6, TokensDiffer
<1>9. Linked(b, e) /\ EffectiveLinker(b, e) = EffectiveLinker(b, p)
  BY <1>1, <1>5, <1>7, <1>8, KeepsLinked DEF Fitted
<1>10. \A k \in ValueKeys : Val(b, e, k) \cap (LldOnly \cup LtoTokens \cup Marches) = Val(b, p, k) \cap (LldOnly \cup LtoTokens \cup Marches)
  BY <1>1, <1>3, <1>6, TokensDiffer
<1>11. ForGcc(b, e) /\ NoLto(b, e)
  BY <1>9, <1>10, TokensDiffer DEF Fitted, ForGcc, NoLto
<1>12. Apart(Val(b, e, "LDFLAGS"))
  <2> DEFINE v == Val(b, p, "LDFLAGS")
  <2>1. Apart(v) /\ v \cap PgoTokens = {}
    BY <1>1 DEF Fitted, Regular, ValueKeys
  <2>2. \A t, u \in b.extra : ~Clash(t, u)
    BY DEF WellConfigured
  <2> HIDE DEF v
  <2>3. \A t \in b.extra, u \in v : ClassOf(t) # ClassOf(u)
    <3>1. \A t \in b.extra : t \notin ClassNames /\ t \in PgoTokens
      BY <1>3 DEF PgoTokens, ClassNames
    <3>2. \A u \in v : u \notin ClassNames /\ u \notin PgoTokens
      BY <2>1 DEF Apart
    <3> QED BY <3>1, <3>2, LinkerClass
  <2>4. b.extra \cap ClassNames = {}
    BY <1>3 DEF PgoTokens, ClassNames
  <2>5. Apart(v \cup b.extra)
    BY <2>1, <2>2, <2>3, <2>4 DEF Apart, Clash
  <2>6. Val(b, e, "LDFLAGS") = v \/ Val(b, e, "LDFLAGS") = v \cup b.extra
    BY <1>1, <1>6 DEF v
  <2> QED BY <2>1, <2>5, <2>6
<1>13. /\ Val(b, e, "LTOFLAGS") \cap PgoTokens = {}
       /\ \A k \in ValueKeys : /\ k # "LDFLAGS" => Val(b, e, k) \cap LldOnly = {}
                               /\ k \notin {"CFLAGS", "CXXFLAGS"} => Val(b, e, k) \cap Marches = {}
  BY <1>1, <1>7, <1>10 DEF Fitted, Regular, ValueKeys
<1> QED BY <1>5, <1>9, <1>11, <1>12, <1>13 DEF Settled, e

\* What a 32-bit package cannot take; absent keys stay absent.
For32(b, p) ==
    b.lib32 => /\ \A k \in {"CFLAGS", "CXXFLAGS"} : p[k] # Absent => p[k] \cap (Marches \cup PgoTokens) = {}
               /\ p["LDFLAGS"] # Absent => p["LDFLAGS"] \cap PgoTokens = {}

\* A 32-bit package loses what it cannot take from the keys that are there.
LEMMA Lib32FitIs ==
    ASSUME Meant, NEW b, WellConfigured(b, Tokens), NEW p, Settled(b, p)
    PROVE  Settled(b, Lib32Fit(b, p)) /\ For32(b, Lib32Fit(b, p))
<1> DEFINE l == Lib32Fit(b, p)
<1>1. CASE ~b.lib32
  <2>1. l = p
    BY <1>1 DEF Lib32Fit
  <2> QED BY <2>1, <1>1 DEF For32
<1>2. CASE b.lib32
  <2>1. IsConf(p) /\ IsConf(b.system) /\ ValueKeys \subseteq Keys /\ {"RUSTFLAGS", "LTOFLAGS"} \subseteq Keys \ FlagKeys
        /\ "LDFLAGS" \in ValueKeys /\ {"CFLAGS", "CXXFLAGS", "LDFLAGS"} \subseteq Keys
    BY BothConfs, KeysAre DEF Settled, ValueKeys
  <2>2. /\ l = [k \in Keys |-> l[k]]
        /\ \A k \in Keys : p[k] = Absent => l[k] = Absent
        /\ \A k \in Keys : p[k] # Absent =>
              l[k] = IF k \in {"CFLAGS", "CXXFLAGS"} THEN p[k] \ (Marches \cup PgoTokens)
                     ELSE IF k = "LDFLAGS" THEN p[k] \ (LldOnly \cup PgoTokens) ELSE p[k]
    BY <1>2 DEF Lib32Fit
  <2> HIDE DEF l
  <2>3. IsConf(l)
    BY <2>1, <2>2 DEF IsConf
  <2>4. \A k \in Keys : l[k] = Absent <=> p[k] = Absent
    <3> SUFFICES ASSUME NEW k \in Keys, p[k] # Absent PROVE l[k] # Absent
      BY <2>2
    <3>1. p[k] \in SUBSET Tokens
      BY <2>1 DEF IsConf
    <3>2. l[k] \in SUBSET Tokens
      BY <3>1, <2>2
    <3> QED BY <3>2 DEF Meant
  <2>5. For32(b, l)
    BY <2>1, <2>2, <2>4 DEF For32
  <2>6. \A k \in Keys : Val(b, l, k) \subseteq Val(b, p, k)
    BY <2>2, <2>4 DEF Val, Eff, ValueOr
  <2>7. /\ Val(b, l, "LDFLAGS") \cap LinkTokens = Val(b, p, "LDFLAGS") \cap LinkTokens
    BY <2>1, <2>2, <2>4, TokensDiffer DEF Val, Eff, ValueOr
  <2>8. l["RUSTFLAGS"] = p["RUSTFLAGS"]
    BY <2>1, <2>2, KeysAre
  <2>9. Linked(b, l) /\ EffectiveLinker(b, l) = EffectiveLinker(b, p)
    BY <2>1, <2>3, <2>6, <2>7, <2>8, KeepsLinked DEF Settled
  <2>10. ForGcc(b, l) /\ NoLto(b, l)
    BY <2>1, <2>6, <2>9, FewerForGcc DEF Settled, NoLto
  <2>11. Apart(Val(b, l, "LDFLAGS"))
    BY <2>1, <2>6, FewerApart DEF Settled
  <2>12. Settled(b, l)
    BY <2>1, <2>3, <2>6, <2>9, <2>10, <2>11 DEF Settled
  <2> QED BY <2>5, <2>12 DEF l
<1> QED BY <1>1, <1>2

\* What static musl code cannot take.
ForMusl(b, p) ==
    b.musl => /\ \A k \in FlagKeys : Val(b, p, k) \cap PgoTokens = {}
              /\ Val(b, p, "LDFLAGS") \cap (LldOnly \cup {Lld}) = {}

\* What the correction for musl leaves of a conf.
Leaves(b, p, q) ==
    /\ IsConf(q) /\ Apart(Val(b, q, "LDFLAGS"))
    /\ \A k \in Keys \ FlagKeys : q[k] = p[k]
    /\ \A k \in FlagKeys : Val(b, q, k) \subseteq Val(b, p, k) \cup {Bfd} /\ (k # "LDFLAGS" => Bfd \notin Val(b, q, k) \ Val(b, p, k))
    /\ ~b.musl => q = p

\* bfd in the place of lld.
LEMMA MuslLinks ==
    ASSUME Meant, NEW b, WellConfigured(b, Tokens), NEW p, IsConf(p), Apart(Val(b, p, "LDFLAGS")),
           NEW v, v = Val(b, p, "LDFLAGS"),
           NEW w, w = (IF "lld" \in LinkersOf(v) THEN InjectLinker(v, "bfd") ELSE v) \ LldOnly
    PROVE  w \in SUBSET Tokens /\ Apart(w) /\ w \subseteq v \cup {Bfd} /\ w \cap (LldOnly \cup {Lld}) = {}
<1>1. IsConf(b.system) /\ "LDFLAGS" \in Keys /\ v \in SUBSET Tokens
  <2>1. IsConf(b.system) /\ "LDFLAGS" \in Keys
    BY BothConfs, KeysAre
  <2> QED BY <2>1, ValIs
<1>2. Bfd \in Tokens /\ Bfd \notin LldOnly /\ Bfd # Lld
  BY DEF Meant, Named, Bfd, Lld, LldOnly
<1>3. CASE "lld" \in LinkersOf(v)
  <2>1. /\ Apart(InjectLinker(v, "bfd"))
        /\ \E t \in LinkTokens : Linker[t] = "bfd" /\ InjectLinker(v, "bfd") = (v \ LinkTokens) \cup {t}
    BY InjectApart
  <2>2. InjectLinker(v, "bfd") = (v \ LinkTokens) \cup {Bfd}
    BY <2>1 DEF Linker, LinkTokens, Lld, Bfd
  <2>3. w = InjectLinker(v, "bfd") \ LldOnly
    BY <1>3
  <2>4. Apart(w)
    BY <2>1, <2>3, FewerApart
  <2> QED BY <2>2, <2>3, <2>4, <1>1, <1>2 DEF LinkTokens
<1>4. CASE "lld" \notin LinkersOf(v)
  <2>1. Lld \notin v
    BY <1>4 DEF LinkersOf, Linker
  <2>2. Apart(w)
    BY <1>4, FewerApart
  <2> QED BY <2>1, <2>2, <1>1, <1>4
<1> QED BY <1>3, <1>4

\* A static musl package loses lld and the profile data, and nothing else.
LEMMA MuslFitIs ==
    ASSUME Meant, NEW b, WellConfigured(b, Tokens), NEW p, Settled(b, p), For32(b, p)
    PROVE  LET m == MuslFit(b, p) IN Leaves(b, p, m) /\ ForMusl(b, m) /\ For32(b, m)
<1> DEFINE m == MuslFit(b, p)
           v == Val(b, p, "LDFLAGS")
           w == (IF "lld" \in LinkersOf(v) THEN InjectLinker(v, "bfd") ELSE v) \ LldOnly
           q == IF "lld" \notin LinkersOf(v) /\ v \cap LldOnly = {} THEN p ELSE [p EXCEPT !["LDFLAGS"] = w]
           s == Strip(b, q, FlagKeys, PgoTokens)
<1>1. /\ IsConf(p) /\ IsConf(b.system) /\ "LDFLAGS" \in Keys /\ FlagKeys \subseteq Keys /\ "LDFLAGS" \in FlagKeys
      /\ Apart(v) /\ Eff(b, p, "LDFLAGS") # Absent /\ v = Eff(b, p, "LDFLAGS")
  BY BothConfs, KeysAre, LinkerValue DEF Settled
<1>2. CASE ~b.musl
  <2>1. m = p
    BY <1>2 DEF MuslFit
  <2> QED BY <2>1, <1>1, <1>2 DEF Leaves, ForMusl
<1>3. CASE b.musl
  <2>1. m = s
    BY <1>1, <1>3 DEF MuslFit
  <2>2. w \in SUBSET Tokens /\ Apart(w) /\ w \subseteq v \cup {Bfd} /\ w \cap (LldOnly \cup {Lld}) = {}
    BY <1>1, MuslLinks
  <2> HIDE DEF w
  <2>3. /\ IsConf(q) /\ \A k \in Keys \ {"LDFLAGS"} : q[k] = p[k] /\ Val(b, q, k) = Val(b, p, k)
        /\ Val(b, q, "LDFLAGS") \subseteq v \cup {Bfd} /\ Apart(Val(b, q, "LDFLAGS"))
        /\ Val(b, q, "LDFLAGS") \cap (LldOnly \cup {Lld}) = {}
    <3>1. CASE "lld" \notin LinkersOf(v) /\ v \cap LldOnly = {}
      <4>1. q = p
        BY <3>1
      <4>2. Lld \notin v
        BY <3>1 DEF LinkersOf, Linker
      <4> HIDE DEF q
      <4> QED BY <4>1, <4>2, <3>1, <1>1
    <3>2. CASE ~("lld" \notin LinkersOf(v) /\ v \cap LldOnly = {})
      <4>1. q = [p EXCEPT !["LDFLAGS"] = w]
        BY <3>2
      <4> HIDE DEF q, v, s, m
      <4>2. q = [k \in Keys |-> q[k]] /\ q["LDFLAGS"] = w /\ \A k \in Keys \ {"LDFLAGS"} : q[k] = p[k]
        BY <4>1, <1>1 DEF IsConf
      <4>3. w \in SUBSET Tokens /\ IsConf(p) /\ "LDFLAGS" \in Keys
        BY <2>2, <1>1
      <4>4. IsConf(q) /\ Val(b, q, "LDFLAGS") = w /\ \A k \in Keys \ {"LDFLAGS"} : Val(b, q, k) = Val(b, p, k)
        BY <4>2, <4>3, SetIs
      <4> QED BY <4>2, <4>4, <2>2 DEF v
    <3> QED BY <3>1, <3>2
  <2> HIDE DEF q
  <2>4. Loses(b, q, FlagKeys, PgoTokens, s)
    BY <2>3, <1>1, StripIs
  <2>5. \A k \in Keys : s[k] # Absent => s[k] = Val(b, s, k)
    BY DEF Val, Eff, ValueOr
  <2>6. ForMusl(b, s)
    BY <2>3, <2>4, <1>1 DEF ForMusl, Loses
  <2>7. Apart(Val(b, s, "LDFLAGS"))
    BY <2>3, <2>4, <1>1, FewerApart DEF Loses
  <2>8. Leaves(b, p, s)
    BY <2>3, <2>4, <2>7, <1>1, <1>3 DEF Loses, Leaves
  <2>9. ASSUME b.lib32, NEW k \in {"CFLAGS", "CXXFLAGS"}, s[k] # Absent PROVE s[k] \cap (Marches \cup PgoTokens) = {}
    <3>0. k \in FlagKeys /\ k \in Keys /\ k # "LDFLAGS" /\ q[k] = p[k]
      BY <2>3, KeysAre
    <3>1. CASE p[k] = Absent
      <4>1. Eff(b, q, k) = b.system[k] /\ (b.system[k] # Absent => b.system[k] \cap PgoTokens = {})
        BY <3>0, <3>1 DEF Eff, ValueOr, WellConfigured, Placed
      <4>2. s[k] = q[k]
        BY <4>1, <3>0 DEF Strip
      <4> QED BY <4>2, <3>0, <3>1, <2>9
    <3>2. CASE p[k] # Absent
      <4>1. Val(b, s, k) = Val(b, q, k) \ PgoTokens /\ Val(b, q, k) = p[k]
        BY <3>0, <3>2, <2>3, <2>4 DEF Loses, Val, Eff, ValueOr
      <4>2. p[k] \cap Marches = {}
        BY <2>9, <3>2 DEF For32
      <4> QED BY <4>1, <4>2, <2>5, <2>9, <3>0
    <3> QED BY <3>1, <3>2
  <2>10. s["LDFLAGS"] # Absent => s["LDFLAGS"] \cap PgoTokens = {}
    BY <2>4, <2>5, <1>1 DEF Loses
  <2>11. For32(b, s)
    BY <2>9, <2>10 DEF For32
  <2> QED BY <2>1, <2>6, <2>8, <2>11
<1> QED BY <1>2, <1>3

-----------------------------------------------------------------------------
(* The file.                                                                *)

Out(o, k) == IF o[k] = Absent THEN {} ELSE o[k]

\* Given, key by key.
LEMMA GivenIs == ASSUME NEW o PROVE Given(o) = UNION {Out(o, k) : k \in ValueKeys}
BY DEF Given, Out, ValueKeys

\* What the file holds of the corrected profile and of the system's conf.
Writes(b, p, o) ==
    /\ \A k \in Keys : Out(o, k) \subseteq Val(b, p, k)
    /\ o["LDFLAGS"] # Absent /\ o["LDFLAGS"] \cap LinkTokens = Val(b, p, "LDFLAGS") \cap LinkTokens
    /\ o["RUSTFLAGS"] \notin {Absent, {}} => o["RUSTFLAGS"] = p["RUSTFLAGS"]
    /\ b.lib32 => \A k \in FlagKeys : Out(o, k) \cap PgoTokens = {} /\ (k # "LDFLAGS" => Out(o, k) \cap Marches = {})

\* write_makepkg_conf: what reaches the file is worth no more than the corrected
\* profile, and for a 32-bit package the system's own values are corrected too.
LEMMA WrittenIs ==
    ASSUME Meant, NEW b, WellConfigured(b, Tokens), NEW p, IsConf(p), For32(b, p)
    PROVE  Writes(b, p, Written(b, p))
<1> DEFINE o == Written(b, p)
<1>1. /\ IsConf(b.system) /\ b.system["LDFLAGS"] # Absent /\ b.system["RUSTFLAGS"] \in {Absent, {}}
      /\ {"CFLAGS", "CXXFLAGS", "LDFLAGS", "RUSTFLAGS"} \subseteq Keys /\ FlagKeys = {"CFLAGS", "CXXFLAGS", "LDFLAGS"}
      /\ \A k \in FlagKeys : b.system[k] # Absent => b.system[k] \cap PgoTokens = {}
  BY BothConfs, KeysAre DEF WellConfigured, Placed
<1>2. \A k \in Keys : o[k] = IF p[k] # Absent \/ b.system[k] = Absent THEN p[k]
                             ELSE IF b.lib32 /\ k \in {"CFLAGS", "CXXFLAGS"} THEN b.system[k] \ Marches
                             ELSE IF b.lib32 /\ k = "LDFLAGS" THEN b.system[k] \ LldOnly
                             ELSE b.system[k]
  BY DEF Written
<1> HIDE DEF o
<1>3. \A k \in Keys : p[k] # Absent => o[k] = p[k] /\ Out(o, k) = p[k] /\ Val(b, p, k) = p[k]
  BY <1>2 DEF Out, Val, Eff, ValueOr
<1>4. \A k \in Keys : p[k] = Absent /\ b.system[k] = Absent => Out(o, k) = {} /\ Val(b, p, k) = {}
  BY <1>2 DEF Out, Val, Eff, ValueOr
<1>5. \A k \in Keys : p[k] = Absent /\ b.system[k] # Absent =>
         /\ Val(b, p, k) = b.system[k] /\ b.system[k] \in SUBSET Tokens
         /\ o[k] = IF b.lib32 /\ k \in {"CFLAGS", "CXXFLAGS"} THEN b.system[k] \ Marches
                   ELSE IF b.lib32 /\ k = "LDFLAGS" THEN b.system[k] \ LldOnly
                   ELSE b.system[k]
  BY <1>1, <1>2 DEF Val, Eff, ValueOr, IsConf
<1>6. \A k \in Keys : p[k] = Absent /\ b.system[k] # Absent => o[k] \in SUBSET Tokens /\ o[k] \subseteq b.system[k]
  BY <1>5
<1>7. \A k \in Keys : p[k] = Absent /\ b.system[k] # Absent => o[k] # Absent /\ Out(o, k) = o[k]
  BY <1>6 DEF Out, Meant
<1>8. \A k \in Keys : Out(o, k) \subseteq Val(b, p, k)
  BY <1>3, <1>4, <1>5, <1>6, <1>7
<1>9. o["LDFLAGS"] # Absent /\ o["LDFLAGS"] \cap LinkTokens = Val(b, p, "LDFLAGS") \cap LinkTokens
  <2>1. CASE p["LDFLAGS"] # Absent
    BY <2>1, <1>1, <1>3
  <2>2. CASE p["LDFLAGS"] = Absent
    <3>1. /\ o["LDFLAGS"] # Absent /\ Val(b, p, "LDFLAGS") = b.system["LDFLAGS"]
          /\ o["LDFLAGS"] = b.system["LDFLAGS"] \/ o["LDFLAGS"] = b.system["LDFLAGS"] \ LldOnly
      BY <2>2, <1>1, <1>5, <1>7
    <3> QED BY <3>1, TokensDiffer
  <2> QED BY <2>1, <2>2
<1>10. o["RUSTFLAGS"] \notin {Absent, {}} => o["RUSTFLAGS"] = p["RUSTFLAGS"]
  BY <1>1, <1>2
<1>11. ASSUME b.lib32, NEW k \in FlagKeys
       PROVE  Out(o, k) \cap PgoTokens = {} /\ (k # "LDFLAGS" => Out(o, k) \cap Marches = {})
  <2>0. k \in Keys /\ (k # "LDFLAGS" => k \in {"CFLAGS", "CXXFLAGS"})
    BY <1>1
  <2>1. CASE p[k] # Absent
    BY <2>0, <2>1, <1>3, <1>11 DEF For32
  <2>2. CASE p[k] = Absent /\ b.system[k] = Absent
    BY <2>0, <2>2, <1>4
  <2>3. CASE p[k] = Absent /\ b.system[k] # Absent
    <3>1. Out(o, k) = o[k] /\ o[k] \subseteq b.system[k] /\ b.system[k] \cap PgoTokens = {}
      BY <2>0, <2>3, <1>1, <1>6, <1>7
    <3>2. k # "LDFLAGS" => o[k] = b.system[k] \ Marches
      BY <2>0, <2>3, <1>5, <1>11
    <3> QED BY <3>1, <3>2
  <2> QED BY <2>1, <2>2, <2>3
<1> QED BY <1>8, <1>9, <1>10, <1>11 DEF Writes, o

\* The conf of a build.
LEMMA EmittedIs ==
    ASSUME Meant, NEW b, WellConfigured(b, Tokens)
    PROVE  \E l, m : /\ Settled(b, l) /\ For32(b, l)
                     /\ Leaves(b, l, m) /\ ForMusl(b, m) /\ For32(b, m)
                     /\ Emitted(b) = Written(b, m)
<1> DEFINE p1 == Preserved(b, Filtered(b))
           p2 == Overridden(b, p1)
           p3 == LinkerFit(b, p2)
           p4 == GccFit(b, p3)
           p5 == LtoFit(b, p4)
           p6 == Extended(b, p5)
           l  == Lib32Fit(b, p6)
           m  == MuslFit(b, l)
<1>1. Emitted(b) = Written(b, m)
  BY DEF Emitted
<1>2. Regular(b, p1)
  BY PreservedRegular
<1> HIDE DEF p1
<1>3. Regular(b, p2)
  BY <1>2, OverriddenRegular
<1> HIDE DEF p2
<1>4. Regular(b, p3) /\ Linked(b, p3)
  BY <1>3, LinkerFitLinked
<1> HIDE DEF p3
<1>5. Regular(b, p4) /\ Linked(b, p4) /\ ForGcc(b, p4)
  BY <1>4, GccFitIs
<1> HIDE DEF p4
<1>6. Fitted(b, p5)
  BY <1>5, LtoFitIs
<1> HIDE DEF p5
<1>7. Settled(b, p6)
  BY <1>6, ExtendedIs
<1> HIDE DEF p6
<1>8. Settled(b, l) /\ For32(b, l)
  BY <1>7, Lib32FitIs
<1> HIDE DEF l
<1>9. Leaves(b, l, m) /\ ForMusl(b, m) /\ For32(b, m)
  BY <1>8, MuslFitIs
<1> HIDE DEF m
<1> QED BY <1>1, <1>8, <1>9

(***************************************************************************)
(* THEOREM FlagsFit: the conf that makepkg_conf writes is one toolchain's, *)
(* for any system, profile, preserve set and circumstances of the package: *)
(* no flag of lld's for another linker, no thin LTO for gcc and none where *)
(* lld links, rustc and the rest with one linker, and nothing in it that a *)
(* PKGBUILD, a 32-bit or a static musl package cannot take.                *)
(***************************************************************************)
THEOREM FlagsFit ==
    ASSUME Meant, NEW b, WellConfigured(b, Tokens)
    PROVE  OneToolchain(b, Emitted(b))
<1> DEFINE o == Emitted(b)
<1>1. PICK l, m : /\ Settled(b, l) /\ For32(b, l)
                  /\ Leaves(b, l, m) /\ ForMusl(b, m) /\ For32(b, m)
                  /\ o = Written(b, m)
  BY EmittedIs
<1> HIDE DEF o
<1>2. IsConf(l) /\ IsConf(m) /\ ValueKeys \subseteq Keys /\ FlagKeys \subseteq ValueKeys /\ "LTOFLAGS" \in Keys \ FlagKeys
      /\ {"LDFLAGS", "LTOFLAGS"} \subseteq ValueKeys /\ "LDFLAGS" \in FlagKeys /\ "RUSTFLAGS" \in Keys \ FlagKeys
      /\ ValueKeys = {"CFLAGS", "CXXFLAGS", "LDFLAGS", "LTOFLAGS"} /\ FlagKeys = {"CFLAGS", "CXXFLAGS", "LDFLAGS"}
  BY <1>1, KeysAre DEF Settled, Leaves, ValueKeys
<1>3. Writes(b, m, o)
  BY <1>1, <1>2, WrittenIs
<1>4. Val(b, m, "LTOFLAGS") = Val(b, l, "LTOFLAGS") /\ m["RUSTFLAGS"] = l["RUSTFLAGS"]
  <2>1. m["LTOFLAGS"] = l["LTOFLAGS"] /\ m["RUSTFLAGS"] = l["RUSTFLAGS"]
    BY <1>1, <1>2 DEF Leaves
  <2> QED BY <2>1 DEF Val, Eff, ValueOr
<1>5. \A k \in ValueKeys : Out(o, k) \subseteq Val(b, m, k) /\ Out(o, k) \subseteq Val(b, l, k) \cup {Bfd}
  BY <1>1, <1>2, <1>3, <1>4 DEF Writes, Leaves
<1>6. o["LDFLAGS"] = Out(o, "LDFLAGS") /\ o["LDFLAGS"] # Absent /\ Apart(o["LDFLAGS"])
  <2>1. o["LDFLAGS"] = Out(o, "LDFLAGS") /\ o["LDFLAGS"] # Absent
    BY <1>3 DEF Writes, Out
  <2> QED BY <2>1, <1>1, <1>2, <1>5, FewerApart DEF Leaves
<1>7. b.musl => LinkerOf(o) # "lld"
  <2> SUFFICES ASSUME b.musl, LinkerOf(o) = "lld" PROVE FALSE
    OBVIOUS
  <2>1. PICK t \in o["LDFLAGS"] \cap LinkTokens : "lld" = Linker[t]
    BY <1>6, TheLinker DEF LinkerOf
  <2>2. t = Lld
    BY <2>1 DEF LinkTokens, Linker, Lld, Bfd
  <2>3. Lld \notin Val(b, m, "LDFLAGS")
    BY <1>1 DEF ForMusl
  <2> QED BY <2>1, <2>2, <2>3, <1>2, <1>5, <1>6
<1>8. ~b.musl => LinkerOf(o) = EffectiveLinker(b, l)
  <2> SUFFICES ASSUME ~b.musl PROVE LinkerOf(o) = EffectiveLinker(b, l)
    OBVIOUS
  <2>1. m = l
    BY <1>1 DEF Leaves
  <2>2. o["LDFLAGS"] \cap LinkTokens = Val(b, l, "LDFLAGS") \cap LinkTokens
    BY <2>1, <1>3 DEF Writes
  <2>3. Val(b, l, "LDFLAGS") # Absent /\ EffectiveLinker(b, l) = LinkerIn(Val(b, l, "LDFLAGS"))
    BY <1>2, LinkerValue
  <2> QED BY <2>2, <2>3, <1>6, SameLinker DEF LinkerOf
<1>9. Bfd \notin LldOnly \cup PgoTokens \cup LtoTokens \cup Marches /\ "-flto=thin" \in LtoTokens
  BY TokensDiffer DEF LinkTokens
<1>10. Given(o) = UNION {Out(o, k) : k \in ValueKeys}
  BY GivenIs
<1>11. LinkerOf(o) # "lld" => Given(o) \cap LldOnly = {}
  <2> SUFFICES ASSUME LinkerOf(o) # "lld" PROVE \A k \in ValueKeys : Out(o, k) \cap LldOnly = {}
    BY <1>10
  <2>1. \A k \in ValueKeys : k # "LDFLAGS" => Out(o, k) \cap LldOnly = {}
    BY <1>1, <1>5, <1>9 DEF Settled
  <2>2. Out(o, "LDFLAGS") \cap LldOnly = {}
    <3>1. CASE b.musl
      BY <3>1, <1>1, <1>2, <1>5 DEF ForMusl
    <3>2. CASE ~b.musl
      <4>1. Val(b, l, "LDFLAGS") \cap LldOnly = {}
        BY <3>2, <1>1, <1>8 DEF Settled, Linked
      <4> QED BY <4>1, <1>2, <1>5, <1>9
    <3> QED BY <3>1, <3>2
  <2> QED BY <2>1, <2>2
<1>12. UsesGcc(b) => "-flto=thin" \notin Given(o)
  <2> SUFFICES ASSUME UsesGcc(b) PROVE \A k \in ValueKeys : "-flto=thin" \notin Out(o, k)
    BY <1>10
  <2> QED BY <1>1, <1>5, <1>9 DEF Settled, ForGcc
<1>13. UsesGcc(b) /\ LinkerOf(o) = "lld" => Given(o) \cap LtoTokens = {}
  <2> SUFFICES ASSUME UsesGcc(b), LinkerOf(o) = "lld" PROVE \A k \in ValueKeys : Out(o, k) \cap LtoTokens = {}
    BY <1>10
  <2>1. EffectiveLinker(b, l) = "lld"
    BY <1>7, <1>8
  <2> QED BY <2>1, <1>1, <1>5, <1>9 DEF Settled, ForGcc
<1>14. o["RUSTFLAGS"] \notin {Absent, {}} /\ ~b.musl => o["RUSTFLAGS"] = {LinkerOf(o)}
  BY <1>1, <1>3, <1>4, <1>8 DEF Writes, Settled, Linked
<1>15. b.noLto => Given(o) \cap LtoTokens = {}
  <2> SUFFICES ASSUME b.noLto PROVE \A k \in ValueKeys : Out(o, k) \cap LtoTokens = {}
    BY <1>10
  <2> QED BY <1>1, <1>5, <1>9 DEF Settled, NoLto
<1>16. b.lib32 \/ b.musl => Given(o) \cap PgoTokens = {}
  <2> SUFFICES ASSUME b.lib32 \/ b.musl PROVE \A k \in ValueKeys : Out(o, k) \cap PgoTokens = {}
    BY <1>10
  <2>1. Out(o, "LTOFLAGS") \cap PgoTokens = {}
    BY <1>1, <1>2, <1>5, <1>9 DEF Settled
  <2>2. \A k \in FlagKeys : Out(o, k) \cap PgoTokens = {}
    BY <1>1, <1>2, <1>3, <1>5 DEF Writes, ForMusl
  <2> QED BY <2>1, <2>2, <1>2
<1>17. b.lib32 => Given(o) \cap Marches = {}
  <2> SUFFICES ASSUME b.lib32 PROVE \A k \in ValueKeys : Out(o, k) \cap Marches = {}
    BY <1>10
  <2>1. \A k \in {"LDFLAGS", "LTOFLAGS"} : Out(o, k) \cap Marches = {}
    BY <1>1, <1>2, <1>5, <1>9 DEF Settled
  <2>2. \A k \in {"CFLAGS", "CXXFLAGS"} : Out(o, k) \cap Marches = {}
    BY <1>2, <1>3 DEF Writes
  <2> QED BY <2>1, <2>2, <1>2
<1>18. \A t, u \in o["LDFLAGS"] : ~Clash(t, u)
  BY <1>6 DEF Apart
<1> QED BY <1>11, <1>12, <1>13, <1>14, <1>15, <1>16, <1>17, <1>18 DEF OneToolchain, o
-----------------------------------------------------------------------------
(* The chain of profiles.  Each step of a walk has seen one profile more,   *)
(* so what is defined from the largest sets of profiles seen down is        *)
(* defined, and what holds of them all is shown in that order.              *)

\* Of some subsets of a finite set one is in no other.
LEMMA LargestOf ==
    ASSUME NEW D, IsFiniteSet(D), NEW B, B \subseteq SUBSET D, B # {}
    PROVE  \E s \in B : \A t \in B : s \subseteq t => t = s
<1> DEFINE Left == {Cardinality(D \ s) : s \in B}
<1>1. \A s \in B : IsFiniteSet(D \ s) /\ Cardinality(D \ s) \in Nat
  BY FS_Subset, FS_CardinalityType
<1>a. Left \in SUBSET Nat /\ Left # {}
  BY <1>1
<1>b. \A s \in B : Cardinality(D \ s) \in Left
  OBVIOUS
<1>c. \A m \in Left : \E s \in B : Cardinality(D \ s) = m
  OBVIOUS
<1> HIDE DEF Left
<1>2. PICK n \in Left : \A m \in Left : n <= m
  BY <1>a, FirstOf
<1>3. PICK s \in B : Cardinality(D \ s) = n
  BY <1>c
<1>4. ASSUME NEW t \in B, s \subseteq t, t # s PROVE FALSE
  <2>1. D \ t \subseteq D \ s /\ D \ t # D \ s
    BY <1>4
  <2>2. Cardinality(D \ t) <= Cardinality(D \ s) /\ Cardinality(D \ t) # Cardinality(D \ s)
    BY <2>1, <1>1, FS_Subset
  <2>3. Cardinality(D \ s) <= Cardinality(D \ t)
    BY <1>b, <1>2, <1>3
  <2> QED BY <2>2, <2>3, <1>1
<1> QED BY <1>4

\* The sets of profiles after which at most n are unseen.
Unseen(D, n) == {seen \in SUBSET D : Cardinality(D \ seen) <= n}

\* One more is seen.
LEMMA OneMoreSeen ==
    ASSUME NEW D, IsFiniteSet(D), NEW n \in Nat, NEW seen \in Unseen(D, n + 1), NEW p \in D \ seen
    PROVE  seen \cup {p} \in Unseen(D, n)
<1>1. IsFiniteSet(D \ seen) /\ Cardinality(D \ seen) \in Nat
  BY FS_Subset, FS_CardinalityType DEF Unseen
<1>2. D \ (seen \cup {p}) = (D \ seen) \ {p} /\ p \in D \ seen
  OBVIOUS
<1>3. Cardinality(D \ (seen \cup {p})) = Cardinality(D \ seen) - 1
  BY <1>1, <1>2, FS_RemoveElement
<1> QED BY <1>1, <1>3 DEF Unseen

LEMMA UnseenAre ==
    ASSUME NEW D, IsFiniteSet(D)
    PROVE  /\ Unseen(D, 0) = {D}
           /\ \A n \in Nat : Unseen(D, n) \subseteq Unseen(D, n + 1)
           /\ Unseen(D, Cardinality(D)) = SUBSET D
<1>1. \A seen \in SUBSET D : /\ IsFiniteSet(D \ seen) /\ Cardinality(D \ seen) \in Nat
                             /\ Cardinality(D \ seen) <= Cardinality(D)
                             /\ Cardinality(D \ seen) = 0 <=> D \ seen = {}
  BY FS_Subset, FS_CardinalityType, FS_EmptySet
<1>2. \A seen \in SUBSET D : D \ seen = {} <=> seen = D
  OBVIOUS
<1>3. ASSUME NEW seen \in SUBSET D PROVE Cardinality(D \ seen) <= 0 <=> seen = D
  <2> DEFINE c == Cardinality(D \ seen)
  <2>1. c \in Nat /\ (c = 0 <=> seen = D)
    BY <1>1, <1>2
  <2> HIDE DEF c
  <2>2. c <= 0 <=> seen = D
    BY <2>1
  <2> QED BY <2>2 DEF c
<1>4. Unseen(D, 0) = {D}
  BY <1>3 DEF Unseen
<1>5. ASSUME NEW n \in Nat, NEW seen \in Unseen(D, n) PROVE seen \in Unseen(D, n + 1)
  <2> DEFINE c == Cardinality(D \ seen)
  <2>1. c \in Nat /\ c <= n /\ seen \in SUBSET D
    BY <1>1 DEF Unseen
  <2> HIDE DEF c
  <2>2. c <= n + 1
    BY <2>1
  <2> QED BY <2>1, <2>2 DEF Unseen, c
<1>6. Unseen(D, Cardinality(D)) = SUBSET D
  BY <1>1 DEF Unseen
<1> QED BY <1>4, <1>5, <1>6

Merged(profiles, g, seen) ==
    [p \in DOMAIN profiles \cup {Absent} |->
        IF p = Absent \/ p \in seen THEN Absent
        ELSE Extends(profiles[p], g[seen \cup {p}][profiles[p].extends])]
Chains(profiles) == CHOOSE g : g = [seen \in SUBSET DOMAIN profiles |-> Merged(profiles, g, seen)]

\* What merge_extends returns is defined.
LEMMA ChainsAre ==
    ASSUME NEW profiles, IsFiniteSet(DOMAIN profiles)
    PROVE  /\ \A start : MergeChain(profiles, start) = Chains(profiles)[{}][start]
           /\ \A seen \in SUBSET DOMAIN profiles :
                Chains(profiles)[seen] = Merged(profiles, Chains(profiles), seen)
<1> DEFINE D == DOMAIN profiles
           To(n) == \E g : g = [seen \in Unseen(D, n) |-> Merged(profiles, g, seen)]
           Bad == {n \in Nat : ~To(n)}
<1>1. To(0)
  <2> DEFINE g == [seen \in Unseen(D, 0) |-> [p \in D \cup {Absent} |-> Absent]]
  <2>1. ASSUME NEW seen \in Unseen(D, 0) PROVE Merged(profiles, g, seen) = [p \in D \cup {Absent} |-> Absent]
    <3>1. seen = D
      BY UnseenAre
    <3> QED BY <3>1 DEF Merged
  <2>2. g = [seen \in Unseen(D, 0) |-> Merged(profiles, g, seen)]
    BY <2>1
  <2> HIDE DEF g
  <2> QED BY <2>2
<1>2. ASSUME NEW n \in Nat, To(n) PROVE To(n + 1)
  <2>1. PICK g : g = [seen \in Unseen(D, n) |-> Merged(profiles, g, seen)]
    BY <1>2
  <2> DEFINE h == [seen \in Unseen(D, n + 1) |-> IF seen \in Unseen(D, n) THEN g[seen] ELSE Merged(profiles, g, seen)]
  <2>2. ASSUME NEW seen \in Unseen(D, n + 1) PROVE h[seen] = Merged(profiles, h, seen)
    <3>1. \A p \in D \ seen : h[seen \cup {p}] = g[seen \cup {p}]
      <4>1. \A p \in D \ seen : seen \cup {p} \in Unseen(D, n) /\ seen \cup {p} \in Unseen(D, n + 1)
        BY OneMoreSeen, UnseenAre
      <4> QED BY <4>1
    <3>2. Merged(profiles, h, seen) = Merged(profiles, g, seen)
      <4> HIDE DEF h
      <4> QED BY <3>1 DEF Merged
    <3>3. seen \in Unseen(D, n) => g[seen] = Merged(profiles, g, seen)
      BY <2>1
    <3> QED BY <3>2, <3>3
  <2>3. h = [seen \in Unseen(D, n + 1) |-> h[seen]]
    OBVIOUS
  <2> HIDE DEF h
  <2>4. h = [seen \in Unseen(D, n + 1) |-> Merged(profiles, h, seen)]
    BY <2>2, <2>3
  <2> QED BY <2>4
<1> HIDE DEF To
<1>3. Bad = {}
  <2> SUFFICES ASSUME Bad # {} PROVE FALSE
    OBVIOUS
  <2>1. PICK n \in Bad : \A m \in Bad : n <= m
    BY FirstOf
  <2>2. n # 0 /\ n - 1 \in Nat /\ (n - 1) + 1 = n
    BY <1>1
  <2>3. n - 1 \in Bad
    BY <2>2, <1>2
  <2> QED BY <2>1, <2>2, <2>3
<1>4. To(Cardinality(D))
  BY <1>3, FS_CardinalityType
<1>5. \E g : g = [seen \in SUBSET D |-> Merged(profiles, g, seen)]
  BY <1>4, UnseenAre DEF To
<1>6. Chains(profiles) = [seen \in SUBSET D |-> Merged(profiles, Chains(profiles), seen)]
  BY <1>5 DEF Chains
<1>7. \A start : MergeChain(profiles, start) = Chains(profiles)[{}][start]
  BY DEF MergeChain, Chains, Merged
<1> QED BY <1>6, <1>7

Walked(profiles, g, seen) ==
    [p \in DOMAIN profiles \cup {Absent} |->
        IF p = Absent \/ p \in seen THEN Absent
        ELSE IF profiles[p].set["build_mode"] # Absent THEN profiles[p].set["build_mode"]
        ELSE g[seen \cup {p}][profiles[p].extends]]
Walks(profiles) == CHOOSE g : g = [seen \in SUBSET DOMAIN profiles |-> Walked(profiles, g, seen)]

\* What get_build_mode returns is defined.
LEMMA WalksAre ==
    ASSUME NEW profiles, IsFiniteSet(DOMAIN profiles)
    PROVE  /\ \A start : ModeOfChain(profiles, start) = Walks(profiles)[{}][start]
           /\ \A seen \in SUBSET DOMAIN profiles :
                Walks(profiles)[seen] = Walked(profiles, Walks(profiles), seen)
<1> DEFINE D == DOMAIN profiles
           To(n) == \E g : g = [seen \in Unseen(D, n) |-> Walked(profiles, g, seen)]
           Bad == {n \in Nat : ~To(n)}
<1>1. To(0)
  <2> DEFINE g == [seen \in Unseen(D, 0) |-> [p \in D \cup {Absent} |-> Absent]]
  <2>1. ASSUME NEW seen \in Unseen(D, 0) PROVE Walked(profiles, g, seen) = [p \in D \cup {Absent} |-> Absent]
    <3>1. seen = D
      BY UnseenAre
    <3> QED BY <3>1 DEF Walked
  <2>2. g = [seen \in Unseen(D, 0) |-> Walked(profiles, g, seen)]
    BY <2>1
  <2> HIDE DEF g
  <2> QED BY <2>2
<1>2. ASSUME NEW n \in Nat, To(n) PROVE To(n + 1)
  <2>1. PICK g : g = [seen \in Unseen(D, n) |-> Walked(profiles, g, seen)]
    BY <1>2
  <2> DEFINE h == [seen \in Unseen(D, n + 1) |-> IF seen \in Unseen(D, n) THEN g[seen] ELSE Walked(profiles, g, seen)]
  <2>2. ASSUME NEW seen \in Unseen(D, n + 1) PROVE h[seen] = Walked(profiles, h, seen)
    <3>1. \A p \in D \ seen : h[seen \cup {p}] = g[seen \cup {p}]
      <4>1. \A p \in D \ seen : seen \cup {p} \in Unseen(D, n) /\ seen \cup {p} \in Unseen(D, n + 1)
        BY OneMoreSeen, UnseenAre
      <4> QED BY <4>1
    <3>2. Walked(profiles, h, seen) = Walked(profiles, g, seen)
      <4> HIDE DEF h
      <4> QED BY <3>1 DEF Walked
    <3>3. seen \in Unseen(D, n) => g[seen] = Walked(profiles, g, seen)
      BY <2>1
    <3> QED BY <3>2, <3>3
  <2>3. h = [seen \in Unseen(D, n + 1) |-> h[seen]]
    OBVIOUS
  <2> HIDE DEF h
  <2>4. h = [seen \in Unseen(D, n + 1) |-> Walked(profiles, h, seen)]
    BY <2>2, <2>3
  <2> QED BY <2>4
<1> HIDE DEF To
<1>3. Bad = {}
  <2> SUFFICES ASSUME Bad # {} PROVE FALSE
    OBVIOUS
  <2>1. PICK n \in Bad : \A m \in Bad : n <= m
    BY FirstOf
  <2>2. n # 0 /\ n - 1 \in Nat /\ (n - 1) + 1 = n
    BY <1>1
  <2>3. n - 1 \in Bad
    BY <2>2, <1>2
  <2> QED BY <2>1, <2>2, <2>3
<1>4. To(Cardinality(D))
  BY <1>3, FS_CardinalityType
<1>5. \E g : g = [seen \in SUBSET D |-> Walked(profiles, g, seen)]
  BY <1>4, UnseenAre DEF To
<1>6. Walks(profiles) = [seen \in SUBSET D |-> Walked(profiles, Walks(profiles), seen)]
  BY <1>5 DEF Walks
<1>7. \A start : ModeOfChain(profiles, start) = Walks(profiles)[{}][start]
  BY DEF ModeOfChain, Walks, Walked
<1> QED BY <1>6, <1>7

-----------------------------------------------------------------------------
(* What the chain makes of profiles that are written well.                  *)

Apiece ==
    /\ Absent \notin {"pkgbuild_extracted", "gcc"} /\ Absent \notin [Keys -> {Absent} \cup SUBSET Tokens]
    /\ {"llvm", "llvm-ar", "clang", "gcc"} \subseteq Tokens

Profiled(profiles) ==
    /\ IsFiniteSet(DOMAIN profiles) /\ Absent \notin DOMAIN profiles
    /\ \A n \in DOMAIN profiles :
          /\ profiles[n].extends \in DOMAIN profiles \cup {Absent}
          /\ Values(profiles[n].set, Tokens) /\ Values(profiles[n].append, Tokens)

\* The equations of the two walks.
LEMMA ChainStep ==
    ASSUME NEW profiles, Profiled(profiles), NEW seen \in SUBSET DOMAIN profiles
    PROVE  /\ Chains(profiles)[seen][Absent] = Absent
           /\ \A p \in DOMAIN profiles :
                /\ p \in seen => Chains(profiles)[seen][p] = Absent
                /\ p \notin seen => Chains(profiles)[seen][p] =
                     Extends(profiles[p], Chains(profiles)[seen \cup {p}][profiles[p].extends])
<1>1. Chains(profiles)[seen] = Merged(profiles, Chains(profiles), seen) /\ Absent \notin DOMAIN profiles
  BY ChainsAre DEF Profiled
<1> DEFINE c == Chains(profiles)
<1>2. c[seen] = Merged(profiles, c, seen)
  BY <1>1
<1> HIDE DEF c
<1>3. c[seen][Absent] = Absent
  BY <1>2 DEF Merged
<1>4. ASSUME NEW p \in DOMAIN profiles
      PROVE  /\ p \in seen => c[seen][p] = Absent
             /\ p \notin seen => c[seen][p] =
                     Extends(profiles[p], c[seen \cup {p}][profiles[p].extends])
  BY <1>1, <1>2 DEF Merged
<1> QED BY <1>3, <1>4 DEF c

LEMMA WalkStep ==
    ASSUME NEW profiles, Profiled(profiles), NEW seen \in SUBSET DOMAIN profiles
    PROVE  /\ Walks(profiles)[seen][Absent] = Absent
           /\ \A p \in DOMAIN profiles :
                /\ p \in seen => Walks(profiles)[seen][p] = Absent
                /\ p \notin seen => Walks(profiles)[seen][p] =
                     IF profiles[p].set["build_mode"] # Absent THEN profiles[p].set["build_mode"]
                     ELSE Walks(profiles)[seen \cup {p}][profiles[p].extends]
<1>1. Walks(profiles)[seen] = Walked(profiles, Walks(profiles), seen) /\ Absent \notin DOMAIN profiles
  BY WalksAre DEF Profiled
<1> DEFINE c == Walks(profiles)
<1>2. c[seen] = Walked(profiles, c, seen)
  BY <1>1
<1> HIDE DEF c
<1>3. c[seen][Absent] = Absent
  BY <1>2 DEF Walked
<1>4. ASSUME NEW p \in DOMAIN profiles
      PROVE  /\ p \in seen => c[seen][p] = Absent
             /\ p \notin seen => c[seen][p] =
                     IF profiles[p].set["build_mode"] # Absent THEN profiles[p].set["build_mode"]
                     ELSE c[seen \cup {p}][profiles[p].extends]
  BY <1>1, <1>2 DEF Walked
<1> QED BY <1>3, <1>4 DEF c

LEMMA ValuesPresent == ASSUME Apiece, NEW p, Values(p, Tokens) PROVE p # Absent
<1>1. p = [k \in Keys |-> p[k]] /\ \A k \in Keys : p[k] \in {Absent} \cup SUBSET Tokens
  BY DEF Values, OfFlags
<1>2. p \in [Keys -> {Absent} \cup SUBSET Tokens]
  BY <1>1
<1> QED BY <1>2 DEF Apiece

\* Neither does a profile that extends another.
LEMMA ExtendsValues ==
    ASSUME Apiece, Meant, NEW own, Values(own.set, Tokens), Values(own.append, Tokens),
           NEW parent, parent = Absent \/ Values(parent, Tokens)
    PROVE  /\ Extends(own, parent) = Absent <=> own.extends # Absent /\ parent = Absent
           /\ Extends(own, parent) # Absent => Values(Extends(own, parent), Tokens)
<1>1. CASE own.extends = Absent
  BY <1>1, ValuesPresent DEF Extends
<1>2. CASE own.extends # Absent /\ parent = Absent
  BY <1>2 DEF Extends
<1>3. CASE own.extends # Absent /\ parent # Absent
  <2> DEFINE e == Extends(own, parent)
             From(k) == IF own.set[k] # Absent THEN own.set[k]
                        ELSE IF own.append[k] # Absent THEN AppendTokens(ValueOr(parent, k, {}), own.append[k])
                        ELSE parent[k]
  <2>1. DOMAIN own.set = Keys
    BY DEF Values, OfFlags
  <2>2. e = [k \in Keys |-> From(k)]
    BY <1>3, <2>1 DEF Extends
  <2>3. ASSUME NEW k \in Keys
        PROVE  /\ From(k) = Absent \/ From(k) \subseteq Tokens
               /\ k \in FlagKeys /\ From(k) # Absent => \A t, u \in From(k) : ~Clash(t, u)
               /\ k = "LDFLAGS" /\ From(k) # Absent => From(k) \cap {"ld", "lto", "march", "pgo"} = {}
    <3>1. CASE own.set[k] # Absent
      BY <3>1 DEF Values, OfFlags
    <3>2. CASE own.set[k] = Absent /\ own.append[k] = Absent
      BY <3>2, <1>3 DEF Values, OfFlags
    <3>3. CASE own.set[k] = Absent /\ own.append[k] # Absent
      <4> DEFINE v == ValueOr(parent, k, {})
                 c == own.append[k]
      <4>1. /\ v \subseteq Tokens /\ c \subseteq Tokens
            /\ k \in FlagKeys => (\A t, u \in v : ~Clash(t, u)) /\ (\A t, u \in c : ~Clash(t, u))
            /\ k = "LDFLAGS" => (v \cup c) \cap {"ld", "lto", "march", "pgo"} = {}
        BY <1>3, <3>3 DEF Values, OfFlags, ValueOr
      <4>2. From(k) = {t \in v : \A x \in c : ~Clash(t, x)} \cup c
        BY <3>3 DEF AppendTokens
      <4>3. \A t, u : Clash(t, u) <=> Clash(u, t)
        BY DEF Clash
      <4> HIDE DEF v, c, From
      <4> QED BY <4>1, <4>2, <4>3
    <3> QED BY <3>1, <3>2, <3>3
  <2>4. {"LDFLAGS"} \subseteq FlagKeys /\ FlagKeys \subseteq Keys
    BY KeysAre
  <2> HIDE DEF From, e
  <2>5. Values(e, Tokens)
    BY <2>2, <2>3, <2>4 DEF Values, OfFlags
  <2> QED BY <1>3, <2>5, ValuesPresent DEF e
<1> QED BY <1>1, <1>2, <1>3

\* The result of every walk.
LEMMA ChainValues ==
    ASSUME Apiece, Meant, NEW profiles, Profiled(profiles)
    PROVE  \A seen \in SUBSET DOMAIN profiles : \A p \in DOMAIN profiles :
             Chains(profiles)[seen][p] = Absent \/ Values(Chains(profiles)[seen][p], Tokens)
<1> DEFINE D == DOMAIN profiles
           C == Chains(profiles)
           Fits(seen) == \A p \in D : C[seen][p] # Absent => Values(C[seen][p], Tokens)
           Bad == {seen \in SUBSET D : ~Fits(seen)}
<1>1. IsFiniteSet(D) /\ Absent \notin D
  BY DEF Profiled
<1>2. ASSUME NEW seen \in SUBSET D, NEW p \in D
      PROVE  /\ p \in seen => C[seen][p] = Absent
             /\ p \notin seen => C[seen][p] = Extends(profiles[p], C[seen \cup {p}][profiles[p].extends])
  BY ChainStep
<1>3. \A seen \in SUBSET D : C[seen][Absent] = Absent
  BY ChainStep
<1>b. Bad \subseteq SUBSET D /\ \A seen \in SUBSET D : seen \in Bad <=> ~Fits(seen)
  OBVIOUS
<1> HIDE DEF C, Bad
<1>4. Bad = {}
  <2> SUFFICES ASSUME Bad # {} PROVE FALSE
    OBVIOUS
  <2>1. PICK seen \in Bad : \A t \in Bad : seen \subseteq t => t = seen
    BY <1>1, <1>b, LargestOf
  <2>2. PICK p \in D : C[seen][p] # Absent /\ ~Values(C[seen][p], Tokens)
    BY <1>b
  <2>3. p \notin seen /\ C[seen][p] = Extends(profiles[p], C[seen \cup {p}][profiles[p].extends])
    BY <1>b, <2>2, <1>2
  <2>4. seen \cup {p} \in SUBSET D /\ seen \cup {p} # seen /\ seen \subseteq seen \cup {p}
    BY <1>b, <2>3
  <2>5. Fits(seen \cup {p})
    BY <1>b, <2>1, <2>4
  <2> DEFINE up == C[seen \cup {p}][profiles[p].extends]
  <2>6. up = Absent \/ Values(up, Tokens)
    BY <2>4, <2>5, <1>3 DEF Profiled
  <2> QED BY <2>2, <2>3, <2>6, ExtendsValues DEF Profiled
<1> QED BY <1>b, <1>4 DEF C

\* A chain resolves to nothing exactly if it has no end.
LEMMA ChainLoops ==
    ASSUME Apiece, Meant, NEW profiles, Profiled(profiles), NEW start \in DOMAIN profiles
    PROVE  Loops(profiles, start) <=> MergeChain(profiles, start) = Absent
<1> DEFINE D == DOMAIN profiles
           C == Chains(profiles)
<1>1. IsFiniteSet(D) /\ Absent \notin D /\ \A p \in D : profiles[p].extends \in D \cup {Absent}
  BY DEF Profiled
<1>2. ASSUME NEW seen \in SUBSET D, NEW p \in D
      PROVE  /\ p \in seen => C[seen][p] = Absent
             /\ p \notin seen =>
                  C[seen][p] = Absent <=> /\ profiles[p].extends # Absent
                                          /\ C[seen \cup {p}][profiles[p].extends] = Absent
  <2> DEFINE up == C[seen \cup {p}][profiles[p].extends]
  <2>1. up = Absent \/ Values(up, Tokens)
    <3>1. seen \cup {p} \in SUBSET D
      OBVIOUS
    <3>2. C[seen \cup {p}][Absent] = Absent
      BY <3>1, ChainStep
    <3> QED BY <3>1, <3>2, <1>1, ChainValues
  <2>2. /\ p \in seen => C[seen][p] = Absent
        /\ p \notin seen => C[seen][p] = Extends(profiles[p], up)
    BY ChainStep
  <2>3. Extends(profiles[p], up) = Absent <=> profiles[p].extends # Absent /\ up = Absent
    <3> HIDE DEF up
    <3> QED BY <2>1, ExtendsValues DEF Profiled
  <2> QED BY <2>2, <2>3
<1>3. MergeChain(profiles, start) = C[{}][start]
  BY <1>1, ChainsAre
<1> HIDE DEF C
<1>4. ASSUME Loops(profiles, start) PROVE C[{}][start] = Absent
  <2>1. PICK S \in SUBSET D : start \in S /\ \A p \in S : profiles[p].extends \in S
    BY <1>4 DEF Loops
  <2> DEFINE Bad == {seen \in SUBSET D : \E p \in S : C[seen][p] # Absent}
  <2>2. Bad \subseteq SUBSET D /\ \A seen \in SUBSET D : seen \in Bad <=> \E p \in S : C[seen][p] # Absent
    OBVIOUS
  <2> HIDE DEF Bad
  <2>3. Bad = {}
    <3> SUFFICES ASSUME Bad # {} PROVE FALSE
      OBVIOUS
    <3>1. PICK seen \in Bad : \A t \in Bad : seen \subseteq t => t = seen
      BY <1>1, <2>2, LargestOf
    <3>2. PICK p \in S : C[seen][p] # Absent
      BY <2>2
    <3>3. p \notin seen /\ profiles[p].extends \in S /\ profiles[p].extends # Absent
      BY <1>1, <1>2, <2>1, <2>2, <3>2
    <3>4. C[seen \cup {p}][profiles[p].extends] = Absent
      <4>1. seen \cup {p} \in SUBSET D /\ seen \cup {p} # seen
        BY <2>1, <2>2, <3>3
      <4>2. seen \cup {p} \notin Bad
        BY <3>1, <4>1
      <4> QED BY <2>2, <3>3, <4>1, <4>2
    <3> QED BY <1>2, <2>1, <2>2, <3>2, <3>3, <3>4
  <2> QED BY <2>1, <2>2, <2>3
<1>5. ASSUME C[{}][start] = Absent PROVE Loops(profiles, start)
  <2> DEFINE UpTo(seen, p) == \E S \in SUBSET D : p \in S /\ \A q \in S : q \in seen \/ profiles[q].extends \in S
             Bad == {seen \in SUBSET D : \E p \in D : C[seen][p] = Absent /\ ~UpTo(seen, p)}
  <2>2. /\ Bad \subseteq SUBSET D
        /\ \A seen \in SUBSET D : seen \in Bad <=> \E p \in D : C[seen][p] = Absent /\ ~UpTo(seen, p)
    OBVIOUS
  <2> HIDE DEF Bad
  <2>3. Bad = {}
    <3> SUFFICES ASSUME Bad # {} PROVE FALSE
      OBVIOUS
    <3>1. PICK seen \in Bad : \A t \in Bad : seen \subseteq t => t = seen
      BY <1>1, <2>2, LargestOf
    <3>2. PICK p \in D : C[seen][p] = Absent /\ ~UpTo(seen, p)
      BY <2>2
    <3>3. p \notin seen
      <4>1. p \in seen => UpTo(seen, p)
        <5> SUFFICES ASSUME p \in seen PROVE UpTo(seen, p)
          OBVIOUS
        <5> WITNESS {p} \in SUBSET D
        <5> QED OBVIOUS
      <4> QED BY <3>2, <4>1
    <3>4. profiles[p].extends \in D /\ C[seen \cup {p}][profiles[p].extends] = Absent
      BY <1>1, <1>2, <2>2, <3>2, <3>3
    <3>5. seen \cup {p} \in SUBSET D /\ seen \cup {p} \notin Bad
      BY <2>2, <3>1, <3>3
    <3>6. UpTo(seen \cup {p}, profiles[p].extends)
      BY <2>2, <3>4, <3>5
    <3>7. PICK S \in SUBSET D : /\ profiles[p].extends \in S
                                /\ \A q \in S : q \in seen \cup {p} \/ profiles[q].extends \in S
      BY <3>6
    <3>8. UpTo(seen, p)
      <4> WITNESS S \cup {p} \in SUBSET D
      <4> QED BY <3>7
    <3> QED BY <3>2, <3>8
  <2>4. UpTo({}, start)
    BY <1>5, <2>2, <2>3
  <2> QED BY <2>4 DEF Loops
<1> QED BY <1>3, <1>4, <1>5

\* The two walks agree on the build mode.
LEMMA ChainMode ==
    ASSUME Apiece, Meant, NEW profiles, Profiled(profiles), NEW start \in DOMAIN profiles,
           \A n \in DOMAIN profiles : profiles[n].append["build_mode"] = Absent,
           MergeChain(profiles, start) # Absent
    PROVE  MergeChain(profiles, start)["build_mode"] = ModeOfChain(profiles, start)
<1> DEFINE D == DOMAIN profiles
           C == Chains(profiles)
           W == Walks(profiles)
           Agree(seen) == \A p \in D : C[seen][p] # Absent => C[seen][p]["build_mode"] = W[seen][p]
           Bad == {seen \in SUBSET D : ~Agree(seen)}
<1>1. IsFiniteSet(D) /\ Absent \notin D /\ \A p \in D : profiles[p].extends \in D \cup {Absent}
  BY DEF Profiled
<1>2. ASSUME NEW seen \in SUBSET D, NEW p \in D, p \notin seen
      PROVE  /\ C[seen][p] = Extends(profiles[p], C[seen \cup {p}][profiles[p].extends])
             /\ W[seen][p] = IF profiles[p].set["build_mode"] # Absent THEN profiles[p].set["build_mode"]
                             ELSE W[seen \cup {p}][profiles[p].extends]
  BY <1>2, ChainStep, WalkStep
<1>3. \A seen \in SUBSET D : /\ C[seen][Absent] = Absent /\ W[seen][Absent] = Absent
                             /\ \A p \in seen : C[seen][p] = Absent
  BY ChainStep, WalkStep
<1>4. MergeChain(profiles, start) = C[{}][start] /\ ModeOfChain(profiles, start) = W[{}][start]
  BY <1>1, ChainsAre, WalksAre
<1>5. Bad \subseteq SUBSET D /\ \A seen \in SUBSET D : seen \in Bad <=> ~Agree(seen)
  OBVIOUS
<1> HIDE DEF C, W, Bad
<1>6. Bad = {}
  <2> SUFFICES ASSUME Bad # {} PROVE FALSE
    OBVIOUS
  <2>1. PICK seen \in Bad : \A t \in Bad : seen \subseteq t => t = seen
    BY <1>1, <1>5, LargestOf
  <2>2. PICK p \in D : C[seen][p] # Absent /\ C[seen][p]["build_mode"] # W[seen][p]
    BY <1>5
  <2>3. p \notin seen /\ seen \in SUBSET D
    BY <1>3, <1>5, <2>2
  <2>4. seen \cup {p} \in SUBSET D /\ seen \cup {p} \notin Bad
    BY <2>1, <2>3
  <2> DEFINE own == profiles[p]
             up == C[seen \cup {p}][own.extends]
  <2>5. C[seen][p] = Extends(own, up) /\ W[seen][p] = IF own.set["build_mode"] # Absent THEN own.set["build_mode"]
                                                      ELSE W[seen \cup {p}][own.extends]
    BY <1>2, <2>3
  <2>6. up = Absent \/ up["build_mode"] = W[seen \cup {p}][own.extends]
    BY <1>1, <1>3, <1>5, <2>4
  <2>7. "build_mode" \in Keys /\ DOMAIN own.set = Keys /\ own.append["build_mode"] = Absent
    BY DEF Profiled, Values, OfFlags, Keys, Internal
  <2>8. CASE own.extends = Absent
    <3>1. C[seen][p] = own.set
      BY <2>5, <2>8 DEF Extends
    <3>2. W[seen \cup {p}][own.extends] = Absent
      BY <1>3, <2>4, <2>8
    <3> QED BY <2>2, <2>5, <3>1, <3>2
  <2>9. CASE own.extends # Absent
    <3>1. up # Absent /\ C[seen][p]["build_mode"] = IF own.set["build_mode"] # Absent THEN own.set["build_mode"]
                                                    ELSE up["build_mode"]
      <4> HIDE DEF up, own
      <4> QED BY <2>2, <2>5, <2>7, <2>9 DEF Extends
    <3> QED BY <2>2, <2>5, <2>6, <3>1
  <2> QED BY <2>8, <2>9
<1> QED BY <1>4, <1>5, <1>6

-----------------------------------------------------------------------------
(* Toolchains and rows over what the chain resolved to.                     *)

\* The linker of a value.
LEMMA InjectIs ==
    ASSUME Meant, NEW v \in SUBSET Tokens, Apart(v), NEW l \in {"lld", "bfd"}
    PROVE  /\ InjectLinker(v, l) \in SUBSET Tokens /\ Apart(InjectLinker(v, l))
           /\ LinkersOf(InjectLinker(v, l)) = {l}
<1>1. PICK t \in LinkTokens : Linker[t] = l /\ InjectLinker(v, l) = (v \ LinkTokens) \cup {t}
  BY InjectApart
<1>2. LinkTokens \subseteq Tokens
  BY DEF Meant, Named, LinkTokens
<1>3. InjectLinker(v, l) \cap LinkTokens = {t}
  BY <1>1
<1>4. LinkersOf(InjectLinker(v, l)) = {Linker[x] : x \in {t}}
  BY <1>3 DEF LinkersOf, LinkTokens
<1> QED BY <1>1, <1>2, <1>4, InjectApart

\* A profile is made of one value for each key.
LEMMA ValuesOf ==
    ASSUME NEW q, q = [k \in Keys |-> q[k]]
    PROVE  Values(q, Tokens) <=>
             /\ \A k \in Keys : q[k] = Absent \/ q[k] \in SUBSET Tokens
             /\ \A k \in FlagKeys \ {"LDFLAGS"} : q[k] # Absent => \A t, u \in q[k] : ~Clash(t, u)
             /\ q["LDFLAGS"] # Absent => Apart(q["LDFLAGS"])
<1>1. "LDFLAGS" \in FlagKeys
  BY KeysAre
<1> QED BY <1>1 DEF Values, OfFlags, Apart, ClassNames

\* expand_toolchain: no value breaks, and the mode of the build is not touched.
LEMMA ExpandedIs ==
    ASSUME Meant, Apiece, NEW p, Values(p, Tokens), NEW d
    PROVE  /\ Values(ExpandToolchain(p, d), Tokens)
           /\ ExpandToolchain(p, d)["build_mode"] = p["build_mode"]
           /\ \A tc \in {"llvm", "gcc"} : p["toolchain"] = {tc} /\ p["CC"] = Absent
                => ExpandToolchain(p, d)["CC"] = Bundle(tc).CC
           /\ p["toolchain"] = {"gcc"} => ExpandToolchain(p, d)["LDFLAGS"] = p["LDFLAGS"]
<1> DEFINE tc == IF p["toolchain"] # Absent THEN CHOOSE t \in p["toolchain"] : TRUE ELSE d
           To(k) == CASE k \in BundleKeys /\ p[k] = Absent -> Bundle(tc)[k]
                      [] k = "LDFLAGS" /\ tc = "llvm" /\ LinkersOf(ValueOr(p, k, {})) = {}
                           -> InjectLinker(ValueOr(p, k, {}), "lld")
                      [] OTHER -> p[k]
           q == ExpandToolchain(p, d)
<1>1. p = [k \in Keys |-> p[k]]
  BY DEF Values, OfFlags
<1>2. DOMAIN p = Keys
  BY <1>1
<1>3. /\ "build_mode" \in Keys \ (BundleKeys \cup FlagKeys) /\ "LDFLAGS" \in Keys \ BundleKeys
      /\ BundleKeys = {"CC", "AR"} /\ BundleKeys \cap FlagKeys = {} /\ "LDFLAGS" \in FlagKeys
      /\ BundleKeys \cup FlagKeys \subseteq Keys /\ "build_mode" # "LDFLAGS"
  BY DEF Keys, Internal, BundleKeys, FlagKeys
<1>4. \A t \in {"llvm", "gcc"} : p["toolchain"] = {t} => tc = t
  <2>1. Absent # {"llvm"} /\ Absent # {"gcc"}
    BY DEF Meant, Apiece
  <2> QED BY <2>1
<1>5. CASE tc \notin {"llvm", "gcc"}
  <2>1. q = p
    BY <1>5 DEF ExpandToolchain
  <2> QED BY <2>1, <1>4, <1>5
<1>6. CASE tc \in {"llvm", "gcc"}
  <2>1. q = [k \in Keys |-> To(k)]
    BY <1>2, <1>6 DEF ExpandToolchain
  <2>2. \A k \in BundleKeys : Bundle(tc)[k] = Absent \/ Bundle(tc)[k] \in SUBSET Tokens
    BY <1>3, <1>6 DEF Bundle, Apiece
  <2>3. ASSUME NEW k \in Keys \ {"LDFLAGS"}
        PROVE  To(k) = IF k \in BundleKeys /\ p[k] = Absent THEN Bundle(tc)[k] ELSE p[k]
    OBVIOUS
  <2>4. To("LDFLAGS") = IF tc = "llvm" /\ LinkersOf(ValueOr(p, "LDFLAGS", {})) = {}
                        THEN InjectLinker(ValueOr(p, "LDFLAGS", {}), "lld") ELSE p["LDFLAGS"]
    BY <1>3
  <2>5. ValueOr(p, "LDFLAGS", {}) \in SUBSET Tokens /\ Apart(ValueOr(p, "LDFLAGS", {}))
    <3>1. p["LDFLAGS"] = Absent \/ (p["LDFLAGS"] \in SUBSET Tokens /\ Apart(p["LDFLAGS"]))
      BY <1>1, <1>3, ValuesOf
    <3>2. Apart({})
      BY DEF Apart
    <3> QED BY <3>1, <3>2 DEF ValueOr
  <2>6. To("LDFLAGS") = Absent \/ (To("LDFLAGS") \in SUBSET Tokens /\ Apart(To("LDFLAGS")))
    <3>1. CASE tc = "llvm" /\ LinkersOf(ValueOr(p, "LDFLAGS", {})) = {}
      BY <3>1, <2>4, <2>5, InjectIs
    <3>2. CASE ~(tc = "llvm" /\ LinkersOf(ValueOr(p, "LDFLAGS", {})) = {})
      BY <3>2, <2>4, <1>1, <1>3, ValuesOf
    <3> QED BY <3>1, <3>2
  <2> HIDE DEF To, tc, q
  <2>7. q = [k \in Keys |-> q[k]] /\ \A k \in Keys : q[k] = To(k)
    BY <2>1
  <2>8. \A k \in Keys : q[k] = Absent \/ q[k] \in SUBSET Tokens
    BY <2>2, <2>3, <2>6, <2>7, <1>1, ValuesOf
  <2>9. \A k \in FlagKeys \ {"LDFLAGS"} : q[k] = p[k]
    BY <2>3, <2>7, <1>3
  <2>10. Values(q, Tokens)
    BY <2>6, <2>7, <2>8, <2>9, <1>1, <1>3, ValuesOf
  <2>11. q["build_mode"] = p["build_mode"]
    BY <2>3, <2>7, <1>3
  <2>12. \A t \in {"llvm", "gcc"} : p["toolchain"] = {t} /\ p["CC"] = Absent => q["CC"] = Bundle(t).CC
    BY <2>3, <2>7, <1>3, <1>4
  <2>13. p["toolchain"] = {"gcc"} => q["LDFLAGS"] = p["LDFLAGS"]
    BY <2>4, <2>7, <1>3, <1>4
  <2> QED BY <2>10, <2>11, <2>12, <2>13 DEF q
<1> QED BY <1>5, <1>6

RowTyped(row) ==
    /\ row.toolchain \in {Absent, "llvm", "gcc"}
    /\ row.cc = Absent \/ row.cc \in Tokens
    /\ row.ld \in {Absent, "lld", "bfd"}

\* swap_toolchain: the compiler is the other bundle's, and none of the old linker is left.
LEMMA SwappedIs ==
    ASSUME Meant, Apiece, NEW p, Values(p, Tokens), NEW tc \in {"llvm", "gcc"}
    PROVE  /\ Values(SwapToolchain(p, tc), Tokens)
           /\ SwapToolchain(p, tc)["build_mode"] = p["build_mode"]
           /\ SwapToolchain(p, tc)["CC"] = Bundle(tc).CC
           /\ tc = "gcc" /\ SwapToolchain(p, tc)["LDFLAGS"] # Absent
                => LinkersOf(SwapToolchain(p, tc)["LDFLAGS"]) = {}
<1> DEFINE To(k) == CASE k \in BundleKeys -> Absent
                      [] k = "LDFLAGS" /\ p[k] # Absent -> DropLinker(p[k])
                      [] k = "toolchain" -> {tc}
                      [] OTHER -> p[k]
           q == [k \in Keys |-> To(k)]
<1>1. p = [k \in Keys |-> p[k]]
  BY DEF Values, OfFlags
<1>2. DOMAIN p = Keys
  BY <1>1
<1>3. /\ BundleKeys = {"CC", "AR"} /\ BundleKeys \cap FlagKeys = {} /\ "LDFLAGS" \in FlagKeys
      /\ {"CC", "toolchain", "build_mode"} \subseteq Keys \ FlagKeys /\ FlagKeys \subseteq Keys
      /\ "LDFLAGS" \notin BundleKeys /\ "build_mode" \notin BundleKeys /\ "toolchain" \notin BundleKeys
  BY DEF Keys, Internal, BundleKeys, FlagKeys
<1>4. SwapToolchain(p, tc) = ExpandToolchain(q, Absent)
  BY <1>2 DEF SwapToolchain
<1>5. /\ \A k \in BundleKeys : To(k) = Absent
      /\ To("LDFLAGS") = IF p["LDFLAGS"] # Absent THEN DropLinker(p["LDFLAGS"]) ELSE Absent
      /\ To("toolchain") = {tc}
      /\ \A k \in Keys \ (BundleKeys \cup {"LDFLAGS", "toolchain"}) : To(k) = p[k]
  BY <1>3
<1> HIDE DEF To
<1>6. q = [k \in Keys |-> q[k]] /\ \A k \in Keys : q[k] = To(k)
  OBVIOUS
<1> HIDE DEF q
<1>7. \A k \in Keys : p[k] = Absent \/ p[k] \in SUBSET Tokens
  BY <1>1, ValuesOf
<1>8. q["LDFLAGS"] # Absent => /\ q["LDFLAGS"] \in SUBSET Tokens /\ Apart(q["LDFLAGS"])
                               /\ LinkersOf(q["LDFLAGS"]) = {}
  <2> SUFFICES ASSUME q["LDFLAGS"] # Absent
               PROVE  /\ q["LDFLAGS"] \in SUBSET Tokens /\ Apart(q["LDFLAGS"]) /\ LinkersOf(q["LDFLAGS"]) = {}
    OBVIOUS
  <2>1. p["LDFLAGS"] # Absent /\ q["LDFLAGS"] = DropLinker(p["LDFLAGS"])
    BY <1>3, <1>5, <1>6
  <2>2. q["LDFLAGS"] = p["LDFLAGS"] \ {Lld, Bfd} /\ q["LDFLAGS"] \cap {Lld, Bfd} = {}
    BY <2>1 DEF DropLinker
  <2>3. Apart(p["LDFLAGS"]) /\ p["LDFLAGS"] \in SUBSET Tokens
    BY <1>1, <1>3, <1>7, <2>1, ValuesOf
  <2>4. LinkersOf(q["LDFLAGS"]) = {}
    BY <2>2 DEF LinkersOf
  <2> QED BY <2>2, <2>3, <2>4, FewerApart
<1>9. \A k \in Keys : q[k] = Absent \/ q[k] \in SUBSET Tokens
  <2>1. {tc} \in SUBSET Tokens
    BY DEF Apiece
  <2> QED BY <2>1, <1>3, <1>5, <1>6, <1>7, <1>8
<1>10. \A k \in FlagKeys \ {"LDFLAGS"} : q[k] = p[k]
  BY <1>3, <1>5, <1>6
<1>11. Values(q, Tokens)
  BY <1>1, <1>3, <1>6, <1>8, <1>9, <1>10, ValuesOf
<1>12. q["toolchain"] = {tc} /\ q["CC"] = Absent /\ q["build_mode"] = p["build_mode"]
  BY <1>3, <1>5, <1>6
<1>13. /\ Values(ExpandToolchain(q, Absent), Tokens)
       /\ ExpandToolchain(q, Absent)["build_mode"] = q["build_mode"]
       /\ ExpandToolchain(q, Absent)["CC"] = Bundle(tc).CC
       /\ tc = "gcc" => ExpandToolchain(q, Absent)["LDFLAGS"] = q["LDFLAGS"]
  BY <1>11, <1>12, ExpandedIs
<1> QED BY <1>4, <1>8, <1>12, <1>13

\* apply_compiler_overrides: what the row says of toolchain, compiler and linker holds.
LEMMA RowIs ==
    ASSUME Meant, Apiece, NEW p, Values(p, Tokens), NEW row, RowTyped(row)
    PROVE  /\ Values(ApplyRow(p, row), Tokens)
           /\ ApplyRow(p, row)["build_mode"] = p["build_mode"]
           /\ row.cc # Absent => ApplyRow(p, row)["CC"] = {row.cc}
           /\ row.cc = Absent /\ row.toolchain # Absent => ApplyRow(p, row)["CC"] = Bundle(row.toolchain).CC
           /\ row.ld # Absent => LinkersOf(ApplyRow(p, row)["LDFLAGS"]) = {row.ld}
           /\ row.ld = Absent /\ row.toolchain = "gcc" /\ ApplyRow(p, row)["LDFLAGS"] # Absent
                => LinkersOf(ApplyRow(p, row)["LDFLAGS"]) = {}
<1> DEFINE q == IF row.toolchain = Absent THEN p ELSE SwapToolchain(p, row.toolchain)
           To(k) == CASE k = "CC" /\ row.cc # Absent -> {row.cc}
                      [] k = "LDFLAGS" /\ row.ld # Absent -> InjectLinker(ValueOr(q, k, {}), row.ld)
                      [] OTHER -> q[k]
           r == ApplyRow(p, row)
<1>1. p = [k \in Keys |-> p[k]]
  BY DEF Values, OfFlags
<1>2. DOMAIN p = Keys
  BY <1>1
<1>3. /\ "LDFLAGS" \in FlagKeys /\ {"CC", "build_mode"} \subseteq Keys \ FlagKeys /\ FlagKeys \subseteq Keys
  BY DEF Keys, Internal, BundleKeys, FlagKeys
<1>4. r = [k \in Keys |-> To(k)]
  BY <1>2 DEF ApplyRow
<1>5. /\ To("CC") = IF row.cc # Absent THEN {row.cc} ELSE q["CC"]
      /\ To("LDFLAGS") = IF row.ld # Absent THEN InjectLinker(ValueOr(q, "LDFLAGS", {}), row.ld) ELSE q["LDFLAGS"]
      /\ \A k \in Keys \ {"CC", "LDFLAGS"} : To(k) = q[k]
  OBVIOUS
<1>6. r = [k \in Keys |-> r[k]] /\ \A k \in Keys : r[k] = To(k)
  <2> HIDE DEF To, r
  <2> QED BY <1>4
<1> HIDE DEF To, r
<1>7. Values(q, Tokens) /\ q["build_mode"] = p["build_mode"]
  BY SwappedIs DEF RowTyped
<1>8. /\ row.toolchain # Absent => q["CC"] = Bundle(row.toolchain).CC
      /\ row.toolchain = "gcc" /\ q["LDFLAGS"] # Absent => LinkersOf(q["LDFLAGS"]) = {}
  <2>1. CASE row.toolchain = Absent
    BY <2>1 DEF Apiece
  <2>2. CASE row.toolchain # Absent
    BY <2>2, SwappedIs DEF RowTyped
  <2> QED BY <2>1, <2>2
<1> HIDE DEF q
<1>9. ValueOr(q, "LDFLAGS", {}) \in SUBSET Tokens /\ Apart(ValueOr(q, "LDFLAGS", {}))
  <2>1. q = [k \in Keys |-> q[k]]
    BY <1>7 DEF Values, OfFlags
  <2>2. q["LDFLAGS"] = Absent \/ (q["LDFLAGS"] \in SUBSET Tokens /\ Apart(q["LDFLAGS"]))
    BY <1>3, <1>7, <2>1, ValuesOf
  <2>3. Apart({})
    BY DEF Apart
  <2> QED BY <2>2, <2>3 DEF ValueOr
<1>10. row.ld # Absent => /\ r["LDFLAGS"] \in SUBSET Tokens /\ Apart(r["LDFLAGS"])
                          /\ LinkersOf(r["LDFLAGS"]) = {row.ld}
  BY <1>3, <1>5, <1>6, <1>9, InjectIs DEF RowTyped
<1>11. row.ld = Absent => r["LDFLAGS"] = q["LDFLAGS"]
  BY <1>3, <1>5, <1>6
<1>12. Values(r, Tokens)
  <2>1. q = [k \in Keys |-> q[k]]
    BY <1>7 DEF Values, OfFlags
  <2>2. row.cc # Absent => {row.cc} \in SUBSET Tokens
    BY DEF RowTyped
  <2>3. /\ \A k \in Keys : q[k] = Absent \/ q[k] \in SUBSET Tokens
        /\ \A k \in FlagKeys \ {"LDFLAGS"} : q[k] # Absent => \A t, u \in q[k] : ~Clash(t, u)
        /\ q["LDFLAGS"] # Absent => Apart(q["LDFLAGS"])
    BY <1>7, <2>1, ValuesOf
  <2>4. \A k \in Keys : r[k] = Absent \/ r[k] \in SUBSET Tokens
    BY <1>3, <1>5, <1>6, <1>10, <2>2, <2>3
  <2>5. \A k \in FlagKeys \ {"LDFLAGS"} : r[k] = q[k]
    BY <1>3, <1>5, <1>6
  <2>6. r["LDFLAGS"] # Absent => Apart(r["LDFLAGS"])
    BY <1>10, <1>11, <2>3
  <2> QED BY <1>6, <2>3, <2>4, <2>5, <2>6, ValuesOf
<1>13. r["build_mode"] = p["build_mode"] /\ r["CC"] = IF row.cc # Absent THEN {row.cc} ELSE q["CC"]
  BY <1>3, <1>5, <1>6, <1>7
<1> QED BY <1>8, <1>10, <1>11, <1>12, <1>13 DEF r

-----------------------------------------------------------------------------
(* What the PKGBUILD sets itself, under the bare profile, neither adds a    *)
(* loop nor changes the mode of a build.                                    *)

\* The profiles a build resolves.
LEMMA ExtractedAre ==
    ASSUME Apiece, NEW w, WellWritten(w, Tokens)
    PROVE  LET b == WithExtracted(w.profiles, w.extracted)
               D == DOMAIN w.profiles
               E == "pkgbuild_extracted"
           IN  \/ b = w.profiles
               \/ /\ DOMAIN b = D \cup {E} /\ E \notin D /\ "bare" \in D /\ w.profiles["bare"].extends = Absent
                  /\ b[E] = [set |-> w.extracted, extends |-> Absent, append |-> [k \in Keys |-> Absent]]
                  /\ b["bare"] = [set |-> w.profiles["bare"].set, append |-> w.profiles["bare"].append, extends |-> E]
                  /\ \A n \in D \ {"bare"} : b[n] = w.profiles[n]
                  /\ w.extracted # Absent
<1> DEFINE D == DOMAIN w.profiles
           E == "pkgbuild_extracted"
           b == WithExtracted(w.profiles, w.extracted)
<1>1. CASE w.extracted = Absent \/ w.profiles["bare"].extends # Absent
  BY <1>1 DEF WithExtracted
<1>2. CASE ~(w.extracted = Absent \/ w.profiles["bare"].extends # Absent)
  <2>1. E \notin D /\ "bare" \in D /\ E # "bare"
    BY DEF WellWritten
  <2>2. w.profiles["bare"] = [set |-> w.profiles["bare"].set, append |-> w.profiles["bare"].append,
                              extends |-> w.profiles["bare"].extends]
    BY <2>1 DEF WellWritten
  <2>3. b = [n \in D \cup {E} |->
               IF n = "bare" THEN [w.profiles[n] EXCEPT !.extends = E]
               ELSE IF n = E
                    THEN [set |-> w.extracted, extends |-> Absent, append |-> [k \in Keys |-> Absent]]
                    ELSE w.profiles[n]]
    BY <1>2 DEF WithExtracted
  <2> HIDE DEF b
  <2>4. DOMAIN b = D \cup {E} /\ \A n \in D \ {"bare"} : b[n] = w.profiles[n]
    BY <2>1, <2>3
  <2>5. b[E] = [set |-> w.extracted, extends |-> Absent, append |-> [k \in Keys |-> Absent]]
    BY <2>1, <2>3
  <2>6. b["bare"] = [w.profiles["bare"] EXCEPT !.extends = E]
    BY <2>1, <2>3
  <2>7. b["bare"] = [set |-> w.profiles["bare"].set, append |-> w.profiles["bare"].append, extends |-> E]
    BY <2>2, <2>6
  <2> QED BY <1>2, <2>1, <2>4, <2>5, <2>7 DEF b
<1> QED BY <1>1, <1>2

LEMMA BothProfiled ==
    ASSUME Apiece, NEW w, WellWritten(w, Tokens)
    PROVE  LET b == WithExtracted(w.profiles, w.extracted)
           IN  /\ Profiled(w.profiles) /\ Profiled(b) /\ DOMAIN w.profiles \subseteq DOMAIN b
               /\ \A n \in DOMAIN b : b[n].append["build_mode"] = Absent
<1> DEFINE b == WithExtracted(w.profiles, w.extracted)
           D == DOMAIN w.profiles
           E == "pkgbuild_extracted"
           none == [k \in Keys |-> Absent]
<1>1. /\ IsFiniteSet(D) /\ Absent \notin D
      /\ \A n \in D : /\ w.profiles[n].extends \in D \cup {Absent}
                       /\ Values(w.profiles[n].set, Tokens) /\ Values(w.profiles[n].append, Tokens)
                       /\ w.profiles[n].append["build_mode"] = Absent
  BY DEF WellWritten
<1>2. Profiled(w.profiles)
  BY <1>1 DEF Profiled
<1>3. CASE b = w.profiles
  BY <1>1, <1>2, <1>3
<1>4. CASE b # w.profiles
  <2>1. /\ DOMAIN b = D \cup {E} /\ E \notin D /\ "bare" \in D
        /\ b[E] = [set |-> w.extracted, extends |-> Absent, append |-> none]
        /\ b["bare"] = [set |-> w.profiles["bare"].set, append |-> w.profiles["bare"].append, extends |-> E]
        /\ \A n \in D \ {"bare"} : b[n] = w.profiles[n]
        /\ w.extracted # Absent
    BY <1>4, ExtractedAre
  <2>2. Values(none, Tokens) /\ none["build_mode"] = Absent
    <3>1. "LDFLAGS" \in Keys /\ FlagKeys \subseteq Keys /\ "build_mode" \in Keys
      BY DEF Keys, FlagKeys, Internal
    <3> QED BY <3>1 DEF Values, OfFlags
  <2>3. Values(w.extracted, Tokens)
    BY <2>1 DEF WellWritten
  <2>4. IsFiniteSet(D \cup {E}) /\ Absent \notin D \cup {E}
    BY <1>1, FS_AddElement DEF Apiece
  <2> HIDE DEF b, none
  <2>5. ASSUME NEW n \in D \cup {E}
        PROVE  /\ b[n].extends \in D \cup {E, Absent}
               /\ Values(b[n].set, Tokens) /\ Values(b[n].append, Tokens) /\ b[n].append["build_mode"] = Absent
    <3>1. CASE n = E
      BY <3>1, <2>1, <2>2, <2>3
    <3>2. CASE n = "bare"
      BY <3>2, <1>1, <2>1
    <3>3. CASE n \in D \ {"bare"}
      BY <3>3, <1>1, <2>1
    <3> QED BY <3>1, <3>2, <3>3
  <2>6. Profiled(b)
    BY <2>1, <2>4, <2>5 DEF Profiled
  <2> QED BY <1>2, <2>1, <2>5, <2>6 DEF b
<1> QED BY <1>3, <1>4

LEMMA ExtractedLoops ==
    ASSUME Apiece, NEW w, WellWritten(w, Tokens), NEW start \in DOMAIN w.profiles
    PROVE  Loops(WithExtracted(w.profiles, w.extracted), start) <=> Loops(w.profiles, start)
<1> DEFINE b == WithExtracted(w.profiles, w.extracted)
           D == DOMAIN w.profiles
           E == "pkgbuild_extracted"
<1>1. CASE b = w.profiles
  BY <1>1
<1>2. CASE b # w.profiles
  <2>a. /\ DOMAIN b = D \cup {E} /\ E \notin D /\ "bare" \in D /\ w.profiles["bare"].extends = Absent
        /\ b[E] = [set |-> w.extracted, extends |-> Absent, append |-> [k \in Keys |-> Absent]]
        /\ b["bare"] = [set |-> w.profiles["bare"].set, append |-> w.profiles["bare"].append, extends |-> E]
        /\ \A n \in D \ {"bare"} : b[n] = w.profiles[n]
        /\ w.extracted # Absent
    BY <1>2, ExtractedAre
  <2> HIDE DEF b
  <2>1. /\ DOMAIN b = D \cup {E} /\ E \notin D /\ "bare" \in D /\ w.profiles["bare"].extends = Absent
        /\ b[E].extends = Absent /\ b["bare"].extends = E
        /\ \A n \in D \ {"bare"} : b[n] = w.profiles[n]
    BY <2>a
  <2>2. Absent \notin D /\ Absent # E
    BY DEF WellWritten, Apiece
  <2> HIDE DEF b
  <2>3. ASSUME NEW S \in SUBSET DOMAIN b, \A p \in S : b[p].extends \in S
        PROVE  S \in SUBSET D /\ \A p \in S : w.profiles[p].extends \in S
    <3>1. E \notin S
      BY <2>1, <2>2, <2>3
    <3>2. "bare" \notin S
      BY <2>1, <2>3, <3>1
    <3> QED BY <2>1, <2>3, <3>1, <3>2
  <2>4. ASSUME NEW S \in SUBSET D, \A p \in S : w.profiles[p].extends \in S
        PROVE  S \in SUBSET DOMAIN b /\ \A p \in S : b[p].extends \in S
    <3>1. "bare" \notin S
      BY <2>1, <2>2, <2>4
    <3> QED BY <2>1, <2>4, <3>1
  <2> QED BY <2>3, <2>4 DEF Loops, b
<1> QED BY <1>1, <1>2

LEMMA ExtractedMode ==
    ASSUME Apiece, NEW w, WellWritten(w, Tokens), NEW start \in DOMAIN w.profiles
    PROVE  ModeOfChain(WithExtracted(w.profiles, w.extracted), start) = ModeOfChain(w.profiles, start)
<1> DEFINE b == WithExtracted(w.profiles, w.extracted)
           D == DOMAIN w.profiles
           E == "pkgbuild_extracted"
           V == Walks(w.profiles)
           W == Walks(b)
           Agree(seen) == \A p \in D : W[seen][p] = V[seen][p]
           Bad == {seen \in SUBSET D : ~Agree(seen)}
<1>1. CASE b = w.profiles
  BY <1>1
<1>2. CASE b # w.profiles
  <2>a. /\ DOMAIN b = D \cup {E} /\ E \notin D /\ "bare" \in D /\ w.profiles["bare"].extends = Absent
        /\ b[E] = [set |-> w.extracted, extends |-> Absent, append |-> [k \in Keys |-> Absent]]
        /\ b["bare"] = [set |-> w.profiles["bare"].set, append |-> w.profiles["bare"].append, extends |-> E]
        /\ \A n \in D \ {"bare"} : b[n] = w.profiles[n]
        /\ w.extracted # Absent
    BY <1>2, ExtractedAre
  <2>b. w.extracted["build_mode"] = Absent
    BY <2>a DEF WellWritten
  <2> HIDE DEF b
  <2>1. /\ DOMAIN b = D \cup {E} /\ E \notin D /\ "bare" \in D /\ w.profiles["bare"].extends = Absent
        /\ b[E].extends = Absent /\ b["bare"].extends = E
        /\ \A n \in D \ {"bare"} : b[n] = w.profiles[n]
        /\ b[E].set["build_mode"] = Absent /\ b["bare"].set = w.profiles["bare"].set
    BY <2>a, <2>b
  <2>c. Profiled(w.profiles) /\ Profiled(b)
    BY BothProfiled DEF b
  <2>2. Profiled(w.profiles) /\ Profiled(b) /\ IsFiniteSet(D) /\ Absent \notin D /\ Absent # E
    BY <2>c DEF Profiled, Apiece
  <2>3. ASSUME NEW seen \in SUBSET D, NEW p \in D
        PROVE  /\ V[seen][Absent] = Absent
               /\ p \in seen => V[seen][p] = Absent
               /\ p \notin seen => V[seen][p] = IF w.profiles[p].set["build_mode"] # Absent
                                                THEN w.profiles[p].set["build_mode"]
                                                ELSE V[seen \cup {p}][w.profiles[p].extends]
    BY <2>2, WalkStep
  <2>4. ASSUME NEW seen \in SUBSET (D \cup {E}), NEW p \in D \cup {E}
        PROVE  /\ W[seen][Absent] = Absent
               /\ p \in seen => W[seen][p] = Absent
               /\ p \notin seen => W[seen][p] = IF b[p].set["build_mode"] # Absent THEN b[p].set["build_mode"]
                                                ELSE W[seen \cup {p}][b[p].extends]
    <3>1. seen \in SUBSET DOMAIN b /\ p \in DOMAIN b
      BY <2>1
    <3> QED BY <2>2, <3>1, WalkStep
  <2>5. ModeOfChain(b, start) = W[{}][start] /\ ModeOfChain(w.profiles, start) = V[{}][start]
    BY <2>2, WalksAre DEF Profiled
  <2>6. Bad \subseteq SUBSET D /\ \A seen \in SUBSET D : seen \in Bad <=> ~Agree(seen)
    OBVIOUS
  <2> HIDE DEF b, V, W, Bad
  <2>7. \A seen \in SUBSET D : W[seen][E] = Absent
    <3> TAKE seen \in SUBSET D
    <3>1. W[seen][E] = W[seen \cup {E}][Absent]
      BY <2>1, <2>4
    <3>2. seen \cup {E} \in SUBSET (D \cup {E})
      OBVIOUS
    <3> QED BY <2>4, <3>1, <3>2
  <2>8. \A p \in D : w.profiles[p].extends \in D \cup {Absent}
    BY <2>2 DEF Profiled
  <2>9. Bad = {}
    <3> SUFFICES ASSUME Bad # {} PROVE FALSE
      OBVIOUS
    <3>1. PICK seen \in Bad : \A t \in Bad : seen \subseteq t => t = seen
      BY <2>2, <2>6, LargestOf
    <3>2. PICK p \in D : W[seen][p] # V[seen][p]
      BY <2>6
    <3>3. seen \in SUBSET D /\ seen \in SUBSET (D \cup {E}) /\ p \notin seen
      BY <2>3, <2>4, <2>6, <3>2
    <3> DEFINE s == seen \cup {p}
    <3>4. s \in SUBSET D /\ s \in SUBSET (D \cup {E}) /\ s \notin Bad
      BY <3>1, <3>3
    <3>5. Agree(s)
      BY <2>6, <3>4
    <3>6. V[s][Absent] = Absent /\ W[s][Absent] = Absent /\ W[s][E] = Absent
      BY <2>3, <2>4, <2>7, <3>4
    <3>7. V[seen][p] = IF w.profiles[p].set["build_mode"] # Absent THEN w.profiles[p].set["build_mode"]
                       ELSE V[s][w.profiles[p].extends]
      BY <2>3, <3>3
    <3>8. W[seen][p] = IF b[p].set["build_mode"] # Absent THEN b[p].set["build_mode"] ELSE W[s][b[p].extends]
      BY <2>4, <3>3
    <3> HIDE DEF s
    <3>9. CASE p = "bare"
      BY <3>9, <2>1, <3>2, <3>6, <3>7, <3>8
    <3>10. CASE p # "bare"
      BY <3>10, <2>1, <2>8, <3>2, <3>5, <3>6, <3>7, <3>8
    <3> QED BY <3>9, <3>10
  <2> QED BY <2>5, <2>6, <2>9 DEF b
<1> QED BY <1>1, <1>2

\* One profile, for every profiles.toml, rules, PKGBUILD and row.
LEMMA OneProfileIs ==
    ASSUME Meant, Apiece, NEW w, WellWritten(w, Tokens)
    PROVE  OneProfile(w, ResolveProfile(w.profiles, w.matched, w.defaults, w.row, w.extracted))
<1> DEFINE b == WithExtracted(w.profiles, w.extracted)
           start == Chosen(w.matched, w.defaults)
           chain == MergeChain(b, start)
           p == ExpandToolchain(chain, w.defaults.toolchain)
           out == ResolveProfile(w.profiles, w.matched, w.defaults, w.row, w.extracted)
           mode == ModeOfChain(w.profiles, start)
<1>1. start \in DOMAIN w.profiles /\ (w.row # Absent => RowTyped(w.row))
  BY DEF WellWritten, RowTyped
<1>2. /\ Profiled(b) /\ start \in DOMAIN b /\ IsFiniteSet(DOMAIN b)
      /\ \A n \in DOMAIN b : b[n].append["build_mode"] = Absent
  BY <1>1, BothProfiled DEF Profiled
<1>3. Loops(w.profiles, start) <=> chain = Absent
  <2>1. Loops(b, start) <=> chain = Absent
    <3> HIDE DEF b, start
    <3> QED BY <1>2, ChainLoops
  <2> QED BY <1>1, <2>1, ExtractedLoops
<1>4. chain # Absent => Values(chain, Tokens) /\ chain["build_mode"] = mode
  <2>1. ModeOfChain(b, start) = mode
    BY <1>1, ExtractedMode
  <2> HIDE DEF b, start, mode
  <2>2. {} \in SUBSET DOMAIN b /\ chain = Chains(b)[{}][start]
    BY <1>2, ChainsAre
  <2>3. chain # Absent => Values(chain, Tokens)
    BY <1>2, <2>2, ChainValues
  <2> QED BY <1>2, <2>1, <2>3, ChainMode
<1>5. out = IF chain = Absent THEN Absent ELSE IF w.row = Absent THEN p ELSE ApplyRow(p, w.row)
  BY DEF ResolveProfile
<1>6. Mode(w.profiles, w.matched, w.defaults) # {"error"}
        => Mode(w.profiles, w.matched, w.defaults) = mode
  BY DEF Mode
<1>7. CASE chain = Absent
  BY <1>3, <1>5, <1>7 DEF OneProfile
<1>8. CASE chain # Absent
  <2> HIDE DEF chain, start, mode
  <2>1. Values(p, Tokens) /\ p["build_mode"] = mode
    BY <1>4, <1>8, ExpandedIs
  <2>2. out = IF w.row = Absent THEN p ELSE ApplyRow(p, w.row)
    BY <1>5, <1>8
  <2> HIDE DEF p, out
  <2>3. Values(out, Tokens) /\ out["build_mode"] = mode
    BY <1>1, <2>1, <2>2, RowIs
  <2>4. out # Absent
    BY <2>3, ValuesPresent
  <2>5. \A k \in FlagKeys : out[k] # Absent => \A t, u \in out[k] : ~Clash(t, u)
    BY <2>3 DEF Values
  <2>6. w.row # Absent =>
          /\ w.row.cc # Absent => out["CC"] = {w.row.cc}
          /\ w.row.cc = Absent /\ w.row.toolchain # Absent => out["CC"] = Bundle(w.row.toolchain).CC
          /\ w.row.ld # Absent => LinkersOf(out["LDFLAGS"]) = {w.row.ld}
          /\ w.row.ld = Absent /\ w.row.toolchain = "gcc" /\ out["LDFLAGS"] # Absent
               => LinkersOf(out["LDFLAGS"]) = {}
    BY <1>1, <2>1, <2>2, RowIs
  <2>7. Loops(w.profiles, start) <=> out = Absent
    BY <1>3, <1>8, <2>4
  <2> QED BY <1>6, <2>3, <2>5, <2>6, <2>7 DEF OneProfile, start, out
<1> QED BY <1>7, <1>8

(***************************************************************************)
(* THEOREM FlagsAreSound: whatever profiles.toml, rules, PKGBUILD and row  *)
(* of [package_compiler_overrides] a package has, it is built with one     *)
(* profile, none if its chain has no end: of one toolchain where the row   *)
(* says which, no two tokens of a flag's value excluding one another, in   *)
(* the mode under which it is recorded (primitives/profile.py); and        *)
(* whatever profile and circumstances a build has, its makepkg.conf is for *)
(* one toolchain (primitives/makepkg_conf.py).                             *)
(***************************************************************************)
THEOREM FlagsAreSound ==
    ASSUME Meant, Apiece, NEW Builds, \A b \in Builds : WellConfigured(b, Tokens),
           NEW Worlds, \A w \in Worlds : WellWritten(w, Tokens)
    PROVE  (Posed("flags", Builds) \/ Posed("profile", Worlds)) /\ [][ComputeFlags \/ ComputeProfile]_question
             => []FlagsSound
<1> DEFINE Asked == /\ subject = "flags" => input \in Builds /\ (computed => output = Emitted(input))
                    /\ subject = "profile" => input \in Worlds /\ (computed =>
                         output = ResolveProfile(input.profiles, input.matched, input.defaults, input.row, input.extracted))
<1>1. Posed("flags", Builds) \/ Posed("profile", Worlds) => Asked
  BY DEF Posed
<1>2. Asked /\ [ComputeFlags \/ ComputeProfile]_question => Asked'
  BY DEF ComputeFlags, ComputeProfile, Answer, question
<1>3. Asked => FlagsSound
  <2> SUFFICES ASSUME Asked PROVE FlagsSound
    OBVIOUS
  <2>1. Answered("flags") => OneToolchain(input, output)
    BY FlagsFit DEF Answered
  <2>2. Answered("profile") => OneProfile(input, output)
    BY OneProfileIs DEF Answered
  <2> QED BY <2>1, <2>2 DEF FlagsSound, ProfileIsOne
<1> QED BY <1>1, <1>2, <1>3, PTL

-----------------------------------------------------------------------------
(* The seeds of a sandbox.  A walk along what is needed grows, while it has *)
(* not ended, by one name with needs of its own at least; so the steps it   *)
(* is given are enough.                                                     *)

Wider(found, needs) == found \cup UNION {needs[p] : p \in found \cap DOMAIN needs}
Grown(start, needs, size) ==
    CHOOSE g : g = [n \in 0..size |-> IF n = 0 THEN start ELSE Wider(g[n - 1], needs)]

\* The steps of a walk are defined.
LEMMA GrownIs ==
    ASSUME NEW start, NEW needs, NEW size \in Nat
    PROVE  LET g == Grown(start, needs, size)
           IN  /\ g[0] = start
               /\ \A n \in 0..size : n + 1 <= size => g[n + 1] = Wider(g[n], needs)
<1> DEFINE Then(g, n) == IF n = 0 THEN start ELSE Wider(g[n - 1], needs)
           To(n) == \E g : g = [k \in 0..n |-> Then(g, k)]
           Bad == {n \in Nat : ~To(n)}
           g == Grown(start, needs, size)
<1>1. To(0)
  <2> DEFINE h == [k \in 0..0 |-> start]
  <2>1. \A k \in 0..0 : Then(h, k) = start
    OBVIOUS
  <2>2. h = [k \in 0..0 |-> Then(h, k)]
    BY <2>1
  <2> HIDE DEF h
  <2> QED BY <2>2
<1>2. ASSUME NEW n \in Nat, To(n) PROVE To(n + 1)
  <2>1. PICK f : f = [k \in 0..n |-> Then(f, k)]
    BY <1>2
  <2> DEFINE h == [k \in 0..(n + 1) |-> IF k = n + 1 THEN Wider(f[n], needs) ELSE f[k]]
  <2>2. ASSUME NEW k \in 0..(n + 1) PROVE h[k] = Then(h, k)
    <3>1. CASE k = n + 1
      <4>1. h[k] = Wider(f[n], needs) /\ k # 0 /\ k - 1 = n /\ h[n] = f[n]
        BY <3>1
      <4> HIDE DEF h
      <4> QED BY <4>1
    <3>2. CASE k # n + 1 /\ k # 0
      <4>1. k \in 0..n /\ k - 1 \in 0..n /\ k - 1 # n + 1 /\ k - 1 \in 0..(n + 1)
        BY <3>2
      <4>2. h[k] = f[k] /\ h[k - 1] = f[k - 1] /\ f[k] = Then(f, k)
        BY <4>1, <3>2, <2>1
      <4> HIDE DEF h
      <4> QED BY <4>2
    <3>3. CASE k # n + 1 /\ k = 0
      <4>1. k \in 0..n
        BY <3>3
      <4>2. h[k] = f[k] /\ f[k] = start
        BY <4>1, <3>3, <2>1
      <4> HIDE DEF h
      <4> QED BY <4>2, <3>3
    <3> QED BY <3>1, <3>2, <3>3
  <2>3. h = [k \in 0..(n + 1) |-> h[k]]
    OBVIOUS
  <2> HIDE DEF h
  <2>4. h = [k \in 0..(n + 1) |-> Then(h, k)]
    BY <2>2, <2>3
  <2> QED BY <2>4
<1>b. Bad \subseteq Nat /\ \A n \in Nat : n \in Bad <=> ~To(n)
  OBVIOUS
<1> HIDE DEF To, Bad
<1>3. Bad = {}
  <2> SUFFICES ASSUME Bad # {} PROVE FALSE
    OBVIOUS
  <2>1. PICK n \in Bad : \A m \in Bad : n <= m
    BY <1>b, FirstOf
  <2>2. n # 0 /\ n - 1 \in Nat /\ (n - 1) + 1 = n
    BY <1>1, <1>b
  <2>3. n - 1 \in Bad
    BY <2>2, <1>2, <1>b
  <2> QED BY <2>1, <2>2, <2>3
<1>4. \E h : h = [k \in 0..size |-> Then(h, k)]
  BY <1>3, <1>b DEF To
<1>5. g = [k \in 0..size |-> Then(g, k)]
  BY <1>4 DEF Grown
<1> HIDE DEF g
<1>6. g[0] = start
  BY <1>5
<1>7. ASSUME NEW n \in 0..size, n + 1 <= size PROVE g[n + 1] = Wider(g[n], needs)
  <2>1. n + 1 \in 0..size /\ n + 1 # 0 /\ (n + 1) - 1 = n
    BY <1>7
  <2> QED BY <1>5, <2>1
<1> QED BY <1>6, <1>7 DEF g

Closed(S, needs) == \A p \in S \cap DOMAIN needs : needs[p] \subseteq S

\* A walk ends with the least set that is closed under what is needed.
LEMMA WalkIsLeast ==
    ASSUME NEW start, NEW needs, IsFiniteSet(DOMAIN needs)
    PROVE  /\ Walk(start, needs) = Least(start, needs)
           /\ start \subseteq Walk(start, needs)
<1> DEFINE D == DOMAIN needs
           size == Cardinality(D) + 1
           g == Grown(start, needs, size)
           all == start \cup UNION {needs[p] : p \in D}
           c(n) == Cardinality(g[n] \cap D)
<1>1. size \in Nat /\ size # 0 /\ Cardinality(D) \in Nat
  BY FS_CardinalityType
<1>2. Walk(start, needs) = g[size]
  BY DEF Walk, Grown, Wider
<1>3. g[0] = start /\ \A n \in 0..size : n + 1 <= size => g[n + 1] = Wider(g[n], needs)
  BY <1>1, GrownIs
<1>d. size = Cardinality(D) + 1
  OBVIOUS
<1> HIDE DEF g, size
<1>4. \A n \in 0..size : n + 1 <= size => g[n] \subseteq g[n + 1]
  BY <1>3 DEF Wider
\* What holds at the start and of each next step holds at the end.
<1>5. ASSUME NEW Ok, 0 \in Ok, \A n \in 0..size : n \in Ok /\ n + 1 <= size => n + 1 \in Ok
      PROVE  \A n \in 0..size : n \in Ok
  <2> DEFINE Off == {n \in Nat : n <= size /\ n \notin Ok}
  <2>1. Off \subseteq Nat /\ \A n \in Nat : n \in Off <=> n <= size /\ n \notin Ok
    OBVIOUS
  <2> HIDE DEF Off
  <2>2. Off = {}
    <3> SUFFICES ASSUME Off # {} PROVE FALSE
      OBVIOUS
    <3>1. PICK n \in Off : \A m \in Off : n <= m
      BY <2>1, FirstOf
    <3>2. n # 0 /\ n - 1 \in 0..size /\ (n - 1) + 1 = n /\ n <= size /\ n - 1 \in Nat
      BY <1>1, <1>5, <2>1
    <3>3. n - 1 \in Ok
      BY <2>1, <3>1, <3>2
    <3> QED BY <1>5, <2>1, <3>2, <3>3
  <2> QED BY <1>1, <2>1, <2>2
<1>6. \A S : start \subseteq S /\ Closed(S, needs) => g[size] \subseteq S
  <2> SUFFICES ASSUME NEW S, start \subseteq S, Closed(S, needs) PROVE g[size] \subseteq S
    OBVIOUS
  <2> DEFINE Ok == {n \in 0..size : g[n] \subseteq S}
  <2>1. 0 \in Ok
    BY <1>1, <1>3
  <2>2. ASSUME NEW n \in 0..size, n \in Ok, n + 1 <= size PROVE n + 1 \in Ok
    <3>1. g[n + 1] = Wider(g[n], needs) /\ n + 1 \in 0..size
      BY <1>1, <1>3, <2>2
    <3>2. Wider(g[n], needs) \subseteq S
      BY <2>2 DEF Wider, Closed
    <3> QED BY <3>1, <3>2
  <2> HIDE DEF Ok
  <2>3. size \in Ok
    BY <1>1, <1>5, <2>1, <2>2
  <2> QED BY <2>3 DEF Ok
<1>7. start \subseteq g[size]
  <2> DEFINE Ok == {n \in 0..size : start \subseteq g[n]}
  <2>1. 0 \in Ok
    BY <1>1, <1>3
  <2>2. ASSUME NEW n \in 0..size, n \in Ok, n + 1 <= size PROVE n + 1 \in Ok
    BY <1>1, <1>4, <2>2
  <2> HIDE DEF Ok
  <2>3. size \in Ok
    BY <1>1, <1>5, <2>1, <2>2
  <2> QED BY <2>3 DEF Ok
<1>8. g[size] \subseteq all
  <2>1. start \subseteq all /\ Closed(all, needs)
    BY DEF Closed
  <2> QED BY <1>6, <2>1
<1>9. \A n \in 0..size : IsFiniteSet(g[n] \cap D) /\ c(n) \in Nat /\ c(n) <= Cardinality(D)
  <2> TAKE n \in 0..size
  <2>1. g[n] \cap D \subseteq D
    OBVIOUS
  <2> QED BY <2>1, FS_Subset, FS_CardinalityType
\* A step that finds no more names with needs is the last but one that finds anything.
<1>10. ASSUME NEW n \in 0..size, n + 1 <= size, g[n] \cap D = g[n + 1] \cap D PROVE Closed(g[n + 1], needs)
  <2>1. g[n + 1] = Wider(g[n], needs)
    BY <1>3, <1>10
  <2> QED BY <1>10, <2>1 DEF Closed, Wider
<1>11. Closed(g[size], needs)
  <2> DEFINE Ok == {n \in 0..size : Closed(g[n], needs) \/ n <= c(n)}
  <2>1. 0 \in Ok
    BY <1>1, <1>9
  <2>2. ASSUME NEW n \in 0..size, n \in Ok, n + 1 <= size PROVE n + 1 \in Ok
    <3>1. n + 1 \in 0..size /\ g[n + 1] = Wider(g[n], needs) /\ g[n] \subseteq g[n + 1]
      BY <1>1, <1>3, <1>4, <2>2
    <3>2. CASE Closed(g[n], needs)
      <4>1. g[n + 1] = g[n]
        BY <3>1, <3>2 DEF Closed, Wider
      <4> QED BY <3>1, <3>2, <4>1
    <3>3. CASE g[n] \cap D = g[n + 1] \cap D
      BY <1>10, <2>2, <3>1, <3>3
    <3>4. CASE ~Closed(g[n], needs) /\ g[n] \cap D # g[n + 1] \cap D
      <4>1. n <= c(n)
        BY <2>2, <3>4
      <4>2. g[n] \cap D \subseteq g[n + 1] \cap D
        BY <3>1
      <4>3. c(n) <= c(n + 1) /\ c(n) # c(n + 1)
        BY <1>9, <3>1, <3>4, <4>2, FS_Subset
      <4> DEFINE x == c(n)
                 y == c(n + 1)
      <4>4. x \in Nat /\ y \in Nat
        BY <1>9, <3>1
      <4>5. n <= x /\ x <= y /\ x # y
        BY <4>1, <4>3
      <4> HIDE DEF x, y
      <4>6. n + 1 <= y
        BY <4>4, <4>5
      <4> QED BY <3>1, <4>6 DEF y
    <3> QED BY <3>2, <3>3, <3>4
  <2>b. \A n \in Ok : Closed(g[n], needs) \/ n <= c(n)
    OBVIOUS
  <2> HIDE DEF Ok
  <2>3. size \in Ok
    BY <1>1, <1>5, <2>1, <2>2
  <2>4. ~(size <= c(size))
    <3> DEFINE x == c(size)
               y == Cardinality(D)
    <3>1. x \in Nat /\ y \in Nat /\ x <= y /\ size = y + 1
      BY <1>1, <1>9, <1>d
    <3> HIDE DEF x, y
    <3>2. ~(size <= x)
      BY <3>1
    <3> QED BY <3>2 DEF x
  <2> QED BY <2>b, <2>3, <2>4
<1>12. g[size] = Least(start, needs)
  <2>1. \A x \in g[size] : x \in Least(start, needs)
    <3> TAKE x \in g[size]
    <3>1. \A S \in SUBSET all :
            start \subseteq S /\ (\A p \in S \cap D : needs[p] \subseteq S) => x \in S
      BY <1>6 DEF Closed
    <3> QED BY <1>8, <3>1 DEF Least
  <2>2. ASSUME NEW x \in Least(start, needs) PROVE x \in g[size]
    <3>1. /\ g[size] \in SUBSET all /\ start \subseteq g[size]
          /\ \A p \in g[size] \cap D : needs[p] \subseteq g[size]
      BY <1>7, <1>8, <1>11 DEF Closed
    <3> QED BY <2>2, <3>1 DEF Least
  <2> QED BY <2>1, <2>2
<1> QED BY <1>2, <1>7, <1>12

\* Of the seeds of one name one is kept.
LEMMA OneIsKept ==
    ASSUME NEW seeds, \A s \in seeds : s.from \in {"host", "session", "repo"}, NEW s \in seeds
    PROVE  \E t \in LastPerPkgname(seeds) : t.name = s.name
<1> DEFINE Rank(t) == CASE t.from = "host" -> 1 [] t.from = "session" -> 2 [] t.from = "repo" -> 3
           Same == {t \in seeds : t.name = s.name}
           Kept(t) == \A u \in seeds : u.name = t.name => Rank(u) <= Rank(t)
<1>1. LastPerPkgname(seeds) = {t \in seeds : Kept(t)}
  BY DEF LastPerPkgname
<1>2. \A t \in seeds : /\ Rank(t) \in {1, 2, 3} /\ (Rank(t) = 1 <=> t.from = "host")
                       /\ (Rank(t) = 2 <=> t.from = "session") /\ (Rank(t) = 3 <=> t.from = "repo")
  OBVIOUS
<1> HIDE DEF Rank
<1>3. CASE \E t \in Same : t.from = "repo"
  BY <1>1, <1>2, <1>3
<1>4. CASE ~(\E t \in Same : t.from = "repo") /\ \E t \in Same : t.from = "session"
  BY <1>1, <1>2, <1>4
<1>5. CASE ~(\E t \in Same : t.from \in {"repo", "session"})
  BY <1>1, <1>2, <1>5
<1> QED BY <1>3, <1>4, <1>5

\* The seeds of the host, of this run and of the repos.
LEMMA SeedsOf ==
    ASSUME NEW w, InstallArgs(w) # Refusal
    PROVE  LET linked == IF w.rust THEN LlvmLinked(w) ELSE {}
               own == (DepClosure(w) \cup ToolchainClosure(w)) \cap w.own
               seeds == {Host(p, w.installed[p]) :
                            p \in {x \in own \ linked : x \in DOMAIN w.installed /\ <<x, w.installed[x]>> \in w.disk}}
                        \cup {Session(w, p) : p \in (DOMAIN w.session \cap DepClosure(w)) \ linked}
                        \cup {Repo(p) : p \in (({Llvm} \cup ToolchainClosure(w)) \cap linked)
                                              \cup (IF w.lib32 THEN {Multilib} ELSE {})}
           IN  InstallArgs(w) = LastPerPkgname(seeds)
<1> DEFINE linked == IF w.rust THEN LlvmLinked(w) ELSE {}
           T == ToolchainClosure(w)
           C == DepClosure(w)
           onDisk(x) == x \in DOMAIN w.installed /\ <<x, w.installed[x]>> \in w.disk
           host == {Host(p, w.installed[p]) : p \in {x \in ((C \cup T) \cap w.own) \ linked : onDisk(x)}}
           run == {Session(w, p) : p \in (DOMAIN w.session \cap C) \ linked}
           swapped == ({Llvm} \cup T) \cap linked
           extra == IF w.lib32 THEN {Multilib} ELSE {}
           ofHost == ResolveDepArtifacts(w) \cup ToolchainArtifacts(w)
           ofRun == {Session(w, p) : p \in DOMAIN w.session \cap C}
           kept == {s \in ofHost \cup ofRun : s.name \notin linked}
           llvm == FetchRepoPackages(w, swapped)
           multi == FetchRepoPackages(w, extra)
<1>1. ofHost = {Host(p, w.installed[p]) : p \in {x \in (C \cup T) \cap w.own : onDisk(x)}}
  <2>1. \A p : InstalledArtifact(w, p) = IF onDisk(p) THEN {Host(p, w.installed[p])} ELSE {}
    BY DEF InstalledArtifact
  <2>2. /\ ResolveDepArtifacts(w) = UNION {InstalledArtifact(w, p) : p \in C \cap w.own}
        /\ ToolchainArtifacts(w) = UNION {InstalledArtifact(w, p) : p \in T \cap w.own}
    BY DEF ResolveDepArtifacts, ToolchainArtifacts
  <2> HIDE DEF onDisk
  <2>3. ASSUME NEW s PROVE s \in ofHost <=> \E p \in (C \cup T) \cap w.own : onDisk(p) /\ s = Host(p, w.installed[p])
    BY <2>1, <2>2
  <2> HIDE DEF ofHost
  <2> QED BY <2>3
<1>2. \A p, v : Host(p, v).name = p /\ Session(w, p).name = p
  BY DEF Host, Session
<1>3. kept = host \cup run
  <2>1. ASSUME NEW s PROVE s \in kept <=> s \in host \cup run
    <3> HIDE DEF linked, T, C, onDisk
    <3> QED BY <1>1, <1>2
  <2> QED BY <2>1
<1>4. InstallArgs(w) = IF Unreadable(w) \/ llvm = Refusal \/ multi = Refusal THEN Refusal
                       ELSE LastPerPkgname(kept \cup llvm \cup multi)
  BY DEF InstallArgs
<1>5. llvm # Refusal /\ multi # Refusal /\ InstallArgs(w) = LastPerPkgname(kept \cup llvm \cup multi)
  <2> HIDE DEF llvm, multi, kept
  <2> QED BY <1>4
<1>6. llvm = {Repo(p) : p \in swapped} /\ multi = {Repo(p) : p \in extra}
  <2> HIDE DEF swapped, extra
  <2> QED BY <1>5 DEF FetchRepoPackages
<1>7. llvm \cup multi = {Repo(p) : p \in swapped \cup extra}
  <2> HIDE DEF swapped, extra, llvm, multi
  <2> QED BY <1>6
<1>8. kept \cup llvm \cup multi = host \cup run \cup {Repo(p) : p \in swapped \cup extra}
  <2> HIDE DEF swapped, extra, llvm, multi, kept, host, run
  <2> QED BY <1>3, <1>7
<1>9. InstallArgs(w) = LastPerPkgname(host \cup run \cup {Repo(p) : p \in swapped \cup extra})
  <2> HIDE DEF swapped, extra, llvm, multi, kept, host, run
  <2> QED BY <1>5, <1>8
<1> QED BY <1>9

\* What is asked of the seeds of one target.
Seeded(w, seeds) ==
    LET target == Least(Providers(w, w.roots), FoundNeeds(w))
        Swapped(p) == w.rust /\ Llvm \in w.own /\ Llvm \in Least({p}, w.needs)
        onDisk(p) == p \in DOMAIN w.installed /\ <<p, w.installed[p]>> \in w.disk
    IN  /\ \A s, t \in seeds : s.name = t.name => s = t
        /\ \A s \in seeds :
              CASE s.from = "host"    -> s.ver = w.installed[s.name] /\ s.name \in w.own
                                         /\ (s.name \in target => s.name \notin DOMAIN w.session)
                [] s.from = "session" -> s.name \in target /\ s.ver = w.session[s.name].ver
                [] OTHER              -> w.rust \/ s.name = Multilib
        /\ \A p \in target :
              (p \in w.own /\ onDisk(p)) \/ p \in DOMAIN w.session =>
                  Swapped(p) \/ \E s \in seeds : s.name = p
        /\ \A p \in w.compiler \cap w.own : onDisk(p) \/ Swapped(p) => \E s \in seeds : s.name = p
        /\ \A s \in seeds : Swapped(s.name) /\ s.name \in w.own => s.from = "repo"

LEMMA InstallArgsAre ==
    ASSUME NEW w, WorldTyped(w), InstallArgs(w) # Refusal
    PROVE  Seeded(w, InstallArgs(w))
<1> DEFINE target == Least(Providers(w, w.roots), FoundNeeds(w))
           Swapped(p) == w.rust /\ Llvm \in w.own /\ Llvm \in Least({p}, w.needs)
           onDisk(p) == p \in DOMAIN w.installed /\ <<p, w.installed[p]>> \in w.disk
           linked == IF w.rust THEN LlvmLinked(w) ELSE {}
           T == ToolchainClosure(w)
           host == {Host(p, w.installed[p]) : p \in {x \in ((target \cup T) \cap w.own) \ linked : onDisk(x)}}
           run == {Session(w, p) : p \in (DOMAIN w.session \cap target) \ linked}
           extra == IF w.lib32 THEN {Multilib} ELSE {}
           repo == {Repo(p) : p \in (({Llvm} \cup T) \cap linked) \cup extra}
           seeds == host \cup run \cup repo
           out == InstallArgs(w)
           Rank(s) == CASE s.from = "host" -> 1 [] s.from = "session" -> 2 [] s.from = "repo" -> 3
<1>1. DepClosure(w) = target
  <2>1. IsFiniteSet(DOMAIN FoundNeeds(w))
    BY FS_Union DEF WorldTyped, FoundNeeds, Names
  <2> QED BY <2>1, WalkIsLeast DEF DepClosure
<1>2. IsFiniteSet(DOMAIN w.needs)
  BY DEF WorldTyped
<1>3. \A p \in w.own : p \in linked <=> Swapped(p)
  <2> TAKE p \in w.own
  <2>1. Walk({p}, w.needs) = Least({p}, w.needs)
    BY <1>2, WalkIsLeast
  <2> QED BY <2>1 DEF LlvmLinked
<1>4. linked \subseteq w.own /\ (linked # {} => w.rust)
  BY DEF LlvmLinked
<1>5. w.own # {} => w.compiler \subseteq T
  BY <1>2, WalkIsLeast DEF ToolchainClosure
<1>6. out = LastPerPkgname(seeds)
  BY <1>1, SeedsOf
<1> HIDE DEF target, Swapped, linked, T
<1>7. \A s \in host : /\ s.from = "host" /\ s = Host(s.name, w.installed[s.name]) /\ s.ver = w.installed[s.name]
                      /\ s.name \in w.own \ linked
  <2> TAKE s \in host
  <2>1. PICK p \in (target \cup T) \cap w.own : p \notin linked /\ s = Host(p, w.installed[p])
    OBVIOUS
  <2> HIDE DEF host
  <2>2. s.from = "host" /\ s.name = p /\ s.ver = w.installed[p]
    BY <2>1 DEF Host
  <2> QED BY <2>1, <2>2
<1>8. \A s \in run : /\ s.from = "session" /\ s = Session(w, s.name) /\ s.ver = w.session[s.name].ver
                     /\ s.name \in (DOMAIN w.session \cap target) \ linked
  BY DEF Session
<1>9. \A s \in repo : /\ s.from = "repo" /\ s = Repo(s.name) /\ (w.rust \/ s.name = Multilib)
  BY <1>4 DEF Repo
<1>10. /\ \A p \in ((target \cup T) \cap w.own) \ linked : onDisk(p) => \E s \in host : s.name = p
       /\ \A p \in (DOMAIN w.session \cap target) \ linked : \E s \in run : s.name = p
       /\ \A p \in ({Llvm} \cup T) \cap linked : \E s \in repo : s.name = p
  <2>1. /\ \A p \in ((target \cup T) \cap w.own) \ linked : onDisk(p) => Host(p, w.installed[p]) \in host
        /\ \A p \in (DOMAIN w.session \cap target) \ linked : Session(w, p) \in run
        /\ \A p \in ({Llvm} \cup T) \cap linked : Repo(p) \in repo
    <3> HIDE DEF onDisk
    <3> QED OBVIOUS
  <2>2. \A p, v : Host(p, v).name = p /\ Session(w, p).name = p /\ Repo(p).name = p
    BY DEF Host, Session, Repo
  <2> HIDE DEF host, run, repo, onDisk
  <2> QED BY <2>1, <2>2
<1> HIDE DEF host, run, repo, onDisk, out
<1>11. \A s \in seeds : s.from \in {"host", "session", "repo"}
  BY <1>7, <1>8, <1>9
<1>12. out \subseteq seeds /\ \A s \in out : \A t \in seeds : t.name = s.name => Rank(t) <= Rank(s)
  BY <1>6 DEF LastPerPkgname
<1>13. \A s \in seeds : \E t \in out : t.name = s.name
  <2> HIDE DEF seeds
  <2> QED BY <1>6, <1>11, OneIsKept
<1>14. \A s \in seeds : /\ (Rank(s) = 1 <=> s.from = "host") /\ (Rank(s) = 2 <=> s.from = "session")
                        /\ (Rank(s) = 3 <=> s.from = "repo") /\ Rank(s) \in {1, 2, 3}
  BY <1>11
<1> HIDE DEF Rank
<1>15. ASSUME NEW s \in out, NEW t \in out, s.name = t.name PROVE s = t
  <2>1. s.from = t.from
    <3>1. Rank(s) = Rank(t)
      BY <1>12, <1>14, <1>15
    <3> QED BY <3>1, <1>11, <1>12, <1>14
  <2> QED BY <2>1, <1>7, <1>8, <1>9, <1>12, <1>15
<1>16. ASSUME NEW s \in out
       PROVE  CASE s.from = "host"    -> s.ver = w.installed[s.name] /\ s.name \in w.own
                                         /\ (s.name \in target => s.name \notin DOMAIN w.session)
                [] s.from = "session" -> s.name \in target /\ s.ver = w.session[s.name].ver
                [] OTHER              -> w.rust \/ s.name = Multilib
  <2>1. CASE s \in host
    <3>1. s.from = "host" /\ s.ver = w.installed[s.name] /\ s.name \in w.own \ linked
      BY <2>1, <1>7
    <3>2. ASSUME s.name \in target, s.name \in DOMAIN w.session PROVE FALSE
      <4>1. PICK t \in run : t.name = s.name
        BY <3>1, <3>2, <1>10
      <4>2. Rank(s) = 1 /\ Rank(t) = 2 /\ Rank(t) <= Rank(s)
        BY <2>1, <4>1, <1>7, <1>8, <1>12, <1>14
      <4> QED BY <4>2
    <3> QED BY <3>1, <3>2
  <2>2. CASE s \in run
    BY <2>2, <1>8
  <2>3. CASE s \in repo
    BY <2>3, <1>9
  <2> QED BY <2>1, <2>2, <2>3, <1>12
<1>17. ASSUME NEW p \in target, (p \in w.own /\ onDisk(p)) \/ p \in DOMAIN w.session
       PROVE  Swapped(p) \/ \E s \in out : s.name = p
  <2>1. CASE p \in linked
    BY <2>1, <1>3, <1>4
  <2>2. CASE p \notin linked
    <3>1. \E s \in seeds : s.name = p
      BY <2>2, <1>10, <1>17
    <3> QED BY <3>1, <1>13
  <2> QED BY <2>1, <2>2
<1>18. ASSUME NEW p \in w.compiler \cap w.own, onDisk(p) \/ Swapped(p) PROVE \E s \in out : s.name = p
  <2>1. p \in T
    BY <1>5
  <2>2. \E s \in seeds : s.name = p
    BY <2>1, <1>3, <1>10, <1>18
  <2> QED BY <2>2, <1>13
<1>19. ASSUME NEW s \in out, Swapped(s.name), s.name \in w.own PROVE s.from = "repo"
  BY <1>3, <1>7, <1>8, <1>9, <1>12, <1>19
<1> HIDE DEF seeds, extra
<1>20. /\ \A s, t \in out : s.name = t.name => s = t
       /\ \A s \in out : Swapped(s.name) /\ s.name \in w.own => s.from = "repo"
       /\ \A p \in w.compiler \cap w.own : onDisk(p) \/ Swapped(p) => \E s \in out : s.name = p
       /\ \A p \in target : (p \in w.own /\ onDisk(p)) \/ p \in DOMAIN w.session =>
                              Swapped(p) \/ \E s \in out : s.name = p
  BY <1>15, <1>17, <1>18, <1>19
<1> QED BY <1>16, <1>20 DEF Seeded, out, target, Swapped, onDisk

(***************************************************************************)
(* THEOREM SeedsMatch: whatever a host has installed, built and kept, this *)
(* run built and a target needs, the container of a sandboxed build is     *)
(* seeded with what the host runs, in the version it runs, or with what    *)
(* this run built in its place: all that the target needs, the least set   *)
(* closed under its dependencies, each package once; and with Arch's rust  *)
(* nothing built on the host's libLLVM (build_sandbox.install_args).       *)
(***************************************************************************)
THEOREM SeedsMatch ==
    ASSUME NEW Hosts, \A w \in Hosts : WorldTyped(w)
    PROVE  Posed("seeds", Hosts) /\ [][ComputeSeeds]_question => []SeedsMatchHost
<1> DEFINE Asked == subject = "seeds" => input \in Hosts /\ (computed => output = InstallArgs(input))
<1>1. Posed("seeds", Hosts) => Asked
  BY DEF Posed
<1>2. Asked /\ [ComputeSeeds]_question => Asked'
  BY DEF ComputeSeeds, Answer, question
<1>3. Asked => SeedsMatchHost
  <2> SUFFICES ASSUME Asked, Answered("seeds"), output # Refusal PROVE SeedsMatchHost
    BY DEF SeedsMatchHost
  <2>1. Seeded(input, output)
    BY InstallArgsAre DEF Answered
  <2> QED BY <2>1 DEF SeedsMatchHost, Seeded
<1> QED BY <1>1, <1>2, <1>3, PTL
=============================================================================

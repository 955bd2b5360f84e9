-------------------------- MODULE PipelineRunner --------------------------
(***************************************************************************)
(* The pipeline runner (pipeline/runner.py) over its checkpoint file       *)
(* (primitives/pipeline_state.py): run_pipeline with --resume, --start-from*)
(* and --dry-run, and run_stage_standalone.                                *)
(*                                                                         *)
(* A process loads the file once, works on its copy, and saves the whole   *)
(* copy after every transition; a crash loses the copy.  Stages are their  *)
(* positions 1 .. N in STAGES.  Times and messages are left out, so an     *)
(* entry of the file is a status, the first_done_at stamp, an error and a  *)
(* result, the last three as sets of the stages that have them.            *)
(***************************************************************************)
EXTENDS Integers

CONSTANTS
    N,           \* the number of stages
    Proc,        \* the processes that may run the pipeline at once
    Stateless,   \* stages whose standalone run keeps no status
    Makepkg,     \* stages that refuse to run as root
    Boundary,    \* the stage that stops for a reboot on the live ISO
    Resulting,   \* stages that checkpoint a result in mid-run
    Invocations, \* the command lines that may be given
    SaveMayFail  \* may a save raise PermissionError?

Stage    == 1 .. N
Status   == {"pending", "running", "done", "failed", "skipped_to"}

InvocationType ==
    [mode  : {"fresh", "resume", "from", "fromResume", "alone"},
     stage : Stage,      \* of --start-from, or the stage run on its own
     dry   : BOOLEAN,
     root  : BOOLEAN]

ASSUME NIsPositive == N \in Nat /\ N > 0
ASSUME StagesTyped ==
    /\ Stateless \subseteq Stage /\ Makepkg \subseteq Stage
    /\ Resulting \subseteq Stage /\ Boundary \in Stage
ASSUME InvocationsTyped == Invocations \subseteq InvocationType
ASSUME SaveMayFailTyped == SaveMayFail \in BOOLEAN

Checkpoint == [exists : BOOLEAN, status : [Stage -> Status],
               first : SUBSET Stage, error : SUBSET Stage,
               result : SUBSET Stage]

VARIABLES
    disk,      \* pipeline_state.toml
    mem,       \* the copy of each process
    pc,        \* where each process is
    opt,       \* how it was invoked
    idx,       \* the stage it is at
    onISO,     \* still on the live medium?
    completed, \* the stages whose work was done at some time
    ran        \* the stages each process has started

vars == <<disk, mem, pc, opt, idx, onISO, completed, ran>>

-----------------------------------------------------------------------------
(***************************************************************************)
(* PipelineState                                                           *)
(***************************************************************************)
Empty == [exists |-> FALSE, status |-> [s \in Stage |-> "pending"],
          first |-> {}, error |-> {}, result |-> {}]

\* Mutant: the entry is updated in place, error and all (before 3.5.0-B24).
MarkRunningInPlace(m, s) == [m EXCEPT !.status[s] = "running"]

\* mark_running and mark_done drop the error of an earlier attempt.
MarkRunning(m, s) == [m EXCEPT !.status[s] = "running", !.error = @ \ {s}]

MarkDone(m, s) ==
    [m EXCEPT !.status[s] = "done", !.error = @ \ {s}, !.first = @ \cup {s}]

\* Mutant: the entry is replaced, its first_done_at with it (before 3.5.0-B25).
MarkFailedAnew(m, s) ==
    [m EXCEPT !.status[s] = "failed", !.error = @ \cup {s}, !.first = @ \ {s}]

MarkFailed(m, s) == [m EXCEPT !.status[s] = "failed", !.error = @ \cup {s}]

\* --start-from: the stages before it that are not done.
MarkSkippedTo(m, start) ==
    [m EXCEPT !.status = [s \in Stage |->
        IF s < start /\ @[s] # "done" THEN "skipped_to" ELSE @[s]]]

NoteCompleted(m, s) == [m EXCEPT !.first = @ \cup {s}]

SetResult(m, s) == [m EXCEPT !.result = @ \cup {s}]

\* _serialize drops an entry with neither a status nor a first_done_at.
Serialize(m) ==
    LET kept == {s \in Stage : m.status[s] # "pending" \/ s \in m.first}
    IN  [m EXCEPT !.exists = TRUE, !.error = @ \cap kept, !.result = @ \cap kept]

\* save(): a dry run's state is read only.
Save(p, m) == disk' = IF opt[p].dry THEN disk ELSE Serialize(m)

\* Where a PermissionError is only a warning.
SaveLenient(p, m) == Save(p, m) \/ (SaveMayFail /\ UNCHANGED disk)

-----------------------------------------------------------------------------
TypeOK ==
    /\ disk \in Checkpoint
    /\ mem \in [Proc -> Checkpoint]
    /\ pc \in [Proc -> {"idle", "begin", "loop", "running", "returned"}]
    /\ opt \in [Proc -> InvocationType]
    /\ idx \in [Proc -> 1 .. (N + 1)]
    /\ onISO \in BOOLEAN
    /\ completed \in SUBSET Stage
    /\ ran \in [Proc -> SUBSET Stage]

NoInvocation == [mode |-> "fresh", stage |-> 1, dry |-> FALSE, root |-> FALSE]

Init ==
    /\ disk = Empty
    /\ mem = [p \in Proc |-> Empty]
    /\ pc = [p \in Proc |-> "idle"]
    /\ opt = [p \in Proc |-> NoInvocation]
    /\ idx = [p \in Proc |-> 1]
    /\ onISO \in BOOLEAN
    /\ completed = {}
    /\ ran = [p \in Proc |-> {}]

Go(p, to) == pc' = [pc EXCEPT ![p] = to]

\* The process exits: its copy of the file is gone.
Exit(p) ==
    /\ Go(p, "idle")
    /\ mem' = [mem EXCEPT ![p] = Empty]
    /\ opt' = [opt EXCEPT ![p] = NoInvocation]
    /\ idx' = [idx EXCEPT ![p] = 1]
    /\ ran' = [ran EXCEPT ![p] = {}]

Set(p, m) == mem' = [mem EXCEPT ![p] = m]

Alone(p) == opt[p].mode = "alone"

\* A standalone run records a status unless the stage is stateless.
TracksStatus(p) == idx[p] \notin Stateless /\ ~opt[p].dry

-----------------------------------------------------------------------------
\* Mutant: a failed stage is passed over as well.
HandledOrFailed(m, s) == m.status[s] \in {"done", "skipped_to", "failed"}

\* The statuses _find_resume_index passes over.
Handled(m, s) == m.status[s] \in {"done", "skipped_to"}

\* _find_resume_index; N + 1 when there is nothing to resume.
ResumeIndex(m) ==
    CHOOSE i \in 1 .. (N + 1) :
        /\ i = N + 1 \/ ~Handled(m, i)
        /\ \A s \in Stage : s < i => Handled(m, s)

StartIndex(o) ==
    CASE o.mode = "fresh"  -> 1
      [] o.mode = "resume" -> ResumeIndex(disk)
      [] OTHER             -> o.stage

\* Why the command line is refused, or has nothing to do: a state file without
\* --resume or --start-from, nothing to resume, a build stage alone as root.
Refused(o) ==
    \/ o.mode = "fresh" /\ disk.exists
    \/ o.mode = "resume" /\ ResumeIndex(disk) = N + 1
    \/ o.mode = "alone" /\ o.stage \in Makepkg /\ o.root

Launch(p, o) ==
    /\ pc[p] = "idle"
    /\ onISO => o.root            \* the live medium has no other user
    /\ ~Refused(o)
    /\ opt' = [opt EXCEPT ![p] = o]
    /\ Set(p, IF o.mode = "from" THEN MarkSkippedTo(disk, o.stage) ELSE disk)
    /\ idx' = [idx EXCEPT ![p] = StartIndex(o)]
    /\ Go(p, IF o.mode = "alone" THEN "loop" ELSE "begin")
    /\ UNCHANGED <<disk, onISO, completed, ran>>

\* The --start-from marks and init_meta are saved before the first stage.
Begin(p) ==
    /\ pc[p] = "begin"
    /\ Save(p, mem[p])
    /\ Go(p, "loop")
    /\ UNCHANGED <<mem, opt, idx, onISO, completed, ran>>

\* A stage that is done, or a preview, only moves on.
PassStage(p) ==
    /\ pc[p] = "loop"
    /\ ~Alone(p)
    /\ idx[p] \in Stage
    /\ mem[p].status[idx[p]] = "done" \/ opt[p].dry
    /\ idx' = [idx EXCEPT ![p] = @ + 1]
    /\ UNCHANGED <<disk, mem, pc, opt, onISO, completed, ran>>

RefuseRoot(p) ==
    /\ pc[p] = "loop"
    /\ ~Alone(p) /\ ~opt[p].dry
    /\ idx[p] \in Makepkg
    /\ mem[p].status[idx[p]] # "done"
    /\ opt[p].root
    /\ Exit(p)
    /\ UNCHANGED <<disk, onISO, completed>>

StartStage(p) ==
    /\ pc[p] = "loop"
    /\ ~Alone(p) /\ ~opt[p].dry
    /\ idx[p] \in Stage
    /\ mem[p].status[idx[p]] # "done"
    /\ ~(idx[p] \in Makepkg /\ opt[p].root)
    /\ Set(p, MarkRunning(mem[p], idx[p]))
    /\ Save(p, MarkRunning(mem[p], idx[p]))
    /\ ran' = [ran EXCEPT ![p] = @ \cup {idx[p]}]
    /\ Go(p, "running")
    /\ UNCHANGED <<opt, idx, onISO, completed>>

\* run_stage_standalone, which gives a stateless stage no status.
StartAlone(p) ==
    /\ pc[p] = "loop"
    /\ Alone(p)
    /\ IF TracksStatus(p)
       THEN /\ Set(p, MarkRunning(mem[p], idx[p]))
            /\ SaveLenient(p, MarkRunning(mem[p], idx[p]))
       ELSE UNCHANGED <<mem, disk>>
    /\ ran' = [ran EXCEPT ![p] = @ \cup {idx[p]}]
    /\ Go(p, "running")
    /\ UNCHANGED <<opt, idx, onISO, completed>>

\* The stage checkpoints a result while it runs (toolchain: cc, cxx, variant).
StageCheckpoints(p) ==
    /\ pc[p] = "running"
    /\ idx[p] \in Resulting
    /\ Set(p, SetResult(mem[p], idx[p]))
    /\ SaveLenient(p, SetResult(mem[p], idx[p]))
    /\ UNCHANGED <<pc, opt, idx, onISO, completed, ran>>

\* stage.run() returned; the change report is rendered before the mark.
StageReturns(p) ==
    /\ pc[p] = "running"
    /\ ~(onISO /\ idx[p] = Boundary)
    /\ completed' = IF opt[p].dry THEN completed ELSE completed \cup {idx[p]}
    /\ Go(p, "returned")
    /\ UNCHANGED <<disk, mem, opt, idx, onISO, ran>>

\* Mutant: done is recorded before run() returned.
RecordDoneEarly(p) ==
    /\ pc[p] = "running"
    /\ ~Alone(p)
    /\ Set(p, MarkDone(mem[p], idx[p]))
    /\ Save(p, MarkDone(mem[p], idx[p]))
    /\ idx' = [idx EXCEPT ![p] = @ + 1]
    /\ Go(p, "loop")
    /\ UNCHANGED <<opt, onISO, completed, ran>>

RecordDone(p) ==
    /\ pc[p] = "returned"
    /\ ~Alone(p)
    /\ Set(p, MarkDone(mem[p], idx[p]))
    /\ Save(p, MarkDone(mem[p], idx[p]))
    /\ idx' = [idx EXCEPT ![p] = @ + 1]
    /\ Go(p, "loop")
    /\ UNCHANGED <<opt, onISO, completed, ran>>

RecordAloneDone(p) ==
    /\ pc[p] = "returned"
    /\ Alone(p)
    /\ \/ opt[p].dry /\ UNCHANGED disk
       \/ TracksStatus(p) /\ SaveLenient(p, MarkDone(mem[p], idx[p]))
       \/ /\ ~opt[p].dry /\ ~TracksStatus(p)
          /\ SaveLenient(p, NoteCompleted(mem[p], idx[p]))
    /\ Exit(p)
    /\ UNCHANGED <<onISO, completed>>

\* Any Exception of the stage, NotImplementedError included, ends the process;
\* the reboot request is one of them when the stage was run on its own.
StageRaises(p) ==
    /\ pc[p] = "running"
    /\ IF Alone(p) /\ ~TracksStatus(p)
       THEN UNCHANGED disk
       ELSE IF Alone(p) THEN SaveLenient(p, MarkFailed(mem[p], idx[p]))
                        ELSE Save(p, MarkFailed(mem[p], idx[p]))
    /\ Exit(p)
    /\ UNCHANGED <<onISO, completed>>

\* BootstrapRebootRequired: a clean stop with the stage left running.
StageWantsReboot(p) ==
    /\ pc[p] = "running"
    /\ ~Alone(p)
    /\ onISO /\ idx[p] = Boundary
    /\ Save(p, mem[p])
    /\ Exit(p)
    /\ UNCHANGED <<onISO, completed>>

EndPipeline(p) ==
    /\ pc[p] = "loop"
    /\ idx[p] = N + 1
    /\ Exit(p)
    /\ UNCHANGED <<disk, onISO, completed>>

\* A kill, KeyboardInterrupt (no handler catches it), or a save that raises.
Crash(p) ==
    /\ pc[p] # "idle"
    /\ Exit(p)
    /\ UNCHANGED <<disk, onISO, completed>>

\* The operator reboots when the boundary stage asks for it; the machine comes
\* up from its disk, where that stage copied the file.
Reboot ==
    /\ onISO
    /\ disk.status[Boundary] = "running"
    /\ onISO' = FALSE
    /\ \A p \in Proc : pc[p] = "idle"
    /\ UNCHANGED <<disk, mem, pc, opt, idx, completed, ran>>

Advance(p) ==
    \/ Begin(p) \/ PassStage(p) \/ RefuseRoot(p) \/ StartStage(p)
    \/ StartAlone(p) \/ RecordAloneDone(p) \/ StageWantsReboot(p)
    \/ EndPipeline(p)

Next ==
    \/ \E p \in Proc :
          \/ \E o \in Invocations : Launch(p, o)
          \/ Advance(p) \/ RecordDone(p) \/ StageCheckpoints(p)
          \/ StageReturns(p) \/ StageRaises(p) \/ Crash(p)
    \/ Reboot

Spec == Init /\ [][Next]_vars

(***************************************************************************)
(* Fairness: a process that can go on does, and the operator reboots when  *)
(* asked to.  A stage may fail any number of times, but not every attempt  *)
(* fails.  From some time on nothing kills the process, and the operator,  *)
(* whatever was tried before, only resumes, as the user of the machine.    *)
(***************************************************************************)
Resumes(p) == \E o \in Invocations :
                  o.mode = "resume" /\ ~o.dry /\ (o.root <=> onISO) /\ Launch(p, o)

FairSpec ==
    /\ Spec
    /\ SF_vars(Reboot)
    /\ \A p \in Proc :
          /\ WF_vars(Advance(p) \/ RecordDone(p))
          /\ WF_vars(StageReturns(p) \/ StageRaises(p))
          /\ \A s \in Stage : SF_vars(idx[p] = s /\ StageReturns(p))
          /\ SF_vars(StageWantsReboot(p))
          /\ WF_vars(Resumes(p))
    /\ <>[][\A p \in Proc :
              ~Crash(p) /\ (\A o \in Invocations : Launch(p, o) => Resumes(p))]_vars

-----------------------------------------------------------------------------
\* The file never claims more than was achieved: a stage is done, or has been
\* done, only if its run() returned at some time, whatever crashed since and
\* whichever of several processes wrote the file last.
DoneMeansCompleted ==
    \A s \in Stage : disk.status[s] = "done" \/ s \in disk.first => s \in completed

\* An error on file is that of the stage's latest attempt (3.5.0-B24).
NoStaleError ==
    \A s \in disk.error : disk.status[s] \notin {"running", "done"}

\* That a stage was done once survives every later failure, skip and crash
\* (first_done_at, 3.5.0-B25), with one process at a time.
EverDoneKept == [][disk.first \subseteq disk'.first]_vars

\* Resuming often enough completes the pipeline, through failures, crashes and
\* the reboot in the middle.
EventuallyDone ==
    disk.exists ~> \A s \in Stage : disk.status[s] \in {"done", "skipped_to"}
=============================================================================

--------------------------- MODULE StageSentinel ---------------------------
(***************************************************************************)
(* The stage sentinel (primitives/stage_sentinel.py): a record file in the *)
(* state directory that names the run which is changing the live system,   *)
(* and an advisory lock that tells whether that run is still alive.        *)
(*                                                                         *)
(* A Run is one operating-system process of sysforge: it starts once,      *)
(* passes the command-line gate if its command has one, opens up to        *)
(* kind.scopes sentinel scopes one after the other, and ends.  The record  *)
(* is abstracted to the run that wrote it.  Each step below is one access  *)
(* to the lock, to the record, or to the live system, because between two  *)
(* of them any other process may take a step.                              *)
(***************************************************************************)
EXTENDS Integers

CONSTANTS
    Run,         \* the sysforge processes of a behaviour
    None,        \* no holder of the lock, no record
    Kinds,       \* the kinds of invocation that may be started
    Faults,      \* the operations on the state directory that may raise OSError
    Concurrent   \* may a process start while another is alive?

KindType == [gated : BOOLEAN,           \* build/update/run/setup: gated in cli.py
             armsOnMutation : BOOLEAN,  \* a verb's scope; FALSE for a stage's
             attended : BOOLEAN,        \* a terminal where the prompt is answered
             recovery : BOOLEAN,        \* its record names a recovery command
             user : {"root", "me", "other"},
             scopes : {1, 2}]

ASSUME NoneIsNoRun == None \notin Run
ASSUME KindsTyped == Kinds \subseteq KindType
ASSUME FaultsTyped == Faults \subseteq {"lock", "write", "clear"}
ASSUME ConcurrentTyped == Concurrent \in BOOLEAN

VARIABLES
    lock,     \* the run holding the flock on stage_in_progress.lock
    record,   \* the run whose record stage_in_progress.toml holds
    pc,       \* where each run is
    kind,     \* what each run was started as
    inScope,  \* does the check run inside sentinel_scope (else at the gate)?
    left,     \* the scopes each run may still open
    seen,     \* the record the run's operator was asked about
    armed,    \* `armed' of the scope the run has open
    pending,  \* a first Ctrl-C waits for the next checkpoint
    changed,  \* the run has changed the system in its open scope
    torn      \* the runs that left the system half changed, not repaired since

vars == <<lock, record, pc, kind, inScope, left, seen, armed, pending,
          changed, torn>>

Body    == {"entered", "body", "clearing", "leaving"}
Check   == {"probe", "probing", "read", "asked", "recovering", "wiping", "verify"}
PCs     == {"new", "ready", "acquire", "ended"} \cup Check \cup Body

Live(r) == pc[r] \notin {"new", "ended"}

TypeOK ==
    /\ lock \in Run \cup {None}
    /\ record \in Run \cup {None}
    /\ pc \in [Run -> PCs]
    /\ kind \in [Run -> Kinds]
    /\ inScope \in [Run -> BOOLEAN]
    /\ left \in [Run -> 0 .. 2]
    /\ seen \in [Run -> Run \cup {None}]
    /\ armed \in [Run -> BOOLEAN]
    /\ pending \in [Run -> BOOLEAN]
    /\ changed \in [Run -> BOOLEAN]
    /\ torn \in SUBSET Run

Init ==
    /\ lock = None
    /\ record = None
    /\ pc = [r \in Run |-> "new"]
    /\ kind \in [Run -> Kinds]
    /\ inScope = [r \in Run |-> FALSE]
    /\ left = [r \in Run |-> kind[r].scopes]
    /\ seen = [r \in Run |-> None]
    /\ armed = [r \in Run |-> FALSE]
    /\ pending = [r \in Run |-> FALSE]
    /\ changed = [r \in Run |-> FALSE]
    /\ torn = {}

Go(r, to) == pc' = [pc EXCEPT ![r] = to]

\* Mutant: the lock is a file, removed by whoever leaves.
ReleaseAny(r) == lock' = None

\* The kernel drops a flock with the file description that holds it.
Release(r) == lock' = IF lock = r THEN None ELSE lock

-----------------------------------------------------------------------------
(***************************************************************************)
(* check_and_recover_stale_sentinel, called by the gate of cli.py before   *)
(* the verb and again by a scope that finds a record.                      *)
(***************************************************************************)

Start(r) ==
    /\ pc[r] = "new"
    /\ Concurrent \/ \A q \in Run : ~Live(q)
    /\ Go(r, IF kind[r].gated THEN "probe" ELSE "ready")
    /\ UNCHANGED <<lock, record, kind, inScope, left, seen, armed, pending,
                   changed, torn>>

\* Where the check's caller goes on after it returned True.
Proceed(r) == Go(r, IF inScope[r] THEN "acquire" ELSE "ready")

ProbeTakes(r) ==
    /\ pc[r] = "probe"
    /\ lock = None
    /\ lock' = r
    /\ Go(r, "probing")
    /\ UNCHANGED <<record, kind, inScope, left, seen, armed, pending, changed,
                   torn>>

ProbeReleases(r) ==
    /\ pc[r] = "probing"
    /\ Release(r)
    /\ Go(r, "read")
    /\ UNCHANGED <<record, kind, inScope, left, seen, armed, pending, changed,
                   torn>>

\* Contention: an owner is alive, so the run is refused without a prompt.
ProbeRefuses(r) ==
    /\ pc[r] = "probe"
    /\ lock # None
    /\ Go(r, "ended")
    /\ UNCHANGED <<lock, record, kind, inScope, left, seen, armed, pending,
                   changed, torn>>

\* An OSError of the lock file only costs the concurrency detection.
ProbeFaults(r) ==
    /\ pc[r] = "probe"
    /\ "lock" \in Faults
    /\ Go(r, "read")
    /\ UNCHANGED <<lock, record, kind, inScope, left, seen, armed, pending,
                   changed, torn>>

\* A record written by another user, root excepted, is never acted on.
Foreign(r, q) == kind[q].user \notin {kind[r].user, "root"}

ReadRecord(r) ==
    /\ pc[r] = "read"
    /\ \/ /\ record = None
          /\ Proceed(r)
          /\ UNCHANGED seen
       \/ /\ record # None
          /\ Foreign(r, record) \/ ~kind[r].attended
          /\ Go(r, "ended")
          /\ UNCHANGED seen
       \/ /\ record # None
          /\ ~Foreign(r, record)
          /\ kind[r].attended
          /\ seen' = [seen EXCEPT ![r] = record]
          /\ Go(r, "asked")
    /\ UNCHANGED <<lock, record, kind, inScope, left, armed, pending, changed,
                   torn>>

Declines(r) ==
    /\ pc[r] = "asked"
    /\ Go(r, "ended")
    /\ UNCHANGED <<lock, record, kind, inScope, left, seen, armed, pending,
                   changed, torn>>

\* "Clear the sentinel and proceed?": the operator has verified the system.
AcceptsClear(r) ==
    /\ pc[r] = "asked"
    /\ ~kind[seen[r]].recovery
    /\ torn' = torn \ {seen[r]}
    /\ Go(r, "wiping")
    /\ UNCHANGED <<lock, record, kind, inScope, left, seen, armed, pending,
                   changed>>

\* "Restore a consistent state now?"
AcceptsRecovery(r) ==
    /\ pc[r] = "asked"
    /\ kind[seen[r]].recovery
    /\ Go(r, "recovering")
    /\ UNCHANGED <<lock, record, kind, inScope, left, seen, armed, pending,
                   changed, torn>>

RecoveryFails(r) ==
    /\ pc[r] = "recovering"
    /\ Go(r, "ended")
    /\ UNCHANGED <<lock, record, kind, inScope, left, seen, armed, pending,
                   changed, torn>>

RecoverySucceeds(r) ==
    /\ pc[r] = "recovering"
    /\ torn' = torn \ {seen[r]}
    /\ Go(r, "wiping")
    /\ UNCHANGED <<lock, record, kind, inScope, left, seen, armed, pending,
                   changed>>

\* clear() unlinks whatever file is there; here nothing catches its OSError.
Wipe(r) ==
    /\ pc[r] = "wiping"
    /\ \/ /\ record' = None
          /\ Go(r, "verify")
       \/ /\ "clear" \in Faults
          /\ Go(r, "ended")
          /\ UNCHANGED record
    /\ UNCHANGED <<lock, kind, inScope, left, seen, armed, pending, changed,
                   torn>>

\* Mutant: a file that is still there is waited for.
VerifyWaits(r) ==
    /\ pc[r] = "verify"
    /\ record = None
    /\ Proceed(r)
    /\ UNCHANGED <<lock, record, kind, inScope, left, seen, armed, pending,
                   changed, torn>>

\* The file must really be gone.
Verify(r) ==
    /\ pc[r] = "verify"
    /\ IF record = None THEN Proceed(r) ELSE Go(r, "ended")
    /\ UNCHANGED <<lock, record, kind, inScope, left, seen, armed, pending,
                   changed, torn>>

-----------------------------------------------------------------------------
(***************************************************************************)
(* sentinel_scope: the record is looked at before the lock is taken.       *)
(***************************************************************************)

\* Mutant: the scope does not look at the record (before 3.5.0-B46).
OpenScopeBlind(r) ==
    /\ pc[r] = "ready"
    /\ left[r] > 0
    /\ left' = [left EXCEPT ![r] = @ - 1]
    /\ inScope' = [inScope EXCEPT ![r] = TRUE]
    /\ Go(r, "acquire")
    /\ UNCHANGED <<lock, record, kind, seen, armed, pending, changed, torn>>

OpenScope(r) ==
    /\ pc[r] = "ready"
    /\ left[r] > 0
    /\ left' = [left EXCEPT ![r] = @ - 1]
    /\ inScope' = [inScope EXCEPT ![r] = TRUE]
    /\ Go(r, IF record = None THEN "acquire" ELSE "probe")
    /\ UNCHANGED <<lock, record, kind, seen, armed, pending, changed, torn>>

\* The verb is over, or something failed between two scopes.
Finish(r) ==
    /\ pc[r] = "ready"
    /\ Go(r, "ended")
    /\ UNCHANGED <<lock, record, kind, inScope, left, seen, armed, pending,
                   changed, torn>>

Acquire(r) ==
    /\ pc[r] = "acquire"
    /\ lock = None
    /\ lock' = r
    /\ Go(r, "entered")
    /\ UNCHANGED <<record, kind, inScope, left, seen, armed, pending, changed,
                   torn>>

\* Mutant: contention is as lenient as an OSError.
AcquireLenient(r) ==
    /\ pc[r] = "acquire"
    /\ lock # None
    /\ Go(r, "entered")
    /\ UNCHANGED <<lock, record, kind, inScope, left, seen, armed, pending,
                   changed, torn>>

AcquireRefused(r) ==
    /\ pc[r] = "acquire"
    /\ lock # None
    /\ Go(r, "ended")
    /\ UNCHANGED <<lock, record, kind, inScope, left, seen, armed, pending,
                   changed, torn>>

\* The scope goes on without a lock.
AcquireFaults(r) ==
    /\ pc[r] = "acquire"
    /\ "lock" \in Faults
    /\ Go(r, "entered")
    /\ UNCHANGED <<lock, record, kind, inScope, left, seen, armed, pending,
                   changed, torn>>

\* arm(): mark_started replaces the file; its OSError is only a warning.
Arm(r) ==
    /\ armed' = [armed EXCEPT ![r] = TRUE]
    /\ \/ record' = r
       \/ "write" \in Faults /\ UNCHANGED record

EnterBody(r) ==
    /\ pc[r] = "entered"
    /\ IF kind[r].armsOnMutation THEN UNCHANGED <<armed, record>> ELSE Arm(r)
    /\ Go(r, "body")
    /\ UNCHANGED <<lock, kind, inScope, left, seen, pending, changed, torn>>

\* privileged_argv tells its listeners before the command it returns is run.
ArmAtFirstChange(r) ==
    /\ pc[r] = "body"
    /\ kind[r].armsOnMutation
    /\ ~armed[r]
    /\ Arm(r)
    /\ UNCHANGED <<lock, pc, kind, inScope, left, seen, pending, changed, torn>>

ChangeSystem(r) ==
    /\ pc[r] = "body"
    /\ armed[r]
    /\ changed' = [changed EXCEPT ![r] = TRUE]
    /\ UNCHANGED <<lock, record, pc, kind, inScope, left, seen, armed, pending,
                   torn>>

\* InterruptScope._handler: the first Ctrl-C only sets the flag.
FirstCtrlC(r) ==
    /\ pc[r] = "body"
    /\ ~pending[r]
    /\ pending' = [pending EXCEPT ![r] = TRUE]
    /\ UNCHANGED <<lock, record, pc, kind, inScope, left, seen, armed, changed,
                   torn>>

\* Mutant: clear() in a finally clause.
AbandonClearing(r) ==
    /\ Go(r, "ended")
    /\ Release(r)
    /\ torn' = IF changed[r] THEN torn \cup {r} ELSE torn
    /\ changed' = [changed EXCEPT ![r] = FALSE]
    /\ record' = IF lock = r THEN None ELSE record
    /\ UNCHANGED <<kind, inScope, left, seen, armed, pending>>

\* Leaving with an exception: the record stays, the lock goes.
Abandon(r) ==
    /\ Go(r, "ended")
    /\ Release(r)
    /\ torn' = IF changed[r] THEN torn \cup {r} ELSE torn
    /\ changed' = [changed EXCEPT ![r] = FALSE]
    /\ UNCHANGED <<record, kind, inScope, left, seen, armed, pending>>

\* interrupt.checkpoint() raises CleanExitRequested, a second Ctrl-C
\* KeyboardInterrupt: both leave the scope with the record in place.
Interrupted(r) ==
    /\ pc[r] = "body"
    /\ pending[r]
    /\ Abandon(r)

BodyRaises(r) ==
    /\ pc[r] = "body"
    /\ Abandon(r)

BodyCompletes(r) ==
    /\ pc[r] = "body"
    /\ changed' = [changed EXCEPT ![r] = FALSE]
    /\ Go(r, "clearing")
    /\ UNCHANGED <<lock, record, kind, inScope, left, seen, armed, pending,
                   torn>>

\* The scope's own clear(): here an OSError is only a warning.
ClearRecord(r) ==
    /\ pc[r] = "clearing"
    /\ \/ record' = None
       \/ "clear" \in Faults /\ UNCHANGED record
    /\ Go(r, "leaving")
    /\ UNCHANGED <<lock, kind, inScope, left, seen, armed, pending, changed,
                   torn>>

\* The ExitStack frees the lock, then redeliver() raises a deferred SIGINT.
LeaveScope(r) ==
    /\ pc[r] = "leaving"
    /\ Release(r)
    /\ armed' = [armed EXCEPT ![r] = FALSE]
    /\ pending' = [pending EXCEPT ![r] = FALSE]
    /\ Go(r, IF pending[r] THEN "ended" ELSE "ready")
    /\ UNCHANGED <<record, kind, inScope, left, seen, changed, torn>>

\* SIGKILL, power loss, an uncaught exception, a Ctrl-C outside the body.
Crash(r) ==
    /\ Live(r)
    /\ Abandon(r)

-----------------------------------------------------------------------------
\* What the process does by itself, and what its operator answers.
Step(r) ==
    \/ ProbeTakes(r) \/ ProbeReleases(r) \/ ProbeRefuses(r) \/ ProbeFaults(r)
    \/ ReadRecord(r) \/ Declines(r) \/ AcceptsClear(r) \/ AcceptsRecovery(r)
    \/ RecoveryFails(r) \/ RecoverySucceeds(r) \/ Wipe(r) \/ Verify(r)
    \/ OpenScope(r) \/ Finish(r)
    \/ Acquire(r) \/ AcquireRefused(r) \/ AcquireFaults(r)
    \/ EnterBody(r) \/ ArmAtFirstChange(r) \/ ChangeSystem(r)
    \/ Interrupted(r) \/ BodyRaises(r) \/ BodyCompletes(r)
    \/ ClearRecord(r) \/ LeaveScope(r)

\* What only its environment decides.
Environment(r) == Start(r) \/ FirstCtrlC(r) \/ Crash(r)

Next == \E r \in Run : Step(r) \/ Environment(r)

Spec == Init /\ [][Next]_vars

\* The scheduler runs every live process, its operator answers the prompt and
\* a body ends by itself; nothing forces a start, a Ctrl-C or a crash.
FairSpec == Spec /\ \A r \in Run : WF_vars(Step(r))

-----------------------------------------------------------------------------
InBody(r) == pc[r] \in Body

\* At most one process is between taking the stage lock and leaving its scope:
\* two install-bearing bodies never run at once (sentinel_scope's lock, which
\* the probes of other processes take and free all the time).
OneInside == \A r, q \in Run : InBody(r) /\ InBody(q) => r = q

\* While a run may be changing the system the file names that run, so that a
\* kill at any instant leaves the record of this run and of no other
\* (arm() under the lock, against every other process of the state directory).
LiveRecordKept == \A r \in Run : pc[r] = "body" /\ armed[r] => record = r

\* A system left half changed is never silent: until it is repaired, the
\* record of the run that left it is there for the next gate to find.
TornIsRecorded == torn \subseteq {record}

\* No process waits for another: the lock is only ever tried, so every run
\* that starts ends, whatever the others do.
EveryRunEnds == \A r \in Run : Live(r) ~> pc[r] = "ended"

-----------------------------------------------------------------------------
(***************************************************************************)
(* What the sentinel promises one machine: no change of the system begins  *)
(* while an earlier, interrupted one has not been repaired.                *)
(***************************************************************************)
health == IF \E r \in Run : changed[r] THEN "changing"
          ELSE IF torn # {} THEN "torn" ELSE "sound"

Promise == INSTANCE GuardedChange

\* The sentinel implements that promise (GuardedChange.tla).
KeepsPromise == Promise!Spec
=============================================================================

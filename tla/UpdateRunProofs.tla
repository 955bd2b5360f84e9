-------------------------- MODULE UpdateRunProofs ---------------------------
(***************************************************************************)
(* `sysforge update' for any bases, packages, versions and runs: a run     *)
(* that did all it could leaves nothing to do, and its exit code and its   *)
(* records tell what it did.                                               *)
(*                                                                         *)
(* The invariant follows a run phase by phase: each phase adds what it has *)
(* found out, and what the earlier ones found out stays true until the     *)
(* builds, for every base that no build has touched.  Upstream may release *)
(* in between; what a run says of upstream it says while run.calm holds.   *)
(*                                                                         *)
(* And for any members and verbs: what the operator decided about a        *)
(* package is what later verbs do.  TrackInv says that the decisions on    *)
(* file cover exactly what was given up, and that a revert reinstalled     *)
(* what it was asked for before it files one.                              *)
(*                                                                         *)
(* And for any versions and verbs: no sample of a package's workloads is   *)
(* lost, and a record tells whether a profile was applied.                 *)
(*                                                                         *)
(* And for any plans and steps: what the progress bar believes of the      *)
(* terminal is what the terminal shows once a resize is dealt with, and    *)
(* the time it tells is that of the work.                                  *)
(***************************************************************************)
EXTENDS UpdateRun, Tracking, PackagePgo, Progress, FiniteSetTheorems, WellFoundedInduction,
        SequenceTheorems, TLAPS

-----------------------------------------------------------------------------
(* Types.                                                                  *)

Kinds    == {"aur", "vcs", "repo", "pacman"}
Stages   == {"init", "assembled", "synced", "checked", "drift", "planned", "building", "done"}
Verdicts == {"UP_TO_DATE", "NEEDS_REBUILD", "DOWNGRADE", "NEEDS_PACMAN_UPGRADE", "SKIPPED_NO_CHECKUPDATES",
             "DEVEL", "FROZEN", "PULL_FAILED", "DEVEL_EVAL_FAILED"}
Recipe   == [v : Nat, r : 0..1, makes : SUBSET Names]
Entry    == [ver : Nat, flags : 0..1, fp : 0..1, commit : Nat, builtWith : 0..1]
Fails    == UNION {[B -> {"frozen", "pull"}] : B \in SUBSET Bases}
Actions  == UNION {[B -> Verdicts] : B \in SUBSET Bases}
Running  ==
    [phase : Stages, args : Args, calm : BOOLEAN, fp : 0..1, set : SUBSET Names, fails : Fails \cup {{}},
     action : Actions, stale : SUBSET Bases, plan : SUBSET Bases, upgrade : SUBSET Bases,
     built : SUBSET Bases, failed : SUBSET Bases, declined : BOOLEAN, code : {None, 0, 1}]

WorldTyped ==
    /\ kind \in [Bases -> Kinds]
    /\ source \in [Bases -> Recipe] /\ checkout \in [Bases -> Recipe]
    /\ \A b \in Bases : source[b].makes \subseteq MembersOf[b] /\ checkout[b].makes \subseteq MembersOf[b]
    /\ sidecar \in [Bases -> (SUBSET Names) \cup {None}]
    /\ installed \in [Names -> Nat \cup {None}]
    /\ record \in [Names -> Entry \cup {None}]
    /\ world \in [flags : 0..1, optedOut : SUBSET Names]
    /\ settled \in BOOLEAN

(* A record's version is its commit's, and its compiler the one that ran;   *)
(* PKGBUILDs are opted out as a whole.                                      *)
RecordsInv ==
    /\ \A n \in Names : record[n] # None =>
          record[n].ver \in {2 * record[n].commit, 2 * record[n].commit + 1}
    /\ RecordTellsCompiler
    /\ \A b \in Bases : MembersOf[b] \subseteq world.optedOut \/ MembersOf[b] \cap world.optedOut = {}

-----------------------------------------------------------------------------
(* What a run knows, from the phase that found it out.                     *)

PlannedOn   == {"planned", "building", "done"}
DriftOn     == {"drift"} \cup PlannedOn
CheckedOn   == {"checked"} \cup DriftOn
SyncedOn    == {"synced"} \cup CheckedOn
AssembledOn == {"assembled"} \cup SyncedOn
BeforeBuild == {"init", "assembled", "synced", "checked", "drift", "planned"}

Sure     == Complete /\ run.calm
SetOf(b) == MembersOf[b] \cap run.set
Tried == run.built \cup run.failed

(* The record asks for no rebuild.                                          *)
RecordFits(n) == record[n] # None => record[n].flags = world.flags /\ record[n].fp = Current

(* Members that a failed build's PKGBUILD made VersionCheck pass over.      *)
Omitted(b, n) ==
    /\ Overlooked(b, n)
    /\ \E p, q \in SetOf(b) : installed[p] # installed[q]

SetInv ==
    /\ \A n \in run.set : installed[n] # None
    /\ ~run.args.dry => run.set \cap world.optedOut = {}
    /\ Complete => run.set = {n \in Names : installed[n] # None /\ n \notin world.optedOut}

SyncInv ==
    /\ run.fails \in Fails
    /\ Sure => \A b \in InSet \ DOMAIN run.fails : kind[b] # "pacman" => checkout[b] = source[b]

CheckInv ==
    /\ run.action \in [InSet -> Verdicts]
    /\ \A b \in InSet : /\ kind[b] = "pacman" => run.action[b] # "NEEDS_REBUILD"
                        /\ run.action[b] = "NEEDS_PACMAN_UPGRADE" => kind[b] = "pacman"
    /\ Sure => \A b \in InSet \ DOMAIN run.fails :
          /\ run.action[b] \notin {"DEVEL", "FROZEN", "PULL_FAILED"}
          /\ b \notin Tried => \A n \in SetOf(b) :
                /\ run.action[b] = "UP_TO_DATE" => installed[n] >= Ver(source[b]) \/ Omitted(b, n)
                /\ run.action[b] = "DOWNGRADE" => installed[n] > Ver(source[b]) \/ Omitted(b, n)

DriftInv ==
    /\ run.stale \subseteq InSet
    /\ run.fp = Current =>
          \A b \in InSet \ (run.stale \cup Tried) :
              kind[b] # "pacman" /\ ~Uneven(b) => \A n \in SetOf(b) : RecordFits(n)

PlanInv ==
    /\ run.plan \subseteq InSet \ DOMAIN run.fails
    /\ run.upgrade = {b \in InSet : run.action[b] = "NEEDS_PACMAN_UPGRADE"} /\ run.plan \cap run.upgrade = {}
    /\ \A b \in run.plan : kind[b] # "pacman"
    /\ \A b \in InSet \ (DOMAIN run.fails \cup run.plan) :
          /\ run.action[b] # "NEEDS_REBUILD"
          /\ run.args.rebuild /\ run.action[b] = "UP_TO_DATE" /\ kind[b] # "pacman" => b \notin run.stale

BuildInv ==
    /\ run.built \subseteq run.plan /\ run.failed \subseteq run.plan
    /\ run.fp = Older => run.built \cap Toolchain # {}
    /\ run.fp = Current => run.built \cap Toolchain = {}
    /\ Sure => \A b \in run.built : \A n \in checkout[b].makes \cap run.set :
          installed[n] = Ver(source[b]) /\ (run.fp = Current => RecordFits(n))

DoneInv ==
    run.code = 0 /\ Sure /\ ~run.declined =>
        \A b \in run.upgrade : \A n \in SetOf(b) : installed[n] = Ver(source[b])

RunInv ==
    /\ run.phase \in BeforeBuild => run.built = {} /\ run.failed = {} /\ run.fp = Current
    /\ run.phase \in AssembledOn => SetInv
    /\ run.phase \in SyncedOn => SyncInv
    /\ run.phase \in CheckedOn => CheckInv
    /\ run.phase \in DriftOn => DriftInv
    /\ run.phase \in PlannedOn => PlanInv
    /\ run.phase \in {"building", "done"} => BuildInv
    /\ run.phase = "done" => DoneInv

-----------------------------------------------------------------------------
(* What a complete run leaves, and what the next one makes of it.           *)

LiveOf(b) == {n \in MembersOf[b] : installed[n] # None /\ n \notin world.optedOut}
Plainly(b)  == kind[b] # "pacman" /\ ~Uneven(b) /\ ~Dropped(b)

Tended(b) ==
    LiveOf(b) # {} /\ kind[b] # "pacman" =>
        /\ checkout[b] = source[b]
        /\ Plainly(b) => \A n \in LiveOf(b) :
              installed[n] > Ver(source[b]) \/ (installed[n] = Ver(source[b]) /\ RecordFits(n))

SettledInv ==
    /\ run.phase \in {"idle"} \cup BeforeBuild => \A b \in Bases : Tended(b)
    /\ run.phase \in {"checked", "drift", "planned"} /\ ~run.args.dry =>
          \A b \in InSet : Plainly(b) =>
              /\ run.action[b] # "NEEDS_REBUILD"
              /\ run.action[b] = "UP_TO_DATE" => \A n \in SetOf(b) : RecordFits(n)
    /\ run.phase \in {"drift", "planned"} /\ ~run.args.dry =>
          \A b \in InSet : Plainly(b) /\ run.action[b] = "UP_TO_DATE" => b \notin run.stale
    /\ run.phase = "planned" => \A b \in run.plan : Dropped(b) \/ Uneven(b)

UpdateInv ==
    /\ WorldTyped /\ RecordsInv /\ run \in {Idle} \cup Running
    /\ run.phase # "idle" => RunInv
    /\ settled => SettledInv

-----------------------------------------------------------------------------
(* What the operators of a version check return.                           *)

\* Of any versions there is an oldest.
LEMMA MinIs ==
    ASSUME NEW S \in SUBSET Nat, S # {}
    PROVE  Min(S) \in S /\ \A y \in S : Min(S) <= y
  <1> DEFINE R == {p \in Nat \X Nat : p[1] < p[2]}
  <1>1. IsWellFoundedOn(R, Nat)
    BY NatLessThanWellFounded, Zenon DEF OpToRel
  <1>2. PICK x \in S : \A y \in S : ~(<<y, x>> \in R)
    BY <1>1, WFMin
  <1>3. ASSUME NEW y \in S PROVE x <= y
    <2>1. ~(<<y, x>> \in R)
      BY <1>2
    <2> QED
      BY <2>1
  <1> QED
    BY <1>3 DEF Min

\* The oldest version of what a build produces is that of a member, and below
\* every other but those that the PKGBUILD of a failed build leaves out.
LEMMA OldestIs ==
    ASSUME WorldTyped, NEW b \in Bases, NEW ns \in SUBSET MembersOf[b], ns # {},
           \A n \in ns : installed[n] # None
    PROVE  /\ \E n \in ns : OldestOf(b, ns) = installed[n]
           /\ OldestOf(b, ns) \in Nat
           /\ \A n \in ns : \/ OldestOf(b, ns) <= installed[n]
                            \/ Overlooked(b, n) /\ \E p, q \in ns : installed[p] # installed[q]
  <1> DEFINE many == Cardinality({installed[n] : n \in ns}) > 1
             names == IF many THEN Produced(b, ns) ELSE ns
             S == {installed[n] : n \in names}
  <1>1. ns \subseteq Names
    BY DEF Names
  <1>2. InstalledOf(b, ns) = ns
    BY DEF InstalledOf
  <1>3. names \subseteq ns /\ names # {} /\ (\A n \in ns \ names : many /\ Overlooked(b, n))
    BY DEF Produced, Overlooked
  <1>4. InstalledOf(b, names) = names
    BY <1>3 DEF InstalledOf
  <1>5. OldestOf(b, ns) = Min(S)
    BY <1>2, <1>4 DEF OldestOf
  <1>6. S \in SUBSET Nat /\ S # {}
    <2>1. \A n \in names : installed[n] \in Nat
      BY <1>1, <1>3 DEF WorldTyped
    <2> QED
      BY <1>3, <2>1
  <1>7. Min(S) \in S /\ \A y \in S : Min(S) <= y
    BY <1>6, MinIs
  <1>8. many => \E p, q \in ns : installed[p] # installed[q]
    <2> SUFFICES ASSUME \A p, q \in ns : installed[p] = installed[q] PROVE ~many
      OBVIOUS
    <2>1. PICK n \in ns : TRUE
      OBVIOUS
    <2>2. {installed[m] : m \in ns} = {installed[n]}
      BY <2>1
    <2>3. Cardinality({installed[n]}) = 1
      BY FS_Singleton
    <2> QED
      BY <2>2, <2>3
  <1>9. PICK least \in names : Min(S) = installed[least]
    BY <1>7
  <1>10. ASSUME NEW n \in ns
         PROVE  Min(S) <= installed[n] \/ (Overlooked(b, n) /\ \E p, q \in ns : installed[p] # installed[q])
    <2>1. CASE n \in names
      BY <1>7, <2>1
    <2>2. CASE n \notin names
      BY <1>3, <1>8, <2>2
    <2> QED
      BY <2>1, <2>2
  <1> QED
    BY <1>3, <1>5, <1>6, <1>7, <1>9, <1>10

\* What a verdict on a source that is up to date says of the installed version.
LEMMA VerdictMeans ==
    ASSUME WorldTyped, RecordsInv, NEW b \in Bases, kind[b] # "pacman", checkout[b] = source[b],
           OldestOf(b, MembersOf[b] \cap run.set) \in Nat, NEW a \in CheckOne(b)
    PROVE  LET old == OldestOf(b, MembersOf[b] \cap run.set) IN
           /\ a = "UP_TO_DATE" => old = Ver(source[b])
           /\ a = "DOWNGRADE" => old > Ver(source[b])
           /\ a = "NEEDS_REBUILD" => old < Ver(source[b])
  <1> DEFINE old == OldestOf(b, MembersOf[b] \cap run.set)
             new == Ver(source[b])
  <1>1. /\ source[b] \in Recipe /\ new \in Nat /\ new = 2 * source[b].v + source[b].r
        /\ source[b].v \in Nat /\ source[b].r \in 0..1
    BY DEF WorldTyped, Recipe, Ver
  <1>2. /\ Compared(new, old) = "UP_TO_DATE" => old = new
        /\ Compared(new, old) = "DOWNGRADE" => old > new
        /\ Compared(new, old) = "NEEDS_REBUILD" => old < new
    BY <1>1 DEF Compared
  <1>3. [checkout[b] EXCEPT !.v = source[b].v] = source[b]
    BY <1>1 DEF Recipe
  <1>4. Evaluated(b) = {None, new}
    BY <1>3 DEF Evaluated
  <1>5. ASSUME NEW commit \in Peeked(b), ShortCut(b, old, commit) PROVE old = new
    <2>1. PICK e \in RecordOf(b) : e.ver = old /\ e.ver % 2 = checkout[b].r /\ e.commit = commit
      BY <1>5 DEF ShortCut
    <2>2. PICK n \in Names : record[n] # None /\ e = record[n]
      BY <2>1 DEF RecordOf, Names
    <2>3. e \in Entry /\ e.commit \in Nat /\ e.ver \in {2 * e.commit, 2 * e.commit + 1}
      BY <2>2 DEF WorldTyped, RecordsInv, Entry
    <2>4. e.commit = source[b].v
      BY <1>5, <2>1, <2>3, PackagesApart DEF Peeked
    <2>5. (2 * e.commit) % 2 = 0 /\ (2 * e.commit + 1) % 2 = 1
      BY <2>3
    <2> QED
      BY <1>1, <2>1, <2>3, <2>4, <2>5
  <1>6. CASE b \in DOMAIN run.fails \/ (kind[b] = "vcs" /\ ~run.args.devel)
    BY <1>6 DEF CheckOne
  <1>7. CASE kind[b] = "vcs" /\ run.args.devel /\ b \notin DOMAIN run.fails
    <2> DEFINE Told(commit, ev) == IF ShortCut(b, old, commit) THEN "UP_TO_DATE"
                                   ELSE IF ev = None THEN "DEVEL_EVAL_FAILED" ELSE Compared(ev, old)
    <2>0. CheckOne(b) = {Told(commit, ev) : commit \in Peeked(b), ev \in Evaluated(b)}
      BY <1>7 DEF CheckOne
    <2> HIDE DEF Told
    <2>1. PICK commit \in Peeked(b), ev \in Evaluated(b) : a = Told(commit, ev)
      BY <2>0
    <2> USE DEF Told
    <2> QED
      BY <1>2, <1>4, <1>5, <2>1
  <1>8. CASE kind[b] # "vcs" /\ b \notin DOMAIN run.fails
    BY <1>2, <1>8 DEF CheckOne
  <1> QED
    BY <1>6, <1>7, <1>8

\* A version check gives verdicts.
LEMMA VerdictsAre ==
    ASSUME NEW b \in Bases
    PROVE  CheckOne(b) \subseteq Verdicts
  <1> DEFINE Told(old, commit, ev) == IF ShortCut(b, old, commit) THEN "UP_TO_DATE"
                                 ELSE IF ev = None THEN "DEVEL_EVAL_FAILED" ELSE Compared(ev, old)
             old == OldestOf(b, MembersOf[b] \cap run.set)
  <1>1. \A commit, ev : Told(old, commit, ev) \in Verdicts
    BY DEF Verdicts, Compared
  <1>2. CASE kind[b] = "vcs" /\ run.args.devel /\ b \notin DOMAIN run.fails
    <2>1. CheckOne(b) = {Told(old, commit, ev) : commit \in Peeked(b), ev \in Evaluated(b)}
      BY <1>2 DEF CheckOne
    <2> HIDE DEF Told
    <2> QED
      BY <1>1, <2>1
  <1>3. CASE ~(kind[b] = "vcs" /\ run.args.devel /\ b \notin DOMAIN run.fails)
    BY <1>3 DEF CheckOne, Verdicts, Compared
  <1> QED
    BY <1>2, <1>3

-----------------------------------------------------------------------------
(* What no step has touched is as it was.                                  *)

WorldSame == UNCHANGED <<kind, source, checkout, sidecar, installed, record, world>>

\* A step of a run alone leaves the world's types and records.
LEMMA WorldKept ==
    ASSUME WorldTyped, RecordsInv, WorldSame, settled' \in BOOLEAN
    PROVE  WorldTyped' /\ RecordsInv'
  BY DEF WorldTyped, RecordsInv, RecordTellsCompiler, WorldSame

\* The set stays as long as the packages and the opt-outs do.
LEMMA SetKept ==
    ASSUME run'.set = run.set, run'.args = run.args, UNCHANGED <<installed, world>>, SetInv
    PROVE  SetInv'
  BY DEF SetInv, Complete

\* What was fetched stays what it is.
LEMMA SyncKept ==
    ASSUME run'.set = run.set, run'.args = run.args, run'.calm = run.calm, run'.fails = run.fails,
           UNCHANGED <<kind, source, checkout>>, SyncInv
    PROVE  SyncInv'
  BY DEF SyncInv, Sure, Complete, InSet

\* The verdicts stay as long as nothing is built.
LEMMA CheckKept ==
    ASSUME run'.set = run.set, run'.args = run.args, run'.calm = run.calm, run'.fails = run.fails,
           run'.action = run.action, run'.built = run.built, run'.failed = run.failed,
           UNCHANGED <<kind, source, sidecar, installed>>, CheckInv
    PROVE  CheckInv'
  BY DEF CheckInv, Sure, Complete, InSet, Tried, SetOf, Omitted, Overlooked, Ver

\* So does what was found to drift.
LEMMA DriftKept ==
    ASSUME run'.set = run.set, run'.fp = run.fp, run'.stale = run.stale, run'.built = run.built,
           run'.failed = run.failed, UNCHANGED <<kind, installed, record, world>>, DriftInv
    PROVE  DriftInv'
  BY DEF DriftInv, InSet, Tried, SetOf, Uneven, RecordFits

\* A plan, once made, is not changed.
LEMMA PlanKept ==
    ASSUME run'.set = run.set, run'.args = run.args, run'.fails = run.fails, run'.action = run.action,
           run'.stale = run.stale, run'.plan = run.plan, run'.upgrade = run.upgrade, UNCHANGED kind, PlanInv
    PROVE  PlanInv'
  BY DEF PlanInv, InSet

\* What is tended stays so while the world is the same.
LEMMA TendedKept ==
    ASSUME UNCHANGED <<kind, source, checkout, installed, record, world>>, \A b \in Bases : Tended(b)
    PROVE  (\A b \in Bases : Tended(b))'
  BY DEF Tended, LiveOf, Plainly, Uneven, Dropped, RecordFits, Ver

-----------------------------------------------------------------------------
(* The phases.                                                             *)

\* Nothing is under way, and nothing has settled, when the program is first run.
LEMMA UpdateInit == Init => UpdateInv
  <1> SUFFICES ASSUME Init PROVE UpdateInv
    OBVIOUS
  <1>1. \A b \in Bases : MembersOf[b] \subseteq Names
    BY DEF Names
  <1>2. WorldTyped
    <2>1. [ver |-> 2, flags |-> 0, fp |-> Current, commit |-> 1, builtWith |-> Current] \in Entry
      BY DEF Entry, Current
    <2>2. source \in [Bases -> Recipe] /\ checkout = source /\ \A b \in Bases : source[b].makes = MembersOf[b]
      BY <1>1 DEF Init, Recipe
    <2>3. record \in [Names -> Entry \cup {None}]
      BY <2>1 DEF Init
    <2>4. sidecar \in [Bases -> (SUBSET Names) \cup {None}]
      BY DEF Init
    <2>6. world \in [flags : 0..1, optedOut : SUBSET Names]
      <3>1. world = [flags |-> 0, optedOut |-> {}]
        BY DEF Init
      <3> QED
        BY <3>1
    <2>5. installed \in [Names -> Nat \cup {None}]
      <3>1. installed \in [Names -> {2, None}]
        BY DEF Init
      <3> QED
        BY <3>1
    <2> QED
      BY <2>2, <2>3, <2>4, <2>5, <2>6 DEF WorldTyped, Init, Kinds
  <1>3. RecordsInv
    BY DEF Init, RecordsInv, RecordTellsCompiler
  <1> QED
    BY <1>2, <1>3 DEF UpdateInv, Init, Idle

\* A run begins with what the last one left.
LEMMA StartKept ==
    ASSUME UpdateInv, NEW args \in Args, Start(args)
    PROVE  UpdateInv'
  <1>1. /\ run' = [phase |-> "init", args |-> args, calm |-> TRUE, fp |-> Current,
                   set |-> {}, fails |-> {}, action |-> <<>>,
                   stale |-> {}, plan |-> {}, upgrade |-> {}, built |-> {}, failed |-> {},
                   declined |-> FALSE, code |-> None]
        /\ WorldSame /\ settled' = settled /\ run.phase = "idle"
    BY DEF Start, WorldSame
  <1>2. <<>> \in Actions
    <2>1. <<>> \in [{} -> Verdicts]
      OBVIOUS
    <2> QED
      BY <2>1 DEF Actions
  <1>3. run' \in Running
    BY <1>1, <1>2 DEF Running, Stages, Current
  <1>4. /\ run'.phase = "init" /\ run'.built = {} /\ run'.failed = {} /\ run'.fp = Current
    BY <1>1
  <1>5. RunInv'
    BY <1>4 DEF RunInv, AssembledOn, SyncedOn, CheckedOn, DriftOn, PlannedOn
  <1>6. settled' => SettledInv'
    <2>1. settled => \A b \in Bases : Tended(b)
      BY <1>1 DEF UpdateInv, SettledInv
    <2> QED
      BY <1>1, <1>4, <2>1, TendedKept DEF SettledInv, WorldSame
  <1>7. WorldTyped' /\ RecordsInv'
    BY <1>1, WorldKept DEF UpdateInv, WorldTyped
  <1> QED
    BY <1>3, <1>5, <1>6, <1>7 DEF UpdateInv

\* The set of a run is what is installed and not opted out.
LEMMA AssembleKept ==
    ASSUME UpdateInv, Assemble
    PROVE  UpdateInv'
  <1> DEFINE opted == ClearOptOut
  <1>1. /\ run \in Running /\ run.phase = "init" /\ RunInv /\ WorldTyped /\ RecordsInv
        /\ world' = [world EXCEPT !.optedOut = opted]
        /\ run' = [run EXCEPT !.phase = "assembled", !.set = InScope(opted)]
        /\ settled' = (settled /\ world' = world)
        /\ UNCHANGED <<kind, source, checkout, sidecar, installed, record>>
    BY DEF UpdateInv, Assemble, Idle
  <1>2. world.optedOut \in SUBSET Names /\ world \in [flags : 0..1, optedOut : SUBSET Names]
    BY <1>1 DEF WorldTyped
  <1>3. \A b \in Bases : MembersOf[b] \subseteq Names
    BY DEF Names
  <1>4. /\ opted \subseteq world.optedOut
        /\ \A b \in Bases : MembersOf[b] \subseteq opted \/ MembersOf[b] \cap opted = {}
    <2>1. CASE ReadOnly
      BY <1>1, <2>1 DEF ClearOptOut, RecordsInv
    <2>2. CASE ~ReadOnly
      <3> DEFINE named == {c \in Bases : MembersOf[c] \cap run.args.names \cap world.optedOut # {}}
      <3>1. opted = world.optedOut \ UNION {MembersOf[b] : b \in named}
        BY <2>2 DEF ClearOptOut
      <3>2. ASSUME NEW b \in Bases PROVE MembersOf[b] \subseteq opted \/ MembersOf[b] \cap opted = {}
        <4>1. CASE b \in named
          BY <3>1, <4>1
        <4>2. CASE b \notin named
          <5>1. \A c \in named : MembersOf[b] \cap MembersOf[c] = {}
            BY <4>2, PackagesApart
          <5>2. \A n \in MembersOf[b] : n \in opted <=> n \in world.optedOut
            BY <3>1, <5>1
          <5> QED
            BY <1>1, <5>2 DEF RecordsInv
        <4> QED
          BY <4>1, <4>2
      <3> QED
        BY <3>1, <3>2
    <2> QED
      BY <2>1, <2>2
  <1>5. world'.optedOut = opted /\ world'.flags = world.flags /\ world' \in [flags : 0..1, optedOut : SUBSET Names]
    BY <1>1, <1>2, <1>4
  <1>6. WorldTyped' /\ RecordsInv'
    BY <1>1, <1>4, <1>5 DEF WorldTyped, RecordsInv, RecordTellsCompiler
  <1>7. /\ run' \in Running /\ run'.phase = "assembled" /\ run'.set = InScope(opted) /\ run'.args = run.args
        /\ run'.built = run.built /\ run'.failed = run.failed /\ run'.fp = run.fp
    <2>1. InScope(opted) \subseteq Names
      BY DEF InScope
    <2> QED
      BY <1>1, <2>1 DEF Running, Stages
  <1>8. SetInv'
    <2>1. \A n \in run'.set : installed'[n] # None
      BY <1>1, <1>7 DEF InScope
    <2>2. ASSUME ~run.args.dry, NEW n \in run'.set PROVE n \notin opted
      <3> SUFFICES ASSUME n \in opted PROVE FALSE
        OBVIOUS
      <3>1. n \in run.args.names /\ n \in world.optedOut /\ n \in Names
        BY <1>4, <1>7 DEF InScope
      <3>2. PICK c \in Bases : n \in MembersOf[c]
        BY <3>1 DEF Names
      <3> QED
        BY <2>2, <3>1, <3>2 DEF ClearOptOut, ReadOnly
    <2>3. Complete => InScope(opted) = {n \in Names : installed[n] # None /\ n \notin opted}
      BY DEF InScope, Complete
    <2> QED
      BY <1>1, <1>5, <1>7, <2>1, <2>2, <2>3 DEF SetInv, Complete
  <1>9. RunInv'
    BY <1>1, <1>7, <1>8 DEF RunInv, BeforeBuild, SyncedOn, CheckedOn, DriftOn, PlannedOn
  <1>10. settled' => SettledInv'
    <2> SUFFICES ASSUME settled' PROVE SettledInv'
      OBVIOUS
    <2>1. \A b \in Bases : Tended(b)
      BY <1>1 DEF UpdateInv, SettledInv, BeforeBuild
    <2>2. (\A b \in Bases : Tended(b))'
      BY <1>1, <2>1, TendedKept
    <2> QED
      BY <1>7, <2>2 DEF SettledInv
  <1> QED
    BY <1>1, <1>6, <1>7, <1>9, <1>10 DEF UpdateInv, WorldTyped

\* Sources that were fetched are upstream's, as long as upstream stays.
LEMMA SourcesKept ==
    ASSUME UpdateInv, SyncSources
    PROVE  UpdateInv'
  <1>1. /\ run \in Running /\ run.phase = "assembled" /\ RunInv /\ WorldTyped /\ RecordsInv
        /\ UNCHANGED <<kind, source, sidecar, installed, record, world, settled>>
    BY DEF UpdateInv, SyncSources, Idle
  <1>0. PICK broken \in SUBSET Synced :
           /\ checkout' = [b \in Bases |-> IF b \in Synced \ broken THEN source[b] ELSE checkout[b]]
           /\ \E frozen \in SUBSET broken :
                 run' = [run EXCEPT !.phase = "synced",
                                    !.fails = [b \in broken |-> IF b \in frozen THEN "frozen" ELSE "pull"]]
    BY DEF SyncSources
  <1>2. PICK frozen \in SUBSET broken :
           /\ checkout' = [b \in Bases |-> IF b \in Synced \ broken THEN source[b] ELSE checkout[b]]
           /\ run' = [run EXCEPT !.phase = "synced",
                                 !.fails = [b \in broken |-> IF b \in frozen THEN "frozen" ELSE "pull"]]
    BY <1>0
  <1>3. Synced \subseteq Bases
    BY DEF Synced, InSet
  <1>4. /\ [b \in broken |-> IF b \in frozen THEN "frozen" ELSE "pull"] \in Fails
        /\ DOMAIN [b \in broken |-> IF b \in frozen THEN "frozen" ELSE "pull"] = broken
    <2>1. [b \in broken |-> IF b \in frozen THEN "frozen" ELSE "pull"] \in [broken -> {"frozen", "pull"}]
      OBVIOUS
    <2> QED
      BY <1>3, <2>1 DEF Fails
  <1>5. /\ run' \in Running /\ run'.phase = "synced" /\ run'.fails \in Fails /\ DOMAIN run'.fails = broken
        /\ run'.args = run.args /\ run'.set = run.set /\ run'.calm = run.calm /\ run'.built = run.built
        /\ run'.failed = run.failed /\ run'.fp = run.fp
    BY <1>1, <1>2, <1>4 DEF Running, Stages
  <1>6. WorldTyped' /\ RecordsInv'
    <2>1. \A b \in Bases : checkout'[b] \in {source[b], checkout[b]}
      BY <1>2
    <2>2. checkout' \in [Bases -> Recipe]
      BY <1>1, <1>2 DEF WorldTyped
    <2> QED
      BY <1>1, <2>1, <2>2 DEF WorldTyped, RecordsInv, RecordTellsCompiler
  <1>7. SetInv'
    BY <1>1, <1>5, SetKept DEF RunInv, AssembledOn
  <1>8. SyncInv'
    <2> SUFFICES ASSUME Sure', NEW b \in InSet' \ broken, kind[b] # "pacman" PROVE checkout'[b] = source[b]
      BY <1>1, <1>5 DEF SyncInv
    <2>1. Complete /\ InSet' = InSet
      BY <1>5 DEF Sure, Complete, InSet
    <2>2. b \in Synced \ broken /\ b \in Bases
      BY <2>1 DEF Synced, Complete, InSet
    <2> QED
      BY <1>2, <2>2
  <1>9. RunInv'
    BY <1>1, <1>5, <1>7, <1>8 DEF RunInv, BeforeBuild, CheckedOn, DriftOn, PlannedOn
  <1>10. settled' => SettledInv'
    <2> SUFFICES ASSUME settled' PROVE SettledInv'
      OBVIOUS
    <2>1. \A b \in Bases : Tended(b)
      BY <1>1 DEF UpdateInv, SettledInv, BeforeBuild
    <2>2. ASSUME NEW b \in Bases PROVE Tended(b)'
      <3>1. checkout'[b] = checkout[b] \/ checkout'[b] = source[b]
        BY <1>2
      <3> SUFFICES ASSUME LiveOf(b) # {}, kind[b] # "pacman"
                   PROVE  Tended(b)'
        BY <1>1 DEF Tended, LiveOf
      <3>2. checkout'[b] = source[b] /\ checkout[b] = source[b]
        BY <2>1, <3>1 DEF Tended
      <3> QED
        BY <1>1, <2>1, <3>2 DEF Tended, LiveOf, Plainly, Uneven, Dropped, RecordFits, Ver
    <2> QED
      BY <1>5, <2>2 DEF SettledInv
  <1> QED
    BY <1>1, <1>5, <1>6, <1>9, <1>10 DEF UpdateInv

\* A recipe's version is a number.
LEMMA VersionsAre ==
    ASSUME WorldTyped, NEW b \in Bases
    PROVE  Ver(source[b]) \in Nat /\ Ver(checkout[b]) \in Nat
  <1>1. source[b] \in Recipe /\ checkout[b] \in Recipe
    BY DEF WorldTyped
  <1> QED
    BY <1>1 DEF Recipe, Ver

\* A source that could be fetched, of a run with --devel, is given a verdict.
LEMMA ToldApart ==
    ASSUME NEW b \in Bases, kind[b] # "pacman", b \notin DOMAIN run.fails, run.args.devel,
           NEW a \in CheckOne(b)
    PROVE  a \in {"UP_TO_DATE", "DEVEL_EVAL_FAILED", "NEEDS_REBUILD", "DOWNGRADE"}
  <1> DEFINE Told(old, commit, ev) == IF ShortCut(b, old, commit) THEN "UP_TO_DATE"
                                 ELSE IF ev = None THEN "DEVEL_EVAL_FAILED" ELSE Compared(ev, old)
             old == OldestOf(b, MembersOf[b] \cap run.set)
             told == {"UP_TO_DATE", "DEVEL_EVAL_FAILED", "NEEDS_REBUILD", "DOWNGRADE"}
  <1>1. \A commit, ev : Told(old, commit, ev) \in told
    BY DEF Compared
  <1>2. CASE kind[b] = "vcs"
    <2>1. CheckOne(b) = {Told(old, commit, ev) : commit \in Peeked(b), ev \in Evaluated(b)}
      BY <1>2 DEF CheckOne
    <2> HIDE DEF Told, told, old
    <2>2. PICK commit \in Peeked(b), ev \in Evaluated(b) : a = Told(old, commit, ev)
      BY <2>1
    <2>3. a \in told
      BY <1>1, <2>2
    <2> QED
      BY <2>3 DEF told
  <1>3. CASE kind[b] # "vcs"
    BY <1>3 DEF CheckOne, Compared
  <1> QED
    BY <1>2, <1>3

\* pacman's packages are upgraded by pacman, and only they are.
LEMMA PacmanApart ==
    ASSUME NEW b \in Bases, NEW a \in CheckOne(b)
    PROVE  /\ kind[b] = "pacman" => a # "NEEDS_REBUILD"
           /\ a = "NEEDS_PACMAN_UPGRADE" => kind[b] = "pacman"
  <1>1. CASE kind[b] = "pacman"
    BY <1>1 DEF CheckOne
  <1>2. CASE kind[b] # "pacman" /\ b \notin DOMAIN run.fails /\ run.args.devel
    BY <1>2, ToldApart
  <1>3. CASE kind[b] # "pacman" /\ b \in DOMAIN run.fails
    BY <1>3 DEF CheckOne
  <1>4. CASE kind[b] # "pacman" /\ b \notin DOMAIN run.fails /\ ~run.args.devel
    BY <1>4 DEF CheckOne, Compared
  <1> QED
    BY <1>1, <1>2, <1>3, <1>4

\* Nothing is due of a base that was left tended and whose members are of one build.
LEMMA TendedCheck ==
    ASSUME WorldTyped, RecordsInv, SetInv, ~run.args.dry, NEW b \in InSet, Plainly(b), Tended(b),
           NEW a \in CheckOne(b),
           OldestOf(b, SetOf(b)) \in Nat, \E n \in SetOf(b) : OldestOf(b, SetOf(b)) = installed[n]
    PROVE  a # "NEEDS_REBUILD" /\ (a = "UP_TO_DATE" => \A n \in SetOf(b) : RecordFits(n))
  <1> DEFINE old == OldestOf(b, SetOf(b))
  <1>1. b \in Bases /\ SetOf(b) \subseteq MembersOf[b] /\ MembersOf[b] \subseteq Names
    BY DEF InSet, SetOf, Names
  <1>2. SetOf(b) \subseteq LiveOf(b)
    BY DEF SetInv, SetOf, LiveOf
  <1>3. PICK p \in SetOf(b) : old = installed[p]
    OBVIOUS
  <1>4. checkout[b] = source[b] /\ kind[b] # "pacman"
    BY <1>2, <1>3 DEF Tended, Plainly
  <1>5. \A n \in SetOf(b) : installed[n] = old
    BY <1>2, <1>3 DEF Plainly, Uneven, LiveOf, SetOf
  <1>6. \A n \in SetOf(b) : old > Ver(source[b]) \/ (old = Ver(source[b]) /\ RecordFits(n))
    BY <1>2, <1>3, <1>4, <1>5 DEF Tended
  <1>7. /\ a = "UP_TO_DATE" => old = Ver(source[b])
        /\ a = "NEEDS_REBUILD" => old < Ver(source[b])
    BY <1>1, <1>4, VerdictMeans DEF SetOf
  <1>8. Ver(source[b]) \in Nat
    BY <1>1 DEF Ver, WorldTyped, Recipe
  <1> QED
    BY <1>3, <1>6, <1>7, <1>8

\* An entry that names an older compiler is an entry.
LEMMA AgedIs ==
    ASSUME NEW e \in Entry
    PROVE  [e EXCEPT !.fp = Older, !.builtWith = Older] \in Entry
  <1>1. Older \in 0..1
    BY DEF Older
  <1>2. [e EXCEPT !.fp = Older] \in Entry
    BY <1>1 DEF Entry
  <1>3. ASSUME NEW f \in Entry PROVE [f EXCEPT !.builtWith = Older] \in Entry
    BY <1>1 DEF Entry
  <1> QED
    BY <1>2, <1>3

\* Once another compiler is installed, no record is of the one in place.
LEMMA OutdatedIs ==
    ASSUME WorldTyped, NEW n \in Names
    PROVE  /\ Outdated[n] \in Entry \cup {None}
           /\ Outdated[n] # None => /\ record[n] # None
                                    /\ Outdated[n].ver = record[n].ver
                                    /\ Outdated[n].commit = record[n].commit
                                    /\ Outdated[n].fp = Older /\ Outdated[n].builtWith = Older
  <1>1. n \in DOMAIN record
    BY DEF WorldTyped
  <1>2. Outdated[n] = IF record[n] = None THEN None ELSE [record[n] EXCEPT !.fp = Older, !.builtWith = Older]
    BY <1>1 DEF Outdated
  <1>3. CASE record[n] = None
    BY <1>2, <1>3
  <1>4. CASE record[n] # None
    <2>1. record[n] \in Entry
      BY <1>4 DEF WorldTyped
    <2>2. [record[n] EXCEPT !.fp = Older, !.builtWith = Older] \in Entry
      BY <2>1, AgedIs
    <2> QED
      BY <1>2, <1>4, <2>1, <2>2 DEF Entry
  <1> QED
    BY <1>3, <1>4

\* Of what a check found up to date, every member is at least upstream's, but
\* those it passed over; and of a base that was left tended, nothing is due.
LEMMA CheckIsKept ==
    ASSUME UpdateInv, VersionCheck
    PROVE  UpdateInv'
  <1>1. /\ run \in Running /\ run.phase = "synced" /\ RunInv /\ WorldTyped /\ RecordsInv /\ WorldSame
        /\ settled' = settled /\ SetInv /\ SyncInv
        /\ run.built = {} /\ run.failed = {} /\ run.fp = Current
    BY DEF UpdateInv, VersionCheck, Idle, WorldSame, RunInv, BeforeBuild, AssembledOn, SyncedOn
  <1>2. PICK a \in [InSet -> UNION {CheckOne(b) : b \in InSet}] :
           /\ \A b \in InSet : a[b] \in CheckOne(b)
           /\ run' = [run EXCEPT !.phase = "checked", !.action = a]
    BY DEF VersionCheck
  <1>3. InSet \subseteq Bases /\ \A b \in InSet : SetOf(b) # {}
    BY DEF InSet, SetOf
  <1>4. a \in [InSet -> Verdicts] /\ a \in Actions
    <2>1. \A b \in InSet : a[b] \in Verdicts
      BY <1>2, <1>3, VerdictsAre
    <2>2. a \in [InSet -> Verdicts]
      BY <1>2, <2>1
    <2> QED
      BY <1>3, <2>2 DEF Actions
  <1>5. /\ run' \in Running /\ run'.phase = "checked" /\ run'.action = a
        /\ run'.args = run.args /\ run'.set = run.set /\ run'.calm = run.calm /\ run'.fails = run.fails
        /\ run'.built = {} /\ run'.failed = {} /\ run'.fp = Current
    BY <1>1, <1>2, <1>4 DEF Running, Stages
  <1>6. WorldTyped' /\ RecordsInv'
    BY <1>1, WorldKept DEF WorldTyped
  <1>7. ASSUME NEW b \in InSet
        PROVE  LET old == OldestOf(b, SetOf(b)) IN
               /\ old \in Nat /\ (\E n \in SetOf(b) : old = installed[n])
               /\ \A n \in SetOf(b) : old <= installed[n] \/ Omitted(b, n)
    <2>1. SetOf(b) \in SUBSET MembersOf[b] /\ SetOf(b) # {} /\ \A n \in SetOf(b) : installed[n] # None
      BY <1>1, <1>3 DEF SetOf, SetInv
    <2> QED
      BY <1>1, <1>3, <2>1, OldestIs DEF Omitted
  <1>8. \A b \in InSet : Ver(source[b]) \in Nat
    BY <1>1, <1>3, VersionsAre
  <1>9. ASSUME Sure, NEW b \in InSet \ DOMAIN run.fails
        PROVE  /\ a[b] \notin {"DEVEL", "FROZEN", "PULL_FAILED"}
               /\ \A n \in SetOf(b) :
                     /\ a[b] = "UP_TO_DATE" => installed[n] >= Ver(source[b]) \/ Omitted(b, n)
                     /\ a[b] = "DOWNGRADE" => installed[n] > Ver(source[b]) \/ Omitted(b, n)
    <2> DEFINE old == OldestOf(b, SetOf(b))
    <2>1. a[b] \in CheckOne(b) /\ run.args.devel /\ ~run.args.offline /\ b \in Bases
      BY <1>2, <1>3, <1>9 DEF Sure, Complete
    <2>2. old \in Nat /\ \A n \in SetOf(b) : old <= installed[n] \/ Omitted(b, n)
      BY <1>7
    <2>3. \A n \in SetOf(b) : installed[n] \in Nat
      BY <1>1, <2>1 DEF SetOf, WorldTyped, SetInv, Names
    <2>4. CASE kind[b] = "pacman"
      <3>1. \/ a[b] = "SKIPPED_NO_CHECKUPDATES"
            \/ a[b] = "NEEDS_PACMAN_UPGRADE"
            \/ a[b] = "UP_TO_DATE" /\ ~(Ver(source[b]) > old)
        BY <2>1, <2>4 DEF CheckOne, SetOf
      <3> QED
        BY <1>8, <2>2, <2>3, <2>4, <3>1
    <2>5. CASE kind[b] # "pacman"
      <3>1. checkout[b] = source[b]
        BY <1>1, <1>9, <2>5 DEF SyncInv
      <3>2. /\ a[b] = "UP_TO_DATE" => old = Ver(source[b])
            /\ a[b] = "DOWNGRADE" => old > Ver(source[b])
        BY <1>1, <2>1, <2>2, <2>5, <3>1, VerdictMeans DEF SetOf
      <3>3. a[b] \notin {"DEVEL", "FROZEN", "PULL_FAILED", "NEEDS_PACMAN_UPGRADE"}
        BY <1>9, <2>1, <2>5, ToldApart
      <3> QED
        BY <1>8, <2>2, <2>3, <3>2, <3>3
    <2> QED
      BY <2>4, <2>5
  <1>10. CheckInv'
    <2>1. InSet' = InSet /\ Sure' = Sure
      BY <1>5 DEF InSet, Sure, Complete
    <2>2. \A b, n : Omitted(b, n)' <=> Omitted(b, n)
      BY <1>1, <1>5 DEF Omitted, Overlooked, SetOf, WorldSame
    <2>3. \A b : SetOf(b)' = SetOf(b) /\ Ver(source'[b]) = Ver(source[b])
      BY <1>1, <1>5 DEF SetOf, WorldSame
    <2>4. ASSUME NEW b \in InSet
          PROVE  /\ kind[b] = "pacman" => a[b] # "NEEDS_REBUILD"
                 /\ a[b] = "NEEDS_PACMAN_UPGRADE" => kind[b] = "pacman"
      BY <1>2, <1>3, PacmanApart
    <2> QED
      BY <1>1, <1>4, <1>5, <1>9, <2>1, <2>2, <2>3, <2>4 DEF CheckInv, WorldSame
  <1>11. SetInv' /\ SyncInv'
    BY <1>1, <1>5, SetKept, SyncKept DEF WorldSame
  <1>12. RunInv'
    BY <1>5, <1>10, <1>11 DEF RunInv, BeforeBuild, DriftOn, PlannedOn
  <1>13. settled' => SettledInv'
    <2> SUFFICES ASSUME settled PROVE SettledInv'
      BY <1>1
    <2>1. \A b \in Bases : Tended(b)
      BY <1>1 DEF UpdateInv, SettledInv, BeforeBuild
    <2>2. (\A b \in Bases : Tended(b))'
      BY <1>1, <2>1, TendedKept DEF WorldSame
    <2>3. ASSUME ~run.args.dry, NEW b \in InSet, Plainly(b)
          PROVE  a[b] # "NEEDS_REBUILD" /\ (a[b] = "UP_TO_DATE" => \A n \in SetOf(b) : RecordFits(n))
      BY <1>1, <1>2, <1>3, <1>7, <2>1, <2>3, TendedCheck
    <2>4. InSet' = InSet /\ \A b : SetOf(b)' = SetOf(b)
      BY <1>5 DEF InSet, SetOf
    <2>5. \A b \in Bases : Plainly(b)' <=> Plainly(b)
      BY <1>1 DEF WorldSame, Plainly, Uneven, Dropped
    <2>6. \A n : RecordFits(n)' <=> RecordFits(n)
      BY <1>1 DEF WorldSame, RecordFits
    <2> QED
      BY <1>3, <1>5, <2>2, <2>3, <2>4, <2>5, <2>6 DEF SettledInv, BeforeBuild
  <1> QED
    BY <1>1, <1>5, <1>6, <1>12, <1>13 DEF UpdateInv

\* What is said of a base or a package is as it was while the world is.
LEMMA SaidKept ==
    ASSUME WorldSame
    PROVE  /\ \A b : (Uneven(b)' <=> Uneven(b)) /\ (Plainly(b)' <=> Plainly(b)) /\ (Dropped(b)' <=> Dropped(b))
           /\ \A n : RecordFits(n)' <=> RecordFits(n)
  BY DEF WorldSame, Uneven, Plainly, Dropped, RecordFits

\* What is not stale, and not uneven, is recorded with the flags and the compiler of now.
LEMMA DriftIsKept ==
    ASSUME UpdateInv, Drift
    PROVE  UpdateInv'
  <1>1. /\ run \in Running /\ run.phase = "checked" /\ RunInv /\ WorldTyped /\ RecordsInv /\ WorldSame
        /\ settled' = settled /\ SetInv /\ SyncInv /\ CheckInv
        /\ run.built = {} /\ run.failed = {} /\ run.fp = Current
    BY DEF UpdateInv, Drift, Idle, WorldSame, RunInv, BeforeBuild, AssembledOn, SyncedOn, CheckedOn
  <1>2. PICK stale \in SUBSET InSet :
           /\ \A b \in stale : TRUE \in CompilerDrift(b) \cup FlagDrift(b)
           /\ \A b \in InSet \ stale : FALSE \in FlagDrift(b) /\ CompilerDrift(b) \in {{}, {TRUE, FALSE}, {FALSE}}
           /\ run' = [run EXCEPT !.phase = "drift", !.stale = stale]
    BY DEF Drift
  <1>3. InSet \subseteq Bases
    BY DEF InSet
  <1>4. /\ run' \in Running /\ run'.phase = "drift" /\ run'.stale = stale
        /\ run'.args = run.args /\ run'.set = run.set /\ run'.calm = run.calm /\ run'.fails = run.fails
        /\ run'.action = run.action /\ run'.built = {} /\ run'.failed = {} /\ run'.fp = Current
    BY <1>1, <1>2, <1>3 DEF Running, Stages
  <1>5. WorldTyped' /\ RecordsInv'
    BY <1>1, WorldKept DEF WorldTyped
  <1>6. SetInv' /\ SyncInv' /\ CheckInv'
    BY <1>1, <1>4, SetKept, SyncKept, CheckKept DEF WorldSame
  <1>7. ASSUME NEW b \in InSet \ stale, ~Uneven(b), NEW n \in SetOf(b) PROVE RecordFits(n)
    <2> SUFFICES ASSUME record[n] # None PROVE record[n].flags = world.flags /\ record[n].fp = Current
      BY DEF RecordFits
    <2>1. \A m \in SetOf(b) : installed[m] # None /\ m \in MembersOf[b]
      BY <1>1 DEF SetInv, SetOf
    <2>2. \A m \in SetOf(b) : record[m] = record[n]
      BY <1>7, <2>1 DEF Uneven
    <2>3. record[n].flags = world.flags
      <3>1. FALSE \in FlagDrift(b)
        BY <1>2, <1>7
      <3>2. PICK m \in SetOf(b) : FALSE = (record[m] # None /\ record[m].flags # world.flags)
        BY <3>1 DEF FlagDrift, SetOf
      <3> QED
        BY <2>2, <3>2
    <2>4. record[n].fp = Current
      <3>1. (record[n].fp # run.fp) \in CompilerDrift(b)
        BY <1>7 DEF CompilerDrift, SetOf
      <3>2. FALSE \in CompilerDrift(b)
        BY <1>2, <1>7, <3>1
      <3>3. PICK m \in SetOf(b) : FALSE = (record[m].fp # run.fp)
        BY <3>2 DEF CompilerDrift, SetOf
      <3> QED
        BY <1>1, <2>2, <3>3
    <2> QED
      BY <2>3, <2>4
  <1>8. DriftInv'
    <2>1. InSet' = InSet /\ \A b : SetOf(b)' = SetOf(b)
      BY <1>4 DEF InSet, SetOf
    <2>2. run'.stale \subseteq InSet'
      BY <1>2, <1>4, <2>1
    <2> QED
      BY <1>1, <1>4, <1>7, <2>1, <2>2, SaidKept DEF DriftInv, Tried
  <1>9. RunInv'
    BY <1>4, <1>6, <1>8 DEF RunInv, BeforeBuild, PlannedOn
  <1>10. settled' => SettledInv'
    <2> SUFFICES ASSUME settled PROVE SettledInv'
      BY <1>1
    <2>1. /\ \A b \in Bases : Tended(b)
          /\ ~run.args.dry => \A b \in InSet : Plainly(b) =>
                /\ run.action[b] # "NEEDS_REBUILD"
                /\ run.action[b] = "UP_TO_DATE" => \A n \in SetOf(b) : RecordFits(n)
      BY <1>1 DEF UpdateInv, SettledInv, BeforeBuild
    <2>2. (\A b \in Bases : Tended(b))'
      BY <1>1, <2>1, TendedKept DEF WorldSame
    <2>3. ASSUME NEW b \in InSet, \A n \in SetOf(b) : RecordFits(n) PROVE b \notin stale
      <3>1. \A n \in SetOf(b) : record[n] # None => record[n].fp = run.fp /\ record[n].flags = world.flags
        BY <1>1, <2>3 DEF RecordFits
      <3>2. TRUE \notin CompilerDrift(b)
        BY <3>1 DEF CompilerDrift, SetOf
      <3>3. TRUE \notin FlagDrift(b)
        BY <3>1 DEF FlagDrift, SetOf
      <3> QED
        BY <1>2, <3>2, <3>3
    <2>4. InSet' = InSet /\ \A b : SetOf(b)' = SetOf(b)
      BY <1>4 DEF InSet, SetOf
    <2> QED
      BY <1>1, <1>4, <2>1, <2>2, <2>3, <2>4, SaidKept DEF SettledInv, BeforeBuild
  <1> QED
    BY <1>1, <1>4, <1>5, <1>9, <1>10 DEF UpdateInv

\* What is not planned needed no build, and was not promoted for its drift.
LEMMA PlanIsKept ==
    ASSUME UpdateInv, Plan
    PROVE  UpdateInv'
  <1> DEFINE upgrade == {b \in InSet : run.action[b] = "NEEDS_PACMAN_UPGRADE"}
             goal == IF ReadOnly THEN "done" ELSE "planned"
             code == IF ReadOnly THEN 0 ELSE None
  <1>1. /\ run \in Running /\ run.phase = "drift" /\ RunInv /\ WorldTyped /\ RecordsInv /\ WorldSame
        /\ settled' = settled /\ SetInv /\ SyncInv /\ CheckInv /\ DriftInv
        /\ run.built = {} /\ run.failed = {} /\ run.fp = Current
        /\ run' = [run EXCEPT !.phase = goal, !.plan = ToBuild, !.upgrade = upgrade, !.code = code]
    BY DEF UpdateInv, Plan, Idle, WorldSame, RunInv, BeforeBuild, AssembledOn, SyncedOn, CheckedOn, DriftOn
  <1>2. ToBuild \subseteq InSet \ DOMAIN run.fails /\ InSet \subseteq Bases /\ upgrade \subseteq Bases
    BY DEF ToBuild, InSet
  <1>3. /\ run' \in Running /\ run'.phase = goal /\ run'.plan = ToBuild /\ run'.upgrade = upgrade
        /\ run'.code = code /\ run'.stale = run.stale
        /\ run'.args = run.args /\ run'.set = run.set /\ run'.calm = run.calm /\ run'.fails = run.fails
        /\ run'.action = run.action /\ run'.built = {} /\ run'.failed = {} /\ run'.fp = Current
    BY <1>1, <1>2 DEF Running, Stages
  <1>4. WorldTyped' /\ RecordsInv'
    BY <1>1, WorldKept DEF WorldTyped
  <1>5. SetInv' /\ SyncInv' /\ CheckInv' /\ DriftInv'
    BY <1>1, <1>3, SetKept, SyncKept, CheckKept, DriftKept DEF WorldSame
  <1>6. /\ \A b \in InSet : Promoted[b] \in {run.action[b], "NEEDS_REBUILD"}
        /\ \A b \in InSet : run.action[b] # "UP_TO_DATE" => Promoted[b] = run.action[b]
        /\ \A b \in InSet : run.args.rebuild /\ b \in run.stale /\ kind[b] # "pacman" /\ run.action[b] = "UP_TO_DATE"
                              => Promoted[b] = "NEEDS_REBUILD"
        /\ \A b \in InSet : Promoted[b] # run.action[b] => b \in run.stale /\ kind[b] # "pacman"
        /\ \A b \in InSet : run.action[b] = "NEEDS_REBUILD" => Promoted[b] = "NEEDS_REBUILD"
    <2>1. CASE run.args.rebuild
      BY <2>1 DEF Promoted
    <2>2. CASE ~run.args.rebuild
      BY <2>2 DEF Promoted
    <2> QED
      BY <2>1, <2>2
  <1>7. PlanInv'
    <2>1. InSet' = InSet
      BY <1>3 DEF InSet
    <2>2. ToBuild \cap upgrade = {}
      BY <1>6 DEF ToBuild
    <2>4. ASSUME NEW b \in ToBuild PROVE kind[b] # "pacman"
      BY <1>1, <1>6 DEF CheckInv, ToBuild
    <2>3. ASSUME NEW b \in InSet \ (DOMAIN run.fails \cup ToBuild)
          PROVE  /\ run.action[b] # "NEEDS_REBUILD"
                 /\ run.args.rebuild /\ run.action[b] = "UP_TO_DATE" /\ kind[b] # "pacman" => b \notin run.stale
      BY <1>6, <2>3 DEF ToBuild
    <2> QED
      BY <1>1, <1>2, <1>3, <2>1, <2>2, <2>3, <2>4 DEF PlanInv, WorldSame
  <1>8. RunInv'
    <2>1. run'.phase \in {"done", "planned"} /\ (run'.phase = "done" => run.args.dry)
      BY <1>3 DEF ReadOnly
    <2>2. run'.phase = "done" => ~Sure'
      BY <1>3, <2>1 DEF Sure, Complete
    <2>3. BuildInv'
      BY <1>3, <2>1 DEF BuildInv, Current, Older
    <2>4. run'.phase = "done" => DoneInv'
      BY <2>2 DEF DoneInv
    <2> QED
      BY <1>3, <1>5, <1>7, <2>1, <2>3, <2>4 DEF RunInv
  <1>9. settled' => SettledInv'
    <2> SUFFICES ASSUME settled PROVE SettledInv'
      BY <1>1
    <2>1. CASE ReadOnly
      BY <1>3, <2>1 DEF SettledInv, BeforeBuild
    <2>2. CASE ~ReadOnly
      <3>1. /\ \A b \in Bases : Tended(b)
            /\ \A b \in InSet : Plainly(b) =>
                  /\ run.action[b] # "NEEDS_REBUILD"
                  /\ run.action[b] = "UP_TO_DATE" => \A n \in SetOf(b) : RecordFits(n)
                  /\ run.action[b] = "UP_TO_DATE" => b \notin run.stale
        BY <1>1, <2>2 DEF UpdateInv, SettledInv, BeforeBuild, ReadOnly
      <3>2. (\A b \in Bases : Tended(b))'
        BY <1>1, <3>1, TendedKept DEF WorldSame
      <3>3. InSet' = InSet /\ \A b : SetOf(b)' = SetOf(b)
        BY <1>3 DEF InSet, SetOf
      <3>4. ASSUME NEW b \in ToBuild PROVE ~Plainly(b) /\ kind[b] # "pacman"
        <4>1. b \in InSet /\ b \notin DOMAIN run.fails /\ Promoted[b] = "NEEDS_REBUILD"
          BY DEF ToBuild
        <4>2. ~Plainly(b)
          BY <1>6, <3>1, <4>1
        <4>3. kind[b] # "pacman"
          BY <1>1, <1>6, <4>1 DEF CheckInv
        <4> QED
          BY <4>2, <4>3
      <3>5. \A b \in ToBuild : Dropped(b) \/ Uneven(b)
        BY <3>4 DEF Plainly
      <3> QED
        BY <1>1, <1>3, <2>2, <3>1, <3>2, <3>3, <3>5, SaidKept DEF SettledInv, BeforeBuild
    <2> QED
      BY <2>1, <2>2
  <1> QED
    BY <1>1, <1>3, <1>4, <1>8, <1>9 DEF UpdateInv

\* With nothing to do, or no leave to do it, the run is over.
LEMMA AnswerKept ==
    ASSUME UpdateInv, Decline \/ Confirm
    PROVE  UpdateInv'
  <1>1. /\ run \in Running /\ run.phase = "planned" /\ RunInv /\ WorldTyped /\ RecordsInv /\ WorldSame
        /\ settled' = settled /\ SetInv /\ SyncInv /\ CheckInv /\ DriftInv /\ PlanInv
        /\ run.built = {} /\ run.failed = {} /\ run.fp = Current
    BY DEF UpdateInv, Decline, Confirm, Idle, WorldSame, RunInv, BeforeBuild, AssembledOn, SyncedOn, CheckedOn,
           DriftOn, PlannedOn
  <1>2. \/ run' = [run EXCEPT !.phase = "done", !.code = 0, !.declined = TRUE]
        \/ run' = [run EXCEPT !.phase = "done", !.code = 0] /\ run.upgrade = {}
        \/ run' = [run EXCEPT !.phase = "building"]
    BY DEF Decline, Confirm
  <1>3. /\ run' \in Running /\ run'.phase \in {"done", "building"}
        /\ run'.plan = run.plan /\ run'.upgrade = run.upgrade /\ run'.stale = run.stale
        /\ run'.args = run.args /\ run'.set = run.set /\ run'.calm = run.calm /\ run'.fails = run.fails
        /\ run'.action = run.action /\ run'.built = {} /\ run'.failed = {} /\ run'.fp = Current
        /\ run'.phase = "done" => run'.declined \/ run'.upgrade = {}
    <2>1. CASE run' = [run EXCEPT !.phase = "done", !.code = 0, !.declined = TRUE]
      BY <1>1, <2>1 DEF Running, Stages
    <2>2. CASE run' = [run EXCEPT !.phase = "done", !.code = 0] /\ run.upgrade = {}
      BY <1>1, <2>2 DEF Running, Stages
    <2>3. CASE run' = [run EXCEPT !.phase = "building"]
      BY <1>1, <2>3 DEF Running, Stages
    <2> QED
      BY <1>2, <2>1, <2>2, <2>3
  <1>4. WorldTyped' /\ RecordsInv'
    BY <1>1, WorldKept DEF WorldTyped
  <1>5. SetInv' /\ SyncInv' /\ CheckInv' /\ DriftInv' /\ PlanInv'
    BY <1>1, <1>3, SetKept, SyncKept, CheckKept, DriftKept, PlanKept DEF WorldSame
  <1>6. BuildInv' /\ (run'.phase = "done" => DoneInv')
    BY <1>3 DEF BuildInv, DoneInv, Current, Older
  <1>7. RunInv'
    BY <1>3, <1>5, <1>6 DEF RunInv, BeforeBuild
  <1>8. settled' => SettledInv'
    BY <1>3 DEF SettledInv, BeforeBuild
  <1> QED
    BY <1>1, <1>3, <1>4, <1>7, <1>8 DEF UpdateInv

-----------------------------------------------------------------------------
(* The builds.                                                             *)

\* What a build under way knows.
LEMMA BuildingKnows ==
    ASSUME UpdateInv, run.phase = "building"
    PROVE  /\ run \in Running /\ WorldTyped /\ RecordsInv
           /\ SetInv /\ SyncInv /\ CheckInv /\ DriftInv /\ PlanInv /\ BuildInv
  BY DEF UpdateInv, Idle, RunInv, AssembledOn, SyncedOn, CheckedOn, DriftOn, PlannedOn

\* What installs a base leaves the packages of every other.
LEMMA OthersApart ==
    ASSUME NEW b \in Bases, NEW c \in Bases, NEW n \in MembersOf[b], n \in MembersOf[c]
    PROVE  b = c
  BY PackagesApart

\* A build records the compiler that ran.
LEMMA FingerprintIs ==
    ASSUME PlanInv, BuildInv, run \in Running, NEW b \in run.plan, b \notin Toolchain
    PROVE  Fingerprint(b) = Current
  <1>1. run.fp \in {Older, Current}
    BY DEF Running, Older, Current
  <1>2. run.plan \cap Toolchain = {} => run.fp = Current
    BY <1>1 DEF BuildInv
  <1> QED
    BY <1>2 DEF Fingerprint

\* A success puts one version of the base in place, with its record.
LEMMA InstallsKept ==
    ASSUME UpdateInv, NEW b \in Bases, BuildInstalls(b)
    PROVE  UpdateInv'
  <1> DEFINE made == checkout[b].makes \cap run.set
             e == [ver |-> Ver(BuiltRecipe(b)), flags |-> world.flags, fp |-> Fingerprint(b),
                   commit |-> BuiltRecipe(b).v, builtWith |-> Current]
             old == [e EXCEPT !.fp = Older, !.builtWith = Older]
             mine == IF b \in Toolchain THEN old ELSE e
  <1>1. /\ run.phase = "building"
        /\ run \in Running /\ WorldTyped /\ RecordsInv
        /\ SetInv /\ SyncInv /\ CheckInv /\ DriftInv /\ PlanInv /\ BuildInv
    BY BuildingKnows DEF BuildInstalls
  <1>2. /\ installed' = [n \in Names |-> IF n \in made THEN e.ver ELSE installed[n]]
        /\ record' = [n \in Names |->
                         CASE n \in made -> IF b \in Toolchain THEN old ELSE e
                           [] n \notin made /\ b \in Toolchain -> Outdated[n]
                           [] OTHER -> record[n]]
        /\ sidecar' = [sidecar EXCEPT ![b] = None]
        /\ run' = [run EXCEPT !.built = @ \cup {b}, !.fp = IF b \in Toolchain THEN Older ELSE @]
        /\ UNCHANGED <<kind, source, checkout, world, settled>>
        /\ b \in run.plan \ (run.built \cup run.failed)
    BY DEF BuildInstalls, Turn, Left
  <1>3. /\ b \in InSet /\ b \notin DOMAIN run.fails /\ kind[b] # "pacman"
        /\ made \subseteq MembersOf[b] /\ made \subseteq Names /\ MembersOf[b] \subseteq Names
    BY <1>1, <1>2 DEF PlanInv, WorldTyped, Names
  <1>4. /\ BuiltRecipe(b) \in Recipe /\ BuiltRecipe(b).v \in Nat /\ BuiltRecipe(b).r \in 0..1
        /\ e.ver = 2 * BuiltRecipe(b).v + BuiltRecipe(b).r /\ e.ver \in Nat /\ e.ver # None
        /\ Sure => BuiltRecipe(b) = source[b]
    <2>1. source[b] \in Recipe /\ checkout[b] \in Recipe
      BY <1>1 DEF WorldTyped
    <2>2. BuiltRecipe(b) \in Recipe
      BY <2>1 DEF BuiltRecipe, Recipe
    <2>3. Sure => checkout[b] = source[b]
      BY <1>1, <1>3 DEF SyncInv
    <2>4. [source[b] EXCEPT !.v = source[b].v] = source[b]
      BY <2>1 DEF Recipe
    <2>5. Sure => BuiltRecipe(b) = source[b]
      BY <2>3, <2>4 DEF BuiltRecipe
    <2>6. BuiltRecipe(b).v \in Nat /\ BuiltRecipe(b).r \in 0..1
      BY <2>2 DEF Recipe
    <2>7. e.ver = 2 * BuiltRecipe(b).v + BuiltRecipe(b).r
      BY DEF Ver
    <2>8. e.ver \in Nat
      BY <2>6, <2>7
    <2> HIDE DEF e
    <2> QED
      BY <2>2, <2>5, <2>6, <2>7, <2>8, PackagesApart
  <1>5. /\ e \in Entry /\ old \in Entry /\ mine \in Entry /\ mine.fp = mine.builtWith
        /\ mine.ver = e.ver /\ mine.commit = BuiltRecipe(b).v /\ mine.flags = world.flags
        /\ b \notin Toolchain => mine.fp = Current
    <2>1. Fingerprint(b) \in 0..1 /\ (b \notin Toolchain => Fingerprint(b) = Current)
      BY <1>1, <1>2, FingerprintIs DEF Fingerprint, Running, Current
    <2>2. e \in Entry
      BY <1>1, <1>4, <2>1 DEF Entry, WorldTyped, Current
    <2>3. old \in Entry
      BY <2>2, AgedIs
    <2> QED
      BY <2>1, <2>2, <2>3
  <1>6. \A n \in Names : /\ n \in made => installed'[n] = e.ver /\ record'[n] = mine
                         /\ n \notin made => installed'[n] = installed[n]
                         /\ n \notin made => record'[n] = IF b \in Toolchain THEN Outdated[n] ELSE record[n]
    BY <1>2
  <1>7. \A n \in Names : /\ Outdated[n] \in Entry \cup {None}
                         /\ Outdated[n] # None => /\ record[n] # None
                                                  /\ Outdated[n].ver = record[n].ver
                                                  /\ Outdated[n].commit = record[n].commit
                                                  /\ Outdated[n].fp = Older /\ Outdated[n].builtWith = Older
    BY <1>1, OutdatedIs
  <1> HIDE DEF e, old, mine, made
  <1>8. WorldTyped'
    <2>1. installed' \in [Names -> Nat \cup {None}]
      <3>1. \A n \in Names : installed'[n] \in Nat \cup {None}
        BY <1>1, <1>4, <1>6 DEF WorldTyped
      <3> QED
        BY <1>2, <3>1
    <2>2. record' \in [Names -> Entry \cup {None}]
      <3>1. \A n \in Names : record'[n] \in Entry \cup {None}
        BY <1>1, <1>5, <1>6, <1>7 DEF WorldTyped
      <3> QED
        BY <1>2, <3>1
    <2>3. sidecar' \in [Bases -> (SUBSET Names) \cup {None}]
      BY <1>1, <1>2 DEF WorldTyped
    <2> QED
      BY <1>1, <1>2, <2>1, <2>2, <2>3 DEF WorldTyped
  <1>9. RecordsInv'
    <2>1. ASSUME NEW n \in Names, record'[n] # None
          PROVE  /\ record'[n].ver \in {2 * record'[n].commit, 2 * record'[n].commit + 1}
                 /\ record'[n].fp = record'[n].builtWith
      <3>1. CASE n \in made
        <4>1. record'[n] = mine /\ mine # None
          BY <1>6, <2>1, <3>1
        <4>2. mine.ver = 2 * mine.commit + BuiltRecipe(b).r /\ BuiltRecipe(b).r \in {0, 1} /\ mine.commit \in Nat
          BY <1>4, <1>5
        <4>3. mine.ver \in {2 * mine.commit, 2 * mine.commit + 1}
          <5>1. CASE BuiltRecipe(b).r = 0
            BY <4>2, <5>1
          <5>2. CASE BuiltRecipe(b).r = 1
            BY <4>2, <5>2
          <5> QED
            BY <4>2, <5>1, <5>2
        <4> QED
          BY <1>5, <4>1, <4>3
      <3>2. CASE n \notin made /\ b \in Toolchain
        BY <1>1, <1>6, <1>7, <2>1, <3>2 DEF RecordsInv
      <3>3. CASE n \notin made /\ b \notin Toolchain
        BY <1>1, <1>6, <2>1, <3>3 DEF RecordsInv, RecordTellsCompiler
      <3> QED
        BY <3>1, <3>2, <3>3
    <2> QED
      BY <1>1, <1>2, <2>1 DEF RecordsInv, RecordTellsCompiler
  <1>10. /\ run' \in Running /\ run'.phase = "building" /\ run'.built = run.built \cup {b}
         /\ run'.fp = IF b \in Toolchain THEN Older ELSE run.fp
         /\ run'.plan = run.plan /\ run'.upgrade = run.upgrade /\ run'.stale = run.stale
         /\ run'.args = run.args /\ run'.set = run.set /\ run'.calm = run.calm /\ run'.fails = run.fails
         /\ run'.action = run.action /\ run'.failed = run.failed
    <2>1. run' = [run EXCEPT !.built = run.built \cup {b}, !.fp = IF b \in Toolchain THEN Older ELSE run.fp]
      BY <1>2
    <2>2. run.built \cup {b} \in SUBSET Bases /\ (IF b \in Toolchain THEN Older ELSE run.fp) \in 0..1
      BY <1>1 DEF Running, Older
    <2> QED
      BY <1>1, <2>1, <2>2 DEF Running
  <1>11. InSet' = InSet /\ Sure' = Sure /\ (\A c : SetOf(c)' = SetOf(c)) /\ Tried' = Tried \cup {b}
    BY <1>10 DEF InSet, Sure, Complete, SetOf, Tried
  <1>12. ASSUME NEW c \in Bases, c # b, NEW n \in MembersOf[c]
         PROVE  /\ n \in Names /\ installed'[n] = installed[n]
                /\ b \notin Toolchain => record'[n] = record[n]
    <2>1. n \in Names /\ n \notin made
      BY <1>3, <1>12, OthersApart DEF Names
    <2> QED
      BY <1>6, <2>1
  <1>13. SetInv'
    <2>1. \A n \in Names : installed'[n] # None <=> installed[n] # None
      BY <1>1, <1>4, <1>6 DEF SetInv, made
    <2>2. run.set \subseteq Names
      BY <1>1 DEF Running
    <2> QED
      BY <1>1, <1>2, <1>10, <2>1, <2>2 DEF SetInv, Complete
  <1>14. SyncInv' /\ PlanInv'
    BY <1>1, <1>2, <1>10, SyncKept, PlanKept
  <1>15. CheckInv'
    <2>1. ASSUME NEW c \in InSet, c # b, NEW n \in SetOf(c)
          PROVE  installed'[n] = installed[n] /\ (Omitted(c, n)' <=> Omitted(c, n))
      <3>1. c \in Bases /\ \A m \in SetOf(c) : installed'[m] = installed[m]
        BY <1>12, <2>1 DEF InSet, SetOf
      <3>2. sidecar'[c] = sidecar[c]
        BY <1>2, <2>1
      <3> QED
        BY <1>11, <2>1, <3>1, <3>2 DEF Omitted, Overlooked
    <2>2. \A c : Ver(source'[c]) = Ver(source[c])
      BY <1>2
    <2> QED
      BY <1>1, <1>2, <1>10, <1>11, <2>1, <2>2 DEF CheckInv
  <1>16. DriftInv'
    <2> SUFFICES ASSUME run'.fp = Current, NEW c \in InSet \ (run.stale \cup Tried \cup {b}),
                        kind[c] # "pacman", ~Uneven(c)', NEW n \in SetOf(c)
                 PROVE  RecordFits(n)'
      BY <1>1, <1>2, <1>10, <1>11 DEF DriftInv
    <2>1. b \notin Toolchain /\ run.fp = Current
      BY <1>10 DEF Older, Current
    <2>2. c \in Bases /\ c # b /\ SetOf(c) \subseteq MembersOf[c]
      BY DEF InSet, SetOf
    <2>3. \A m \in MembersOf[c] : installed'[m] = installed[m] /\ record'[m] = record[m]
      BY <1>12, <2>1, <2>2
    <2>4. ~Uneven(c)
      BY <2>3 DEF Uneven
    <2>5. RecordFits(n)
      BY <1>1, <2>1, <2>4 DEF DriftInv
    <2> QED
      BY <1>2, <2>2, <2>3, <2>5 DEF RecordFits
  <1>17. BuildInv'
    <2>1. /\ run'.fp = Older => run'.built \cap Toolchain # {}
          /\ run'.fp = Current => run'.built \cap Toolchain = {}
      BY <1>1, <1>10 DEF BuildInv, Older, Current
    <2>2. ASSUME Sure, NEW c \in run'.built, NEW n \in checkout[c].makes \cap run.set
          PROVE  installed'[n] = Ver(source[c]) /\ (run'.fp = Current => RecordFits(n)')
      <3>1. c \in Bases /\ n \in MembersOf[c] /\ n \in Names
        BY <1>1, <1>10, <2>2 DEF BuildInv, PlanInv, InSet, WorldTyped, Running
      <3>2. CASE c = b
        <4>1. n \in made
          BY <2>2, <3>2 DEF made
        <4>2. installed'[n] = Ver(source[c])
          BY <1>4, <1>6, <2>2, <3>1, <3>2, <4>1 DEF e
        <4>3. run'.fp = Current => b \notin Toolchain
          BY <1>10 DEF Older, Current
        <4> QED
          BY <1>2, <1>5, <1>6, <3>1, <4>1, <4>2, <4>3 DEF RecordFits
      <3>3. CASE c # b
        <4>1. c \in run.built /\ installed'[n] = installed[n] /\ (b \notin Toolchain => record'[n] = record[n])
          BY <1>10, <1>12, <3>1, <3>3
        <4>2. installed[n] = Ver(source[c]) /\ (run.fp = Current => RecordFits(n))
          BY <1>1, <2>2, <4>1 DEF BuildInv
        <4>3. run'.fp = Current => b \notin Toolchain /\ run.fp = Current
          BY <1>10 DEF Older, Current
        <4> QED
          BY <1>2, <4>1, <4>2, <4>3 DEF RecordFits
      <3> QED
        BY <3>2, <3>3
    <2>3. run'.built \subseteq run'.plan /\ run'.failed \subseteq run'.plan
      BY <1>1, <1>2, <1>10 DEF BuildInv
    <2>4. \A c : Ver(source'[c]) = Ver(source[c])
      BY <1>2
    <2> QED
      BY <1>2, <1>10, <1>11, <2>1, <2>2, <2>3, <2>4 DEF BuildInv
  <1>18. RunInv'
    BY <1>10, <1>13, <1>14, <1>15, <1>16, <1>17 DEF RunInv, BeforeBuild
  <1>19. settled' => SettledInv'
    BY <1>10 DEF SettledInv, BeforeBuild
  <1> QED
    BY <1>8, <1>9, <1>10, <1>18, <1>19 DEF UpdateInv

\* A failure leaves at most a PKGBUILD of its own base.
LEMMA FailsKept ==
    ASSUME UpdateInv, NEW b \in Bases, BuildFails(b)
    PROVE  UpdateInv'
  <1>1. /\ run.phase = "building"
        /\ run \in Running /\ WorldTyped /\ RecordsInv
        /\ SetInv /\ SyncInv /\ CheckInv /\ DriftInv /\ PlanInv /\ BuildInv
    BY BuildingKnows DEF BuildFails
  <1>2. /\ run' = [run EXCEPT !.failed = run.failed \cup {b}]
        /\ UNCHANGED <<kind, source, checkout, installed, record, world, settled>>
        /\ b \in run.plan \ (run.built \cup run.failed)
    BY DEF BuildFails, Turn, Left
  <1>3. PICK left \in {checkout[b].makes, sidecar[b], None} : sidecar' = [sidecar EXCEPT ![b] = left]
    BY DEF BuildFails
  <1>4. WorldTyped' /\ RecordsInv'
    <2>1. left \in (SUBSET Names) \cup {None}
      BY <1>1 DEF WorldTyped, Names
    <2>2. sidecar' \in [Bases -> (SUBSET Names) \cup {None}]
      BY <1>1, <1>3, <2>1 DEF WorldTyped
    <2> QED
      BY <1>1, <1>2, <2>2 DEF WorldTyped, RecordsInv, RecordTellsCompiler
  <1>5. /\ run' \in Running /\ run'.phase = "building" /\ run'.failed = run.failed \cup {b}
        /\ run'.built = run.built /\ run'.fp = run.fp
        /\ run'.plan = run.plan /\ run'.upgrade = run.upgrade /\ run'.stale = run.stale
        /\ run'.args = run.args /\ run'.set = run.set /\ run'.calm = run.calm /\ run'.fails = run.fails
        /\ run'.action = run.action
    <2>1. run.failed \cup {b} \in SUBSET Bases
      BY <1>1 DEF Running
    <2> QED
      BY <1>1, <1>2, <2>1 DEF Running
  <1>6. InSet' = InSet /\ Sure' = Sure /\ (\A c : SetOf(c)' = SetOf(c)) /\ Tried' = Tried \cup {b}
    BY <1>5 DEF InSet, Sure, Complete, SetOf, Tried
  <1>7. SetInv' /\ SyncInv' /\ PlanInv'
    BY <1>1, <1>2, <1>5, SetKept, SyncKept, PlanKept
  <1>8. CheckInv'
    <2>1. ASSUME NEW c, c # b, NEW n PROVE Omitted(c, n)' <=> Omitted(c, n)
      <3>1. c \in DOMAIN sidecar => sidecar'[c] = sidecar[c]
        BY <1>3, <2>1
      <3>2. c \in Bases => c \in DOMAIN sidecar
        BY <1>1 DEF WorldTyped
      <3> QED
        BY <1>2, <1>3, <1>6, <2>1, <3>1, <3>2 DEF Omitted, Overlooked
    <2>2. \A c : Ver(source'[c]) = Ver(source[c])
      BY <1>2
    <2> QED
      BY <1>1, <1>2, <1>5, <1>6, <2>1, <2>2 DEF CheckInv
  <1>9. DriftInv'
    <2>1. /\ \A c : Uneven(c)' <=> Uneven(c)
          /\ \A n : RecordFits(n)' <=> RecordFits(n)
      BY <1>2 DEF Uneven, RecordFits
    <2> QED
      BY <1>1, <1>2, <1>5, <1>6, <2>1 DEF DriftInv
  <1>10. BuildInv'
    <2>1. \A n : RecordFits(n)' <=> RecordFits(n)
      BY <1>2 DEF RecordFits
    <2>2. \A c : Ver(source'[c]) = Ver(source[c])
      BY <1>2
    <2> QED
      BY <1>1, <1>2, <1>5, <1>6, <2>1, <2>2 DEF BuildInv
  <1>11. RunInv'
    BY <1>5, <1>7, <1>8, <1>9, <1>10 DEF RunInv, BeforeBuild
  <1>12. settled' => SettledInv'
    BY <1>5 DEF SettledInv, BeforeBuild
  <1> QED
    BY <1>4, <1>5, <1>11, <1>12 DEF UpdateInv

\* pacman upgrades its own packages only, and exit code 0 tells that it did.
LEMMA ReportKept ==
    ASSUME UpdateInv, Report
    PROVE  UpdateInv'
  <1>1. /\ run.phase = "building"
        /\ run \in Running /\ WorldTyped /\ RecordsInv
        /\ SetInv /\ SyncInv /\ CheckInv /\ DriftInv /\ PlanInv /\ BuildInv
    BY BuildingKnows DEF Report
  <1>2. /\ UNCHANGED <<kind, source, checkout, sidecar, record, world, settled>>
        /\ \E upgraded \in IF run.upgrade = {} THEN {TRUE} ELSE BOOLEAN :
             /\ installed' = [n \in Names |-> IF upgraded /\ \E b \in run.upgrade : n \in MembersOf[b] /\ installed[n] # None
                                              THEN Ver(source[CHOOSE b \in Bases : n \in MembersOf[b]])
                                              ELSE installed[n]]
             /\ run' = [run EXCEPT !.phase = "done", !.code = ExitCode(upgraded)]
    BY DEF Report
  <1>3. PICK upgraded \in BOOLEAN :
           /\ installed' = [n \in Names |-> IF upgraded /\ \E b \in run.upgrade : n \in MembersOf[b] /\ installed[n] # None
                                            THEN Ver(source[CHOOSE b \in Bases : n \in MembersOf[b]])
                                            ELSE installed[n]]
           /\ run' = [run EXCEPT !.phase = "done", !.code = ExitCode(upgraded)]
    BY <1>2
  <1>4. /\ ExitCode(upgraded) \in {0, 1} /\ (ExitCode(upgraded) = 0 => upgraded)
    BY DEF ExitCode
  <1>5. /\ run' \in Running /\ run'.phase = "done" /\ run'.code = ExitCode(upgraded)
        /\ run'.built = run.built /\ run'.failed = run.failed /\ run'.fp = run.fp
        /\ run'.plan = run.plan /\ run'.upgrade = run.upgrade /\ run'.stale = run.stale
        /\ run'.args = run.args /\ run'.set = run.set /\ run'.calm = run.calm /\ run'.fails = run.fails
        /\ run'.action = run.action
    BY <1>1, <1>3, <1>4 DEF Running, Stages
  <1>6. InSet' = InSet /\ Sure' = Sure /\ (\A c : SetOf(c)' = SetOf(c)) /\ Tried' = Tried
    BY <1>5 DEF InSet, Sure, Complete, SetOf, Tried
  <1>7. \A b \in Bases : MembersOf[b] \subseteq Names /\ Ver(source[b]) \in Nat /\ Ver(source[b]) # None
    <2>1. \A b \in Bases : Ver(source[b]) \in Nat
      BY <1>1, VersionsAre
    <2> QED
      BY <2>1, PackagesApart DEF Names
  <1>8. ASSUME NEW b \in Bases, NEW n \in MembersOf[b]
        PROVE  /\ b \notin run.upgrade => installed'[n] = installed[n]
               /\ b \in run.upgrade /\ installed[n] # None /\ upgraded => installed'[n] = Ver(source[b])
               /\ installed'[n] \in {installed[n], Ver(source[b])}
               /\ installed'[n] # None <=> installed[n] # None
    <2>1. \A c \in Bases : n \in MembersOf[c] => c = b
      BY OthersApart
    <2>2. (CHOOSE c \in Bases : n \in MembersOf[c]) = b
      BY <2>1
    <2>3. run.upgrade \subseteq Bases
      BY <1>1 DEF Running
    <2>4. n \in Names
      BY <1>7
    <2>5. installed'[n] = IF upgraded /\ b \in run.upgrade /\ installed[n] # None
                          THEN Ver(source[b]) ELSE installed[n]
      BY <1>3, <2>1, <2>2, <2>3, <2>4
    <2> QED
      BY <1>7, <2>5
  <1>9. WorldTyped' /\ RecordsInv'
    <2>1. ASSUME NEW n \in Names PROVE installed'[n] \in Nat \cup {None}
      <3>1. PICK b \in Bases : n \in MembersOf[b]
        BY DEF Names
      <3> QED
        BY <1>1, <1>7, <1>8, <3>1 DEF WorldTyped
    <2>2. installed' \in [Names -> Nat \cup {None}]
      BY <1>3, <2>1
    <2> QED
      BY <1>1, <1>2, <2>2 DEF WorldTyped, RecordsInv, RecordTellsCompiler
  <1>10. SetInv'
    <2>1. \A n \in Names : installed'[n] # None <=> installed[n] # None
      BY <1>8 DEF Names
    <2>2. run.set \subseteq Names
      BY <1>1 DEF Running
    <2> QED
      BY <1>1, <1>2, <1>5, <2>1, <2>2 DEF SetInv, Complete
  <1>11. SyncInv' /\ PlanInv'
    BY <1>1, <1>2, <1>5, SyncKept, PlanKept
  <1>12. \A c : Ver(source'[c]) = Ver(source[c])
    BY <1>2
  <1>13. CheckInv'
    <2>1. ASSUME NEW c \in InSet, c \notin run.upgrade, NEW n \in SetOf(c)
          PROVE  installed'[n] = installed[n] /\ (Omitted(c, n)' <=> Omitted(c, n))
      <3>1. c \in Bases /\ \A m \in SetOf(c) : installed'[m] = installed[m]
        BY <1>8, <2>1 DEF InSet, SetOf
      <3> QED
        BY <1>2, <1>6, <2>1, <3>1 DEF Omitted, Overlooked
    <2>2. \A c \in InSet : run.action[c] \in {"UP_TO_DATE", "DOWNGRADE"} => c \notin run.upgrade
      BY <1>1 DEF PlanInv
    <2>3. kind' = kind /\ run'.action = run.action /\ run'.fails = run.fails
      BY <1>2, <1>5
    <2>4. ASSUME Sure, NEW b \in InSet \ DOMAIN run.fails, b \notin Tried, NEW n \in SetOf(b)
          PROVE  /\ run.action[b] = "UP_TO_DATE" => installed'[n] >= Ver(source'[b]) \/ Omitted(b, n)'
                 /\ run.action[b] = "DOWNGRADE" => installed'[n] > Ver(source'[b]) \/ Omitted(b, n)'
      <3>1. /\ run.action[b] = "UP_TO_DATE" => installed[n] >= Ver(source[b]) \/ Omitted(b, n)
            /\ run.action[b] = "DOWNGRADE" => installed[n] > Ver(source[b]) \/ Omitted(b, n)
        BY <1>1, <2>4 DEF CheckInv
      <3>2. run.action[b] \in {"UP_TO_DATE", "DOWNGRADE"} =>
               installed'[n] = installed[n] /\ (Omitted(b, n)' <=> Omitted(b, n))
        BY <2>1, <2>2, <2>4
      <3> QED
        BY <1>12, <3>1, <3>2
    <2>5. /\ run.action \in [InSet -> Verdicts]
          /\ \A b \in InSet : /\ kind[b] = "pacman" => run.action[b] # "NEEDS_REBUILD"
                              /\ run.action[b] = "NEEDS_PACMAN_UPGRADE" => kind[b] = "pacman"
          /\ Sure => \A b \in InSet \ DOMAIN run.fails : run.action[b] \notin {"DEVEL", "FROZEN", "PULL_FAILED"}
      BY <1>1 DEF CheckInv
    <2> QED
      BY <1>6, <2>3, <2>4, <2>5 DEF CheckInv
  <1>14. DriftInv'
    <2> SUFFICES ASSUME run.fp = Current, NEW c \in InSet \ (run.stale \cup Tried),
                        kind[c] # "pacman", ~Uneven(c)', NEW n \in SetOf(c)
                 PROVE  RecordFits(n)'
      BY <1>1, <1>2, <1>5, <1>6 DEF DriftInv
    <2>1. c \in Bases /\ c \notin run.upgrade
      BY <1>1 DEF InSet, PlanInv, CheckInv
    <2>2. \A m \in MembersOf[c] : installed'[m] = installed[m]
      BY <1>8, <2>1
    <2>3. ~Uneven(c)
      BY <1>2, <2>2 DEF Uneven
    <2>4. RecordFits(n)
      BY <1>1, <2>3 DEF DriftInv
    <2> QED
      BY <1>2, <2>4 DEF RecordFits
  <1>15. BuildInv'
    <2>1. \A n : RecordFits(n)' <=> RecordFits(n)
      BY <1>2 DEF RecordFits
    <2>2. ASSUME NEW c \in run.built, NEW n \in checkout[c].makes PROVE installed'[n] = installed[n]
      <3>1. c \in Bases /\ n \in MembersOf[c] /\ c \notin run.upgrade
        BY <1>1, <2>2 DEF BuildInv, PlanInv, InSet, WorldTyped
      <3> QED
        BY <1>8, <3>1
    <2> QED
      BY <1>1, <1>2, <1>5, <1>6, <1>12, <2>1, <2>2 DEF BuildInv
  <1>16. DoneInv'
    <2> SUFFICES ASSUME run'.code = 0, NEW b \in run.upgrade, NEW n \in SetOf(b)
                 PROVE  installed'[n] = Ver(source[b])
      BY <1>2, <1>5, <1>6, <1>12 DEF DoneInv
    <2>1. upgraded
      BY <1>4, <1>5
    <2>2. b \in Bases /\ n \in MembersOf[b] /\ installed[n] # None
      BY <1>1 DEF Running, SetOf, SetInv
    <2> QED
      BY <1>8, <2>1, <2>2
  <1>17. RunInv'
    BY <1>5, <1>10, <1>11, <1>13, <1>14, <1>15, <1>16 DEF RunInv, BeforeBuild
  <1>18. settled' => SettledInv'
    BY <1>5 DEF SettledInv, BeforeBuild
  <1> QED
    BY <1>5, <1>9, <1>17, <1>18 DEF UpdateInv

\* What a complete run that did all it planned leaves, the next one finds tended.
LEMMA ExitKept ==
    ASSUME UpdateInv, Exit
    PROVE  UpdateInv'
  <1>1. /\ run \in Running /\ run.phase = "done" /\ WorldTyped /\ RecordsInv /\ WorldSame
        /\ SetInv /\ SyncInv /\ CheckInv /\ DriftInv /\ PlanInv /\ BuildInv /\ DoneInv
        /\ run' = Idle /\ run'.phase = "idle"
        /\ settled' = (Complete /\ run.calm /\ Unfinished = {} /\ run.code = 0 /\ run.fp = Current)
    BY DEF UpdateInv, Exit, Idle, WorldSame, RunInv, AssembledOn, SyncedOn, CheckedOn, DriftOn, PlannedOn
  <1>2. WorldTyped' /\ RecordsInv'
    BY <1>1, WorldKept DEF WorldTyped
  <1>3. settled' => \A b \in Bases : Tended(b)
    <2> SUFFICES ASSUME settled', NEW b \in Bases, LiveOf(b) # {}, kind[b] # "pacman" PROVE Tended(b)
      BY DEF Tended
    <2>1. Sure /\ Complete /\ run.args.rebuild /\ Unfinished = {} /\ run.fp = Current
      BY <1>1 DEF Sure, Complete
    <2>2. LiveOf(b) = SetOf(b) /\ b \in InSet
      BY <1>1, <2>1 DEF SetInv, LiveOf, SetOf, InSet, Names
    <2>3. DOMAIN run.fails = {} /\ run.plan = run.built
      BY <1>1, <2>1 DEF Unfinished, BuildInv
    <2>4. checkout[b] = source[b]
      BY <1>1, <2>1, <2>2, <2>3 DEF SyncInv
    <2>5. ASSUME Plainly(b), NEW n \in SetOf(b)
          PROVE  installed[n] > Ver(source[b]) \/ (installed[n] = Ver(source[b]) /\ RecordFits(n))
      <3>0. n \in Names /\ installed[n] # None /\ installed[n] \in Nat /\ Ver(source[b]) \in Nat /\ n \in MembersOf[b]
        BY <1>1, VersionsAre DEF SetInv, SetOf, WorldTyped, Names
      <3>1. CASE b \in run.built
        <4>1. n \in checkout[b].makes \cap run.set
          BY <2>5, <3>0 DEF Plainly, Dropped, SetOf
        <4> QED
          BY <1>1, <2>1, <3>1, <4>1 DEF BuildInv
      <3>2. CASE b \notin run.built
        <4>1. b \notin run.plan /\ b \notin Tried
          BY <1>1, <2>3, <3>2 DEF BuildInv, Tried
        <4>2. run.action[b] \notin {"DEVEL_EVAL_FAILED", "SKIPPED_NO_CHECKUPDATES"}
          BY <1>1, <2>1, <2>2 DEF Unfinished, CheckInv
        <4>3. run.action[b] \in {"UP_TO_DATE", "DOWNGRADE"}
          BY <1>1, <2>1, <2>2, <2>3, <2>5, <4>1, <4>2 DEF CheckInv, PlanInv, Plainly, Verdicts
        <4>4. ~Omitted(b, n)
          BY <1>1, <2>5 DEF Omitted, Plainly, Uneven, SetOf, SetInv
        <4>5. CASE run.action[b] = "DOWNGRADE"
          BY <1>1, <2>1, <2>2, <2>3, <4>1, <4>4, <4>5 DEF CheckInv
        <4>6. CASE run.action[b] = "UP_TO_DATE"
          <5>1. installed[n] >= Ver(source[b])
            BY <1>1, <2>1, <2>2, <2>3, <4>1, <4>4, <4>6 DEF CheckInv
          <5>2. b \notin run.stale
            BY <1>1, <2>1, <2>2, <2>3, <2>5, <4>1, <4>6 DEF PlanInv, Plainly
          <5>3. RecordFits(n)
            BY <1>1, <2>1, <2>2, <2>5, <4>1, <5>2 DEF DriftInv, Plainly
          <5> QED
            BY <3>0, <5>1, <5>3
        <4> QED
          BY <4>3, <4>5, <4>6
      <3> QED
        BY <3>1, <3>2
    <2> QED
      BY <2>2, <2>4, <2>5 DEF Tended
  <1>4. settled' => SettledInv'
    <2> SUFFICES ASSUME settled' PROVE SettledInv'
      OBVIOUS
    <2>1. (\A b \in Bases : Tended(b))'
      BY <1>1, <1>3, TendedKept DEF WorldSame
    <2> QED
      BY <1>1, <2>1 DEF SettledInv
  <1> QED
    BY <1>1, <1>2, <1>4 DEF UpdateInv

-----------------------------------------------------------------------------
(* The world's changes.                                                    *)

\* Upstream's release unsettles: what a run has found no longer holds of it.
LEMMA ReleaseKept ==
    ASSUME UpdateInv, NEW b \in Bases, Release(b)
    PROVE  UpdateInv'
  <1>1. /\ WorldTyped /\ RecordsInv /\ settled' = FALSE
        /\ UNCHANGED <<kind, checkout, sidecar, installed, record, world>>
        /\ run' = IF run.phase = "idle" THEN run ELSE [run EXCEPT !.calm = FALSE]
    BY DEF UpdateInv, Release, Change
  <1>2. PICK s \in Recipes(b) : source' = [source EXCEPT ![b] = s]
    BY DEF Release
  <1>3. s \in Recipe /\ s.makes \subseteq MembersOf[b]
    BY UpdateAssumption DEF Recipes, Recipe, Names
  <1>4. WorldTyped' /\ RecordsInv'
    <2>1. source' \in [Bases -> Recipe] /\ \A c \in Bases : source'[c].makes \subseteq MembersOf[c]
      BY <1>1, <1>2, <1>3 DEF WorldTyped
    <2> QED
      BY <1>1, <2>1 DEF WorldTyped, RecordsInv, RecordTellsCompiler
  <1>5. CASE run.phase = "idle"
    BY <1>1, <1>4, <1>5 DEF UpdateInv, Idle
  <1>6. CASE run.phase # "idle"
    <2>1. run \in Running /\ RunInv /\ run' = [run EXCEPT !.calm = FALSE]
      BY <1>1, <1>6 DEF UpdateInv, Idle
    <2>2. /\ run' \in Running /\ run'.phase = run.phase /\ run'.calm = FALSE /\ ~Sure'
          /\ run'.built = run.built /\ run'.failed = run.failed /\ run'.fp = run.fp
          /\ run'.plan = run.plan /\ run'.upgrade = run.upgrade /\ run'.stale = run.stale
          /\ run'.args = run.args /\ run'.set = run.set /\ run'.fails = run.fails
          /\ run'.action = run.action
      BY <2>1 DEF Running, Sure
    <2>3. InSet' = InSet
      BY <2>2 DEF InSet
    <2>4. SetInv => SetInv'
      BY <1>1, <2>2, SetKept
    <2>5. SyncInv => SyncInv'
      BY <2>2 DEF SyncInv
    <2>6. CheckInv => CheckInv'
      BY <1>1, <2>2, <2>3 DEF CheckInv
    <2>7. DriftInv => DriftInv'
      BY <1>1, <2>2, DriftKept
    <2>8. PlanInv => PlanInv'
      BY <1>1, <2>2, PlanKept
    <2>9. BuildInv => BuildInv'
      BY <2>2 DEF BuildInv
    <2>10. DoneInv'
      BY <2>2 DEF DoneInv
    <2>11. RunInv'
      BY <2>1, <2>2, <2>4, <2>5, <2>6, <2>7, <2>8, <2>9, <2>10 DEF RunInv
    <2> QED
      BY <1>1, <1>4, <2>2, <2>11 DEF UpdateInv
  <1> QED
    BY <1>5, <1>6

\* What is done by hand waits for the run to end, and unsettles.
LEMMA ByHandKept ==
    ASSUME UpdateInv, Edit \/ \E b \in Bases, n \in Names : Reinstall(n, b)
    PROVE  UpdateInv'
  <1>1. /\ WorldTyped /\ RecordsInv /\ settled' = FALSE
        /\ run.phase = "idle" /\ run' = run /\ UNCHANGED <<kind, source, checkout, sidecar>>
    BY DEF UpdateInv, Edit, Reinstall, Change
  <1>2. WorldTyped' /\ RecordsInv'
    <2>1. CASE \E b \in Bases, n \in Names : Reinstall(n, b)
      <3>1. PICK b \in Bases, n \in Names : /\ installed' = [installed EXCEPT ![n] = Ver(source[b])]
                                            /\ record' = [record EXCEPT ![n] = None] /\ world' = world
        BY <2>1 DEF Reinstall
      <3>2. Ver(source[b]) \in Nat
        BY <1>1, VersionsAre
      <3>3. installed' \in [Names -> Nat \cup {None}]
        BY <1>1, <3>1, <3>2 DEF WorldTyped
      <3>4. record' \in [Names -> Entry \cup {None}] /\ \A m \in Names : record'[m] \in {record[m], None}
        BY <1>1, <3>1 DEF WorldTyped
      <3> QED
        BY <1>1, <3>1, <3>3, <3>4 DEF WorldTyped, RecordsInv, RecordTellsCompiler
    <2>2. CASE Edit /\ record' = record
      <3>1. /\ installed' = installed
            /\ world' \in {[world EXCEPT !.flags = 1 - world.flags]}
                          \cup {[world EXCEPT !.optedOut = MembersOf[b]] : b \in Bases} \/ world' = world
        BY <2>2 DEF Edit
      <3>2. world \in [flags : 0..1, optedOut : SUBSET Names]
        BY <1>1 DEF WorldTyped
      <3>3. CASE world' = [world EXCEPT !.flags = 1 - world.flags] \/ world' = world
        <4>1. world' \in [flags : 0..1, optedOut : SUBSET Names] /\ world'.optedOut = world.optedOut
          BY <3>2, <3>3
        <4> QED
          BY <1>1, <2>2, <3>1, <4>1 DEF WorldTyped, RecordsInv, RecordTellsCompiler
      <3>4. CASE \E b \in Bases : world' = [world EXCEPT !.optedOut = MembersOf[b]]
        <4>1. PICK b \in Bases : world' = [world EXCEPT !.optedOut = MembersOf[b]]
          BY <3>4
        <4>2. world' \in [flags : 0..1, optedOut : SUBSET Names] /\ world'.optedOut = MembersOf[b]
          BY <3>2, <4>1 DEF Names
        <4>3. \A c \in Bases : MembersOf[c] \subseteq world'.optedOut \/ MembersOf[c] \cap world'.optedOut = {}
          BY <4>2, PackagesApart
        <4> QED
          BY <1>1, <2>2, <3>1, <4>2, <4>3 DEF WorldTyped, RecordsInv, RecordTellsCompiler
      <3> QED
        BY <3>1, <3>3, <3>4
    <2>3. CASE Edit /\ record' = Outdated /\ world' = world
      <3>1. installed' = installed
        BY <2>3 DEF Edit
      <3>2. record' \in [Names -> Entry \cup {None}]
        <4>1. \A n \in Names : record'[n] \in Entry \cup {None}
          BY <1>1, <2>3, OutdatedIs
        <4>2. record' = [n \in Names |-> record'[n]]
          BY <1>1, <2>3 DEF Outdated, WorldTyped
        <4> QED
          BY <4>1, <4>2
      <3>3. \A n \in Names : record'[n] # None =>
                /\ record'[n].ver \in {2 * record'[n].commit, 2 * record'[n].commit + 1}
                /\ record'[n].fp = record'[n].builtWith
        BY <1>1, <2>3, OutdatedIs DEF RecordsInv
      <3> QED
        BY <1>1, <2>3, <3>1, <3>2, <3>3 DEF WorldTyped, RecordsInv, RecordTellsCompiler
    <2> QED
      BY <2>1, <2>2, <2>3 DEF Edit
  <1>3. run'.phase = "idle" /\ run' \in {Idle} \cup Running
    BY <1>1 DEF UpdateInv
  <1> QED
    BY <1>1, <1>2, <1>3 DEF UpdateInv

\* A stutter leaves everything.
LEMMA UpdateStays ==
    ASSUME UpdateInv, UNCHANGED vars
    PROVE  UpdateInv'
  <1>1. WorldSame /\ UNCHANGED <<run, settled>>
    BY DEF vars, WorldSame
  <1>2. WorldTyped' /\ RecordsInv' /\ run' \in {Idle} \cup Running
    BY <1>1, WorldKept DEF UpdateInv, WorldTyped
  <1>3. run.phase # "idle" => RunInv'
    <2> SUFFICES ASSUME run.phase # "idle" PROVE RunInv'
      OBVIOUS
    <2>1. RunInv
      BY DEF UpdateInv
    <2>2. /\ SetInv => SetInv'
          /\ SyncInv => SyncInv'
          /\ CheckInv => CheckInv'
          /\ DriftInv => DriftInv'
          /\ PlanInv => PlanInv'
      BY <1>1, SetKept, SyncKept, CheckKept, DriftKept, PlanKept DEF WorldSame
    <2>3. /\ BuildInv => BuildInv'
          /\ DoneInv => DoneInv'
      BY <1>1 DEF WorldSame, BuildInv, DoneInv, Sure, Complete, RecordFits, SetOf, Ver
    <2> QED
      BY <1>1, <2>1, <2>2, <2>3 DEF RunInv
  <1>4. settled => SettledInv'
    <2> SUFFICES ASSUME settled PROVE SettledInv'
      OBVIOUS
    <2>1. SettledInv
      BY DEF UpdateInv
    <2>2. (\A b \in Bases : Tended(b)) => (\A b \in Bases : Tended(b))'
      BY <1>1, TendedKept DEF WorldSame
    <2>3. InSet' = InSet /\ \A b : SetOf(b)' = SetOf(b)
      BY <1>1 DEF InSet, SetOf
    <2> QED
      BY <1>1, <2>1, <2>2, <2>3, SaidKept DEF SettledInv
  <1> QED
    BY <1>1, <1>2, <1>3, <1>4 DEF UpdateInv

\* The invariant of the update holds.
THEOREM UpdateHolds == Spec => []UpdateInv
  <1>1. UpdateInv /\ [Next]_vars => UpdateInv'
    <2> SUFFICES ASSUME UpdateInv, [Next]_vars PROVE UpdateInv'
      OBVIOUS
    <2>1. CASE Next
      <3>1. CASE \E b \in Bases : Release(b) \/ BuildInstalls(b) \/ BuildFails(b)
        BY <3>1, ReleaseKept, InstallsKept, FailsKept
      <3>2. CASE Edit \/ \E b \in Bases, n \in Names : Reinstall(n, b)
        BY <3>2, ByHandKept
      <3>3. CASE \E args \in Args : Start(args)
        BY <3>3, StartKept
      <3>4. CASE Phases
        BY <3>4, AssembleKept, SourcesKept, CheckIsKept, DriftIsKept, PlanIsKept, AnswerKept, ReportKept, ExitKept
           DEF Phases
      <3> QED
        BY <2>1, <3>1, <3>2, <3>3, <3>4 DEF Next
    <2>2. CASE UNCHANGED vars
      BY <2>2, UpdateStays
    <2> QED
      BY <2>1, <2>2
  <1> QED
    BY <1>1, UpdateInit, PTL DEF Spec

\* A complete run that left nothing undone has settled: whatever the bases, the
\* next one plans only what a recipe dropped or what is not of one build.
THEOREM Settles == Spec => []UpdateSettles
  <1>1. UpdateInv => UpdateSettles
    BY DEF UpdateInv, SettledInv, UpdateSettles
  <1> QED
    BY <1>1, UpdateHolds, PTL

\* Exit code 0 and the records tell what the run did (update.py's report, and
\* the fingerprint a record takes while a run installs another compiler).
THEOREM ReportsTruly == Spec => []ReportIsTrue
  <1>1. UpdateInv => ReportIsTrue
    <2> SUFFICES ASSUME UpdateInv PROVE ZeroMeansBuilt
      BY DEF UpdateInv, RecordsInv, ReportIsTrue
    <2> SUFFICES ASSUME run.phase = "done", run.code = 0, Sure, ~run.declined,
                        NEW b \in InSet \ Unfinished, NEW n \in SetOf(b)
                 PROVE  installed[n] >= Ver(source[b]) \/ n \notin checkout[b].makes \/ Overlooked(b, n)
      BY DEF ZeroMeansBuilt, Sure, SetOf
    <2>1. /\ run \in Running /\ WorldTyped /\ SetInv /\ SyncInv /\ CheckInv /\ PlanInv /\ BuildInv /\ DoneInv
      BY DEF UpdateInv, Idle, RunInv, AssembledOn, SyncedOn, CheckedOn, DriftOn, PlannedOn
    <2>2. b \in Bases /\ b \notin DOMAIN run.fails /\ (b \in run.plan => b \in run.built)
          /\ run.action[b] \notin {"DEVEL_EVAL_FAILED", "SKIPPED_NO_CHECKUPDATES"}
      BY <2>1 DEF Unfinished, InSet, CheckInv
    <2>3. installed[n] \in Nat /\ Ver(source[b]) \in Nat
      BY <2>1, <2>2, VersionsAre DEF SetOf, SetInv, WorldTyped, Names
    <2>4. CASE b \in run.plan
      BY <2>1, <2>2, <2>3, <2>4 DEF BuildInv, SetOf
    <2>5. CASE b \in run.upgrade
      BY <2>1, <2>3, <2>5 DEF DoneInv
    <2>6. CASE b \notin run.plan \cup run.upgrade
      <3>1. b \notin Tried
        BY <2>1, <2>6 DEF BuildInv, Tried
      <3>2. run.action[b] \in {"UP_TO_DATE", "DOWNGRADE"}
        BY <2>1, <2>2, <2>6 DEF CheckInv, PlanInv, Verdicts
      <3>3. installed[n] >= Ver(source[b]) \/ installed[n] > Ver(source[b]) \/ Omitted(b, n)
        BY <2>1, <2>2, <3>1, <3>2 DEF CheckInv
      <3> QED
        BY <2>3, <3>3 DEF Omitted
    <2> QED
      BY <2>4, <2>5, <2>6
  <1> QED
    BY <1>1, UpdateHolds, PTL

-----------------------------------------------------------------------------
(* What is maintained, and the operator's decisions about it.              *)

OwnEntry   == {Untracked, "conflict", "coexist", "marker"}
StockEntry == {Untracked, "plain", "demoted", "marker"}
Forgetting == [pc : {"optout", "forget", "restock"}, verb : {"forget", "uninstall", "revert"},
               names : SUBSET Package, asked : SUBSET Package]

TrackTyped ==
    /\ pkgbase \in Member \cup {Untracked} /\ given \subseteq Package /\ asked \subseteq Package
    /\ present \in [Package -> {"none", "repo", "own"}] /\ \A m \in Member : present[Own(m)] # "repo"
    /\ entry \in [Package -> OwnEntry \cup StockEntry]
    /\ \A m \in Member : entry[Own(m)] \in OwnEntry /\ entry[Stock(m)] \in StockEntry
    /\ task.pc \in {"idle", "optout", "forget", "restock", "clear", "build", "planned"}
    /\ task.pc \in {"optout", "forget", "restock"} => task \in Forgetting

(* What was given up is covered by a decision, and a decision covers nothing *)
(* else but the pkgbase it is filed under.                                   *)
CoverInv ==
    /\ \A p \in given : Covered(p)
    /\ \A b \in DOMAIN optedOut :
          b \in optedOut[b] /\ optedOut[b] \subseteq given \cup {Base} /\ optedOut[b] \cap given # {}

(* A revert that acts has reinstalled what it was asked for before it files  *)
(* the decision; what it leaves beside it is no part of what is forgotten.   *)
StockAgain(p) ==
    /\ present[Stock(p.of)] = "repo"
    /\ present[Own(p.of)] = "own" => entry[Own(p.of)] = "coexist" /\ Own(p.of) \notin ToForget(task.names)
RevertInv ==
    /\ asked # {} => task.pc = "idle" \/ (task.pc \in {"optout", "forget"} /\ task.verb = "forget")
    /\ task.pc \in {"optout", "forget"} =>
          /\ task.verb # "revert" => task.asked = {}
          /\ \A p \in task.asked : StockAgain(p)
    /\ task.pc = "restock" =>
          /\ task.verb = "revert"
          /\ \A p \in task.asked : p \in {Base, Own(pkgbase)} /\ pkgbase \in Member
          /\ task.asked # {} => \E q \in Package : /\ task.names = {q} /\ entry[q] = "coexist" /\ present[q] = "none"
                                                   /\ Siblings(q) = {q}

TrackInv == TrackTyped /\ CoverInv /\ RevertInv /\ DecisionHolds /\ RevertedIsStock

LEMMA PackageIs ==
    /\ \A m : Stock(m).of = m /\ Own(m).of = m /\ ~Stock(m).own /\ Own(m).own /\ Stock(m) # Own(m)
    /\ \A m, n : (Stock(m) = Stock(n) => m = n) /\ (Own(m) = Own(n) => m = n) /\ Stock(m) # Own(n)
    /\ \A m \in Member : Stock(m) \in Package /\ Own(m) \in Package
    /\ \A m : Stock(m) \in Package \/ Own(m) \in Package => m \in Member
    /\ \A p \in Package : /\ p.of \in Member /\ p.own \in BOOLEAN
                          /\ p.own => p = Own(p.of)
                          /\ ~p.own => p = Stock(p.of)
  BY DEF Package, Stock, Own

LEMMA PkgbaseIs ==
    /\ \A p : entry[p] \in {Untracked, "marker"} => PkgbaseOf(p) = {}
    /\ \A p : entry[p] \in {"plain", "demoted"} => PkgbaseOf(p) = {Base}
    /\ \A p : entry[p] \in {"conflict", "coexist"} => PkgbaseOf(p) = {Own(pkgbase)}
  BY UntrackedApart DEF PkgbaseOf

\* What an entry of a package may say.
LEMMA EntryIs ==
    ASSUME TrackTyped, NEW p \in Package
    PROVE  /\ entry[p] \in OwnEntry \cup StockEntry
           /\ p.own => entry[p] \in OwnEntry /\ present[p] # "repo"
           /\ ~p.own => entry[p] \in StockEntry
           /\ p \in Tracked <=> entry[p] # Untracked
           /\ p \in Maintained <=> entry[p] \in Modes
  BY PackageIs DEF TrackTyped, Tracked, Maintained

\* Reconciling and syncing leave entries of the same kind.
LEMMA ReconciledIs ==
    ASSUME TrackTyped, NEW rec \in [Package -> OwnEntry \cup StockEntry],
           \A m \in Member : rec[Own(m)] \in OwnEntry /\ rec[Stock(m)] \in StockEntry
    PROVE  /\ Reconciled(rec) \in [Package -> OwnEntry \cup StockEntry]
           /\ \A m \in Member : Reconciled(rec)[Own(m)] = rec[Own(m)] /\ Reconciled(rec)[Stock(m)] \in StockEntry
           /\ \A p \in Package : present[p] = "repo" => Reconciled(rec)[p] \notin Modes
           /\ \A p \in Package : Reconciled(rec)[p] \in {rec[p], "demoted"}
  <1>1. Reconciled(rec) = [p \in Package |-> IF rec[p] \in Modes /\ present[p] = "repo" THEN "demoted" ELSE rec[p]]
    BY DEF Reconciled
  <1>2. \A p \in Package : Reconciled(rec)[p] = IF rec[p] \in Modes /\ present[p] = "repo" THEN "demoted" ELSE rec[p]
    BY <1>1
  <1>3. Reconciled(rec) \in [Package -> OwnEntry \cup StockEntry]
    BY <1>1 DEF StockEntry
  <1>4. \A m \in Member : Reconciled(rec)[Own(m)] = rec[Own(m)] /\ Reconciled(rec)[Stock(m)] \in StockEntry
    BY <1>2, PackageIs DEF TrackTyped, StockEntry
  <1>5. "demoted" \notin Modes
    BY DEF Modes
  <1> QED
    BY <1>2, <1>3, <1>4, <1>5

LEMMA SyncedIs ==
    ASSUME TrackTyped
    PROVE  /\ SyncedEntries \in [Package -> OwnEntry \cup StockEntry]
           /\ \A m \in Member : SyncedEntries[Own(m)] \in OwnEntry /\ SyncedEntries[Stock(m)] \in StockEntry
  <1>1. /\ Reconciled(entry) \in [Package -> OwnEntry \cup StockEntry]
        /\ \A m \in Member : Reconciled(entry)[Own(m)] = entry[Own(m)] /\ Reconciled(entry)[Stock(m)] \in StockEntry
        /\ \A m \in Member : entry[Own(m)] \in OwnEntry
    BY ReconciledIs DEF TrackTyped
  <1>2. SyncedEntries = [p \in Package |-> IF present[p] = "none" THEN Untracked
                                           ELSE IF entry[p] = Untracked THEN "marker" ELSE Reconciled(entry)[p]]
    BY DEF SyncedEntries
  <1>3. SyncedEntries \in [Package -> OwnEntry \cup StockEntry]
    BY <1>1, <1>2 DEF OwnEntry
  <1>4. \A m \in Member : SyncedEntries[Own(m)] \in OwnEntry /\ SyncedEntries[Stock(m)] \in StockEntry
    BY <1>1, <1>2, PackageIs DEF OwnEntry, StockEntry
  <1> QED
    BY <1>3, <1>4

\* Dropping decisions keeps the rest true of what is still given up.
LEMMA StandingFits ==
    ASSUME CoverInv, NEW names, optedOut' = Standing(names), given' = TakenBack(names), UNCHANGED pkgbase
    PROVE  CoverInv' /\ given' \subseteq given
  <1>1. /\ DOMAIN optedOut' = {b \in DOMAIN optedOut : optedOut[b] \cap names = {}}
        /\ \A b \in DOMAIN optedOut' : optedOut'[b] = optedOut[b]
    BY DEF Standing
  <1>2. \A p : p \in given' <=>
           /\ p \in given
           /\ (\E b \in DOMAIN optedOut : optedOut[b] \cap names # {} /\ p \in optedOut[b]) =>
                 \E b \in DOMAIN optedOut : optedOut[b] \cap names = {} /\ p \in optedOut[b]
    BY DEF TakenBack
  <1>3. Base' = Base
    BY DEF Base, Stock
  <1>4. ASSUME NEW b \in DOMAIN optedOut' PROVE optedOut'[b] \cap given \subseteq given'
    BY <1>1, <1>2, <1>4
  <1>5. ASSUME NEW p \in given' PROVE \E b \in DOMAIN optedOut' : p \in optedOut'[b]
    <2>1. p \in given /\ \E b \in DOMAIN optedOut : p \in optedOut[b]
      BY <1>2, <1>5 DEF CoverInv, Covered
    <2> QED
      BY <1>1, <1>2, <1>5, <2>1
  <1>6. ASSUME NEW b \in DOMAIN optedOut'
        PROVE  b \in optedOut'[b] /\ optedOut'[b] \subseteq given' \cup {Base} /\ optedOut'[b] \cap given' # {}
    <2>1. /\ b \in DOMAIN optedOut /\ optedOut'[b] = optedOut[b]
          /\ b \in optedOut[b] /\ optedOut[b] \subseteq given \cup {Base} /\ optedOut[b] \cap given # {}
      BY <1>1, <1>6 DEF CoverInv
    <2> QED
      BY <1>4, <1>6, <2>1
  <1>7. CoverInv'
    BY <1>3, <1>5, <1>6 DEF CoverInv, Covered
  <1> QED
    BY <1>2, <1>7

LEMMA TrackInit == InitTrack => TrackInv
  <1> SUFFICES ASSUME InitTrack PROVE TrackInv
    OBVIOUS
  <1>1. /\ DOMAIN optedOut = {} /\ given = {} /\ asked = {} /\ task = NoTask /\ task.pc = "idle"
        /\ \A p \in Package : present[p] = (IF p.own THEN "none" ELSE "repo") /\ entry[p] = Untracked
    BY DEF InitTrack, NoTask
  <1>2. TrackTyped
    <2>1. present \in [Package -> {"none", "repo", "own"}] /\ entry \in [Package -> OwnEntry \cup StockEntry]
      BY DEF InitTrack, OwnEntry
    <2> QED
      BY <1>1, <2>1, PackageIs DEF InitTrack, TrackTyped, OwnEntry, StockEntry
  <1>3. CoverInv
    BY <1>1 DEF CoverInv
  <1>4. RevertInv /\ DecisionHolds /\ RevertedIsStock
    BY <1>1 DEF RevertInv, DecisionHolds, RevertedIsStock
  <1> QED
    BY <1>2, <1>3, <1>4 DEF TrackInv

-----------------------------------------------------------------------------
(* Forgetting.                                                             *)

LEMMA OptOutFits == TrackInv /\ OptOut => TrackInv'
  <1> SUFFICES ASSUME TrackInv, OptOut PROVE TrackInv'
    OBVIOUS
  <1> DEFINE gone == ToForget(task.names)
  <1>0. /\ TrackTyped /\ CoverInv /\ RevertInv /\ RevertedIsStock
        /\ task.pc = "optout" /\ task \in Forgetting /\ optedOut' = Filed(gone)
        /\ given' = given \cup gone \cup {Stock(p.of) : p \in gone} /\ task' = [task EXCEPT !.pc = "forget"]
        /\ UNCHANGED <<pkgbase, foreign, present, entry, overrides, asked, begun>>
    BY DEF TrackInv, OptOut, TrackTyped
  <1>1. gone \subseteq Package /\ Base' = Base
    BY <1>0 DEF ToForget, Tracked, Base, Stock
  <1>2. task' \in Forgetting /\ task'.pc = "forget" /\ task'.verb = task.verb /\ task'.names = task.names /\ task'.asked = task.asked
    BY <1>0 DEF Forgetting
  <1>3. TrackTyped'
    <2>1. given' \subseteq Package
      BY <1>0, <1>1, PackageIs DEF TrackTyped
    <2> QED
      BY <1>0, <1>2, <2>1 DEF TrackTyped
  <1>4. CoverInv'
    <2> HIDE DEF gone
    <2> DEFINE D == DOMAIN optedOut \cup {FiledUnder(p) : p \in gone}
               Named(b) == UNION {{p, Stock(p.of)} : p \in {q \in gone : FiledUnder(q) = b}}
    <2>1. /\ DOMAIN optedOut' = D
          /\ \A b \in D : optedOut'[b] = {b} \cup (IF b \in DOMAIN optedOut THEN optedOut[b] ELSE {}) \cup Named(b)
      BY <1>0 DEF Filed
    <2>2. \A b : \A x : x \in Named(b) <=> \E q \in gone : FiledUnder(q) = b /\ x \in {q, Stock(q.of)}
      OBVIOUS
    <2>3. \A p \in gone : FiledUnder(p) \in {Base, Stock(p.of)}
      BY DEF FiledUnder
    <2> HIDE DEF D, Named
    <2>4. ASSUME NEW p \in given' PROVE \E b \in D : p \in optedOut'[b]
      <3>1. CASE p \in given
        <4>1. PICK b \in DOMAIN optedOut : p \in optedOut[b]
          BY <1>0, <3>1 DEF CoverInv, Covered
        <4> QED
          BY <2>1, <4>1 DEF D
      <3>2. ASSUME NEW q \in gone, p \in {q, Stock(q.of)} PROVE \E b \in D : p \in optedOut'[b]
        <4>1. FiledUnder(q) \in D /\ p \in Named(FiledUnder(q))
          BY <2>2, <3>2 DEF D
        <4> QED
          BY <2>1, <4>1
      <3> QED
        BY <1>0, <2>4, <3>1, <3>2
    <2>5. ASSUME NEW b \in D
          PROVE  b \in optedOut'[b] /\ optedOut'[b] \subseteq given' \cup {Base} /\ optedOut'[b] \cap given' # {}
      <3>1. Named(b) \subseteq given'
        BY <1>0, <2>2
      <3>2. CASE b \in DOMAIN optedOut
        <4>1. b \in optedOut[b] /\ optedOut[b] \subseteq given \cup {Base} /\ optedOut[b] \cap given # {}
          BY <1>0, <3>2 DEF CoverInv
        <4>2. optedOut'[b] = {b} \cup optedOut[b] \cup Named(b)
          BY <2>1, <3>2
        <4>3. given \subseteq given'
          BY <1>0
        <4> QED
          BY <3>1, <4>1, <4>2, <4>3
      <3>3. CASE b \notin DOMAIN optedOut
        <4>1. PICK q \in gone : FiledUnder(q) = b
          BY <3>3 DEF D
        <4>2. q \in Named(b) /\ Stock(q.of) \in Named(b)
          BY <2>2, <4>1
        <4>3. b \in given' \cup {Base}
          BY <2>3, <3>1, <4>1, <4>2
        <4>4. optedOut'[b] = {b} \cup Named(b)
          BY <2>1, <3>3
        <4> QED
          BY <3>1, <4>2, <4>3, <4>4
      <3> QED
        BY <3>2, <3>3
    <2> QED
      BY <1>1, <2>1, <2>4, <2>5 DEF CoverInv, Covered
  <1>5. RevertInv'
    <2>1. \A p : StockAgain(p)' <=> StockAgain(p)
      BY <1>0, <1>1, <1>2 DEF StockAgain, ToForget, Tracked, PkgbaseOf, Base, Stock, Own
    <2> QED
      BY <1>0, <1>2, <2>1 DEF RevertInv
  <1>6. DecisionHolds' /\ RevertedIsStock'
    BY <1>0, <1>2 DEF DecisionHolds, RevertedIsStock, Maintained
  <1> QED
    BY <1>3, <1>4, <1>5, <1>6 DEF TrackInv

LEMMA ForgetFits == TrackInv /\ ForgetRecords => TrackInv'
  <1> SUFFICES ASSUME TrackInv, ForgetRecords PROVE TrackInv'
    OBVIOUS
  <1> DEFINE left == [p \in Package |-> IF p \in ToForget(task.names) THEN Untracked ELSE entry[p]]
  <1>0. /\ TrackTyped /\ CoverInv /\ RevertInv /\ RevertedIsStock
        /\ task.pc = "forget" /\ task \in Forgetting /\ task' = NoTask /\ asked' = task.asked
        /\ entry' = (IF task.verb = "forget" THEN left ELSE Reconciled(left))
        /\ UNCHANGED <<pkgbase, foreign, present, optedOut, overrides, given, begun>>
    BY DEF TrackInv, ForgetRecords, TrackTyped
  <1>1. /\ left \in [Package -> OwnEntry \cup StockEntry]
        /\ \A m \in Member : left[Own(m)] \in OwnEntry /\ left[Stock(m)] \in StockEntry
        /\ \A p \in Package : left[p] \in {entry[p], Untracked} /\ (p \notin ToForget(task.names) => left[p] = entry[p])
    BY <1>0, PackageIs DEF TrackTyped, OwnEntry, StockEntry
  <1> HIDE DEF left
  <1>2. /\ Reconciled(left) \in [Package -> OwnEntry \cup StockEntry]
        /\ \A m \in Member : Reconciled(left)[Own(m)] = left[Own(m)] /\ Reconciled(left)[Stock(m)] \in StockEntry
        /\ \A p \in Package : present[p] = "repo" => Reconciled(left)[p] \notin Modes
    BY <1>0, <1>1, ReconciledIs
  <1>3. task'.pc = "idle" /\ task.asked \subseteq Package
    BY <1>0 DEF NoTask, Forgetting
  <1>4. TrackTyped'
    BY <1>0, <1>1, <1>2, <1>3 DEF TrackTyped
  <1>5. CoverInv'
    BY <1>0 DEF CoverInv, Covered, Base, Stock
  <1>6. RevertInv' /\ DecisionHolds'
    BY <1>3 DEF RevertInv, DecisionHolds
  <1>7. RevertedIsStock'
    <2> SUFFICES ASSUME NEW p \in task.asked
                 PROVE  /\ present[Stock(p.of)] = "repo"
                        /\ present[Own(p.of)] = "own" => entry'[Own(p.of)] = "coexist"
                        /\ Stock(p.of) \notin Maintained'
      BY <1>0 DEF RevertedIsStock
    <2>1. p \in Package /\ p.of \in Member /\ Stock(p.of) \in Package /\ Own(p.of) \in Package
      BY <1>3, PackageIs
    <2>2. StockAgain(p) /\ task.verb = "revert"
      BY <1>0 DEF RevertInv
    <2>3. entry' = Reconciled(left)
      BY <1>0, <2>2
    <2>4. present[Own(p.of)] = "own" => left[Own(p.of)] = "coexist"
      BY <1>1, <2>1, <2>2 DEF StockAgain
    <2> QED
      BY <1>2, <2>1, <2>2, <2>3, <2>4 DEF StockAgain, Maintained
  <1> QED
    BY <1>4, <1>5, <1>6, <1>7 DEF TrackInv

-----------------------------------------------------------------------------
(* revert-to-stock.                                                        *)

\* A name stands for a package, and a build under its stock name for itself.
LEMMA ResolvedIs ==
    ASSUME TrackTyped, NEW p \in Package, NEW q \in Resolved(p)
    PROVE  q \in Package /\ (entry[q] \notin {"conflict", "coexist"} => q.of = p.of)
  <1>1. CASE p \in Tracked
    BY <1>1 DEF Resolved
  <1>2. CASE p \notin Tracked /\ \E r \in Tracked : OriginOf(r) = {p}
    <2>1. q \in Tracked /\ OriginOf(q) = {p}
      BY <1>2 DEF Resolved
    <2> QED
      BY <2>1 DEF OriginOf, Tracked
  <1>3. CASE p \notin Tracked /\ ~\E r \in Tracked : OriginOf(r) = {p}
    <2>1. q \in {Own(p.of), p}
      BY <1>3 DEF Resolved
    <2> QED
      BY <2>1, PackageIs
  <1> QED
    BY <1>1, <1>2, <1>3

\* The stock packages are there; what they replace is gone, and else as it was.
LEMMA StockIs ==
    ASSUME TrackTyped, NEW members \in SUBSET Member, NEW replace \in BOOLEAN,
           StockInstalled({Stock(m) : m \in members}, replace)
    PROVE  /\ present' \in [Package -> {"none", "repo", "own"}] /\ \A m \in Member : present'[Own(m)] # "repo"
           /\ \A m \in members : /\ present'[Stock(m)] = "repo"
                                 /\ present'[Own(m)] = "own" => ~replace /\ entry[Own(m)] = "coexist"
           /\ \A p \in Package : present'[p] \in {present[p], "repo", "none"}
  <1> DEFINE stocks == {Stock(m) : m \in members}
  <1>1. /\ \A s \in stocks : replace \/ entry[Own(s.of)] = "coexist" \/ present[Own(s.of)] = "none"
        /\ present' = [p \in Package |-> IF p \in stocks THEN "repo"
                                         ELSE IF replace /\ p.own /\ Stock(p.of) \in stocks THEN "none" ELSE present[p]]
    BY DEF StockInstalled
  <1>2. \A m : Stock(m) \in stocks <=> m \in members
    BY PackageIs
  <1>3. \A m : Own(m) \notin stocks
    BY PackageIs
  <1> HIDE DEF stocks
  <1>4. \A m \in Member : present'[Own(m)] = IF replace /\ m \in members THEN "none" ELSE present[Own(m)]
    BY <1>1, <1>2, <1>3, PackageIs
  <1>5. \A m \in members : present'[Stock(m)] = "repo"
    BY <1>1, <1>2, PackageIs
  <1>6. \A m \in members : replace \/ entry[Own(m)] = "coexist" \/ present[Own(m)] = "none"
    <2>1. \A m \in members : Stock(m) \in stocks /\ Stock(m).of = m
      BY <1>2, PackageIs
    <2> QED
      BY <1>1, <2>1
  <1>7. present' \in [Package -> {"none", "repo", "own"}] /\ \A p \in Package : present'[p] \in {present[p], "repo", "none"}
    BY <1>1 DEF TrackTyped
  <1> QED
    BY <1>4, <1>5, <1>6, <1>7 DEF TrackTyped

\* A step that begins a verb, or ends one, and changes what is installed or overridden only.
LEMMA BeginsFits ==
    ASSUME TrackInv, UNCHANGED <<pkgbase, entry, optedOut, given>>, asked' = {},
           present' \in [Package -> {"none", "repo", "own"}], \A m \in Member : present'[Own(m)] # "repo",
           task'.pc \in {"idle", "optout", "forget", "restock", "clear"},
           task'.pc \in {"optout", "forget", "restock"} => task' \in Forgetting, RevertInv'
    PROVE  TrackInv'
  <1>1. TrackTyped'
    BY DEF TrackInv, TrackTyped
  <1>2. CoverInv'
    BY DEF TrackInv, CoverInv, Covered, Base, Stock
  <1>3. DecisionHolds' /\ RevertedIsStock'
    BY DEF DecisionHolds, RevertedIsStock
  <1> QED
    BY <1>1, <1>2, <1>3 DEF TrackInv

LEMMA RevertFits == TrackInv /\ Revert => TrackInv'
  <1> SUFFICES ASSUME TrackInv, Revert PROVE TrackInv'
    OBVIOUS
  <1>1. PICK p, q :
           /\ p \in Package /\ q \in Resolved(p)
           /\ q \in Maintained
           /\ IF entry[q] = "coexist"
              THEN /\ present[q] # "none" /\ pkgbase # Untracked
                   /\ present' = [present EXCEPT ![q] = "none"]
                   /\ task' = [pc |-> "restock", verb |-> "revert", names |-> {q},
                               asked |-> IF Siblings(q) = {q} /\ p \in {Base, Own(pkgbase)} THEN {p} ELSE {}]
              ELSE /\ StockInstalled({Stock(x.of) : x \in RevertedWith(q)}, entry[q] = "conflict")
                   /\ task' = [pc |-> "optout", verb |-> "revert", names |-> RevertedWith(q),
                               asked |-> IF \E x \in Siblings(q) \cup {q} : /\ x.of = p.of
                                                                           /\ x \in Installed \cap Maintained
                                         THEN {p} ELSE {}]
    BY DEF Revert
  <1>0. /\ TrackTyped /\ asked' = {} /\ UNCHANGED <<pkgbase, foreign, entry, optedOut, overrides, given>>
    BY DEF Revert, TrackInv
  <1>2. p \in Package /\ q \in Package /\ entry[q] \in Modes /\ (entry[q] \notin {"conflict", "coexist"} => q.of = p.of)
    BY <1>0, <1>1, ResolvedIs DEF Maintained
  <1>3. RevertedWith(q) \subseteq Package /\ q \in RevertedWith(q)
    BY <1>2 DEF RevertedWith, Siblings, Installed, Tracked
  <1>4. /\ Siblings(q)' = Siblings(q) /\ Base' = Base /\ Own(pkgbase)' = Own(pkgbase)
        /\ Tracked' = Tracked /\ \A x : PkgbaseOf(x)' = PkgbaseOf(x)
    BY <1>0 DEF Siblings, Tracked, PkgbaseOf, Base, Stock, Own
  <1>5. CASE entry[q] = "coexist"
    <2>1. /\ present' = [present EXCEPT ![q] = "none"] /\ pkgbase # Untracked
          /\ task' = [pc |-> "restock", verb |-> "revert", names |-> {q},
                      asked |-> IF Siblings(q) = {q} /\ p \in {Base, Own(pkgbase)} THEN {p} ELSE {}]
      BY <1>1, <1>5
    <2>2. task' \in Forgetting /\ task'.pc = "restock" /\ task'.verb = "revert" /\ task'.names = {q}
          /\ task'.asked = IF Siblings(q) = {q} /\ p \in {Base, Own(pkgbase)} THEN {p} ELSE {}
      BY <1>2, <2>1 DEF Forgetting
    <2>3. present' \in [Package -> {"none", "repo", "own"}] /\ present'[q] = "none" /\ \A m \in Member : present'[Own(m)] # "repo"
      BY <1>0, <1>2, <2>1, PackageIs DEF TrackTyped
    <2>4. pkgbase \in Member
      BY <1>0, <2>1 DEF TrackTyped
    <2>5. RevertInv'
      BY <1>0, <1>2, <1>4, <1>5, <2>2, <2>3, <2>4 DEF RevertInv
    <2> QED
      BY <1>0, <2>2, <2>3, <2>5, BeginsFits
  <1>6. CASE entry[q] # "coexist"
    <2> DEFINE with == RevertedWith(q)
               members == {x.of : x \in with}
    <2>1. /\ StockInstalled({Stock(x.of) : x \in with}, entry[q] = "conflict")
          /\ task' = [pc |-> "optout", verb |-> "revert", names |-> with,
                      asked |-> IF \E x \in Siblings(q) \cup {q} : /\ x.of = p.of
                                                                  /\ x \in Installed \cap Maintained
                                THEN {p} ELSE {}]
      BY <1>1, <1>6
    <2>2. members \in SUBSET Member /\ {Stock(x.of) : x \in with} = {Stock(m) : m \in members}
      BY <1>3, PackageIs
    <2>3. /\ present' \in [Package -> {"none", "repo", "own"}] /\ \A m \in Member : present'[Own(m)] # "repo"
          /\ \A m \in members : /\ present'[Stock(m)] = "repo"
                                /\ present'[Own(m)] = "own" => entry[q] # "conflict" /\ entry[Own(m)] = "coexist"
      <3> HIDE DEF members
      <3>1. StockInstalled({Stock(m) : m \in members}, entry[q] = "conflict")
        BY <2>1, <2>2
      <3> QED
        BY <1>0, <2>2, <3>1, StockIs
    <2>4. /\ task' \in Forgetting /\ task'.pc = "optout" /\ task'.verb = "revert" /\ task'.names = with
          /\ task'.asked # {} => task'.asked = {p} /\ \E x \in Siblings(q) \cup {q} : /\ x.of = p.of
                                                                                    /\ x \in Installed \cap Maintained
      <3> DEFINE found == \E x \in Siblings(q) \cup {q} : x.of = p.of /\ x \in Installed \cap Maintained
      <3>1. task' = [pc |-> "optout", verb |-> "revert", names |-> with, asked |-> IF found THEN {p} ELSE {}]
        BY <2>1
      <3>2. with \in SUBSET Package /\ (IF found THEN {p} ELSE {}) \in SUBSET Package
        BY <1>2, <1>3
      <3> HIDE DEF found, with
      <3>3. task' \in Forgetting /\ task'.pc = "optout" /\ task'.verb = "revert" /\ task'.names = with
        BY <3>1, <3>2 DEF Forgetting
      <3>4. task'.asked # {} => task'.asked = {p} /\ found
        BY <3>1
      <3> QED
        BY <3>3, <3>4 DEF found
    <2>5. ASSUME task'.asked # {} PROVE StockAgain(p)'
      <3>1. PICK x \in Siblings(q) \cup {q} : x.of = p.of /\ x \in Installed \cap Maintained
        BY <2>4, <2>5
      <3>2. p.of \in members
        <4>1. CASE entry[q] = "plain" /\ q # Base
          BY <1>2, <1>3, <4>1
        <4>2. CASE ~(entry[q] = "plain" /\ q # Base)
          <5>1. x \in with
            BY <1>6, <3>1, <4>2 DEF RevertedWith
          <5> QED
            BY <3>1, <5>1
        <4> QED
          BY <4>1, <4>2
      <3>3. p.of \in Member /\ Own(p.of) \in Package
        BY <1>2, PackageIs
      <3>4. CASE present'[Own(p.of)] = "own"
        <4>1. entry[q] = "plain" /\ entry[Own(p.of)] = "coexist"
          BY <1>2, <1>6, <2>3, <3>2, <3>4 DEF Modes
        <4>2. ~q.own
          BY <1>0, <1>2, <4>1, EntryIs, UntrackedApart DEF OwnEntry
        <4>3. \A y \in with : ~y.own
          <5>1. ASSUME NEW y \in Siblings(q) PROVE y \in Package /\ ~y.own
            <6>1. y \in Package /\ y \in Tracked /\ PkgbaseOf(y) = {Base}
              BY <1>2, <4>1, <5>1, PkgbaseIs DEF Siblings, Tracked
            <6>2. CASE y.own
              <7>1. entry[y] \in {Untracked, "marker"} \/ entry[y] \in {"conflict", "coexist"}
                BY <1>0, <6>1, <6>2, EntryIs DEF OwnEntry
              <7>2. PkgbaseOf(y) # {Base}
                BY <7>1, PkgbaseIs, PackageIs DEF Base
              <7> QED
                BY <6>1, <7>2
            <6> QED
              BY <6>1, <6>2, PackageIs
          <5> QED
            BY <4>2, <5>1 DEF RevertedWith
        <4>4. PkgbaseOf(Own(p.of)) = {Own(pkgbase)}
          BY <4>1, PkgbaseIs
        <4>5. Own(p.of) \notin with /\ Own(pkgbase) \notin with
          BY <4>3, PackageIs
        <4>6. Own(p.of) \notin ToForget(with)
          BY <4>4, <4>5 DEF ToForget
        <4>7. Own(p.of) \notin ToForget(task.names)'
          BY <1>4, <2>4, <4>6 DEF ToForget
        <4>8. present'[Stock(p.of)] = "repo" /\ entry'[Own(p.of)] = "coexist"
          BY <1>0, <2>3, <3>2, <4>1
        <4> QED
          BY <4>7, <4>8 DEF StockAgain
      <3>5. CASE present'[Own(p.of)] # "own"
        BY <1>0, <2>3, <3>2, <3>5 DEF StockAgain
      <3> QED
        BY <3>4, <3>5
    <2>6. RevertInv'
      BY <1>0, <2>4, <2>5 DEF RevertInv
    <2> QED
      BY <1>0, <2>3, <2>4, <2>6, BeginsFits
  <1> QED
    BY <1>5, <1>6

LEMMA RestockFits == TrackInv /\ Restock => TrackInv'
  <1> SUFFICES ASSUME TrackInv, Restock PROVE TrackInv'
    OBVIOUS
  <1>0. /\ TrackTyped /\ RevertInv /\ task.pc = "restock" /\ task \in Forgetting /\ task.verb = "revert"
        /\ StockInstalled({Base}, FALSE) /\ task' = [task EXCEPT !.pc = "optout"]
        /\ UNCHANGED <<pkgbase, foreign, entry, optedOut, overrides, given, asked, begun>> /\ asked = {}
    BY DEF TrackInv, Restock, TrackTyped, RevertInv
  <1>1. /\ task' \in Forgetting /\ task'.pc = "optout" /\ task'.verb = "revert" /\ task'.names = task.names
        /\ task'.asked = task.asked
    BY <1>0 DEF Forgetting
  <1>2. present' = [p \in Package |-> IF p = Base THEN "repo" ELSE present[p]]
    <2>1. present' = [p \in Package |-> IF p \in {Base} THEN "repo"
                                        ELSE IF FALSE /\ p.own /\ Stock(p.of) \in {Base} THEN "none" ELSE present[p]]
      BY <1>0 DEF StockInstalled
    <2> QED
      BY <2>1
  <1>3. /\ present' \in [Package -> {"none", "repo", "own"}] /\ \A m \in Member : present'[Own(m)] # "repo"
    BY <1>0, <1>2, PackageIs DEF TrackTyped, Base
  <1>4. ASSUME NEW p \in task.asked PROVE StockAgain(p)'
    <2>1. p \in {Base, Own(pkgbase)} /\ pkgbase \in Member
      BY <1>0, <1>4 DEF RevertInv
    <2>2. PICK q \in Package : task.names = {q} /\ entry[q] = "coexist" /\ present[q] = "none" /\ Siblings(q) = {q}
      BY <1>0, <1>4 DEF RevertInv
    <2>3. p.of = pkgbase /\ Stock(p.of) = Base /\ Base \in Package /\ Own(pkgbase) \in Package /\ Own(pkgbase) # Base
      BY <2>1, PackageIs DEF Base
    <2>4. present'[Stock(p.of)] = "repo" /\ present'[Own(p.of)] = present[Own(pkgbase)]
      BY <1>2, <2>3
    <2>5. CASE present[Own(pkgbase)] = "own"
      <3>1. entry[Own(pkgbase)] = "coexist"
        <4>1. FALSE \/ entry[Own(Base.of)] = "coexist" \/ present[Own(Base.of)] = "none"
          BY <1>0 DEF StockInstalled
        <4>2. Base.of = pkgbase
          BY PackageIs DEF Base
        <4> QED
          BY <2>5, <4>1, <4>2
      <3>2. Own(pkgbase) \in Tracked /\ q \in Tracked
        BY <2>2, <2>3, <3>1, UntrackedApart DEF Tracked
      <3>3. Own(pkgbase) \in Siblings(q)
        BY <2>2, <3>1, <3>2, PkgbaseIs DEF Siblings
      <3> QED
        BY <2>2, <2>5, <3>3
    <2>6. CASE present[Own(pkgbase)] # "own"
      BY <1>0, <2>3, <2>4, <2>6 DEF StockAgain
    <2> QED
      BY <2>5, <2>6
  <1>5. RevertInv'
    BY <1>0, <1>1, <1>4 DEF RevertInv
  <1> QED
    BY <1>0, <1>1, <1>3, <1>5, BeginsFits

LEMMA StateForgetFits == TrackInv /\ StateForget => TrackInv'
  <1> SUFFICES ASSUME TrackInv, StateForget PROVE TrackInv'
    OBVIOUS
  <1>1. PICK p \in Package : task' = [pc |-> "optout", verb |-> "forget", names |-> {p}, asked |-> {}]
    BY DEF StateForget
  <1>0. /\ TrackTyped /\ CoverInv /\ RevertInv /\ RevertedIsStock
        /\ UNCHANGED <<pkgbase, foreign, present, entry, optedOut, overrides, given, asked>>
    BY DEF StateForget, TrackInv
  <1>2. task' \in Forgetting /\ task'.pc = "optout" /\ task'.verb = "forget" /\ task'.asked = {}
    BY <1>1 DEF Forgetting
  <1>3. TrackTyped' /\ CoverInv'
    BY <1>0, <1>2 DEF TrackTyped, CoverInv, Covered, Base, Stock
  <1>4. RevertInv' /\ DecisionHolds' /\ RevertedIsStock'
    BY <1>0, <1>2 DEF RevertInv, DecisionHolds, RevertedIsStock, Maintained
  <1> QED
    BY <1>3, <1>4 DEF TrackInv

LEMMA UninstallFits == TrackInv /\ Uninstall => TrackInv'
  <1> SUFFICES ASSUME TrackInv, Uninstall PROVE TrackInv'
    OBVIOUS
  <1>1. PICK p, q :
           /\ p \in Package /\ q \in Resolved(p)
           /\ present' = [present EXCEPT ![q] = "none"]
           /\ task' = IF q \notin Tracked THEN NoTask
                      ELSE [pc |-> "forget", verb |-> "uninstall", names |-> {q}, asked |-> {}]
    BY DEF Uninstall
  <1>0. TrackTyped /\ asked' = {} /\ UNCHANGED <<pkgbase, foreign, entry, optedOut, overrides, given>>
    BY DEF Uninstall, TrackInv
  <1>2. q \in Package
    BY <1>0, <1>1, ResolvedIs
  <1>3. /\ task'.pc \in {"idle", "forget"}
        /\ task'.pc = "forget" => task' \in Forgetting /\ task'.verb = "uninstall" /\ task'.asked = {}
    BY <1>1, <1>2 DEF NoTask, Forgetting
  <1>4. present' \in [Package -> {"none", "repo", "own"}] /\ \A m \in Member : present'[Own(m)] # "repo"
    BY <1>0, <1>1, <1>2, PackageIs DEF TrackTyped
  <1>5. RevertInv'
    BY <1>0, <1>3 DEF RevertInv
  <1> QED
    BY <1>0, <1>3, <1>4, <1>5, BeginsFits

LEMMA PacmanFits == TrackInv /\ PacmanInstalls => TrackInv'
  <1> SUFFICES ASSUME TrackInv, PacmanInstalls PROVE TrackInv'
    OBVIOUS
  <1>1. PICK m \in Member : StockInstalled({Stock(m)}, FALSE)
    BY DEF PacmanInstalls
  <1>0. /\ TrackTyped /\ asked' = {} /\ task' = task /\ task.pc = "idle"
        /\ UNCHANGED <<pkgbase, foreign, entry, optedOut, overrides, given>>
    BY DEF PacmanInstalls, Begins, TrackInv
  <1>2. {Stock(m)} = {Stock(x) : x \in {m}}
    OBVIOUS
  <1>3. present' \in [Package -> {"none", "repo", "own"}] /\ \A x \in Member : present'[Own(x)] # "repo"
    <2>1. StockInstalled({Stock(x) : x \in {m}}, FALSE)
      BY <1>1, <1>2
    <2> QED
      BY <1>0, <2>1, StockIs
  <1>4. RevertInv'
    BY <1>0 DEF RevertInv
  <1> QED
    BY <1>0, <1>3, <1>4, BeginsFits
  -----------------------------------------------------------------------------
  (* Overrides, builds and updates.                                          *)

\* What a build makes is what it was to make, under the name its mode has.
LEMMA BuiltIs ==
    ASSUME TrackTyped, NEW form \in Modes, NEW members \in SUBSET Member, Built(form, members)
    PROVE  /\ present' \in [Package -> {"none", "repo", "own"}] /\ \A m \in Member : present'[Own(m)] # "repo"
           /\ entry' \in [Package -> OwnEntry \cup StockEntry]
           /\ \A m \in Member : entry'[Own(m)] \in OwnEntry /\ entry'[Stock(m)] \in StockEntry
  <1>1. /\ present' = [p \in Package |->
              IF p.of \in members /\ p = Target(form, p.of) THEN "own"
              ELSE IF form = "conflict" /\ p.of \in members THEN "none" ELSE present[p]]
        /\ entry' = [p \in Package |->
              IF p # Target(form, p.of) THEN entry[p] ELSE IF p.of \in members THEN form ELSE Untracked]
    BY DEF Built
  <1>2. \A m : Target(form, m) = IF form = "plain" THEN Stock(m) ELSE Own(m)
    BY DEF Target
  <1>3. present' \in [Package -> {"none", "repo", "own"}] /\ \A m \in Member : present'[Own(m)] # "repo"
    BY <1>1, PackageIs DEF TrackTyped
  <1>4. entry' \in [Package -> OwnEntry \cup StockEntry]
    BY <1>1 DEF TrackTyped, OwnEntry, StockEntry, Modes
  <1>5. \A m \in Member : entry'[Own(m)] \in OwnEntry
    <2> SUFFICES ASSUME NEW m \in Member PROVE entry'[Own(m)] \in OwnEntry
      OBVIOUS
    <2>1. Own(m) \in Package /\ Own(m).of = m /\ Own(m) # Stock(m) /\ entry[Own(m)] \in OwnEntry
      BY PackageIs DEF TrackTyped
    <2> QED
      BY <1>1, <1>2, <2>1 DEF OwnEntry, Modes
  <1>6. \A m \in Member : entry'[Stock(m)] \in StockEntry
    <2> SUFFICES ASSUME NEW m \in Member PROVE entry'[Stock(m)] \in StockEntry
      OBVIOUS
    <2>1. Stock(m) \in Package /\ Stock(m).of = m /\ Own(m) # Stock(m) /\ entry[Stock(m)] \in StockEntry
      BY PackageIs DEF TrackTyped
    <2> QED
      BY <1>1, <1>2, <2>1 DEF StockEntry, Modes
  <1> QED
    BY <1>3, <1>4, <1>5, <1>6

\* A step outside a revert or a forget, after which nothing is planned.
LEMMA OutsideFits ==
    ASSUME TrackInv, UNCHANGED pkgbase, given' \subseteq Package, CoverInv', asked' = {},
           present' \in [Package -> {"none", "repo", "own"}], \A m \in Member : present'[Own(m)] # "repo",
           entry' \in [Package -> OwnEntry \cup StockEntry],
           \A m \in Member : entry'[Own(m)] \in OwnEntry /\ entry'[Stock(m)] \in StockEntry,
           task'.pc \in {"idle", "clear", "build", "planned"}, DecisionHolds'
    PROVE  TrackInv'
  <1>1. TrackTyped'
    BY DEF TrackInv, TrackTyped
  <1>2. RevertInv' /\ RevertedIsStock'
    BY DEF RevertInv, RevertedIsStock
  <1> QED
    BY <1>1, <1>2 DEF TrackInv

LEMMA OverrideFits == TrackInv /\ (AddOverride \/ RemoveOverride \/ LiftOptOut) => TrackInv'
  <1> SUFFICES ASSUME TrackInv, AddOverride \/ RemoveOverride \/ LiftOptOut PROVE TrackInv'
    OBVIOUS
  <1>0. TrackTyped /\ CoverInv /\ RevertInv /\ UNCHANGED <<pkgbase, present, entry>>
    BY DEF TrackInv, AddOverride, RemoveOverride, LiftOptOut
  <1>1. CASE AddOverride \/ RemoveOverride
    <2>1. task'.pc \in {"idle", "clear"} /\ asked' = {} /\ UNCHANGED <<optedOut, given>>
      BY <1>1 DEF AddOverride, RemoveOverride, Begins
    <2>2. CoverInv' /\ DecisionHolds'
      BY <1>0, <2>1 DEF CoverInv, Covered, Base, Stock, DecisionHolds
    <2>3. given' \subseteq Package
      BY <1>0, <2>1 DEF TrackTyped
    <2> QED
      BY <1>0, <2>1, <2>2, <2>3, OutsideFits DEF TrackTyped
  <1>2. CASE LiftOptOut
    <2>1. /\ optedOut' = Standing(task.names) /\ given' = TakenBack(task.names) /\ task' = NoTask
          /\ task.pc = "clear" /\ asked' = asked
      BY <1>2 DEF LiftOptOut
    <2>2. CoverInv' /\ given' \subseteq given
      BY <1>0, <2>1, StandingFits
    <2>3. asked' = {} /\ task'.pc = "idle" /\ given' \subseteq Package
      BY <1>0, <2>1, <2>2 DEF RevertInv, NoTask, TrackTyped
    <2>4. DecisionHolds'
      BY <2>3 DEF DecisionHolds
    <2> QED
      BY <1>0, <2>2, <2>3, <2>4, OutsideFits DEF TrackTyped
  <1> QED
    BY <1>1, <1>2

LEMMA BuildsFit == TrackInv /\ (StartBuild \/ FinishBuild \/ UpdateBuilds) => TrackInv'
  <1> SUFFICES ASSUME TrackInv, StartBuild \/ FinishBuild \/ UpdateBuilds PROVE TrackInv'
    OBVIOUS
  <1>0. TrackTyped /\ CoverInv /\ RevertInv /\ UNCHANGED pkgbase
    BY DEF TrackInv, StartBuild, FinishBuild, UpdateBuilds
  <1>1. CASE StartBuild
    <2>1. PICK names : optedOut' = Standing(names) /\ given' = TakenBack(names) /\ task' = [pc |-> "build", names |-> names]
      BY <1>1 DEF StartBuild
    <2>2. CoverInv' /\ given' \subseteq given
      BY <1>0, <2>1, StandingFits
    <2>3. asked' = {} /\ task'.pc = "build" /\ given' \subseteq Package /\ UNCHANGED <<present, entry>>
      BY <1>0, <1>1, <2>1, <2>2 DEF StartBuild, TrackTyped
    <2>4. DecisionHolds'
      BY <2>3 DEF DecisionHolds
    <2> QED
      BY <1>0, <2>2, <2>3, <2>4, OutsideFits DEF TrackTyped
  <1>2. CASE FinishBuild \/ UpdateBuilds
    <2>1. PICK form \in Modes, members \in SUBSET Member : Built(form, members)
      <3>1. CASE FinishBuild
        BY <3>1 DEF FinishBuild
      <3>2. CASE UpdateBuilds
        <4>1. PICK p \in task.plan :
                 Built(IF entry[p] \in Modes THEN entry[p] ELSE "plain",
                       {m \in Member : Target(IF entry[p] \in Modes THEN entry[p] ELSE "plain", m) \in Installed})
          BY <3>2 DEF UpdateBuilds
        <4>2. (IF entry[p] \in Modes THEN entry[p] ELSE "plain") \in Modes
          BY DEF Modes
        <4> QED
          BY <4>1, <4>2
      <3> QED
        BY <1>2, <3>1, <3>2
    <2>2. /\ task.pc \in {"build", "planned"} /\ asked' = asked /\ task' = NoTask /\ UNCHANGED <<optedOut, given>>
      BY <1>2 DEF FinishBuild, UpdateBuilds
    <2>3. asked' = {} /\ task'.pc = "idle" /\ given' \subseteq Package
      BY <1>0, <2>2 DEF RevertInv, NoTask, TrackTyped
    <2>4. CoverInv' /\ DecisionHolds'
      BY <1>0, <2>2, <2>3 DEF CoverInv, Covered, Base, Stock, DecisionHolds
    <2> QED
      BY <1>0, <2>1, <2>3, <2>4, BuiltIs, OutsideFits
  <1> QED
    BY <1>1, <1>2

\* The plan holds what is maintained or asked for and not given up, and nothing that is.
LEMMA PlannedFits == TrackInv /\ StartUpdate => TrackInv'
  <1> SUFFICES ASSUME TrackInv, StartUpdate PROVE TrackInv'
    OBVIOUS
  <1>1. PICK names : /\ optedOut' = Standing(names) /\ given' = TakenBack(names)
                     /\ task' = [pc |-> "planned", names |-> names, plan |-> Walked(SyncedEntries, names)]
    BY DEF StartUpdate
  <1>0. /\ TrackTyped /\ CoverInv /\ asked' = {} /\ entry' = SyncedEntries
        /\ UNCHANGED <<pkgbase, foreign, present, overrides>>
    BY DEF TrackInv, StartUpdate
  <1>2. CoverInv' /\ given' \subseteq given
    BY <1>0, <1>1, StandingFits
  <1>3. task'.pc = "planned" /\ given' \subseteq Package /\ task'.names = names /\ task'.plan = Walked(SyncedEntries, names)
    BY <1>0, <1>1, <1>2 DEF TrackTyped
  <1>4. ASSUME names = {} PROVE /\ task'.plan \cap given' = {}
                                /\ \A p \in Installed' :
                                      (p \in Maintained' \/ (~p.own /\ p.of \in overrides')) /\ p \notin given'
                                          => p \in task'.plan \/ (p = Base' /\ given' # {})
    <2>1. Installed' = Installed /\ Base' = Base
      BY <1>0 DEF Installed, Base, Stock
    <2>2. /\ DOMAIN optedOut' = DOMAIN optedOut
          /\ \A b \in DOMAIN optedOut : optedOut'[b] = optedOut[b]
      BY <1>1, <1>4 DEF Standing
    <2>3. \A p : Covered(p) <=> \E b \in DOMAIN optedOut' : p \in optedOut'[b]
      BY <2>2 DEF Covered
    <2>4. \A p \in given' : Covered(p)
      BY <1>2, <2>3 DEF CoverInv, Covered
    <2>5. \A p : Covered(p) => p \in given' \/ (p = Base /\ given' # {})
      BY <1>2, <2>1, <2>3 DEF CoverInv
    <2>6. \A p : p \in task'.plan <=>
             p \in Installed /\ ~Covered(p) /\ (foreign \/ p.own \/ p.of \in overrides \/ SyncedEntries[p] \in Modes)
      BY <1>3, <1>4 DEF Walked
    <2>7. \A p \in Maintained' : SyncedEntries[p] \in Modes
      BY <1>0 DEF Maintained
    <2> QED
      BY <1>0, <2>1, <2>4, <2>5, <2>6, <2>7
  <1>5. DecisionHolds'
    BY <1>3, <1>4 DEF DecisionHolds
  <1>6. /\ entry' \in [Package -> OwnEntry \cup StockEntry]
        /\ \A m \in Member : entry'[Own(m)] \in OwnEntry /\ entry'[Stock(m)] \in StockEntry
    BY <1>0, SyncedIs
  <1> QED
    BY <1>0, <1>2, <1>3, <1>5, <1>6, OutsideFits DEF TrackTyped

LEMMA AbandonedFits == TrackInv /\ Abandoned => TrackInv'
  <1> SUFFICES ASSUME TrackInv, Abandoned PROVE TrackInv'
    OBVIOUS
  <1>0. /\ TrackTyped /\ CoverInv /\ RevertedIsStock /\ task' = NoTask /\ task'.pc = "idle"
        /\ UNCHANGED <<pkgbase, foreign, present, entry, optedOut, overrides, given, asked>>
    BY DEF TrackInv, Abandoned, NoTask
  <1>1. TrackTyped' /\ CoverInv'
    BY <1>0 DEF TrackTyped, CoverInv, Covered, Base, Stock
  <1>2. RevertInv' /\ DecisionHolds' /\ RevertedIsStock'
    BY <1>0 DEF RevertInv, DecisionHolds, RevertedIsStock, Maintained
  <1> QED
    BY <1>1, <1>2 DEF TrackInv

\* TrackInv holds in every reachable state of the verbs.
THEOREM TrackHolds == TrackSpec => []TrackInv
  <1>1. TrackInv /\ [NextTrack]_trackVars => TrackInv'
    <2> SUFFICES ASSUME TrackInv, [NextTrack]_trackVars PROVE TrackInv'
      OBVIOUS
    <2>1. CASE UNCHANGED trackVars
      <3>1. \A p : StockAgain(p)' <=> StockAgain(p)
        BY <2>1 DEF trackVars, StockAgain, ToForget, Tracked, PkgbaseOf, Base, Stock, Own
      <3>2. \A p : Siblings(p)' = Siblings(p) /\ Base' = Base
        BY <2>1 DEF trackVars, Siblings, Tracked, PkgbaseOf, Base, Stock, Own
      <3>3. RevertInv'
        BY <2>1, <3>1, <3>2 DEF trackVars, TrackInv, RevertInv
      <3>4. TrackTyped' /\ CoverInv'
        BY <2>1, <3>2 DEF trackVars, TrackInv, TrackTyped, CoverInv, Covered
      <3>5. DecisionHolds' /\ RevertedIsStock'
        BY <2>1, <3>2 DEF trackVars, TrackInv, DecisionHolds, RevertedIsStock, Maintained, Installed
      <3> QED
        BY <3>3, <3>4, <3>5 DEF TrackInv
    <2>2. CASE OptOut \/ ForgetRecords \/ StateForget
      BY <2>2, OptOutFits, ForgetFits, StateForgetFits
    <2>3. CASE Revert \/ Restock \/ Uninstall \/ PacmanInstalls
      BY <2>3, RevertFits, RestockFits, UninstallFits, PacmanFits
    <2>4. CASE AddOverride \/ LiftOptOut \/ RemoveOverride
      BY <2>4, OverrideFits
    <2>5. CASE StartBuild \/ FinishBuild \/ StartUpdate \/ UpdateBuilds \/ Abandoned
      BY <2>5, BuildsFit, PlannedFits, AbandonedFits
    <2> QED
      BY <2>1, <2>2, <2>3, <2>4, <2>5 DEF NextTrack
  <1> QED
    BY <1>1, TrackInit, PTL DEF TrackSpec

\* What was reverted or forgotten no update plans until it is named again, what
\* is maintained or asked for every update plans, and a revert that acted leaves
\* the stock build it was asked for (update_assemble, opt_out, apply_reverts).
THEOREM DecisionsHold == TrackSpec => []DecisionsSound
  <1>1. TrackInv => DecisionsSound
    BY DEF TrackInv, DecisionsSound
  <1> QED
    BY <1>1, TrackHolds, PTL
-----------------------------------------------------------------------------
(* The instrumented profile of a package.  ProfileInv says that what a     *)
(* merge is about to prune is in the profile by then, and that a profile   *)
(* which is asked for is one that clang applies.                           *)

\* A verb under way: which of its merge's files are where.
VerbFits ==
    \/ step = Resting
    \/ /\ step.pc \in {"merge", "sidecar", "prune", "build"}
       /\ step.pgo \in {"record", "use", NoVersion}
       /\ step.cc \in {NoVersion, "clang"} \/ (step.cc = "gcc" /\ step.pgo = NoVersion)
       /\ step.pc \in {"sidecar", "prune"} => step.inputs \subseteq merged.of
       /\ step = [pc |-> step.pc, pgo |-> step.pgo, cc |-> step.cc, inputs |-> step.inputs]

ProfileInv ==
    /\ setup.profile \in Compiler
    /\ merged = [of |-> merged.of, sidecar |-> merged.sidecar]
    /\ VerbFits
    /\ RecordTellsProfile

LEMMA PgoInit == InitPgo => ProfileInv
  BY NoVersionApart DEF InitPgo, ProfileInv, VerbFits, RecordTellsProfile, RepoBuild, NoProfile

\* What is recorded of a build is what it was given.
LEMMA BuildTold ==
    ASSUME ProfileInv, BuildAndInstall
    PROVE  ProfileInv'
<1> USE NoVersionApart DEF ProfileInv, VerbFits, Compiler
<1>1. step # Resting /\ step' = Resting /\ setup' = setup /\ merged' = merged
  BY DEF BuildAndInstall, Resting
<1>2. ASSUME setup.profile = "clang" PROVE noted'.mode = "pgo" <=> onSystem'.form = "profiled"
  <2>1. Given(step.cc) = "gcc" <=> step.cc = "gcc"
    BY <1>2 DEF Given
  <2>2. noted'.mode = "pgo" <=> Applies
    BY DEF BuildAndInstall, Noted
  <2>3. onSystem'.form = "profiled" <=> step.cc # "gcc" /\ step.pgo # "record" /\ Applies
    BY <2>1 DEF BuildAndInstall, FormOf
  <2>4. Applies => step.cc # "gcc" /\ step.pgo # "record"
    BY <1>1 DEF Applies, ReuseCompiler
  <2> QED  BY <2>2, <2>3, <2>4
<1> QED  BY <1>1, <1>2 DEF RecordTellsProfile

LEMMA PgoStep == ProfileInv /\ [NextPgo]_pgoVars => ProfileInv'
<1> SUFFICES ASSUME ProfileInv, [NextPgo]_pgoVars PROVE ProfileInv'
  OBVIOUS
<1> USE NoVersionApart DEF ProfileInv, VerbFits, RecordTellsProfile
<1>1. CASE ReleaseOne \/ Workload
  BY <1>1 DEF ReleaseOne, Workload
<1>2. CASE DeleteStore
  BY <1>2 DEF DeleteStore, Begin, NoProfile
<1>3. CASE RevertPackage
  BY <1>3 DEF RevertPackage, Begin, RepoBuild
<1>4. CASE StartPgo
  BY <1>4 DEF StartPgo, Begin
<1>5. CASE MergeProfile
  BY <1>5 DEF MergeProfile, MergedOf, Resting
<1>6. CASE WriteSidecar
  BY <1>6 DEF WriteSidecar, Resting
<1>7. CASE PruneSamples
  BY <1>7 DEF PruneSamples, Resting
<1>8. CASE StartPlain
  BY <1>8 DEF StartPlain, Begin
<1>9. CASE BuildAndInstall
  BY <1>9, BuildTold
<1>10. CASE Interrupted
  BY <1>10 DEF Interrupted
<1>11. CASE UNCHANGED pgoVars
  BY <1>11 DEF pgoVars
<1> QED
  BY <1>1, <1>2, <1>3, <1>4, <1>5, <1>6, <1>7, <1>8, <1>9, <1>10, <1>11 DEF NextPgo

\* A merge adds, and prunes what it has added.
LEMMA NoneLost == ProfileInv /\ [NextPgo]_pgoVars => DeleteStore \/ LosesNone
<1> SUFFICES ASSUME ProfileInv, [NextPgo]_pgoVars, ~DeleteStore PROVE LosesNone
  OBVIOUS
<1> USE DEF LosesNone
<1>1. CASE Workload
  BY <1>1 DEF Workload
<1>2. CASE MergeProfile
  BY <1>2 DEF MergeProfile, MergedOf, ProfileInv
<1>3. CASE WriteSidecar
  BY <1>3 DEF WriteSidecar, ProfileInv
<1>4. CASE PruneSamples
  <2>1. step.inputs \subseteq merged.of
    BY <1>4 DEF PruneSamples, ProfileInv, VerbFits, Resting
  <2> QED  BY <1>4, <2>1 DEF PruneSamples
<1>5. CASE UNCHANGED <<raw, merged>>
  BY <1>5
<1> QED
  BY <1>1, <1>2, <1>3, <1>4, <1>5
  DEF NextPgo, pgoVars, ReleaseOne, RevertPackage, StartPgo, StartPlain, BuildAndInstall, Interrupted

(* No step of a record, use or plain build loses a sample or leaves a      *)
(* record that is not true, wherever a merge was killed: merge_profraw,    *)
(* makepkg_wrapper.run.                                                    *)
THEOREM SamplesStay == PgoSpec => SamplesKept
<1>1. ProfileInv /\ ProfileInv' /\ [NextPgo]_pgoVars
      => [(DeleteStore \/ LosesNone) /\ RecordTellsProfile']_pgoVars
  BY NoneLost DEF ProfileInv
<1> QED
  BY <1>1, PgoInit, PgoStep, PTL DEF PgoSpec, SamplesKept

-----------------------------------------------------------------------------
(* The progress bar.  BarTyped; RowInv says what a resize and a yield leave  *)
(* of the row, ClockInv how the clocks stand while somebody else has the     *)
(* terminal, and NamesInv which steps were begun.                            *)

Labels == {"p", Off}
Lines == [of : {"stale", "step", "tracker", "phase"}, counts : Seq(Nat), label : Labels]
Bars == [reserved : BOOLEAN, drawn : Lines \cup {Off}, resized : BOOLEAN]
Terms == [region : BOOLEAN, row : Lines \cup {Off}, tall : BOOLEAN]
Trackers == [index : Nat, started : Nat, lastTick : Int, paused : Int, since : Nat \cup {Off}, atWork : Nat]
StepsOf(S) == [names : Seq(S), index : Nat, started : Int, saved : Labels, atWork : Nat]

BarTyped ==
    /\ mode \in {"tty", "plain"} /\ open \in Seq({"tracker", "steps", "prompt", "child"})
    /\ phase \in Labels /\ yielded \in {"prompt", "child", Off}
    /\ bar \in Bars /\ term \in Terms /\ now \in Nat /\ worked \in Nat
    /\ paused \in [total : Int, since : Nat \cup {Off}]
    /\ tracker # Off => tracker \in Trackers

\* What is not reserved shows nothing.
Fit(at) ==
    /\ at.bar \in Bars /\ at.term \in Terms
    /\ ~at.bar.reserved => at.bar.drawn = Off /\ at.term.row = Off /\ ~at.term.region
    /\ IF at.bar.resized THEN ~at.term.region
       ELSE at.term.region = at.bar.reserved /\ at.term.row = at.bar.drawn

RowInv ==
    mode = "tty" =>
        /\ Fit(Here)
        /\ yielded # Off => bar.drawn = Off
        /\ yielded = "child" => ~bar.reserved

ClockInv ==
    mode = "tty" =>
        /\ paused.since # Off <=> Yielding(open)
        /\ worked = BarTime
        /\ tracker # Off =>
             /\ tracker.since # Off <=> Yielding(open)
             /\ TrackerTime(tracker) - tracker.started = worked - tracker.atWork
        /\ steps # Off => steps.started = steps.atWork
        /\ report.said = report.was

NamesInv ==
    steps # Off =>
        \E S : /\ steps \in StepsOf(S) /\ steps.index <= Len(steps.names)
               /\ begunSteps = SubSeq(steps.names, 1, steps.index)

BarInv == BarTyped /\ RowInv /\ ClockInv /\ NamesInv

LEMMA TextIsLine ==
    ASSUME BarTyped, NamesInv, NEW p \in Labels, NEW t, t # Off => t \in Trackers,
           NEW s, s # Off => \E S : s \in StepsOf(S)
    PROVE  Text(p, t, s) \in Lines \cup {Off}
<1>1. ASSUME NEW of \in {"stale", "step", "tracker", "phase"}, NEW c \in Seq(Nat), NEW l \in Labels
      PROVE  Line(of, c, l) \in Lines
  BY <1>1 DEF Line, Lines
<1>2. Off \in Labels
  BY DEF Labels
<1>3. CASE s # Off /\ s.index > 0
  <2>1. PICK S : s \in StepsOf(S)
    BY <1>3
  <2>2. s.index \in Nat /\ Len(s.names) \in Nat
    BY <2>1, LenProperties DEF StepsOf
  <2>3. <<s.index, Len(s.names)>> \in Seq(Nat)
    BY <2>2
  <2>4. t # Off => <<s.index, Len(s.names), t.index>> \in Seq(Nat)
    BY <2>2 DEF Trackers
  <2> QED  BY <1>1, <1>2, <1>3, <2>3, <2>4 DEF Text
<1>4. CASE ~(s # Off /\ s.index > 0) /\ t # Off
  <2>1. <<t.index>> \in Seq(Nat)
    BY <1>4 DEF Trackers
  <2> QED  BY <1>1, <1>2, <1>4, <2>1 DEF Text
<1>5. CASE ~(s # Off /\ s.index > 0) /\ t = Off
  <2>1. <<>> \in Seq(Nat)
    BY EmptySeq
  <2> QED  BY <1>1, <1>5, <2>1 DEF Text
<1> QED  BY <1>3, <1>4, <1>5

Ats == [bar : Bars, term : Terms]

LEMMA FreedFits == ASSUME NEW at \in Ats, Fit(at)
    PROVE  /\ Freed(at) \in Ats /\ Fit(Freed(at)) /\ ~Freed(at).bar.reserved /\ Freed(at).bar.drawn = Off
           /\ Freed(at).bar.resized = at.bar.resized
<1>1. Freed(at) \in Ats
  BY DEF Freed, Ats, Bars, Terms
<1> QED  BY <1>1 DEF Freed, Ats, Fit, Bars, Terms

LEMMA BlankFits == ASSUME NEW at \in Ats, Fit(at)
    PROVE  Blank(at) \in Ats /\ Fit(Blank(at)) /\ Blank(at).bar.drawn = Off
<1>1. Blank(at) \in Ats
  BY DEF Blank, Ats, Bars, Terms
<1> QED  BY <1>1 DEF Blank, Ats, Fit, Bars, Terms

\* _draw, after a resize or not.
LEMMA DrawnFits ==
    ASSUME NEW at \in Ats, Fit(at), NEW text \in Lines \cup {Off}
    PROVE  Drawn(at, text, Off) \in Ats /\ Fit(Drawn(at, text, Off))
<1> DEFINE fresh == IF at.bar.resized THEN [Freed(at) EXCEPT !.bar.resized = FALSE] ELSE at
           placed == Establish(fresh)
           shown == [bar |-> [placed.bar EXCEPT !.drawn = text], term |-> [placed.term EXCEPT !.row = text]]
<1>1. fresh \in Ats /\ Fit(fresh) /\ ~fresh.bar.resized
  <2>1. CASE at.bar.resized
    <3>1. Freed(at) \in Ats /\ Fit(Freed(at)) /\ ~Freed(at).bar.reserved
      BY FreedFits
    <3>2. fresh = [Freed(at) EXCEPT !.bar.resized = FALSE]
      BY <2>1
    <3>3. fresh \in Ats
      BY <3>1, <3>2 DEF Ats, Bars
    <3> QED  BY <3>1, <3>2, <3>3 DEF Ats, Fit, Bars, Terms
  <2>2. CASE ~at.bar.resized
    BY <2>2
  <2> QED  BY <2>1, <2>2
<1> HIDE DEF fresh
<1>2. placed \in Ats /\ ~placed.bar.resized /\ (placed.bar.reserved => placed.term.region)
      /\ (~placed.bar.reserved => placed = fresh)
  BY <1>1 DEF Establish, Ats, Bars, Terms, Fit
<1>3. Freed(fresh) \in Ats /\ Fit(Freed(fresh))
  BY <1>1, FreedFits
<1> HIDE DEF placed
<1>4. placed.bar.reserved => shown \in Ats /\ Fit(shown)
  <2>1. shown \in Ats
    BY <1>2 DEF Ats, Bars, Terms
  <2> QED  BY <1>2, <2>1 DEF Ats, Bars, Terms, Fit
<1>5. ~placed.bar.reserved => Fit(placed)
  BY <1>1, <1>2
<1>6. Drawn(at, text, Off) = IF text = Off THEN Freed(fresh)
             ELSE IF text = fresh.bar.drawn THEN fresh
             ELSE IF ~placed.bar.reserved THEN placed
             ELSE shown
  BY DEF Drawn, fresh, placed
<1> HIDE DEF shown
<1> QED  BY <1>1, <1>2, <1>3, <1>4, <1>5, <1>6

\* Every step shows, or leaves be while somebody else has the terminal.
LEMMA ShowFits ==
    ASSUME BarInv, NEW p \in Labels, NEW t, t # Off => t \in Trackers,
           NEW s, s # Off => \E S : s \in StepsOf(S),
           NEW to, to \in {yielded, Off}, Show(p, t, s, to), mode' = mode, yielded' = to
    PROVE  bar' \in Bars /\ term' \in Terms /\ RowInv'
<1> DEFINE text == Text(p, t, s)
<1>1. text \in Lines \cup {Off}
  BY TextIsLine DEF BarInv
<1>2. Here \in Ats /\ Here.bar = bar /\ Here.term = term
  BY DEF Here, Ats, BarInv, BarTyped
<1> HIDE DEF text
<1>3. CASE mode = "plain"
  <2>1. bar' = [Here EXCEPT !.bar.drawn = text].bar /\ term' = [Here EXCEPT !.bar.drawn = text].term
    BY <1>3 DEF Show, text
  <2>2. [Here EXCEPT !.bar.drawn = text] \in Ats
    BY <1>1, <1>2 DEF Ats, Bars
  <2> QED  BY <1>3, <2>1, <2>2 DEF Ats, RowInv
<1>4. CASE mode # "plain" /\ to # Off
  <2>1. Drawn(Here, text, to) = Here
    BY <1>4 DEF Drawn
  <2>2. bar' = bar /\ term' = term
    BY <1>2, <1>4, <2>1 DEF Show, text
  <2> QED  BY <1>4, <2>2 DEF RowInv, BarInv, BarTyped, Fit, Here
<1>5. CASE mode # "plain" /\ to = Off
  <2>1. Fit(Here)
    BY <1>5 DEF BarInv, BarTyped, RowInv
  <2>2. Drawn(Here, text, Off) \in Ats /\ Fit(Drawn(Here, text, Off))
    BY <1>1, <1>2, <2>1, DrawnFits
  <2>3. bar' = Drawn(Here, text, Off).bar /\ term' = Drawn(Here, text, Off).term
    BY <1>5 DEF Show, text
  <2>4. Fit(Here')
    BY <2>2, <2>3 DEF Here, Fit
  <2> QED  BY <1>5, <2>2, <2>3, <2>4, OffApart DEF Ats, RowInv, Here, Fit
<1> QED  BY <1>3, <1>4, <1>5

-----------------------------------------------------------------------------
(* Nesting, and the steps that were begun.                                  *)

Contexts == {"tracker", "steps", "prompt", "child"}

LEMMA OpenedOver ==
    ASSUME NEW of \in Seq(Contexts), NEW k \in Contexts
    PROVE  /\ Append(of, k) \in Seq(Contexts)
           /\ Yielding(Append(of, k)) <=> Yielding(of) \/ k \in {"prompt", "child"}
<1>1. /\ Append(of, k) \in Seq(Contexts) /\ Len(Append(of, k)) = Len(of) + 1 /\ Len(of) \in Nat
      /\ \A i \in 1 .. Len(of) : Append(of, k)[i] = of[i]
      /\ Append(of, k)[Len(of) + 1] = k
  BY AppendProperties, LenProperties
<1>2. DOMAIN of = 1 .. Len(of) /\ DOMAIN Append(of, k) = 1 .. Len(of) + 1
  BY <1>1, LenProperties
<1> QED  BY <1>1, <1>2 DEF Yielding

LEMMA ClosedOver ==
    ASSUME NEW of \in Seq(Contexts), of # <<>>
    PROVE  /\ Front(of) \in Seq(Contexts)
           /\ Yielding(of) <=> Yielding(Front(of)) \/ Last(of) \in {"prompt", "child"}
<1>1. Len(of) \in Nat \ {0} /\ DOMAIN of = 1 .. Len(of) /\ \A i \in 1 .. Len(of) : of[i] \in Contexts
  BY EmptySeq, LenProperties, ElementOfSeq
<1>2. /\ Front(of) \in Seq(Contexts) /\ Len(Front(of)) = Len(of) - 1
      /\ \A i \in 1 .. Len(of) - 1 : Front(of)[i] = of[i]
  <2>1. 1 \in Int /\ Len(of) - 1 \in Int /\ \A i \in 1 .. Len(of) - 1 : of[i] \in Contexts
    BY <1>1
  <2>2. /\ SubSeq(of, 1, Len(of) - 1) \in Seq(Contexts)
        /\ Len(SubSeq(of, 1, Len(of) - 1)) = IF 1 <= Len(of) - 1 THEN Len(of) - 1 - 1 + 1 ELSE 0
        /\ \A i \in 1 .. Len(of) - 1 - 1 + 1 : SubSeq(of, 1, Len(of) - 1)[i] = of[1 + i - 1]
    BY <2>1, SubSeqProperties
  <2> QED  BY <1>1, <2>2 DEF Front
<1>3. DOMAIN Front(of) = 1 .. Len(of) - 1
  BY <1>2, LenProperties
<1> QED  BY <1>1, <1>2, <1>3 DEF Yielding, Last

LEMMA Cut ==
    ASSUME NEW S, NEW s \in Seq(S), NEW m \in Nat \ {0}, NEW n \in Nat, n <= Len(s)
    PROVE  /\ SubSeq(s, m, n) \in Seq(S)
           /\ Len(SubSeq(s, m, n)) = (IF m <= n THEN n - m + 1 ELSE 0)
           /\ \A i \in 1 .. n - m + 1 : SubSeq(s, m, n)[i] = s[m + i - 1]
<1>1. \A i \in m .. n : s[i] \in S
  BY ElementOfSeq, LenProperties
<1> QED  BY <1>1, SubSeqProperties

LEMMA Before ==
    ASSUME NEW S, NEW s \in Seq(S), NEW t \in Seq(S)
    PROVE  SubSeq(s \o t, 1, Len(s)) = s
<1>1. /\ s \o t \in Seq(S) /\ Len(s \o t) = Len(s) + Len(t) /\ Len(s) \in Nat /\ Len(t) \in Nat
      /\ \A i \in 1 .. Len(s) + Len(t) : (s \o t)[i] = IF i <= Len(s) THEN s[i] ELSE t[i - Len(s)]
  BY ConcatProperties, LenProperties
<1> DEFINE b == SubSeq(s \o t, 1, Len(s))
<1>2. b \in Seq(S) /\ Len(b) = Len(s) /\ \A i \in 1 .. Len(s) : b[i] = (s \o t)[i]
  <2>1. 1 \in Nat \ {0} /\ Len(s) <= Len(s \o t)
    BY <1>1
  <2>2. /\ b \in Seq(S) /\ Len(b) = (IF 1 <= Len(s) THEN Len(s) - 1 + 1 ELSE 0)
        /\ \A i \in 1 .. Len(s) - 1 + 1 : b[i] = (s \o t)[1 + i - 1]
    BY <1>1, <2>1, Cut
  <2> HIDE DEF b
  <2> QED  BY <1>1, <2>2
<1> HIDE DEF b
<1>3. \A i \in 1 .. Len(s) : b[i] = s[i]
  BY <1>1, <1>2
<1> QED  BY <1>2, <1>3, SeqEqual DEF b

LEMMA OneMore ==
    ASSUME NEW S, NEW s \in Seq(S), NEW t \in Seq(S), Len(t) > 0
    PROVE  /\ s \o t \in Seq(S) /\ Len(s) + 1 <= Len(s \o t)
           /\ SubSeq(s \o t, 1, Len(s) + 1) = Append(s, t[1])
<1> DEFINE u == s \o t
<1>1. /\ u \in Seq(S) /\ Len(u) = Len(s) + Len(t) /\ Len(s) \in Nat /\ Len(t) \in Nat
      /\ \A i \in 1 .. Len(s) + Len(t) : u[i] = IF i <= Len(s) THEN s[i] ELSE t[i - Len(s)]
  BY ConcatProperties, LenProperties
<1> HIDE DEF u
<1>2. 1 \in 1 .. Len(t) /\ Len(s) + 1 \in Nat /\ Len(s) + 1 <= Len(u)
  BY <1>1
<1> DEFINE b == SubSeq(u, 1, Len(s) + 1)
           a == Append(s, t[1])
<1>3. b \in Seq(S) /\ Len(b) = Len(s) + 1 /\ \A i \in 1 .. Len(s) + 1 : b[i] = u[i]
  <2>1. /\ b \in Seq(S) /\ Len(b) = (IF 1 <= Len(s) + 1 THEN Len(s) + 1 - 1 + 1 ELSE 0)
        /\ \A i \in 1 .. Len(s) + 1 - 1 + 1 : b[i] = u[1 + i - 1]
    BY <1>1, <1>2, Cut
  <2> HIDE DEF b
  <2> QED  BY <1>1, <2>1
<1>4. t[1] \in S
  BY <1>2, ElementOfSeq
<1>5. /\ a \in Seq(S) /\ Len(a) = Len(s) + 1 /\ a[Len(s) + 1] = t[1]
      /\ \A i \in 1 .. Len(s) : a[i] = s[i]
  BY <1>4, AppendProperties
<1> HIDE DEF a, b
<1>6. ASSUME NEW i \in 1 .. Len(s) + 1 PROVE b[i] = a[i]
  <2>1. CASE i <= Len(s)
    BY <1>1, <1>3, <1>5, <2>1
  <2>2. CASE i = Len(s) + 1
    <3>1. i - Len(s) = 1 /\ ~(i <= Len(s)) /\ i \in 1 .. Len(s) + Len(t)
      BY <1>1, <1>2, <2>2
    <3> QED  BY <1>1, <1>3, <1>5, <2>2, <3>1
  <2> QED  BY <1>1, <2>1, <2>2
<1>7. b = a
  BY <1>3, <1>5, <1>6, SeqEqual
<1> QED  BY <1>1, <1>2, <1>7 DEF a, b, u

LEMMA FirstOne ==
    ASSUME NEW T \in SUBSET Nat, T # {}
    PROVE  \E i \in T : \A j \in T : i <= j
<1> DEFINE Less == {ss \in Nat \X Nat : ss[1] < ss[2]}
<1>1. IsWellFoundedOn(Less, Nat)
  BY NatLessThanWellFounded, Zenon DEF OpToRel
<1>2. PICK i \in T : \A j \in T : ~(<<j, i>> \in Less)
  BY <1>1, WFMin
<1>3. ASSUME NEW j \in T PROVE i <= j
  <2>1. ~(<<j, i>> \in Less)
    BY <1>2
  <2> QED BY <2>1
<1> QED BY <1>3

\* begin_step: what it puts ahead begins with the step.
LEMMA AheadBegins ==
    ASSUME NEW S, NEW s \in StepsOf(S), s.index <= Len(s.names), NEW name \in S
    PROVE  Ahead(s, name) \in Seq(S) /\ Len(Ahead(s, name)) > 0 /\ Ahead(s, name)[1] = name
<1> DEFINE rest == SubSeq(s.names, s.index + 1, Len(s.names))
           I == {i \in 1 .. Len(rest) : rest[i] = name}
<1>1. rest \in Seq(S) /\ Len(rest) \in Nat
  <2>1. s.names \in Seq(S) /\ Len(s.names) \in Nat /\ s.index + 1 \in Nat \ {0}
    BY LenProperties DEF StepsOf
  <2>2. rest \in Seq(S)
    BY <2>1, Cut
  <2> QED  BY <2>2, LenProperties
<1>2. Ahead(s, name) = IF Contains(rest, name) THEN SubSeq(rest, SelectInSeq(rest, LAMBDA n : n = name), Len(rest))
                       ELSE <<name>> \o rest
  BY DEF Ahead
<1> HIDE DEF rest
<1>3. CASE Contains(rest, name)
  <2>1. I # {} /\ I \in SUBSET Nat
    BY <1>3 DEF Contains
  <2>2. PICK i \in I : \A j \in I : i <= j
    BY <2>1, FirstOne
  <2> DEFINE m == SelectInSeq(rest, LAMBDA n : n = name)
  <2>3. m = Min(I)
    BY <2>1 DEF SelectInSeq
  <2>4. m \in I
    BY <2>2, <2>3 DEF Min
  <2>5. m \in Nat \ {0} /\ m <= Len(rest) /\ rest[m] = name
    BY <1>1, <2>4
  <2> HIDE DEF m
  <2>6. /\ SubSeq(rest, m, Len(rest)) \in Seq(S)
        /\ Len(SubSeq(rest, m, Len(rest))) = (IF m <= Len(rest) THEN Len(rest) - m + 1 ELSE 0)
        /\ \A k \in 1 .. Len(rest) - m + 1 : SubSeq(rest, m, Len(rest))[k] = rest[m + k - 1]
    BY <1>1, <2>5, Cut
  <2>7. Ahead(s, name) = SubSeq(rest, m, Len(rest))
    BY <1>2, <1>3 DEF m
  <2> QED  BY <1>1, <2>5, <2>6, <2>7
<1>4. CASE ~Contains(rest, name)
  <2>1. <<name>> \in Seq(S) /\ Len(<<name>>) = 1 /\ <<name>>[1] = name
    OBVIOUS
  <2>2. /\ <<name>> \o rest \in Seq(S) /\ Len(<<name>> \o rest) = Len(<<name>>) + Len(rest)
        /\ \A i \in 1 .. Len(<<name>>) + Len(rest) :
              (<<name>> \o rest)[i] = IF i <= Len(<<name>>) THEN <<name>>[i] ELSE rest[i - Len(<<name>>)]
    BY <1>1, <2>1, ConcatProperties, Zenon
  <2> QED  BY <1>1, <1>2, <1>4, <2>1, <2>2
<1> QED  BY <1>3, <1>4

\* The steps of a plan, whichever of them were not begun.
LEMMA WithoutIsSeq ==
    ASSUME NEW plan \in Seq(StepNames), NEW done
    PROVE  \E S : Without(plan, done) \in Seq(S)
<1> DEFINE left == {i \in DOMAIN plan : ~Contains(done, plan[i])}
           At(n) == plan[CHOOSE i \in left : Cardinality({j \in left : j <= i}) = n]
           size == Cardinality(left)
           S == {At(n) : n \in 1 .. size}
<1>1. size \in Nat
  <2>1. IsFiniteSet(1 .. Len(plan)) /\ DOMAIN plan = 1 .. Len(plan)
    BY LenProperties, FS_Interval
  <2>2. IsFiniteSet(left)
    BY <2>1, FS_Subset
  <2> QED  BY <2>2, FS_CardinalityType
<1>2. Without(plan, done) = [n \in 1 .. size |-> At(n)]
  BY DEF Without
<1> HIDE DEF size, At
<1>3. \A n \in 1 .. size : At(n) \in S
  OBVIOUS
<1> HIDE DEF S
<1>4. [n \in 1 .. size |-> At(n)] \in Seq(S)
  BY <1>1, <1>3, IsASeq
<1> QED  BY <1>2, <1>4

-----------------------------------------------------------------------------
(* The steps.                                                               *)

LEMMA BarInit == InitProgress => BarInv
<1> SUFFICES ASSUME InitProgress PROVE BarInv
  OBVIOUS
<1> USE DEF InitProgress
<1>1. BarTyped
  <2>1. <<>> \in Seq(Contexts)
    BY EmptySeq
  <2> QED  BY <2>1 DEF BarTyped, Bars, Terms, Labels, Unpaused, Contexts
<1>2. RowInv
  BY DEF RowInv, Fit, Here, Bars, Terms
<1>3. ~Yielding(open)
  <2>1. DOMAIN open = {}
    OBVIOUS
  <2> QED  BY <2>1 DEF Yielding
<1>4. ClockInv
  BY <1>3 DEF ClockInv, BarTime, Active, Unpaused
<1>5. NamesInv
  BY DEF NamesInv
<1> QED  BY <1>1, <1>2, <1>4, <1>5 DEF BarInv

\* What is typed of the clocks, for the steps to use.
LEMMA ClocksAre ==
    ASSUME BarInv
    PROVE  /\ now \in Nat /\ worked \in Nat /\ BarTime \in Int /\ paused.total \in Int /\ paused.since \in Nat \cup {Off}
           /\ tracker # Off => /\ TrackerTime(tracker) \in Int /\ tracker.paused \in Int /\ tracker.started \in Nat
                               /\ tracker.since \in Nat \cup {Off} /\ tracker.atWork \in Nat /\ tracker.index \in Nat
           /\ \A n \in Nat : n # Off
<1>1. now \in Nat /\ worked \in Nat /\ paused.total \in Int /\ paused.since \in Nat \cup {Off}
  BY DEF BarInv, BarTyped
<1>2. BarTime \in Int
  BY <1>1 DEF BarTime, Active
<1>3. tracker # Off => /\ tracker.paused \in Int /\ tracker.started \in Nat
                       /\ tracker.since \in Nat \cup {Off} /\ tracker.atWork \in Nat /\ tracker.index \in Nat
  BY DEF BarInv, BarTyped, Trackers
<1>4. tracker # Off => TrackerTime(tracker) \in Int
  BY <1>1, <1>3 DEF TrackerTime, Active
<1> QED  BY <1>1, <1>2, <1>3, <1>4, OffApart

LEMMA NamesStay == ASSUME NamesInv, UNCHANGED <<steps, begunSteps>> PROVE NamesInv' /\ (steps # Off => \E S : steps \in StepsOf(S))
  BY DEF NamesInv

LEMMA TimePasses == BarInv /\ Passes => BarInv'
<1> SUFFICES ASSUME BarInv, Passes PROVE BarInv'
  OBVIOUS
<1> USE DEF Passes
<1>1. BarTyped'
  BY DEF BarInv, BarTyped
<1>2. RowInv' /\ NamesInv'
  BY NamesStay DEF BarInv, RowInv, Fit, Here
<1>3. ClockInv'
  BY ClocksAre DEF BarInv, ClockInv, BarTime, TrackerTime, Active
<1> QED  BY <1>1, <1>2, <1>3 DEF BarInv

LEMMA PhaseSet == BarInv /\ SetPhase => BarInv'
<1> SUFFICES ASSUME BarInv, SetPhase PROVE BarInv'
  OBVIOUS
<1> USE DEF SetPhase
<1>1. PICK label \in {"p", Off} : phase' = label /\ Show(label, tracker, steps, yielded)
  OBVIOUS
<1>2. bar' \in Bars /\ term' \in Terms /\ RowInv'
  BY <1>1, ShowFits DEF BarInv, BarTyped, NamesInv, Labels
<1>3. BarTyped'
  BY <1>1, <1>2 DEF BarInv, BarTyped, Labels
<1>4. ClockInv' /\ NamesInv'
  BY NamesStay DEF BarInv, ClockInv, BarTime, TrackerTime, Active
<1> QED  BY <1>2, <1>3, <1>4 DEF BarInv

LEMMA TrackerOpened == BarInv /\ OpenTracker => BarInv'
<1> SUFFICES ASSUME BarInv, OpenTracker PROVE BarInv'
  OBVIOUS
<1> USE DEF OpenTracker
<1>1. open' \in Seq(Contexts) /\ (Yielding(open') <=> Yielding(open))
  BY OpenedOver DEF BarInv, BarTyped, Contexts
<1>2. tracker' \in Trackers
  BY ClocksAre DEF NewTracker, Trackers
<1>3. bar' \in Bars /\ term' \in Terms /\ RowInv'
  BY <1>2, ShowFits DEF BarInv, BarTyped, NamesInv
<1>4. BarTyped'
  BY <1>1, <1>2, <1>3 DEF BarInv, BarTyped, Contexts
<1>5. ClockInv'
  BY <1>1, ClocksAre DEF BarInv, ClockInv, BarTime, TrackerTime, Active, NewTracker
<1> QED  BY <1>3, <1>4, <1>5, NamesStay DEF BarInv

LEMMA Ticked == BarInv /\ Tick => BarInv'
<1> SUFFICES ASSUME BarInv, Tick PROVE BarInv'
  OBVIOUS
<1> USE DEF Tick
<1>1. tracker \in Trackers /\ TrackerTime(tracker) \in Int
  BY ClocksAre DEF BarInv, BarTyped
<1>2. /\ tracker' \in Trackers /\ tracker'.since = tracker.since /\ tracker'.paused = tracker.paused
      /\ tracker'.started = tracker.started /\ tracker'.atWork = tracker.atWork
  <2>1. tracker' = [tracker EXCEPT !.index = @ + 1, !.lastTick = TrackerTime(tracker)]
    OBVIOUS
  <2> HIDE DEF Tick
  <2>2. tracker.index + 1 \in Nat
    BY <1>1 DEF Trackers
  <2>3. tracker' \in Trackers
    BY <1>1, <2>1, <2>2 DEF Trackers
  <2> QED  BY <1>1, <2>1, <2>3 DEF Trackers
<1>3. bar' \in Bars /\ term' \in Terms /\ RowInv'
  BY <1>2, ShowFits DEF BarInv, BarTyped, NamesInv
<1>4. BarTyped'
  BY <1>2, <1>3 DEF BarInv, BarTyped
<1>5. ClockInv'
  BY <1>2 DEF BarInv, ClockInv, BarTime, TrackerTime, Active
<1> QED  BY <1>3, <1>4, <1>5, NamesStay DEF BarInv

LEMMA TrackerClosed == BarInv /\ CloseTracker => BarInv'
<1> SUFFICES ASSUME BarInv, CloseTracker PROVE BarInv'
  OBVIOUS
<1> USE DEF CloseTracker, Closes
<1>1. open' \in Seq(Contexts) /\ (Yielding(open') <=> Yielding(open))
  BY ClosedOver DEF BarInv, BarTyped, Contexts
<1>2. bar' \in Bars /\ term' \in Terms /\ RowInv'
  BY ShowFits DEF BarInv, BarTyped, NamesInv
<1>3. BarTyped'
  BY <1>1, <1>2 DEF BarInv, BarTyped, Contexts
<1>4. ClockInv'
  BY <1>1 DEF BarInv, ClockInv, BarTime, Active
<1> QED  BY <1>2, <1>3, <1>4, NamesStay DEF BarInv

LEMMA StepsOpened == BarInv /\ OpenSteps => BarInv'
<1> SUFFICES ASSUME BarInv, OpenSteps PROVE BarInv'
  OBVIOUS
<1> USE DEF OpenSteps
<1>1. open' \in Seq(Contexts) /\ (Yielding(open') <=> Yielding(open))
  BY OpenedOver DEF BarInv, BarTyped, Contexts
<1>2. PICK plan \in Plans :
         steps' = [names |-> plan, index |-> 0, started |-> BarTime, saved |-> phase, atWork |-> worked]
  OBVIOUS
<1>3. plan \in Seq(StepNames)
  BY PlansListed
<1>4. BarTyped' /\ RowInv'
  BY <1>1 DEF BarInv, BarTyped, RowInv, Fit, Here, Contexts
<1>5. ClockInv'
  BY <1>1, <1>2 DEF BarInv, ClockInv, BarTime, TrackerTime, Active
<1>6. NamesInv'
  <2>1. steps' \in StepsOf(StepNames)
    BY <1>2, <1>3, ClocksAre DEF StepsOf, BarInv, BarTyped
  <2>2. SubSeq(plan, 1, 0) = <<>> /\ Len(plan) \in Nat
    BY <1>3, SubSeqEmpty, LenProperties
  <2> QED  BY <1>2, <2>1, <2>2 DEF NamesInv
<1> QED  BY <1>4, <1>5, <1>6 DEF BarInv

LEMMA FinishedSaid ==
    ASSUME BarInv, mode = "tty", steps # Off
    PROVE  Finished(steps).said = Finished(steps).was
  BY DEF BarInv, ClockInv, Finished

LEMMA StepBegun == BarInv /\ BeginStep => BarInv'
<1> SUFFICES ASSUME BarInv, BeginStep PROVE BarInv'
  OBVIOUS
<1> USE DEF BeginStep
<1>1. PICK name \in StepNames :
        /\ report' = Finished(steps)
        /\ steps' = [steps EXCEPT !.names = SubSeq(@, 1, steps.index) \o Ahead(steps, name),
                                  !.index = @ + 1, !.started = BarTime, !.atWork = worked]
        /\ begunSteps' = Append(begunSteps, name)
  OBVIOUS
<1>2. PICK T : /\ steps \in StepsOf(T) /\ steps.index <= Len(steps.names)
               /\ begunSteps = SubSeq(steps.names, 1, steps.index)
  BY DEF BarInv, NamesInv
<1> DEFINE S == T \cup StepNames
           names == begunSteps \o Ahead(steps, name)
<1>3. steps \in StepsOf(S) /\ name \in S
  <2>1. steps.names \in Seq(S)
    BY <1>2, SeqMonotonic DEF StepsOf
  <2> QED  BY <1>2, <2>1 DEF StepsOf
<1> HIDE DEF S
<1>4. steps.names \in Seq(S) /\ steps.index \in Nat /\ Len(steps.names) \in Nat
  BY <1>3, LenProperties DEF StepsOf
<1>5. begunSteps \in Seq(S) /\ Len(begunSteps) = steps.index
  <2>1. /\ SubSeq(steps.names, 1, steps.index) \in Seq(S)
        /\ Len(SubSeq(steps.names, 1, steps.index)) = (IF 1 <= steps.index THEN steps.index - 1 + 1 ELSE 0)
    BY <1>2, <1>4, Cut
  <2> QED  BY <1>2, <1>4, <2>1
<1>6. Ahead(steps, name) \in Seq(S) /\ Len(Ahead(steps, name)) > 0 /\ Ahead(steps, name)[1] = name
  BY <1>2, <1>3, AheadBegins
<1>7. /\ names \in Seq(S) /\ steps.index + 1 <= Len(names)
      /\ SubSeq(names, 1, steps.index + 1) = Append(begunSteps, name)
  BY <1>5, <1>6, OneMore
<1>8. steps' = [steps EXCEPT !.names = names, !.index = @ + 1, !.started = BarTime, !.atWork = worked]
  BY <1>1, <1>2
<1> HIDE DEF names
<1>9. steps'.names = names /\ steps'.index = steps.index + 1 /\ steps'.started = BarTime /\ steps'.atWork = worked
      /\ steps' \in StepsOf(S)
  <2>1. worked \in Nat /\ BarTime \in Int /\ steps.index + 1 \in Nat /\ names \in Seq(S)
    BY <1>4, <1>7, ClocksAre
  <2>2. steps' \in StepsOf(S)
    BY <1>3, <1>8, <2>1 DEF StepsOf
  <2> QED  BY <1>3, <1>8, <2>2 DEF StepsOf
<1>10. begunSteps' = SubSeq(steps'.names, 1, steps'.index)
  BY <1>1, <1>7, <1>9
<1>11. NamesInv'
  BY <1>7, <1>9, <1>10 DEF NamesInv
<1>12. bar' \in Bars /\ term' \in Terms /\ RowInv'
  BY <1>9, ShowFits DEF BarInv, BarTyped, Labels
<1>13. BarTyped'
  BY <1>12 DEF BarInv, BarTyped, Labels
<1>14. ClockInv'
  <2>1. mode = "tty" => report'.said = report'.was
    BY <1>1, FinishedSaid
  <2>2. mode = "tty" => worked = BarTime
    BY DEF BarInv, ClockInv
  <2> QED  BY <1>9, <2>1, <2>2 DEF BarInv, ClockInv, BarTime, TrackerTime, Active
<1> QED  BY <1>11, <1>12, <1>13, <1>14 DEF BarInv

LEMMA StepsPlanned == BarInv /\ PlanSteps => BarInv'
<1> SUFFICES ASSUME BarInv, PlanSteps PROVE BarInv'
  OBVIOUS
<1> USE DEF PlanSteps
<1>1. PICK T : /\ steps \in StepsOf(T) /\ steps.index <= Len(steps.names)
               /\ begunSteps = SubSeq(steps.names, 1, steps.index)
  BY DEF BarInv, NamesInv
<1>2. PICK plan \in Plans : steps' = [steps EXCEPT !.names = begunSteps \o Without(plan, begunSteps)]
  BY <1>1
<1>3. PICK U : Without(plan, begunSteps) \in Seq(U)
  BY PlansListed, WithoutIsSeq
<1> DEFINE S == T \cup U
           left == Without(plan, begunSteps)
<1>4. steps.names \in Seq(S) /\ left \in Seq(S)
  BY <1>1, <1>3, SeqMonotonic DEF StepsOf
<1>5. steps \in StepsOf(S)
  BY <1>1, <1>4 DEF StepsOf
<1> HIDE DEF S, left
<1>6. steps.index \in Nat /\ Len(steps.names) \in Nat
  BY <1>4, <1>5, LenProperties DEF StepsOf
<1>7. begunSteps \in Seq(S) /\ Len(begunSteps) = steps.index
  <2>1. /\ SubSeq(steps.names, 1, steps.index) \in Seq(S)
        /\ Len(SubSeq(steps.names, 1, steps.index)) = (IF 1 <= steps.index THEN steps.index - 1 + 1 ELSE 0)
    BY <1>1, <1>4, <1>6, Cut
  <2> QED  BY <1>1, <1>6, <2>1
<1>8. /\ begunSteps \o left \in Seq(S) /\ Len(begunSteps \o left) = Len(begunSteps) + Len(left)
      /\ Len(left) \in Nat /\ SubSeq(begunSteps \o left, 1, Len(begunSteps)) = begunSteps
  BY <1>4, <1>7, ConcatProperties, LenProperties, Before
<1>9. /\ steps' \in StepsOf(S) /\ steps'.names = begunSteps \o left /\ steps'.index = steps.index
      /\ steps'.started = steps.started /\ steps'.atWork = steps.atWork
  BY <1>2, <1>5, <1>8 DEF StepsOf, left
<1>10. NamesInv'
  BY <1>6, <1>7, <1>8, <1>9 DEF NamesInv
<1>11. bar' \in Bars /\ term' \in Terms /\ RowInv'
  BY <1>9, ShowFits DEF BarInv, BarTyped
<1>12. BarTyped'
  BY <1>11 DEF BarInv, BarTyped
<1>13. ClockInv'
  BY <1>9 DEF BarInv, ClockInv, BarTime, TrackerTime, Active
<1> QED  BY <1>10, <1>11, <1>12, <1>13 DEF BarInv

LEMMA StepsClosed == BarInv /\ CloseSteps => BarInv'
<1> SUFFICES ASSUME BarInv, CloseSteps PROVE BarInv'
  OBVIOUS
<1> USE DEF CloseSteps, Closes
<1>1. open' \in Seq(Contexts) /\ (Yielding(open') <=> Yielding(open))
  BY ClosedOver DEF BarInv, BarTyped, Contexts
<1>2. steps.saved \in Labels
  BY DEF BarInv, NamesInv, StepsOf
<1>3. bar' \in Bars /\ term' \in Terms /\ RowInv'
  BY <1>2, ShowFits DEF BarInv, BarTyped
<1>4. BarTyped'
  BY <1>1, <1>2, <1>3 DEF BarInv, BarTyped, Contexts
<1>5. ClockInv'
  <2>1. mode = "tty" => report'.said = report'.was
    BY FinishedSaid DEF BarInv, ClockInv
  <2> QED  BY <1>1, <2>1 DEF BarInv, ClockInv, BarTime, TrackerTime, Active
<1>6. NamesInv'
  BY DEF NamesInv
<1> QED  BY <1>3, <1>4, <1>5, <1>6 DEF BarInv

\* The terminal is given away: to a child without a region.
LEMMA Yielded == BarInv /\ Yield => BarInv'
<1> SUFFICES ASSUME BarInv, Yield PROVE BarInv'
  OBVIOUS
<1>1. PICK who \in {"prompt", "child"} :
        /\ open' = Append(open, who)
        /\ IF mode = "plain" THEN UNCHANGED <<tracker, paused, yielded, bar, term>>
           ELSE /\ IF Yielding(open) THEN UNCHANGED <<tracker, paused>>
                   ELSE /\ paused' = [paused EXCEPT !.since = now]
                        /\ tracker' = IF tracker = Off THEN Off ELSE [tracker EXCEPT !.since = now]
                /\ LET stronger == yielded = Off \/ (yielded = "prompt" /\ who = "child")
                       after == IF ~stronger THEN Here
                                ELSE IF who = "child" THEN Freed(Here) ELSE Blank(Here)
                   IN  /\ yielded' = IF stronger THEN who ELSE yielded
                       /\ bar' = after.bar /\ term' = after.term
  BY DEF Yield
<1>2. UNCHANGED <<mode, phase, steps, now, worked, begunSteps, report>>
  BY DEF Yield
<1>3. open' \in Seq(Contexts) /\ Yielding(open')
  BY <1>1, OpenedOver DEF BarInv, BarTyped, Contexts
<1>4. NamesInv'
  BY <1>2, NamesStay DEF BarInv
<1>5. CASE mode = "plain"
  <2>1. BarTyped'
    BY <1>1, <1>2, <1>3, <1>5 DEF BarInv, BarTyped, Contexts
  <2> QED  BY <1>2, <1>4, <1>5, <2>1 DEF BarInv, RowInv, ClockInv
<1>6. CASE mode # "plain"
  <2> DEFINE stronger == yielded = Off \/ (yielded = "prompt" /\ who = "child")
             after == IF ~stronger THEN Here
                      ELSE IF who = "child" THEN Freed(Here) ELSE Blank(Here)
  <2>1. yielded' = (IF stronger THEN who ELSE yielded) /\ bar' = after.bar /\ term' = after.term
    BY <1>1, <1>6
  <2>2. mode = "tty" /\ Here \in Ats /\ Fit(Here) /\ Here.bar = bar /\ Here.term = term
        /\ yielded \in {"prompt", "child", Off}
    BY <1>6 DEF BarInv, BarTyped, RowInv, Here, Ats
  <2>3. /\ after \in Ats /\ Fit(after) /\ after.bar.drawn = Off
        /\ yielded' = "child" => ~after.bar.reserved
    <3>1. CASE ~stronger
      BY <2>1, <2>2, <3>1 DEF BarInv, RowInv
    <3>2. CASE stronger /\ who = "child"
      BY <2>2, <3>2, FreedFits
    <3>3. CASE stronger /\ who # "child"
      BY <2>1, <2>2, <3>3, BlankFits
    <3> QED  BY <3>1, <3>2, <3>3
  <2> HIDE DEF after
  <2>4. Fit(Here')
    BY <2>1, <2>3 DEF Here, Fit
  <2>5. RowInv' /\ bar' \in Bars /\ term' \in Terms
    BY <1>2, <2>1, <2>3, <2>4 DEF RowInv, Ats, Here, Fit
  <2>6. /\ paused' \in [total : Int, since : Nat \cup {Off}] /\ paused'.total = paused.total
        /\ IF Yielding(open) THEN UNCHANGED <<tracker, paused>>
           ELSE /\ paused'.since = now
                /\ tracker = Off => tracker' = Off
                /\ tracker # Off => /\ tracker' \in Trackers /\ tracker'.since = now
                                    /\ tracker'.paused = tracker.paused /\ tracker'.started = tracker.started
                                    /\ tracker'.atWork = tracker.atWork
    <3>1. CASE Yielding(open)
      BY <1>1, <1>6, <3>1 DEF BarInv, BarTyped
    <3>2. CASE ~Yielding(open)
      <4>1. paused' = [paused EXCEPT !.since = now]
            /\ tracker' = IF tracker = Off THEN Off ELSE [tracker EXCEPT !.since = now]
        BY <1>1, <1>6, <3>2
      <4>2. now \in Nat /\ paused \in [total : Int, since : Nat \cup {Off}] /\ (tracker # Off => tracker \in Trackers)
        BY DEF BarInv, BarTyped
      <4> QED  BY <3>2, <4>1, <4>2 DEF Trackers
    <3> QED  BY <3>1, <3>2
  <2>7. BarTyped'
    BY <1>2, <1>3, <2>1, <2>2, <2>5, <2>6 DEF BarInv, BarTyped, Contexts
  <2>8. ClockInv'
    <3>1. worked = BarTime /\ (paused.since # Off <=> Yielding(open)) /\ report.said = report.was
          /\ (steps # Off => steps.started = steps.atWork)
          /\ (tracker # Off => /\ tracker.since # Off <=> Yielding(open)
                              /\ TrackerTime(tracker) - tracker.started = worked - tracker.atWork)
      BY <2>2 DEF BarInv, ClockInv
    <3>2. CASE Yielding(open)
      BY <1>2, <1>3, <2>6, <3>1, <3>2 DEF ClockInv, BarTime, TrackerTime, Active
    <3>3. CASE ~Yielding(open)
      <4>1. worked' = BarTime' /\ paused'.since # Off
        <5>1. now - now = 0 /\ paused.total + 0 = paused.total
          BY ClocksAre
        <5> QED  BY <1>2, <2>6, <3>1, <3>3, <5>1, ClocksAre DEF BarTime, Active
      <4>2. ASSUME tracker' # Off
            PROVE  tracker'.since # Off /\ TrackerTime(tracker)' - tracker'.started = worked' - tracker'.atWork
        <5>1. now - now = 0 /\ tracker.paused + 0 = tracker.paused /\ tracker # Off
          BY <2>6, <3>3, <4>2, ClocksAre
        <5> QED  BY <1>2, <2>6, <3>1, <3>3, <5>1, ClocksAre DEF TrackerTime, Active
      <4> QED  BY <1>2, <1>3, <3>1, <4>1, <4>2 DEF ClockInv
    <3> QED  BY <3>2, <3>3
  <2> QED  BY <1>4, <2>5, <2>7, <2>8 DEF BarInv
<1> QED  BY <1>5, <1>6

\* The last one gives it back.
LEMMA GivenBack == BarInv /\ TakeBack => BarInv'
<1> SUFFICES ASSUME BarInv, TakeBack PROVE BarInv'
  OBVIOUS
<1>1. UNCHANGED <<mode, phase, steps, now, worked, begunSteps, report>>
  BY DEF TakeBack
<1>2. open # <<>> /\ Last(open) \in {"prompt", "child"} /\ open' = Front(open)
  BY DEF TakeBack, Closes
<1>3. open' \in Seq(Contexts) /\ Yielding(open)
  BY <1>2, ClosedOver DEF BarInv, BarTyped, Contexts
<1>4. NamesInv'
  BY <1>1, NamesStay DEF BarInv
<1>5. CASE mode = "plain" \/ Yielding(open')
  <2>1. UNCHANGED <<tracker, paused, yielded, bar, term>>
    BY <1>5 DEF TakeBack
  <2>2. BarTyped'
    BY <1>1, <1>3, <2>1 DEF BarInv, BarTyped, Contexts
  <2>3. RowInv'
    BY <1>1, <2>1 DEF BarInv, RowInv, Fit, Here
  <2>4. ClockInv'
    BY <1>1, <1>3, <1>5, <2>1 DEF BarInv, ClockInv, BarTime, TrackerTime, Active
  <2> QED  BY <1>4, <2>2, <2>3, <2>4 DEF BarInv
<1>6. CASE ~(mode = "plain" \/ Yielding(open'))
  <2>1. /\ paused' = [total |-> paused.total + now - paused.since, since |-> Off]
        /\ tracker' = IF tracker = Off \/ tracker.since = Off THEN tracker
                      ELSE [tracker EXCEPT !.paused = @ + now - tracker.since, !.since = Off]
        /\ yielded' = Off /\ Show(phase, tracker', steps, Off)
    BY <1>6 DEF TakeBack
  <2>2. mode = "tty" /\ paused.since # Off /\ paused.since \in Nat /\ paused.total \in Int /\ now \in Nat
        /\ (tracker # Off => tracker \in Trackers /\ tracker.since # Off)
    BY <1>3, <1>6 DEF BarInv, BarTyped, ClockInv
  <2>3. /\ paused' \in [total : Int, since : Nat \cup {Off}] /\ paused'.since = Off
        /\ paused'.total = paused.total + now - paused.since
    BY <2>1, <2>2
  <2>4. /\ tracker = Off => tracker' = Off
        /\ tracker # Off =>
             /\ tracker' \in Trackers /\ tracker'.since = Off /\ tracker.since \in Nat /\ tracker.paused \in Int
             /\ tracker'.paused = tracker.paused + now - tracker.since /\ tracker'.started = tracker.started
             /\ tracker'.atWork = tracker.atWork
    <3>1. CASE tracker = Off
      BY <2>1, <3>1
    <3>2. CASE tracker # Off
      <4>1. tracker \in Trackers /\ tracker.since \in Nat /\ tracker.paused \in Int
        BY <2>2, <3>2 DEF Trackers
      <4>2. tracker' = [tracker EXCEPT !.paused = @ + now - tracker.since, !.since = Off]
        BY <2>1, <2>2, <3>2
      <4>3. tracker.paused + now - tracker.since \in Int
        BY <2>2, <4>1
      <4>4. tracker \in Trackers /\ tracker' \in Trackers
        BY <2>2, <3>2, <4>2, <4>3 DEF Trackers
      <4>5. /\ tracker'.since = Off /\ tracker'.paused = tracker.paused + now - tracker.since
            /\ tracker'.started = tracker.started /\ tracker'.atWork = tracker.atWork
        BY <4>2, <4>4 DEF Trackers
      <4> QED  BY <3>2, <4>1, <4>4, <4>5
    <3> QED  BY <3>1, <3>2
  <2>5. bar' \in Bars /\ term' \in Terms /\ RowInv'
    <3>1. tracker' # Off => tracker' \in Trackers
      BY <2>4
    <3>2. phase \in Labels /\ (steps # Off => \E S : steps \in StepsOf(S))
      BY DEF BarInv, BarTyped, NamesInv
    <3> QED  BY <1>1, <2>1, <3>1, <3>2, ShowFits
  <2>6. BarTyped'
    BY <1>1, <1>3, <2>1, <2>3, <2>4, <2>5 DEF BarInv, BarTyped, Contexts
  <2>7. ClockInv'
    BY <1>1, <1>6, <2>2, <2>3, <2>4, ClocksAre DEF BarInv, ClockInv, BarTime, TrackerTime, Active
  <2> QED  BY <1>4, <2>5, <2>6, <2>7 DEF BarInv
<1> QED  BY <1>5, <1>6

LEMMA ClocksStay ==
    ASSUME BarInv, UNCHANGED <<mode, open, tracker, steps, paused, now, worked, report>>
    PROVE  ClockInv'
  BY DEF BarInv, ClockInv, BarTime, TrackerTime, Active

LEMMA Redrawn == BarInv /\ Redraw => BarInv'
<1> SUFFICES ASSUME BarInv, Redraw PROVE BarInv'
  OBVIOUS
<1> USE DEF Redraw
<1>1. bar' \in Bars /\ term' \in Terms /\ RowInv'
  BY ShowFits DEF BarInv, BarTyped, NamesInv
<1>2. BarTyped'
  BY <1>1 DEF BarInv, BarTyped
<1> QED  BY <1>1, <1>2, ClocksStay, NamesStay DEF BarInv

LEMMA Resized == BarInv /\ WindowResized => BarInv'
<1> SUFFICES ASSUME BarInv, WindowResized PROVE BarInv'
  OBVIOUS
<1> USE DEF WindowResized
<1>1. PICK tall \in BOOLEAN :
         term' = [region |-> FALSE, row |-> IF term.row = Off THEN Off ELSE Stale, tall |-> tall]
  OBVIOUS
<1>2. Stale \in Lines
  <2>1. <<>> \in Seq(Nat) /\ Off \in Labels
    BY EmptySeq DEF Labels
  <2> QED  BY <2>1 DEF Stale, Line, Lines
<1>3. /\ term' \in Terms /\ ~term'.region /\ (term.row = Off => term'.row = Off)
      /\ bar' \in Bars /\ bar'.resized /\ bar'.reserved = bar.reserved /\ bar'.drawn = bar.drawn
  BY <1>1, <1>2 DEF BarInv, BarTyped, Terms, Bars
<1>4. RowInv'
  BY <1>3 DEF BarInv, RowInv, Fit, Here
<1>5. BarTyped'
  BY <1>3 DEF BarInv, BarTyped
<1> QED  BY <1>4, <1>5, ClocksStay, NamesStay DEF BarInv

LEMMA ShutDown == BarInv /\ Shutdown => BarInv'
<1> SUFFICES ASSUME BarInv, Shutdown PROVE BarInv'
  OBVIOUS
<1> USE DEF Shutdown
<1>1. Here \in Ats /\ Fit(Here)
  BY DEF BarInv, BarTyped, RowInv, Here, Ats
<1>2. Freed(Here) \in Ats /\ Fit(Freed(Here)) /\ ~Freed(Here).bar.reserved /\ Freed(Here).bar.drawn = Off
  BY <1>1, FreedFits
<1>3. bar' = Freed(Here).bar /\ term' = Freed(Here).term
  OBVIOUS
<1>4. Fit(Here')
  BY <1>2, <1>3 DEF Here, Fit
<1>5. RowInv' /\ bar' \in Bars /\ term' \in Terms
  BY <1>2, <1>3, <1>4 DEF RowInv, Ats, Here, Fit
<1>6. BarTyped'
  BY <1>5 DEF BarInv, BarTyped
<1> QED  BY <1>5, <1>6, ClocksStay, NamesStay DEF BarInv

LEMMA BarStep == BarInv /\ [NextProgress]_progressVars => BarInv'
<1> SUFFICES ASSUME BarInv, [NextProgress]_progressVars PROVE BarInv'
  OBVIOUS
<1>1. CASE UNCHANGED progressVars
  <2>1. UNCHANGED <<mode, open, phase, tracker, steps, yielded, paused, bar, term, now, worked, begunSteps, report>>
    BY <1>1 DEF progressVars
  <2>2. BarTyped'
    BY <2>1 DEF BarInv, BarTyped
  <2>3. RowInv'
    BY <2>1 DEF BarInv, RowInv, Fit, Here
  <2> QED  BY <2>1, <2>2, <2>3, ClocksStay, NamesStay DEF BarInv
<1> QED
  BY <1>1, TimePasses, PhaseSet, TrackerOpened, Ticked, TrackerClosed, StepsOpened, StepBegun, StepsPlanned,
     StepsClosed, Yielded, GivenBack, Redrawn, Resized, ShutDown DEF NextProgress

(* TerminalKnown and ProgressHonest (_draw, yield_terminal, ticking_tracker, *)
(* steps): for any plans and steps, nested to any depth, and whenever the    *)
(* window changes.                                                           *)
THEOREM ProgressIsSound == BarSpec => []ProgressSound
<1>1. BarInv => ProgressSound
  <2> SUFFICES ASSUME BarInv PROVE ProgressSound
    OBVIOUS
  <2>1. TerminalKnown
    BY DEF BarInv, RowInv, Fit, Here, TerminalKnown
  <2>2. ProgressHonest
    BY DEF BarInv, ClockInv, NamesInv, ProgressHonest
  <2> QED  BY <2>1, <2>2 DEF ProgressSound
<1> QED  BY <1>1, BarInit, BarStep, PTL DEF BarSpec
=============================================================================

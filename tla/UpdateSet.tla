----------------------------- MODULE UpdateSet -----------------------------
(***************************************************************************)
(* What an update takes on (update_assemble.py, primitives/                 *)
(* stage_ownership.py): every installed package is looked at on its own,    *)
(* and what is left is grouped by pkgbase, the first member of a group      *)
(* speaking for all of it.                                                  *)
(*                                                                          *)
(* A world w has installed packages, what the repos, the records of         *)
(* build_state.toml, packages.toml, the opt-outs and the configurations of  *)
(* the stages say of them, the arguments of the update, and the order in    *)
(* which a set of names happens to be walked.  And what the toolchain       *)
(* stage takes on: the trees that its packages are built from.              *)
(***************************************************************************)
EXTENDS Naturals, Sequences, FiniteSets, Question

CONSTANTS
    Unsaid,     \* nothing there: no record, override, source, class or owner
    Unpinned    \* the rust toolchain that is active

IsBuilt(w, n) == w.record[n].mode = "built"
\* An override that only names a source changes nothing.
Acts(w, n) == w.override[n].acts

\* Everything that may take a package in, and what the operator ruled out.
Adopted(w) ==
    {n \in w.installed : n \in w.foreign \/ Acts(w, n) \/ IsBuilt(w, n) \/ (w.fromSource /\ n \notin w.foreign)}
        \ (w.optedOut \ w.names)

-----------------------------------------------------------------------------
(* The stage that owns a package.                                          *)

\* The pkgbase by the record or the local database, for lack of both the name.
SeenBase(w, n) == IF IsBuilt(w, n) THEN w.record[n].base ELSE IF w.inLocalDb THEN w.base ELSE n

\* By the configuration of a stage: its kernel, the suite by its names, the
\* 32-bit ones apart, and whatever it lists.
ConfiguredOwner(w, n) ==
    LET named == {n, SeenBase(w, n)}
    IN  IF w.kernel \in named THEN "kernel"
        ELSE IF w.llvm /\ (named \cap (w.suite \cup w.listed)) # {} THEN "toolchain" ELSE Unsaid

\* The stamp of the stage that recorded it first; and a name on the command
\* line is the operator's own business.
Owner(w, n) ==
    IF w.stageOwned \/ n \in w.names THEN Unsaid
    ELSE IF w.record[n].owner # Unsaid THEN w.record[n].owner ELSE ConfiguredOwner(w, n)

-----------------------------------------------------------------------------
(* Where it comes from, and how it is brought up to date.                  *)

SourceOf(w, n) ==
    IF w.record[n].source # Unsaid THEN w.record[n].source
    ELSE IF w.override[n].source # Unsaid THEN w.override[n].source
    ELSE IF n \notin w.foreign THEN "repo" ELSE Unsaid

\* Mutant: what has no override is pacman's.
ClassByOverride(w, n) ==
    IF SourceOf(w, n) # "repo" THEN Unsaid ELSE IF Acts(w, n) THEN "source" ELSE "pacman"

Class(w, n) ==
    IF SourceOf(w, n) # "repo" THEN Unsaid ELSE IF Acts(w, n) \/ IsBuilt(w, n) THEN "source" ELSE "pacman"

\* Without a record: the local database's, and the AUR's where that has none.
BaseFound(w, n) ==
    IF IsBuilt(w, n) THEN w.record[n].base
    ELSE IF w.inLocalDb \/ (SourceOf(w, n) # "repo" /\ ~w.offline /\ w.inAur) THEN w.base ELSE n

Entry(w, n) ==
    [base |-> BaseFound(w, n), source |-> SourceOf(w, n), class |-> Class(w, n),
     dir |-> IF IsBuilt(w, n) THEN w.record[n].dir ELSE <<"src", BaseFound(w, n)>>]

\* What was asked for, of it what no stage owns, and what a stage does.
Asked(w) == IF w.names = {} THEN Adopted(w) ELSE Adopted(w) \cap w.names
Walked(w) == {n \in Asked(w) : Owner(w, n) = Unsaid}
LeftToStage(w) == Asked(w) \ Walked(w)

\* The first element of a sequence that is in a set.
FirstIn(s, S) == s[CHOOSE i \in DOMAIN s : s[i] \in S /\ \A j \in 1..(i - 1) : s[j] \notin S]

\* group_by_pkgbase: the member that comes first speaks for the group.
Speaker(w, ns) == FirstIn(w.order, ns)
Assembled(w) ==
    LET Group(b) == {n \in Walked(w) : BaseFound(w, n) = b}
    IN  [b \in {BaseFound(w, n) : n \in Walked(w)} |->
            [members |-> Group(b), as |-> Entry(w, Speaker(w, Group(b)))]]

-----------------------------------------------------------------------------
(* The trees of the toolchain stage's packages.  r.names are those asked    *)
(* for, in order, of which r.pgo get profiles, and r.base says what the     *)
(* repos build each package from; r.disk and r.upstream map the trees that  *)
(* are checked out, and those that can be cloned, to the packages they      *)
(* list; r.walk is the order in which a set of trees is walked.             *)

Wanted(r) == {r.names[i] : i \in DOMAIN r.names}

\* Mutant: a package's tree is called like the package.
TreeByName(r, n) == n
\* Pass 0: by the sync databases, whatever else is checked out.
TreeOf(r, n) == r.base[n]

\* Pass 1, and pass 2: what a tree found in the first lists besides.
Direct(r)    == {n \in Wanted(r) : TreeOf(r, n) \in DOMAIN r.disk}
Lists(r, n)  == {d \in {TreeOf(r, m) : m \in Direct(r)} : n \in r.disk[d]}
OnDisk(r) ==
    [n \in {m \in Wanted(r) : m \in Direct(r) \/ Lists(r, m) # {}} |->
        IF n \in Direct(r) THEN TreeOf(r, n) ELSE FirstIn(r.walk, Lists(r, n))]
Remaining(r) == Wanted(r) \ DOMAIN OnDisk(r)

\* Pass 3: a clone serves every later name that it lists.
Clone(r, st, n) ==
    LET d == TreeOf(r, n)
        served == {n} \cup ({m \in Remaining(r) : m \in r.upstream[d] \cup {d}} \ (DOMAIN st.dirs \cup st.missing))
    IN  CASE n \in DOMAIN st.dirs       -> st
          [] n \notin DOMAIN st.dirs /\ d \notin DOMAIN r.upstream -> [st EXCEPT !.missing = @ \cup {n}]
          [] n \notin DOMAIN st.dirs /\ d \in DOMAIN r.upstream ->
               [st EXCEPT !.dirs = [m \in DOMAIN st.dirs \cup served |-> IF m \in served THEN d ELSE st.dirs[m]],
                          !.clones = @ \cup {d}]
Found(r) ==
    LET Looked[k \in 0..Len(r.names)] ==
            IF k = 0 THEN [dirs |-> OnDisk(r), missing |-> {}, clones |-> {}]
            ELSE Clone(r, Looked[k - 1], r.names[k])
    IN  Looked[Len(r.names)]

\* Whatever shares a tree with a package that gets a profile gets it too.
Profiled(r, dirs) == {n \in DOMAIN dirs : \E m \in r.pgo \cap DOMAIN dirs : dirs[n] = dirs[m]}

\* Mutant: what was asked for is installed, and nothing else.
InstallAsked(r, dirs) == DOMAIN dirs
\* Installed with it is what the trees list and the host has.
InstallNames(r, dirs) ==
    DOMAIN dirs \cup {p \in r.installed : \E n \in DOMAIN dirs :
        p \in IF dirs[n] \in DOMAIN r.upstream THEN r.upstream[dirs[n]] ELSE r.disk[dirs[n]]}

SuiteTrees(r) ==
    LET found == Found(r) IN
    [dirs |-> found.dirs, missing |-> found.missing, clones |-> found.clones,
     preview |-> {TreeOf(r, n) : n \in Remaining(r)},
     pgo |-> Profiled(r, found.dirs), install |-> InstallNames(r, found.dirs)]

-----------------------------------------------------------------------------
(* What it asks of the host before it builds (update.py,                    *)
(* primitives/toolchain_preflight.py): the tools that the profiles of the   *)
(* batch name, each tried once, and what rustup can add is offered.         *)
(*                                                                          *)
(* A package has what its profile consumes and its compilers, is 32-bit or  *)
(* not and pins a rust toolchain or none; a host h has tools that run, a    *)
(* rust toolchain for each pin it has a 32-bit library for, and the         *)
(* versions of the LLVM suite.  Answers maps a need to what came of the     *)
(* offer: "no", "fails" or "added".                                         *)

Tool(name) == [tool |-> name]
Cross(pin) == [tool |-> "cross", pin |-> pin]

-----------------------------------------------------------------------------
(* What a batch needs; a package that cannot be resolved is passed over.   *)

Needs1(p) ==
    (IF "rust" \in p.consumes THEN {Tool("rust")} \cup (IF p.lib32 THEN {Cross(p.pin)} ELSE {}) ELSE {})
    \cup {Tool(t) : t \in p.consumes \cap {"cmake", "meson"}}

\* Mutant: what is pinned is taken from the active toolchain.
BatchNeedsOfActive(batch) ==
    LET seen == {p \in batch : p.resolved}
    IN  UNION {Needs1([p EXCEPT !.pin = Unpinned]) \cup {Tool(c) : c \in p.compilers} : p \in seen}

BatchNeeds(batch) ==
    LET seen == {p \in batch : p.resolved}
    IN  UNION {Needs1(p) \cup {Tool(c) : c \in p.compilers} : p \in seen}

-----------------------------------------------------------------------------
(* Probes.                                                                 *)

\* What the packages that ship together are at, for those that are installed.
SuiteAgrees(h) == Cardinality({v \in h.suite : v # "absent"}) <= 1

CompilerRunsHere(h, c) == c \in h.runs /\ (c = "clang" => SuiteAgrees(h))

\* Without rustup a pin means nothing.
BuildsFor32(h, pin) ==
    "rust" \in h.runs /\ IF h.rustup THEN pin \in h.with32 ELSE h.system32

Probe(h, n) ==
    IF n.tool = "cross" THEN BuildsFor32(h, n.pin)
    ELSE IF n.tool \in {"clang", "gcc"} THEN CompilerRunsHere(h, n.tool)
    ELSE n.tool \in h.runs

FailedProbes(h, needs) == {n \in needs : ~Probe(h, n)}

-----------------------------------------------------------------------------
(* rustup adds a target, if there is someone to ask.                       *)

Fixable(h, n) == n.tool = "cross" /\ h.rustup /\ "rust" \in h.runs

Fixed(h, failed, answers, asked) ==
    {n \in failed : asked /\ Fixable(h, n) /\ answers[n] = "added"}

HostAfter(h, fixed) == [h EXCEPT !.with32 = @ \cup {n.pin : n \in fixed}]

\* Only what was fixed is tried again.
Remediated(h, failed, answers, asked) ==
    LET fixed == Fixed(h, failed, answers, asked)
        host == HostAfter(h, fixed)
    IN  [host |-> host, failed |-> (failed \ fixed) \cup FailedProbes(host, fixed)]

Proceeds(batch, h, answers, asked, off) ==
    LET found == FailedProbes(h, BatchNeeds(batch))
        after == Remediated(h, found, answers, asked)
    IN  IF off THEN [goes |-> TRUE, host |-> h, failed |-> {}]
        ELSE [goes |-> after.failed = {}, host |-> after.host, failed |-> after.failed]
-----------------------------------------------------------------------------
(* A host, and a batch as its needs are collected.                          *)
HostTyped(h) ==
    /\ h = [f \in {"runs", "rustup", "with32", "system32", "suite"} |-> h[f]]
    /\ h.rustup \in BOOLEAN /\ h.system32 \in BOOLEAN /\ IsFiniteSet(h.suite)

BatchTyped(batch) ==
    \A p \in batch :
        /\ p.resolved \in BOOLEAN /\ p.lib32 \in BOOLEAN
        /\ "cross" \notin p.compilers /\ p.compilers \cap {"rust", "cmake", "meson"} = {}

(* A package finds what it needs on the host.                               *)
Served(h, p) ==
    /\ p.compilers \cup (p.consumes \cap {"rust", "cmake", "meson"}) \subseteq h.runs
    /\ "clang" \in p.compilers => \A v, u \in h.suite \ {"absent"} : v = u
    /\ "rust" \in p.consumes /\ p.lib32 => IF h.rustup THEN p.pin \in h.with32 ELSE h.system32

(* A batch that goes on has, for every package whose profile was read,      *)
(* compilers that start, of a suite of one version, the build systems, and  *)
(* for 32-bit rust the library in the very toolchain that its PKGBUILD      *)
(* picks; and one that is stopped lacks one of them still                   *)
(* (_toolchain_preflight_for_batch).                                        *)
Told(batch, o) == o.goes <=> \A p \in batch : p.resolved => Served(o.host, p)

-----------------------------------------------------------------------------
(* The installed members of one PKGBUILD, as the records and packages.toml  *)
(* know them: what sysforge built was built of that PKGBUILD.               *)
MembersTyped(w) ==
    /\ Unsaid \notin {"repo", "pacman", "kernel", "toolchain"}
    /\ w.order \in Seq(w.installed) /\ \A n \in w.installed : \E i \in DOMAIN w.order : w.order[i] = n
    /\ \A n \in w.installed : IsBuilt(w, n) => w.record[n].base = w.base
    /\ \A n \in w.installed : ~IsBuilt(w, n) => w.record[n].source = Unsaid
    /\ \A m, n \in w.installed : IsBuilt(w, m) /\ IsBuilt(w, n) => w.record[m].dir = w.record[n].dir
    /\ \A n \in w.foreign : w.override[n].source # "repo"

(* The members of one PKGBUILD are updated as one.  What was built from     *)
(* source is built again, from where it was, and never left to a pacman     *)
(* that is told to ignore it (_resolve_repo_class); and a stage's package   *)
(* is walked by no update that was not told to, with any of its members     *)
(* (StageOwnership.owner_of).  Left out: groups of which only some members  *)
(* were built by sysforge, for which whichever the set happens to yield     *)
(* first speaks; and members whose pkgbase only the AUR knows, which is     *)
(* asked after the owner is.                                                *)
MembersAsOne(w, groups) ==
    LET Alike == \A g \in DOMAIN groups : \A m, n \in groups[g].members : IsBuilt(w, m) = IsBuilt(w, n)
    IN  /\ w.inLocalDb => \A g, h \in DOMAIN groups : g = h
        /\ Alike => \A g \in DOMAIN groups : \A n \in groups[g].members :
              /\ IsBuilt(w, n) => groups[g].as.class # "pacman" /\ groups[g].as.dir = w.record[n].dir
              /\ groups[g].as.class = "pacman" => w.fromSource
        /\ (w.kernel = w.base \/ (w.llvm /\ w.base \in w.suite)) /\ w.inLocalDb /\ ~w.stageOwned =>
              \A g \in DOMAIN groups : groups[g].members \subseteq w.names

ComputeUpdate == Answer("update", Assembled(input))
UpdatedAsOne == Answered("update") => MembersAsOne(input, output)

(* The suite as the repos build it: a checkout lists at least what its tree *)
(* is built to, a clone exactly that, and a package that is called like a   *)
(* tree is built from it.                                                   *)
SuiteTyped(r) ==
    LET packages == DOMAIN r.base
    IN  /\ r.names \in Seq(packages) /\ r.installed \subseteq packages
        /\ \A d \in DOMAIN r.disk : {p \in packages : r.base[p] = d} \subseteq r.disk[d]
        /\ \A d \in DOMAIN r.upstream : r.upstream[d] = {p \in packages : r.base[p] = d}
        /\ \A p, q \in packages : r.base[q] = p => r.base[p] = p
        /\ r.walk \in Seq(DOMAIN r.disk) /\ \A d \in DOMAIN r.disk : \E i \in DOMAIN r.walk : r.walk[i] = d

(* The toolchain stage builds each package from the tree the repos build it *)
(* from, however old the other checkouts are, and each tree in one kind of  *)
(* pass; it installs all that is installed of those trees, lest a member    *)
(* stays behind on an older libLLVM; a dry run names the trees that a run   *)
(* would clone, and what is missed is nowhere to be had                     *)
(* (resolve_all_pkgbuilds, partition_by_pkgbuild, install_names).  Left     *)
(* out: a package whose tree is not there, while another checkout that is   *)
(* used still lists it, is taken from that.                                 *)
TreesAsOne(r, o) ==
    LET Moved == {p \in DOMAIN r.base : \E d \in DOMAIN r.disk : p \in r.disk[d] /\ r.base[p] # d}
    IN  /\ o.missing = {} =>
              /\ \A n \in Wanted(r) \ Moved : o.dirs[n] = r.base[n]
              /\ \A n \in DOMAIN o.dirs : \E m \in Wanted(r) : o.dirs[n] = r.base[m]
              /\ \A m \in o.pgo, n \in Wanted(r) \ o.pgo : o.dirs[m] # o.dirs[n]
              /\ \A p \in r.installed, n \in DOMAIN o.dirs : r.base[p] = o.dirs[n] => p \in o.install
              /\ o.clones = o.preview
        /\ \A n \in o.missing : r.base[n] \notin DOMAIN r.disk \cup DOMAIN r.upstream

ComputeSuite == Answer("suite", SuiteTrees(input))
SuiteAsOne == Answered("suite") => TreesAsOne(input, output)

ComputePreflight ==
    Answer("preflight", Proceeds(input.batch, input.host, input.answers, input.asked, input.off))

(* A batch goes on exactly when the host, as it is by then, has all that    *)
(* its packages need (_toolchain_preflight_for_batch).                      *)
PreflightTells == Answered("preflight") /\ ~input.off => Told(input.batch, output)

(* What is of one PKGBUILD is updated, or built and installed, as one, and  *)
(* nothing is begun without the tools it needs.                             *)
BatchSound == UpdatedAsOne /\ SuiteAsOne /\ PreflightTells
=============================================================================

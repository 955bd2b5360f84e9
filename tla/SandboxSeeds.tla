---------------------------- MODULE SandboxSeeds ----------------------------
(***************************************************************************)
(* What a sandboxed build finds installed in its container before makepkg  *)
(* starts (primitives/build_sandbox.py, install_args): the host's own      *)
(* builds of what the target needs and of the compiler, the artifacts of   *)
(* this run, and, for a build with Arch's rust, the repo's LLVM.           *)
(*                                                                         *)
(* A world w: w.installed maps the packages of the host to their versions, *)
(* w.needs the same to what they depend on, names or things provided;      *)
(* w.provider tells who provides a thing; w.own are the packages no stock  *)
(* repo provides or that sysforge built; w.disk the <<package, version>>   *)
(* in PKGDEST; w.session the packages this run built, with version, needs  *)
(* and the things provided; w.repo what the stock repos carry.  The target *)
(* has w.roots, w.rust, w.lib32 and w.compiler, the packages of its        *)
(* compiler, or {}; w.readable tells whether what it needs can be read.    *)
(***************************************************************************)
EXTENDS Naturals, FiniteSets, Question

CONSTANTS Llvm, Multilib, Refusal

Host(p, v) == [name |-> p, ver |-> v, from |-> "host"]
Session(w, p) == [name |-> p, ver |-> w.session[p].ver, from |-> "session"]
Repo(p) == [name |-> p, ver |-> 0, from |-> "repo"]

Names(w) == DOMAIN w.installed \cup DOMAIN w.session

(* The edges of this run's artifacts override those of the host.            *)
Needs(w, p) == IF p \in DOMAIN w.session THEN w.session[p].needs ELSE w.needs[p]

(* A thing no package has as its name is looked up.                         *)
Provider(w, d) ==
    LET ofRun == {p \in DOMAIN w.session : d \in w.session[p].provides}
    IN  IF d \in Names(w) THEN d
        ELSE IF ofRun # {} THEN CHOOSE p \in ofRun : TRUE
        ELSE IF d \in DOMAIN w.provider THEN w.provider[d] ELSE d

(* All that is reached from some names, with what each of them needs.       *)
Walk(start, needs) ==
    LET size == Cardinality(DOMAIN needs) + 1
        Grow[n \in 0..size] ==
            IF n = 0 THEN start
            ELSE Grow[n - 1] \cup UNION {needs[p] : p \in Grow[n - 1] \cap DOMAIN needs}
    IN  Grow[size]

Providers(w, ds) == {Provider(w, d) : d \in ds}
FoundNeeds(w) == [p \in Names(w) |-> Providers(w, Needs(w, p))]

DepClosure(w) == Walk(Providers(w, w.roots), FoundNeeds(w))

\* Mutant: the newest artifact in PKGDEST.
NewestArtifact(w, p) ==
    IF p \notin DOMAIN w.installed THEN {}
    ELSE {Host(p, x[2]) : x \in {y \in w.disk : y[1] = p /\ \A z \in w.disk : z[1] = p => z[2] <= y[2]}}

(* The artifact of the version the host runs, if it was not pruned.         *)
InstalledArtifact(w, p) ==
    IF p \in DOMAIN w.installed /\ <<p, w.installed[p]>> \in w.disk THEN {Host(p, w.installed[p])} ELSE {}

ResolveDepArtifacts(w) == UNION {InstalledArtifact(w, p) : p \in DepClosure(w) \cap w.own}

(* The compiler's own closure, over the names of the host only.             *)
ToolchainClosure(w) ==
    IF w.own = {} THEN {} ELSE Walk(w.compiler, w.needs)

ToolchainArtifacts(w) == UNION {InstalledArtifact(w, p) : p \in ToolchainClosure(w) \cap w.own}

(* Host builds of libLLVM and of what needs it, as the host knows it and    *)
(* without looking through what is provided.                                *)
LlvmLinked(w) == IF Llvm \notin w.own THEN {} ELSE {p \in w.own : Llvm \in Walk({p}, w.needs)}

(* All of them or a refusal.                                                *)
FetchRepoPackages(w, names) == IF names \subseteq w.repo THEN {Repo(p) : p \in names} ELSE Refusal

(* A later source wins: the repo's, then this run's, then the host's.       *)
LastPerPkgname(seeds) ==
    LET Rank(s) == CASE s.from = "host" -> 1 [] s.from = "session" -> 2 [] s.from = "repo" -> 3
    IN  {s \in seeds : \A t \in seeds : t.name = s.name => Rank(t) <= Rank(s)}

Unreadable(w) == ~w.readable /\ (w.own # {} \/ DOMAIN w.session # {})

InstallArgs(w) ==
    LET ofHost == ResolveDepArtifacts(w) \cup ToolchainArtifacts(w)
        ofRun  == {Session(w, p) : p \in DOMAIN w.session \cap DepClosure(w)}
        linked == IF w.rust THEN LlvmLinked(w) ELSE {}
        kept   == {s \in ofHost \cup ofRun : s.name \notin linked}
        llvm   == FetchRepoPackages(w, ({Llvm} \cup ToolchainClosure(w)) \cap linked)
        multi  == FetchRepoPackages(w, IF w.lib32 THEN {Multilib} ELSE {})
    IN  IF Unreadable(w) \/ llvm = Refusal \/ multi = Refusal THEN Refusal
        ELSE LastPerPkgname(kept \cup llvm \cup multi)

-----------------------------------------------------------------------------
ComputeSeeds == Answer("seeds", InstallArgs(input))

\* The least set that holds some names and with each of them what it needs.
Least(start, needs) ==
    LET all == start \cup UNION {needs[p] : p \in DOMAIN needs}
    IN  {x \in all : \A S \in SUBSET all :
            start \subseteq S /\ (\A p \in S \cap DOMAIN needs : needs[p] \subseteq S) => x \in S}

(* A host and this run, as pacman and the records list them.                *)
WorldTyped(w) ==
    /\ IsFiniteSet(DOMAIN w.installed) /\ IsFiniteSet(DOMAIN w.session)
    /\ DOMAIN w.needs = DOMAIN w.installed

(* A container is seeded with what the host runs, in the version it runs,   *)
(* or with what this run built in its place, completely over what the       *)
(* target needs and no further, each package once; and with Arch's rust     *)
(* nothing built on the host's libLLVM comes with it (install_args).  What  *)
(* needs libLLVM through a library's name only, or in the version just      *)
(* built only, is not recognised: the local names are all llvm_linked sees. *)
SeedsMatchHost ==
    Answered("seeds") /\ output # Refusal =>
        LET w == input
            target == Least(Providers(w, w.roots), FoundNeeds(w))
            Swapped(p) == w.rust /\ Llvm \in w.own /\ Llvm \in Least({p}, w.needs)
            onDisk(p) == p \in DOMAIN w.installed /\ <<p, w.installed[p]>> \in w.disk
        IN  /\ \A s, t \in output : s.name = t.name => s = t
            /\ \A s \in output :
                  CASE s.from = "host"    -> s.ver = w.installed[s.name] /\ s.name \in w.own
                                             /\ (s.name \in target => s.name \notin DOMAIN w.session)
                    [] s.from = "session" -> s.name \in target /\ s.ver = w.session[s.name].ver
                    [] OTHER              -> w.rust \/ s.name = Multilib
            /\ \A p \in target :
                  (p \in w.own /\ onDisk(p)) \/ p \in DOMAIN w.session =>
                      Swapped(p) \/ \E s \in output : s.name = p
            /\ \A p \in w.compiler \cap w.own : onDisk(p) \/ Swapped(p) => \E s \in output : s.name = p
            /\ \A s \in output : Swapped(s.name) /\ s.name \in w.own => s.from = "repo"
=============================================================================

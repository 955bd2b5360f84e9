----------------------------- MODULE LibraryAbi -----------------------------
(***************************************************************************)
(* One shared library, libLLVM, and the installed libraries that link it:  *)
(* the checks before and after whatever replaces either of them            *)
(* (primitives/abi_check.py, primitives/toolchain_safety.py, the gates of  *)
(* the toolchain stage and of build_core.py).                              *)
(*                                                                         *)
(* A library is known by what it exports and what it leaves undefined, each*)
(* a symbol and its version node.  A consumer binds a std:: symbol in the  *)
(* node of the libLLVM it is linked against when that exports a copy, else *)
(* in libstdc++'s.  One ELF class; libclang stays as it is.                *)
(***************************************************************************)
EXTENDS Naturals, FiniteSets
LOCAL INSTANCE Functions

CONSTANTS
    Graphics,       \* the consumers found by their file names
    Others,         \* ... and by their declared dependencies
    Uses,           \* what each consumer uses: "init", "std", "api", "cxx"
    LibraryBuilds,  \* the libLLVMs that may be built from source
    MaxVersion, MaxSteps

Consumers == Graphics \cup Others
Modes == {"prompt", "auto", "off"}
Symbols == {"init", "std", "api", "cxx"}

ASSUME LibraryAssumption ==
    /\ "llvm" \notin Consumers /\ Uses \in [Consumers -> SUBSET Symbols]
    /\ LibraryBuilds \subseteq [ver : Nat, source : {TRUE}, syms : SUBSET Symbols, old : SUBSET Symbols]

VARIABLES
    libs,     \* libLLVM and the consumers, as installed
    inRepos, \* the version of libLLVM in the repos
    batch,    \* what was built, passed its gate and is not installed yet
    stage,    \* [pc, target, ships, mode, seen, queue, before]
    verdict,  \* of the last check: [refused, of, with]
    said,     \* the consumers the operator was told of
    exempt,   \* those that broke where nothing is checked
    abiSteps
abiVars == <<libs, inRepos, batch, stage, verdict, said, exempt, abiSteps>>

-----------------------------------------------------------------------------
(* Libraries                                                               *)

RepoBuild(v) == [ver |-> v, source |-> FALSE, syms |-> {"init", "std", "api"}, old |-> {}]
Soname(v) == <<"libLLVM", v>>
Clang == <<"libclang", 0>>
Std == <<"libstdc++", 0>>

\* Linked against a libLLVM: no backend is asked for that it does not have.
Linked(c, lib, source) ==
    [ver |-> lib.ver, source |-> source, newer |-> TRUE,
     undef |-> {<<s, "LLVM">> : s \in Uses[c] \cap (lib.syms \cup {"cxx"})}
               \cup {<<s, "GLIBCXX">> : s \in (Uses[c] \cap {"std"}) \ lib.syms}]

Needed(b) == {Soname(b.ver), Std} \cup IF <<"cxx", "LLVM">> \in b.undef THEN {Clang} ELSE {}

\* Who the linker recorded for a version node (Verneed).
Bound(b, node) == IF node = "GLIBCXX" THEN {Std} ELSE Needed(b) \ {Std}

\* Mutant: only the default version of a symbol counts.
ExportsDefault(lib) == {<<s, "LLVM">> : s \in lib.syms}

\* sym@@VER and sym@VER: either satisfies what was linked before.
Exports(lib) == {<<s, "LLVM">> : s \in lib.syms \cup lib.old}

\* What the loader's cache finds for a soname; nothing is exported by none.
Cached(soname) == soname \in {Soname(libs["llvm"].ver), Std, Clang}
ExportsOf(soname) ==
    CASE soname = Std -> {<<"std", "GLIBCXX">>}
      [] soname = Clang -> {<<"cxx", "LLVM">>}
      [] OTHER -> IF Cached(soname) THEN Exports(libs["llvm"]) ELSE {}

\* What the loader itself makes of it.
Resolves(b, lib) ==
    /\ b.ver = lib.ver
    /\ \A x \in b.undef : x \in {<<"std", "GLIBCXX">>, <<"cxx", "LLVM">>} \/ x[1] \in lib.syms \cup lib.old

-----------------------------------------------------------------------------
(* find_abi_issues, source_built_skew_findings                             *)

Provided(b) == UNION {ExportsOf(n) : n \in Needed(b)}
Nodes(set) == {x[2] : x \in set}

\* An absent backend is benign; an absent library is no symbol finding; the
\* others blame the libraries that define the node, or the recorded ones.
Issues(b) ==
    {x \in b.undef \ Provided(b) :
        /\ Bound(b, x[2]) \cap Needed(b) # {}
        /\ IF x[2] \in Nodes(Provided(b)) THEN x[1] # "init"
           ELSE \A n \in Bound(b, x[2]) : Cached(n)}
Blamed(b, x) ==
    LET defining == {n \in Needed(b) : x[2] \in Nodes(ExportsOf(n))}
    IN  IF defining # {} THEN defining ELSE {n \in Bound(b, x[2]) : Cached(n)}

\* Only a library that was built from source blocks an install.
Skewed(b) == \E x \in Issues(b) : Soname(libs["llvm"].ver) \in Blamed(b, x) /\ libs["llvm"].source

-----------------------------------------------------------------------------
(* _diff_consumers_against_libllvm                                         *)

\* Mutant: only what is found by its file name.
CandidatesGraphics(exclude) == Graphics

Dependents(exclude) == Others \ exclude
Candidates(exclude) == Graphics \cup Dependents(exclude)

\* Of the imports in libLLVM's node, what neither it nor another library has.
Lost(c, lib) ==
    IF Soname(lib.ver) \notin Needed(libs[c]) THEN {}
    ELSE {x \in libs[c].undef : x[2] = "LLVM" /\ x \notin Exports(lib)}
         \ UNION {ExportsOf(n) : n \in Needed(libs[c]) \ {Soname(lib.ver)}}
Short(lib, exclude) == {c \in Candidates(exclude) : Lost(c, lib) # {}}

\* A rebuild helps, unless a backend is gone, or the consumer is newer than
\* the installed library: it was linked against another one.
Healable(c, lib, installed) ==
    <<"init", "LLVM">> \notin Lost(c, lib) /\ ~(installed /\ libs[c].newer)

-----------------------------------------------------------------------------
NoVerdict == [refused |-> FALSE, of |-> {}, with |-> RepoBuild(1)]
NoStage == [pc |-> "idle", target |-> RepoBuild(1), ships |-> {}, mode |-> "off", seen |-> 1,
            queue |-> {}, before |-> <<>>]

InitAbi ==
    /\ inRepos = 1
    /\ libs = [l \in {"llvm"} \cup Consumers |->
                 IF l = "llvm" THEN RepoBuild(1) ELSE [Linked(l, RepoBuild(1), FALSE) EXCEPT !.newer = FALSE]]
    /\ batch = <<>> /\ stage = NoStage /\ verdict = NoVerdict
    /\ said = {} /\ exempt = {} /\ abiSteps = 0

Broken == {c \in Consumers : ~Resolves(libs[c], libs["llvm"])}

Step == abiSteps < MaxSteps /\ abiSteps' = abiSteps + 1
With(f, g) == [x \in DOMAIN f \cup DOMAIN g |-> IF x \in DOMAIN g THEN g[x] ELSE f[x]]
Older(f) == [x \in DOMAIN f |-> IF x = "llvm" THEN f[x] ELSE [f[x] EXCEPT !.newer = FALSE]]

\* A consumer is built on the host, or in a container that has the installed
\* libLLVM, the one just built, or, that being gone, the repos'.
Against == {libs["llvm"], RepoBuild(inRepos)} \cup {batch[l] : l \in DOMAIN batch \cap {"llvm"}}

BuildConsumer(c) ==
    /\ IF stage.pc = "rebuild" THEN c \in stage.queue \ DOMAIN batch ELSE stage.pc = "idle"
    /\ stage.pc = "idle" => Step
    /\ stage.pc # "idle" => UNCHANGED abiSteps
    /\ \E lib \in Against :
          LET b == Linked(c, lib, TRUE)
          IN  IF Skewed(b)
              THEN /\ verdict' = [refused |-> TRUE, of |-> {b}, with |-> libs["llvm"]] /\ UNCHANGED batch
                   /\ IF stage.pc = "rebuild" THEN stage' = [stage EXCEPT !.queue = @ \ {c}] /\ said' = said \cup {c}
                      ELSE UNCHANGED <<stage, said>>
              ELSE batch' = With(batch, [x \in {c} |-> b]) /\ verdict' = NoVerdict /\ UNCHANGED <<stage, said>>
    /\ UNCHANGED <<libs, inRepos, exempt>>

\* libLLVM like any other package, outside its stage.
BuildLibrary ==
    /\ stage.pc = "idle" /\ Step
    /\ \E lib \in LibraryBuilds : batch' = With(batch, [x \in {"llvm"} |-> lib])
    /\ verdict' = NoVerdict /\ UNCHANGED <<libs, inRepos, stage, said, exempt>>

\* What is installed together is looked at once more, for the soname in place.
InstallBatch ==
    /\ DOMAIN batch # {} /\ stage.pc \in {"idle", "rebuild"}
    /\ stage.pc = "rebuild" => stage.queue \subseteq DOMAIN batch
    /\ libs' = IF "llvm" \in DOMAIN batch THEN Older(With(libs, batch)) ELSE With(libs, batch)
    /\ said' = (said \ DOMAIN batch) \cup Short(libs["llvm"], {})'
    /\ exempt' = (exempt \ DOMAIN batch)
                 \cup IF "llvm" \in DOMAIN batch /\ batch["llvm"].ver # libs["llvm"].ver THEN Broken'
                      ELSE {c \in DOMAIN batch \cap Consumers : batch[c].ver # libs'["llvm"].ver}
    /\ batch' = <<>> /\ stage' = NoStage /\ verdict' = NoVerdict /\ UNCHANGED <<inRepos, abiSteps>>

\* pacman -Syu: what the repos built follows, what was built here does not.
Upgrade ==
    /\ inRepos < MaxVersion /\ inRepos' = inRepos + 1
    /\ libs' = LET lib == IF libs["llvm"].ver > inRepos THEN libs["llvm"] ELSE RepoBuild(inRepos + 1)
               IN  [l \in DOMAIN libs |->
                      IF l = "llvm" THEN lib
                      ELSE IF libs[l].source THEN [libs[l] EXCEPT !.newer = FALSE]
                      ELSE [Linked(l, RepoBuild(inRepos + 1), FALSE) EXCEPT !.newer = FALSE]]
    /\ exempt' = exempt \cup Broken'
    /\ verdict' = NoVerdict /\ UNCHANGED <<batch, stage, said, abiSteps>>

-----------------------------------------------------------------------------
(* The toolchain stage                                                     *)

Declared(exclude) == Consumers \ exclude
Queued(mode, hit) == IF mode = "off" THEN {} ELSE hit
Agreed(mode, hit, go) == {go} \cup IF hit # {} /\ mode = "prompt" THEN {NoStage} ELSE {}

\* Before the build, the declared consumers of another soname: told and left,
\* queued, or approved by whoever can be asked.
StageStart ==
    /\ stage.pc = "idle" /\ batch = <<>> /\ Step
    /\ \E lib \in LibraryBuilds, mode \in Modes, ships \in SUBSET Others :
          LET hit == IF lib.ver = libs["llvm"].ver THEN {} ELSE Declared(ships)
              go == [pc |-> "built", target |-> lib, ships |-> ships, mode |-> mode, seen |-> libs["llvm"].ver,
                     queue |-> Queued(mode, hit), before |-> libs]
          IN  /\ said' = said \cup hit
              /\ stage' \in Agreed(mode, hit, go)
    /\ verdict' = NoVerdict /\ UNCHANGED <<libs, inRepos, batch, exempt>>

\* Before the install: what the new library would leave short.
Gate2 ==
    /\ stage.pc = "built"
    /\ LET short == Short(stage.target, stage.ships)
           gone == {c \in short : ~Healable(c, stage.target, FALSE)}
           hit == IF short = {} THEN {} ELSE Declared(stage.ships)
           go == [stage EXCEPT !.pc = "install", !.queue = @ \cup Queued(stage.mode, hit)]
       IN  IF gone # {}
           THEN /\ stage' = NoStage /\ verdict' = [refused |-> TRUE, of |-> {libs[c] : c \in gone}, with |-> stage.target]
                /\ UNCHANGED said
           ELSE /\ stage' \in Agreed(stage.mode, hit, go)
                /\ verdict' = NoVerdict /\ said' = said \cup hit
    /\ UNCHANGED <<libs, inRepos, batch, exempt, abiSteps>>

StageInstall ==
    /\ stage.pc = "install"
    /\ libs' = Older(With(libs, [l \in {"llvm"} \cup stage.ships |->
                                   IF l = "llvm" THEN stage.target ELSE Linked(l, stage.target, TRUE)]))
    /\ said' = said \ stage.ships
    /\ exempt' = (exempt \ stage.ships) \cup IF libs["llvm"].ver = stage.seen THEN {} ELSE Broken'
    /\ stage' = [stage EXCEPT !.pc = "verify"]
    /\ verdict' = NoVerdict /\ UNCHANGED <<inRepos, batch, abiSteps>>

\* After it: a consumer that no rebuild helps brings the old ones back.
Gate3 ==
    /\ stage.pc = "verify"
    /\ LET short == Short(libs["llvm"], stage.ships)
           gone == {c \in short : ~Healable(c, libs["llvm"], TRUE)}
       IN  IF gone # {}
           THEN /\ libs' = Older(With(libs, [l \in {"llvm"} \cup stage.ships |-> stage.before[l]]))
                /\ exempt' = exempt \cup Broken' /\ stage' = NoStage /\ UNCHANGED said
           ELSE /\ said' = said \cup short
                /\ stage' = IF stage.queue = {} THEN NoStage ELSE [stage EXCEPT !.pc = "rebuild"]
                /\ UNCHANGED <<libs, exempt>>
    /\ verdict' = NoVerdict /\ UNCHANGED <<inRepos, batch, abiSteps>>

\* A rebuild that fails, or a kill.  Within the install a sentinel stays.
StageEnds ==
    /\ stage.pc # "idle" /\ stage' = NoStage /\ batch' = <<>>
    /\ said' = IF stage.pc = "verify" THEN Consumers ELSE said
    /\ verdict' = NoVerdict /\ UNCHANGED <<libs, inRepos, exempt, abiSteps>>

NextAbi ==
    \/ \E c \in Consumers : BuildConsumer(c)
    \/ BuildLibrary \/ InstallBatch \/ Upgrade
    \/ StageStart \/ Gate2 \/ StageInstall \/ Gate3 \/ StageEnds

AbiSpec == InitAbi /\ [][NextAbi]_abiVars

-----------------------------------------------------------------------------
(* No installed library stops loading unsaid: a build, an install of the   *)
(* stage and what both leave for later name every consumer that they leave *)
(* short.  Not checked, and left out: another version of libLLVM outside   *)
(* the stage, or under it while it builds; a consumer built in a container *)
(* whose libLLVM has another version than the host's; pacman's upgrades    *)
(* over what was built here (find_abi_issues, the gates of the stage,      *)
(* _post_install_libllvm_check).                                           *)
BrokenIsSaid == Broken \subseteq said \cup exempt \cup IF stage.pc = "verify" THEN Consumers ELSE {}

(* Nothing is refused that would load: what a gate refuses lacks a symbol, *)
(* but for a consumer of a libLLVM that was built and is not installed yet *)
(* (_parse_nm_exports, shipped_pkgnames).                                  *)
RefusedIsBroken ==
    verdict.refused /\ "llvm" \notin DOMAIN batch =>
        \A b \in verdict.of : ~Resolves(b, verdict.with)

(* The gates on symbols name what breaks, and only that.                    *)
SymbolsSound == BrokenIsSaid /\ RefusedIsBroken
=============================================================================

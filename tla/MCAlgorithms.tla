---------------------------- MODULE MCAlgorithms ----------------------------
(***************************************************************************)
(* The pure algorithms of sysforge over bounded inputs: each behaviour is  *)
(* one input of one subject and its result.                                *)
(***************************************************************************)
EXTENDS Profiles, DepOrder, SandboxSeeds, KernelConfig, StateRepair, UpdateSet, Patcher, TLC

-----------------------------------------------------------------------------
(* Flags: a system conf, a profile, and every pair of circumstances.        *)

Blank == [k \in Keys |-> Absent]

Systems ==
    {[Blank EXCEPT !["CFLAGS"] = {"-march=generic", "-O2"}, !["CXXFLAGS"] = {RefC},
                   !["LDFLAGS"] = ld, !["LTOFLAGS"] = {"-flto"}, !["OPTIONS"] = {"lto"}] :
        ld \in {{"-Wl,-z"}, {Lld, "--icf=all"}}}

ProfilesOf ==
    {[Blank EXCEPT !["CC"] = cc, !["CFLAGS"] = c, !["CXXFLAGS"] = cxx,
                   !["LDFLAGS"] = ld, !["RUSTFLAGS"] = rust] :
        <<cc, rust>> \in {<<{"clang"}, Absent>>, <<{"clang"}, {"lld"}>>, <<{"gcc"}, Absent>>},
        c \in {Absent, {"-march=native", "-flto=thin"}, {"-flto"}},
        cxx \in {{RefC}, {"-flto=thin"}}, ld \in {Absent, {Lld, "--icf=all"}, {Bfd}, {Lld, "-flto=thin"}}}

Circumstances == {"kernel", "gcc", "lld", "variant", "gccInPkgbuild", "gccFallback",
                  "noFullLto", "noLto", "extra", "lib32", "musl", "bare"}

BuildOf(s, p, c) ==
    [system |-> s, profile |-> p, consumes |-> {"makepkg", "rust"}, everyKey |-> FALSE,
     preserve |-> IF "bare" \in c THEN {} ELSE {"-march=generic", "-Wl,-z"},
     kernel |-> "kernel" \in c, cc |-> IF "gcc" \in c THEN "gcc" ELSE Absent,
     ld |-> IF "lld" \in c THEN "lld" ELSE Absent, llvmVariant |-> "variant" \in c,
     gccInPkgbuild |-> "gccInPkgbuild" \in c, gccFallback |-> "gccFallback" \in c,
     noFullLto |-> "noFullLto" \in c, noLto |-> "noLto" \in c,
     extra |-> IF "extra" \in c THEN {"-fprofile-use"} ELSE {},
     lib32 |-> "lib32" \in c, musl |-> "musl" \in c]

Builds == {BuildOf(s, p, c) : s \in Systems, p \in ProfilesOf,
                              c \in {x \in SUBSET Circumstances : Cardinality(x) <= 2}}

ASSUME BuildsAreConfigured == \A b \in Builds : WellConfigured(b, STRING)

-----------------------------------------------------------------------------
(* Drift: one build under two profiles.                                     *)

Pairs == {[one |-> BuildOf(s, p, c), two |-> BuildOf(s, q, c)] :
             s \in Systems, c \in {{}, {"kernel"}, {"gccFallback"}, {"lib32"}, {"extra"}},
             p \in ProfilesOf, q \in {x \in ProfilesOf : x["CC"] = {"gcc"}}}

ASSUME PairsAreEdits == \A x \in Pairs : Edited(x, STRING)

-----------------------------------------------------------------------------
(* Profiles: a chain of two under rules that match or do not, with a        *)
(* package's own row and build modes along the chain.                       *)

NoSet == [k \in Keys |-> Absent]
NoCondition == [c \in {"pkgnames", "not_pkgnames", "groups", "not_groups", "depends_any", "depends_all",
                       "not_depends", "makedepends_any", "makedepends_all", "not_makedepends"} |-> Absent]
RuleOf(profile, priority, condition, value) ==
    [NoCondition EXCEPT ![condition] = value] @@ [profile |-> profile, priority |-> priority,
                                                  append_groups |-> {}]

RuleLists ==
    {<<>>,
     <<RuleOf("base", 1, "pkgnames", {{"pkg", "other"}}), RuleOf("child", 2, "groups", {{"grp"}})>>,
     <<RuleOf("child", 1, "depends_any", {"a", "b"}), RuleOf("base", 1, "not_makedepends", {"a"}),
       RuleOf(Absent, 9, "depends_all", {"a"})>>,
     <<RuleOf("child", 1, "depends_all", {"a", "b"}), RuleOf("base", 0, "not_pkgnames", {{"other"}})>>}

ProfileWorlds ==
    {[profiles |-> [bare  |-> [set |-> Blank, append |-> NoSet, extends |-> Absent],
                    base  |-> [set |-> [Blank EXCEPT !["LDFLAGS"] = ld, !["toolchain"] = tc, !["CC"] = cc,
                                                     !["build_mode"] = mode],
                               append |-> NoSet, extends |-> up],
                    child |-> [set |-> [Blank EXCEPT !["build_mode"] = own],
                               append |-> [NoSet EXCEPT !["LDFLAGS"] = add], extends |-> "base"]],
      matched  |-> MatchRules([pkgnames |-> {"pkg"}, pkgbase |-> Absent, groups |-> {"grp"},
                               depends |-> {"a"}, makedepends |-> {}], rules),
      defaults |-> [profile |-> "bare", toolchain |-> "gcc", append_groups |-> {}],
      row |-> row, extracted |-> extracted] :
        ld \in {Absent, {Lld}, {Bfd, "-Wl,-z"}}, tc \in {Absent, {"llvm"}, {"gcc"}},
        cc \in {Absent, {"clang"}}, up \in {Absent, "bare", "child"},
        add \in {Absent, {Bfd}, {Lld, "--icf=all"}}, rules \in RuleLists,
        mode \in {Absent, {"source_built"}}, own \in {Absent, {"kernel"}},
        extracted \in {Absent, [Blank EXCEPT !["LDFLAGS"] = {Bfd}]},
        row \in {Absent} \cup [toolchain : {Absent, "gcc"}, cc : {Absent, "gcc"}, ld : {Absent, "bfd"}]
                \cup [toolchain : {"llvm"}, cc : {Absent}, ld : {Absent}]}

ASSUME ProfilesAreWritten == \A w \in ProfileWorlds : WellWritten(w, STRING)

-----------------------------------------------------------------------------
(* Dependencies: a target over three packages that need one another.        *)

Below(n) == {<<>>} \cup {<<x>> : x \in {"a", "b", "c"} \ {n}}
            \cup {<<x, y>> : x \in {"a", "b", "c"} \ {n}, y \in {"a", "b", "c"} \ {n}}

\* The members of one PKGBUILD have the same needs, and never one another.
OnePkgbuild(x) == x.w.dir["c"] = "b" => /\ x.w.needs["b"] = x.w.needs["c"]
                                        /\ ToSet(x.w.needs["b"]) \subseteq {"a"}

DepWorlds == {x \in
    {[w |-> [from |-> [n \in {"a", "b", "c"} |-> IF n = "c" /\ twist = "repo" THEN "repo" ELSE "aur"],
             needs |-> [n \in {"t", "a", "b", "c"} |->
                          CASE n = "t" -> t [] n = "a" -> a [] n = "b" -> b [] OTHER -> c],
             dir |-> [n \in {"a", "b", "c"} |-> IF n = "c" /\ twist = "shared" THEN "b" ELSE n]],
      targets |-> <<"t">>, building |-> IF twist = "building" THEN {"b"} ELSE {},
      changed |-> IF twist = "refused" THEN {"c"} ELSE {},
      failing |-> IF twist = "failing" THEN {"b"} ELSE {}] :
        t \in Below("t"), a \in Below("a"), b \in Below("b"), c \in {<<>>, <<"a">>, <<"b">>},
        twist \in {"none", "repo", "shared", "building", "refused", "failing"}} : OnePkgbuild(x)}

AurNeeds(w, n) == {m \in ToSet(w.needs[n]) : w.from[m] = "aur"}
Needed(w, ns) == LET one == ns \cup UNION {AurNeeds(w, n) : n \in ns}
                     two == one \cup UNION {AurNeeds(w, n) : n \in one}
                 IN  two \cup UNION {AurNeeds(w, n) : n \in two}

BuiltNames == UNION {output.built[i].names : i \in DOMAIN output.built}

DependenciesFirst ==
    Answered("deps") /\ ~output.resolved.cycle =>
        LET w == input.w
        IN  /\ \A i, j \in DOMAIN output.built :
                  output.built[i].dir = output.built[j].dir => i = j
            /\ \A i \in DOMAIN output.built : \A n \in output.built[i].names :
                  \A m \in AurNeeds(w, n) \ (input.building \cup output.refused) :
                      \E j \in 1..i : m \in output.built[j].names
            /\ input.failing = {}
                 => BuiltNames = (Needed(w, AurNeeds(w, "t")) \ (input.building \cup output.refused))

RefusedTakesRequirers ==
    Answered("deps") /\ input.changed # {} /\ ~output.resolved.cycle
      /\ Len(output.resolved.order) = Cardinality(ToSet(output.resolved.order)) =>
        \A n \in BuiltNames : Needed(input.w, {n}) \cap input.changed = {}

-----------------------------------------------------------------------------
(* Targets: four, each with any of the others among its needs.              *)

TargetNames == {"p", "q", "r", "s"}
TargetWorlds ==
    {[w |-> [names |-> <<"p", "q", "r", "s">>, provides |-> [n \in TargetNames |-> {n}],
             needs |-> [n \in TargetNames |-> SelectSeq(<<"p", "q", "r", "s">>, LAMBDA x : x \in needs[n])]],
      targets |-> targets] :
        needs \in [TargetNames -> SUBSET {"p", "q", "r"}], targets \in {<<"p", "q", "r", "s">>, <<"s", "q", "p", "r">>}}

RECURSIVE Acyclic(_, _)
Acyclic(deps, left) ==
    left = {} \/ \E t \in left : deps[t] \cap left = {} /\ Acyclic(deps, left \ {t})

TargetsInOrder ==
    Answered("targets") =>
        LET deps == IntraDeps(input.w, input.targets)
            At(t) == CHOOSE i \in DOMAIN output : output[i] = t
        IN  /\ Len(output) = 4 /\ ToSet(output) = TargetNames
            /\ IF Acyclic(deps, TargetNames)
               THEN \A t \in TargetNames : \A u \in deps[t] : At(u) < At(t)
               ELSE output = input.targets

(* What is needed comes first.  Every dependency from the AUR is built,     *)
(* once, and after what it needs itself, up to the first that fails         *)
(* (build_core.prepare_deps).  A source whose changes are refused keeps     *)
(* everything that needs it from being built (_requirer_closure); but a     *)
(* package that one parent lists after another that needs it is resolved    *)
(* twice, the second time forgetting the first requirer: those worlds are   *)
(* left out.  The targets are all built, each after those of them it needs; *)
(* if they need one another in a circle, in the order they were given       *)
(* (_order_targets_by_intra_deps).                                          *)
NeedsComeFirst == DependenciesFirst /\ RefusedTakesRequirers /\ TargetsInOrder

-----------------------------------------------------------------------------
(* Seeds: libLLVM, clang built on it, an application and a library of it,   *)
(* which may need libLLVM by name or through the library it provides.       *)

Merged(f, g) == [x \in DOMAIN f \cup DOMAIN g |-> IF x \in DOMAIN g THEN g[x] ELSE f[x]]
Rebuilt(p, needs, provides) == p :> [ver |-> 2, needs |-> needs, provides |-> provides]

SeedWorlds ==
    LET there == {Llvm, "clang", "app", "lib"}
    IN {[installed |-> [p \in there |-> 1],
      needs |-> Merged([p \in there |-> {}], "clang" :> {Llvm} @@ "app" :> app @@ "lib" :> lib),
      provider |-> "so" :> Llvm, own |-> own, disk |-> disk, session |-> session,
      repo |-> {Llvm, "clang"} \cup more, roots |-> roots, rust |-> rust, lib32 |-> more = {},
      compiler |-> compiler, readable |-> session = <<>> \/ rust] :
        app \in {{}, {"lib"}, {Llvm}, {"so"}},
        lib \in {{}, {Llvm}, {"so"}}, own \in {{}, {"app"}, {"app", "lib"}, {Llvm, "clang"}, {Llvm, "clang", "app", "lib"}},
        disk \in {{}, {<<p, v>> : p \in there, v \in 1..3} \ {<<"lib", 1>>},
                  {<<p, v>> : p \in there, v \in 1..2}},
        session \in {<<>>, Rebuilt("lib", {}, {}), Rebuilt("lib", {Llvm}, {"so"}),
                     Rebuilt("app", {"lib"}, {}) @@ Rebuilt("new", {"app"}, {"thing"})},
        more \in {{}, {Multilib}}, roots \in {{"app"}, {"thing"}, {"clang", "lib"}},
        rust \in BOOLEAN, compiler \in {{}, {"clang"}}}

ASSUME WorldsAreTyped == \A w \in SeedWorlds : WorldTyped(w)

-----------------------------------------------------------------------------
(* Records: a PKGBUILD of two members, one of them dropped or not, with any *)
(* records of theirs and of a name that was never expanded.                 *)

RecordOf(k, base, version, origin) ==
    k :> [base |-> base, version |-> version, origin |-> origin, mode |-> "legacy", rest |-> k]
NoneOr(m, own, bases) ==
    {<<>>} \cup {RecordOf(Key(m, own), base, version, own) : base \in bases, version \in {"then", Variable}}
RecordSets ==
    {a @@ ownA @@ b @@ ownB @@ v :
        a \in NoneOr("a", FALSE, {"stock", Variable}), ownA \in NoneOr("a", TRUE, {"own", Variable}),
        b \in NoneOr("b", FALSE, {"stock"}), ownB \in NoneOr("b", TRUE, {"own"}),
        v \in {<<>>} \cup {RecordOf(Key(Variable, FALSE), Variable, "then", origin) : origin \in BOOLEAN}}

RecordGroups ==
    UNION {{[records |-> records, first |-> first, listed |-> listed] :
              first \in {k \in DOMAIN records : Broken([records |-> records], k)},
              listed \in {{}, {"a"}, {"a", "b"}}} : records \in RecordSets}

ASSUME GroupsAreRead == \A g \in RecordGroups : GroupRead(g)

-----------------------------------------------------------------------------
(* The update's packages: two members of one pkgbase, which is called like  *)
(* the first, and what may take them in or leave them out.                  *)

Recorded(mode, source, dir, owner) ==
    [mode |-> mode, source |-> source, dir |-> dir, owner |-> owner, base |-> "a"]
Unrecorded == Recorded("marker", Unsaid, Unsaid, Unsaid)
MemberRecords ==
    {Unrecorded, Recorded("built", "repo", <<"mine">>, "kernel")}
        \cup {Recorded("built", source, <<"mine">>, Unsaid) : source \in {Unsaid, "repo", "aur"}}
MemberOverrides == {[acts |-> FALSE, source |-> Unsaid], [acts |-> TRUE, source |-> Unsaid],
                    [acts |-> FALSE, source |-> "aur"]}

UpdateWorlds ==
    {[installed |-> {"a", "b"}, base |-> "a", foreign |-> foreign, record |-> "a" :> a @@ "b" :> b,
      override |-> "a" :> [acts |-> FALSE, source |-> Unsaid] @@ "b" :> override, fromSource |-> fromSource,
      optedOut |-> optedOut, names |-> names, stageOwned |-> stageOwned,
      kernel |-> IF owners = "kernel" THEN "a" ELSE Unsaid, llvm |-> owners = "suite",
      suite |-> {"a"}, listed |-> {"spirv"}, inLocalDb |-> known = "local", inAur |-> known = "aur",
      offline |-> FALSE, order |-> order] :
        foreign \in {{}, {"a", "b"}}, a \in MemberRecords, b \in MemberRecords, override \in MemberOverrides,
        fromSource \in BOOLEAN, optedOut \in {{}, {"b"}}, names \in {{}, {"b"}}, stageOwned \in BOOLEAN,
        owners \in {"none", "kernel", "suite"}, known \in {"local", "aur", "nowhere"},
        order \in {<<"a", "b">>, <<"b", "a">>}}

ASSUME MembersAreTyped == \A w \in UpdateWorlds : MembersTyped(w)

-----------------------------------------------------------------------------
(* The suite's trees: the repos build clang from llvm, or from its own tree, *)
(* which some machines still have; llvm's checkout is of today, or lists     *)
(* what moved away.                                                          *)

SuitePackages == {"libs", "clang", "lldb", "spirv"}
SuiteBases ==
    {[p \in SuitePackages |-> CASE p = "spirv" -> "spirv" [] p = "clang" -> own [] OTHER -> "llvm"] :
        own \in {"llvm", "clang"}}
MembersIn(base, d) == {p \in SuitePackages : base[p] = d}
SuiteDisks(base) ==
    {[d \in here |-> IF d = "llvm" /\ old THEN {"libs", "clang", "lldb"}
                     ELSE IF d = "clang" THEN {"clang"} ELSE MembersIn(base, d)] :
        here \in SUBSET {"llvm", "clang", "spirv"}, old \in BOOLEAN}
Suites ==
    UNION {{[names |-> names, pgo |-> {"libs"}, base |-> base, disk |-> disk,
             upstream |-> [d \in there |-> MembersIn(base, d)],
             walk |-> SelectSeq(<<"spirv", "llvm", "clang">>, LAMBDA d : d \in DOMAIN disk),
             installed |-> installed] :
                names \in {<<"libs", "clang", "spirv">>, <<"spirv", "clang", "libs">>, <<"clang", "libs">>},
                disk \in SuiteDisks(base), there \in SUBSET Range(base),
                installed \in {{"libs", "clang"}, SuitePackages}} : base \in SuiteBases}

ASSUME SuitesAreTyped == \A r \in Suites : SuiteTyped(r)

-----------------------------------------------------------------------------
(* The host before a batch of two, a plain package and a 32-bit one.        *)

BatchPackage(consumes, compilers, lib32, pin, resolved) ==
    [consumes |-> consumes, compilers |-> compilers, lib32 |-> lib32, pin |-> pin, resolved |-> resolved]
Batches ==
    {{BatchPackage({"cmake"}, {compiler}, FALSE, Unpinned, TRUE),
      BatchPackage(consumes, {"clang"}, TRUE, pin, resolved)} :
        compiler \in {"clang", "gcc"}, consumes \in {{"rust"}, {"rust", "meson"}, {}},
        pin \in {Unpinned, "stable"}, resolved \in BOOLEAN}
BuildHosts ==
    {[runs |-> {"cmake", "gcc"} \cup more, rustup |-> rustup, with32 |-> with32, system32 |-> system32,
      suite |-> suite] :
        more \in SUBSET {"rust", "meson", "clang"}, rustup \in BOOLEAN,
        with32 \in SUBSET {Unpinned, "stable"}, system32 \in BOOLEAN,
        suite \in {{"absent", "22.1.5"}, {"22.1.5", "22.1.6"}}}
Preflights ==
    {[batch |-> batch, host |-> host, answers |-> Cross(Unpinned) :> a @@ Cross("stable") :> b,
      asked |-> asked, off |-> off] :
        batch \in Batches, host \in BuildHosts, a \in {"no", "fails", "added"}, b \in {"no", "added"},
        asked \in BOOLEAN, off \in {FALSE}}

ASSUME PreflightsTyped == \A b \in Preflights : HostTyped(b.host) /\ BatchTyped(b.batch)

-----------------------------------------------------------------------------
(* The kernel's configuration: a run after an earlier one, on one machine,  *)
(* with one PKGBUILD.                                                       *)

Usual == [capture |-> TRUE, base |-> "pkgbuild", overlay |-> FALSE, device |-> TRUE, hardening |-> FALSE,
          manual |-> <<>>, fdo |-> <<>>, merge |-> TRUE, hotplug |-> FALSE, targets |-> <<>>,
          review |-> FALSE, allow |-> FALSE]
Everything == [Usual EXCEPT !.base = "path", !.hotplug = TRUE, !.manual = "hz" :> "m"]
KernelSettings ==
    {Usual, [Usual EXCEPT !.merge = FALSE], Everything,
     [Usual EXCEPT !.review = TRUE, !.hotplug = TRUE],
     [Usual EXCEPT !.merge = FALSE, !.hardening = TRUE],
     [Usual EXCEPT !.base = "running", !.hardening = TRUE, !.manual = "hz" :> "n" @@ "sig" :> "y"],
     [Everything EXCEPT !.overlay = TRUE, !.review = TRUE],
     [Everything EXCEPT !.targets = <<"trim">>, !.review = TRUE],
     [Everything EXCEPT !.targets = <<"menu", "trim">>, !.review = TRUE, !.capture = FALSE],
     [Everything EXCEPT !.targets = <<"resolve", "menu">>, !.manual = "gone" :> "y"],
     [Usual EXCEPT !.targets = <<"old">>],
     [Usual EXCEPT !.targets = <<"menu">>, !.review = TRUE, !.fdo = "fdo" :> "y"],
     [Usual EXCEPT !.manual = "rust" :> "y" @@ "root" :> "n", !.device = FALSE]}

KernelOptions == {"hz", "drv", "usb", "gone", "sig", "rust", "root", "fdo"}
Shipped == [o \in KernelOptions |-> CASE o = "hz" -> "y" [] o \in {"drv", "usb", "root"} -> "m" [] OTHER -> "n"]
Lean == [o \in KernelOptions |-> IF o = "root" THEN "y" ELSE "n"]

Machines ==
    {[lsmod |-> lsmod, running |-> running, saved |-> Lean, device |-> "drv" :> "m", hardware |-> hardware,
      hardened |-> "hz" :> "y", hotplug |-> "usb" :> "m", rust |-> rust, dkms |-> rust, gone |-> {"gone"},
      bools |-> {"hz"}, edited |-> edited, shipped |-> Shipped, packagers |-> "hz" :> "y" @@ "drv" :> "n",
      boots |-> {"root"}] :
        lsmod \in {NoFile, {"root", "drv", "usb"}}, running \in {NoFile, Lean},
        hardware \in {<<>>, "hz" :> "n"}, rust \in BOOLEAN, edited \in {{}, {"usb"}, {"hz", "drv"}}}

Recipes ==
    {<<"write", "resolve">>, <<"write", "old", "menu">>, <<"write", "menu", "resolve">>,
     <<"write", "resolve", "trim">>, <<"write">>, <<"write", "merge", "resolve">>,
     <<"write", "append", "trim", "menu">>, <<"menu">>}

KernelRuns == [k : KernelSettings, m : Machines, lines : Recipes,
               earlier : {NoFile, Everything, [Everything EXCEPT !.overlay = TRUE, !.hardening = TRUE]},
               before : {[lsmod |-> {"root", "usb"}, running |-> Lean]}, seen : {{}, {"root"}}]

ASSUME RunsAreTyped == \A r \in KernelRuns : RunTyped(r)

-----------------------------------------------------------------------------
(* Flags: up to five lines over the top level and two functions, each       *)
(* assignment giving its own line as its token.                             *)

LineKinds == {"if", "fi", "other", "set", "add", "complex"}
FlagLine(kind, i, cut) ==
    [kind |-> IF kind = "complex" THEN "set" ELSE kind, key |-> "CFLAGS",
     tokens |-> IF kind = "complex" THEN Unset ELSE <<i>>,
     in |-> IF i < cut[1] THEN "top" ELSE IF i < cut[2] THEN "prepare" ELSE "build"]

\* Conditionals are closed in the function they are opened in.
Balanced(lines) ==
    \A f \in {"top", "prepare", "build"} :
        LET Count(kind, j) == Cardinality({i \in 1..j : lines[i].kind = kind /\ lines[i].in = f})
        IN  /\ \A j \in DOMAIN lines : Count("fi", j) <= Count("if", j)
            /\ Count("fi", Len(lines)) = Count("if", Len(lines))

FlagRecipes ==
    {x \in {[i \in 1..5 |-> FlagLine(kinds[i], i, cut)] : kinds \in [1..5 -> LineKinds],
                                                        cut \in {<<1, 6>>, <<2, 4>>, <<1, 4>>}} : Balanced(x)}

-----------------------------------------------------------------------------
(* Drivers and targets, commands, and make lines.                           *)

Known == {"radeonsi", "amd"} \cup Software["gallium"] \cup Software["vulkan"]

PatchedHosts ==
    {[known |-> Known, o |-> [explicit |-> explicit, filter |-> filter, own |-> [gallium |-> ownGallium, vulkan |-> ownVulkan]],
      h |-> [profile |-> profile, detected |-> {"X86"}, consumed |-> consumed,
             noted |-> [gallium |-> noted, vulkan |-> Unset], live |-> [gallium |-> {"radeonsi"}, vulkan |-> {"amd"}]],
      mesa |-> [gallium |-> gallium, vulkan |-> {"all"}, rusticl |-> rusticl]] :
        explicit \in {Unset, {}, {"X86"}, {"X86", "AMDGPU"}}, filter \in BOOLEAN,
        ownGallium \in {Unset, {"radeonsi"}, {"radeonsy"}}, ownVulkan \in {Unset, {"amd"}, {"amdd"}},
        profile \in {Unset, {"X86"}}, consumed \in {{}, {"NVPTX"}}, noted \in {Unset, {"llvmpipe"}},
        gallium \in {Unset, {"all"}}, rusticl \in {Unset, {"auto"}, {"radeonsi", "asahi"}}}

CommandKinds ==
    {[kind |-> kind, args |-> args, rest |-> rest] :
        kind \in {"configure", "action", "array", "comment"},
        args \in {{}, {Option("targets", "old")}, {Option("dir", "old"), Option("skiprpath", "on")}},
        rest \in {{}, {Option("other", "on")}}}
CommandLines ==
    {[commands |-> <<a, b>>, targets |-> targets, dir |-> dir] :
        a \in CommandKinds, b \in CommandKinds, targets \in {Unset, "few"}, dir \in {Unset, "staged"}}

MakeLines ==
    {x \in UNION {[1..n -> {"doc", "goal", "opt", "op", "word", "bg"}] : n \in 1..5} :
        /\ \A i \in DOMAIN x : x[i] = "bg" => i = Len(x)
        /\ \A i \in DOMAIN x : x[i] = "word" <=> (i > 1 /\ x[i - 1] = "op")}

-----------------------------------------------------------------------------
(* Names: one or two members, and a third added later.                      *)

Literal(name) == [name |-> name, ref |-> FALSE]
Ref(part) == [name |-> part, ref |-> TRUE]
OwnRelations == {[set |-> set, add |-> add] : set \in {Unset, {}, {<<"y">>}}, add \in {{}, {<<"z">>}}}
Inherits == [r \in Relations |-> [set |-> Unset, add |-> {}]]

PackageNames ==
    UNION {{[base |-> shape.base, members |-> shape.members, added |-> added, global |-> [r \in Relations |-> global],
             own |-> [n \in functions |-> [Inherits EXCEPT !["conflicts"] = conflicts, !["provides"] = provides]]] :
               functions \in {{}, shape.names}, global \in {{}, {<<"w">>}, {<<"x">>}},
               conflicts \in OwnRelations, provides \in OwnRelations,
               added \in IF shape.base = Unset THEN {<<>>} ELSE {<<>>, <<Ref(<<"docs">>)>>}} :
      shape \in {[base |-> Unset, members |-> <<Literal(<<"x">>)>>, names |-> {<<"x">>}],
                 [base |-> <<"x">>, members |-> <<Literal(<<"x">>), Literal(<<"x", "libs">>)>>,
                  names |-> {<<"x">>, <<"x", "libs">>}],
                 [base |-> <<"x">>, members |-> <<Literal(<<"lib32", "x">>), Literal(<<"other">>)>>,
                  names |-> {<<"lib32", "x">>}],
                 [base |-> <<"x">>, members |-> <<Ref(<<>>), Ref(<<"headers">>)>>, names |-> {<<"x">>, <<"x", "headers">>}],
                 [base |-> <<"x", "sysforge">>, members |-> <<Literal(<<"x", "sysforge">>)>>, names |-> {}]}}

NameRuns == [p : PackageNames, do : {"suffix", "rename", "both"}, mode : {"conflict", "coexist"}, docs : BOOLEAN]

-----------------------------------------------------------------------------
Inputs ==
    [flags |-> Builds, drift |-> Pairs, profile |-> ProfileWorlds, deps |-> DepWorlds, targets |-> TargetWorlds,
     seeds |-> SeedWorlds, kconfig |-> KernelRuns, repair |-> RecordGroups, update |-> UpdateWorlds,
     preflight |-> Preflights, suite |-> Suites, flagLines |-> FlagRecipes, drivers |-> PatchedHosts,
     commands |-> CommandLines, makes |-> MakeLines, names |-> NameRuns]

Init == \E s \in DOMAIN Inputs : Posed(s, Inputs[s])

Next ==
    \/ ComputeFlags     \/ ComputeDrift    \/ ComputeProfile
    \/ ComputeDeps      \/ ComputeTargets  \/ ComputeSuite
    \/ ComputeSeeds     \/ ComputeKconfig  \/ ComputeRepair
    \/ ComputeUpdate    \/ ComputePreflight
    \/ ComputeFlagLines \/ ComputeDrivers  \/ ComputeCommands
    \/ ComputeMakes     \/ ComputeNames

Spec == Init /\ [][Next]_question
=============================================================================

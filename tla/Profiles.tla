------------------------------ MODULE Profiles ------------------------------
(***************************************************************************)
(* How the flags of one build are resolved: the rules that choose a        *)
(* profile, the chain of profiles it extends, its toolchain, and the       *)
(* overrides of single packages (primitives/profile.py); and the           *)
(* makepkg.conf written from it (primitives/makepkg_conf.py).              *)
(*                                                                         *)
(* The value of a flag key is a set of tokens.  Tokens of one class        *)
(* exclude one another: a conflict group of profiles.toml, or one          *)
(* `-flag=' prefix.  The tokens of a value are pairwise of other classes,  *)
(* so their order, which the code keeps, tells nothing more.               *)
(***************************************************************************)
EXTENDS Naturals, Sequences, FiniteSets, Functions, Question

CONSTANTS
    Absent,         \* a key that a profile, a rule or the system lacks
    Installed       \* the linkers found on PATH

FlagKeys   == {"CFLAGS", "CXXFLAGS", "LDFLAGS"}
BundleKeys == {"CC", "AR"}
Internal   == {"toolchain", "build_mode"}      \* sysforge's own, never written out
Keys       == FlagKeys \cup BundleKeys \cup {"LTOFLAGS", "RUSTFLAGS", "OPTIONS"} \cup Internal

Lld    == "-fuse-ld=lld"
Bfd    == "-fuse-ld=bfd"
RefC   == "$CFLAGS"       \* CXXFLAGS="$CFLAGS": the other key, expanded by makepkg
Linker == [t \in {Lld, Bfd} |-> IF t = Lld THEN "lld" ELSE "bfd"]

ClassOf(t) ==
    CASE t \in {Lld, Bfd}                          -> "ld"
      [] t \in {"-flto", "-flto=thin"}             -> "lto"
      [] t \in {"-march=native", "-march=generic"} -> "march"
      [] t \in {"-fprofile-use", "-fprofile-generate"} -> "pgo"
      [] OTHER                                     -> t

Clash(t, u) == t # u /\ ClassOf(t) = ClassOf(u)

LinkersOf(v) == {Linker[t] : t \in v \cap {Lld, Bfd}}
DropLinker(v) == v \ {Lld, Bfd}
InjectLinker(v, l) == DropLinker(v) \cup {CHOOSE t \in {Lld, Bfd} : Linker[t] = l}

ValueOr(p, k, default) == IF p[k] = Absent THEN default ELSE p[k]

(* The tokens a child's `append' table adds replace those they exclude.     *)
AppendTokens(parent, child) ==
    {t \in parent : \A c \in child : ~Clash(t, c)} \cup child

(* The system's tokens of a preserved class return to a value whose own     *)
(* tokens leave the class open.                                             *)
RestoredTokens(value, system, preserve) ==
    IF value = {} \/ system = {} \/ value = {RefC} THEN {}
    ELSE {t \in system \ value : /\ \E p \in preserve : ClassOf(p) = ClassOf(t)
                                 /\ \A u \in value : ClassOf(u) # ClassOf(t)}

(* CXXFLAGS="$CFLAGS" is completed by what its expansion lacks, once the    *)
(* key it refers to has its own tokens back.                                *)
ApplyPreserved(p, system, preserve) ==
    LET Plain(k) == IF p[k] \in {Absent, {RefC}} \/ system[k] = Absent THEN p[k]
                    ELSE p[k] \cup RestoredTokens(p[k], system[k], preserve)
        base == IF p["CFLAGS"] # Absent THEN Plain("CFLAGS") ELSE ValueOr(system, "CFLAGS", {})
    IN  [k \in DOMAIN p |->
            IF k \notin FlagKeys THEN p[k]
            ELSE IF p[k] = {RefC} /\ system[k] # Absent
                 THEN p[k] \cup RestoredTokens(base, system[k], preserve)
                 ELSE Plain(k)]

-----------------------------------------------------------------------------
(* profiles.toml: each profile has its keys, the keys it appends to, and    *)
(* the one it extends.  A loop, or an unknown name, ends the build.         *)

\* What a profile makes of the keys of the one it extends.
Extends(own, parent) ==
    IF own.extends = Absent THEN own.set
    ELSE IF parent = Absent THEN Absent
    ELSE [k \in DOMAIN own.set |->
            IF own.set[k] # Absent THEN own.set[k]
            ELSE IF own.append[k] # Absent THEN AppendTokens(ValueOr(parent, k, {}), own.append[k])
            ELSE parent[k]]

MergeChain(profiles, start) ==
    LET Merge[seen \in SUBSET DOMAIN profiles] ==
            [p \in DOMAIN profiles \cup {Absent} |->
                IF p = Absent \/ p \in seen THEN Absent
                ELSE Extends(profiles[p], Merge[seen \cup {p}][profiles[p].extends])]
    IN  Merge[{}][start]

(* Fill the keys of a toolchain's bundle that the profile leaves open; the  *)
(* llvm bundle brings its linker when none is declared.                     *)
Bundle(tc) == IF tc = "llvm" THEN [CC |-> {"clang"}, AR |-> {"llvm-ar"}]
                             ELSE [CC |-> {"gcc"}, AR |-> Absent]

ExpandToolchain(p, default) ==
    LET tc == IF p["toolchain"] # Absent THEN CHOOSE t \in p["toolchain"] : TRUE ELSE default
    IN  IF tc \notin {"llvm", "gcc"} THEN p ELSE
        [k \in DOMAIN p |->
           CASE k \in BundleKeys /\ p[k] = Absent -> Bundle(tc)[k]
             [] k = "LDFLAGS" /\ tc = "llvm" /\ LinkersOf(ValueOr(p, k, {})) = {}
                  -> InjectLinker(ValueOr(p, k, {}), "lld")
             [] OTHER -> p[k]]

\* Mutant: the linker of the old bundle stays.
SwapToolchainOnly(p, tc) ==
    ExpandToolchain([k \in DOMAIN p |-> CASE k \in BundleKeys -> Absent
                                          [] k = "toolchain" -> {tc}
                                          [] OTHER -> p[k]], Absent)

(* Another bundle as a unit: its keys and the linker of the old one go.     *)
SwapToolchain(p, tc) ==
    ExpandToolchain(
        [k \in DOMAIN p |-> CASE k \in BundleKeys -> Absent
                              [] k = "LDFLAGS" /\ p[k] # Absent -> DropLinker(p[k])
                              [] k = "toolchain" -> {tc}
                              [] OTHER -> p[k]], Absent)

(* A row of [package_compiler_overrides]: its toolchain first, then its     *)
(* compiler and its linker.                                                 *)
ApplyRow(p, row) ==
    LET q == IF row.toolchain = Absent THEN p ELSE SwapToolchain(p, row.toolchain)
    IN  [k \in DOMAIN p |->
            CASE k = "CC" /\ row.cc # Absent -> {row.cc}
              [] k = "LDFLAGS" /\ row.ld # Absent -> InjectLinker(ValueOr(q, k, {}), row.ld)
              [] OTHER -> q[k]]

(* A rule matches if each of its conditions does; those it lacks do.  A     *)
(* pattern is the set of the names it fits.  A split package matches by its *)
(* base as well as by each of its names.                                    *)
Matches(rule, meta) ==
    LET names == meta.pkgnames \cup ({meta.pkgbase} \ {Absent})
        Any(k, values)  == rule[k] \in {Absent, {}} \/ rule[k] \cap values # {}
        All(k, values)  == rule[k] = Absent \/ rule[k] \subseteq values
        None(k, values) == rule[k] = Absent \/ rule[k] \cap values = {}
    IN  /\ rule["pkgnames"] = Absent \/ UNION rule["pkgnames"] \cap names # {}
        /\ rule["not_pkgnames"] = Absent \/ UNION rule["not_pkgnames"] \cap names = {}
        /\ rule["groups"] = Absent \/ \A glob \in rule["groups"] : glob \cap meta.groups # {}
        /\ None("not_groups", meta.groups)
        /\ Any("depends_any", meta.depends)         /\ Any("makedepends_any", meta.makedepends)
        /\ All("depends_all", meta.depends)         /\ All("makedepends_all", meta.makedepends)
        /\ None("not_depends", meta.depends)        /\ None("not_makedepends", meta.makedepends)

MatchRules(meta, rules) == SelectSeq(rules, LAMBDA rule : Matches(rule, meta))

(* Of the rules that match and name a profile the first of the highest      *)
(* priority decides; no rule, and the default does.                         *)
Winner(matched) ==
    LET named == {i \in DOMAIN matched : matched[i].profile # Absent}
        top   == {i \in named : \A j \in named : matched[j].priority <= matched[i].priority}
    IN  IF named = {} THEN Absent ELSE matched[CHOOSE i \in top : \A j \in top : i <= j].profile

Chosen(matched, defaults) == IF Winner(matched) = Absent THEN defaults.profile ELSE Winner(matched)

\* What the PKGBUILD sets itself stands under the bare profile.
WithExtracted(profiles, extracted) ==
    IF extracted = Absent \/ profiles["bare"].extends # Absent THEN profiles
    ELSE [n \in DOMAIN profiles \cup {"pkgbuild_extracted"} |->
            IF n = "bare" THEN [profiles[n] EXCEPT !.extends = "pkgbuild_extracted"]
            ELSE IF n = "pkgbuild_extracted"
                 THEN [set |-> extracted, extends |-> Absent, append |-> [k \in Keys |-> Absent]]
                 ELSE profiles[n]]

ResolveProfile(profiles, matched, defaults, row, extracted) ==
    LET chain == MergeChain(WithExtracted(profiles, extracted), Chosen(matched, defaults))
        p     == ExpandToolchain(chain, defaults.toolchain)
    IN  IF chain = Absent THEN Absent ELSE IF row = Absent THEN p ELSE ApplyRow(p, row)

(* The build mode, found without resolving the profile: the first profile   *)
(* of the winner's chain that has one.  A token of the past ends the build. *)
ModeOfChain(profiles, start) ==
    LET Walk[seen \in SUBSET DOMAIN profiles] ==
            [p \in DOMAIN profiles \cup {Absent} |->
                IF p = Absent \/ p \in seen THEN Absent
                ELSE IF profiles[p].set["build_mode"] # Absent THEN profiles[p].set["build_mode"]
                ELSE Walk[seen \cup {p}][profiles[p].extends]]
    IN  Walk[{}][start]

Mode(profiles, matched, defaults) ==
    LET mode == ModeOfChain(profiles, Chosen(matched, defaults))
    IN  IF mode = {"patched_pkgbuild"} THEN {"error"} ELSE mode

(* A package's own groups, then the default's, then those of every rule.    *)
ResolveGroups(meta, matched, defaults) ==
    meta.groups \cup defaults.append_groups \cup UNION {matched[i].append_groups : i \in DOMAIN matched}

(* Which conf types a package consumes: what its profile says, or makepkg   *)
(* with what its make dependencies imply.                                   *)
Consumes(explicit, makedepends, inference) ==
    IF explicit # Absent THEN explicit
    ELSE {"makepkg"} \cup UNION {inference[d] : d \in makedepends \cap DOMAIN inference}

-----------------------------------------------------------------------------
(* The makepkg.conf written for one build (primitives/makepkg_conf.py):    *)
(* the resolved profile over the system's conf, then one correction after  *)
(* the other, each of which reads what the earlier ones left.  A build b   *)
(* is a record: the system's conf, the resolved profile and what the       *)
(* caller knows of the package.                                            *)

CleanOfKernel == FlagKeys
LtoTokens     == {"-flto", "-flto=thin"}
FullLto       == {"-flto"}
LldOnly       == {"--icf=all"}
PgoTokens     == {"-fprofile-use", "-fprofile-generate"}
Marches       == {"-march=native"}

(* The profile's keys that reach the conf: those the package consumes, and  *)
(* for a kernel no compiler flags.                                          *)
Filtered(b) ==
    [k \in Keys |->
        IF \/ k \in Internal \cup {"CC"} \/ (k = "LTOFLAGS" /\ ~b.everyKey)
           \/ (k = "RUSTFLAGS" /\ ~b.everyKey /\ "rust" \notin b.consumes)
           \/ (b.kernel /\ k \in CleanOfKernel)
        THEN Absent ELSE b.profile[k]]

Preserved(b, p) == IF b.preserve = {} THEN p ELSE ApplyPreserved(p, b.system, b.preserve)

(* What a key is worth to makepkg: the profile's value before the system's. *)
Eff(b, p, k) == ValueOr(p, k, ValueOr(b.system, k, Absent))

\* Strip tokens from the keys ks, from the system's value where the profile has none.
Strip(b, p, ks, tokens) ==
    [k \in Keys |-> IF k \in ks /\ Eff(b, p, k) # Absent
                        /\ Eff(b, p, k) \cap tokens # {}
                    THEN Eff(b, p, k) \ tokens ELSE p[k]]

(* The caller's compiler and linker; without one the LLVM variants link     *)
(* with lld, when nothing else is declared.                                 *)
Overridden(b, p) ==
    LET q  == IF b.cc = Absent THEN p ELSE [p EXCEPT !["CC"] = {b.cc}]
        ld == Eff(b, q, "LDFLAGS")
        ldTokens == IF ld = Absent THEN {} ELSE ld
    IN  CASE b.ld # Absent /\ ~b.kernel ->
               [q EXCEPT !["LDFLAGS"] = InjectLinker(ValueOr(q, "LDFLAGS", {}), b.ld)]
          [] /\ b.ld = Absent /\ ~b.kernel /\ b.llvmVariant
             /\ LinkersOf(ldTokens) = {} /\ "lld" \in Installed ->
               [q EXCEPT !["LDFLAGS"] = InjectLinker(ldTokens, "lld")]
          [] OTHER -> q

(* The linker that will run: the declared one if it is installed.           *)
Runs(linkers) ==
    IF linkers = {} \/ ~(linkers \subseteq Installed) THEN "ld" ELSE CHOOSE l \in linkers : TRUE
LinkerIn(v) == Runs(IF v = Absent THEN {} ELSE LinkersOf(v))
EffectiveLinker(b, p) == LinkerIn(Eff(b, p, "LDFLAGS"))

(* Flags only lld knows go with any other linker, and rustc links with the  *)
(* linker LDFLAGS has; of RUSTFLAGS only the linker it names is kept here.  *)
LinkerFit(b, p) ==
    LET q == IF Eff(b, p, "LDFLAGS") # Absent /\ EffectiveLinker(b, p) # "lld"
             THEN Strip(b, p, {"LDFLAGS"}, LldOnly) ELSE p
        rust == p["RUSTFLAGS"]
    IN  IF Eff(b, p, "LDFLAGS") = Absent \/ rust = Absent \/ rust = {} THEN q
        ELSE [q EXCEPT !["RUSTFLAGS"] = {EffectiveLinker(b, p)}]

UsesGcc(b) == \/ b.cc = "gcc"
              \/ b.cc = Absent /\ b.profile["CC"] = {"gcc"}
              \/ b.gccInPkgbuild \/ b.gccFallback

(* Thin LTO becomes full, and full LTO goes.                                *)
FullForThin(b, p) ==
    [k \in Keys |-> IF k \in FlagKeys \cup {"LTOFLAGS"} /\ Eff(b, p, k) # Absent /\ "-flto=thin" \in Eff(b, p, k)
                    THEN (Eff(b, p, k) \ {"-flto=thin"}) \cup {"-flto"} ELSE p[k]]
NoFullLto(b, p) == [Strip(b, p, FlagKeys, FullLto) EXCEPT !["LTOFLAGS"] = {}]

\* Mutant: full LTO is stripped before thin LTO becomes full.
GccFitReversed(b, p) ==
    IF ~UsesGcc(b) THEN p
    ELSE FullForThin(b, IF EffectiveLinker(b, p) # "lld" THEN p ELSE NoFullLto(b, p))

(* gcc takes no thin LTO, and none at all when lld links.                   *)
GccFit(b, p) ==
    LET r == NoFullLto(b, FullForThin(b, p))
        o == Eff(b, p, "OPTIONS")
    IN  IF ~UsesGcc(b) THEN p
        ELSE IF EffectiveLinker(b, p) # "lld" THEN FullForThin(b, p)
        ELSE IF o = Absent \/ "lto" \notin o THEN r
        ELSE [r EXCEPT !["OPTIONS"] = (o \ {"lto"}) \cup {"!lto"}]

(* Full LTO cannot be instrumented; a PKGBUILD may forbid LTO altogether.   *)
LtoFit(b, p) ==
    LET q == IF b.noFullLto THEN NoFullLto(b, p) ELSE p
        r == Strip(b, q, FlagKeys, LtoTokens)
    IN  IF ~b.noLto THEN q
        ELSE IF Eff(b, q, "LTOFLAGS") = Absent THEN r ELSE [r EXCEPT !["LTOFLAGS"] = {}]

(* The flags of an instrumented or profiled build reach compiler and linker *)
(* each once.                                                               *)
Extended(b, p) ==
    [k \in Keys |->
        LET v == IF Eff(b, p, k) = Absent THEN {} ELSE Eff(b, p, k)
        IN  IF k \notin FlagKeys \/ b.extra = {} \/ (k = "CXXFLAGS" /\ RefC \in v)
            THEN p[k] ELSE v \cup b.extra]

\* Mutant: only the architecture is corrected.
Lib32FitArch(b, p) ==
    IF ~b.lib32 THEN p ELSE
    [k \in Keys |-> IF p[k] = Absent THEN Absent
                    ELSE CASE k \in {"CFLAGS", "CXXFLAGS"} -> p[k] \ Marches
                           [] k = "LDFLAGS"                -> p[k] \ LldOnly
                           [] OTHER                        -> p[k]]

(* A 32-bit or static musl package: what the host's toolchain cannot link   *)
(* or has no profile runtime for goes last, after the extra flags.          *)
Lib32Fit(b, p) ==
    IF ~b.lib32 THEN p ELSE
    [k \in Keys |-> IF p[k] = Absent THEN Absent
                    ELSE CASE k \in {"CFLAGS", "CXXFLAGS"} -> p[k] \ (Marches \cup PgoTokens)
                           [] k = "LDFLAGS"                -> p[k] \ (LldOnly \cup PgoTokens)
                           [] OTHER                        -> p[k]]

MuslFit(b, p) ==
    LET v == Eff(b, p, "LDFLAGS")
        q == IF v = Absent \/ ("lld" \notin LinkersOf(v) /\ v \cap LldOnly = {}) THEN p
             ELSE [p EXCEPT !["LDFLAGS"] =
                     (IF "lld" \in LinkersOf(v) THEN InjectLinker(v, "bfd") ELSE v) \ LldOnly]
    IN  IF b.musl THEN Strip(b, q, FlagKeys, PgoTokens) ELSE p

(* The file: the system's keys with the profile's values, corrected for a   *)
(* 32-bit package where the profile has none, then the profile's own keys.  *)
Written(b, p) ==
    [k \in Keys |->
        IF p[k] # Absent \/ b.system[k] = Absent THEN p[k]
        ELSE IF b.lib32 /\ k \in {"CFLAGS", "CXXFLAGS"} THEN b.system[k] \ Marches
        ELSE IF b.lib32 /\ k = "LDFLAGS" THEN b.system[k] \ LldOnly
        ELSE b.system[k]]

Emitted(b) ==
    LET linked == LinkerFit(b, Overridden(b, Preserved(b, Filtered(b))))
        fitted == LtoFit(b, GccFit(b, linked))
    IN  Written(b, MuslFit(b, Lib32Fit(b, Extended(b, fitted))))

\* Mutant: the linker's flags are not part of the baseline.
SerializedCompiler(b) ==
    [k \in Keys |-> IF k \in Internal \cup {"LDFLAGS"} THEN Absent ELSE Preserved(b, b.profile)[k]]

(* The baseline later runs compare to find that a profile's flags drifted.  *)
Serialized(b) ==
    LET p == IF b.kernel THEN b.profile ELSE Preserved(b, b.profile)
    IN  [k \in Keys |-> IF k \in Internal \/ (b.kernel /\ k \in CleanOfKernel) THEN Absent ELSE p[k]]

-----------------------------------------------------------------------------
(* What the compiler and the linker are given, the reference to CFLAGS      *)
(* expanded, and the linker that runs.                                      *)
Given(conf) ==
    UNION {conf[k] : k \in {x \in FlagKeys \cup {"LTOFLAGS"} : conf[x] # Absent}}

LinkerOf(conf) == LinkerIn(conf["LDFLAGS"])

(* The flags of a key stand where their tool reads them, and are no profile *)
(* data of the PGO stages, which a caller adds.                             *)
Placed(p) ==
    \A k \in FlagKeys \cup {"LTOFLAGS"} : p[k] # Absent =>
        /\ p[k] \cap PgoTokens = {}
        /\ k # "LDFLAGS" => p[k] \cap LldOnly = {}
        /\ k \notin {"CFLAGS", "CXXFLAGS"} => p[k] \cap Marches = {}

(* Values are flags, and of those for the linker no two exclude one another.*)
OfFlags(p, tokens) ==
    /\ p = [k \in Keys |-> p[k]] /\ \A k \in Keys : p[k] = Absent \/ p[k] \subseteq tokens
    /\ p["LDFLAGS"] # Absent =>
         /\ p["LDFLAGS"] \cap {"ld", "lto", "march", "pgo"} = {}
         /\ \A t, u \in p["LDFLAGS"] : ~Clash(t, u)

(* A build as users configure it: makepkg.conf names linker flags and leaves *)
(* rustc's linker to the profile.                                           *)
WellConfigured(b, tokens) ==
    /\ \A p \in {b.system, b.profile} : OfFlags(p, tokens) /\ Placed(p)
    /\ b.system["LDFLAGS"] # Absent /\ b.system["RUSTFLAGS"] \in {Absent, {}}
    /\ b.cc = Absent \/ b.cc \in tokens
    /\ b.ld \in {Absent, "lld", "bfd"}
    /\ b.extra \subseteq PgoTokens /\ \A t, u \in b.extra : ~Clash(t, u)

BuildFields == {"system", "profile", "consumes", "everyKey", "preserve", "kernel", "cc", "ld", "llvmVariant",
                "gccInPkgbuild", "gccFallback", "noFullLto", "noLto", "extra", "lib32", "musl"}

(* One build before and after an edit of its profile.                       *)
Edited(x, tokens) ==
    /\ x.one = [f \in BuildFields |-> x.one[f]] /\ x.two = [x.one EXCEPT !.profile = x.two.profile]
    /\ OfFlags(x.one.profile, tokens) /\ OfFlags(x.two.profile, tokens)

(* The conf is one toolchain's: no flag of lld's for another linker, no     *)
(* thin LTO for gcc and none where lld links its objects, and rustc links   *)
(* with the linker of everything else; and what a package cannot take       *)
(* reaches it from no source: no LTO where its PKGBUILD forbids it, no      *)
(* profile data for 32-bit or static musl code (primitives/                 *)
(* makepkg_conf.py).  Static musl code is linked again, after RUSTFLAGS was *)
(* settled.                                                                 *)
OneToolchain(b, conf) ==
    /\ LinkerOf(conf) # "lld" => Given(conf) \cap LldOnly = {}
    /\ UsesGcc(b) => "-flto=thin" \notin Given(conf)
    /\ UsesGcc(b) /\ LinkerOf(conf) = "lld" => Given(conf) \cap LtoTokens = {}
    /\ conf["RUSTFLAGS"] \notin {Absent, {}} /\ ~b.musl => conf["RUSTFLAGS"] = {LinkerOf(conf)}
    /\ b.noLto => Given(conf) \cap LtoTokens = {}
    /\ b.lib32 \/ b.musl => Given(conf) \cap PgoTokens = {}
    /\ b.lib32 => Given(conf) \cap Marches = {}
    /\ \A t, u \in conf["LDFLAGS"] : ~Clash(t, u)

(* One build under two profiles.  When their recorded flags are the same,   *)
(* they write the same conf: an edit that changes what is built is seen as  *)
(* drift (primitives/makepkg_conf.py, serialize_effective_flags).           *)
DriftIsSeen(one, two) == Serialized(one) = Serialized(two) => Emitted(one) = Emitted(two)

-----------------------------------------------------------------------------
(* What is asked of them.                                                   *)

ComputeFlags == Answer("flags", Emitted(input))
ComputeDrift == Answer("drift", [one |-> Emitted(input.one), two |-> Emitted(input.two)])
ComputeProfile ==
    Answer("profile", ResolveProfile(input.profiles, input.matched, input.defaults, input.row, input.extracted))

(* An edit of a profile that changes the conf changes the record.           *)
DriftSees == Answered("drift") => DriftIsSeen(input.one, input.two)

\* A chain without an end.
Loops(profiles, start) ==
    \E S \in SUBSET DOMAIN profiles : start \in S /\ \A p \in S : profiles[p].extends \in S

(* The values of a profile: in none do tokens exclude one another.          *)
Values(set, tokens) ==
    OfFlags(set, tokens) /\ \A k \in FlagKeys : set[k] # Absent => \A t, u \in set[k] : ~Clash(t, u)

(* profiles.toml as it is loaded, the rules that match and a row of         *)
(* [package_compiler_overrides]: flags are appended to, no build mode is.   *)
WellWritten(w, tokens) ==
    /\ IsFiniteSet(DOMAIN w.profiles) /\ "bare" \in DOMAIN w.profiles
    /\ DOMAIN w.profiles \cap {Absent, "pkgbuild_extracted"} = {}
    /\ \A n \in DOMAIN w.profiles :
          LET p == w.profiles[n]
          IN  /\ p = [set |-> p.set, append |-> p.append, extends |-> p.extends]
              /\ p.extends \in DOMAIN w.profiles \cup {Absent}
              /\ Values(p.set, tokens) /\ Values(p.append, tokens) /\ p.append["build_mode"] = Absent
    /\ Chosen(w.matched, w.defaults) \in DOMAIN w.profiles
    /\ w.extracted # Absent => Values(w.extracted, tokens) /\ w.extracted["build_mode"] = Absent
    /\ w.row # Absent => /\ w.row.toolchain \in {Absent, "llvm", "gcc"}
                         /\ w.row.cc = Absent \/ w.row.cc \in tokens
                         /\ w.row.ld \in {Absent, "lld", "bfd"}

(* A package's own row has the last word, as a unit: its toolchain brings   *)
(* its compiler and never keeps the other one's linker; and no two tokens   *)
(* of a value exclude one another (primitives/profile.py).  A loop of       *)
(* profiles resolves to nothing.  The mode that names and records a package *)
(* is the mode of the profile its flags come from, though another walk of   *)
(* the chain, get_build_mode, which may stop early, finds it.               *)
OneProfile(w, p) ==
    LET mode == Mode(w.profiles, w.matched, w.defaults)
    IN  /\ Loops(w.profiles, Chosen(w.matched, w.defaults)) <=> p = Absent
        /\ p # Absent =>
             /\ mode # {"error"} => p["build_mode"] = mode
             /\ \A k \in FlagKeys : p[k] # Absent => \A t, u \in p[k] : ~Clash(t, u)
             /\ w.row # Absent =>
                  /\ w.row.cc # Absent => p["CC"] = {w.row.cc}
                  /\ w.row.cc = Absent /\ w.row.toolchain # Absent => p["CC"] = Bundle(w.row.toolchain).CC
                  /\ w.row.ld # Absent => LinkersOf(p["LDFLAGS"]) = {w.row.ld}
                  /\ w.row.ld = Absent /\ w.row.toolchain = "gcc" /\ p["LDFLAGS"] # Absent
                       => LinkersOf(p["LDFLAGS"]) = {}

ProfileIsOne == Answered("profile") => OneProfile(input, output)

(* The flags of a build, from the profile to the conf, are for one compiler *)
(* and one linker.                                                          *)
FlagsSound == (Answered("flags") => OneToolchain(input, output)) /\ ProfileIsOne
=============================================================================

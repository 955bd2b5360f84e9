---------------------------- MODULE KernelConfig ----------------------------
(***************************************************************************)
(* The kernel's .config, from kernel.toml to the gate that audits it: the  *)
(* files the stage leaves beside the PKGBUILD (pipeline/stages/kernel/     *)
(* kconfig.py), the steps it renders into prepare() (primitives/           *)
(* kconfig_plan.py), what prepare() makes of both, and the gates.          *)
(*                                                                         *)
(* A configuration maps options to "n", "m" or "y".  A fragment maps some  *)
(* options.  A PKGBUILD's prepare() is a sequence of lines, each its kind: *)
(*   "write"    creates .config              "merge"   merges one of its   *)
(*   "resolve"  make olddefconfig                      own, merge_config.sh*)
(*   "old"      make oldconfig               "append"  cat sysforge.config *)
(*   "trim"     make localmodconfig          "menu"    make nconfig        *)
(* and sysforge adds "seed", "fragment", "hotplug", "verify", "ask" (the   *)
(* menu after a pause) and "staged" (localmodconfig of the snapshot).      *)
(* kernel.toml and the options of a run are k; the machine is m.           *)
(***************************************************************************)
EXTENDS Integers, Sequences, Question

CONSTANTS NoFile

Over(fragment, config) ==
    [o \in DOMAIN fragment \cup DOMAIN config |-> IF o \in DOMAIN fragment THEN fragment[o] ELSE config[o]]

-----------------------------------------------------------------------------
(* The files.  They are a record of base, overlay, fragment, hotplug and    *)
(* staged, each NoFile when there is none.                                  *)

NoFiles == [base |-> NoFile, overlay |-> NoFile, fragment |-> NoFile, hotplug |-> NoFile, staged |-> NoFile]

(* The snapshot of loaded modules only grows.                               *)
Snapshot(k, m, seen) == IF k.capture /\ m.lsmod # NoFile THEN seen \cup m.lsmod ELSE seen

BaseText(k, m) == CASE k.base = "pkgbuild" -> NoFile [] k.base = "running" -> m.running [] k.base = "path" -> m.saved

\* Mutant: a base that is not asked for stays.
WriteBaseOnly(k, m, files) ==
    IF BaseText(k, m) = NoFile THEN files
    ELSE [files EXCEPT !.base = IF k.overlay THEN NoFile ELSE BaseText(k, m),
                       !.overlay = IF k.overlay THEN BaseText(k, m) ELSE NoFile]

WriteBase(k, m, files) ==
    [files EXCEPT !.base = IF k.overlay THEN NoFile ELSE BaseText(k, m),
                  !.overlay = IF k.overlay THEN BaseText(k, m) ELSE NoFile]

(* The fragment: who comes later wins.                                      *)
Device(k, m) == IF k.device THEN m.device ELSE <<>>
Hardening(k, m) == IF k.hardening THEN m.hardened ELSE <<>>
Requested(k, m) ==
    Over(k.manual, Over(k.fdo, Over(m.hardware, Over(Device(k, m), Hardening(k, m)))))

WriteFragment(k, m, files) ==
    [files EXCEPT !.fragment = IF k.merge /\ DOMAIN Requested(k, m) # {} THEN Requested(k, m) ELSE NoFile]

WriteHotplug(k, m, files) == [files EXCEPT !.hotplug = IF k.hotplug THEN m.hotplug ELSE NoFile]

StageSnapshot(k, files, seen) ==
    [files EXCEPT !.staged = IF k.capture /\ seen # {} THEN seen ELSE NoFile]

(* The configuration cannot be had without the fragment.                    *)
NeedsFragment(k) == ~k.merge /\ (k.hardening \/ k.fdo # <<>>)

Writing == {"write", "merge", "append"}
Kconfig == {"resolve", "old", "trim", "menu"}
Prompting == {"old", "trim"}

\* The lines of some kinds, in their order.
Only(lines, kinds) ==
    LET Kept[i \in 0..Len(lines)] ==
            IF i = 0 THEN <<>>
            ELSE IF lines[i] \in kinds THEN Append(Kept[i - 1], lines[i]) ELSE Kept[i - 1]
    IN  Kept[Len(lines)]

MenuIn(targets) == Only(targets, {"menu"})
BadTargets(k) ==
    \/ ~k.review /\ \E i \in DOMAIN k.targets : k.targets[i] \in Prompting
    \/ Len(MenuIn(k.targets)) > 1

(* A fragment the toolchain, or the modules of this machine, cannot take.   *)
Gated(m, fragment) ==
    fragment # NoFile /\ \/ "rust" \in DOMAIN fragment /\ fragment["rust"] = "y" /\ ~m.rust
                         \/ "sig" \in DOMAIN fragment /\ fragment["sig"] = "y" /\ m.dkms

(* A run up to its build: the files it leaves, and whether it goes on.      *)
Staged(k, m, before, seen) ==
    IF BadTargets(k) THEN [files |-> before, goes |-> FALSE]
    ELSE LET based == WriteBase(k, m, before)
         IN  IF NeedsFragment(k) THEN [files |-> based, goes |-> FALSE]
             ELSE LET files == StageSnapshot(k, WriteHotplug(k, m, WriteFragment(k, m, based)), seen)
                  IN  [files |-> files, goes |-> ~Gated(m, files.fragment)]

-----------------------------------------------------------------------------
(* The plan.                                                                *)

Has(lines, kinds) == \E i \in DOMAIN lines : lines[i] \in kinds

FirstOf(lines, kinds) == CHOOSE i \in DOMAIN lines : lines[i] \in kinds /\ \A j \in 1..(i - 1) : lines[j] \notin kinds
LastOf(lines, kinds) ==
    CHOOSE i \in DOMAIN lines : lines[i] \in kinds /\ \A j \in (i + 1)..Len(lines) : lines[j] \notin kinds

(* A step is dropped where the PKGBUILD does the same.                      *)
Pre(lines) ==
    IF Has(lines, {"merge"}) THEN <<>>
    ELSE IF Has(lines, {"append"}) THEN <<"seed">> ELSE <<"seed", "fragment">>

Generate(k) ==
    LET own == Only(k.targets, Kconfig \ {"menu"})
    IN  [i \in DOMAIN own |-> IF own[i] = "trim" THEN "staged" ELSE own[i]]

(* One review: the configured one, which nobody at the terminal makes a     *)
(* resolve, else the PKGBUILD's, else sysforge's.                           *)
Review(k, lines) ==
    IF MenuIn(k.targets) # <<>> THEN <<IF k.review THEN "ask" ELSE "resolve">>
    ELSE IF k.targets = <<>> /\ k.review /\ ~Has(lines, {"menu"}) THEN <<"ask">> ELSE <<>>

\* Mutant: what is merged again is merged before the modules are trimmed.
PostTrimmedLast(k, lines) == <<"hotplug">> \o Generate(k) \o Review(k, lines) \o <<"verify">>

\* Mutant: the check comes before the review.
PostVerifiedEarly(k, lines) == Generate(k) \o <<"hotplug", "verify">> \o Review(k, lines)

Post(k, lines) == Generate(k) \o <<"hotplug">> \o Review(k, lines) \o <<"verify">>

(* Targets of one's own replace every line of the PKGBUILD's that makes a   *)
(* configuration; else menus nobody would answer do not ask.                *)
Quiet(lines) == [i \in DOMAIN lines |-> IF lines[i] \in {"menu", "old"} THEN "resolve" ELSE lines[i]]

PreAnchor(lines) ==
    IF Has(lines, {"resolve", "old", "trim"}) THEN FirstOf(lines, {"resolve", "old", "trim"})
    ELSE IF Has(lines, {"write"}) THEN FirstOf(lines, {"write"}) ELSE 0

PostAnchor(lines) ==
    IF Has(lines, {"menu"}) THEN LastOf(lines, {"menu"}) - 1
    ELSE IF Has(lines, Kconfig) THEN LastOf(lines, Kconfig) ELSE PreAnchor(lines)

InsertedAt(lines, at, more) == SubSeq(lines, 1, at) \o more \o SubSeq(lines, at + 1, Len(lines))

Unplanned(k, lines) == k.targets # <<>> /\ ~Has(lines, Kconfig)

Install(k, lines) ==
    IF k.targets # <<>>
    THEN LET at == FirstOf(lines, Kconfig) - 1
             kept == Only(lines, Writing)
         IN  InsertedAt(kept, at, Pre(lines) \o Post(k, lines))
    ELSE LET own == IF k.review THEN lines ELSE Quiet(lines)
             pre == PreAnchor(own)
             post == PostAnchor(own)
         IN  IF pre = 0 THEN lines
             ELSE IF pre > post
                  THEN InsertedAt(InsertedAt(own, pre, Pre(lines)), post, Post(k, lines))
                  ELSE InsertedAt(InsertedAt(own, post, Post(k, lines)), pre, Pre(lines))

Anchored(k, lines) == k.targets # <<>> \/ PreAnchor(IF k.review THEN lines ELSE Quiet(lines)) # 0

-----------------------------------------------------------------------------
(* prepare().                                                               *)

(* What kconfig makes of any configuration: a bool is not a module, an      *)
(* option of another release is none, and Rust needs its tools.             *)
Settle(m, config) ==
    [o \in DOMAIN config |->
        IF o \in m.gone \/ (o \in m.bools /\ config[o] = "m") \/ (o = "rust" /\ ~m.rust) THEN "n" ELSE config[o]]

Fit(m, config, loaded) ==
    Settle(m, [o \in DOMAIN config |-> IF config[o] = "m" /\ o \notin loaded THEN "n" ELSE config[o]])

Merge(m, file, config) == IF file = NoFile THEN config ELSE Settle(m, Over(file, config))

Loaded(m) == IF m.lsmod = NoFile THEN {} ELSE m.lsmod

Missed(file, config) == IF file = NoFile THEN {} ELSE {o \in DOMAIN file : config[o] # file[o]}

Reviewed(m, config) == Settle(m, [o \in DOMAIN config |-> IF o \in m.edited THEN "n" ELSE config[o]])

(* One line.  t is the .config, what was warned of and whether a prompt     *)
(* came up.                                                                 *)
Did(m, files, t, line) ==
    CASE line = "write"   -> [t EXCEPT !.config = m.shipped]
      [] line = "resolve" -> [t EXCEPT !.config = Settle(m, t.config)]
      [] line = "old"     -> [t EXCEPT !.config = Settle(m, t.config), !.asked = TRUE]
      [] line = "trim"    -> [t EXCEPT !.config = Fit(m, t.config, Loaded(m)), !.asked = TRUE]
      [] line = "staged"  -> [t EXCEPT !.config = Fit(m, t.config, IF files.staged = NoFile THEN Loaded(m) ELSE files.staged)]
      [] line \in {"menu", "ask"} -> [t EXCEPT !.config = Reviewed(m, t.config), !.asked = TRUE]
      [] line = "merge"   -> [t EXCEPT !.config = Over(m.packagers, t.config)]
      [] line = "append"  -> [t EXCEPT !.config = IF files.fragment = NoFile THEN t.config ELSE Over(files.fragment, t.config)]
      [] line = "seed"    -> [t EXCEPT !.config = IF files.base # NoFile THEN Settle(m, files.base)
                                                  ELSE Merge(m, files.overlay, t.config)]
      [] line = "fragment" -> [t EXCEPT !.config = Merge(m, files.fragment, t.config)]
      [] line = "hotplug" -> [t EXCEPT !.config = Merge(m, files.hotplug, t.config)]
      [] line = "verify"  -> [t EXCEPT !.said = t.said \cup Missed(files.fragment, t.config) \cup Missed(files.hotplug, t.config)]

(* The build starts from what prepare() left, which kconfig settles again.  *)
Prepared(m, files, lines) ==
    LET Done[i \in 0..Len(lines)] ==
            IF i = 0 THEN [config |-> m.shipped, said |-> {}, asked |-> FALSE]
            ELSE Did(m, files, Done[i - 1], lines[i])
        t == Done[Len(lines)]
    IN  [t EXCEPT !.config = Settle(m, t.config)]

(* What the build made is compared with the fragment, and must boot.        *)
Drift(files, config) == Missed(files.fragment, config)
Brick(m, config) == {o \in m.boots : config[o] = "n"} # {}

Built(k, m, lines, before, seen) ==
    LET staged == Staged(k, m, before, seen)
    IN  IF ~staged.goes \/ Unplanned(k, lines)
        THEN [files |-> staged.files, built |-> FALSE]
        ELSE LET t == Prepared(m, staged.files, Install(k, lines))
             IN  [files |-> staged.files, built |-> TRUE, config |-> t.config,
                  said |-> t.said \cup Drift(staged.files, t.config) \cup
                           (IF Anchored(k, lines) THEN {} ELSE DOMAIN t.config),
                  asked |-> t.asked, installed |-> k.allow \/ ~Brick(m, t.config)]
-----------------------------------------------------------------------------
(* A run after an earlier one under other settings, or NoFile.             *)
LeftBehind(r) ==
    IF r.earlier = NoFile THEN NoFiles
    ELSE Staged(r.earlier, [r.m EXCEPT !.lsmod = r.before.lsmod, !.running = r.before.running], NoFiles, r.seen).files

KernelBuilds(r) ==
    LET seen == Snapshot(r.k, r.m, r.seen)
    IN  [left  |-> Built(r.k, r.m, r.lines, LeftBehind(r), seen),
         clean |-> Built(r.k, r.m, r.lines, NoFiles, seen)]

ComputeKconfig == Answer("kconfig", KernelBuilds(input))

(* A PKGBUILD as packagers write it: its prepare() writes a configuration   *)
(* before anything makes it another, and if nothing does, writes it last.   *)
WritesFirst(lines) ==
    /\ \A i, j \in DOMAIN lines : i < j /\ lines[j] \in Writing => lines[i] \in Writing
    /\ ~Has(lines, Kconfig) => PreAnchor(lines) \in {0, Len(lines)}

(* The kernel knows the options of devices that may be plugged in.          *)
RunTyped(r) ==
    /\ r.lines \in Seq(Writing \cup Kconfig) /\ WritesFirst(r.lines)
    /\ r.k.targets \in Seq(Kconfig)
    /\ DOMAIN r.m.hotplug \subseteq DOMAIN r.m.shipped \ {"rust"}

(* The settings of a run, and the modules seen so far, decide its kernel's  *)
(* configuration: nothing that an earlier run under other settings left     *)
(* beside the PKGBUILD enters it (pipeline/stages/kernel/kconfig.py, the    *)
(* removals).                                                               *)
SettingsDecide == Answered("kconfig") /\ output.clean.built => output.left = output.clean

\* A menu of the PKGBUILD's that is shown, and not in sysforge's place.
PackagersMenu(r) == r.k.targets = <<>> /\ r.k.review /\ Has(r.lines, {"menu"})

(* An option that was asked for is in the kernel's configuration, or the    *)
(* run says that it is not: whatever prepare() does with the merged         *)
(* fragments, and the trimming, the resolving and the review after them     *)
(* (primitives/kconfig_plan.py, the slots).  The fragment is compared with  *)
(* what was built; the options for devices that are not plugged in are      *)
(* checked within prepare() only, which a menu of the PKGBUILD's may follow *)
(* and its own lines may undo.  And where nothing but the review comes      *)
(* after them, only the review, or a kernel that does not have the option,  *)
(* takes one away.                                                          *)
RequestedOrSaid ==
    Answered("kconfig") /\ output.left.built =>
        LET it == output.left
            lost == Missed(it.files.hotplug, it.config)
            m == input.m
            last == input.k.targets # <<>> \/ (Anchored(input.k, input.lines) /\ ~Has(input.lines, {"menu"}))
        IN  /\ Missed(it.files.fragment, it.config) \subseteq it.said
            /\ PackagersMenu(input) \/ lost \subseteq it.said
            /\ last => lost \subseteq m.edited \cup m.gone \cup m.bools

(* What the settings ask of a kernel configuration is in it or said, and    *)
(* nothing else decides it.                                                 *)
KconfigSound == SettingsDecide /\ RequestedOrSaid
=============================================================================

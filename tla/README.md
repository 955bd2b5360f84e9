# sysforge in TLA+

sysforge installs and maintains an Arch Linux system: it builds packages with
custom compilers and flags, installs them with pacman, and bootstraps a whole
machine as a pipeline of stages.  Nearly all of it is sequential Python; what is
hard is what outlives a process.  A run can be killed at any instant, a machine
is rebooted in the middle of the pipeline, an operator opens a second terminal,
and what the next run believes is what the earlier ones left in a handful of
files: records, checkpoints, checkouts, profiles, artifacts, boot entries.  Most
of these modules are about those files and the order in which the code reads and
writes them.  The rest are the algorithms where many rules meet: flags, ordering,
kernel configuration, the patching of a PKGBUILD.

Paths below are relative to `src/sysforge/`.

## The system's parts

| Component | State it keeps | Operations | Hard behaviours | What makes it correct |
|---|---|---|---|---|
| **Stage sentinel, liveness lock** (`primitives/stage_sentinel.py`, `build_lock.py`, `interrupt.py`, `privilege.py`, gate in `cli.py`) | the record `stage_in_progress.toml`; the flock on `stage_in_progress.lock`; per scope `armed`, a deferred Ctrl-C | gate check (probe, read, prompt, recover, clear), `sentinel_scope` | kill at any instant, several processes, prompts that take minutes, I/O errors | a half-changed system has its record; nothing changes it before its repair; one body at a time |
| **Pipeline runner and checkpoint** (`pipeline/runner.py`, `primitives/pipeline_state.py`) | `pipeline_state.toml`: status, times, error, result per stage; a whole copy in each process | `run_pipeline` with `--resume`, `--start-from`, `--dry-run`; `run_stage_standalone` | crash between two saves, reboot as another user, stale copies, many invocations | no false claim; resuming ends |
| **Packages stage** (`pipeline/stages/packages.py`) | the lists built/failed/skipped/remaining and the errors table of its entry | list initialisation, retry/skip prompt, dependency build, loop | failure of one of many, crash in mid-package, edited manifest, two terminals | each package one outcome, none forgotten, done means all settled |
| **Build state, install bookkeeping** (`primitives/build_state.py`, `install_reconcile.py`, `build_core.py`, `pacman.py`, `state_cmd.py`) | `build_state.toml` (entries, failures, reverted, reviewed); the hook's and sysforge's own install records | record, revert, restore, demote, sync, save, repair | last writer wins, refused installs, window cleared before the save | an entry says what is installed; no source build is demoted or kept wrongly |
| **Update verb** (`update*.py`, `flag_drift.py`, `build_fingerprint.py`, `stage_ownership.py`, `toolchain_preflight.py`) | none of its own, over build state | phases from init to install | partial failure, a compiler that changes under the run, groups of which members disagree | what is outdated is built or reported, and then it is done |
| **Tracking decisions** (`opt_out.py`, `verbs/shared.py`, `revert_cmd.py`, `packages_cmd.py`) | opt-outs, overrides, records | revert, forget, uninstall, add, remove | a stock name, a renamed one and a pkgbase, each looked up its own way | what was decided holds for later verbs |
| **Toolchain stage** (`pipeline/stages/toolchain/`, `toolchain_safety.py`, `llvm_state.py`) | artifacts of passes, profile data, result on the checkpoint | passes, gates, install, BOLT, rollback | crash between passes, reuse of stale profiles, skewed install | the installed suite is consistent or the record is there |
| **Library symbol checks** (`abi_check.py`, `toolchain_safety.py`) | none, over the installed libraries | gates before and after installs | consumers and libraries replaced in any order | nothing stops loading unsaid, nothing is refused that would load |
| **Kernel stage** (`pipeline/stages/kernel/`, `kernel_safety.py`, `boot_entries.py`, `kernel_fdo.py`, `kconfig*.py`) | installed kernels, boot entries, sampled profiles, files beside the PKGBUILD | gates, install, entry sync, two profile rounds, configuration | failure between package and entries, one run's settings left for the next | a bootable entry; profiles and settings of this run |
| **makepkg invocation** (`build/makepkg_wrapper.py`, `makepkg_invoke.py`, `makepkg_artifacts.py`, `build_throttle.py`) | sidecars, the session's provenance, PKGDEST | patch, build, repair, retry, record, install | retries over a patched recipe, one archive for all packages | the record and the install are of this build |
| **Build sandbox** (`build_sandbox.py`, `local_repo.py`) | session artifacts, policy, the local repo | provision, publish, seed | interrupted sync, host newer than the repos | the container has the host's packages |
| **Source sync, review, lookup** (`source_sync.py`, `git_ops.py`, `pkgbuild_review.py`, `config.py`, `fetch.py`) | checkouts, the scheduler's cache, accepted baselines | clone, fetch, pin, reset, purge, review | cached answers, frozen network, killed clones, the user's edits | what is built is fresh, reviewed, and nobody's work is lost |
| **Dependency resolution** (`aur_resolve.py`, `aur_deps.py`, `dep_analysis.py`) | none | closure, order of directories and targets | cycles, refusals in the middle | dependencies come first |
| **Configuration, profiles** (`profile.py`, `makepkg_conf.py`, `config.py`) | files of the operator | rules, chains, overrides, corrections of flags | corrections that read each other's results | one toolchain's flags |
| **PKGBUILD patching** (`pkgbuild_patcher.py`, `mesa_drivers.py`, `llvm_targets.py`) | the patched copy | up to ten patches in a row | one patch hides what the next looks for | patched as meant, or refused |
| **Package PGO** (`mesa_pgo.py`, `makepkg_pgo.py`) | samples, the merged profile and its sidecar | record, use, reuse | merges that are killed | no sample lost, the record tells the profile |
| **Managed files** (`artifacts.py`, `verbs/artifact.py`) | the registry, managed copies, live files | adopt, edit, deploy, remove | both sides edited, verbs killed between writes | no edit is lost |
| **Reconfigure stage** (`pipeline/stages/reconfigure.py`, `editor.py`, `env_persist.py`) | the editor in three files, the configuration | the steps and gates before the build stages | later lines and rungs that win | the editor picked is the one used |
| **Terminal output** (`pty_runner.py`, `ui/progress.py`) | the screen, the bar, clocks | pump, filters, paint, yield, resize | bytes cut anywhere, prompts nested in steps | nothing of the child's output is lost |
| **Diagnosis** (`doctor.py`, `diagnostics.py`), **probes, logs** | none | read, report | none | not modelled: no state of their own |

How they meet: `cli.py` runs the gate for build, update, run and setup, then the
verb. `verbs/runner.py` wraps a verb in a sentinel scope; a stage opens its
own around its install. The runner calls the stages and saves the checkpoint
around each of them; the toolchain and packages stages save into the same file
in mid-run through the same `PipelineState` object. Builds go through
`build_core` to the makepkg wrapper, which records into build state before
pacman installs; the pacman hooks write the files that `install_reconcile`
consumes later.

## Modules

State machines:

| Module | What it is |
|---|---|
| `GuardedChange` | abstract: a system that is sound, changing or torn, and a torn one is repaired before it changes again |
| `StageSentinel` | the record, the lock, the gate and the scope, for any set of processes |
| `PipelineRunner` | the runner over its checkpoint file |
| `PackageLedger` | abstract: what `pipeline_state.toml` promises about packages |
| `PackagesStage` | the packages stage over its entry of the file, and its part of the lock |
| `BuildInstall` | the operations of the class BuildState; the verbs build, update, uninstall and revert-to-stock over `build_state.toml`, the hook's window, and pacman |
| `Toolchain` | the passes, the profile, the no-build modes, install, verification, rollback, recovery |
| `KernelBoot` | the kernel's install scope, its boot entries, both prunes, the recovery |
| `KernelFdo` | the two rounds of sampled profiles, and which build the gates look at |
| `UpdateRun` | the phases of update, run after run, while upstream, flags and compiler change |
| `Tracking` | what of one PKGBUILD is maintained, under every verb that decides it |
| `PackagePgo` | the instrumented profile of one package: record, use, reuse |
| `PackageBuild` | one package directory: patching, makepkg or container, retries, record |
| `LocalRepo` | the containers' package repo under interrupted syncs |
| `BuiltArtifacts` | which files of PKGDEST a build is taken to have made |
| `SourceSync` | one checkout under update, build, the kernel stage and the LLVM pre-flight, with review |
| `RecipeLookup` | the lookup and clone of a PKGBUILD, and the fetch verb |
| `Artifacts` | a managed file: live file, managed copy, registry entry |
| `Reconfigure` | the steps and gates of the checkpoint stage, and the editor it picks |
| `LibraryAbi` | libLLVM and what links it, under every gate |
| `Screen`, `Progress` | a child's output on its way to the terminal; the bar painted in between |

Algorithms, as operators on an input. Each module extends `Question`, of which a behaviour has two states, an input and what the
code computes of it, and says what is asked of its result:

| Module | What it is |
|---|---|
| `Question` | one input of one subject, and its result |
| `Profiles` | the profile of a build, and the makepkg.conf written from it |
| `DepOrder` | what is built before what, and what a refused review takes with it |
| `SandboxSeeds` | what is installed in a container before makepkg starts |
| `KernelConfig` | from kernel.toml to the .config and its gate |
| `Patcher` | the patched copy of a PKGBUILD, seen from each of its sides |
| `StateRepair` | `state repair` over the records of one PKGBUILD |
| `UpdateSet` | the packages an update takes on and who owns them; the trees the toolchain stage takes its packages from; the compilers a batch needs, and the fixes that are offered |

Theorems: `StageSentinelProofs` (with `KernelConfig`), `PipelineRunnerProofs` (with `Profiles`, `SandboxSeeds`), `PackagesStageProofs` (with `Reconfigure`),
`BuildInstallProofs` (with `StateRepair`), `KernelBootProofs` (with `KernelFdo`), `ToolchainProofs` (with `UpdateSet`), `PackageBuildProofs`
(with `LocalRepo`, `RecipeLookup`, `Artifacts`, `SourceSync`, `LibraryAbi`, `BuiltArtifacts`), `UpdateRunProofs`
(with `Tracking`, `PackagePgo`, `Progress`). The modules `MC...` are small instances for TLC.

Several components share a run: a behaviour of `MCUpdateRun`, `MCPackageBuild`,
`MCKernelBoot` or `MCAlgorithms` picks a subject at the start and is a behaviour of that
component alone, its other variables at rest. This keeps one question per
component without a run for each; it composes nothing. In `MCAlgorithms` a
behaviour is one input and its result.

Some invariants are conjunctions, whose parts are named definitions with their own
comments: `BuildSound` is `RecipeSafe /\ RecordTellsBuild`. The tables below name
the parts.

Definitions whose comment starts with "Mutant" are faulty variants of the
definition below them. They take no part in the specification: each is what a
plausible bug (often one the release notes name) would make of the code, and a
property of a run is known to fail when the variant takes the definition's place.

### StageSentinel and the code

One `Run` is one process of sysforge. Its `pc` follows
`check_and_recover_stale_sentinel` (`probe`, `probing`, `read`, `asked`,
`recovering`, `wiping`, `verify`) and `sentinel_scope` (`acquire`, `entered`,
`body`, `clearing`, `leaving`). Each action is one access to the lock, the
record or the live system, since any other process may act between two of them.
`record` holds the run that wrote the file, whose `kind` says what else the file
says: who wrote it, and whether it names a recovery. `lock` is released by
`Release`, which is also what the kernel does to a killed process. A write or
removal of the record is atomic (`atomic_write.write_state`, `unlink`).
Kinds: a stage arms on entry, a verb (`arm_on_mutation`) at its first
privileged command; `uninstall` and `revert` are not gated, so their scope asks;
`run pipeline` opens several scopes in one process. `Faults` names which file
operations may raise `OSError`: of the lock (concurrency detection is lost), of
the record's write (a warning), of its removal (a warning in the scope, an
uncaught exception in the check).

`torn` is the ghost of the model: the runs that changed the system in a scope
they did not complete, until an operator repaired the system or, where no
recovery is recorded, vouched for it.

### PipelineRunner and the code

`disk` is the file, `mem[p]` the `PipelineState` of a process, which is loaded
once (`Launch`) and written whole by every `Save`. The operations on a
checkpoint (`MarkRunning`, `MarkDone`, ..., `Serialize`) are operators named as
the methods. `Serialize` drops an entry that has neither a status nor a
`first_done_at`, as the code does. Stages are positions 1..N; sets of positions say
which of them are stateless (`reconfigure`, `artifacts`), run makepkg, ask for
the reboot, or checkpoint a result in mid-run. `run_stage_standalone` is the
mode `alone`. `completed` and `ran` are ghosts: the stages whose `run()` returned
at some time, and those that a process has started.

A dry run of the pipeline passes over every stage; a dry run of one stage runs it with a
read-only state. `KeyboardInterrupt` is not caught by the runner, so it is a
`Crash`, and so is a save that raises out of `run_pipeline`.

### PackagesStage and the code

`run packages` from the gate to the final mark: the gate (`Gate`), the load,
the runner's mark, the list, the prompt about failed packages, the scope, the
dependency build, the loop, the report and the runner's last mark. Lists of the
file are sets, because the loop walks the manifest in its order and only asks
whether a name is in a list. A build and its installation is one step that
succeeds or raises. The record of the sentinel is `StageSentinel`'s: this
module keeps only the lock, which is the same for every verb (`OtherEnters`,
`OtherLeaves` are one in another terminal), and assumes that an operator cleared the
record of an interrupted run before the next (the gate lets none start
otherwise). A dry run neither saves nor takes the scope, and is left to
`PipelineRunner`. An error stays in the errors table when its package is
built later, as in the code.

### BuildInstall and the code

Its first part has one operator per method of the class `BuildState` that changes entries,
failures or the reverted stash, on a value of type `File`; a package's entry
says which build it describes (`build`), how (`mode`: built from source,
demoted by a reconcile, or a bare marker of an installed package), and whether a
stage owns it. Versions, flags, toolchains and commits of a build are told apart
by its number alone. The per-name loops of the code are one operator on a set of
names.

The second part gives each verb a `pc`. `build_and_install` is `Starts`, then for
each target `InstallDeps` (the batch's own dependencies first), `Makes`,
`RecordBuild` or `Reuses` or `BuildFails`, the ABI-skew gate (`Passes`,
`Skewed`), and at the end `Bulk`. `install_built` is `Filter`, then
`InstallOk`, `Conflict` (the retry without the packages pacman named) or
`Refuse`, `MarkOwn` (`record_self_install`) and `RestoreInstalled`; `Undo`
reverts what was refused anywhere in the batch. `update` is reconcile
(`Consume`, `ClearWindow`, `SaveReconciled`: three steps, because the code
computes, unlinks, then saves), `SyncInstalled`, `Plan`, the same build, and
`EndUpdate`, which clears the window. `uninstall` and `revert-to-stock` end in
the same reconcile. Which packages are outdated, which build fails and which
install is refused is any choice. `window[n]` abstracts the two sentinel files to
the owner of the latest event of each package, which is all that the comparison
of stamps tells apart. Between two steps of a verb the user may run pacman, in
another terminal, and the verb may be killed.

A dependency between bases (`DepsOf`) is acyclic in every instance: a cycle,
which the code breaks with a warning, is in `DepOrder`'s inputs.

Two ghosts excuse what the code is known to leave behind, and nothing else.
`broken` is the bases whose failure must still be listed. `adrift` is the packages
whose entry one of these leaks has left different from what is installed:

- a kill after a build was recorded and before its install was, or with an
  artifact on disk that is not on record yet, or after the window was cleared
  and before the reconcile was saved (`install_reconcile.py:306`);
- the ABI-skew gate, which leaves the record of the build it refuses
  (`build_core.py:942`);
- what the user's pacman installs between the reading of the window and its
  clearing, or at any time of an update after its reconcile: the end of update
  clears the window without one (`update.py:1945`), although "Every consumer goes
  through `consume_external_installs`" (`install_reconcile.py:29-31`);
- a refused member of a split package that is installed but was not requested:
  `prior_state` holds the requested names only (`build_core.py:1205`), so the
  record of the new build stays.

`EntryTellsInstalled` says that an entry is never wrong for any other reason. A
package comes off `adrift` when an install of the build on record is
accounted for.

### Toolchain and the code

A PKGBUILD is one base: `Llvm`, which makes libs and clang, and the others built
against it. `Start` is `_build_from_source` up to its dispatch; `Ready`, `Retrain`,
`PurgeData` and `PurgeSidecar` are what becomes of the profile at hand; `Begin`, `Compile`, `Package`, `Record` are a pass over its PKGBUILDs
(an artifact is in PKGDEST before it is on record, so a kill may fall between);
`Train`, `MergeSome`, `MergeAll` the profile and its sidecar; `Rewrite` BOLT. An
artifact says what it was compiled with: its version, kind, and the profile. The sidecar
of the profile holds the LLVM major its version begins with (`pgo_target_major`), and `Ready`
compares that: a point release is compiled with the profile an earlier one was trained
for, by design, and its packages are its own while their profile is not. What
`InstalledFits` asks of a profile is therefore the major. `Major` maps versions to majors,
for the theorem any map. What a version has no package for in PKGDEST
(`--bolt-only` after a point release) is not installed: `Shipped`. The
install scope is `Snapshot`, `Install`, `Verified`, and `Rollback` in two
transactions, then `Recover` in the next run. Nothing is cleaned up on the way out,
so an error and a kill are the one action `Fail`. The last run meets none, and
`EventuallyOptimized` asks that it gets through. The register-only branches, the
bootstrap of a missing compiler and 32-bit pass 4c are left out.

### KernelBoot, KernelFdo and the code

`KernelBoot` has the boot loader's directory as a function from names to entries, an
entry saying which kernel and initramfs it loads and whether sysforge's marker is in
it. `Sync` is `plan_sync`, and `Write` and `Delete` are `apply_plan` file by file;
`UpdatePlans` and `UpdateRemoves` are the prune that `update` makes on its own. The
operator removes kernels, writes entries of his own and changes the prefix between
the runs. It also implements `GuardedChange` (`KernelKeepsPromise`).

`KernelFdo` numbers builds; a build records the profiles it applied and its
configuration, a profile the build that was sampled. `Plan` picks the round (record,
AutoFDO, Propeller) and pins a copy of the first profile for the second;
`BuildAnew`, `Reuse`, `Audit`, `InstallKernel`, `Finish` are the run, and `perf` the
sampling in between.

### UpdateRun, UpdateSet, Tracking and the code

`UpdateRun` gives `update` one action per phase (`_phase_init`,
`_phase_assemble`, source sync, version check, compiler drift, flag drift, plan,
confirm, build, end). A version is a pair (upstream or commit, pkgrel); a compiler's
fingerprint is the current one or an older one. Between two builds of a run the
compiler itself may be among what was installed, and the world changes between
runs (`Release`, `Reinstall`, `Edit`). `UpdateSet` holds what `_assemble_package_set`
and the toolchain pre-flight decide, and the passes of `resolve_all_pkgbuilds`, as functions, because
their difficulty is in the inputs: who owns a package, which member speaks for its group, which of
several checkouts serves a name, what is probed after a fix. A tree is the set of packages it lists. In `UpdateRun` the members of different bases are different packages (`PackagesApart`).

`UpdateSettles` and `ReportIsTrue` name what they leave out: a base with a member that
its PKGBUILD dropped (`Dropped`), one whose members are not of one build (`Uneven`), and
a member that the file of a failed build hides (`Overlooked`). Each is a leftover of the code,
listed below.

`Tracking` has one write per action: the opt-out, the entry, pacman, the override.
Every name is looked up as the code does, by stock name, renamed name or pkgbase. The
ghosts `given` and `asked` say what the operator decided.

### PackagePgo and the code

`raw` are the samples by version, `merged` the profile with the samples it was made of
and its sidecar. `MergeProfile`, `WriteSidecar`, `PruneSamples` are three writes.
`StartPlain` is a rebuild without `--pgo`, which decides about the profile from the
setup it sees before the package's own profile is resolved.

### PackageBuild, BuiltArtifacts, LocalRepo, SandboxSeeds and the code

`PackageBuild` is `makepkg_wrapper.run` on one directory: `dir` holds the PKGBUILD, the
patched sidecar and the stash of a sandboxed build by the number of times each was
patched, so a double patch or a lost original is visible. `proc` is the build with its
attempts, `prov` the module global that says a container built it, `ceiling` the
limits on the slice that later builds inherit.

`BuiltArtifacts` follows file names: sequences of the words between hyphens, since
`foo-bar-1-1` must not be taken for a build of `foo`. `BuildFresh` and `ReuseBuilt`
leave `pending` files, `InstallBuilt` (the install of a build) and `InstallUpdate` (the
batch of an update) pick from PKGDEST what they believe to be those.

`LocalRepo` has one action per write of `sync`: the link of a file, `repo-add`,
`repo-remove`. A build is told from another by its number, which stands for contents
and checksum. A process syncs once (`_synced`), at its first container; from then on it goes on
building and installing, as `build_and_install` does between the members of a batch, and its later
containers are served what the sync left. So what a container gets is the version the host ran when the
run synced (`mirrored`), which may not be the one it runs by then: what this run has built reaches a container
with `-I` instead, where the target's closure has it (`SandboxSeeds`). While the three tools of a sync run nothing else
changes the host. `SandboxSeeds` is `install_args` as a function of the host, PKGDEST and
this session.

### SourceSync, RecipeLookup and the code

`tree` is a checkout: the upstream commit below HEAD, whose commits lie on top, what
is edited, whether it tracks the branch. Requests to the AUR and git, the rate limits
on them, the cached answer and the freeze are actions of one run; `Review` shows the
difference to `baseline` and `Make` builds. `Preflight` is the toolchain stage's own
look at the checkout, which may fetch again. `RecipeLookup` is about what lies at
the place of a clone: nothing, `.git` alone, half a tree, debris, a checkout, an
edited one; a killed clone leaves any of the first.

### Artifacts, Reconfigure and the code

`Artifacts` counts the versions of one file, written by hand on either side; `entry`
has the two hashes. Each of `deploy`, `remove`, `adopt` is a read, then its writes one
by one. `Reconfigure` has the steps as a queue; the rungs of the editor are
`SYSFORGE_EDITOR`, `sysforge.toml`, the environment, detection; `Login` turns the two
files into the environment of the next run, by the last assignment in each. A line that `Plan` drops
stays as one that assigns neither variable, so that the lines keep their places.

### LibraryAbi and the code

`libs` maps libLLVM and its consumers to what they export and need, a
symbol with its version node. `BuildConsumer` and `BuildLibrary` pass the gate of
`build_core`, `InstallBatch` installs what passed; `Gate2`, `StageInstall`, `Gate3`,
`StageEnds` are the toolchain stage's gates and its rebuild of consumers. `verdict` and
`said` are what the operator was told.

### Screen, Progress and the code

A token of `Screen` is a byte class (text, wide character, escape sequence in parts, newline,
carriage return, cargo's frames); the kernel cuts chunks anywhere. `held` and `clip` are
the filters' buffers, `mid` the boundary tracker. `Progress` has a stack of open
context managers and two clocks; `term` is what the terminal shows and `bar` what
the display believes of it.

### The algorithms and the code

`Profiles` resolves a value as a set of tokens of which those of a class exclude one
another. Its second part is the chain of corrections, one operator per correction, in the
code's order. `DepOrder` walks as the code does, over sequences, since the order
of the names decides what a visited one gets. `KernelConfig` executes `prepare()` as a
sequence of line kinds, over the files an earlier run left. `Patcher` sees a PKGBUILD
as flag lines, as commands with arguments, as make lines, or as members with
relations, one at a time: the patches touch different text, and their order is
that of the wrapper. `StateRepair` is `cmd_state_repair` over the records of one directory.

## Where the code and its documentation part

Two of these have a run that ends in a counterexample (below). The others were met while
modelling; where a property would be false because of one, its comment says what it
leaves out.

Sentinel, runner, packages stage:

- "A stale record from an earlier interrupted run is never overwritten"
  (`stage_sentinel.py:576`): the record is looked at before the lock is taken. Run 2
  sees none; run 1 arms and is killed; run 2 takes the free lock and overwrites it.
- The stale-record prompt "must not clear a live run's sentinel"
  (`stage_sentinel.py:296`): the probe frees the lock, so an answer may clear the record
  of a run that entered since (`stage_sentinel.py:380`).
- `--start-from NAME` with a NAME that is done already passes over it
  (`pipeline/runner.py:359`), against "start from NAME" (`runner.py:15-16`).
- "so a crash leaves a valid checkpoint" (`pipeline_state.py:72`): the errors table has
  unquoted keys (`pipeline_state.py:162`), so a failed `libsigc++` leaves a file that no
  later run can load.
- The answers of the packages prompt are saved outside the lock, from the copy
  loaded at the start (`packages.py:369`), so a second terminal's progress can be
  rolled back. No package is falsely claimed by it (`NoFalseBuilt`).

Build state:

- An install that the ABI-skew gate refuses leaves the entry of the refused build
  (`build_core.py:942`), against `docs/release-notes/v3.4.0.md:103`.
- Building a package "is an explicit adoption" (`build_cmd.py:548`), but where
  makepkg finds the artifact already built, nothing is recorded
  (`build_core.py:1422`).
- `state repair` gives members that were never installed an entry with the first broken
  entry's provenance, and drops the broken record of a renamed member whose stock
  name has a record.

Update and tracking:

- A member that a PKGBUILD no longer makes keeps its version, so that its base is
  rebuilt by every update (`_produced_pkgnames`, `update_version.py:60-90`; `tests/test_update.py:238`
  expects otherwise).
- "members the next build will actually produce" (`update_version.py:61`): where a failed build
  left a PKGBUILD.sysforge, the names are read from that, so that a member which only the new PKGBUILD
  makes is not looked at, and the run ends with 0 while it lags.
- "all entries in a split package agree" (`update.py:1151-1155`): not after pacman put one
  member in place, or a record was dropped; then the member that is asked decides for the base.
- Of a repo package in `build_from_source` mode, a group's class is that of the first
  member of a set, in no order (`group_by_pkgbase`), against the docstring of
  `_resolve_repo_class`.
- Flag drift of a partly demoted base asks the first member only. The compilers
  of a batch are read without the package's own row of packages.toml, and accepting
  one fix probes no other need again.
- Reverting one plain member opts out the pkgbase's name; a maintained sibling keeps the
  base building, and the install takes every installed member, so that a reverted one is put
  back (`docs/design/verbs/state.md:12`). `derename` reinstalls the
  pkgbase, and `revert-to-stock linux` can resolve to `linux-headers-sysforge`.

Toolchain and libraries:

- `--install-only` after a kill between passes 4a and 4b installs what pass 3 left of
  the other packages, as only the record of llvm is asked for: the run `install_unfinished`. `resolve_skip_build_variant` says `pgo_llvm` whenever a profile and its sidecar
  exist. The snapshot of Gate 2 precedes the lock and the build (`gates.py:664`), and a
  rollback restores by name and version from pacman's cache.
- `run toolchain` with `--no-update`, `--bolt-only`, `--install-only` or `--dry-run` still fetches and
  fast-forwards the LLVM checkouts (`run_cmd.py:212`), against "Never mutates
  state" (`llvm_state.py`). An unattended run meets a stored profile of
  another major as a blocker it cannot pass. `_dirty_reason` knows no exemption for a VCS `pkgver()`.
- A package whose own tree is not checked out is taken from another checkout in use that still
  lists it (`pkgbuilds.py:286-313`), the frozen tree that `pkgbuilds.py:264` means to keep out;
  `SuiteAsOne` leaves such packages out.
- The gate before an install resolves against installed libraries only: two packages of one
  batch of which one needs a new node of the other are refused each time; the
  gate of the stage leaves shipped ones out. "missing_needed" never blocks. Another version of llvm
  built by plain `build` strands consumers that declare no soname. 32-bit consumers
  pass no gate.

Kernel:

- With a prune of update's beside the install scope (`Overlap = TRUE`) `EntryKept` is
  violated; with the operator's entries on another initramfs (`Initrds = {"own", "booster"}`)
  `DoneMeansBootable` is (`docs/guides/boot-entries.md:28-33`). The recovery clears the
  sentinel after `mkinitcpio -P` though an entry is still missing.
- Both profile rounds share the name `-profiling`, so that a profile may be sampled on
  a kernel of the wrong round (`docs/release-notes/v3.4.0.md:143`). `applied.toml` has no
  version. A rebuild with `-f` that was killed lets the next run audit the configuration of a
  half-built tree; an earlier archive of the same release is audited before
  the tree (`gates.py:235`; docstring `gates.py:202`).
- Options of devices that are not plugged in are verified in the middle of `prepare()`
  (`_post_anchor`), which may go on; a packager's own `localmodconfig` is not made
  unattended.

makepkg, sandbox, PGO:

- After a build that renames nothing, or a capture that fails, the sidecar of an earlier
  renamed build stays and is installed from: the run `stale_manifest`. A
  renamed build whose names could not be noted may install an earlier plain
  build's files; a reuse with some files gone falls back on the newest of each.
- The auto-repair of a failed build cannot be reached (`makepkg_wrapper.py:1132-1155` and
  `_invoke_with_retry`), against `auto_repair.py:8-12`, `failure.py:25` and
  `makepkg_wrapper.py:1061-1064`. A compiler chosen in the recovery menu, the
  gcc fallback and an artifact installed by hand are recorded with the original profile's compiler.
- A host build after a kill in the middle of a sandboxed one reads the PKGBUILD that is patched
  already. `local_repo.sync` killed between the link and `repo-add` leaves an old
  checksum, which no later sync sees. What is published is chosen by the installed version, and a rebuild of that version
  which was refused or declined has the same file name, and is published in its place, against `local_repo.py:19`. "The repo mirrors the installed
  set" (`local_repo.py:21`) holds as of the run's one sync.
- A stage's build is sandboxed by a profile's `sandbox_builds` (`build_sandbox.py:291`),
  against `docs/design/11-makepkg-wrapper.md:52`.
- Whether a plain rebuild applies the merged profile is decided before its own
  profile is resolved (`makepkg_wrapper.py:1804`, `1838`), so that a package with a clang profile
  of its own is rebuilt without, while `build_inputs` names it; against
  `docs/design/08-cli-verb-framework.md:331`. A kill between the replaced profile and the
  prune merges samples twice.

Source sync and lookup:

- `fetch --cleansrc` of a repo package removes the checkout and asks the AUR for it, which
  fails (`fetch.py:95`, the default source of `SyncRequest`, `source_sync.py:150`), against
  "Purge each package's src dir and re-clone". `fetch` of one follows main instead of
  the release.
- `pkgctl_checkout` never purges a leftover that is no git tree, as pkgctl skips the clone and
  exits 0; its docstring says it does. Half a tree of a killed clone counts as the user's changes and is
  never purged.
- A checkout pinned to a release is pinned to the next over the user's commits
  (`docs/design/09-primitives-layer.md:631`). A directory that is no repository is
  reported as up to date, and removed before the freeze is asked.
  The pre-sync of the review goes by pkgbase and the wrapper by directory (`build_core.py:1108-1112`).
- A dependency that is met twice keeps only the last requirer, so that what a refused review
  takes with it misses the first (`build_core.py:292-294`).

Patching:

- `extract_pkgbuild_profile` reads the whole body and loses what the top level assigns; a
  one-line `if ...; fi`, a quoted value over several lines and an empty `CFLAGS=""` are not
  understood. `make htmldocs > log` leaves a `make` without a goal. A relation that a
  member inherits is hidden by the array that the rename adds. `$pkgbase` in a member's name is
  expanded before `_PKGBASE_REF_RE` looks for it. A misspelt gallium driver beside a
  rewritten vulkan list is refused, where the docstring says it degrades.

Files and terminal:

- Saving an editor rewrites the shipped sysforge.toml, which has a list of tables, as
  something that is no TOML, after which the whole file is ignored (`reconfigure.py:139-164`); `config.py:934` speaks of "the one runtime TOML writer". Not warned of: `SYSFORGE_EDITOR` in the shell, an `export` or
  a comment in a form `plan_write` does not look for, the order of `zshenv`.
  `_require_usable_editor` stops unattended runs (`docs/design/07-pipeline-layer.md:79`).
- An edit of a managed copy whose editor fails is not hashed; edits that overlap a
  deploy or a removal, and `--adopt-live` in the state `ok`, can lose one.
- In plain mode `yield_terminal` does nothing, so the time of prompts counts.

## Runs

| Run | Instance | What it shows |
|---|---|---|
| `sentinel_sequential` | 3 runs of 7 kinds, one at a time, lock and clear may fail | `TornIsRecorded`; `KeepsPromise`, the refinement of `GuardedChange` |
| `sentinel_concurrent` | 2 processes with operators, write and clear may fail | `OneInside`; `EveryRunEnds` |
| `pipeline` | 3 stages, every command line, reboot, one process at a time | `DoneMeansCompleted`; `EventuallyDone` |
| `packages` | 2 packages, one of a name that is no bare key; manifest edited between runs, other verbs in between | `EveryPackageAnswered`, `BuiltMeansInstalled`; `KeepsLedger`, the refinement of `PackageLedger`; `EventuallyDone` |
| `build_split` | a split package of 2 members and one built after it, 2 versions, 2 builds, all verbs, kills, the user's pacman at any time | `EntryTellsInstalled` |
| `toolchain` | 3 runs in any mode, 3 versions of 2 majors, failure or kill anywhere, pacman -Syu in between | `InstalledFits`: a finished package was compiled with a whole profile of its LLVM major (`OptimizedFits`), all of them with one (`BuiltAsOne`); `WholeOrRecorded`; `EventuallyOptimized` |
| `kernel` | 3 runs over 2 kernels and the stock one, 3 deeds of the operator; or 3 builds of the profile rounds | `EntryKept`, `DoneMeansBootable`; `ProfilesFit`: `PropellerFits`, `AppliesStore` |
| `update` | updates of an application of 2 members and a compiler; 5 verbs over one PKGBUILD; 4 rounds of PGO; a child's output of a few tokens in chunks of 1 to 3 bytes; a progress bar | `UpdateSettles`; `ReportIsTrue`: `ZeroMeansBuilt`, `RecordTellsCompiler`; `DecisionsSound`: `DecisionHolds`, `RevertedIsStock`; `SamplesKept`; `OutputSound`: `StreamKept`, `PaintsBetween`; `ProgressSound`: `TerminalKnown`, `ProgressHonest` |
| `algorithms` | every input within the bounds named in `MCAlgorithms` | `FlagsSound`: `OneToolchain`, `ProfileIsOne`; `DriftSees`; `NeedsComeFirst`: `DependenciesFirst`, `RefusedTakesRequirers`, `TargetsInOrder`; `SeedsMatchHost`; `KconfigSound`: `SettingsDecide`, `RequestedOrSaid`; `RecipesSound`: `PatchedOrRefused`, `FlagsMoveIntact`, `MembersReplaceStock`; `RepairKeeps`; `BatchSound`: `UpdatedAsOne`, `SuiteAsOne`, `PreflightTells` |
| `package_build` | 3 builds of one directory; a repo of 2 versions; 2 runs over one checkout; 3 writes of a managed file; one run of the checkpoint stage; a library with 2 consumers; 3 shipments into PKGDEST; 4 lookups | `BuildSound`: `RecipeSafe`, `RecordTellsBuild`; `PublishedIsInstalled`; `SourcesSound`: `FreshOrSaid`, `BuiltIsReviewed`, `PreflightStops`; `CheckoutSafe`; `EditsKept`; `EditorSound`: `HandoverSound`, `PickSettles`; `SymbolsSound`: `BrokenIsSaid`, `RefusedIsBroken`; `InstalledIsBuilt`; `LookupFinds` |

Runs that end in a counterexample, each against a sentence of the repository:

| Run | The sentence | What the code does |
|---|---|---|
| `stale_manifest` | "any failure leaves no sidecar" (`makepkg_wrapper.py:516`) | a build that renames nothing neither writes nor removes the list an earlier renamed one left (`makepkg_wrapper.py:1197`), and that is what gets installed |
| `install_unfinished` | `--install-only` "refuses when the last build isn't the optimized build" (`docs/guides/pgo.md:588-591`) | a run killed in pass 4b has the record of llvm say `pgo_llvm`; `install_only` asks for that record and that the other packages exist, and installs those of pass 3 (`pgo.py:244`) |

### Bounds

Every bound is a constant of a configuration or a guard on a counter, named `Max...`.

- Sentinel: three runs are the fewest in which a run can find the record of a
  second while a third is inside. Two suffice for exclusion and for waiting, each being
  the other's only obstacle. The runs of one process at a time cover seven kinds,
  among them root's records and another user's.
- Pipeline: three stages give a stateless boundary stage, one before it and one after it
  that keeps a result and runs makepkg, and every position of `--start-from`. What two
  terminals do to the checkpoint is not run; `NoFalseClaim` proves
  `DoneMeansCompleted` for any set of them.
- Packages: one built and one failed or skipped, next to a manifest that no longer lists
  one of them. An error of package 1 makes the file unreadable, as that of a package
  with a `+` or a dot in its name does. The theorems hold for any number of packages and processes.
- `build_split`: two members share a base, so demotion, failures and reverts of a sibling
  matter; one is in a repository and one is not. The third package is built after them, so
  an install comes in the middle of a batch. Two builds give a recorded one and one before it.
- `toolchain`: the second version opens another major, so that profiles and artifacts may be stale; the third is a
  point release of the second, so that a profile may be reused, and is out in time for the last run only (`Released`). Two
  runs that may fail in any way come before the one without failure.
- `kernel`: the stock kernel is the fallback, `Plain` and `Role` the two the stage installs
  beside each other. Two releases, three builds: the first profile, the second, and a
  kernel that applies both.
- `update`: two changes of the world between or during runs; the compiler is one of the
  two bases. In `Tracking` five verbs are enough for revert, add, build, update and one more. A line of `Screen` can be
  wider than its windows, so that clips happen, and a read shorter than an escape sequence, so that
  each is cut anywhere.
- `package_build`: three builds are one that fails or is killed, one that finds what it left and one after it. Two
  runs over a checkout with one push between are a cached answer and a stale one. Three shipments are an old
  renamed build, a plain one, and a neighbour's.
- `algorithms`: four targets for cycles within and around a pair; up to five flag lines
  for a conditional with assignments on both sides; three packages of the suite, whose base moved or not, every set of checkouts on disk
  and of those that can be cloned; the inputs are named at each subject.

`CHECK_DEADLOCK FALSE` is set where the behaviours stop: the sentinel's processes and the runs of
`toolchain`, `kernel` and `package_build` are counted, and nothing happens after the last.

### Fairness

- Sentinel: weak fairness of each process's own step. The scheduler runs
  it, its operator answers, its body ends. Every loop in the code that waits is
  one of these; nothing assumes that a crash or a Ctrl-C happens or stays away.
- Pipeline: a process goes on (weak), and a stage that is running returns or raises.
  From some time on nothing kills the process, and the operator, whatever was tried before, only resumes, as
  the machine's user, and reboots when asked to; each stage, attempted again and again, returns at some time (strong, per
  stage). The promise is that a checkpoint then ends with every stage done, or passed over by
  an earlier `--start-from`. That crashes end is an assumption on the world: with a crash at every
  attempt nothing completes.
- Packages: a started process goes on and the operator starts the stage again (weak). The prompt
  is answered, the manifest loads, the dependencies and each package get built at some attempt
  (strong): they may fail any number of times, but not always. Kills, Ctrl-C and other verbs come to an
  end. The promise is that the stage then gets done, again and again, unless an error on file
  keeps the file from being read.
- Toolchain: a run that was started goes on, the operator has the recovery run and starts
  the PGO build again (weak), and accepts what the unattended pre-flight would refuse. Only
  the last run is without failure, so the promise is that nothing the failed ones left, in whatever
  combination, keeps it from an optimized suite.

Nothing else needs fairness: the other properties are of safety.

## Proofs

All are checked by TLAPS for every value of the constants that meets the
named assumptions: any set of processes, any number of stages and packages.

`StageSentinelProofs`
- `TypeCorrect`: `TypeOK` is inductive given the fields of kinds.
- `Exclusive`: `OneInside`, when the lock file raises no error. The invariant adds
  that a process in `probing` or inside the body holds the lock (`Held`), which
  is why acquiring it excludes everyone else.
- `NeverSilent`, `Implements`: with one process at a time and record
  writes that succeed, the invariant `PromiseInv` says where a run stands
  towards the record: a run in its body wrote the record if it is armed
  (`ArmedIn`), one that is about to arm found no torn system, one that wipes
  has repaired what it saw. `TornIsRecorded` and each step of
  `GuardedChange` follow from it.
- `UnattendedRecord`: `LiveRecordKept` among processes that cannot prompt, from the
  lock invariant and the fact that none of them ever reaches a prompt. With
  prompts the property is false (the stale-record prompt, above).
- `ConfigurationsAreSound` (`KconfigSound`), of `KernelConfig`, for any lines of `prepare()`, targets, settings, machines and
  reviews. `SettingsDecide`: each of the five files is written or removed by every run that builds, whatever was there
  (`StagedAnew`). `RequestedOrSaid` is about what runs last: `prepare()` is computed line by line, so `RanIs` and `DidWhole`
  give its result after each, `InsertedAtIs`, `InsertedCloses` and `PostCloses` say that after both splices the lines still
  end with the check, preceded by the merge and at most one review (`InstallCloses`); what comes after a merge takes an option away only
  by the review or by what the kernel lacks (`SettleIs`, `QuietIs`), and what the check misses it says (`ClosedTells`). From
  `RunTyped`: the PKGBUILD writes a configuration before it makes it another, and the kernel knows the options for devices that
  may be plugged in; `RunsAreTyped` checks the run's inputs for it. Without the first the steps are spliced before
  the line that creates `.config`, which undoes them.

`PipelineRunnerProofs`
- `TypeCorrect`: strengthened by `AtStage` (a process runs a stage only at a
  stage's position). It needs that `ResumeIndex`, a `CHOOSE`, is defined; the
  lemma `FirstOf` gives the first element of a set of positions.
- `NoFalseClaim`: `DoneMeansCompleted`. Not inductive alone, as a stale copy
  may be saved: `Earned` says the claims of the file and of every copy are
  among the completed stages, and that a stage that returned is completed.
- `FlagsAreSound` (`FlagsSound`), of `Profiles`. Its first half, `OneToolchain`: the conf written for a build is one toolchain's, whatever the profile and
  the system say and whatever the package cannot take. Ten corrections run one after the other, each over what
  the earlier ones left, and a key a profile lacks is worth what the system gives it. One lemma per correction says
  what it settles and that it keeps what is settled: `Regular` (flags stand where their tool reads them, and of those of
  the linker no two exclude one another), `Linked` (no flag of lld's for another linker, rustc's linker is the one that runs),
  `ForGcc`, `NoLto`, then, with the PGO flags added, `Settled`, `For32`, `ForMusl`. It holds of builds as users
  configure them (`WellConfigured`): the system has `LDFLAGS` and leaves rustc's linker to the profile, and no
  flag of the profile stands under a key of another tool; and for flag sets that the placeholder `Absent` is not one of
  (`Meant`). `BuildsAreConfigured` checks that the run's inputs are such builds. Its second half, `ProfileIsOne`, is about chains of any length:
  `MergeChain` and `ModeOfChain` are recursive over the set of profiles seen so far, so a statement about each step of a chain is
  shown by taking a largest set for which it fails. A chain comes back to a profile exactly if there is a set of profiles that it never
  leaves (`Loops`). It holds of worlds as users write them (`WellWritten`, checked by `ProfilesAreWritten`), and
  for a placeholder that is no profile's name and no value (`Apiece`).
- `EditsAreSeen` (`DriftSees`): of two profiles with the same record the same conf is written. Nothing after the
  filter looks at the profile but for its compiler (`RestIsOne`), and the record decides what the filter lets through
  (`RecordDecides`).
- `SeedsMatch` (`SeedsMatchHost`), of `SandboxSeeds`: the walk over the dependencies ends within as many rounds as there are packages,
  since a round that finds nothing new is the last (by cardinality), and what it has then is the least closed set. The rest
  compares the three sources of a seed. From `WorldTyped`: what is installed is a finite set whose dependencies are listed.

`PackagesStageProofs`
- `TypeCorrect`, `NoFalseBuilt` (the same argument over every copy),
  `OneOutcomeEach` (the operations keep the lists apart in the file and in every
  copy), `NoneForgotten` (the packages behind the loop's position have an outcome,
  the ones ahead are queued or settled), `Implements` (with at most one process the
  copy agrees with the file between saves, so each save is a step of
  `PackageLedger`).
- `CheckpointSound` (`EditorSound`), of `Reconfigure`, for any editors, files and answers: `StageInv` says what is known of an
  editor once it was picked, and at the handover; `SavedInv` what a file shows that the pick was saved to
  (`Shows`), and whether the operator was told of a higher rung (`Weighed`). From `NoEditorApart`,
  `DetectedTyped`, `FilesTyped`. The proof needed a case that no instance had: `EDITOR=x; export EDITOR`
  in `/etc/environment`, which the planner takes for a setting and PAM for another value. The property is
  false there, hence `Misread`.

`BuildInstallProofs`
- One lemma per operation on `build_state.toml`: it leaves a file of the format it
  was given. `TypeCorrect` rests on them, strengthened by `HasTarget`: a build that
  is recorded, or refused by the ABI-skew gate, has a target.
- `InstalledIsTold`: `EntryTellsInstalled`, for any packages and bases, versions and builds. The
  file is compared with the artifacts per package (`FileOk`: a source entry is of the newest
  build of the version at hand, unless that build's entry is stashed). During a batch entries run ahead
  of what is installed; `EntryInv` says for which packages (recorded and waiting, being installed, refused), that the
  prior entries are what a refused install needs to go back, and what the reconcile's copy is still right
  about. From `NoneIsNoEntry`.
- `RepairsKeep` (`RepairKeeps`), of `StateRepair`, for any group of records, one of them broken: a member's source is the
  record under its new key if there is one, and else one under neither of its keys (`SourceIs`), which is why nothing
  is said of another package than before. `GroupsAreRead` checks the run's groups for `GroupRead`.

`KernelBootProofs`
- `TypeCorrect`, from the fields of `Start` on.
- `TornKernelRecorded`, `KernelKeepsPromise`: the kernel's scope keeps the record
  and implements `GuardedChange` as well. The invariant says at which `pc` the sentinel is
  on file.
- `OwnEntriesUntouched`: an entry of the operator's is never written or removed by
  the stage. The invariant says that what is planned, written and pruned are entries with
  sysforge's marker.
- `LastEntryStays`: `EntryKept`, while no prune of update's runs beside the install scope
  (`~Overlap`; with it the property is false). `KeepInv` says that every planned removal boots
  nothing or has its replacement among the entries on file or the writes that come first.
- `DoneBoots`: `DoneMeansBootable`, where entries load their own kernel's initramfs
  (`Initrds = {"own"}`; false otherwise, above).
- `RoundsFit`: `ProfilesFit`, of `KernelFdo`. `FdoInv`: profiles are sampled from ever newer kernels
  (`ProfilesGrow`), what was noted in `applied.toml` is not newer than what the packages apply (`NotOlder`),
  only kernels of the noted version and with its profiles were built to be sampled since
  (`RoundInv`), and the run's profiles are the store's (`WorkInv`). From `FdoAssumption`.

`ToolchainProofs`
- `TypeCorrect`: from `PackagesApart`, `NoneApart` and `MajorsTyped`, for any map of versions to majors.
  `PackInv` ties what a pass has packaged to PKGDEST, so that what is installed or recorded was there to be taken.
- `WholeUnlessRecorded`: `WholeOrRecorded`. `SysInv` says what a record, a snapshot and the packages in pacman's
  cache are of, and so what the suite is once a rollback or a recovery ends.
- `ProfileFits`: `InstalledFits`. A profile is spoilt by four different steps: a merge that is killed, a pass that is reused, a
  new major, BOLT over an old build. `FilesInv` says what the files of any earlier run tell of their profile,
  `PassInv` where the run stands towards it, `DoneInv` which bases its last passes have finished.
- `BatchesAreSound` (`BatchSound`), of `UpdateSet`, in three parts. `AssembledAsOne`: whichever member speaks for a group was
  built if any was, so what it says of class and directory is what the records of all say. `SuiteIsAsOne`: `LookedUp` says
  after every name that the trees on disk are kept, that what was added is cloned from where the repos build it, and
  that what is missing has no tree anywhere; the rest of `TreesAsOne` follows at the end. `PreflightTruly`: what rustup adds for one need changes the answer to no other (`OnlyFixed`), though
  only what was fixed is probed again; so what is left at the end is what the host lacks (`ServedIs`).

`PackageBuildProofs`
- `RepoServesInstalled` (`PublishedIsInstalled`): between the steps of a sync an entry names
  a file that is there, and the one it was made of, unless a sync was cut there. From its writing to the end of the
  process it is what the host ran at the sync, while the host's own version moves on.
- `RecipeIsFound` (`LookupFinds`): what the scheduler remembers of earlier requests is no obstacle.
- `FileEditsKept` (`EditsKept`, an action property): whatever a verb or the registry calls the file's
  contents is something the copy has been.
- `SourcesTrue`, `CheckoutKept` (`SourcesSound`, the action property `CheckoutSafe`): an answer that claims the newest source
  stays true while it can be repeated, and what was accepted is what HEAD is at. From `StageSwitches`: only update has `--offline`, and with
  `--no-update` only the toolchain stage looks at a checkout.
- `BuildsAreSound` (`BuildSound`): what a directory holds follows from where the build is. The
  recipe is under its own name, or stashed, or, after a killed sandboxed build, both.
- `SymbolsAreSound` (`SymbolsSound`), of `LibraryAbi`: a stage that brings another version of the library has named every
  consumer it does not ship before it installs (`LinkInv`), and whoever is left short in silence has the version in place,
  so that the third gate finds it. From `LibraryAssumption`: the library is no consumer of its own.
- `InstalledAreBuilt` (`InstalledIsBuilt`), of `BuiltArtifacts`: a file name tells its package and its version (`FileTells`,
  `FileIsOne`) whatever hyphens the names have, and no file of a member is of a version to come (`ArchiveInv`). From
  `NamesTyped` and `TextsApart`: no version is "0", which is what a PKGBUILD with `pkgver()` states.

`UpdateRunProofs`
- `UpdateHolds`, `Settles` (`UpdateSettles`), `ReportsTruly` (`ReportIsTrue`): one conjunct per phase says what the
  run has found out by then (`SetInv`, `SyncInv`, `CheckInv`, `DriftInv`, `PlanInv`, `BuildInv`, `DoneInv`), and
  holds for the bases that no build has touched. `SettledInv` says what a complete run leaves (`Tended`) and what
  the next one makes of that, phase by phase. From `PackagesApart`. The proof needed two cases that the
  run's first instance did not have, packages that are not installed at the start and members of
  different builds, and showed that the properties were false there: hence
  `Uneven` and `Overlooked`.
- `TrackHolds`, `DecisionsHold` (`DecisionsSound`), of `Tracking`: the decisions on file cover exactly what was given up and
  the pkgbase (`CoverInv`), and a revert has reinstalled what it was asked for before it files one
  (`RevertInv`). From `UntrackedApart`: "not tracked" is no package's name.
- `SamplesStay` (`SamplesKept`, an action property), of `PackagePgo`: what a merge is about to prune is in the profile by
  then, though the merge before it was killed (`ProfileInv`). From `NoVersionApart`.
- `ProgressIsSound` (`ProgressSound`), of `Progress`: `RowInv` says what a resize and a yield leave of the reserved row (a row
  that nobody reserved shows nothing, and after a resize only the row that was drawn is in doubt), `ClockInv` how the
  clocks of the bar and of the tracker stand while somebody else has the terminal, `NamesInv` that the names up to
  the index are the steps begun, whatever is planned behind it. From `OffApart` and `PlansListed`.

The assumptions are of three kinds. Most give a constant its type. Those named `...Apart`,
`NoneIsNo...` say that a placeholder is none of the values it stands beside. The rest restrict the world: `StageSwitches`,
`PackagesApart` of `UpdateRun`, and the hypotheses stated with a theorem (`~Overlap`, one initramfs, one process at a time in
`NeverSilent`, `Implements`). Where a hypothesis of the last kind is dropped the property is false, as
described above.

Only model-checked:

- Liveness, which is out of the prover's reach: `EveryRunEnds`, both `EventuallyDone`, `EventuallyOptimized`.
- `OutputSound`: what a child writes is taken apart by recursive operators.
- `NeedsComeFirst` and `RecipesSound`: what `DepOrder` and `Patcher` compute step by step over sequences of needs and of lines, by recursive
  operators, and what a PKGBUILD is for each of its readers, over inputs that a run enumerates.

A loop that a theorem is about is written as a recursive function, not as a recursive operator. That such a
function is what its definition says, and what is concluded from it by induction, is shown from a least number (`LeastNumber`) or a
largest set (`LargestOf`) for which it fails.

## Plan

Done: every state machine and algorithm of the tables above, model-checked; the theorems
listed. Next, in this order:

1. `FailureListed` of `BuildInstall`, a definition that no run checks.
2. The scopes of `KernelBoot` and `Toolchain` composed with `StageSentinel`: both take for granted that the
   gate has run.
3. What is named below as left out.

## Not modelled

Of the whole: `doctor`, its checks and reports, the diagnosis of a failed build's log, the
probes of hardware and system, the unified log and rendering: they read and print. `setup`, `configure` and
the hardware stage write files once from what they probed. The loading of config files is
modelled by what the values are. The tools under `src/tools` check the repository itself.

Of the modelled parts:

- Sentinel, runner, packages: time stamps, messages, the order of the file's lists, display managers
  enabled after the packages stage.
- `BuildInstall`: the `-sysforge` rename, the preparation of dependencies from outside the
  batch, `update --install-only`, update's pass that builds a toolchain first and what its
  `pacman -Syu` upgrades (it leaves what sysforge built alone), a PGO build that is
  skipped, an artifact removed from disk before its install, writes of the file that fail,
  `state forget` and `state clear` (which run outside a scope; `Tracking` has the first), events of the
  user's in the very second of sysforge's own, and the quoting of booleans in stashed entries.
- `Toolchain`: `install_bootstrap_compilers`, the register-only branches, pass 4c, the
  result that the consumer rebuild checkpoints.
- `KernelBoot`: grub, entries whose images lie in a subdirectory. `KernelConfig`: the text of the fragments.
- `UpdateRun`: the `--json` and `--versions` reports, the closing system upgrade of packages not planned.
- `SourceSync`: the text of the review, trusted sources, the pacing of requests. `RecipeLookup`: lookups by path.
- `PackageBuild`: what the diagnosis suggests. `SandboxSeeds`: the provisioning of the chroot, the audit of
  its makepkg.conf, `check_install_set`.
- `Patcher`: groups, the kernel's `/boot` config and BTF guards, subshell environments, the
  build linker, meson's packaging.
- `LibraryAbi`: ELF files and archives, 32-bit libraries, advisory reports.
- `Artifacts`: which directories are scanned. `Reconfigure`: what the other steps fill in.
- `Screen`: the keystrokes of interactive builds, the raw dump, the limit on pending output. `Progress`: texts and estimates.

Two operating-system facts are assumed: rename is atomic, and a flock goes with its process.

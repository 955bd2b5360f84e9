----------------------------- MODULE SourceSync -----------------------------
(***************************************************************************)
(* The checkout of one package and the verbs that bring it up to date      *)
(* (primitives/source_sync.py, git_ops.py), show what changed              *)
(* (pkgbuild_review.py) and build it.  The upstream branch is a line of    *)
(* commits 1, 2, ..., and a release of it is what the sync database has.   *)
(* The user edits the checkout and commits to it between runs; upstream    *)
(* moves at any time.  What else a run does counts only where it limits    *)
(* this package's requests.                                                *)
(***************************************************************************)
EXTENDS Naturals

CONSTANTS
    Origins,        \* kinds of package: from, vcs, named (the directory is called like the base)
    Invocations,    \* verb and switches of a run
    MaxPushes, MaxRuns, Absent

ASSUME InvocationsTyped ==
    Invocations \subseteq [verb : {"update", "build", "kernel", "toolchain"},
                           opts : SUBSET {"cleansrc", "impatient", "devel", "offline", "force", "main",
                                          "frozen", "noaur", "noupdate"},
                           gate : {"prompt", "accept", "off", "strict"}]
\* Only update has --offline; with --no-update only the toolchain stage looks at a checkout.
ASSUME StageSwitches ==
    \A i \in Invocations :
        /\ "noupdate" \in i.opts => i.verb = "toolchain"
        /\ i.verb = "toolchain" => "offline" \notin i.opts

Mines == {"none", "user", "other"}
Trees == [git : BOOLEAN, base : Nat, mine : Mines, edits : {"none", "user", "pkgver"},
          recipe : BOOLEAN, tracks : BOOLEAN, seen : Nat]

\* Nothing is no commit, no checkout, and no answer of the scheduler's.
ASSUME AbsentApart ==
    /\ Absent \notin Nat \cup Trees
    /\ \A status \in {"skipped_local", "skipped_aur_disabled", "rate_limited", "skipped_offline", "frozen",
                      "purge_refused"} : Absent # status

VARIABLES
    origin, upstream, release,
    tree,           \* the checkout, or Absent
    meta,           \* its entry in source_meta.toml: the commit the AUR told of, and HEAD
    baseline,       \* the HEAD accepted at the last review, or Absent
    sync,           \* the run: where it is, its scheduler
    pushes, runs

syncVars == <<origin, upstream, release, tree, meta, baseline, sync, pushes, runs>>

NoMeta == [rpc |-> Absent, head |-> Absent]
Resting == [at |-> "rest"]
At(at) == [sync EXCEPT !.at = at]

(* A checkout: the upstream commit below HEAD, whose commits lie on top,    *)
(* what is edited, whether it has its PKGBUILD and tracks the branch, and   *)
(* how far the branch was seen.                                             *)
Fresh(c) == [git |-> TRUE, base |-> c, mine |-> "none", edits |-> "none", recipe |-> TRUE,
             tracks |-> TRUE, seen |-> c]
HeadOf(t) == IF t = Absent \/ ~t.git THEN Absent ELSE <<t.base, t.mine>>
Present == tree # Absent

InitSync ==
    /\ origin \in Origins /\ upstream = 1 /\ release = (IF origin.from = "repo" THEN 1 ELSE Absent)
    /\ tree \in {Absent, Fresh(1), [Fresh(1) EXCEPT !.git = FALSE, !.recipe = FALSE]}
    /\ meta = NoMeta /\ baseline = Absent /\ sync = Resting /\ pushes = 0 /\ runs = 0

-----------------------------------------------------------------------------
(* How git_ops classifies a checkout.                                       *)

History(t) ==
    CASE ~t.git                                -> "not_a_repo"
      [] t.git /\ ~t.tracks                    -> "no_tracking"
      [] t.git /\ t.tracks /\ t.mine = "none"  -> IF t.base = t.seen THEN "clean" ELSE "behind"
      [] t.git /\ t.tracks /\ t.mine # "none"  -> IF t.base = t.seen THEN "ahead"
                                                  ELSE IF t.mine = "user" THEN "diverged_user"
                                                  ELSE "diverged_upstream"

(* What pkgver() rewrote in a VCS package is no edit.                       *)
Uncommitted(t) == t.git /\ t.edits \in {"user"} \cup (IF origin.vcs THEN {} ELSE {"pkgver"})

Dirty(t) == Uncommitted(t) \/ History(t) \in {"no_tracking", "ahead", "diverged_user"}

\* Mutant: commits on top are not looked at.
PurgeRefusedForEdits(t) == Uncommitted(t)

PurgeRefused(t) ==
    \/ Uncommitted(t)
    \/ History(t) \in {"ahead", "diverged_user"}
    \/ History(t) = "no_tracking" /\ t.mine # "none"

\* Mutant: only the history is looked at.
ReportedHistory(t) ==
    History(t) \in {"ahead", "diverged_user"} \/ (History(t) = "no_tracking" /\ t.mine # "none")

(* What the LLVM pre-flight calls dirty: the version pkgver() wrote too.    *)
Reported(t) ==
    \/ t.git /\ t.edits # "none"
    \/ History(t) \in {"ahead", "diverged_user"}
    \/ History(t) = "no_tracking" /\ t.mine # "none"

-----------------------------------------------------------------------------
(* One request.                                                             *)

Opt(o) == o \in sync.opts
Stable == origin.from = "repo" /\ ~Opt("main")
Frozen == Opt("frozen") \/ (origin.from = "aur" /\ Opt("noaur"))

Answered(status) ==
    [sync EXCEPT !.at = "answered", !.status = status,
                 !.results = [x \in DOMAIN @ \cup {sync.key} |-> IF x = sync.key THEN status ELSE @[x]]]
Answer(status, cache) == sync' = [Answered(status) EXCEPT !.cache = cache]

\* Mutant: a forced request is made again.
KnownUnlessForced == sync.key \in DOMAIN sync.results /\ ~sync.forced

(* A name that was asked before gets the same answer, forced or not.        *)
Known == sync.key \in DOMAIN sync.results

AskedBefore ==
    /\ sync.at = "ask" /\ Known
    /\ sync' = [sync EXCEPT !.at = "answered", !.status = sync.results[sync.key]]
    /\ UNCHANGED <<origin, upstream, release, tree, meta, baseline, pushes, runs>>

(* What ends the request before the network is reached.                     *)
Turned ==
    IF origin.from = "local" THEN "skipped_local"
    ELSE IF origin.from = "aur" /\ Opt("noaur") THEN "skipped_aur_disabled"
    ELSE IF sync.aborted THEN "rate_limited"
    ELSE IF Opt("cleansrc") /\ Present /\ Opt("offline") THEN "skipped_offline"
    ELSE IF Opt("cleansrc") /\ Present /\ Frozen THEN "frozen"
    ELSE IF Opt("cleansrc") /\ Present /\ ~Opt("force") /\ PurgeRefused(tree) THEN "purge_refused"
    ELSE IF Opt("cleansrc") /\ Present THEN Absent
    ELSE IF Opt("offline") THEN "skipped_offline"
    ELSE IF Present /\ ~tree.recipe /\ PurgeRefused(tree) THEN "purge_refused"
    ELSE Absent

Turn ==
    /\ sync.at = "ask" /\ ~Known /\ Turned # Absent
    /\ Answer(Turned, sync.cache)
    /\ UNCHANGED <<origin, upstream, release, tree, meta, baseline, pushes, runs>>

(* --cleansrc, or a checkout that lost its PKGBUILD: it goes, to be cloned. *)
Replaced == Present /\ (Opt("cleansrc") \/ ~tree.recipe)

Purge ==
    /\ sync.at = "ask" /\ ~Known /\ Turned = Absent
    /\ Replaced
    /\ tree' = Absent
    /\ sync' = [sync EXCEPT !.at = "clone", !.cache = IF Opt("cleansrc") THEN NoMeta ELSE @]
    /\ UNCHANGED <<origin, upstream, release, meta, baseline, pushes, runs>>

\* Mutant: HEAD is not compared.
UnmovedBranch ==
    /\ sync.rpc # Absent /\ ~sync.forced /\ ~Opt("cleansrc")
    /\ sync.cache.rpc = sync.rpc /\ tree.git

(* The AUR says what this checkout was synced to, and nothing moved since.  *)
Unmoved ==
    /\ sync.rpc # Absent /\ ~sync.forced /\ ~Opt("cleansrc")
    /\ sync.cache.rpc = sync.rpc /\ sync.cache.head = HeadOf(tree) /\ tree.git

Route ==
    /\ sync.at = "ask" /\ ~Known /\ Turned = Absent /\ ~Replaced
    /\ \/ ~Present /\ sync' = At("clone")
       \/ Present /\ ~Unmoved /\ sync' = At("fetch")
       \/ Present /\ Unmoved
          /\ Answer(IF origin.vcs /\ Frozen THEN "frozen" ELSE "up_to_date", sync.cache)
    /\ UNCHANGED <<origin, upstream, release, tree, meta, baseline, pushes, runs>>

(* Too many requests: the rest of the run is given up only if the penalty   *)
(* is longer than the limit it is configured with.                          *)
TooMany == sync' = [Answered("rate_limited") EXCEPT !.aborted = @ \/ Opt("impatient")]

(* What the cache notes after the checkout moved.                           *)
Noted(t) == [rpc |-> IF origin.from = "aur" THEN sync.rpc ELSE Absent, head |-> HeadOf(t)]

Pinned(t) == [t EXCEPT !.base = release, !.mine = "none", !.tracks = FALSE]

(* A clone of the repositories is pinned to its release; the pin may fail   *)
(* and leave the branch.                                                    *)
Clone ==
    /\ sync.at = "clone"
    /\ \/ /\ Frozen /\ Answer("frozen", sync.cache) /\ UNCHANGED tree
       \/ /\ ~Frozen /\ Answer("failed", sync.cache) /\ UNCHANGED tree
       \/ /\ ~Frozen /\ origin.from = "aur" /\ TooMany /\ UNCHANGED tree
       \/ /\ ~Frozen /\ ~(Stable /\ release # Absent)
          /\ tree' = Fresh(upstream) /\ Answer("cloned", Noted(tree'))
       \/ /\ ~Frozen /\ Stable /\ release # Absent
          /\ \/ tree' = Pinned(Fresh(upstream)) /\ Answer("cloned", Noted(tree'))
             \/ tree' = Fresh(upstream) /\ Answer("failed", sync.cache)
    /\ UNCHANGED <<origin, upstream, release, meta, baseline, pushes, runs>>

(* git_fetch_and_compare and the scheduler's answer to a divergence, of a   *)
(* checkout whose branch was just seen: up to date, moved forward, reset if *)
(* nothing of the user's is in it, or left alone.                           *)
Settled(t) ==
    IF t.mine = "none" /\ t.base = upstream THEN <<"up_to_date", t>>
    ELSE IF t.mine = "none" /\ t.edits = "none" THEN <<"fetched", Fresh(upstream)>>
    ELSE IF ~Dirty(t) THEN <<"fetched", Fresh(upstream)>>
    ELSE <<"diverged", t>>

(* A stable checkout of the repositories follows its release, unless there  *)
(* are edits in it.                                                         *)
Repinned(t) ==
    IF ~Stable \/ release = Absent THEN {<<"up_to_date", t>>}
    ELSE IF Uncommitted(t) THEN {<<"diverged", t>>}
    ELSE {<<IF Pinned(t).base = t.base /\ t.mine = "none" THEN "up_to_date" ELSE "fetched", Pinned(t)>>,
          <<"failed", t>>}

Fetched ==
    IF ~tree.git THEN {<<"not_a_repo", tree>>}
    ELSE IF ~tree.tracks
         THEN IF Stable THEN Repinned(tree) ELSE {<<"no_tracking", tree>>}
         ELSE LET first == Settled([tree EXCEPT !.seen = upstream])
              IN  IF first[1] = "diverged" THEN {first}
                  ELSE {<<IF x[1] = "up_to_date" THEN first[1] ELSE x[1], x[2]>> : x \in Repinned(first[2])}

Fetch ==
    /\ sync.at = "fetch"
    /\ \/ Frozen /\ Answer("frozen", sync.cache) /\ UNCHANGED tree
       \/ ~Frozen /\ tree.git /\ (tree.tracks \/ Stable) /\ Answer("failed", sync.cache) /\ UNCHANGED tree
       \/ ~Frozen /\ tree.git /\ tree.tracks /\ TooMany /\ UNCHANGED tree
       \/ ~Frozen /\ \E x \in Fetched :
             /\ tree' = x[2]
             /\ Answer(CASE x[1] = "not_a_repo" -> "up_to_date" [] x[1] = "no_tracking" -> "skipped_no_tracking"
                         [] OTHER -> x[1],
                       IF x[1] \in {"up_to_date", "fetched"} THEN Noted(x[2]) ELSE sync.cache)
    /\ UNCHANGED <<origin, upstream, release, meta, baseline, pushes, runs>>
-----------------------------------------------------------------------------
(* The verbs.  A build asks before its review, by the name of the package,  *)
(* and again when it is built, by the name of the directory; update asks    *)
(* once for all packages; the kernel stage, like a build without a review,  *)
(* asks by the directory.                                                   *)

Key(name) == IF origin.named THEN "both" ELSE name
Ask(name, forced) == [sync EXCEPT !.at = "ask", !.key = Key(name), !.forced = forced]

Begin(i) ==
    /\ sync.at = "rest" /\ runs < MaxRuns /\ runs' = runs + 1
    /\ sync' = [at |-> IF i.verb = "update" THEN "rpc" ELSE IF "noupdate" \in i.opts THEN "probe" ELSE "ask",
                verb |-> i.verb, opts |-> i.opts, gate |-> i.gate, rpc |-> Absent, aborted |-> FALSE,
                results |-> <<>>, cache |-> meta, status |-> Absent, closed |-> FALSE,
                key |-> Key(IF i.verb = "build" /\ i.gate # "off" THEN "base" ELSE "directory"),
                forced |-> i.verb = "kernel" \/ (i.verb = "build" /\ i.gate = "off"),
                reviewed |-> i.verb # "build" \/ i.gate = "off",
                upstream |-> upstream, release |-> release]
    /\ UNCHANGED <<origin, upstream, release, tree, meta, baseline, pushes>>

(* Without the network, or for a VCS package unless asked, update syncs     *)
(* nothing; else it asks the AUR about every package at once, and may not   *)
(* be answered.                                                             *)
ReadRpc ==
    /\ sync.at = "rpc"
    /\ IF (Opt("offline") /\ ~Opt("cleansrc")) \/ (origin.vcs /\ ~Opt("devel"))
       THEN sync' = At("review")
       ELSE \E told \in {Absent} \cup (IF origin.from = "aur" /\ ~Opt("noaur") /\ ~Opt("offline")
                                       THEN {upstream} ELSE {}) :
               sync' = [Ask("base", FALSE) EXCEPT !.rpc = told]
    /\ UNCHANGED <<origin, upstream, release, tree, meta, baseline, pushes, runs>>

(* Another package of the run met the limit.                                *)
OthersLimited ==
    /\ sync.at = "ask" /\ ~sync.aborted /\ Opt("impatient")
    /\ sync' = [sync EXCEPT !.aborted = TRUE]
    /\ UNCHANGED <<origin, upstream, release, tree, meta, baseline, pushes, runs>>

Blocking == {"failed", "rate_limited", "purge_refused", "frozen", "skipped_aur_disabled"}

(* What is asked before a review only informs it.                           *)
Go ==
    /\ sync.at = "answered"
    /\ \/ sync.verb = "build" /\ ~sync.reviewed /\ sync' = At("review") /\ UNCHANGED meta
       \/ /\ sync.verb = "update"
          /\ meta' = sync.cache
          /\ sync' = [sync EXCEPT !.closed = TRUE, !.at = IF sync.status \in Blocking THEN "end" ELSE "review"]
       \/ /\ sync.reviewed /\ sync.verb # "update" /\ UNCHANGED meta
          /\ \/ sync.status \in Blocking /\ sync' = At("end")
             \/ sync.status \notin Blocking /\ sync' = At(IF sync.verb = "toolchain" THEN "probe" ELSE "build")
             \/ sync.status = "diverged" /\ sync.verb = "kernel" /\ sync' = At("end")
    /\ UNCHANGED <<origin, upstream, release, tree, baseline, pushes, runs>>

Next1 == IF sync.verb = "build" THEN [Ask("directory", TRUE) EXCEPT !.reviewed = TRUE] ELSE At("build")
Differs == HeadOf(tree) \notin {Absent, baseline}

Decisions ==
    IF sync.gate = "off" \/ ~Differs THEN {"clean"}
    ELSE IF sync.gate = "prompt" THEN {"accept", "skip"} ELSE {"accept"}

(* A change is accepted, by the user or the mode, or the package is left    *)
(* out.  The baseline is saved when it is accepted, whatever follows.       *)
Review ==
    /\ sync.at = "review"
    /\ \E decision \in Decisions :
          /\ sync' = IF decision = "skip" THEN At("end") ELSE Next1
          /\ baseline' = IF decision = "accept" THEN HeadOf(tree) ELSE baseline
    /\ UNCHANGED <<origin, upstream, release, tree, meta, pushes, runs>>

Blocked(t, found) == Reported(t) \/ found = "diverged"

(* The toolchain stage fetches once more for its pre-flight, asked to leave *)
(* the sources alone or not: a clean checkout that is behind moves forward. *)
Probed ==
    IF Frozen \/ ~tree.git \/ ~tree.tracks THEN {<<"unmoved", tree>>}
    ELSE LET t == [tree EXCEPT !.seen = upstream]
         IN  {<<"unmoved", tree>>,
              IF t.mine # "none" \/ (t.base # upstream /\ t.edits # "none") THEN <<"diverged", t>>
              ELSE IF t.base = upstream THEN <<"unmoved", t>>
              ELSE <<"unmoved", Fresh(upstream)>>}

(* A blocker ends a strict run that nobody is there to let go on.           *)
Preflight ==
    /\ sync.at = "probe" /\ Present
    /\ \E x \in Probed :
          /\ tree' = x[2]
          /\ sync' = IF sync.gate = "strict" /\ Blocked(tree, x[1])
                     THEN At("end") ELSE At("build")
    /\ UNCHANGED <<origin, upstream, release, meta, baseline, pushes, runs>>

(* Without a checkout there is nothing to build.                            *)
Unresolved ==
    /\ sync.at = "probe" /\ ~Present /\ sync' = At("end")
    /\ UNCHANGED <<origin, upstream, release, tree, meta, baseline, pushes, runs>>

(* makepkg writes the version of a VCS package into its recipe.             *)
Make ==
    /\ sync.at = "build" /\ sync' = At("end")
    /\ tree' = IF Present /\ tree.git /\ origin.vcs /\ tree.edits = "none"
               THEN [tree EXCEPT !.edits = "pkgver"] ELSE tree
    /\ UNCHANGED <<origin, upstream, release, meta, baseline, pushes, runs>>

(* At exit the cache is saved, unless update saved it before.               *)
EndRun ==
    /\ sync.at = "end" /\ sync' = Resting
    /\ meta' = IF sync.closed THEN meta ELSE sync.cache
    /\ UNCHANGED <<origin, upstream, release, tree, baseline, pushes, runs>>

KillRun ==
    /\ sync.at # "rest" /\ sync' = Resting
    /\ UNCHANGED <<origin, upstream, release, tree, meta, baseline, pushes, runs>>

-----------------------------------------------------------------------------
(* Upstream, at any time, and the user, between runs.                       *)

Push ==
    /\ pushes < MaxPushes /\ pushes' = pushes + 1 /\ upstream' = upstream + 1
    /\ UNCHANGED <<origin, release, tree, meta, baseline, sync, runs>>

Publish ==
    /\ release # Absent /\ release' = upstream
    /\ UNCHANGED <<origin, upstream, tree, meta, baseline, sync, pushes, runs>>

Handled(t) ==
    {[t EXCEPT !.edits = "user"], [t EXCEPT !.edits = "none", !.recipe = TRUE],
     [t EXCEPT !.edits = "user", !.recipe = FALSE], [t EXCEPT !.mine = "user", !.edits = "none"],
     [t EXCEPT !.mine = IF t.mine = "none" THEN "other" ELSE @]}
    \cup {[t EXCEPT !.base = c] : c \in 1..(t.base - 1)}

ByHand ==
    /\ sync.at = "rest"
    /\ \/ Present /\ tree' = Absent
       \/ Present /\ tree.git /\ tree' \in Handled(tree)
    /\ UNCHANGED <<origin, upstream, release, meta, baseline, sync, pushes, runs>>

Request == AskedBefore \/ Turn \/ Purge \/ Route \/ Clone \/ Fetch

NextSync ==
    \/ \E i \in Invocations : Begin(i)
    \/ ReadRpc \/ OthersLimited \/ Request \/ Go \/ Review \/ Preflight \/ Unresolved \/ Make \/ EndRun \/ KillRun
    \/ Push \/ Publish \/ ByHand

SyncSpec == InitSync /\ [][NextSync]_syncVars

-----------------------------------------------------------------------------
(* No run takes the user's edits or commits out of a checkout but a forced  *)
(* purge; and, with the network frozen or off, none changes a checkout at   *)
(* all.  Two cases are left out: a checkout pinned to a release is pinned   *)
(* to the next over commits on it, and a directory that is no repository    *)
(* and has no PKGBUILD is removed before the freeze is asked.               *)
Keeps(t, u) ==
    /\ t.edits = "user" => u # Absent /\ u.edits = "user"
    /\ t.mine = "user" => u # Absent /\ u.mine = "user"

PinMoved == sync.at = "fetch" /\ Stable /\ ~tree.tracks /\ tree.edits # "user"

CheckoutSafe ==
    [][sync.at \notin {"rest", "build"} /\ Present =>
          /\ Keeps(tree, tree') \/ (Opt("cleansrc") /\ Opt("force")) \/ PinMoved
          /\ Opt("offline") \/ Frozen => tree' = tree \/ (~tree.git /\ ~tree.recipe)]_syncVars

(* What is reported as up to date, fetched or cloned holds what upstream    *)
(* had when the run began, or the release of it that is followed; what is   *)
(* no repository is reported as up to date without a look.                  *)
FreshOrSaid ==
    sync.at = "answered" /\ sync.status \in {"up_to_date", "fetched", "cloned"} /\ tree.git =>
        tree.base >= IF Stable /\ release # Absent THEN sync.release ELSE sync.upstream

(* With the review on, what is built is what was accepted, though the       *)
(* source may be asked for again after it; a directory that is not called   *)
(* like its package is fetched once more then.                              *)
BuiltIsReviewed ==
    sync.at = "build" /\ sync.gate # "off" /\ sync.verb \in {"update", "build"} =>
        HeadOf(tree) \in {Absent, baseline} \/ ~origin.named

(* A strict toolchain run that nobody watches compiles nothing a purge      *)
(* would keep: the pre-flight's report is never more lenient than it, though *)
(* the sync before it only warns of a divergence.                           *)
PreflightStops ==
    sync.at = "build" /\ sync.verb = "toolchain" /\ sync.gate = "strict" => ~PurgeRefused(tree)

(* What is built is what upstream has, what was accepted, and nothing that  *)
(* the pre-flight had to stop.                                              *)
SourcesSound == FreshOrSaid /\ BuiltIsReviewed /\ PreflightStops
=============================================================================

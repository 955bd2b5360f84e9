------------------------------ MODULE Tracking ------------------------------
(***************************************************************************)
(* What sysforge maintains of one PKGBUILD's members, by the records of     *)
(* build_state.toml, the operator's opt-outs and his overrides in           *)
(* packages.toml: revert-to-stock (revert_cmd.py, verbs/shared.py), state   *)
(* forget, uninstall (uninstall_cmd.py), packages add and remove            *)
(* (packages_cmd.py), build and update (update_assemble.py).  One verb runs *)
(* at a time, and can be killed between any two of its writes.              *)
(***************************************************************************)
EXTENDS Naturals, FiniteSets

CONSTANTS
    Member,      \* the members of the PKGBUILD
    Untracked,   \* no entry, no package
    MaxVerbs     \* bound on the verbs of a behaviour

\* The state of an entry is none of the modes it may have.
ASSUME UntrackedApart == Untracked \notin Member \cup {"plain", "conflict", "coexist", "demoted", "marker"}

\* A package is a member, under its stock name or with the suffix -sysforge.
Package  == [of : Member, own : BOOLEAN]
Stock(m) == [of |-> m, own |-> FALSE]
Own(m)   == [of |-> m, own |-> TRUE]

VARIABLES
    pkgbase,   \* the member that the pkgbase is called after, or Untracked
    foreign,   \* no repo has the stock packages
    present,   \* for each package: "none", "repo" or "own", a source build
    entry,    \* for each package the build_mode of its entry, or Untracked
    optedOut,  \* by stock pkgbase, the names that one decision covers
    overrides, \* the members with an override that is not inert
    task,      \* the verb that is running
    begun,     \* the verbs so far
    given,     \* ghost: the packages the operator gave up
    asked      \* ghost: the package a revert that acted was asked for
trackVars == <<pkgbase, foreign, present, entry, optedOut, overrides, task, begun, given, asked>>

NoTask == [pc |-> "idle"]
Base == Stock(pkgbase)
Modes == {"plain", "conflict", "coexist"}
Target(mode, m) == IF mode = "plain" THEN Stock(m) ELSE Own(m)

Begins == task.pc = "idle" /\ begun < MaxVerbs /\ begun' = begun + 1

InitTrack ==
    /\ pkgbase \in Member \cup {Untracked} /\ foreign \in BOOLEAN
    /\ present = [p \in Package |-> IF p.own THEN "none" ELSE "repo"]
    /\ entry = [p \in Package |-> Untracked] /\ optedOut = [b \in {} |-> {}]
    /\ overrides = {} /\ task = NoTask /\ begun = 0 /\ given = {} /\ asked = {}

Tracked == {p \in Package : entry[p] # Untracked}
Maintained == {p \in Package : entry[p] \in Modes}
Installed == {p \in Package : present[p] # "none"}

\* The pkgbase that an entry names: a marker none, a renamed build its own.
PkgbaseOf(p) ==
    CASE entry[p] \in {Untracked, "marker"} -> {}
      [] entry[p] \in {"plain", "demoted"}  -> {Base}
      [] OTHER                               -> {Own(pkgbase)}
OriginOf(p) == IF entry[p] \in {"conflict", "coexist"} THEN {Base} ELSE {}
Siblings(p) == {q \in Tracked : PkgbaseOf(q) # {} /\ PkgbaseOf(q) = PkgbaseOf(p)}

-----------------------------------------------------------------------------
(* Opt-outs                                                                *)

Covered(p) == \E b \in DOMAIN optedOut : p \in optedOut[b]

\* Mutant: a decision is found by its pkgbase only.
StandingByBase(names) == [b \in {b \in DOMAIN optedOut : b \notin names} |-> optedOut[b]]

\* A decision is dropped as a whole when any of its names is.
Standing(names) == [b \in {b \in DOMAIN optedOut : optedOut[b] \cap names = {}} |-> optedOut[b]]
\* What the operator wants again: not what an earlier decision gave up as well.
TakenBack(names) ==
    LET dropped == {b \in DOMAIN optedOut : optedOut[b] \cap names # {}}
    IN  {p \in given : (\E b \in dropped : p \in optedOut[b]) =>
                        \E b \in DOMAIN optedOut \ dropped : p \in optedOut[b]}

\* Under which pkgbase a decision about an entry is filed.
FiledUnder(p) == IF PkgbaseOf(p) = {} THEN Stock(p.of) ELSE Base

\* Mutant: the decision names the packages that were forgotten.
FiledAsForgotten(gone) ==
    [b \in DOMAIN optedOut \cup {FiledUnder(p) : p \in gone} |->
        {b} \cup (IF b \in DOMAIN optedOut THEN optedOut[b] ELSE {}) \cup {p \in gone : FiledUnder(p) = b}]

\* The decision names them under both spellings, with those it named before.
Filed(gone) ==
    [b \in DOMAIN optedOut \cup {FiledUnder(p) : p \in gone} |->
        {b} \cup (IF b \in DOMAIN optedOut THEN optedOut[b] ELSE {})
            \cup UNION {{p, Stock(p.of)} : p \in {q \in gone : FiledUnder(q) = b}}]

-----------------------------------------------------------------------------
(* forget_packages: the opt-out first, the records after it.               *)

\* What pacman installed over a source build is one no more.
Reconciled(rec) ==
    [p \in Package |-> IF rec[p] \in Modes /\ present[p] = "repo" THEN "demoted" ELSE rec[p]]

ToForget(names) == {p \in Tracked : p \in names \/ PkgbaseOf(p) \cap names # {}}

OptOut ==
    /\ task.pc = "optout"
    /\ LET gone == ToForget(task.names)
       IN  /\ optedOut' = Filed(gone)
           /\ given' = given \cup gone \cup {Stock(p.of) : p \in gone}
           /\ task' = [task EXCEPT !.pc = "forget"]
    /\ UNCHANGED <<pkgbase, foreign, present, entry, overrides, asked, begun>>

ForgetRecords ==
    /\ task.pc = "forget"
    /\ LET left == [p \in Package |-> IF p \in ToForget(task.names) THEN Untracked ELSE entry[p]]
       IN  entry' = IF task.verb = "forget" THEN left ELSE Reconciled(left)
    /\ task' = NoTask /\ asked' = task.asked
    /\ UNCHANGED <<pkgbase, foreign, present, optedOut, overrides, given, begun>>

StateForget ==
    /\ Begins
    /\ \E p \in Package :
          /\ ToForget({p}) # {}
          /\ task' = [pc |-> "optout", verb |-> "forget", names |-> {p}, asked |-> {}]
    /\ UNCHANGED <<pkgbase, foreign, present, entry, optedOut, overrides, given, asked>>

-----------------------------------------------------------------------------
(* revert-to-stock                                                         *)

\* What a name stands for: of several entries the first, whichever that is.
Resolved(p) ==
    IF p \in Tracked THEN {p}
    ELSE IF \E q \in Tracked : OriginOf(q) = {p} THEN {q \in Tracked : OriginOf(q) = {p}}
    ELSE IF ~p.own /\ Own(p.of) \in Tracked THEN {Own(p.of)} ELSE {p}

\* Mutant: the sibling found first, alone.
MembersFound(p) == {p}

\* The members a revert takes with it: of a renamed set all that are installed,
\* and of a plain one when its pkgbase was named.
RevertedWith(p) ==
    IF entry[p] = "coexist" \/ (entry[p] = "plain" /\ p # Base) THEN {p}
    ELSE {p} \cup (Siblings(p) \cap Installed)

\* Stock packages, which replace a renamed drop-in only when told to.
StockInstalled(stocks, replace) ==
    /\ \A s \in stocks : replace \/ entry[Own(s.of)] = "coexist" \/ present[Own(s.of)] = "none"
    /\ present' = [p \in Package |->
          IF p \in stocks THEN "repo"
          ELSE IF replace /\ p.own /\ Stock(p.of) \in stocks THEN "none" ELSE present[p]]

Revert ==
    /\ Begins /\ ~foreign
    /\ \E p \in Package : \E q \in Resolved(p) :
          /\ q \in Maintained
          /\ LET with == RevertedWith(q)
             IN  IF entry[q] = "coexist"
                 THEN /\ present[q] # "none" /\ pkgbase # Untracked
                      /\ present' = [present EXCEPT ![q] = "none"]
                      /\ task' = [pc |-> "restock", verb |-> "revert", names |-> {q},
                                   asked |-> IF Siblings(q) = {q} /\ p \in {Base, Own(pkgbase)} THEN {p} ELSE {}]
                 ELSE /\ StockInstalled({Stock(x.of) : x \in with}, entry[q] = "conflict")
                      /\ task' = [pc |-> "optout", verb |-> "revert", names |-> with,
                                   asked |-> IF \E x \in Siblings(q) \cup {q} : /\ x.of = p.of
                                                                               /\ x \in Installed \cap Maintained
                                               THEN {p} ELSE {}]
    /\ asked' = {}
    /\ UNCHANGED <<pkgbase, foreign, entry, optedOut, overrides, given>>

\* A renamed build beside the stock one: removed first, then its origin again.
Restock ==
    /\ task.pc = "restock" /\ StockInstalled({Base}, FALSE) /\ task' = [task EXCEPT !.pc = "optout"]
    /\ UNCHANGED <<pkgbase, foreign, entry, optedOut, overrides, given, asked, begun>>

-----------------------------------------------------------------------------
(* uninstall, and the user's own pacman                                    *)

Uninstall ==
    /\ Begins
    /\ \E p \in Package : \E q \in Resolved(p) :
          /\ present[q] # "none" /\ present' = [present EXCEPT ![q] = "none"]
          /\ task' = IF q \notin Tracked THEN NoTask
                      ELSE [pc |-> "forget", verb |-> "uninstall", names |-> {q}, asked |-> {}]
    /\ asked' = {}
    /\ UNCHANGED <<pkgbase, foreign, entry, optedOut, overrides, given>>

PacmanInstalls ==
    /\ Begins /\ ~foreign
    /\ \E m \in Member : present[Stock(m)] = "none" /\ StockInstalled({Stock(m)}, FALSE)
    /\ UNCHANGED <<pkgbase, foreign, entry, optedOut, overrides, task, given>> /\ asked' = {}

-----------------------------------------------------------------------------
(* packages add and remove                                                 *)

AddOverride ==
    /\ Begins
    /\ \E m \in Member : /\ overrides' = overrides \cup {m}
                         /\ task' = [pc |-> "clear", names |-> {Stock(m)}]
    /\ UNCHANGED <<pkgbase, foreign, present, entry, optedOut, given>> /\ asked' = {}

LiftOptOut ==
    /\ task.pc = "clear"
    /\ optedOut' = Standing(task.names) /\ given' = TakenBack(task.names) /\ task' = NoTask
    /\ UNCHANGED <<pkgbase, foreign, present, entry, overrides, asked, begun>>

RemoveOverride ==
    /\ Begins /\ \E m \in overrides : overrides' = overrides \ {m}
    /\ UNCHANGED <<pkgbase, foreign, present, entry, optedOut, task, given>> /\ asked' = {}

-----------------------------------------------------------------------------
(* build and update                                                        *)

\* The members get a source build, in place of a stock one but for coexist.
Built(mode, members) ==
    /\ present' = [p \in Package |->
          IF p.of \in members /\ p = Target(mode, p.of) THEN "own"
          ELSE IF mode = "conflict" /\ p.of \in members THEN "none" ELSE present[p]]
    /\ entry' = [p \in Package |->
          IF p # Target(mode, p.of) THEN entry[p] ELSE IF p.of \in members THEN mode ELSE Untracked]

Fits(mode) == \A m \in Member : present[Own(m)] = "own" =>
                  /\ mode # "plain"
                  /\ entry[Own(m)] \in Modes => entry[Own(m)] = mode

StartBuild ==
    /\ Begins
    /\ \E p \in {Stock(m) : m \in Member} :
          LET names == {Base, p}
          IN  /\ optedOut' = Standing(names) /\ given' = TakenBack(names)
              /\ task' = [pc |-> "build", names |-> names]
    /\ UNCHANGED <<pkgbase, foreign, present, entry, overrides>> /\ asked' = {}

FinishBuild ==
    /\ task.pc = "build" /\ task' = NoTask
    /\ \E mode \in Modes : Fits(mode) /\ Built(mode, Member)
    /\ UNCHANGED <<pkgbase, foreign, optedOut, overrides, given, asked, begun>>

\* Markers are added, and the entries of what is gone removed.
SyncedEntries ==
    [p \in Package |-> IF present[p] = "none" THEN Untracked
                      ELSE IF entry[p] = Untracked THEN "marker" ELSE Reconciled(entry)[p]]

\* What update walks, and of it what is built from source.
Walked(after, names) ==
    {p \in Installed : /\ p \in names \/ ~Covered(p)
                       /\ names = {} \/ p \in names
                       /\ foreign \/ p.own \/ p.of \in overrides \/ after[p] \in Modes}

StartUpdate ==
    /\ Begins
    /\ entry' = SyncedEntries
    /\ \E names \in {{}} \cup {{p} : p \in Package} :
          /\ optedOut' = Standing(names) /\ given' = TakenBack(names)
          /\ task' = [pc |-> "planned", names |-> names, plan |-> Walked(SyncedEntries, names)]
    /\ UNCHANGED <<pkgbase, foreign, present, overrides>> /\ asked' = {}

\* Whichever member was planned, what is installed of the set is installed anew.
UpdateBuilds ==
    /\ task.pc = "planned" /\ task.plan # {} /\ task' = NoTask
    /\ \E p \in task.plan :
          LET mode == IF entry[p] \in Modes THEN entry[p] ELSE "plain"
          IN  Fits(mode) /\ Built(mode, {m \in Member : Target(mode, m) \in Installed})
    /\ UNCHANGED <<pkgbase, foreign, optedOut, overrides, given, asked, begun>>

\* Killed or refused, where the verb is.
Abandoned ==
    /\ task.pc # "idle" /\ task' = NoTask
    /\ UNCHANGED <<pkgbase, foreign, present, entry, optedOut, overrides, given, asked, begun>>

NextTrack ==
    \/ OptOut \/ ForgetRecords \/ StateForget \/ Revert \/ Restock \/ Uninstall \/ PacmanInstalls
    \/ AddOverride \/ LiftOptOut \/ RemoveOverride \/ StartBuild \/ FinishBuild
    \/ StartUpdate \/ UpdateBuilds \/ Abandoned

TrackSpec == InitTrack /\ [][NextTrack]_trackVars

-----------------------------------------------------------------------------
(* What was reverted or forgotten is not planned by an update until the    *)
(* operator names it again, however it would be taken in; and what he has  *)
(* built, or asked for in packages.toml, is planned for as long as he did  *)
(* not give it up (update_assemble, opt_out).  The member called like the  *)
(* pkgbase is lost with any sibling: every decision names the pkgbase.     *)
DecisionHolds ==
    task.pc = "planned" /\ task.names = {} =>
        /\ task.plan \cap given = {}
        /\ \A p \in Installed :
              (p \in Maintained \/ (~p.own /\ p.of \in overrides)) /\ p \notin given
                  => p \in task.plan \/ (p = Base /\ given # {})

(* A revert that acted leaves the installed member it was asked for in its *)
(* stock build, with no entry to rebuild that by, and with no renamed one  *)
(* in its place; beside it there may be one (apply_reverts).  Not so for   *)
(* several renamed members that stand beside their stock ones: asked for   *)
(* the pkgbase it may take a sibling's build away, and it always           *)
(* reinstalls the pkgbase.                                                 *)
RevertedIsStock ==
    \A p \in asked : /\ present[Stock(p.of)] = "repo"
                     /\ present[Own(p.of)] = "own" => entry[Own(p.of)] = "coexist"
                     /\ Stock(p.of) \notin Maintained

(* What the operator decided about a package is what later verbs do.        *)
DecisionsSound == DecisionHolds /\ RevertedIsStock
=============================================================================

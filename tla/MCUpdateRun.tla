---------------------------- MODULE MCUpdateRun -----------------------------
(* One application with two members and the compiler, one run at a time; or *)
(* what of one PKGBUILD is maintained, under every verb that decides it; or *)
(* the profile that one package is built with; or what of a build is shown. *)
EXTENDS UpdateRun, Tracking, PackagePgo, Screen, Progress

VARIABLE subject
CONSTANT Subjects   \* of "updates", "tracking", "pgo", "screen" and "progress"

CONSTANTS app, lib, clang

MCBases == {"app", "llvm"}
MCToolchain == {"llvm"}
MCMembersOf == [b \in MCBases |-> IF b = "app" THEN {app, lib} ELSE {clang}]

\* Plain runs, complete ones, previews, and runs over one package.
Plain == [devel |-> FALSE, rebuild |-> FALSE, offline |-> FALSE, dry |-> FALSE,
          names |-> {}, owned |-> FALSE]
MCArgs ==
    {Plain, [Plain EXCEPT !.offline = TRUE, !.rebuild = TRUE],
     [Plain EXCEPT !.devel = TRUE, !.rebuild = TRUE, !.owned = TRUE],
     [Plain EXCEPT !.names = {app}, !.devel = TRUE],
     [Plain EXCEPT !.names = {app}, !.dry = TRUE]}

Tokens == {<<"t">>, <<"w", "c">>, <<"cr">>, <<"nl">>, Reset, Erase, Query, <<"s", "b", "t", "t">>}
MCScripts ==
    {FlattenSeq(x) : x \in UNION {[1..n -> Tokens] : n \in 0..2}}
    \cup {<<"s", "t">>, <<"s", "cr", "s", "b", "t", "t", "cr">> \o Query \o Erase \o <<"t">>,
          <<"s">> \o Reset \o <<"b", "w", "c", "t", "t", "nl", "t">>,
          <<"s", "b", "t", "cr", "t", "cr">> \o Query, <<"w", "c", "e", "[", "q", "w", "c", "nl">>}
MCPlans == {<<>>, <<"a", "b">>}

Updates ==
    \/ \E b \in Bases : Release(b) \/ BuildInstalls(b) \/ BuildFails(b)
    \/ \E b \in Bases, n \in Names : Reinstall(n, b)
    \/ Edit
    \/ \E args \in MCArgs : Start(args)
    \/ Phases

\* The bound is reached and nothing is left to run.
Spent ==
    /\ subject = "tracking" => task.pc = "idle" /\ begun = MaxVerbs
    /\ subject = "pgo" => step.pc = "idle" /\ rounds = MaxRounds
    /\ subject = "screen" => ended
    /\ UNCHANGED <<vars, trackVars, pgoVars, screenVars, progressVars, subject>>

NoBuild == [forward |-> FALSE, reserved |-> FALSE, clip |-> FALSE]

MCInit ==
    /\ Init /\ InitTrack /\ InitPgo /\ InitScreen /\ InitProgress /\ subject \in Subjects
    /\ installed[app] # None /\ (installed[lib] = None => installed[clang] # None /\ kind["app"] = "aur")
    /\ subject # "updates" => kind = [b \in Bases |-> "repo"] /\ \A n \in Names : installed[n] # None
    /\ subject # "tracking" => pkgbase = Untracked /\ ~foreign
    /\ subject # "pgo" => setup = [defaults |-> "gcc", profile |-> "gcc", env |-> NoVersion]
    /\ subject # "screen" => script = <<>> /\ pump = NoBuild /\ cols = 3
    /\ subject # "progress" => mode = "plain"
MCNext ==
    \/ subject = "updates" /\ Updates /\ UNCHANGED <<trackVars, pgoVars, screenVars, progressVars, subject>>
    \/ subject = "tracking" /\ NextTrack /\ UNCHANGED <<vars, pgoVars, screenVars, progressVars, subject>>
    \/ subject = "pgo" /\ NextPgo /\ UNCHANGED <<vars, trackVars, screenVars, progressVars, subject>>
    \/ subject = "screen" /\ NextScreen /\ UNCHANGED <<vars, trackVars, pgoVars, progressVars, subject>>
    \/ subject = "progress" /\ NextProgress /\ UNCHANGED <<vars, trackVars, pgoVars, screenVars, subject>>
    \/ subject # "updates" /\ Spent
MCSpec == MCInit /\ [][MCNext]_<<vars, trackVars, pgoVars, screenVars, progressVars, subject>>
=============================================================================

-------------------------- MODULE MCStageSentinel --------------------------
(* Small instances of StageSentinel: the invocations each run may be.      *)
EXTENDS StageSentinel, TLC

\* A pipeline stage (run toolchain, run packages): gated, arms on entry.
Stage == [gated |-> TRUE, armsOnMutation |-> FALSE, attended |-> TRUE,
          recovery |-> TRUE, user |-> "me", scopes |-> 1]

\* run pipeline: two stages with a scope of their own, no recovery command.
Pipeline == [Stage EXCEPT !.recovery = FALSE, !.scopes = 2]

\* build, update: gated, arms at the first change.
Verb == [Stage EXCEPT !.armsOnMutation = TRUE, !.recovery = FALSE]

\* uninstall, revert-to-stock: not gated, so its scope asks.
Ungated == [Verb EXCEPT !.gated = FALSE, !.recovery = TRUE]

Unattended(k) == [k EXCEPT !.attended = FALSE]

As(u, k) == [k EXCEPT !.user = u]

SequentialKinds == {Stage, Pipeline, Verb, Ungated, Unattended(Ungated),
                    As("root", Stage), As("other", Verb)}
AttendedKinds   == {Pipeline, Verb, Ungated}

RunSymmetry == Permutations(Run)
=============================================================================

--------------------------- MODULE MCBuildInstall ---------------------------
(* An instance of BuildInstall for TLC: a split package a, a2 and a package *)
(* b that is built after it, in two worlds.                                 *)
EXTENDS BuildInstall

CONSTANTS a, a2, b

\* a and a2 are the members of a; b is built after a.
MCBaseOf == [n \in Name |-> IF n = a2 THEN a ELSE n]
MCDepsOf == [x \in Base |-> IF x = b THEN {a} ELSE {}]

\* One world has every verb, kills and the user's pacman over one version of
\* the split package (packages are removed between two verbs only); the other
\* has batches of both packages over two versions.
VARIABLE world

MCInit == Init /\ world \in {"split", "batch"}

MCNext ==
    /\ \/ /\ world = "split" /\ Next
          /\ ver' = ver /\ b \notin queue'
          /\ pc # "idle" => present \subseteq present'
       \/ world = "batch" /\ (BuildVerb \/ InstallBuilt \/ \E x \in Base : NewVersion(x))
    /\ UNCHANGED world

MCSpec == MCInit /\ [][MCNext]_<<vars, world>>
=============================================================================

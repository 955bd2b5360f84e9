---------------------------- MODULE StateRepair ----------------------------
(***************************************************************************)
(* state repair (state_cmd.py): the records of one PKGBUILD directory, some *)
(* of them written when the parser did not expand variables, are rewritten  *)
(* from the PKGBUILD.  The directories are independent of one another.      *)
(*                                                                          *)
(* A group g has the records by key, the broken one read first, and what    *)
(* the PKGBUILD says now: its members, none when it is gone, not parsed,   *)
(* or has a variable that still cannot be expanded.                         *)
(***************************************************************************)
EXTENDS Question

\* A member under its stock name or renamed, or a name with a variable in it.
Key(m, own) == [of |-> m, own |-> own]
Variable == "$"

\* A record: the pkgbase it names ("stock", "own" or Variable), a version with
\* or without a variable, the name a rename came from, the build mode, and in
\* "rest" everything else a build left there, told apart by its package.
Broken(g, k) == Variable \in {k.of, g.records[k].base, g.records[k].version}

-----------------------------------------------------------------------------
(* The PKGBUILD's members.                                                 *)

Skipped(g) == g.listed = {} \/ \A k \in DOMAIN g.records : ~Broken(g, k)

\* Mutant: the first broken record is everyone's source.
SourceFirst(g, m) == g.records[g.first]

\* What a member's record is made from.
Source(g, m) ==
    LET own == {k \in DOMAIN g.records : k.of = m}
    IN  IF own = {} THEN g.records[g.first]
        ELSE IF Key(m, FALSE) \in own THEN g.records[Key(m, FALSE)] ELSE g.records[Key(m, TRUE)]

\* A member stays renamed, and is taken for renamed if its source was.
StillRenamed(g, m) ==
    /\ Key(m, FALSE) \notin DOMAIN g.records
    /\ Key(m, TRUE) \in DOMAIN g.records \/ Source(g, m).origin

Target(g, m) == Key(m, StillRenamed(g, m))

\* Pass 2, for every record: the names of build modes before 3.0.0 are replaced.
Normal(r) == [r EXCEPT !.mode = IF @ = "legacy" THEN "source_built" ELSE @]

Created(g, m) ==
    [Normal(Source(g, m)) EXCEPT
        !.version = "now",
        !.base = IF ~StillRenamed(g, m) THEN "stock" ELSE IF @ # Variable THEN @ ELSE "own"]

\* Kept beside them: renamed packages with nothing broken in them.
Kept(g) == {k \in DOMAIN g.records : ~Broken(g, k) /\ g.records[k].origin}

Repaired(g) ==
    IF Skipped(g) THEN [k \in DOMAIN g.records |-> Normal(g.records[k])]
    ELSE LET targets == {Target(g, m) : m \in g.listed}
         IN  [k \in targets \cup Kept(g) |->
                IF k \in targets THEN Created(g, k.of) ELSE Normal(g.records[k])]
-----------------------------------------------------------------------------
(* A group as it is read: some record is broken, names of members are       *)
(* expanded, and a member is under its own name if it was renamed.          *)
Fields == {"base", "version", "origin", "mode", "rest"}

GroupRead(g) ==
    /\ \A k \in DOMAIN g.records :
         /\ k = Key(k.of, k.own) /\ k.own \in BOOLEAN
         /\ g.records[k] = [f \in Fields |-> g.records[k][f]]
         /\ g.records[k].mode \in {"legacy", "source_built"} /\ g.records[k].origin \in BOOLEAN
         /\ k.of # Variable => g.records[k].origin = k.own
    /\ g.first \in DOMAIN g.records /\ Broken(g, g.first)
    /\ Variable \notin g.listed

(* A repair loses nothing that a later verb acts on: what a record says     *)
(* besides its version is still said of the same package, or, where no      *)
(* record had its name, taken from another of the group; a renamed package  *)
(* stays one, under one key, and none is taken for the stock package; every *)
(* member has a record, and no variable is left in any (cmd_state_repair).  *)
(* Left out: a broken record of a renamed member whose stock name has a     *)
(* record too, which goes.                                                  *)
Keeps(g, new) ==
    LET old == g.records
        Both(k) == k.own /\ Key(k.of, FALSE) \in DOMAIN old /\ Broken(g, k)
    IN  /\ \A k \in DOMAIN new : new[k].mode = "source_built"
        /\ \A k \in DOMAIN old \cap DOMAIN new : new[k].rest = old[k].rest
        /\ \A k \in DOMAIN old : old[k].origin /\ k.of # Variable /\ ~Both(k)
             /\ (g.listed = {} \/ k.of \in g.listed \/ ~Broken(g, k)) => k \in DOMAIN new
        /\ \A k \in DOMAIN new \ DOMAIN old :
             k.own = new[k].origin /\ Key(k.of, ~k.own) \notin DOMAIN old
        /\ g.listed # {} =>
             /\ \A m \in g.listed : \E k \in DOMAIN new : k.of = m
             /\ \A k \in DOMAIN new : ~Broken([records |-> new], k)

ComputeRepair == Answer("repair", Repaired(input))

(* A repair loses nothing that a later verb acts on, of any group           *)
(* (cmd_state_repair).                                                      *)
RepairKeeps == Answered("repair") => Keeps(input, output)
=============================================================================

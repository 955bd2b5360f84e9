------------------------------ MODULE DepOrder ------------------------------
(***************************************************************************)
(* What is built before what: the AUR dependencies of the targets          *)
(* (primitives/aur_resolve.py), what a refused review takes with it        *)
(* (build_core.prepare_deps), the directories that are built               *)
(* (build/aur_deps.py), and the order of the targets themselves            *)
(* (build_core._order_targets_by_intra_deps).                              *)
(*                                                                         *)
(* A world w tells of every name where it comes from, w.from, what it      *)
(* needs, w.needs, a sequence, and the directory of its PKGBUILD, w.dir;   *)
(* w.names are the names in alphabetical order, w.provides what each       *)
(* target provides.                                                        *)
(***************************************************************************)
EXTENDS Naturals, FiniteSets, SequencesExt, Question

Nothing == [visited |-> {}, order |-> <<>>, requiredBy |-> <<>>, busy |-> {}, cycle |-> FALSE]

Distinct(s) == FoldLeft(LAMBDA t, x : IF x \in ToSet(t) THEN t ELSE Append(t, x), <<>>, s)

With(requiredBy, n, parents) ==
    [x \in DOMAIN requiredBy \cup {n} |-> IF x = n THEN parents ELSE requiredBy[x]]

(* The names of one parent: what was visited gains a requirer, what is no   *)
(* AUR package is noted, and the AUR packages follow one by one, each with  *)
(* everything below it first.  The list of them is made before the first    *)
(* is entered.                                                              *)
RECURSIVE Resolve(_, _, _, _)
Resolve(w, specs, parent, st) ==
    LET known  == ToSet(specs) \cap st.visited
        plain  == {n \in ToSet(specs) \ st.visited : w.from[n] # "aur"}
        noted  == [st EXCEPT !.visited = @ \cup plain,
                     !.requiredBy = [n \in DOMAIN st.requiredBy \cup plain |->
                                       CASE n \in plain -> {parent}
                                         [] n \in known -> st.requiredBy[n] \cup {parent}
                                         [] OTHER       -> st.requiredBy[n]]]
        Enter(s, n) ==
            IF s.cycle THEN s
            ELSE IF n \in s.busy THEN [s EXCEPT !.cycle = TRUE]
            ELSE LET below == Resolve(w, w.needs[n], n, [s EXCEPT !.busy = @ \cup {n}])
                 IN  IF below.cycle THEN below
                     ELSE [below EXCEPT !.busy = @ \ {n}, !.visited = @ \cup {n},
                              !.requiredBy = With(@, n, {parent}), !.order = Append(@, n)]
    IN  FoldLeft(Enter, noted,
                 SelectSeq(Distinct(specs), LAMBDA n : w.from[n] = "aur" /\ n \notin st.visited))

ResolveBatch(w, targets) ==
    FoldLeft(LAMBDA st, t : Resolve(w, w.needs[t], t, st), Nothing, targets)

\* Mutant: only the direct requirers go.
DirectRequirers(requiredBy, names, seeds) ==
    seeds \cup UNION {requiredBy[n] : n \in seeds \cap names}

(* The seeds and what transitively requires one of them, as far as the      *)
(* remaining dependencies tell.                                             *)
RequirerClosure(requiredBy, names, seeds) ==
    LET Grow[k \in Nat, found \in SUBSET (names \cup DOMAIN requiredBy \cup UNION Range(requiredBy) \cup seeds)] ==
            LET next == found \cup UNION {requiredBy[n] : n \in found \cap names}
            IN  IF k = 0 \/ next = found THEN found ELSE Grow[k - 1, next]
    IN  Grow[Cardinality(names), seeds]

(* A PKGBUILD that makes several of the dependencies is built once, where   *)
(* the first of them stands.                                                *)
ByDirectory(w, names) ==
    LET dirs == Distinct([i \in DOMAIN names |-> w.dir[names[i]]])
    IN  [i \in DOMAIN dirs |-> [dir |-> dirs[i],
                                names |-> {n \in ToSet(names) : w.dir[n] = dirs[i]}]]

(* Before the targets: a cycle leaves every dependency to makepkg.  What    *)
(* is built itself is no dependency.  With changed sources that are refused *)
(* go all that require them, targets too; one failure ends the rest.        *)
PrepareDeps(w, targets, building, changed, failing) ==
    LET st   == ResolveBatch(w, targets)
        deps == SelectSeq(st.order, LAMBDA n : n \notin building)
        gone == IF changed = {} THEN {} ELSE RequirerClosure(st.requiredBy, ToSet(deps), changed)
        dirs == ByDirectory(w, SelectSeq(deps, LAMBDA n : n \notin gone))
        bad  == {i \in DOMAIN dirs : dirs[i].dir \in failing}
        stop == IF bad = {} THEN Len(dirs) ELSE Min(bad) - 1
    IN  IF st.cycle THEN [built |-> <<>>, refused |-> {}, resolved |-> st]
        ELSE [built |-> SubSeq(dirs, 1, stop), refused |-> gone, resolved |-> st]

(* Targets that depend on one another: Kahn's order over the packages each  *)
(* provides, from the first target mentioned; a cycle leaves the order as   *)
(* it was.                                                                  *)
IntraDeps(w, targets) ==
    [t \in ToSet(targets) |->
        {u \in ToSet(targets) \ {t} : w.provides[u] \cap ToSet(w.needs[t]) # {}}]

OrderTargets(w, targets) ==
    LET deps == IntraDeps(w, targets)
        mentioned == Distinct(FoldLeft(LAMBDA s, t : Append(s, t) \o SelectSeq(w.names, LAMBDA u : u \in deps[t]),
                                       <<>>, targets))
        Ready(done, s) == SelectSeq(s, LAMBDA t : deps[t] \subseteq done)
        Emit[k \in Nat, out \in Seq(ToSet(targets)), queue \in Seq(ToSet(targets))] ==
            IF k = 0 \/ queue = <<>> THEN out
            ELSE LET done == ToSet(out) \cup {Head(queue)}
                     free == SelectSeq(targets, LAMBDA t : /\ t \notin done /\ t \notin ToSet(queue)
                                                           /\ Head(queue) \in deps[t]
                                                           /\ deps[t] \subseteq done)
                 IN  Emit[k - 1, Append(out, Head(queue)), Tail(queue) \o free]
        order == Emit[Len(targets), <<>>, Ready({}, mentioned)]
    IN  IF Len(order) < Len(targets) THEN targets ELSE order

-----------------------------------------------------------------------------
ComputeDeps ==
    Answer("deps", PrepareDeps(input.w, input.targets, input.building, input.changed, input.failing))
ComputeTargets == Answer("targets", OrderTargets(input.w, input.targets))
=============================================================================

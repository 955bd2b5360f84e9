------------------------------- MODULE Patcher -------------------------------
(***************************************************************************)
(* The patched copy a package is built from (primitives/                   *)
(* pkgbuild_patcher.py, and build/makepkg_wrapper.py, which calls it): the *)
(* flags moved out of it, the drivers and targets it is reduced to, the    *)
(* kernel's documentation taken out, and the -sysforge names.              *)
(*                                                                         *)
(* A PKGBUILD is seen from each of these sides by itself: as lines that    *)
(* assign flags, as commands with arguments, as make lines with their      *)
(* words, and as members with relations.  A name is a sequence of words:   *)
(* <<"linux", "headers">> is linux-headers.                                *)
(***************************************************************************)
EXTENDS Integers, Sequences, SequencesExt, FiniteSets, FiniteSetsExt, Question

CONSTANTS Unset

-----------------------------------------------------------------------------
(* Flags.  A line is in a function, or at the top level, and is an          *)
(* assignment of tokens to a key ("set" or "add"), an "if", a "fi", or      *)
(* "other".  The tokens are Unset where the shell computes them.            *)

Assigns(line) == line.kind \in {"set", "add"}

\* Mutant: a conditional ends at the first fi.
EndsFirst(lines, i) ==
    LET closing == {j \in i..Len(lines) : lines[j].kind = "fi"}
    IN  IF closing = {} THEN Len(lines) ELSE Min(closing)

\* The end of the conditional that opens at i.
Ends(lines, i) ==
    LET Opened(j) == Cardinality({h \in i..j : lines[h].kind = "if"})
                     - Cardinality({h \in i..j : lines[h].kind = "fi"})
        closing == {j \in i..Len(lines) : Opened(j) = 0}
    IN  IF closing = {} THEN Len(lines) ELSE Min(closing)

\* Conditionals that assign a flag, from the first line on.
Conditionals(lines) ==
    LET from[i \in 1..(Len(lines) + 1)] ==
          IF i > Len(lines) THEN {}
          ELSE IF lines[i].kind # "if" THEN from[i + 1]
          ELSE from[Ends(lines, i) + 1] \cup
               (IF \E j \in i..Ends(lines, i) : Assigns(lines[j]) THEN {i..Ends(lines, i)} ELSE {})
    IN  from[1]

Stripped(lines) ==
    LET gone == UNION Conditionals(lines) \cup {i \in DOMAIN lines : Assigns(lines[i])}
    IN  [i \in 1..Cardinality(DOMAIN lines \ gone) |->
            lines[CHOOSE j \in DOMAIN lines \ gone : Cardinality({h \in 1..j : h \notin gone}) = i]]

\* Mutant: an assignment of a function replaces what other functions gave.
ExtractedLast(lines, functions) ==
    FoldLeft(LAMBDA all, line :
               IF line.in \notin ToSet(functions) \/ ~Assigns(line) \/ line.tokens \in {Unset, <<>>} THEN all
               ELSE [all EXCEPT ![line.key] = IF line.kind = "set" THEN line.tokens ELSE all[line.key] \o line.tokens],
             [k \in {l.key : l \in ToSet(lines)} |-> <<>>], lines)

(* Within a function an assignment replaces what came before it, if it      *)
(* gives any token that can be told.                                        *)
FunctionGives(lines, f, k) ==
    FoldLeft(LAMBDA have, line :
               IF line.in # f \/ ~Assigns(line) \/ line.key # k \/ line.tokens \in {Unset, <<>>} THEN have
               ELSE IF line.kind = "set" THEN line.tokens ELSE have \o line.tokens,
             <<>>, lines)

\* The functions are added up.
Extracted(lines, functions) ==
    [k \in {l.key : l \in ToSet(lines)} |->
        FoldLeft(LAMBDA all, f : all \o FunctionGives(lines, f, k), <<>>, functions)]

-----------------------------------------------------------------------------
(* Drivers and targets.                                                     *)

\* Mutant: only what is detected is completed.
TargetsUnchecked(o, h) ==
    IF o.explicit = {} THEN Unset
    ELSE IF o.explicit # Unset THEN o.explicit
    ELSE LET found == IF h.profile # Unset THEN h.profile ELSE h.detected
         IN  IF found = {} THEN Unset ELSE found \cup {"AMDGPU"} \cup h.consumed

(* LLVM's targets: the operator's list, else the hardware profile's, else   *)
(* what is found, with what mesa and every installed consumer need; an      *)
(* empty list, like nothing found, is every target (Unset).                 *)
Targets(o, h) ==
    LET found == IF o.explicit # Unset THEN o.explicit
                 ELSE IF h.profile # Unset THEN h.profile ELSE h.detected
    IN  IF found = {} THEN Unset ELSE found \cup {"AMDGPU"} \cup h.consumed

Software == [gallium |-> {"llvmpipe", "softpipe", "zink"}, vulkan |-> {"swrast"}]
Axes == {"gallium", "vulkan"}

(* mesa's drivers, for each axis the operator's or else the profile's; with *)
(* one axis missing in both, both are detected.                             *)
Drivers(o, h) ==
    IF ~o.filter THEN Unset
    ELSE LET noted == [a \in Axes |-> IF o.own[a] # Unset THEN o.own[a] ELSE h.noted[a]]
             live == [a \in Axes |-> IF o.own[a] # Unset THEN o.own[a] ELSE h.live[a] \cup Software[a]]
             found == IF \A a \in Axes : noted[a] # Unset THEN noted ELSE live
         IN  [a \in Axes |-> found[a] \cup Software[a]]

\* rusticl is left with drivers that are built.
RusticlOf(rusticl, gallium) ==
    IF rusticl = Unset THEN Unset
    ELSE IF rusticl \cap gallium = {} THEN {"auto"} ELSE rusticl \cap gallium

(* mesa's options: an axis with a name that is no driver is left alone.     *)
Trimmed(mesa, drivers, known) ==
    LET Takes(a) == mesa[a] # Unset /\ drivers[a] \subseteq known
    IN  [gallium |-> IF Takes("gallium") THEN drivers["gallium"] ELSE mesa["gallium"],
         vulkan  |-> IF Takes("vulkan") THEN drivers["vulkan"] ELSE mesa["vulkan"],
         rusticl |-> IF drivers["gallium"] \subseteq known THEN RusticlOf(mesa.rusticl, drivers["gallium"])
                     ELSE mesa.rusticl]

\* The patched options pass, if any was patched.
TrimAccepted(mesa, trimmed) ==
    trimmed = mesa \/ \A a \in Axes : trimmed[a] # Unset /\ "all" \notin trimmed[a] /\ Software[a] \subseteq trimmed[a]

-----------------------------------------------------------------------------
(* Commands: each a kind ("configure", "action" for cmake --build and its   *)
(* like, "array" for an element of an array, "comment"), its arguments, and *)
(* the words after a comment sign or a separator.  An argument sets an      *)
(* option to a value.                                                       *)

Arguments(c) == c.args \cup c.rest
Configures(commands) == {i \in DOMAIN commands : commands[i].kind = "configure"}

\* Mutant: the argument goes to the end of the line.
WithArgumentLast(c, arg) ==
    IF c.rest = {} THEN [c EXCEPT !.args = @ \cup {arg}] ELSE [c EXCEPT !.rest = @ \cup {arg}]

WithArgument(c, arg) == [c EXCEPT !.args = @ \cup {arg}]

Replaced(S, option, arg) == {a \in S : a.option # option} \cup {arg}

(* -DLLVM_TARGETS_TO_BUILD and -DLLVM_DIR: the first that is there gets the *)
(* value, else the first configure command gets the argument.               *)
Injected(commands, option, value) ==
    LET arg == [option |-> option, value |-> value]
        Sets(S) == \E a \in S : a.option = option
        there == {i \in DOMAIN commands : Sets(Arguments(commands[i]))}
    IN  IF there # {}
        THEN [commands EXCEPT ![Min(there)] =
                IF Sets(@.args) THEN [@ EXCEPT !.args = Replaced(@, option, arg)]
                ELSE [@ EXCEPT !.rest = Replaced(@, option, arg)]]
        ELSE IF Configures(commands) = {} THEN commands
        ELSE [commands EXCEPT ![Min(Configures(commands))] = WithArgument(@, arg)]

Managed == {"targets", "dir"}

(* What passes: every managed argument is one of a cmake command.           *)
Attached(commands) ==
    \A i \in DOMAIN commands : \A a \in Arguments(commands[i]) :
        a.option \in Managed => commands[i].kind \in {"configure", "action"} /\ a \in commands[i].args

(* A standalone clang's build tools keep the run path of the staged libLLVM.*)
KeepsRunPath(commands) ==
    [i \in DOMAIN commands |-> [commands[i] EXCEPT !.args =
        {IF a = [option |-> "skiprpath", value |-> "on"] THEN [a EXCEPT !.option = "skipinstall"] ELSE a : a \in @}]]

\* The commands of one build, for an option that stays away when Unset.
Configured(commands, targets, dir) ==
    LET one == IF targets = Unset THEN commands ELSE Injected(commands, "targets", targets)
    IN  IF dir = Unset THEN one ELSE KeepsRunPath(Injected(one, "dir", dir))

-----------------------------------------------------------------------------
(* make lines of the kernel: the words after make, each "doc" for a goal of *)
(* the documentation, "goal" for another, "opt" for a flag or a variable,   *)
(* "op" for an operator or redirection of the shell, "bg" for an "&" at the *)
(* end, "word" for anything that follows an operator.                       *)

Goals(words) == SelectSeq(words, LAMBDA w : w \in {"goal", "word"})

\* The goals stand together, and nothing but an "&" follows them.
OnlyDocs(words) ==
    /\ \A i \in DOMAIN words : words[i] \in {"doc", "opt"} \/ (words[i] = "bg" /\ i = Len(words))
    /\ \A i, j \in DOMAIN words : words[i] = "doc" /\ words[j] = "doc" => \A h \in i..j : words[h] = "doc"

\* Mutant: an "&" is a goal.
NeutralizedCountingAnd(words) ==
    IF ~Contains(words, "doc") THEN words
    ELSE IF Goals(words) # <<>> \/ Contains(words, "bg") THEN SelectSeq(words, LAMBDA w : w # "doc")
    ELSE IF OnlyDocs(words) THEN <<"comment">> ELSE words

(* A line of the documentation only is a comment, or a job that does        *)
(* nothing in its place; of any other the documentation's goals are gone.   *)
Neutralized(words) ==
    IF ~Contains(words, "doc") THEN words
    ELSE IF Goals(words) # <<>> THEN SelectSeq(words, LAMBDA w : w # "doc")
    ELSE IF OnlyDocs(words) THEN IF Contains(words, "bg") THEN <<"true &">> ELSE <<"comment">>
    ELSE words

-----------------------------------------------------------------------------
(* Names.  A package is a base or none, members that are literal names or,  *)
(* with ref, parts added to $pkgbase; the members with a function of their  *)
(* own; the global relations and those a function assigns or adds to.       *)
(* Members added by a later line, pkgname+=(...), are in added: the parser  *)
(* does not read it.                                                        *)

Relations == {"provides", "conflicts", "replaces"}

Members(p) == [i \in DOMAIN p.members |-> IF p.members[i].ref THEN p.base \o p.members[i].name ELSE p.members[i].name]
Base(p) == IF p.base = Unset THEN Members(p)[1] ELSE p.base

\* makepkg's reading: an assignment in a function hides the global one.
Claims(p, name, relation) ==
    IF name \notin DOMAIN p.own THEN p.global[relation]
    ELSE LET own == p.own[name][relation]
         IN  (IF own.set = Unset THEN p.global[relation] ELSE own.set) \cup own.add

\* Subpackages that are not wanted.
Dropped(p, parts) ==
    LET Kept(members) == SelectSeq(members, LAMBDA m : m.name = <<>> \/ Last(m.name) \notin parts)
    IN  [p EXCEPT !.members = Kept(@), !.added = Kept(@)]

Suffixed(name) == IF Last(name) = "sysforge" THEN name ELSE Append(name, "sysforge")
Rebased(name, old, new) == FlattenSeq([i \in DOMAIN name |-> IF <<name[i]>> = old THEN new ELSE <<name[i]>>])

\* Mutant: the global relations are for everyone.
DropInGlobal(p, names) ==
    [p EXCEPT !.global = [r \in Relations |-> p.global[r] \cup names]]

(* A member with a function claims its stock name there, the others in the  *)
(* global relations.                                                        *)
DropIn(p, names) ==
    LET Own(n, r) == LET own == p.own[n][r]
                     IN  [own EXCEPT !.set = (IF own.set = Unset THEN {} ELSE own.set) \cup {n}]
    IN  [p EXCEPT !.global = [r \in Relations |-> p.global[r] \cup (names \ DOMAIN p.own)],
                  !.own = [n \in DOMAIN p.own |->
                             IF n \in names THEN [r \in Relations |-> Own(n, r)] ELSE p.own[n]]]

Renamed(p, NewOf(_), mode, already) ==
    IF already THEN [p |-> p, names |-> <<>>]
    ELSE LET names == Members(p)
             claimed == IF mode = "conflict" THEN DropIn(p, ToSet(names)) ELSE p
             Function(n) == IF n \in ToSet(names) THEN NewOf(n) ELSE n
         IN  [p |-> [claimed EXCEPT
                       !.base = IF @ = Unset THEN Unset ELSE NewOf(@),
                       !.members = [i \in DOMAIN @ |-> IF @[i].ref THEN @[i] ELSE [@[i] EXCEPT !.name = NewOf(@)]],
                       !.own = [m \in {Function(n) : n \in DOMAIN claimed.own} |->
                                  claimed.own[CHOOSE n \in DOMAIN claimed.own : Function(n) = m]]],
              names |-> [i \in DOMAIN names |-> NewOf(names[i])]]

WithSuffix(p, mode) == Renamed(p, Suffixed, mode, Last(Base(p)) = "sysforge")
WithBase(p, new) == Renamed(p, LAMBDA n : Rebased(n, Base(p), new), "coexist", Base(p) = new)

(* What passes: the names are the computed ones, or at least carry the      *)
(* suffix; no function kept its old name; in conflict mode every stock name *)
(* is claimed, as far as the functions' assignments tell.                   *)
RenameAccepted(p, q, names, suffix, mode) ==
    LET Told(n, r) == IF n \in DOMAIN q.own /\ q.own[n][r].set # Unset THEN q.own[n][r].set ELSE q.global[r]
    IN  /\ \A i \in DOMAIN names :
              /\ IF suffix THEN Contains(Members(q)[i], "sysforge") ELSE Members(q)[i] \in ToSet(names)
              /\ Members(p)[i] # names[i] /\ names[i] \notin DOMAIN q.own => Members(p)[i] \notin DOMAIN q.own
              /\ mode = "conflict" => \A r \in Relations : Members(p)[i] \in Told(names[i], r)
        /\ suffix /\ q.base # Unset => Contains(q.base, "sysforge")
-----------------------------------------------------------------------------
(* What is asked of them: the flags and what is left of the lines; drivers  *)
(* and targets; a command; make lines; and the names, given twice.          *)

NameResult(r) ==
    LET p == IF r.docs THEN r.p ELSE Dropped(r.p, {"docs"})
        based == IF r.do = "suffix" THEN [p |-> p, names |-> <<>>] ELSE WithBase(p, <<"mine">>)
        done == IF r.do = "rename" THEN based ELSE WithSuffix(based.p, r.mode)
        again == IF r.do = "rename" THEN WithBase(done.p, <<"mine">>) ELSE WithSuffix(done.p, r.mode)
    IN  [before |-> IF r.do = "both" THEN based.p ELSE p, after |-> done.p, names |-> done.names, again |-> again.p,
         accepted |-> /\ RenameAccepted(p, based.p, based.names, FALSE, "coexist")
                      /\ r.do # "rename" => RenameAccepted(based.p, done.p, done.names, TRUE, r.mode)]

DriversResult(r) ==
    LET drivers == Drivers(r.o, r.h)
        mesa == IF drivers = Unset THEN r.mesa ELSE Trimmed(r.mesa, drivers, r.known)
    IN  [targets |-> Targets(r.o, r.h), mesa |-> mesa, accepted |-> TrimAccepted(r.mesa, mesa)]

ComputeFlagLines ==
    Answer("flagLines", [left |-> Stripped(input), flags |-> Extracted(input, <<"prepare", "build">>)])
ComputeDrivers == Answer("drivers", DriversResult(input))
ComputeCommands == Answer("commands", Configured(input.commands, input.targets, input.dir))
ComputeMakes == Answer("makes", Neutralized(input))
ComputeNames == Answer("names", NameResult(input))

(* The flags that leave the PKGBUILD are the flags the profile gets.  Every *)
(* line that assigns one is gone, and every conditional that does, and      *)
(* nothing else (apply_patch_pkgbuild); the profile has, in order, what     *)
(* each function would have given, had its conditions held                  *)
(* (extract_pkgbuild_profile), though neither what the shell computes nor   *)
(* what the top level assigns.                                              *)
FlagsMoveIntact ==
    Answered("flagLines") =>
        LET lines == input
            Depth(i) == Cardinality({h \in 1..i : lines[h].kind = "if"})
                        - Cardinality({h \in 1..(i - 1) : lines[h].kind = "fi"})
            Opens(i) == lines[i].kind = "if" /\ Depth(i) = 1
            Together(i, j) == /\ i <= j /\ \A h \in i..j : Depth(h) > 0
                              /\ \A h \in (i + 1)..j : ~Opens(h)
            Goes(i) == \E j \in DOMAIN lines : Assigns(lines[j]) /\ (i = j \/ Together(i, j) \/ Together(j, i))
            Given(i) == /\ Assigns(lines[i]) /\ lines[i].in # "top" /\ lines[i].tokens # Unset
                        /\ \A j \in (i + 1)..Len(lines) :
                              ~(lines[j].kind = "set" /\ lines[j].tokens # Unset /\ lines[j].in = lines[i].in)
            all == [i \in DOMAIN lines |-> i]
        IN  /\ output.left = FoldLeft(LAMBDA left, i : IF Goes(i) THEN left ELSE Append(left, lines[i]),
                                      <<>>, all)
            /\ output.flags["CFLAGS"] = SelectSeq(all, Given)

HostServed ==
    Answered("drivers") =>
        LET built == output.mesa
            wrong(a) == input.o.own[a] # Unset /\ ~(input.o.own[a] \subseteq input.known)
            missing == input.mesa.gallium = Unset
        IN  /\ output.targets # Unset => {"AMDGPU"} \cup input.h.consumed \subseteq output.targets
            /\ input.o.explicit = {} => output.targets = Unset
            /\ ~input.o.filter => built = input.mesa
            /\ ~output.accepted => missing \/ wrong("gallium") \/ wrong("vulkan")
            /\ output.accepted /\ built # input.mesa =>
                 /\ \A a \in Axes : Software[a] \subseteq built[a] /\ built[a] \subseteq input.known
                 /\ built.rusticl # Unset => built.rusticl \subseteq built.gallium \cup {"auto"}

Option(option, value) == [option |-> option, value |-> value]

CommandServed ==
    Answered("commands") =>
        LET wanted == [targets |-> input.targets, dir |-> input.dir]
            Had(o) == {i \in DOMAIN output : \E a \in Arguments(input.commands[i]) : a.option = o}
            first == Configures(input.commands)
        IN  /\ [i \in DOMAIN output |-> output[i].rest] = [i \in DOMAIN input.commands |-> input.commands[i].rest]
            /\ \A o \in Managed : wanted[o] # Unset /\ (first \cup Had(o)) # {} =>
                 LET at == IF Had(o) # {} THEN Min(Had(o)) ELSE Min(first)
                 IN  Option(o, wanted[o]) \in output[at].args
            /\ ~Attached(output) =>
                 \E o \in Managed : \E i \in Had(o) : input.commands[i].kind \in {"array", "comment"}

MakeServed ==
    Answered("makes") =>
        LET Alone == {<<"comment">>, <<"true &">>}
            real == SelectSeq(input, LAMBDA w : w \in {"goal", "op", "word", "bg"})
        IN  /\ output \in Alone => ~Contains(input, "goal")
            /\ output \notin Alone =>
                 /\ SelectSeq(output, LAMBDA w : w \in {"goal", "op", "word", "bg"}) = real
                 /\ output # input => Contains(input, "goal") \/ Contains(input, "word")
            /\ Contains(input, "bg") => output # <<"comment">>

(* What is patched does what it is patched for, or is refused before        *)
(* anything is built.  A filtered libLLVM has the backends of every         *)
(* installed consumer, from whatever source the list came, and a filtered   *)
(* mesa a software renderer, and rusticl only for drivers that are built; a *)
(* misspelt driver of the operator's leaves its axis as it was, which the   *)
(* validation then refuses if the other axis was rewritten.  An argument    *)
(* reaches a configure command, before any comment or separator, or the one *)
(* place that has it already.  And make lines without documentation build   *)
(* what they built: none is left without a goal, which would build the      *)
(* kernel a second time, but one whose operator is followed by a file or a  *)
(* command, taken for a goal.                                               *)
PatchedOrRefused == HostServed /\ CommandServed /\ MakeServed

(* A renamed package takes the place of the stock one, or stands beside it. *)
(* Each member has a new name, the one that is recorded, and the function   *)
(* makepkg looks for; in conflict mode it provides, conflicts with and      *)
(* replaces its own stock name and claims all it claimed itself; else it    *)
(* claims what it did.  To do it again changes nothing (_patch_rename).     *)
(* Left out: what a member inherited that had a function and assigned       *)
(* nothing, which the assignment added to its function hides; and a member  *)
(* written through $pkgbase, whose suffix stands after the base while its   *)
(* function and its record have it at the end.                              *)
MembersReplaceStock ==
    Answered("names") /\ output.names # <<>> =>
        LET p == output.before
            q == output.after
            conflict == input.do # "rename" /\ input.mode = "conflict"
        IN  /\ output.accepted /\ output.again = q
            /\ \A i \in DOMAIN p.members : ~p.members[i].ref \/ input.do = "rename" \/ p.members[i].name = <<>> =>
                 LET stock == Members(p)[i]
                     new == Members(q)[i]
                     own == stock \in DOMAIN p.own
                 IN  /\ new = output.names[i]
                     /\ own <=> new \in DOMAIN q.own
                     /\ input.do # "rename" => new # stock
                     /\ ~conflict => \A r \in Relations : Claims(q, new, r) = Claims(p, stock, r)
                     /\ conflict =>
                          \A r \in Relations :
                              /\ stock \in Claims(q, new, r)
                              /\ IF own THEN /\ p.own[stock][r].add \subseteq Claims(q, new, r)
                                             /\ p.own[stock][r].set # Unset => p.own[stock][r].set \subseteq Claims(q, new, r)
                                             /\ Claims(q, new, r) \subseteq Claims(p, stock, r) \cup {stock}
                                 ELSE Claims(p, stock, r) \subseteq Claims(q, new, r)

(* A patched PKGBUILD does what the patches are for, or is refused.         *)
RecipesSound == PatchedOrRefused /\ FlagsMoveIntact /\ MembersReplaceStock
=============================================================================

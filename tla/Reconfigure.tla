----------------------------- MODULE Reconfigure -----------------------------
(***************************************************************************)
(* The checkpoint before the build stages (pipeline/stages/reconfigure.py):*)
(* its steps and gates, the editor that is resolved, picked, installed and *)
(* written to up to three files (primitives/editor.py, env_persist.py),    *)
(* and what the next login and the next run make of them.                  *)
(***************************************************************************)
EXTENDS Naturals, FiniteSets, SequencesExt

CONSTANTS
    NoEditor,      \* no command
    Editors,       \* the commands an operator may name
    Detected,      \* of those, the ones that are tried last, in order
    Answers,       \* what an operator types at the menu: <<first, last>>, ...
    SystemFiles,   \* contents of /etc/environment to start from
    UserFiles,     \* contents of ~/.zshenv to start from
    MaxStages      \* bound on the runs of the stage

Lines == [var : {"EDITOR", "VISUAL", "other"}, form : {"bare", "export", "split"},
          value : Editors \cup {NoEditor}, note : BOOLEAN]

ASSUME NoEditorApart == NoEditor \notin Editors
ASSUME DetectedTyped == Detected \in Seq(Editors)
ASSUME FilesTyped == SystemFiles \cup UserFiles \subseteq Seq(Lines)

VARIABLES
    onPath,   \* the editors that are installed
    conf,     \* sysforge.toml: [editor, tables, parses]
    files,    \* [system, user]: lines [var, form, value, note]
    sf,       \* what the shell exports as SYSFORGE_EDITOR
    env,      \* of the process: [sf, editor, visual]
    broken,   \* the config files that do not parse
    run,      \* [pc, todo, editor, asked, standalone, prev, for, left]
    pick,     \* the pick of the run: [editor, declined, saved, warned]
    stages    \* the runs of the stage
reconfVars == <<onPath, conf, files, sf, env, broken, run, pick, stages>>

NeedsEditor == {"config", "makepkg"}
ConfigFiles == {"profiles", "packages"}
Targets == {"sysforge", "system", "user"}
NoPick == [editor |-> NoEditor, declined |-> FALSE, saved |-> {}, warned |-> FALSE]
Waiting == [pc |-> "idle", todo |-> <<>>, editor |-> NoEditor, asked |-> TRUE, standalone |-> FALSE,
         prev |-> NoEditor, for |-> "none", left |-> {}]

-----------------------------------------------------------------------------
(* The menu                                                                *)

\* The steps that change anything; the others stand in "makepkg".
StepKeys == <<"editor", "config", "makepkg">>

\* A token is a step's number or name <<n, n>>, a range, or what is neither.
Valid(token) == token[1] >= 1 /\ token[1] <= token[2] /\ token[2] <= Len(StepKeys)

\* Everything for no answer, nothing if there is a 0 in it; a step asked for
\* twice is run once, where it came first.
Selected(answer) ==
    IF answer = <<>> THEN StepKeys
    ELSE IF <<0, 0>> \in ToSet(answer) THEN <<>>
    ELSE FoldLeft(LAMBDA done, token :
                      IF ~Valid(token) THEN done
                      ELSE done \o SelectSeq(SubSeq(StepKeys, token[1], token[2]), LAMBDA key : key \notin ToSet(done)),
                  <<>>, answer)

\* With no token that is valid the menu asks again.
Understood(answer) == answer = <<>> \/ \E i \in DOMAIN answer : answer[i] = <<0, 0>> \/ Valid(answer[i])

-----------------------------------------------------------------------------
(* The editor                                                              *)

Usable(e) == e \in onPath

\* SYSFORGE_EDITOR, sysforge.toml, $EDITOR, $VISUAL, what is found.
Chain == <<env.sf, IF conf.parses THEN conf.editor ELSE NoEditor, env.editor, env.visual>> \o Detected

FirstOf(set) == CHOOSE i \in set : \A j \in set : i <= j
LastOf(set) == CHOOSE i \in set : \A j \in set : i >= j

Resolved == LET rungs == {i \in DOMAIN Chain : Usable(Chain[i])}
            IN  IF rungs = {} THEN NoEditor ELSE Chain[FirstOf(rungs)]

-----------------------------------------------------------------------------
(* The files                                                               *)

\* The forms of an assignment that a plan finds, and what it writes.
Found(file) == IF file = "system" THEN {"bare", "split"} ELSE {"export", "split"}
Written(file) == IF file = "system" THEN "bare" ELSE "export"

Hits(file, var) == {i \in DOMAIN files[file] : files[file][i].var = var /\ files[file][i].form \in Found(file)}

\* A comment on the line counts as part of the value.
Current(file, var, e) ==
    /\ Hits(file, var) # {}
    /\ LET line == files[file][LastOf(Hits(file, var))] IN line.value = e /\ ~line.note

Line(file, var, e) == [var |-> var, form |-> Written(file), value |-> e, note |-> FALSE]
Added(file, var, e) == IF Hits(file, var) = {} THEN <<Line(file, var, e)>> ELSE <<>>

\* Mutant: the last assignment is rewritten, what was before it stays behind it.
PlanRewritesOnly(file, e) ==
    LET text == files[file]
        first(i) == i \in Hits(file, text[i].var) /\ i = FirstOf(Hits(file, text[i].var))
    IN  IF \A var \in {"EDITOR", "VISUAL"} : Current(file, var, e) THEN text
        ELSE [i \in DOMAIN text |-> IF text[i].var # "other" /\ first(i) THEN Line(file, text[i].var, e) ELSE text[i]]
             \o Added(file, "EDITOR", e) \o Added(file, "VISUAL", e)

\* Both variables or neither: the first assignment of each is rewritten, the
\* others are dropped (a line that assigns neither stands in their place),
\* and what is missing is added.
Plan(file, e) ==
    LET text == files[file]
        line(i) == IF text[i].var = "other" \/ i \notin Hits(file, text[i].var) THEN text[i]
                   ELSE IF i = FirstOf(Hits(file, text[i].var)) THEN Line(file, text[i].var, e)
                   ELSE Line(file, "other", NoEditor)
    IN  IF \A var \in {"EDITOR", "VISUAL"} : Current(file, var, e) THEN text
        ELSE [i \in DOMAIN text |-> line(i)] \o Added(file, "EDITOR", e) \o Added(file, "VISUAL", e)

\* What a login makes of the files: in each the last assignment decides.  PAM
\* reads the first, and takes the rest of a split line for the value; zsh the
\* second, where a bare assignment reaches only what is exported already.
FromPam(var) ==
    LET set == {i \in DOMAIN files.system : files.system[i].var = var}
    IN  IF set = {} \/ files.system[LastOf(set)].form = "split" THEN NoEditor
        ELSE files.system[LastOf(set)].value
FromLogin(var) ==
    LET of(i) == files.user[i].var = var
        exports(i) == of(i) /\ files.user[i].form # "bare"
        set == {i \in DOMAIN files.user : of(i) /\ (FromPam(var) # NoEditor \/ \E j \in 1..i : exports(j))}
    IN  IF set = {} THEN FromPam(var) ELSE files.user[LastOf(set)].value

-----------------------------------------------------------------------------
InitReconf ==
    /\ onPath \in SUBSET Editors
    /\ \E had \in {NoEditor} \cup Editors, tables \in BOOLEAN :
          conf = [editor |-> had, tables |-> tables, parses |-> TRUE]
    /\ files \in [system : SystemFiles, user : UserFiles]
    /\ sf \in {NoEditor} \cup Editors /\ broken \in SUBSET ConfigFiles
    /\ env = [sf |-> sf, editor |-> FromLogin("EDITOR"), visual |-> FromLogin("VISUAL")]
    /\ run = Waiting /\ pick = NoPick /\ stages = 0

Login ==
    /\ run.pc \in {"done", "aborted"} /\ run' = Waiting
    /\ env' = [sf |-> sf, editor |-> FromLogin("EDITOR"), visual |-> FromLogin("VISUAL")]
    /\ UNCHANGED <<onPath, conf, files, sf, broken, pick, stages>>

\* A run nobody can answer runs every step.
StartReconf ==
    /\ run.pc = "idle" /\ stages < MaxStages /\ stages' = stages + 1
    /\ \E asked, standalone \in BOOLEAN, answer \in Answers :
          /\ Understood(answer) /\ (asked \/ answer = <<>>)
          /\ run' = [Waiting EXCEPT !.pc = "steps", !.todo = Selected(answer), !.editor = Resolved,
                                 !.asked = asked, !.standalone = standalone]
    /\ pick' = NoPick
    /\ UNCHANGED <<onPath, conf, files, sf, env, broken>>

-----------------------------------------------------------------------------
(* Picking one                                                             *)

Picks(prev, for) == [run EXCEPT !.pc = "pick", !.prev = prev, !.for = for]

\* Nobody to ask, or nothing picked: a gate aborts, the step goes on with
\* what it had.
Cancel ==
    /\ run.pc = "pick"
    /\ run' = IF run.for = "step" THEN [run EXCEPT !.pc = "steps", !.editor = run.prev] ELSE [run EXCEPT !.pc = "aborted"]
    /\ UNCHANGED <<onPath, conf, files, sf, env, broken, pick, stages>>

\* A package is installed on the way; one whose command is no known editor
\* may be declined after that.
InstallEditor ==
    /\ run.pc = "pick" /\ run.asked
    /\ \E e \in Editors \ onPath : (e # run.prev \/ run.prev = NoEditor) /\ onPath' = onPath \cup {e}
    /\ UNCHANGED <<conf, files, sf, env, broken, run, pick, stages>>

\* Mutant: the pick stays with the stage.
AdoptLocally(e) == UNCHANGED env

\* The pick is exported to the rest of the process, saved or not.
AdoptEditor(e) == env' = [env EXCEPT !.sf = e]

Accept ==
    /\ run.pc = "pick" /\ run.asked
    /\ \E e \in onPath \ {run.prev} :
          /\ AdoptEditor(e)
          /\ pick' = [NoPick EXCEPT !.editor = e]
          /\ run' = [run EXCEPT !.pc = "targets", !.editor = e]
    /\ UNCHANGED <<onPath, conf, files, sf, broken, stages>>

\* What was selected decides the warning: sysforge.toml outranks $EDITOR.
Shadowed(e, selected) ==
    /\ "sysforge" \notin selected /\ selected # {}
    /\ conf.parses /\ conf.editor \notin {NoEditor, e}

\* Where the stage goes once the pick is dealt with.
After == IF run.for = "handover" THEN "confirm" ELSE "steps"

SelectTargets ==
    /\ run.pc = "targets"
    /\ \E selected \in SUBSET Targets :
          /\ pick' = [pick EXCEPT !.declined = "sysforge" \in selected, !.warned = Shadowed(pick.editor, selected)]
          /\ run' = [run EXCEPT !.pc = IF selected = {} THEN After ELSE "save", !.left = selected]
    /\ UNCHANGED <<onPath, conf, files, sf, env, broken, stages>>

\* The whole file is written anew from what was read of it, one value per
\* line: a table within a section comes out as no TOML.  What does not parse
\* is read as nothing.
SaveConf(e) ==
    conf' = IF conf.parses THEN [conf EXCEPT !.editor = e, !.parses = ~conf.tables]
            ELSE [editor |-> e, tables |-> FALSE, parses |-> TRUE]

\* One target after the other, each confirmed, declined or failing by itself.
SaveOne ==
    /\ run.pc = "save"
    /\ \E to \in run.left :
          /\ run' = [run EXCEPT !.left = @ \ {to}, !.pc = IF run.left = {to} THEN After ELSE "save"]
          /\ \/ UNCHANGED <<conf, files, pick>>
             \/ /\ IF to = "sysforge" THEN SaveConf(pick.editor) /\ UNCHANGED files
                   ELSE files' = [files EXCEPT ![to] = Plan(to, pick.editor)] /\ UNCHANGED conf
                /\ pick' = [pick EXCEPT !.saved = @ \cup {to}, !.declined = @ /\ to # "sysforge"]
    /\ UNCHANGED <<onPath, sf, env, broken, stages>>

-----------------------------------------------------------------------------
(* The steps                                                               *)

Needs(key) == key \in NeedsEditor /\ ~Usable(run.editor)

\* Before a step that opens files there is an editor, or the stage ends.
GateStep ==
    /\ run.pc = "steps" /\ run.todo # <<>> /\ Needs(Head(run.todo))
    /\ run' = Picks(run.editor, "gate")
    /\ UNCHANGED <<onPath, conf, files, sf, env, broken, pick, stages>>

\* The editor step resolves anew; a pick is offered to whoever can answer.
EditorStep ==
    /\ run.pc = "steps" /\ run.todo # <<>> /\ Head(run.todo) = "editor"
    /\ \/ run' = [run EXCEPT !.todo = Tail(@), !.editor = Resolved]
       \/ /\ run.asked
          /\ run' = [Picks(Resolved, "step") EXCEPT !.todo = Tail(@)]
    /\ UNCHANGED <<onPath, conf, files, sf, env, broken, pick, stages>>

\* Files are opened, and left broken or repaired; one that fails its check
\* is opened again, left, or ends the stage.
ConfigStep ==
    /\ run.pc = "steps" /\ run.todo # <<>> /\ Head(run.todo) = "config" /\ ~Needs("config")
    /\ broken' \in IF run.asked THEN SUBSET ConfigFiles ELSE {broken}
    /\ \/ run' = [run EXCEPT !.todo = Tail(@)]
       \/ "profiles" \in broken' /\ run.asked /\ run' = [run EXCEPT !.pc = "aborted"]
    /\ UNCHANGED <<onPath, conf, files, sf, env, pick, stages>>

\* makepkg.conf is filled in and opened; the other steps only look.
OtherStep ==
    /\ run.pc = "steps" /\ run.todo # <<>> /\ Head(run.todo) \notin {"editor", "config"}
    /\ ~Needs(Head(run.todo))
    /\ run' = [run EXCEPT !.todo = Tail(@)]
    /\ UNCHANGED <<onPath, conf, files, sf, env, broken, pick, stages>>

\* Mutant: what is handed over is not checked again.
ValidatedAtEdit == TRUE

\* Every file that a later stage reads is parsed again.
Validated == broken = {}

\* After the last step: the files, then an editor for the build stages.
Handover ==
    /\ run.pc = "steps" /\ run.todo = <<>>
    /\ run' = IF ~Validated THEN [run EXCEPT !.pc = "aborted"]
              ELSE IF Usable(Resolved) \/ run.standalone \/ ~run.asked THEN [run EXCEPT !.pc = "confirm"]
              ELSE Picks(Resolved, "handover")
    /\ UNCHANGED <<onPath, conf, files, sf, env, broken, pick, stages>>

Confirm ==
    /\ run.pc = "confirm"
    /\ \/ run' = [run EXCEPT !.pc = "done"]
       \/ run.asked /\ ~run.standalone /\ run' = [run EXCEPT !.pc = "aborted"]
    /\ UNCHANGED <<onPath, conf, files, sf, env, broken, pick, stages>>

NextReconf ==
    \/ Login \/ StartReconf \/ Cancel \/ InstallEditor \/ Accept \/ SelectTargets \/ SaveOne
    \/ GateStep \/ EditorStep \/ ConfigStep \/ OtherStep \/ Handover \/ Confirm

CheckpointSpec == InitReconf /\ [][NextReconf]_reconfVars

-----------------------------------------------------------------------------
(* Whatever steps were selected and in whatever order, the stage hands over *)
(* config files that parse and, unless nobody could answer or nothing runs  *)
(* after it, an editor that resolves; and from a pick to the end of the run *)
(* what resolves anew is the pick (_gate_editor_for_pipeline,               *)
(* _adopt_editor, _validate_all_configs).                                   *)
HandoverSound ==
    /\ run.pc = "done" => /\ broken = {}
                          /\ run.asked /\ ~run.standalone => Usable(Resolved)
    /\ run.pc # "idle" /\ pick.editor # NoEditor => Resolved = pick.editor

\* Lines that a login applies otherwise than a plan reads them.
Misread(file) ==
    \E i \in DOMAIN files[file] : files[file][i].form \notin IF file = "system" THEN {"bare"} ELSE {"export", "split"}

(* A pick that was saved is what the next login's runs resolve, unless the  *)
(* operator was warned of a higher rung.  Not so with SYSFORGE_EDITOR in    *)
(* the shell, with a selected sysforge.toml that was then declined, with     *)
(* lines that a plan does not look for or takes for what they are not, or   *)
(* with the user's file over the system's: nothing warns of those; nor when *)
(* sysforge.toml was left unreadable (_offer_persist_editor, plan_write).   *)
PickSettles ==
    run.pc = "idle" /\ pick.saved # {} /\ Usable(pick.editor) /\ conf.parses /\ ~Usable(sf) =>
        \/ Resolved = pick.editor \/ pick.warned
        \/ pick.declined
        \/ "sysforge" \notin pick.saved /\ Misread("user")
        \/ pick.saved = {"system"} /\ (Misread("system") \/ files.user # <<>>)

(* The editor that was picked is the one in force, then and at the next     *)
(* login.                                                                   *)
EditorSound == HandoverSound /\ PickSettles
=============================================================================

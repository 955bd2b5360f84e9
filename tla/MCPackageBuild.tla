--------------------------- MODULE MCPackageBuild ---------------------------
(* Builds of one package, the local repo its dependencies come from, the   *)
(* checkout it is built in, a file that sysforge manages, the              *)
(* checkpoint before the build stages, a library and what links it, the    *)
(* files of PKGDEST, or the lookup of a recipe.                            *)
EXTENDS PackageBuild, LocalRepo, SourceSync, Artifacts, Reconfigure, LibraryAbi, BuiltArtifacts, RecipeLookup

VARIABLE subject
CONSTANTS Subjects,   \* of "build", "repo", "sync", "file", "checkpoint", "library", "archive" and "lookup"
    nano, htop

Host == [cc |-> "clang", choice |-> None, row |-> "keep", batch |-> TRUE, interactive |-> FALSE,
         installs |-> FALSE, force |-> FALSE, owned |-> FALSE, policy |-> FALSE,
         override |-> None, cap |-> {"mem"}, scope |-> TRUE]
Box == [Host EXCEPT !.policy = TRUE]
MCRequests ==
    {Host, Box,
     [Host EXCEPT !.batch = FALSE, !.interactive = TRUE, !.installs = TRUE, !.force = TRUE, !.scope = FALSE],
     [Host EXCEPT !.override = TRUE, !.cap = {"cpu"}, !.scope = FALSE, !.batch = FALSE],
     [Box EXCEPT !.override = FALSE, !.choice = "gcc", !.row = "save"],
     [Box EXCEPT !.batch = FALSE, !.installs = TRUE, !.cap = {}, !.row = "reset"],
     [Host EXCEPT !.owned = TRUE, !.override = TRUE],
     [Box EXCEPT !.owned = TRUE, !.override = TRUE]}

MCOrigins ==
    {[from |-> "aur", vcs |-> FALSE, named |-> TRUE], [from |-> "aur", vcs |-> TRUE, named |-> FALSE],
     [from |-> "repo", vcs |-> FALSE, named |-> TRUE], [from |-> "local", vcs |-> FALSE, named |-> TRUE]}
MCInvocations ==
    {[verb |-> "update", opts |-> {}, gate |-> "prompt"],
     [verb |-> "update", opts |-> {"cleansrc", "impatient", "devel"}, gate |-> "accept"],
     [verb |-> "update", opts |-> {"offline"}, gate |-> "off"],
     [verb |-> "build", opts |-> {}, gate |-> "prompt"],
     [verb |-> "build", opts |-> {"cleansrc", "force", "main"}, gate |-> "off"],
     [verb |-> "build", opts |-> {"frozen"}, gate |-> "accept"],
     [verb |-> "update", opts |-> {"noaur", "cleansrc"}, gate |-> "prompt"],
     [verb |-> "kernel", opts |-> {"main"}, gate |-> "off"],
     [verb |-> "toolchain", opts |-> {"main"}, gate |-> "strict"],
     [verb |-> "toolchain", opts |-> {"main", "noupdate"}, gate |-> "strict"]}

Assigns(var, form, editor) == [var |-> var, form |-> form, value |-> editor, note |-> FALSE]
MCDetected == <<nano>>
\* "", "1-2 0", "1 3 9", "3 2-3"
MCAnswers == {<<>>, << <<1, 2>>, <<0, 0>> >>, << <<1, 1>>, <<3, 3>>, <<9, 9>> >>, << <<3, 3>>, <<2, 3>> >>}
MCSystemFiles ==
    {<<Assigns("EDITOR", "bare", nano), Assigns("EDITOR", form, htop)>> : form \in {"bare", "export"}}
    \cup {<<Assigns("EDITOR", "split", htop), Assigns("VISUAL", "split", htop)>>}
MCUserFiles ==
    {<<>>, <<Assigns("EDITOR", "export", htop), [Assigns("VISUAL", "export", nano) EXCEPT !.note = TRUE],
             Assigns("EDITOR", "split", htop)>>}

MCUses == [c \in {"gallium", "tool"} |-> {"init", "std", IF c = "gallium" THEN "api" ELSE "cxx"}]
FromSource(v, syms, old) == [ver |-> v, source |-> TRUE, syms |-> syms, old |-> old]
MCLibraryBuilds ==
    {FromSource(1, {"init", "api"}, {}), FromSource(1, {"init", "api"}, {"std"}),
     FromSource(1, {"std", "api"}, {}), FromSource(2, {"init", "api"}, {"std"})}

MCMembers == {<<"foo">>, <<"foo", "doc">>}
MCNeighbours == {<<"foo", "tools">>}
MCTexts == <<"v1", "v2">>

PlainConf == conf = [editor |-> NoEditor, tables |-> FALSE, parses |-> TRUE]

MCInit ==
    /\ Init /\ InitRepo /\ InitSync /\ InitFile /\ InitReconf /\ InitAbi /\ InitArtifacts
    /\ InitLookup /\ subject \in Subjects
    /\ subject # "archive" => recipe = [ver |-> 1, vcs |-> FALSE, mode |-> "plain"]
    /\ subject # "lookup" => target = [kind |-> "aur", split |-> FALSE]
    /\ subject # "sync" => tree = Absent /\ origin.from = "local"
    /\ IF subject = "checkpoint" THEN /\ htop \in onPath => nano \in onPath
            /\ conf.tables => conf.editor # nano
            /\ broken = {} /\ (sf # NoEditor => conf.editor = NoEditor /\ files.user = <<>>)
       ELSE PlainConf /\ onPath = {} /\ env = [sf |-> NoEditor, editor |-> htop, visual |-> NoEditor] /\ broken = {}
            /\ files.system[2] = Assigns("EDITOR", "bare", htop) /\ files.user = <<>>
allVars == <<vars, repoVars, syncVars, fileVars, reconfVars, abiVars, artVars, lookupVars, subject>>
MCNext ==
    \/ subject = "build" /\ Next /\ UNCHANGED <<repoVars, syncVars, fileVars, reconfVars, abiVars, artVars, lookupVars, subject>>
    \/ subject = "repo" /\ NextRepo /\ UNCHANGED <<vars, syncVars, fileVars, reconfVars, abiVars, artVars, lookupVars, subject>>
    \/ subject = "sync" /\ NextSync /\ UNCHANGED <<vars, repoVars, fileVars, reconfVars, abiVars, artVars, lookupVars, subject>>
    \/ subject = "file" /\ NextFile /\ UNCHANGED <<vars, repoVars, syncVars, reconfVars, abiVars, artVars, lookupVars, subject>>
    \/ subject = "library" /\ NextAbi /\ UNCHANGED <<vars, repoVars, syncVars, fileVars, reconfVars, artVars, lookupVars, subject>>
    \/ subject = "checkpoint" /\ NextReconf /\ UNCHANGED <<vars, repoVars, syncVars, fileVars, abiVars, artVars, lookupVars, subject>>
    \/ subject = "archive" /\ NextArtifacts /\ UNCHANGED <<vars, repoVars, syncVars, fileVars, reconfVars, abiVars, lookupVars, subject>>
    \/ subject = "lookup" /\ NextLookup
       /\ UNCHANGED <<vars, repoVars, syncVars, fileVars, reconfVars, abiVars, artVars, subject>>
MCSpec == MCInit /\ [][MCNext]_allVars
=============================================================================

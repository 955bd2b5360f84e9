------------------------- MODULE PackageBuildProofs -------------------------
(***************************************************************************)
(* The build of one package and the parts around it that the run            *)
(* `package_build` checks: the local repo, the lookup of a recipe, the      *)
(* managed files, the checkout a package is built in, the build itself,     *)
(* what links a library, and the archive of built files.  Each section      *)
(* names the inductive invariant of its part, shows that every action keeps *)
(* it, and reads the part's property off it.                                *)
(***************************************************************************)
EXTENDS PackageBuild, LocalRepo, RecipeLookup, SourceSync, Artifacts, LibraryAbi, BuiltArtifacts,
        SequenceTheorems, TLAPS

-----------------------------------------------------------------------------
(* The local repo.  RepoInv says what an entry names between the steps of a *)
(* sync: a file that is there, and the one it was made of unless the sync   *)
(* is just adding it or one ended there; and whose version it is, from the  *)
(* entry's writing to the end of the process, in which the host moves on.   *)

RepoTyped ==
    /\ made \in Nat
    /\ dest \in [Versions -> Nat \cup {Missing}]
    /\ host \in Versions \cup {Missing} /\ mirrored \in Versions \cup {Missing}
    /\ file \in [Versions -> Nat \cup {Missing}]
    /\ db \in [v : Versions, sum : Nat] \cup {Missing}
    /\ own \in BOOLEAN /\ torn \in BOOLEAN
    /\ pc \in {"start", "add", "drop", "remove", "synced"}

\* What the host runs is what the repo is to have.
Follows == own /\ host # Missing /\ db # Missing /\ db.v = host

RepoInv ==
    /\ RepoTyped
    /\ db # Missing => file[db.v] # Missing
    /\ db # Missing /\ pc # "add" => torn \/ file[db.v] = db.sum
    /\ pc = "add" => Desired # Missing /\ file[Desired] = dest[Desired]
    /\ pc = "drop" => Follows
    /\ pc = "remove" => db # Missing
    /\ pc \in {"add", "drop", "remove"} => mirrored = IF own THEN host ELSE Missing
    /\ pc = "synced" /\ db # Missing => db.v = mirrored

LEMMA RepoInit == InitRepo => RepoInv
<1> SUFFICES ASSUME InitRepo PROVE RepoInv
  OBVIOUS
<1>1. RepoTyped
  BY DEF InitRepo, RepoTyped
<1> QED  BY <1>1 DEF InitRepo, RepoInv

LEMMA RepoStep == RepoInv /\ [NextRepo]_repoVars => RepoInv'
<1> SUFFICES ASSUME RepoInv, [NextRepo]_repoVars PROVE RepoInv'
  OBVIOUS
<1> USE MissingApart DEF RepoInv, RepoTyped, Follows
<1>1. ASSUME NEW v \in Versions, Build(v) \/ Prune(v) \/ Install(v) PROVE RepoInv'
  BY <1>1 DEF Build, Prune, Install, World
<1>2. CASE Uninstall \/ Owned
  BY <1>2 DEF Uninstall, Owned, World
<1>3. CASE Link
  <2>1. CASE ToAdd
    BY <1>3, <2>1 DEF Link, ToAdd, Desired, Published
  <2>2. CASE ~ToAdd /\ ToRemove
    BY <1>3, <2>2 DEF Link, ToRemove, Desired
  <2>3. CASE ~ToAdd /\ ~ToRemove
    <3>1. db # Missing => Follows
      BY <2>3 DEF ToAdd, ToRemove, Desired, Published, KeptInRepo
    <3> QED  BY <1>3, <2>3, <3>1 DEF Link
  <2> QED  BY <2>1, <2>2, <2>3
<1>4. CASE Add
  <2>1. /\ Desired = host /\ host \in Versions /\ own /\ host # Missing /\ file[host] \in Nat
        /\ db' = [v |-> host, sum |-> file[host]] /\ UNCHANGED <<made, dest, host, own, file, mirrored>>
        /\ torn' = FALSE /\ mirrored = host
    BY <1>4 DEF Add, Desired
  <2>2. db' # Missing /\ db'.v = host /\ file'[db'.v] = db'.sum /\ file'[db'.v] # Missing
    BY <2>1
  <2>3. pc' \in {"drop", "synced"}
    BY <1>4 DEF Add
  <2>4. db' \in [v : Versions, sum : Nat]
    BY <2>1
  <2>5. RepoTyped'
    BY <2>1, <2>3, <2>4
  <2> QED  BY <2>1, <2>2, <2>3, <2>5
<1>5. CASE Drop
  BY <1>5 DEF Drop
<1>6. CASE Unpublish
  BY <1>6 DEF Unpublish
<1>7. CASE EndSync
  BY <1>7 DEF EndSync
<1>8. CASE UNCHANGED repoVars
  BY <1>8 DEF repoVars, Desired
<1> QED  BY <1>1, <1>2, <1>3, <1>4, <1>5, <1>6, <1>7, <1>8 DEF NextRepo

(* PublishedIsInstalled (primitives/local_repo.py): every container of a    *)
(* run is offered what the host ran when the run synced, whatever was       *)
(* built, pruned, installed, removed or killed before the sync or after it. *)
THEOREM RepoServesInstalled == RepoSpec => []PublishedIsInstalled
<1>1. RepoInv => PublishedIsInstalled
  BY DEF RepoInv, PublishedIsInstalled, Follows
<1> QED  BY <1>1, RepoInit, RepoStep, PTL DEF RepoSpec

-----------------------------------------------------------------------------
(* The lookup.  LookupInv says that what the scheduler remembers is no      *)
(* obstacle: a recipe it was asked for is there, or a tree it may not touch, *)
(* unless a request was not answered.                                       *)

Answers == {"cloned", "failed", "refused", "frozen"}

LookupTyped ==
    /\ target \in [kind : {"repo", "aur"}, split : BOOLEAN]
    /\ process \in [cleansrc : BOOLEAN, force : BOOLEAN, frozen : BOOLEAN]
    /\ at \in [Dirs -> {"absent", "leftover", "half", "debris", "checkout", "edited"}]
    /\ phase \in {"off", "idle", "routing", "found", "missing", "done"}
    /\ cached \in Answers \cup {Unasked}
    /\ answered \in BOOLEAN

\* The recipe lies where a lookup would find it.
There == Has("name") \/ Has(PackageBase)

LookupInv ==
    /\ LookupTyped
    /\ phase = "routing" => before = at /\ ~Has("name")
    /\ phase = "found" => There
    /\ phase # "off" /\ cached # Unasked /\ answered =>
          IF target.kind = "repo" THEN process.cleansrc ELSE There \/ at[PackageBase] = "half"
    /\ LookupFinds

LEMMA LookupInit == InitLookup => LookupInv
<1> SUFFICES ASSUME InitLookup PROVE LookupInv
  OBVIOUS
<1>1. LookupTyped
  BY DEF InitLookup, LookupTyped, Dirs
<1> QED  BY <1>1 DEF InitLookup, LookupInv, LookupFinds

(* How a route ends, when it stays within what the invariant allows.        *)
LEMMA LookupEnds ==
    ASSUME LookupInv, phase = "routing", NEW place \in Dirs,
           NEW result \in {"found", "missing"},
           NEW is \in {"absent", "leftover", "half", "debris", "checkout", "edited"},
           NEW heard \in BOOLEAN, Ends(result, place, is, heard),
           UNCHANGED <<target, process, before>>, cached' \in Answers \cup {Unasked},
           result = "found" => There',
           cached' # Unasked /\ heard /\ answered =>
              IF target.kind = "repo" THEN process.cleansrc ELSE There' \/ at'[PackageBase] = "half",
           result = "missing" /\ heard /\ answered =>
              \/ \E d \in Dirs : before[d] = "half"
              \/ target.kind = "repo" /\ (target.split \/ before["name"] = "debris" \/ process.cleansrc)
    PROVE  LookupInv'
<1>1. LookupTyped'
  BY DEF LookupInv, LookupTyped, Ends
<1>2. answered' = (answered /\ heard) /\ phase' = result /\ UNCHANGED PackageBase
  BY DEF Ends, PackageBase
<1>3. LookupFinds'
  BY <1>2 DEF LookupFinds, LookupInv, LookupTyped
<1> QED  BY <1>1, <1>2, <1>3 DEF LookupInv, LookupTyped

LEMMA LookupStep == LookupInv /\ [NextLookup]_lookupVars => LookupInv'
<1> SUFFICES ASSUME LookupInv, [NextLookup]_lookupVars PROVE LookupInv'
  OBVIOUS
<1> USE UnaskedApart
<1>0. LookupTyped /\ PackageBase \in Dirs /\ "name" \in Dirs /\ "base" \in Dirs
  BY DEF LookupInv, PackageBase, Dirs
<1>1. CASE BeginLookup
  BY <1>0, <1>1 DEF BeginLookup, LookupInv, LookupTyped, LookupFinds, There, Has, PackageBase
<1>2. CASE Look
  BY <1>0, <1>2 DEF Look, LookupInv, LookupTyped, LookupFinds, There, Has, PackageBase
<1>3. CASE RepoRoute
  <2> USE <1>3 DEF RepoRoute
  <2>0. /\ phase = "routing" /\ target.kind = "repo"
        /\ UNCHANGED <<target, process, cached, before>> /\ cached \in Answers \cup {Unasked}
        /\ cached # Unasked /\ answered => process.cleansrc
        /\ before = at
    BY <1>0 DEF LookupInv, LookupTyped
  <2>1. CASE Ends("missing", "name", at["name"], FALSE)
    BY <1>0, <2>0, <2>1, LookupEnds DEF LookupTyped
  <2>2. CASE at["name"] \in {"half", "debris"} /\ Ends("missing", "name", at["name"], TRUE)
    BY <1>0, <2>0, <2>2, LookupEnds DEF LookupTyped
  <2>3. CASE HasRepository("repo", "name") /\ Ends("found", "name", "checkout", TRUE)
    <3>1. There'
      BY <1>0, <2>3 DEF Ends, There, Has, LookupTyped
    <3> QED  BY <1>0, <2>0, <2>3, <3>1, LookupEnds
  <2>4. CASE ~HasRepository("repo", "name") /\ Ends("missing", "name", "absent", TRUE)
    <3>1. target.split
      BY <1>0, <2>0, <2>4 DEF HasRepository, LookupTyped
    <3> QED  BY <1>0, <2>0, <2>4, <3>1, LookupEnds
  <2>5. CASE Ends("missing", "name", "absent", FALSE)
    BY <1>0, <2>0, <2>5, LookupEnds
  <2> QED  BY <2>1, <2>2, <2>3, <2>4, <2>5
<1>4. CASE AurRoute
  <2> USE <1>4 DEF AurRoute
  <2>0. /\ phase = "routing" /\ target.kind = "aur"
        /\ UNCHANGED <<target, process, before>> /\ cached \in Answers \cup {Unasked}
        /\ cached # Unasked /\ answered => There \/ at[PackageBase] = "half"
        /\ before = at /\ ~Has("name") /\ UNCHANGED PackageBase
    BY <1>0 DEF LookupInv, LookupTyped, PackageBase
  <2>1. CASE NoInfo
    BY <1>0, <2>0, <2>1, LookupEnds DEF NoInfo, LookupTyped
  <2>2. CASE Has(PackageBase) /\ Ends("found", PackageBase, at[PackageBase], TRUE) /\ UNCHANGED cached
    <3>1. There'
      BY <1>0, <2>0, <2>2 DEF Ends, There, Has, LookupTyped
    <3>2. at[PackageBase] \in {"absent", "leftover", "half", "debris", "checkout", "edited"}
      BY <1>0 DEF LookupTyped
    <3>3. cached' \in Answers \cup {Unasked}
      BY <2>0, <2>2
    <3> QED  BY <1>0, <2>0, <2>2, <3>1, <3>2, <3>3, LookupEnds
  <2>3. CASE ~Has(PackageBase) /\ Synced(PackageBase)
    <3> DEFINE here == at[PackageBase]
    <3>0. here \in {"absent", "leftover", "half", "debris"}
      <4>1. at[PackageBase] \in {"absent", "leftover", "half", "debris", "checkout", "edited"}
        BY <1>0 DEF LookupTyped
      <4> QED  BY <2>3, <4>1 DEF Has
    <3>1. CASE cached # Unasked /\ Ends("missing", PackageBase, here, TRUE) /\ UNCHANGED cached
      <4>1. answered => here = "half"
        BY <2>0, <2>3, <3>1 DEF There
      <4>2. at' = at
        BY <1>0, <3>1 DEF Ends, LookupTyped
      <4> QED  BY <1>0, <2>0, <3>0, <3>1, <4>1, <4>2, LookupEnds
    <3>2. CASE Protected(PackageBase) /\ Ends("missing", PackageBase, here, TRUE) /\ cached' = "refused"
      <4>1. here = "half"
        BY <3>0, <3>2 DEF Protected
      <4>2. at' = at
        BY <1>0, <3>2 DEF Ends, LookupTyped
      <4> QED  BY <1>0, <2>0, <3>0, <3>2, <4>1, <4>2, LookupEnds DEF Answers
    <3>3. CASE /\ Ends("missing", PackageBase, IF process.cleansrc THEN here ELSE "absent", FALSE)
               /\ cached' = "frozen"
      BY <1>0, <2>0, <3>0, <3>3, LookupEnds DEF Answers
    <3>4. CASE AurClone(PackageBase, PackageBase)
      <4>0. HasRepository("aur", PackageBase)
        BY <2>0 DEF HasRepository, PackageBase
      <4>1. CASE Ends("found", PackageBase, "checkout", TRUE) /\ cached' = "cloned"
        <5>1. There'
          BY <1>0, <2>0, <4>1 DEF Ends, There, Has, LookupTyped
        <5> QED  BY <1>0, <2>0, <4>1, <5>1, LookupEnds DEF Answers
      <4>2. CASE Ends("missing", PackageBase, "absent", FALSE) /\ cached' = "failed"
        BY <1>0, <2>0, <4>2, LookupEnds DEF Answers
      <4> QED  BY <3>4, <4>0, <4>1, <4>2 DEF AurClone
    <3> QED  BY <2>3, <3>1, <3>2, <3>3, <3>4 DEF Synced
  <2> QED  BY <2>0, <2>1, <2>2, <2>3
<1>5. CASE Refetch
  <2> DEFINE place == IF Has("name") THEN "name" ELSE "base"
  <2>0. /\ phase = "found" /\ process.cleansrc /\ There /\ place \in Dirs
        /\ UNCHANGED <<target, process, before>> /\ UNCHANGED PackageBase
        /\ cached # Unasked /\ answered => There \/ at[PackageBase] = "half"
    BY <1>0, <1>5 DEF Refetch, LookupInv, PackageBase
  <2>1. CASE Ends("done", place, at[place], TRUE) /\ cached' = (IF cached = Unasked THEN "refused" ELSE cached)
    <3>1. at' = at /\ phase' = "done" /\ answered' = answered
      BY <1>0, <2>0, <2>1 DEF Ends, LookupTyped
    <3>2. There' /\ LookupTyped'
      BY <1>0, <2>0, <2>1, <3>1 DEF There, Has, LookupTyped, Answers
    <3> QED  BY <2>0, <3>1, <3>2 DEF LookupInv, LookupFinds, LookupTyped
  <2>2. CASE AurClone(PackageBase, place)
    <3>1. CASE HasRepository("aur", PackageBase) /\ Ends("found", place, "checkout", TRUE) /\ cached' = "cloned"
      <4>1. at' = [at EXCEPT ![place] = "checkout"] /\ phase' = "found"
        BY <3>1 DEF Ends
      <4>2. There'
        BY <1>0, <2>0, <4>1 DEF There, Has, LookupTyped, Dirs
      <4>3. LookupTyped'
        BY <1>0, <2>0, <3>1, <4>1 DEF LookupTyped, Answers, Ends
      <4> QED  BY <2>0, <4>1, <4>2, <4>3 DEF LookupInv, LookupFinds, LookupTyped
    <3>2. CASE ~HasRepository("aur", PackageBase) /\ Ends("missing", place, "absent", TRUE) /\ cached' = "failed"
      <4>1. target.kind = "repo"
        BY <1>0, <3>2 DEF HasRepository, PackageBase, LookupTyped
      <4>2. LookupTyped' /\ phase' = "missing"
        BY <1>0, <2>0, <3>2 DEF LookupTyped, Answers, Ends
      <4> QED  BY <2>0, <4>1, <4>2 DEF LookupInv, LookupFinds
    <3>3. CASE Ends("missing", place, "absent", FALSE) /\ cached' = "failed"
      <4>1. LookupTyped' /\ phase' = "missing" /\ ~answered'
        BY <1>0, <2>0, <3>3 DEF LookupTyped, Answers, Ends
      <4> QED  BY <4>1 DEF LookupInv, LookupFinds
    <3> QED  BY <2>2, <3>1, <3>2, <3>3 DEF AurClone
  <2> QED  BY <1>5, <2>1, <2>2 DEF Refetch
<1>6. CASE KilledLookup
  BY <1>0, <1>6 DEF KilledLookup, LookupInv, LookupTyped, LookupFinds
<1>7. CASE Leave
  BY <1>0, <1>7 DEF Leave, LookupInv, LookupTyped, LookupFinds
<1>8. CASE ByUser
  BY <1>0, <1>8 DEF ByUser, LookupInv, LookupTyped, LookupFinds
<1>9. CASE UNCHANGED lookupVars
  BY <1>0, <1>9 DEF lookupVars, LookupInv, LookupTyped, LookupFinds, There, Has, PackageBase
<1> QED  BY <1>1, <1>2, <1>3, <1>4, <1>5, <1>6, <1>7, <1>8, <1>9 DEF NextLookup

(* LookupFinds (find_pkgbuild, pkgctl_checkout, aur_clone): a lookup finds  *)
(* the recipe whatever killed clones and earlier lookups left behind, for   *)
(* any number of them.                                                      *)
THEOREM RecipeIsFound == LookupSpec => []LookupFinds
<1>1. LookupInv => LookupFinds
  BY DEF LookupInv
<1> QED  BY <1>1, LookupInit, LookupStep, PTL DEF LookupSpec

-----------------------------------------------------------------------------
(* A managed file.  FileInv says that whatever a verb or the registry calls *)
(* the file's contents is something the copy has been, and what the verbs   *)
(* know of the live file and of the copy's hash between their writes.       *)

Copies   == kept \cup {Nothing}

Adopting  == [pc : {"adopt"}, force : BOOLEAN, data : Copies, raced : BOOLEAN]
Deploying == [pc : {"absorb", "rehash", "read", "write", "save"}, force : BOOLEAN,
              sure : BOOLEAN, data : Copies, raced : BOOLEAN]
Removing  == [pc : {"rm", "unlink", "drop"}, force : BOOLEAN, purge : BOOLEAN,
              auth : Copies, raced : BOOLEAN]

FileTyped ==
    /\ verb \in {IdleVerb} \cup Adopting \cup Deploying \cup Removing
    /\ entry \in [auth : Copies, deployed : Copies] \cup {Nothing}
    /\ managed \in Copies
    /\ leak \in BOOLEAN /\ editing \in BOOLEAN /\ hidden \in BOOLEAN

Versioned == written \in Nat /\ live \in Nat \cup {Nothing} /\ Copies \subseteq Nat \cup {Nothing}

\* The verb looked at the file, found nothing that is not in the copy, and nobody wrote it since.
Looked == verb.pc \in {"rehash", "read", "write", "rm"} /\ ~verb.force /\ ~verb.raced /\ ~hidden

\* The copy is not being changed.
Quiet == ~editing /\ ~leak /\ ~Doing("rehash") /\ ~(Doing("drop") /\ verb.purge)

FileInv ==
    /\ FileTyped /\ Versioned
    /\ Looked => live \in Copies
    /\ Doing("adopt") => entry = Nothing /\ managed = verb.data
    /\ Doing("unlink") => verb.purge
    /\ verb.pc \notin {"idle", "adopt"} => entry # Nothing
    /\ Quiet /\ entry # Nothing => entry.auth = managed

LEMMA FileInit == InitFile => FileInv
<1> SUFFICES ASSUME InitFile PROVE FileInv
  OBVIOUS
<1>1. FileTyped /\ Versioned
  BY DEF InitFile, FileTyped, Versioned, Copies
<1> QED  BY <1>1 DEF InitFile, FileInv, Looked, Doing, IdleVerb

(* Which verb is at which of its steps. *)
LEMMA VerbAt ==
    ASSUME FileTyped
    PROVE  /\ Doing("adopt") => verb \in Adopting
           /\ verb.pc \in {"absorb", "rehash", "read", "write", "save"} => verb \in Deploying
           /\ verb.pc \in {"rm", "unlink", "drop"} => verb \in Removing
           /\ verb.pc = "idle" => verb = IdleVerb
  BY DEF FileTyped, Doing, IdleVerb, Adopting, Deploying, Removing

(* A verb is on its way: each part of the type on its own. *)
LEMMA FileKeepsType ==
    ASSUME FileTyped, Copies \subseteq Copies',
           managed' \in Copies', leak' \in BOOLEAN, editing' = editing, hidden' \in BOOLEAN,
           \/ entry' = entry \/ entry' = Nothing
           \/ \E a, d \in Copies' : entry' = [auth |-> a, deployed |-> d],
           verb' \in {IdleVerb} \cup Adopting' \cup Deploying' \cup Removing'
    PROVE  FileTyped'
<1>1. entry' \in [auth : Copies', deployed : Copies'] \cup {Nothing}
  BY DEF FileTyped
<1> QED  BY <1>1 DEF FileTyped, IdleVerb

(* What the copy has been stays so. *)
LEMMA CopiesGrow ==
    ASSUME FileTyped, NextFile \/ UNCHANGED fileVars
    PROVE  Copies \subseteq Copies'
BY DEF Copies, NextFile, Touch, OpenEditor, CloseEditor, Adopt, Register, Ignore, Forget, StartDeploy, Absorb,
       AbsorbHash, ReadCopy, WriteLive, Save, StartRemove, RemoveLive, Unlink, DropEntry, Killed, fileVars

LEMMA VersionedStep ==
    ASSUME FileTyped, Versioned, NextFile \/ UNCHANGED fileVars
    PROVE  Versioned'
<1> USE DEF Versioned, Copies
<1>1. CASE Touch \/ OpenEditor \/ CloseEditor \/ Adopt \/ Register \/ Ignore \/ Forget \/ StartDeploy \/ Absorb
  BY <1>1 DEF Touch, OpenEditor, CloseEditor, Adopt, Register, Ignore, Forget, StartDeploy, Absorb, Seen
<1>2. CASE WriteLive
  <2>1. verb.data \in Copies
    BY <1>2, VerbAt DEF WriteLive, Doing, Deploying
  <2> QED  BY <1>2, <2>1 DEF WriteLive
<1>3. CASE \/ AbsorbHash \/ ReadCopy \/ Save \/ StartRemove \/ RemoveLive \/ Unlink \/ DropEntry \/ Killed
           \/ UNCHANGED fileVars
  BY <1>3 DEF AbsorbHash, ReadCopy, Save, StartRemove, RemoveLive, Unlink, DropEntry, Killed, fileVars
<1> QED  BY <1>1, <1>2, <1>3 DEF NextFile

LEMMA FileStep == FileInv /\ [NextFile]_fileVars => FileInv'
<1> SUFFICES ASSUME FileInv, [NextFile]_fileVars PROVE FileInv'
  OBVIOUS
<1>0. FileTyped /\ Copies \subseteq Copies' /\ Versioned'
  BY CopiesGrow, VersionedStep DEF FileInv
<1>1. CASE Touch
  <2>1. CASE verb.pc = "idle"
    <3>1. UNCHANGED <<verb, managed, entry, editing, kept, leak>> /\ hidden' \in BOOLEAN
      BY <1>0, <1>1, <2>1 DEF Touch, Doing, FileTyped
    <3>2. FileTyped'
      BY <1>0, <3>1 DEF FileTyped, Copies, Adopting, Deploying, Removing
    <3> QED  BY <1>0, <2>1, <3>1, <3>2 DEF FileInv, Looked, Quiet, Doing
  <2>2. CASE verb.pc # "idle"
    <3>1. verb' = [verb EXCEPT !.raced = TRUE] /\ UNCHANGED <<managed, entry, editing, kept, leak>> /\ hidden' \in BOOLEAN
      BY <1>0, <1>1, <2>2 DEF Touch, Doing, FileTyped
    <3>2. verb \in Adopting \cup Deploying \cup Removing
      BY <1>0, <2>2 DEF FileTyped, IdleVerb
    <3>3. verb' \in Adopting \cup Deploying \cup Removing /\ verb'.pc = verb.pc /\ verb'.raced
          /\ (verb.pc = "adopt" => verb'.data = verb.data) /\ (verb.pc = "drop" => verb'.purge = verb.purge)
      BY <3>1, <3>2 DEF Adopting, Deploying, Removing
    <3>4. FileTyped'
      BY <1>0, <3>1, <3>3 DEF FileTyped, Adopting, Deploying, Removing, Copies
    <3> QED  BY <1>0, <3>1, <3>3, <3>4 DEF FileInv, Looked, Quiet, Doing
  <2> QED  BY <1>0, <2>1, <2>2
<1>2. CASE OpenEditor
  BY <1>0, <1>2 DEF OpenEditor, FileInv, FileTyped, Looked, Quiet, Doing, Copies, Adopting, Deploying, Removing
<1>3. CASE CloseEditor
  <2>1. CASE entry # Nothing /\ managed # Nothing /\ Rehash /\ leak' = FALSE
    <3>1. entry' = [entry EXCEPT !.auth = managed]
      BY <2>1 DEF Rehash
    <3>2. entry' \in [auth : Copies, deployed : Copies] /\ entry'.auth = managed
      BY <1>0, <2>1, <3>1 DEF FileTyped
    <3>5. entry' # Nothing
      BY <1>0, <3>2, NothingApart DEF Versioned, FileInv
    <3>3. UNCHANGED <<live, hidden, managed, verb, kept>> /\ editing' = FALSE /\ Copies' = Copies
      BY <1>3 DEF CloseEditor, Copies
    <3>4. FileTyped'
      BY <1>0, <2>1, <3>2, <3>3 DEF FileTyped, Adopting, Deploying, Removing
    <3> QED  BY <1>0, <2>1, <3>2, <3>3, <3>4, <3>5 DEF FileInv, Looked, Quiet, Doing
  <2>2. CASE UNCHANGED entry /\ leak' = TRUE
    BY <1>0, <1>3, <2>2 DEF CloseEditor, FileInv, FileTyped, Looked, Quiet, Doing, Copies, Adopting, Deploying, Removing
  <2> QED  BY <1>3, <2>1, <2>2 DEF CloseEditor
<1>4. CASE Adopt
  BY <1>0, <1>4 DEF Adopt, FileInv, FileTyped, Looked, Quiet, Doing, Copies, Adopting, Deploying, Removing
<1>5. CASE Register
  BY <1>0, <1>5 DEF Register, FileInv, FileTyped, Looked, Quiet, Doing, Copies, Adopting, Deploying, Removing, IdleVerb
<1>6. CASE Ignore \/ Forget
  BY <1>0, <1>6 DEF Ignore, Forget, FileInv, FileTyped, Looked, Quiet, Doing, Copies, Adopting, Deploying, Removing
<1>7. CASE StartDeploy
  <2>1. UNCHANGED <<live, hidden, managed, entry, editing, kept, leak>> /\ verb = IdleVerb /\ entry # Nothing
    BY <1>0, <1>7, VerbAt DEF StartDeploy, Doing
  <2>2. PICK force \in BOOLEAN, adopt \in BOOLEAN :
          /\ ~(force /\ adopt) /\ ~Declines(Status(entry, Seen), force, adopt)
          /\ verb' = [pc |-> IF adopt THEN "absorb" ELSE "read", force |-> force,
                      sure |-> Status(entry, Seen) = "ok" /\ ~adopt, data |-> Nothing, raced |-> FALSE]
    BY <1>7 DEF StartDeploy
  <2>3. verb' \in Deploying' /\ verb'.pc = (IF adopt THEN "absorb" ELSE "read") /\ verb'.force = force
    BY <2>2 DEF Deploying, Copies
  <2>4. FileTyped'
    BY <1>0, <2>1, <2>3, FileKeepsType DEF FileTyped, Copies
  <2>5. ~adopt /\ ~force /\ ~hidden => live \in Copies
    BY <1>0, <2>1, <2>2 DEF Declines, Status, Seen, FileTyped, Copies
  <2> QED  BY <1>0, <2>1, <2>3, <2>4, <2>5 DEF FileInv, Looked, Quiet, Doing, IdleVerb, Copies
<1>8. CASE Absorb
  <2>0. verb \in Deploying /\ verb.pc = "absorb" /\ UNCHANGED <<live, hidden, entry, editing, leak>>
    BY <1>0, <1>8, VerbAt DEF Absorb, Doing
  <2>1. CASE Seen = Nothing
    <3>1. verb' = IdleVerb /\ UNCHANGED <<managed, kept>>
      BY <1>8, <2>1 DEF Absorb
    <3>2. FileTyped'
      BY <1>0, <2>0, <3>1, FileKeepsType DEF FileTyped, Copies
    <3> QED  BY <1>0, <2>0, <3>1, <3>2 DEF FileInv, Looked, Quiet, Doing, IdleVerb
  <2>2. CASE Seen # Nothing
    <3>1. managed' = live /\ kept' = kept \cup {live} /\ verb' = [verb EXCEPT !.pc = "rehash"]
      BY <1>8, <2>2 DEF Absorb
    <3>2. verb' \in Deploying' /\ verb'.pc = "rehash"
      BY <1>0, <2>0, <3>1 DEF Deploying
    <3>3. live' \in Copies' /\ managed' \in Copies'
      BY <2>0, <3>1 DEF Copies
    <3>4. FileTyped'
      BY <1>0, <2>0, <3>2, <3>3, FileKeepsType DEF FileTyped
    <3> QED  BY <1>0, <2>0, <3>2, <3>3, <3>4 DEF FileInv, Looked, Quiet, Doing
  <2> QED  BY <1>0, <2>1, <2>2
<1>9. CASE AbsorbHash
  <2>0. /\ verb \in Deploying /\ verb.pc = "rehash" /\ UNCHANGED <<live, hidden, managed, editing, kept>>
        /\ verb' = [verb EXCEPT !.pc = "read"] /\ leak' = FALSE /\ Copies' = Copies
        /\ entry' = [entry EXCEPT !.auth = managed]
    BY <1>0, <1>9, VerbAt DEF AbsorbHash, Rehash, Doing, Copies
  <2>1. verb' \in Deploying' /\ verb'.pc = "read" /\ verb'.force = verb.force /\ verb'.raced = verb.raced
    BY <2>0 DEF Deploying
  <2>2. entry \in [auth : Copies, deployed : Copies] /\ managed \in Copies
    BY <1>0, <2>0 DEF FileInv, FileTyped
  <2>3. /\ entry' \in [auth : Copies, deployed : Copies] /\ entry'.auth = managed
        /\ entry' = [auth |-> managed, deployed |-> entry.deployed]
    BY <2>0, <2>2
  <2>4. entry' # Nothing
    BY <1>0, <2>0, <2>3, NothingApart DEF Versioned
  <2>5. FileTyped'
    BY <1>0, <2>0, <2>1, <2>3, FileKeepsType DEF FileTyped
  <2> QED  BY <1>0, <2>0, <2>1, <2>3, <2>4, <2>5 DEF FileInv, Looked, Quiet, Doing
<1>10. CASE ReadCopy
  <2>0. verb \in Deploying /\ verb.pc = "read" /\ UNCHANGED <<live, hidden, managed, entry, editing, kept, leak>>
        /\ Copies' = Copies
    BY <1>0, <1>10, VerbAt DEF ReadCopy, Doing, Copies
  <2>1. CASE verb' = IdleVerb
    <3>1. FileTyped'
      BY <1>0, <2>0, <2>1, FileKeepsType DEF FileTyped
    <3> QED  BY <1>0, <2>0, <2>1, <3>1 DEF FileInv, Looked, Quiet, Doing, IdleVerb
  <2>2. CASE verb' = [verb EXCEPT !.pc = "write", !.data = managed]
    <3>1. verb' \in Deploying' /\ verb'.pc = "write" /\ verb'.force = verb.force /\ verb'.raced = verb.raced
      BY <1>0, <2>0, <2>2 DEF Deploying, FileTyped
    <3>2. FileTyped'
      BY <1>0, <2>0, <3>1, FileKeepsType DEF FileTyped
    <3> QED  BY <1>0, <2>0, <3>1, <3>2 DEF FileInv, Looked, Quiet, Doing
  <2> QED  BY <1>10, <2>1, <2>2 DEF ReadCopy
<1>11. CASE WriteLive
  <2>0. verb \in Deploying /\ verb.pc = "write" /\ UNCHANGED <<managed, entry, editing, kept, leak>> /\ hidden' = FALSE
        /\ verb' = [verb EXCEPT !.pc = "save"] /\ Copies' = Copies
    BY <1>0, <1>11, VerbAt DEF WriteLive, Doing, Copies
  <2>1. verb' \in Deploying' /\ verb'.pc = "save"
    BY <2>0 DEF Deploying
  <2>2. FileTyped'
    BY <1>0, <2>0, <2>1, FileKeepsType DEF FileTyped
  <2> QED  BY <1>0, <2>0, <2>1, <2>2 DEF FileInv, Looked, Quiet, Doing
<1>12. CASE Save
  <2>0. /\ verb \in Deploying /\ verb.data \in Copies /\ UNCHANGED <<live, hidden, managed, editing, kept>> /\ Copies' = Copies
        /\ verb' = IdleVerb /\ entry' = [auth |-> verb.data, deployed |-> verb.data] /\ leak' = (managed # verb.data)
    BY <1>0, <1>12, VerbAt DEF Save, Deployed, Doing, Copies, Deploying
  <2>1. FileTyped'
    BY <1>0, <2>0, FileKeepsType DEF FileTyped
  <2> QED  BY <1>0, <2>0, <2>1 DEF FileInv, Looked, Quiet, Doing, IdleVerb
<1>13. CASE StartRemove
  <2>1. UNCHANGED <<live, hidden, managed, entry, editing, kept, leak>> /\ verb = IdleVerb /\ entry # Nothing
    BY <1>0, <1>13, VerbAt DEF StartRemove, Doing
  <2>2. PICK force \in BOOLEAN, purge \in BOOLEAN :
          /\ ~Declines(Status(entry, Seen), force, FALSE)
          /\ verb' = [pc |-> "rm", force |-> force, purge |-> purge, auth |-> entry.auth, raced |-> FALSE]
    BY <1>13 DEF StartRemove
  <2>3. entry.auth \in Copies'
    BY <1>0, <2>1 DEF FileTyped
  <2>4. verb' \in Removing' /\ verb'.pc = "rm" /\ verb'.force = force
    BY <2>2, <2>3 DEF Removing
  <2>5. FileTyped'
    BY <1>0, <2>1, <2>4, FileKeepsType DEF FileTyped, Copies
  <2>6. ~force /\ ~hidden => live \in Copies
    BY <1>0, <2>1, <2>2 DEF Declines, Status, Seen, FileTyped, Copies
  <2> QED  BY <1>0, <2>1, <2>4, <2>5, <2>6 DEF FileInv, Looked, Quiet, Doing, IdleVerb, Copies
<1>14. CASE RemoveLive
  <2>0. /\ verb \in Removing /\ verb.pc = "rm" /\ UNCHANGED <<managed, entry, editing, kept, leak>> /\ hidden' = FALSE
        /\ verb' = [verb EXCEPT !.pc = IF verb.purge THEN "unlink" ELSE "drop"] /\ Copies' = Copies
    BY <1>0, <1>14, VerbAt DEF RemoveLive, Doing, Copies
  <2>1. verb' \in Removing' /\ verb'.pc = (IF verb.purge THEN "unlink" ELSE "drop") /\ verb'.purge = verb.purge
    BY <2>0 DEF Removing
  <2>2. FileTyped'
    BY <1>0, <2>0, <2>1, FileKeepsType DEF FileTyped
  <2> QED  BY <1>0, <2>0, <2>1, <2>2 DEF FileInv, Looked, Quiet, Doing
<1>15. CASE Unlink
  <2>0. /\ verb \in Removing /\ verb.pc = "unlink" /\ UNCHANGED <<live, hidden, entry, editing, kept, leak>>
        /\ managed' = Nothing /\ verb' = [verb EXCEPT !.pc = "drop"] /\ Copies' = Copies
    BY <1>0, <1>15, VerbAt DEF Unlink, Doing, Copies
  <2>1. verb' \in Removing' /\ verb'.pc = "drop" /\ verb'.purge = verb.purge
    BY <2>0 DEF Removing
  <2>2. FileTyped'
    BY <1>0, <2>0, <2>1, FileKeepsType DEF FileTyped, Copies
  <2>3. verb.purge
    BY <2>0, <1>15 DEF FileInv, Doing
  <2> QED  BY <1>0, <2>0, <2>1, <2>2, <2>3 DEF FileInv, Looked, Quiet, Doing
<1>16. CASE DropEntry
  <2>0. /\ verb \in Removing /\ verb.pc = "drop" /\ UNCHANGED <<live, hidden, managed, editing, kept>>
        /\ verb' = IdleVerb /\ Copies' = Copies /\ verb.auth \in Copies
        /\ entry' = (IF verb.purge THEN Nothing ELSE [auth |-> verb.auth, deployed |-> Nothing])
        /\ leak' = (~verb.purge /\ (leak \/ entry.auth # verb.auth))
    BY <1>0, <1>16, VerbAt DEF DropEntry, Doing, Copies, Removing
  <2>1. FileTyped'
    BY <1>0, <2>0, FileKeepsType DEF FileTyped, Copies
  <2> QED  BY <1>0, <2>0, <2>1 DEF FileInv, Looked, Quiet, Doing, IdleVerb
<1>17. CASE Killed
  BY <1>0, <1>17 DEF Killed, FileInv, FileTyped, Looked, Quiet, Doing, Copies, Adopting, Deploying, Removing, IdleVerb
<1>18. CASE UNCHANGED fileVars
  BY <1>0, <1>18 DEF fileVars, FileInv, FileTyped, Looked, Quiet, Doing, Copies, Adopting, Deploying, Removing
<1> QED  BY <1>1, <1>2, <1>3, <1>4, <1>5, <1>6, <1>7, <1>8, <1>9, <1>10, <1>11, <1>12, <1>13, <1>14, <1>15,
            <1>16, <1>17, <1>18 DEF NextFile

(* EditsKept (verbs/artifact.py): no step of a verb loses an edit of the    *)
(* live file or leaves a copy whose recorded hash is not its own, whatever  *)
(* the operator writes between the verb's reads and its writes.             *)
THEOREM FileEditsKept == FileSpec => EditsKept
<1>1. FileInv => LiveKept(live')
  BY DEF FileInv, LiveKept, Overwrites, Looked, Copies
<1>2. FileInv => CopyIsHashed
  BY DEF FileInv, CopyIsHashed, Quiet, Doing
<1> QED  BY <1>1, <1>2, FileInit, FileStep, PTL DEF FileSpec, EditsKept

-----------------------------------------------------------------------------
(* The checkout.  SyncInv says what the world, a run's record, its place,   *)
(* the answers it remembers and its review mean for one another: an answer  *)
(* that claims the newest source stays true while it can be repeated, and   *)
(* what was accepted is what HEAD is at.                                    *)

Notes  == [rpc : Nat \cup {Absent}, head : (Nat \X Mines) \cup {Absent}]
AskedAs == {"both", "base", "directory"}
Places == {"rpc", "ask", "clone", "fetch", "answered", "review", "probe", "build", "end"}
Sources == {"up_to_date", "fetched", "cloned"}

Said == Sources \cup {"skipped_local", "skipped_aur_disabled", "rate_limited", "skipped_offline", "frozen",
                      "purge_refused", "failed", "diverged", "skipped_no_tracking"}

Results == UNION {[K -> Said] : K \in SUBSET AskedAs}

Running ==
    [at : Places, verb : {"update", "build", "kernel", "toolchain"},
     opts : SUBSET {"cleansrc", "impatient", "devel", "offline", "force", "main", "frozen", "noaur", "noupdate"},
     gate : {"prompt", "accept", "off", "strict"}, rpc : Nat \cup {Absent}, aborted : BOOLEAN,
     results : Results, cache : Notes, status : Said \cup {Absent}, closed : BOOLEAN, key : AskedAs,
     forced : BOOLEAN, reviewed : BOOLEAN, upstream : Nat, release : Nat \cup {Absent}]

Under == sync.at # "rest"

\* A directory that is no repository was never edited, and a recipe is only lost by an edit.
Shaped(t) ==
    /\ ~t.git => t.edits = "none" /\ t.mine = "none" /\ ~t.recipe
    /\ ~t.recipe => ~t.git \/ t.edits = "user" \/ t.mine = "user"

\* What the cache says the branch was at, the HEAD noted with it has.
NoteHolds(n) == n.rpc # Absent => \A b \in Nat, m \in Mines : n.head = <<b, m>> => b >= n.rpc

WorldInv ==
    /\ upstream \in Nat /\ release \in Nat \cup {Absent}
    /\ release # Absent <=> origin.from = "repo"
    /\ release # Absent => release <= upstream
    /\ tree \in Trees \cup {Absent} /\ (Present => Shaped(tree))
    /\ meta \in Notes /\ NoteHolds(meta)

\* What a run noted when it began, and what it was told.
RunInv ==
    /\ sync \in Running
    /\ sync.upstream <= upstream
    /\ release # Absent => sync.release # Absent /\ sync.release <= release
    /\ sync.rpc # Absent => origin.from = "aur" /\ sync.upstream <= sync.rpc /\ sync.rpc <= upstream
    /\ NoteHolds(sync.cache)
    /\ sync.verb = "toolchain" => ~Opt("offline")

\* What a run may be doing where it is.
PlaceInv ==
    /\ sync.at = "clone" => ~Present
    /\ sync.at = "fetch" => Present /\ tree.recipe /\ ~Opt("offline")
    /\ sync.at \in {"clone", "fetch"} => ~Known
    /\ sync.at = "rpc" => sync.verb = "update" /\ DOMAIN sync.results = {}
    /\ sync.at = "review" => sync.verb \in {"update", "build"}
    /\ sync.at = "probe" => sync.verb = "toolchain"

Wanted  == IF Stable /\ release # Absent THEN sync.release ELSE sync.upstream
SeenAll == tree.git => tree.base >= Wanted

\* What is remembered of a request still holds when it is repeated.
TellsInv ==
    /\ sync.at = "answered" /\ sync.status \in Sources => SeenAll
    /\ sync.at \in {"ask", "answered", "review"} /\ Known /\ sync.results[sync.key] \in Sources => SeenAll

Accepted == HeadOf(tree) \in {Absent, baseline}

\* A build asks twice, and the second time is answered from memory if both names are one.
ReviewInv ==
    /\ sync.verb = "build" /\ ~sync.reviewed =>
          /\ sync.at \in {"ask", "clone", "fetch", "answered", "review", "end"}
          /\ sync.key = Key("base") /\ DOMAIN sync.results \subseteq {sync.key}
          /\ sync.at \in {"answered", "review"} => Known
    /\ sync.verb = "build" /\ sync.at = "review" => ~sync.reviewed
    /\ sync.verb = "build" /\ sync.reviewed /\ sync.gate # "off" /\ origin.named =>
          /\ sync.at \in {"ask", "answered", "build", "end"}
          /\ sync.at = "ask" => Known
          /\ sync.at # "end" => Accepted
    /\ sync.verb = "update" /\ sync.gate # "off" /\ sync.at = "build" => Accepted
    /\ PreflightStops

SyncInv == WorldInv /\ (Under => RunInv /\ PlaceInv /\ TellsInv /\ ReviewInv) /\ (~Under => sync = Resting)

-----------------------------------------------------------------------------
(* The records.                                                             *)

LEMMA FreshIsTree ==
    ASSUME NEW c \in Nat
    PROVE  Fresh(c) \in Trees /\ Shaped(Fresh(c)) /\ HeadOf(Fresh(c)) \in (Nat \X Mines) \cup {Absent}
  BY DEF Fresh, Trees, Shaped, HeadOf, Mines

LEMMA HeadTyped ==
    ASSUME NEW t \in Trees \cup {Absent}
    PROVE  HeadOf(t) \in (Nat \X Mines) \cup {Absent}
  BY DEF HeadOf, Trees

LEMMA PinnedIsTree ==
    ASSUME NEW t \in Trees, release \in Nat
    PROVE  /\ Pinned(t) \in Trees /\ Pinned(t).base = release /\ Pinned(t).git = t.git
           /\ Pinned(t).recipe = t.recipe /\ Pinned(t).edits = t.edits /\ Pinned(t).mine = "none"
  BY DEF Pinned, Trees, Mines

LEMMA NoResults == <<>> \in Results /\ DOMAIN <<>> = {}
<1>1. <<>> \in [{} -> Said]
  OBVIOUS
<1> QED  BY <1>1 DEF Results

LEMMA ResultsGrow ==
    ASSUME NEW r \in Results, NEW k \in AskedAs, NEW s \in Said
    PROVE  LET q == [x \in DOMAIN r \cup {k} |-> IF x = k THEN s ELSE r[x]]
           IN  q \in Results /\ DOMAIN q = DOMAIN r \cup {k} /\ q[k] = s
<1> DEFINE q == [x \in DOMAIN r \cup {k} |-> IF x = k THEN s ELSE r[x]]
<1>1. PICK K \in SUBSET AskedAs : r \in [K -> Said]
  BY DEF Results
<1>2. q \in [K \cup {k} -> Said]
  BY <1>1
<1> QED  BY <1>1, <1>2 DEF Results

LEMMA ResultsSay ==
    ASSUME NEW r \in Results, NEW k \in DOMAIN r
    PROVE  r[k] \in Said /\ k \in AskedAs
  BY DEF Results

\* What a step within a run leaves of its record.
Same == /\ sync'.verb = sync.verb /\ sync'.opts = sync.opts /\ sync'.gate = sync.gate
        /\ sync'.upstream = sync.upstream /\ sync'.release = sync.release
Asks == sync'.rpc = sync.rpc /\ sync'.reviewed = sync.reviewed

(* Each way a step changes the record of its run. *)
LEMMA GoesTo ==
    ASSUME sync \in Running, NEW a \in Places, sync' = At(a)
    PROVE  /\ sync' \in Running /\ Same /\ Asks /\ sync'.at = a /\ sync'.results = sync.results
           /\ sync'.key = sync.key /\ sync'.cache = sync.cache /\ sync'.status = sync.status
  BY DEF Running, At, Same, Asks

LEMMA AnswerTells ==
    ASSUME sync \in Running, NEW s \in Said, NEW n \in Notes, Answer(s, n)
    PROVE  /\ sync' \in Running /\ Same /\ Asks /\ sync'.at = "answered" /\ sync'.status = s
           /\ sync'.results = [x \in DOMAIN sync.results \cup {sync.key} |->
                                  IF x = sync.key THEN s ELSE sync.results[x]]
           /\ DOMAIN sync'.results = DOMAIN sync.results \cup {sync.key}
           /\ sync'.results[sync.key] = s
           /\ sync'.key = sync.key /\ sync'.cache = n
<1> DEFINE q == [x \in DOMAIN sync.results \cup {sync.key} |-> IF x = sync.key THEN s ELSE sync.results[x]]
<1>1. sync.results \in Results /\ sync.key \in AskedAs
  BY DEF Running
<1>2. q \in Results /\ DOMAIN q = DOMAIN sync.results \cup {sync.key} /\ q[sync.key] = s
  BY <1>1, ResultsGrow
<1>3. sync' = [sync EXCEPT !.at = "answered", !.status = s, !.results = q, !.cache = n]
  BY DEF Answer, Answered, Running
<1> HIDE DEF q
<1>4. sync' \in Running /\ Same /\ Asks /\ sync'.at = "answered" /\ sync'.status = s /\ sync'.results = q
      /\ sync'.key = sync.key /\ sync'.cache = n
  BY <1>2, <1>3 DEF Running, Same, Asks, Places
<1> QED  BY <1>2, <1>4 DEF q

LEMMA TooManyTells ==
    ASSUME sync \in Running, TooMany
    PROVE  /\ sync' \in Running /\ Same /\ Asks /\ sync'.at = "answered" /\ sync'.status = "rate_limited"
           /\ DOMAIN sync'.results = DOMAIN sync.results \cup {sync.key}
           /\ sync'.results[sync.key] = "rate_limited"
           /\ sync'.key = sync.key /\ sync'.cache = sync.cache
<1> DEFINE s == "rate_limited"
           q == [x \in DOMAIN sync.results \cup {sync.key} |-> IF x = sync.key THEN s ELSE sync.results[x]]
<1>1. sync.results \in Results /\ sync.key \in AskedAs /\ s \in Said
  BY DEF Running, Said
<1>2. q \in Results /\ DOMAIN q = DOMAIN sync.results \cup {sync.key} /\ q[sync.key] = s
  BY <1>1, ResultsGrow
<1>3. sync' = [sync EXCEPT !.at = "answered", !.status = s, !.results = q,
                           !.aborted = sync.aborted \/ Opt("impatient")]
  BY DEF TooMany, Answered, Running
<1> HIDE DEF q
<1>4. sync' \in Running /\ Same /\ Asks /\ sync'.at = "answered" /\ sync'.status = s /\ sync'.results = q
      /\ sync'.key = sync.key /\ sync'.cache = sync.cache
  BY <1>1, <1>2, <1>3 DEF Running, Same, Asks, Places
<1> QED  BY <1>2, <1>4 DEF q
-----------------------------------------------------------------------------
(* What git_ops and the scheduler make of a checkout.                       *)

(* A purge that is not refused takes nothing of the user's.                 *)
LEMMA PurgeSpares ==
    ASSUME NEW t \in Trees, Shaped(t), ~PurgeRefused(t)
    PROVE  t.edits # "user" /\ t.mine # "user"
  BY DEF Trees, Mines, Shaped, PurgeRefused, Uncommitted, History

(* Nor does moving a checkout that is not dirty.                            *)
LEMMA CleanSpares ==
    ASSUME NEW t \in Trees, t.git, ~Dirty(t)
    PROVE  t.edits # "user" /\ t.mine # "user"
  BY DEF Trees, Mines, Dirty, Uncommitted, History

(* What the pre-flight does not report, a purge does not refuse.            *)
LEMMA ReportedCovers ==
    ASSUME NEW t \in Trees, Shaped(t), ~Reported(t)
    PROVE  ~PurgeRefused(t) /\ (t.git => t.edits = "none")
  BY DEF Trees, Mines, Shaped, Reported, PurgeRefused, Uncommitted, History

(* The three ends of git_fetch_and_compare.                                 *)
LEMMA SettledAs ==
    ASSUME NEW t \in Trees, t.git
    PROVE  \/ Settled(t) = <<"up_to_date", t>> /\ t.mine = "none" /\ t.base = upstream
           \/ Settled(t) = <<"fetched", Fresh(upstream)>> /\ t.edits # "user" /\ t.mine # "user"
           \/ Settled(t) = <<"diverged", t>>
  BY CleanSpares DEF Settled

(* A pin goes to the release, and not over edits; elsewhere nothing moves.  *)
LEMMA RepinnedAs ==
    ASSUME NEW t \in Trees, t.git, NEW x \in Repinned(t)
    PROVE  \/ x = <<"up_to_date", t>> /\ ~(Stable /\ release # Absent)
           \/ x = <<"diverged", t>> \/ x = <<"failed", t>>
           \/ /\ Stable /\ release # Absent /\ t.edits # "user"
              /\ x[1] \in {"up_to_date", "fetched"} /\ x[2] = Pinned(t)
<1>1. CASE ~Stable \/ release = Absent
  BY <1>1 DEF Repinned
<1>2. CASE ~(~Stable \/ release = Absent) /\ Uncommitted(t)
  BY <1>2 DEF Repinned
<1>3. CASE ~(~Stable \/ release = Absent) /\ ~Uncommitted(t)
  <2>1. t.edits # "user"
    BY <1>3 DEF Uncommitted
  <2> QED  BY <1>3, <2>1 DEF Repinned
<1> QED  BY <1>1, <1>2, <1>3

(* A fetch: the checkout it leaves, and when it claims to have the newest.  *)
LEMMA FetchedAs ==
    ASSUME WorldInv, tree # Absent, tree.recipe, NEW x \in Fetched
    PROVE  /\ x[1] \in {"not_a_repo", "no_tracking", "up_to_date", "fetched", "diverged", "failed"}
           /\ x[2] \in Trees /\ Shaped(x[2])
           /\ \/ Keeps(tree, x[2])
              \/ Stable /\ ~tree.tracks /\ tree.edits # "user"
           /\ x[1] = "not_a_repo" => ~x[2].git
           /\ x[1] \in {"up_to_date", "fetched"} =>
                x[2].git /\ x[2].base = IF Stable /\ release # Absent THEN release ELSE upstream
<1>a. \A u \in Trees : u # Absent
  BY AbsentApart
<1>0. tree \in Trees /\ Shaped(tree) /\ tree.git
  BY DEF WorldInv, Present, Shaped
<1>1. CASE ~tree.tracks /\ ~Stable
  <2>1. x = <<"no_tracking", tree>>
    BY <1>0, <1>1 DEF Fetched
  <2> QED  BY <1>0, <1>a, <2>1 DEF Keeps
<1>2. CASE ~tree.tracks /\ Stable
  <2>1. x \in Repinned(tree) /\ release # Absent /\ release \in Nat
    BY <1>0, <1>2 DEF Fetched, Stable, WorldInv
  <2>2. Pinned(tree) \in Trees /\ Shaped(Pinned(tree)) /\ Pinned(tree).git /\ Pinned(tree).base = release
    BY <1>0, <2>1, PinnedIsTree DEF Shaped
  <2> QED  BY <1>0, <1>2, <2>1, <2>2, <1>a, RepinnedAs DEF Keeps
<1>3. CASE tree.tracks
  <2> DEFINE t == [tree EXCEPT !.seen = upstream]
             first == Settled(t)
  <2>1. /\ t \in Trees /\ t.git /\ t.edits = tree.edits /\ t.mine = tree.mine
        /\ t.recipe /\ t.base = tree.base /\ Shaped(t)
    BY <1>0 DEF Trees, WorldInv, Shaped
  <2>2. Fresh(upstream) \in Trees /\ Shaped(Fresh(upstream)) /\ Fresh(upstream).git /\ Fresh(upstream).recipe
        /\ Fresh(upstream).base = upstream /\ Fresh(upstream).edits = "none" /\ Fresh(upstream).mine = "none"
    BY FreshIsTree DEF Fresh, WorldInv
  <2> HIDE DEF t
  <2>a. \/ first = <<"up_to_date", t>> /\ t.mine = "none" /\ t.base = upstream
        \/ first = <<"fetched", Fresh(upstream)>> /\ t.edits # "user" /\ t.mine # "user"
        \/ first = <<"diverged", t>>
    BY <2>1, SettledAs
  <2> HIDE DEF first
  <2>3. CASE first[1] = "diverged"
    <3>1. first = <<"diverged", t>>
      BY <2>a, <2>3
    <3>2. Fetched = {first}
      BY <1>0, <1>3, <2>3 DEF Fetched, first, t
    <3>3. x = <<"diverged", t>>
      BY <3>1, <3>2
    <3>4. x[1] = "diverged" /\ x[2] = t
      BY <3>3
    <3>5. Keeps(tree, t)
      BY <1>a, <2>1 DEF Keeps
    <3> QED  BY <2>1, <3>4, <3>5
  <2>4. CASE first[1] # "diverged"
    <3> DEFINE u == first[2]
    <3>1. /\ first[1] \in {"up_to_date", "fetched"} /\ u \in Trees /\ u.git /\ u.recipe /\ Shaped(u)
          /\ u.mine = "none" /\ tree.mine # "user" /\ u.base = upstream
          /\ u.edits = tree.edits \/ (u.edits = "none" /\ tree.edits # "user")
      <4>1. CASE first = <<"up_to_date", t>> /\ t.mine = "none" /\ t.base = upstream
        BY <2>1, <4>1
      <4>2. CASE first = <<"fetched", Fresh(upstream)>> /\ t.edits # "user" /\ t.mine # "user"
        BY <2>1, <2>2, <4>2
      <4> QED  BY <2>a, <2>4, <4>1, <4>2
    <3>0. Fetched = {<<IF y[1] = "up_to_date" THEN first[1] ELSE y[1], y[2]>> : y \in Repinned(u)}
      BY <1>0, <1>3, <2>4 DEF Fetched, first, t
    <3>2. PICK y \in Repinned(u) : x = <<IF y[1] = "up_to_date" THEN first[1] ELSE y[1], y[2]>>
      BY <3>0
    <3> HIDE DEF u
    <3>3. release # Absent => release \in Nat
      BY DEF WorldInv
    <3>4. release # Absent =>
             Pinned(u) \in Trees /\ Shaped(Pinned(u)) /\ Pinned(u).git /\ Pinned(u).base = release
             /\ Pinned(u).edits = u.edits
      BY <3>1, <3>3, PinnedIsTree DEF Shaped
    <3>5. x[1] = (IF y[1] = "up_to_date" THEN first[1] ELSE y[1]) /\ x[2] = y[2]
      BY <3>2
    <3>6. ~(tree.edits = "user" /\ u.edits # "user")
      BY <3>1
    <3>7. CASE y = <<"up_to_date", u>> /\ ~(Stable /\ release # Absent)
      <4>1. y[1] = "up_to_date" /\ y[2] = u
        BY <3>7
      <4> QED  BY <1>a, <3>1, <3>5, <3>6, <3>7, <4>1 DEF Keeps
    <3>8. CASE y = <<"diverged", u>> \/ y = <<"failed", u>>
      <4>1. y[1] \in {"diverged", "failed"} /\ y[2] = u
        BY <3>8
      <4> QED  BY <1>a, <3>1, <3>5, <3>6, <4>1 DEF Keeps
    <3>9. CASE /\ Stable /\ release # Absent /\ u.edits # "user"
               /\ y[1] \in {"up_to_date", "fetched"} /\ y[2] = Pinned(u)
      BY <3>1, <3>3, <3>4, <3>5, <3>6, <3>9, <1>a DEF Keeps
    <3> QED  BY <3>1, <3>2, <3>7, <3>8, <3>9, RepinnedAs
  <2> QED  BY <2>3, <2>4
<1> QED  BY <1>1, <1>2, <1>3
-----------------------------------------------------------------------------
(* The steps of a request.                                                  *)

\* Under a run, what does not change while it is at work.
Works == SyncInv /\ Under /\ UNCHANGED <<origin, upstream, release>> /\ sync' \in Running /\ Same /\ sync'.rpc = sync.rpc

LEMMA Carried ==
    ASSUME Works, NoteHolds(sync'.cache)
    PROVE  /\ Under' /\ RunInv' /\ Wanted' = Wanted /\ Stable' = Stable
           /\ \A o : Opt(o)' = Opt(o)
  BY DEF Works, SyncInv, Under, RunInv, NoteHolds, Same, Asks, Wanted, Stable, Opt, Running, Places

LEMMA WorldKept ==
    ASSUME Works, UNCHANGED <<tree, meta>>
    PROVE  WorldInv' /\ Present' = Present /\ HeadOf(tree)' = HeadOf(tree)
  BY DEF Works, Asks, SyncInv, WorldInv, Present, HeadOf, Shaped, NoteHolds

LEMMA AskedBeforeStep ==
    ASSUME SyncInv, AskedBefore
    PROVE  SyncInv'
<1>0. Under /\ RunInv /\ PlaceInv /\ TellsInv /\ ReviewInv /\ sync \in Running
  BY DEF SyncInv, AskedBefore, Under, RunInv
<1>1. sync.results[sync.key] \in Said /\ sync.key \in AskedAs
  BY <1>0, ResultsSay DEF AskedBefore, Known, Running
<1>2. /\ sync' \in Running /\ Same /\ Asks /\ sync'.at = "answered" /\ sync'.status = sync.results[sync.key]
      /\ sync'.results = sync.results /\ sync'.key = sync.key /\ sync'.cache = sync.cache
  BY <1>0, <1>1 DEF AskedBefore, Running, Same, Asks, Places
<1>3. Works /\ NoteHolds(sync'.cache) /\ UNCHANGED <<origin, upstream, release, tree, meta, baseline, sync.cache>>
  BY <1>0, <1>2 DEF Works, Asks, AskedBefore, RunInv
<1>4. WorldInv' /\ RunInv' /\ Under'
  BY <1>3, Carried, WorldKept
<1>5. Known' = Known /\ Known /\ Key("base")' = Key("base") /\ Accepted' = Accepted
  BY <1>2, <1>3 DEF Known, Key, Accepted, AskedBefore, HeadOf
<1>6. PlaceInv'
  BY <1>2 DEF PlaceInv
<1>7. TellsInv'
  BY <1>0, <1>2, <1>3, <1>5, Carried DEF TellsInv, SeenAll, AskedBefore, Known
<1>8. ReviewInv'
  BY <1>0, <1>2, <1>3, <1>5 DEF ReviewInv, PreflightStops, AskedBefore, Same, Asks
<1> QED  BY <1>4, <1>6, <1>7, <1>8 DEF SyncInv

(* A request is answered from where it was made: what must then hold.       *)
LEMMA AnswerStep ==
    ASSUME SyncInv, sync.at \in {"ask", "clone", "fetch"}, ~Known, NEW s \in Said, NEW n \in Notes,
           Answer(s, n) \/ (TooMany /\ s = "rate_limited" /\ n = sync.cache),
           UNCHANGED <<origin, upstream, release, meta, baseline>>,
           NEW t \in Trees \cup {Absent}, tree' = t, t # Absent => Shaped(t), NoteHolds(n),
           s \in Sources /\ t.git => t.base >= Wanted
    PROVE  SyncInv'
<1>0. Under /\ RunInv /\ PlaceInv /\ TellsInv /\ ReviewInv /\ sync \in Running /\ WorldInv
  BY DEF SyncInv, Under, RunInv
<1>1. /\ sync' \in Running /\ Same /\ Asks /\ sync'.at = "answered" /\ sync'.status = s
      /\ DOMAIN sync'.results = DOMAIN sync.results \cup {sync.key} /\ sync'.results[sync.key] = s
      /\ sync'.key = sync.key /\ sync'.cache = n
  BY <1>0, AnswerTells, TooManyTells
<1>2. Works /\ NoteHolds(sync'.cache)
  BY <1>0, <1>1 DEF Works, Asks
<1>3. WorldInv'
  BY <1>0 DEF WorldInv, Present, Shaped, NoteHolds
<1>4. RunInv' /\ Under' /\ Wanted' = Wanted
  BY <1>2, Carried
<1>5. Known' /\ Key("base")' = Key("base")
  BY <1>1 DEF Known, Key
<1>6. PlaceInv'
  BY <1>1 DEF PlaceInv
<1>7. TellsInv'
  BY <1>1, <1>4 DEF TellsInv, SeenAll
<1>8. ReviewInv'
  BY <1>0, <1>1, <1>5 DEF ReviewInv, PreflightStops, Same, Asks
<1> QED  BY <1>3, <1>4, <1>6, <1>7, <1>8 DEF SyncInv

LEMMA TurnStep ==
    ASSUME SyncInv, Turn
    PROVE  SyncInv'
<1>0. sync.at = "ask" /\ ~Known /\ Answer(Turned, sync.cache) /\ Turned # Absent
      /\ UNCHANGED <<origin, upstream, release, tree, meta, baseline>>
  BY DEF Turn
<1>1. sync \in Running /\ NoteHolds(sync.cache) /\ sync.cache \in Notes /\ WorldInv
  BY <1>0 DEF SyncInv, Under, RunInv, Running
<1>2. Turned \in Said /\ Turned \notin Sources
  BY <1>0 DEF Turned, Said, Sources
<1>3. tree \in Trees \cup {Absent} /\ (tree # Absent => Shaped(tree)) /\ tree' = tree
  BY <1>0, <1>1 DEF WorldInv, Present
<1> QED  BY <1>0, <1>1, <1>2, <1>3, AnswerStep

(* A request that is not turned away: a checkout that is there may be moved. *)
LEMMA NotTurned ==
    ASSUME Turned = Absent, Present, tree \in Trees, Shaped(tree)
    PROVE  /\ Opt("cleansrc") => ~Opt("offline") /\ ~Frozen /\ (Opt("force") \/ ~PurgeRefused(tree))
           /\ ~Opt("cleansrc") => ~Opt("offline") /\ (tree.recipe \/ ~PurgeRefused(tree))
  BY AbsentApart DEF Turned

LEMMA PurgeStep ==
    ASSUME SyncInv, Purge
    PROVE  SyncInv'
<1>0. Under /\ RunInv /\ PlaceInv /\ TellsInv /\ ReviewInv /\ sync \in Running /\ WorldInv
  BY DEF SyncInv, Under, RunInv, Purge
<1>1. NoMeta \in Notes /\ NoteHolds(NoMeta)
  BY DEF NoMeta, Notes, NoteHolds
<1>2. /\ sync' \in Running /\ Same /\ Asks /\ sync'.at = "clone" /\ sync'.results = sync.results /\ sync'.key = sync.key
      /\ sync'.cache \in {NoMeta, sync.cache} /\ sync'.status = sync.status
  BY <1>0, <1>1 DEF Purge, Running, Same, Asks, Places
<1>3. Works /\ NoteHolds(sync'.cache)
  BY <1>0, <1>1, <1>2 DEF Works, Asks, Purge, RunInv
<1>4. RunInv' /\ Under' /\ Known' = Known /\ ~Known /\ Key("base")' = Key("base")
  BY <1>2, <1>3, Carried DEF Known, Key, Purge
<1>5. WorldInv'
  BY <1>0 DEF WorldInv, Present, Purge, NoteHolds
<1>6. PlaceInv'
  BY <1>2, <1>4 DEF PlaceInv, Purge, Present
<1>7. TellsInv'
  BY <1>2 DEF TellsInv
<1>8. ReviewInv'
  BY <1>0, <1>2, <1>3, <1>4 DEF ReviewInv, PreflightStops, Purge, Same, Asks
<1> QED  BY <1>4, <1>5, <1>6, <1>7, <1>8 DEF SyncInv

(* The AUR's answer is what the checkout was synced to: the branch has not  *)
(* moved since, and HEAD has not either.                                    *)
LEMMA UnmovedIsNewest ==
    ASSUME WorldInv, RunInv, Present, Unmoved
    PROVE  tree.base >= Wanted
<1>1. tree \in Trees /\ tree.git /\ HeadOf(tree) = <<tree.base, tree.mine>> /\ tree.base \in Nat /\ tree.mine \in Mines
  BY DEF WorldInv, Present, HeadOf, Unmoved, Trees
<1>2. /\ sync.rpc # Absent /\ sync.cache.rpc = sync.rpc /\ sync.cache.head = <<tree.base, tree.mine>>
      /\ sync.rpc \in Nat /\ sync.upstream \in Nat /\ sync.upstream <= sync.rpc /\ origin.from = "aur"
  BY <1>1 DEF Unmoved, RunInv, Running
<1>3. tree.base >= sync.rpc
  BY <1>1, <1>2 DEF RunInv, NoteHolds
<1>4. Wanted = sync.upstream
  BY <1>2 DEF Wanted, Stable
<1> QED  BY <1>1, <1>2, <1>3, <1>4

LEMMA RouteStep ==
    ASSUME SyncInv, Route
    PROVE  SyncInv'
<1>0. Under /\ RunInv /\ PlaceInv /\ TellsInv /\ ReviewInv /\ sync \in Running /\ WorldInv /\ ~Known
      /\ sync.at = "ask" /\ Turned = Absent /\ ~Replaced /\ (Present => tree \in Trees /\ Shaped(tree))
      /\ UNCHANGED <<origin, upstream, release, tree, meta, baseline>>
  BY DEF SyncInv, Under, RunInv, Route, WorldInv, Present
<1>1. ASSUME NEW a \in {"clone", "fetch"}, sync' = At(a),
             a = "clone" => ~Present, a = "fetch" => Present
      PROVE  SyncInv'
  <2>1. /\ sync' \in Running /\ Same /\ Asks /\ sync'.at = a /\ sync'.results = sync.results
        /\ sync'.key = sync.key /\ sync'.cache = sync.cache
    BY <1>0, <1>1, GoesTo DEF Places
  <2>2. Works /\ NoteHolds(sync'.cache)
    BY <1>0, <2>1 DEF Works, Asks, RunInv
  <2>3. WorldInv' /\ RunInv' /\ Under' /\ Known' = Known /\ Key("base")' = Key("base") /\ Present' = Present
    BY <1>0, <2>1, <2>2, Carried, WorldKept DEF Known, Key
  <2>4. a = "fetch" => tree.recipe /\ ~Opt("offline")
    BY <1>0, <1>1, NotTurned DEF Replaced
  <2>5. PlaceInv'
    BY <1>0, <1>1, <2>1, <2>2, <2>3, <2>4, Carried DEF PlaceInv
  <2>6. TellsInv'
    BY <2>1 DEF TellsInv
  <2>7. ReviewInv'
    BY <1>0, <2>1, <2>2, <2>3 DEF ReviewInv, PreflightStops, Same, Asks
  <2> QED  BY <2>3, <2>5, <2>6, <2>7 DEF SyncInv
<1>2. ASSUME Present, Unmoved, Answer(IF origin.vcs /\ Frozen THEN "frozen" ELSE "up_to_date", sync.cache)
      PROVE  SyncInv'
  <2>1. tree.base >= Wanted
    BY <1>0, <1>2, UnmovedIsNewest
  <2>2. NoteHolds(sync.cache) /\ sync.cache \in Notes
    BY <1>0 DEF RunInv, Running
  <2> DEFINE s == IF origin.vcs /\ Frozen THEN "frozen" ELSE "up_to_date"
  <2>3. s \in Said /\ Answer(s, sync.cache)
    BY <1>2 DEF Said, Sources
  <2>4. tree \in Trees \cup {Absent} /\ (tree # Absent => Shaped(tree)) /\ tree' = tree
    BY <1>0 DEF WorldInv, Present
  <2> HIDE DEF s
  <2> QED  BY <1>0, <2>1, <2>2, <2>3, <2>4, AnswerStep
<1>3. \/ ~Present /\ sync' = At("clone")
      \/ Present /\ ~Unmoved /\ sync' = At("fetch")
      \/ Present /\ Unmoved /\ Answer(IF origin.vcs /\ Frozen THEN "frozen" ELSE "up_to_date", sync.cache)
  BY DEF Route
<1> QED  BY <1>1, <1>2, <1>3

(* What has the branch or its release is as new as a run can want, and what *)
(* is noted of it is true.                                                  *)
LEMMA MovedIsNewest ==
    ASSUME WorldInv, RunInv, NEW t \in Trees, t.git,
           t.base = IF Stable /\ release # Absent THEN release ELSE upstream
    PROVE  t.base >= Wanted /\ Noted(t) \in Notes /\ NoteHolds(Noted(t))
<1>1. t.base \in Nat /\ t.mine \in Mines /\ HeadOf(t) = <<t.base, t.mine>>
  BY AbsentApart DEF Trees, HeadOf
<1>2. sync.rpc \in Nat \cup {Absent} /\ sync.upstream \in Nat /\ sync.release \in Nat \cup {Absent}
  BY DEF RunInv, Running
<1>3. t.base >= Wanted
  BY <1>1, <1>2 DEF Wanted, WorldInv, RunInv
<1>4. Noted(t) \in Notes
  BY <1>1, <1>2 DEF Noted, Notes
<1>5. ASSUME Noted(t).rpc # Absent, NEW b \in Nat, NEW m \in Mines, Noted(t).head = <<b, m>>
      PROVE  b >= Noted(t).rpc
  <2>1. origin.from = "aur" /\ Noted(t).rpc = sync.rpc /\ b = t.base
    BY <1>1, <1>5 DEF Noted
  <2>2. t.base = upstream
    BY <2>1 DEF Stable
  <2> QED  BY <1>2, <1>5, <2>1, <2>2 DEF RunInv, WorldInv
<1> QED  BY <1>3, <1>4, <1>5 DEF NoteHolds

LEMMA CloneStep ==
    ASSUME SyncInv, Clone
    PROVE  SyncInv'
<1>0. /\ sync.at = "clone" /\ ~Known /\ WorldInv /\ RunInv /\ sync.cache \in Notes /\ NoteHolds(sync.cache)
      /\ UNCHANGED <<origin, upstream, release, meta, baseline>>
  BY DEF SyncInv, Under, RunInv, PlaceInv, Running, Clone
<1>1. /\ Fresh(upstream) \in Trees /\ Shaped(Fresh(upstream)) /\ Fresh(upstream).git /\ Fresh(upstream).recipe
      /\ Fresh(upstream).base = upstream
  BY <1>0, FreshIsTree DEF Fresh, WorldInv
<1>2. release # Absent =>
         /\ Pinned(Fresh(upstream)) \in Trees /\ Shaped(Pinned(Fresh(upstream))) /\ Pinned(Fresh(upstream)).git
         /\ Pinned(Fresh(upstream)).base = release
  BY <1>0, <1>1, PinnedIsTree DEF Shaped, WorldInv
<1>3. CASE UNCHANGED tree /\ (Answer("frozen", sync.cache) \/ Answer("failed", sync.cache) \/ TooMany)
  BY <1>0, <1>3, AnswerStep DEF Said, Sources, WorldInv, Present
<1>4. CASE ~(Stable /\ release # Absent) /\ tree' = Fresh(upstream) /\ Answer("cloned", Noted(tree'))
  <2> DEFINE t == Fresh(upstream)
  <2>1. t \in Trees /\ Shaped(t) /\ tree' = t /\ Answer("cloned", Noted(t)) /\ "cloned" \in Said
    BY <1>1, <1>4 DEF Said, Sources
  <2>2. t.base >= Wanted /\ Noted(t) \in Notes /\ NoteHolds(Noted(t))
    BY <1>0, <1>1, <1>4, MovedIsNewest
  <2> HIDE DEF t
  <2> QED  BY <1>0, <2>1, <2>2, AnswerStep
<1>5. CASE Stable /\ release # Absent /\ tree' = Pinned(Fresh(upstream)) /\ Answer("cloned", Noted(tree'))
  <2> DEFINE t == Pinned(Fresh(upstream))
  <2>1. t \in Trees /\ Shaped(t) /\ tree' = t /\ Answer("cloned", Noted(t)) /\ "cloned" \in Said
    BY <1>2, <1>5 DEF Said, Sources
  <2>2. t.base >= Wanted /\ Noted(t) \in Notes /\ NoteHolds(Noted(t))
    BY <1>0, <1>2, <1>5, MovedIsNewest
  <2> HIDE DEF t
  <2> QED  BY <1>0, <2>1, <2>2, AnswerStep
<1>6. CASE tree' = Fresh(upstream) /\ Answer("failed", sync.cache)
  BY <1>0, <1>1, <1>6, AnswerStep DEF Said, Sources
<1> QED  BY <1>3, <1>4, <1>5, <1>6 DEF Clone

LEMMA FetchStep ==
    ASSUME SyncInv, Fetch
    PROVE  SyncInv'
<1>0. /\ sync.at = "fetch" /\ ~Known /\ WorldInv /\ RunInv /\ sync.cache \in Notes /\ NoteHolds(sync.cache)
      /\ tree # Absent /\ tree.recipe
      /\ UNCHANGED <<origin, upstream, release, meta, baseline>>
  BY DEF SyncInv, Under, RunInv, PlaceInv, Running, Fetch, Present
<1>1. CASE UNCHANGED tree /\ (Answer("frozen", sync.cache) \/ Answer("failed", sync.cache) \/ TooMany)
  BY <1>0, <1>1, AnswerStep DEF Said, Sources, WorldInv, Present
<1>2. ASSUME NEW x \in Fetched, tree' = x[2],
             Answer(CASE x[1] = "not_a_repo" -> "up_to_date" [] x[1] = "no_tracking" -> "skipped_no_tracking"
                      [] OTHER -> x[1],
                    IF x[1] \in {"up_to_date", "fetched"} THEN Noted(x[2]) ELSE sync.cache)
      PROVE  SyncInv'
  <2> DEFINE s == CASE x[1] = "not_a_repo" -> "up_to_date" [] x[1] = "no_tracking" -> "skipped_no_tracking"
                    [] OTHER -> x[1]
             n == IF x[1] \in {"up_to_date", "fetched"} THEN Noted(x[2]) ELSE sync.cache
  <2>1. /\ x[1] \in {"not_a_repo", "no_tracking", "up_to_date", "fetched", "diverged", "failed"}
        /\ x[2] \in Trees /\ Shaped(x[2])
        /\ x[1] = "not_a_repo" => ~x[2].git
        /\ x[1] \in {"up_to_date", "fetched"} =>
              x[2].git /\ x[2].base = IF Stable /\ release # Absent THEN release ELSE upstream
    BY <1>0, <1>2, FetchedAs
  <2>2. x[1] \in {"up_to_date", "fetched"} =>
           x[2].base >= Wanted /\ Noted(x[2]) \in Notes /\ NoteHolds(Noted(x[2]))
    BY <1>0, <2>1, MovedIsNewest
  <2>3. s \in Said /\ (s \in Sources => x[1] \in {"not_a_repo", "up_to_date", "fetched"})
    BY <2>1 DEF Said, Sources
  <2>4. n \in Notes /\ NoteHolds(n)
    BY <1>0, <2>2
  <2>5. Answer(s, n)
    BY <1>2
  <2> HIDE DEF s, n
  <2> QED  BY <1>0, <1>2, <2>1, <2>2, <2>3, <2>4, <2>5, AnswerStep
<1> QED  BY <1>1, <1>2 DEF Fetch
-----------------------------------------------------------------------------
(* The steps of the verbs.                                                  *)

LEMMA StopStep ==
    ASSUME SyncInv, Under, sync' = At("end"), UNCHANGED <<origin, upstream, release>>, WorldInv'
    PROVE  SyncInv'
<1>0. RunInv /\ ReviewInv /\ sync \in Running
  BY DEF SyncInv, RunInv
<1>1. /\ sync' \in Running /\ Same /\ Asks /\ sync'.at = "end" /\ sync'.results = sync.results
      /\ sync'.key = sync.key /\ sync'.cache = sync.cache
  BY <1>0, GoesTo DEF Places
<1>2. Works /\ NoteHolds(sync'.cache)
  BY <1>0, <1>1 DEF Works, Asks, RunInv
<1>3. RunInv' /\ Under' /\ Known' = Known /\ Key("base")' = Key("base")
  BY <1>1, <1>2, Carried DEF Known, Key
<1>4. PlaceInv' /\ TellsInv'
  BY <1>1 DEF PlaceInv, TellsInv
<1>5. ReviewInv'
  BY <1>0, <1>1, <1>3 DEF ReviewInv, PreflightStops, Same, Asks
<1> QED  BY <1>3, <1>4, <1>5 DEF SyncInv

LEMMA ToBuildStep ==
    ASSUME SyncInv, Under, sync' = At("build"), UNCHANGED <<origin, upstream, release>>, WorldInv',
           sync.verb = "build" => sync.reviewed,
           sync.verb \in {"build", "update"} /\ sync.gate # "off" => Accepted' \/ (sync.verb = "build" /\ ~origin.named),
           sync.verb = "toolchain" /\ sync.gate = "strict" => ~PurgeRefused(tree)'
    PROVE  SyncInv'
<1>0. RunInv /\ ReviewInv /\ sync \in Running
  BY DEF SyncInv, RunInv
<1>1. /\ sync' \in Running /\ Same /\ Asks /\ sync'.at = "build" /\ sync'.results = sync.results
      /\ sync'.key = sync.key /\ sync'.cache = sync.cache
  BY <1>0, GoesTo DEF Places
<1>2. Works /\ NoteHolds(sync'.cache)
  BY <1>0, <1>1 DEF Works, Asks, RunInv
<1>3. RunInv' /\ Under' /\ Known' = Known /\ Key("base")' = Key("base")
  BY <1>1, <1>2, Carried DEF Known, Key
<1>4. PlaceInv' /\ TellsInv'
  BY <1>1 DEF PlaceInv, TellsInv
<1>5. ReviewInv'
  BY <1>0, <1>1, <1>3 DEF ReviewInv, PreflightStops, Same, Asks
<1> QED  BY <1>3, <1>4, <1>5 DEF SyncInv

LEMMA BeginStep ==
    ASSUME SyncInv, NEW i \in Invocations, Begin(i)
    PROVE  SyncInv'
<1>0. WorldInv /\ UNCHANGED <<origin, upstream, release, tree, meta, baseline>>
      /\ i.verb \in {"update", "build", "kernel", "toolchain"}
      /\ i.opts \in SUBSET {"cleansrc", "impatient", "devel", "offline", "force", "main",
                            "frozen", "noaur", "noupdate"}
      /\ i.gate \in {"prompt", "accept", "off", "strict"}
  BY InvocationsTyped DEF SyncInv, Begin
<1>s. ("noupdate" \in i.opts => i.verb = "toolchain") /\ (i.verb = "toolchain" => "offline" \notin i.opts)
  BY StageSwitches
<1> DEFINE k == Key(IF i.verb = "build" /\ i.gate # "off" THEN "base" ELSE "directory")
           a == IF i.verb = "update" THEN "rpc" ELSE IF "noupdate" \in i.opts THEN "probe" ELSE "ask"
<1>1. k \in AskedAs /\ a \in Places
  BY DEF Key, AskedAs, Places
<1>2. <<>> \in Results /\ DOMAIN <<>> = {} /\ meta \in Notes /\ upstream \in Nat /\ release \in Nat \cup {Absent}
  BY <1>0, NoResults DEF WorldInv
<1>3. sync' = [at |-> a, verb |-> i.verb, opts |-> i.opts, gate |-> i.gate, rpc |-> Absent, aborted |-> FALSE,
                results |-> <<>>, cache |-> meta, status |-> Absent, closed |-> FALSE, key |-> k,
                forced |-> i.verb = "kernel" \/ (i.verb = "build" /\ i.gate = "off"),
                reviewed |-> i.verb # "build" \/ i.gate = "off",
                upstream |-> upstream, release |-> release]
  BY DEF Begin
<1> HIDE DEF k, a
<1>4. sync' \in Running
  BY <1>0, <1>1, <1>2, <1>3 DEF Running
<1>5. /\ sync'.at = a /\ sync'.verb = i.verb /\ sync'.opts = i.opts /\ sync'.gate = i.gate /\ sync'.rpc = Absent
      /\ sync'.results = <<>> /\ sync'.cache = meta /\ sync'.key = k
      /\ sync'.reviewed = (i.verb # "build" \/ i.gate = "off")
      /\ sync'.upstream = upstream /\ sync'.release = release
  BY <1>3
<1> HIDE <1>3
<1>6. ~Known'
  BY <1>2, <1>5 DEF Known
<1>7. WorldInv'
  BY <1>0 DEF WorldInv, Present, Shaped, NoteHolds
<1>8. RunInv' /\ Under'
  BY <1>0, <1>s, <1>2, <1>4, <1>5 DEF RunInv, WorldInv, NoteHolds, Opt, Under, a
<1>9. PlaceInv'
  <2>1. (a = "rpc" => i.verb = "update") /\ (a = "probe" => i.verb = "toolchain")
        /\ a \notin {"clone", "fetch", "review"}
    BY <1>s DEF a
  <2> QED  BY <1>2, <1>5, <1>6, <2>1 DEF PlaceInv
<1>10. TellsInv'
  BY <1>5, <1>6 DEF TellsInv, a
<1>11. ReviewInv'
  <2>1. i.verb = "build" => a = "ask"
    BY <1>s DEF a
  <2>2. i.verb = "build" /\ i.gate # "off" => k = Key("base") /\ Key("base")' = Key("base")
    BY <1>0 DEF k, Key
  <2>3. a # "build"
    BY DEF a
  <2> QED  BY <1>2, <1>5, <2>1, <2>2, <2>3 DEF ReviewInv, PreflightStops
<1> QED  BY <1>7, <1>8, <1>9, <1>10, <1>11 DEF SyncInv

LEMMA ReadRpcStep ==
    ASSUME SyncInv, ReadRpc
    PROVE  SyncInv'
<1>0. Under /\ RunInv /\ PlaceInv /\ ReviewInv /\ sync \in Running /\ WorldInv /\ sync.at = "rpc"
      /\ sync.verb = "update" /\ DOMAIN sync.results = {} /\ ~Known
      /\ UNCHANGED <<origin, upstream, release, tree, meta, baseline>>
  BY DEF SyncInv, Under, RunInv, ReadRpc, PlaceInv, Known
<1>1. CASE sync' = At("review")
  <2>1. /\ sync' \in Running /\ Same /\ Asks /\ sync'.at = "review" /\ sync'.results = sync.results
        /\ sync'.key = sync.key /\ sync'.cache = sync.cache
    BY <1>0, <1>1, GoesTo DEF Places
  <2>2. Works /\ NoteHolds(sync'.cache)
    BY <1>0, <2>1 DEF Works, Asks, RunInv, SyncInv
  <2>3. WorldInv' /\ RunInv' /\ Under' /\ Known' = Known
    BY <1>0, <2>1, <2>2, Carried, WorldKept DEF Known
  <2>4. PlaceInv' /\ TellsInv' /\ ReviewInv'
    BY <1>0, <2>1, <2>3 DEF PlaceInv, TellsInv, ReviewInv, PreflightStops, Same
  <2> QED  BY <2>3, <2>4 DEF SyncInv
<1>2. ASSUME NEW told \in {Absent} \cup (IF origin.from = "aur" /\ ~Opt("noaur") /\ ~Opt("offline")
                                        THEN {upstream} ELSE {}),
             sync' = [Ask("base", FALSE) EXCEPT !.rpc = told]
      PROVE  SyncInv'
  <2>1. Key("base") \in AskedAs /\ told \in Nat \cup {Absent}
    BY <1>0 DEF Key, AskedAs, WorldInv
  <2>2. /\ sync' \in Running /\ Same /\ sync'.reviewed = sync.reviewed /\ sync'.at = "ask"
        /\ sync'.results = sync.results /\ sync'.cache = sync.cache /\ sync'.rpc = told
    BY <1>0, <1>2, <2>1 DEF Ask, Running, Same, Places
  <2>3. ~Known'
    BY <1>0, <2>2 DEF Known
  <2>4. WorldInv'
    BY <1>0 DEF WorldInv, Present, Shaped, NoteHolds
  <2>5. RunInv' /\ Under'
    <3>1. told # Absent => told = upstream /\ origin.from = "aur"
      BY <1>2
    <3> QED  BY <1>0, <2>2, <3>1 DEF RunInv, WorldInv, NoteHolds, Opt, Same, Under, Running
  <2>6. PlaceInv' /\ TellsInv' /\ ReviewInv'
    BY <1>0, <2>2, <2>3 DEF PlaceInv, TellsInv, ReviewInv, PreflightStops, Same
  <2> QED  BY <2>4, <2>5, <2>6 DEF SyncInv
<1> QED  BY <1>1, <1>2 DEF ReadRpc

LEMMA OthersLimitedStep ==
    ASSUME SyncInv, OthersLimited
    PROVE  SyncInv'
<1>0. Under /\ RunInv /\ PlaceInv /\ TellsInv /\ ReviewInv /\ sync \in Running
      /\ UNCHANGED <<origin, upstream, release, tree, meta, baseline>>
  BY DEF SyncInv, Under, RunInv, OthersLimited
<1>1. /\ sync' \in Running /\ Same /\ Asks /\ sync'.at = sync.at /\ sync'.status = sync.status
      /\ sync'.results = sync.results /\ sync'.key = sync.key /\ sync'.cache = sync.cache
  BY <1>0 DEF OthersLimited, Running, Same, Asks
<1>2. Works /\ NoteHolds(sync'.cache)
  BY <1>0, <1>1 DEF Works, Asks, RunInv
<1>3. WorldInv' /\ RunInv' /\ Under' /\ Known' = Known /\ Key("base")' = Key("base") /\ Accepted' = Accepted
      /\ Present' = Present /\ SeenAll' = SeenAll
  BY <1>0, <1>1, <1>2, Carried, WorldKept DEF Known, Key, Accepted, SeenAll
<1>4. PlaceInv' /\ TellsInv'
  BY <1>0, <1>1, <1>3 DEF PlaceInv, TellsInv, Opt, Same, OthersLimited
<1>5. ReviewInv'
  BY <1>0, <1>1, <1>3 DEF ReviewInv, PreflightStops, Same, Asks, OthersLimited
<1> QED  BY <1>3, <1>4, <1>5 DEF SyncInv

LEMMA GoStep ==
    ASSUME SyncInv, Go
    PROVE  SyncInv'
<1>0. Under /\ RunInv /\ PlaceInv /\ TellsInv /\ ReviewInv /\ sync \in Running /\ WorldInv /\ sync.at = "answered"
      /\ sync.cache \in Notes /\ NoteHolds(sync.cache) /\ UNCHANGED <<origin, upstream, release, tree, baseline>>
  BY DEF SyncInv, Under, RunInv, Go, Running
<1>1. ASSUME meta' \in {meta, sync.cache} PROVE WorldInv'
  BY <1>0, <1>1 DEF WorldInv, Present, Shaped, NoteHolds
<1>2. ASSUME sync.verb = "build", ~sync.reviewed, sync' = At("review"), meta' = meta PROVE SyncInv'
  <2>1. /\ sync' \in Running /\ Same /\ Asks /\ sync'.at = "review" /\ sync'.results = sync.results
        /\ sync'.key = sync.key /\ sync'.cache = sync.cache
    BY <1>0, <1>2, GoesTo DEF Places
  <2>2. Works /\ NoteHolds(sync'.cache)
    BY <1>0, <2>1 DEF Works, Asks, RunInv
  <2>3. WorldInv' /\ RunInv' /\ Under' /\ Known' = Known /\ Key("base")' = Key("base") /\ SeenAll' = SeenAll
    BY <1>0, <1>1, <1>2, <2>1, <2>2, Carried DEF Known, Key, SeenAll
  <2>4. PlaceInv' /\ TellsInv' /\ ReviewInv'
    BY <1>0, <1>2, <2>1, <2>3 DEF PlaceInv, TellsInv, ReviewInv, PreflightStops, Same, Asks, Known
  <2> QED  BY <2>3, <2>4 DEF SyncInv
<1>3. ASSUME sync.verb = "update", meta' = sync.cache, NEW a \in {"end", "review"},
             sync' = [sync EXCEPT !.closed = TRUE, !.at = a]
      PROVE  SyncInv'
  <2>1. /\ sync' \in Running /\ Same /\ Asks /\ sync'.at = a /\ sync'.results = sync.results
        /\ sync'.key = sync.key /\ sync'.cache = sync.cache
    BY <1>0, <1>3 DEF Running, Same, Asks, Places
  <2>2. Works /\ NoteHolds(sync'.cache)
    BY <1>0, <2>1 DEF Works, Asks, RunInv
  <2>3. WorldInv' /\ RunInv' /\ Under' /\ Known' = Known /\ SeenAll' = SeenAll
    BY <1>0, <1>1, <1>3, <2>1, <2>2, Carried DEF Known, SeenAll
  <2>4. PlaceInv' /\ TellsInv' /\ ReviewInv'
    BY <1>0, <1>3, <2>1, <2>3 DEF PlaceInv, TellsInv, ReviewInv, PreflightStops, Same, Asks, Known
  <2> QED  BY <2>3, <2>4 DEF SyncInv
<1>4. ASSUME meta' = meta, sync' = At("end") PROVE SyncInv'
  BY <1>0, <1>1, <1>4, StopStep
<1>5. ASSUME meta' = meta, sync.verb = "toolchain", sync' = At("probe") PROVE SyncInv'
  <2>1. /\ sync' \in Running /\ Same /\ Asks /\ sync'.at = "probe" /\ sync'.results = sync.results
        /\ sync'.key = sync.key /\ sync'.cache = sync.cache
    BY <1>0, <1>5, GoesTo DEF Places
  <2>2. Works /\ NoteHolds(sync'.cache)
    BY <1>0, <2>1 DEF Works, Asks, RunInv
  <2>3. WorldInv' /\ RunInv' /\ Under'
    BY <1>0, <1>1, <1>5, <2>1, <2>2, Carried
  <2>4. PlaceInv' /\ TellsInv' /\ ReviewInv'
    BY <1>0, <1>5, <2>1, <2>3 DEF PlaceInv, TellsInv, ReviewInv, PreflightStops, Same, Asks
  <2> QED  BY <2>3, <2>4 DEF SyncInv
<1>6. ASSUME meta' = meta, sync.verb \notin {"toolchain", "update"}, sync.reviewed, sync' = At("build") PROVE SyncInv'
  <2>1. sync.verb = "build" /\ sync.gate # "off" => Accepted' \/ ~origin.named
    BY <1>0, <1>6 DEF ReviewInv, Accepted, HeadOf
  <2> QED  BY <1>0, <1>1, <1>6, <2>1, ToBuildStep
<1>7. CASE sync.verb = "build" /\ ~sync.reviewed /\ sync' = At("review") /\ UNCHANGED meta
  BY <1>2, <1>7
<1>8. CASE /\ sync.verb = "update" /\ meta' = sync.cache
           /\ sync' = [sync EXCEPT !.closed = TRUE, !.at = IF sync.status \in Blocking THEN "end" ELSE "review"]
  <2>1. CASE sync.status \in Blocking
    BY <1>3, <1>8, <2>1
  <2>2. CASE sync.status \notin Blocking
    BY <1>3, <1>8, <2>2
  <2> QED  BY <2>1, <2>2
<1>9. CASE sync.reviewed /\ sync.verb # "update" /\ UNCHANGED meta
           /\ (sync' = At("end") \/ sync' = At(IF sync.verb = "toolchain" THEN "probe" ELSE "build"))
  BY <1>4, <1>5, <1>6, <1>9
<1> QED  BY <1>7, <1>8, <1>9 DEF Go

(* What is built next was accepted, or the review is off.                   *)
LEMMA ReviewStep ==
    ASSUME SyncInv, Review
    PROVE  SyncInv'
<1>0. Under /\ RunInv /\ PlaceInv /\ TellsInv /\ ReviewInv /\ sync \in Running /\ WorldInv /\ sync.at = "review"
      /\ UNCHANGED <<origin, upstream, release, tree, meta>> /\ sync.verb \in {"update", "build"}
      /\ (sync.verb = "build" => ~sync.reviewed /\ Known /\ sync.key = Key("base") /\ DOMAIN sync.results \subseteq {sync.key})
  BY DEF SyncInv, Under, RunInv, Review, PlaceInv, ReviewInv
<1>1. WorldInv'
  BY <1>0 DEF WorldInv, Present, Shaped, NoteHolds
<1>2. PICK decision \in Decisions :
          /\ sync' = IF decision = "skip" THEN At("end") ELSE Next1
          /\ baseline' = IF decision = "accept" THEN HeadOf(tree) ELSE baseline
  BY DEF Review
<1>3. CASE decision = "skip"
  BY <1>0, <1>1, <1>2, <1>3, StopStep
<1>4. CASE decision # "skip"
  <2>1. sync.gate # "off" => Accepted'
    BY <1>0, <1>2, <1>4 DEF Decisions, Differs, Accepted, HeadOf
  <2>2. CASE sync.verb = "update"
    <3>1. sync' = At("build")
      BY <1>2, <1>4, <2>2 DEF Next1
    <3> QED  BY <1>0, <1>1, <2>1, <2>2, <3>1, ToBuildStep
  <2>3. CASE sync.verb = "build"
    <3>0. Key("directory") \in AskedAs /\ Key("directory")' = Key("directory")
          /\ (origin.named => Key("directory") = Key("base")) /\ (~origin.named => Key("directory") # Key("base"))
      BY <1>0 DEF Key, AskedAs
    <3>1. sync' = [Ask("directory", TRUE) EXCEPT !.reviewed = TRUE]
      BY <1>2, <1>4, <2>3 DEF Next1
    <3>2. /\ sync' \in Running /\ Same /\ sync'.reviewed /\ sync'.at = "ask" /\ sync'.key = Key("directory")
          /\ sync'.results = sync.results /\ sync'.cache = sync.cache /\ sync'.rpc = sync.rpc
      BY <1>0, <3>0, <3>1 DEF Ask, Running, Same, Places
    <3>3. Works /\ NoteHolds(sync'.cache)
      BY <1>0, <3>2 DEF Works, RunInv
    <3>4. RunInv' /\ Under' /\ SeenAll' = SeenAll
      BY <1>0, <3>3, Carried DEF SeenAll
    <3>5. IF origin.named THEN Known' /\ sync'.key = sync.key ELSE ~Known'
      BY <1>0, <2>3, <3>0, <3>2 DEF Known
    <3>6. PlaceInv' /\ TellsInv'
      BY <1>0, <3>2, <3>4, <3>5 DEF PlaceInv, TellsInv, Known
    <3>7. ReviewInv'
      BY <1>0, <2>1, <2>3, <3>2, <3>5 DEF ReviewInv, PreflightStops, Same
    <3> QED  BY <1>1, <3>4, <3>6, <3>7 DEF SyncInv
  <2> QED  BY <1>0, <2>2, <2>3
<1> QED  BY <1>3, <1>4

(* The pre-flight's fetch moves a checkout only forward and only a clean    *)
(* one, and what it lets pass a purge would not refuse.                     *)
LEMMA ProbedAs ==
    ASSUME WorldInv, Present, NEW x \in Probed
    PROVE  /\ x[2] \in Trees /\ Shaped(x[2]) /\ Keeps(tree, x[2])
           /\ Frozen => x[2] = tree
           /\ ~Blocked(tree, x[1]) => ~PurgeRefused(x[2])
<1>0. tree \in Trees /\ Shaped(tree) /\ upstream \in Nat /\ \A t \in Trees : t # Absent
  BY AbsentApart DEF WorldInv, Present
<1>1. CASE x = <<"unmoved", tree>>
  <2>1. x[1] = "unmoved" /\ x[2] = tree
    BY <1>1
  <2> QED  BY <1>0, <2>1, ReportedCovers DEF Keeps, Blocked
<1>2. CASE x # <<"unmoved", tree>>
  <2> DEFINE t == [tree EXCEPT !.seen = upstream]
  <2>1. /\ ~Frozen /\ tree.git /\ tree.tracks
        /\ x = IF t.mine # "none" \/ (t.base # upstream /\ t.edits # "none") THEN <<"diverged", t>>
               ELSE IF t.base = upstream THEN <<"unmoved", t>> ELSE <<"unmoved", Fresh(upstream)>>
    BY <1>2 DEF Probed
  <2>2. /\ t \in Trees /\ Shaped(t) /\ t.edits = tree.edits /\ t.mine = tree.mine /\ t.base = tree.base
        /\ t.git /\ t.tracks /\ t.seen = upstream
    BY <1>0, <2>1 DEF Trees, Shaped
  <2> HIDE DEF t
  <2>3. CASE x = <<"diverged", t>>
    <3>1. x[1] = "diverged" /\ x[2] = t
      BY <2>3
    <3> QED  BY <1>0, <2>1, <2>2, <3>1 DEF Keeps, Blocked
  <2>4. CASE x = <<"unmoved", t>> /\ t.mine = "none" /\ t.base = upstream
    <3>1. x[1] = "unmoved" /\ x[2] = t
      BY <2>4
    <3>2. ASSUME ~Reported(tree) PROVE ~PurgeRefused(t)
      <4>1. t.edits = "none"
        BY <1>0, <2>1, <2>2, <3>2, ReportedCovers
      <4>2. History(t) = "clean"
        BY <2>2, <2>4 DEF History
      <4> QED  BY <4>1, <4>2 DEF PurgeRefused, Uncommitted
    <3> QED  BY <1>0, <2>1, <2>2, <3>1, <3>2 DEF Keeps, Blocked
  <2>5. CASE x = <<"unmoved", Fresh(upstream)>> /\ t.mine = "none" /\ t.edits = "none"
    <3>1. x[1] = "unmoved" /\ x[2] = Fresh(upstream)
      BY <2>5
    <3>2. Fresh(upstream) \in Trees /\ Shaped(Fresh(upstream)) /\ ~PurgeRefused(Fresh(upstream))
      BY <1>0, FreshIsTree DEF Fresh, PurgeRefused, Uncommitted, History
    <3> QED  BY <1>0, <2>1, <2>2, <2>5, <3>1, <3>2 DEF Keeps
  <2> QED  BY <2>1, <2>3, <2>4, <2>5
<1> QED  BY <1>1, <1>2

LEMMA PreflightStep ==
    ASSUME SyncInv, Preflight
    PROVE  SyncInv'
<1>0. Under /\ PlaceInv /\ WorldInv /\ sync.at = "probe" /\ Present /\ sync.verb = "toolchain"
      /\ UNCHANGED <<origin, upstream, release, meta, baseline>>
  BY DEF SyncInv, Under, Preflight, PlaceInv
<1>1. PICK x \in Probed :
          /\ tree' = x[2]
          /\ sync' = IF sync.gate = "strict" /\ Blocked(tree, x[1]) THEN At("end") ELSE At("build")
  BY DEF Preflight
<1>2. x[2] \in Trees /\ Shaped(x[2]) /\ (~Blocked(tree, x[1]) => ~PurgeRefused(x[2]))
  BY <1>0, <1>1, ProbedAs
<1>3. WorldInv'
  BY <1>0, <1>1, <1>2 DEF WorldInv, Present, NoteHolds
<1>4. CASE sync.gate = "strict" /\ Blocked(tree, x[1])
  BY <1>0, <1>1, <1>3, <1>4, StopStep
<1>5. CASE ~(sync.gate = "strict" /\ Blocked(tree, x[1]))
  <2>1. sync.gate = "strict" => ~PurgeRefused(tree)'
    BY <1>0, <1>1, <1>2, <1>5 DEF PurgeRefused, Uncommitted
  <2> QED  BY <1>0, <1>1, <1>3, <1>5, <2>1, ToBuildStep
<1> QED  BY <1>4, <1>5

LEMMA UnresolvedStep ==
    ASSUME SyncInv, Unresolved
    PROVE  SyncInv'
<1>1. WorldInv' /\ Under
  BY DEF SyncInv, Unresolved, WorldInv, Present, NoteHolds, Under
<1> QED  BY <1>1, StopStep DEF Unresolved

LEMMA MakeStep ==
    ASSUME SyncInv, Make
    PROVE  SyncInv'
<1>1. WorldInv' /\ Under
  <2>1. CASE tree' = tree
    BY <2>1 DEF SyncInv, Make, WorldInv, Present, NoteHolds, Under
  <2>2. CASE Present /\ tree.git /\ tree.edits = "none" /\ tree' = [tree EXCEPT !.edits = "pkgver"]
    <3>1. tree' \in Trees /\ Shaped(tree')
      BY <2>2 DEF SyncInv, WorldInv, Present, Shaped, Trees
    <3> QED  BY <2>2, <3>1 DEF SyncInv, Make, WorldInv, Present, NoteHolds, Under
  <2> QED  BY <2>1, <2>2 DEF Make
<1> QED  BY <1>1, StopStep DEF Make

(* A run that ends or is killed leaves what it had noted, or what was noted *)
(* before.                                                                  *)
LEMMA EndStep ==
    ASSUME SyncInv, EndRun \/ KillRun
    PROVE  SyncInv'
<1>1. Under /\ WorldInv /\ sync.cache \in Notes /\ NoteHolds(sync.cache) /\ sync' = Resting
      /\ meta' \in {meta, sync.cache} /\ UNCHANGED <<origin, upstream, release, tree>>
  BY DEF SyncInv, Under, RunInv, Running, EndRun, KillRun
<1>2. WorldInv'
  BY <1>1 DEF WorldInv, Present, NoteHolds
<1> QED  BY <1>1, <1>2 DEF SyncInv, Under, Resting

(* Upstream moves under a run, which knows what it saw when it began.       *)
LEMMA UpstreamStep ==
    ASSUME SyncInv, Push \/ Publish
    PROVE  SyncInv'
<1>0. WorldInv /\ UNCHANGED <<origin, tree, meta, baseline, sync>>
  BY DEF SyncInv, Push, Publish
<1>1. /\ upstream' \in Nat /\ upstream' >= upstream /\ release' \in Nat \cup {Absent}
      /\ release' # Absent <=> release # Absent
      /\ release' # Absent => release' <= upstream' /\ release <= release'
  BY <1>0, AbsentApart DEF WorldInv, Push, Publish
<1>2. WorldInv'
  BY <1>0, <1>1 DEF WorldInv, Present, NoteHolds
<1>3. Under' = Under
  BY <1>0 DEF Under
<1>4. CASE Under
  <2>1. RunInv /\ PlaceInv /\ TellsInv /\ ReviewInv /\ sync \in Running
    BY <1>4 DEF SyncInv, RunInv
  <2>2. RunInv'
    BY <1>0, <1>1, <2>1 DEF RunInv, WorldInv, Running, Opt, NoteHolds
  <2>3. PlaceInv' /\ ReviewInv'
    BY <1>0, <2>1 DEF PlaceInv, ReviewInv, Present, Opt, Known, Key, Accepted, HeadOf, PreflightStops,
                      PurgeRefused, Uncommitted, History
  <2>4. Wanted' = Wanted
    BY <1>0, <1>1 DEF Wanted, Stable, Opt
  <2>5. TellsInv'
    BY <1>0, <2>1, <2>4 DEF TellsInv, SeenAll, Known
  <2> QED  BY <1>2, <1>3, <1>4, <2>2, <2>3, <2>5 DEF SyncInv
<1>5. CASE ~Under
  BY <1>0, <1>2, <1>3, <1>5 DEF SyncInv
<1> QED  BY <1>4, <1>5

LEMMA ByHandStep ==
    ASSUME SyncInv, ByHand
    PROVE  SyncInv'
<1>0. WorldInv /\ sync = Resting /\ UNCHANGED <<origin, upstream, release, meta, sync>>
  BY DEF SyncInv, ByHand, Under
<1>1. tree' \in Trees \cup {Absent} /\ (tree' # Absent => Shaped(tree'))
  <2>1. CASE tree' = Absent
    BY <2>1
  <2>2. CASE Present /\ tree.git /\ tree' \in Handled(tree)
    <3>0. tree \in Trees /\ tree.git /\ Shaped(tree) /\ tree.base \in Nat
      BY <1>0, <2>2 DEF WorldInv, Trees, Present
    <3>1. CASE \E c \in 1..(tree.base - 1) : tree' = [tree EXCEPT !.base = c]
      <4>1. PICK c \in 1..(tree.base - 1) : tree' = [tree EXCEPT !.base = c]
        BY <3>1
      <4>2. c \in Nat
        BY <3>0
      <4> QED  BY <3>0, <4>1, <4>2 DEF Trees, Shaped
    <3>2. CASE tree' \in {[tree EXCEPT !.edits = "user"], [tree EXCEPT !.edits = "none", !.recipe = TRUE]}
      BY <3>0, <3>2 DEF Trees, Shaped
    <3>3. CASE tree' = [tree EXCEPT !.edits = "user", !.recipe = FALSE]
      BY <3>0, <3>3 DEF Trees, Shaped
    <3>4. CASE tree' = [tree EXCEPT !.mine = "user", !.edits = "none"]
      BY <3>0, <3>4 DEF Trees, Shaped, Mines
    <3>5. CASE tree' = [tree EXCEPT !.mine = IF tree.mine = "none" THEN "other" ELSE tree.mine]
      BY <3>0, <3>5 DEF Trees, Shaped, Mines
    <3> QED  BY <2>2, <3>1, <3>2, <3>3, <3>4, <3>5 DEF Handled
  <2> QED  BY <2>1, <2>2 DEF ByHand
<1>2. WorldInv'
  BY <1>0, <1>1 DEF WorldInv, Present, NoteHolds
<1> QED  BY <1>0, <1>2 DEF SyncInv, Under, Resting

LEMMA RestStep ==
    ASSUME SyncInv, UNCHANGED syncVars
    PROVE  SyncInv'
  BY DEF syncVars, SyncInv, Under, WorldInv, RunInv, PlaceInv, TellsInv, ReviewInv, PreflightStops, Present, Opt,
         Known, Key, Accepted, HeadOf, NoteHolds, PurgeRefused, Uncommitted, History, Wanted, Stable, SeenAll

LEMMA SyncStep ==
    ASSUME SyncInv, [NextSync]_syncVars
    PROVE  SyncInv'
<1>1. ASSUME NEW i \in Invocations, Begin(i) PROVE SyncInv'
  BY <1>1, BeginStep
<1>2. CASE Request
  BY <1>2, AskedBeforeStep, TurnStep, PurgeStep, RouteStep, CloneStep, FetchStep DEF Request
<1>3. CASE ReadRpc \/ OthersLimited \/ Go \/ Review
  BY <1>3, ReadRpcStep, OthersLimitedStep, GoStep, ReviewStep
<1>4. CASE Preflight \/ Unresolved \/ Make \/ EndRun \/ KillRun
  BY <1>4, PreflightStep, UnresolvedStep, MakeStep, EndStep
<1>5. CASE Push \/ Publish \/ ByHand \/ UNCHANGED syncVars
  BY <1>5, UpstreamStep, ByHandStep, RestStep
<1> QED  BY <1>1, <1>2, <1>3, <1>4, <1>5 DEF NextSync

LEMMA SyncStart ==
    ASSUME InitSync
    PROVE  SyncInv
<1>1. Fresh(1) \in Trees /\ Shaped(Fresh(1))
  BY FreshIsTree
<1>2. tree \in Trees \cup {Absent} /\ (Present => Shaped(tree))
  BY <1>1 DEF InitSync, Trees, Shaped, Present, Fresh, Mines
<1>3. WorldInv
  BY <1>2, AbsentApart DEF InitSync, WorldInv, NoMeta, Notes, NoteHolds
<1> QED  BY <1>3 DEF SyncInv, InitSync, Under, Resting

(* FreshOrSaid, BuiltIsReviewed and PreflightStops (source_sync.py, the     *)
(* review gate and the LLVM pre-flight), for any number of runs, of moves   *)
(* of the branch and of edits in between.                                   *)
THEOREM SourcesTrue == SyncSpec => []SourcesSound
<1>1. ASSUME SyncInv PROVE SourcesSound
  <2>1. CASE ~Under
    <3>1. sync.at = "rest"
      BY <2>1 DEF Under
    <3> QED  BY <3>1 DEF SourcesSound, FreshOrSaid, BuiltIsReviewed, PreflightStops
  <2>2. CASE Under
    <3>1. TellsInv /\ ReviewInv /\ RunInv /\ WorldInv
      BY <1>1, <2>2 DEF SyncInv
    <3>2. FreshOrSaid
      BY <3>1 DEF FreshOrSaid, TellsInv, SeenAll, Wanted, Sources
    <3>3. BuiltIsReviewed
      BY <3>1 DEF BuiltIsReviewed, ReviewInv, Accepted
    <3>4. PreflightStops
      BY <3>1 DEF ReviewInv
    <3> QED  BY <3>2, <3>3, <3>4 DEF SourcesSound
  <2> QED  BY <2>1, <2>2
<1> QED  BY <1>1, SyncStart, SyncStep, PTL DEF SyncSpec

(* A run outside its build leaves the checkout as it is or moves it as      *)
(* CheckoutSafe allows.                                                     *)
LEMMA SafeStep ==
    ASSUME SyncInv, [NextSync]_syncVars, sync.at \notin {"rest", "build"}, Present
    PROVE  /\ Keeps(tree, tree') \/ (Opt("cleansrc") /\ Opt("force")) \/ PinMoved
           /\ Opt("offline") \/ Frozen => tree' = tree \/ (~tree.git /\ ~tree.recipe)
<1>0. /\ WorldInv /\ RunInv /\ PlaceInv /\ tree \in Trees /\ Shaped(tree) /\ tree # Absent
      /\ upstream \in Nat
  BY DEF SyncInv, Under, WorldInv, Present
<1>1. CASE tree' = tree
  BY <1>0, <1>1 DEF Keeps
<1>2. CASE Purge
  <2>1. Turned = Absent /\ Replaced /\ tree' = Absent
    BY <1>2 DEF Purge
  <2>2. CASE Opt("cleansrc")
    <3>1. ~Opt("offline") /\ ~Frozen /\ (Opt("force") \/ ~PurgeRefused(tree))
      BY <1>0, <2>1, <2>2, NotTurned
    <3> QED  BY <1>0, <2>1, <2>2, <3>1, PurgeSpares DEF Keeps
  <2>3. CASE ~Opt("cleansrc")
    <3>1. ~tree.recipe /\ ~PurgeRefused(tree)
      BY <1>0, <2>1, <2>3, NotTurned DEF Replaced
    <3>2. tree.edits # "user" /\ tree.mine # "user"
      BY <1>0, <3>1, PurgeSpares
    <3>3. ~tree.git
      BY <1>0, <3>1, <3>2 DEF Shaped
    <3> QED  BY <2>1, <3>1, <3>2, <3>3 DEF Keeps
  <2> QED  BY <2>2, <2>3
<1>3. CASE Fetch /\ tree' # tree
  <2>1. ~Frozen /\ ~Opt("offline") /\ tree.recipe
    BY <1>0, <1>3 DEF Fetch, PlaceInv
  <2>2. PICK x \in Fetched : tree' = x[2]
    BY <1>3 DEF Fetch
  <2>3. Keeps(tree, x[2]) \/ PinMoved
    BY <1>0, <1>3, <2>1, <2>2, FetchedAs DEF PinMoved, Fetch
  <2> QED  BY <2>1, <2>2, <2>3
<1>4. CASE Preflight
  <2>1. PICK x \in Probed : tree' = x[2]
    BY <1>4 DEF Preflight
  <2>2. Keeps(tree, x[2]) /\ (Frozen => x[2] = tree)
    BY <1>0, <2>1, ProbedAs
  <2>3. ~Opt("offline")
    BY <1>0, <1>4 DEF PlaceInv, RunInv, Preflight
  <2> QED  BY <2>1, <2>2, <2>3
<1>5. tree' = tree \/ Purge \/ Fetch \/ Preflight
  BY <1>0 DEF NextSync, syncVars, Request, Begin, ReadRpc, OthersLimited, AskedBefore, Turn, Route, Clone, PlaceInv,
         Present, Go, Review, Unresolved, Make, EndRun, KillRun, Push, Publish, ByHand
<1> QED  BY <1>1, <1>2, <1>3, <1>4, <1>5

(* CheckoutSafe (SyncScheduler, git_ops.py, the LLVM pre-flight): edits and *)
(* commits of the user's, and a frozen or offline run.                      *)
THEOREM CheckoutKept == SyncSpec => CheckoutSafe
<1>1. SyncInv /\ [NextSync]_syncVars =>
        [sync.at \notin {"rest", "build"} /\ Present =>
          /\ Keeps(tree, tree') \/ (Opt("cleansrc") /\ Opt("force")) \/ PinMoved
          /\ Opt("offline") \/ Frozen => tree' = tree \/ (~tree.git /\ ~tree.recipe)]_syncVars
  BY SafeStep
<1> QED  BY <1>1, SyncStart, SyncStep, PTL DEF SyncSpec, CheckoutSafe

-----------------------------------------------------------------------------
(* Builds of a package.  What a directory holds follows from where the      *)
(* build is: the recipe is under its own name, stashed, or, with what a     *)
(* killed sandboxed build left, both at once.                               *)

BuildPcs == {"sync", "patch", "prepare", "stash", "place", "limit", "run", "lift", "unplace", "unstash",
           "decide", "persist", "record", "recorded"}
BuildProcs ==
    [pc : BuildPcs, req : Requests, cc : Compilers \cup {None}, fallback : BOOLEAN, menu : BOOLEAN,
     swap : Compilers \cup {None}, limited : BOOLEAN,
     result : {None, "ok", "failed", "mismatch", "already"}, salvaged : BOOLEAN]

\* In the container's time the patched recipe is swapped in, and out again.
InPlace == {"limit", "run", "lift", "unplace"}
Holds(original, patched, stash) ==
    dir["PKGBUILD"] = original /\ dir["sidecar"] = patched /\ dir["stash"] = stash

\* Only the checkout's own recipe is ever stashed.
StashFits == RecipeKept /\ dir["stash"] \in {None, 0}

DirFits ==
    /\ dir \in [Files -> {None} \cup 0 .. 2]
    /\ StashFits
    /\ proc.pc \in {"prepare", "decide"} \/ (proc.pc = "run" /\ ~Sandboxed(proc.req)) =>
          dir["sidecar"] = IF dir["PKGBUILD"] = 0 THEN 1 ELSE 2
    /\ proc.pc \in {"stash", "place", "limit", "lift", "unplace", "unstash"} => Sandboxed(proc.req)
    /\ proc.pc = "stash" => Holds(0, 1, None)
    /\ proc.pc \in {"place", "unstash"} => Holds(None, 1, 0)
    /\ proc.pc \in InPlace /\ Sandboxed(proc.req) => Holds(1, None, 0)

\* What the process knows of its last run of makepkg.
Ran == {"lift", "unplace", "unstash", "decide", "persist", "record"}

RunFits ==
    /\ prov \in BOOLEAN
    /\ proc.pc \in {"stash", "place", "unstash"} \cup InPlace => ~prov
    /\ proc.pc \in {"decide", "persist", "record"} => (prov <=> proc.result = "ok" /\ Sandboxed(proc.req))
    /\ proc.pc \in Ran /\ proc.result = "ok" => art = Built
    /\ proc.pc \in {"persist", "record"} => proc.result = "ok" \/ proc.salvaged

BuildInv ==
    /\ proc \in {Idle} \cup BuildProcs
    /\ row \in Compilers \cup {None}
    /\ DirFits /\ RunFits /\ RecordTellsBuild

LEMMA BuildInit == Init => BuildInv
  <1> SUFFICES ASSUME Init PROVE BuildInv
    OBVIOUS
  <1>1. proc = Idle /\ proc.pc = "idle" /\ dir = Clean /\ ~prov /\ prov \in BOOLEAN
    BY DEF Init, Idle
  <1>2. DirFits
    BY <1>1 DEF DirFits, Clean, Files, RecipeKept, StashFits, InPlace
  <1>3. RunFits /\ RecordTellsBuild
    BY <1>1 DEF RunFits, RecordTellsBuild, InPlace, Ran
  <1> QED
    BY <1>1, <1>2, <1>3 DEF BuildInv, Init

\* The build under way goes on to another place, and nothing else of it changes.
LEMMA ProcGoes ==
    ASSUME BuildInv, proc.pc # "idle", NEW place \in BuildPcs, proc' = Goto(place)
    PROVE  /\ proc' \in BuildProcs /\ proc'.pc = place /\ proc'.req = proc.req
           /\ proc'.result = proc.result /\ proc'.salvaged = proc.salvaged
           /\ (Built' <=> Built) /\ Built' = Built /\ (Repaired' <=> Repaired)
  <1>1. proc \in BuildProcs
    BY DEF BuildInv, Idle
  <1>2. proc' = [proc EXCEPT !.pc = place] /\ proc' \in BuildProcs
    BY <1>1 DEF Goto, BuildProcs
  <1>3. /\ proc'.pc = place /\ proc'.req = proc.req /\ proc'.cc = proc.cc /\ proc'.fallback = proc.fallback
        /\ proc'.swap = proc.swap /\ proc'.result = proc.result /\ proc'.salvaged = proc.salvaged
    BY <1>1, <1>2 DEF BuildProcs
  <1> QED
    BY <1>2, <1>3 DEF Built, Used, Repaired

\* A build that ends, wherever it was, leaves the recipe where it is found.
LEMMA EndsSound ==
    ASSUME proc' = Idle, prov' \in BOOLEAN, dir' \in [Files -> {None} \cup 0 .. 2], StashFits',
           row' \in Compilers \cup {None}
    PROVE  BuildInv'
  <1>1. proc'.pc = "idle"
    BY DEF Idle
  <1> QED
    BY <1>1 DEF BuildInv, DirFits, RunFits, RecordTellsBuild, InPlace, Ran

\* One file of the directory renamed to another.
LEMMA MoveIs ==
    ASSUME dir \in [Files -> {None} \cup 0 .. 2], NEW from \in Files, NEW to \in Files, from # to
    PROVE  /\ Move(from, to) \in [Files -> {None} \cup 0 .. 2]
           /\ \A f \in Files : Move(from, to)[f] = IF f = to THEN dir[from] ELSE IF f = from THEN None ELSE dir[f]
  BY DEF Move

\* The checkout is brought up to date, as it is or clean.
LEMMA SyncKept ==
    ASSUME BuildInv, Sync
    PROVE  BuildInv'
  <1>1. dir' \in [Files -> {None} \cup 0 .. 2] /\ StashFits' /\ prov' \in BOOLEAN
    BY DEF BuildInv, DirFits, RunFits, RecipeKept, StashFits, Sync, Clean, Files
  <1>2. CASE proc' = Idle
    BY <1>1, <1>2, EndsSound DEF BuildInv, Sync
  <1>3. CASE proc' = Goto("patch")
    <2>1. proc' \in BuildProcs /\ proc'.pc = "patch"
      BY <1>3, ProcGoes DEF Sync, BuildPcs
    <2>2. DirFits' /\ RunFits' /\ RecordTellsBuild'
      BY <1>1, <2>1 DEF DirFits, RunFits, RecordTellsBuild, InPlace, Ran
    <2> QED
      BY <2>1, <2>2 DEF BuildInv, Sync
  <1> QED
    BY <1>2, <1>3 DEF Sync

\* The recipe is patched into the sidecar, once unless it was patched already.
LEMMA PatchKept ==
    ASSUME BuildInv, Patch
    PROVE  BuildInv'
  <1>1. /\ dir' \in [Files -> {None} \cup 0 .. 2] /\ StashFits' /\ prov' \in BOOLEAN
        /\ dir'["sidecar"] = IF dir'["PKGBUILD"] = 0 THEN 1 ELSE 2
    BY DEF BuildInv, DirFits, RunFits, RecipeKept, StashFits, Patch, Patched, Files
  <1>2. proc \in BuildProcs
    BY DEF BuildInv, Idle, Patch
  <1>3. PICK cc \in Compilers \cup {None} : proc' = [proc EXCEPT !.pc = "prepare", !.cc = cc]
    <2> DEFINE r == proc.req
               saved == IF r.row = "reset" THEN None ELSE row
               cc == IF r.choice # None THEN r.choice ELSE IF saved # None THEN saved ELSE r.cc
    <2>1. r \in Requests /\ r.cc \in Compilers /\ r.choice \in Compilers \cup {None}
      BY <1>2, BuildAssumption DEF BuildProcs
    <2>2. cc \in Compilers \cup {None}
      BY <2>1 DEF BuildInv
    <2>3. proc' = [proc EXCEPT !.pc = "prepare", !.cc = cc]
      BY DEF Patch
    <2> QED
      BY <2>2, <2>3
  <1>4. proc' \in BuildProcs /\ proc'.pc = "prepare"
    BY <1>2, <1>3 DEF BuildProcs, BuildPcs
  <1>5. DirFits' /\ RunFits' /\ RecordTellsBuild'
    BY <1>1, <1>4 DEF DirFits, RunFits, RecordTellsBuild, InPlace, Ran
  <1>6. row' \in Compilers \cup {None}
    <2>1. proc.req.choice \in Compilers \cup {None}
      BY <1>2, BuildAssumption DEF BuildProcs
    <2> QED
      BY <2>1 DEF Patch, SavedRow, BuildInv
  <1> QED
    BY <1>4, <1>5, <1>6 DEF BuildInv

\* What ends a build with the directory as it is.
LEMMA StopsKept ==
    ASSUME BuildInv, proc.pc # "idle", proc' = Idle, UNCHANGED <<dir, row>>, prov' \in BOOLEAN
    PROVE  BuildInv'
  BY EndsSound DEF BuildInv, DirFits, RecipeKept, StashFits

\* The preflight: the container only gets a directory without a stash.
LEMMA PrepareKept ==
    ASSUME BuildInv, Prepare
    PROVE  BuildInv'
  <1>1. PICK place \in {"run", "stash"} :
           /\ proc' = Goto(place)
           /\ place = "run" => ~Sandboxed(proc.req)
           /\ place = "stash" => Sandboxed(proc.req) /\ dir["stash"] = None
    BY DEF Prepare
  <1>2. /\ proc' \in BuildProcs /\ proc'.pc = place /\ proc'.req = proc.req
        /\ proc'.pc \in {"run", "stash"}
    BY <1>1, ProcGoes DEF Prepare, BuildPcs
  <1>3. dir' = dir /\ row' = row /\ prov' = FALSE /\ proc.pc = "prepare"
    BY DEF Prepare
  <1>4. DirFits'
    BY <1>1, <1>2, <1>3, NoneApart DEF BuildInv, DirFits, Holds, RecipeKept, StashFits, InPlace, Sandboxed
  <1>5. RunFits' /\ RecordTellsBuild'
    BY <1>2, <1>3 DEF RunFits, RecordTellsBuild, Ran
  <1> QED
    BY <1>2, <1>3, <1>4, <1>5 DEF BuildInv

\* as_canonical_pkgbuild: the recipe makes way for the patched one.
LEMMA SwapInKept ==
    ASSUME BuildInv, Stash \/ Place
    PROVE  BuildInv'
  <1>0. /\ dir \in [Files -> {None} \cup 0 .. 2] /\ prov' = prov /\ row' = row /\ ~prov /\ prov \in BOOLEAN
        /\ {"PKGBUILD", "sidecar", "stash"} \subseteq Files /\ Sandboxed(proc.req)
    BY DEF BuildInv, DirFits, RunFits, Stash, Place, Files
  <1>1. CASE Stash
    <2>1. proc' \in BuildProcs /\ proc'.pc = "place" /\ proc'.req = proc.req
      BY <1>1, ProcGoes DEF Stash, BuildPcs
    <2>2. dir' \in [Files -> {None} \cup 0 .. 2] /\ Holds(None, 1, 0)'
      BY <1>0, <1>1, MoveIs DEF Stash, BuildInv, DirFits, Holds
    <2>3. DirFits' /\ RunFits' /\ RecordTellsBuild'
      BY <1>0, <2>1, <2>2 DEF DirFits, RunFits, RecordTellsBuild, InPlace, Ran, Holds, RecipeKept, StashFits, Sandboxed
    <2> QED
      BY <1>0, <2>1, <2>3 DEF BuildInv
  <1>2. CASE Place /\ proc' = Goto("limit") /\ dir' = Move("sidecar", "PKGBUILD")
    <2>1. proc' \in BuildProcs /\ proc'.pc = "limit" /\ proc'.req = proc.req
      BY <1>2, ProcGoes DEF Place, BuildPcs
    <2>2. dir' \in [Files -> {None} \cup 0 .. 2] /\ Holds(1, None, 0)'
      BY <1>0, <1>2, MoveIs DEF Place, BuildInv, DirFits, Holds
    <2>3. DirFits' /\ RunFits' /\ RecordTellsBuild'
      BY <1>0, <2>1, <2>2 DEF DirFits, RunFits, RecordTellsBuild, InPlace, Ran, Holds, RecipeKept, StashFits, Sandboxed
    <2> QED
      BY <1>0, <2>1, <2>3 DEF BuildInv
  <1>3. CASE Place /\ proc' = Idle /\ dir' = Move("stash", "PKGBUILD")
    <2>1. dir' \in [Files -> {None} \cup 0 .. 2] /\ Holds(0, 1, None)'
      BY <1>0, <1>3, MoveIs DEF Place, BuildInv, DirFits, Holds
    <2> QED
      BY <1>0, <1>3, <2>1, EndsSound DEF Holds, RecipeKept, StashFits, BuildInv
  <1> QED
    BY <1>1, <1>2, <1>3 DEF Place

\* A throttle on the slice changes nothing in the directory.
LEMMA LimitKept ==
    ASSUME BuildInv, Limit
    PROVE  BuildInv'
  <1>0. /\ proc \in BuildProcs /\ dir' = dir /\ prov' = prov /\ row' = row
        /\ Sandboxed(proc.req) /\ proc.pc = "limit"
    BY DEF BuildInv, Limit, DirFits, Idle
  <1>1. PICK set \in BOOLEAN : proc' = [proc EXCEPT !.pc = "run", !.limited = set]
    BY DEF Limit
  <1>2. proc' \in BuildProcs /\ proc'.pc = "run" /\ proc'.req = proc.req
    BY <1>0, <1>1 DEF BuildProcs, BuildPcs
  <1>3. DirFits' /\ RunFits' /\ RecordTellsBuild'
    BY <1>0, <1>2 DEF BuildInv, DirFits, RunFits, RecordTellsBuild, InPlace, Ran, Holds, RecipeKept, StashFits, Sandboxed
  <1> QED
    BY <1>0, <1>2, <1>3 DEF BuildInv

-----------------------------------------------------------------------------
\* makepkg: what it built is on disk, and known only if it said so.
LEMMA MakepkgKept ==
    ASSUME BuildInv, Makepkg
    PROVE  BuildInv'
  <1>0. /\ proc \in BuildProcs /\ dir' = dir /\ prov' = prov /\ row' = row /\ proc.pc = "run" /\ ~prov
    BY DEF BuildInv, Makepkg, RunFits, InPlace, Idle
  <1>1. PICK result \in {"ok", "failed", "mismatch", "already"} :
           proc' = Ended(result) /\ (result = "ok" => art' = Built)
    BY DEF Makepkg
  <1>2. /\ proc' \in BuildProcs /\ proc'.req = proc.req /\ proc'.result = result
        /\ proc'.pc = IF Sandboxed(proc.req) THEN "lift" ELSE "decide"
        /\ proc'.cc = proc.cc /\ proc'.swap = proc.swap /\ proc'.fallback = proc.fallback
    BY <1>0, <1>1 DEF Ended, BuildProcs, BuildPcs
  <1>3. Built' = Built
    BY <1>2 DEF Built, Used, Sandboxed
  <1>4. DirFits'
    BY <1>0, <1>2 DEF BuildInv, DirFits, InPlace, Holds, RecipeKept, StashFits, Sandboxed
  <1>5. RunFits' /\ RecordTellsBuild'
    BY <1>0, <1>1, <1>2, <1>3 DEF BuildInv, RunFits, RecordTellsBuild, InPlace, Ran, Sandboxed
  <1> QED
    BY <1>0, <1>2, <1>4, <1>5 DEF BuildInv

\* And back: the patched recipe is a sidecar again, and the recipe in its place.
LEMMA SwapOutKept ==
    ASSUME BuildInv, Lift \/ Unplace \/ Unstash
    PROVE  BuildInv'
  <1>0. /\ dir \in [Files -> {None} \cup 0 .. 2] /\ row' = row /\ art' = art /\ ~prov /\ prov \in BOOLEAN
        /\ {"PKGBUILD", "sidecar", "stash"} \subseteq Files /\ Sandboxed(proc.req)
        /\ proc.result = "ok" => art = Built
    BY DEF BuildInv, DirFits, RunFits, InPlace, Ran, Lift, Unplace, Unstash, Files
  <1>1. CASE Lift
    <2>1. /\ proc' \in BuildProcs /\ proc'.pc = "unplace" /\ proc'.req = proc.req
          /\ proc'.result = proc.result /\ Built' = Built
      BY <1>1, ProcGoes DEF Lift, BuildPcs
    <2>2. DirFits' /\ RunFits' /\ RecordTellsBuild'
      BY <1>0, <1>1, <2>1 DEF Lift, BuildInv, DirFits, RunFits, RecordTellsBuild, InPlace, Ran, Holds, RecipeKept, StashFits, Sandboxed
    <2> QED
      BY <1>0, <2>1, <2>2 DEF BuildInv
  <1>2. CASE Unplace
    <2>1. /\ proc' \in BuildProcs /\ proc'.pc = "unstash" /\ proc'.req = proc.req
          /\ proc'.result = proc.result /\ Built' = Built
      BY <1>2, ProcGoes DEF Unplace, BuildPcs
    <2>2. dir' \in [Files -> {None} \cup 0 .. 2] /\ Holds(None, 1, 0)' /\ prov' = prov
      BY <1>0, <1>2, MoveIs DEF Unplace, BuildInv, DirFits, Holds, InPlace
    <2>3. DirFits' /\ RunFits' /\ RecordTellsBuild'
      BY <1>0, <2>1, <2>2 DEF DirFits, RunFits, RecordTellsBuild, InPlace, Ran, Holds, RecipeKept, StashFits, Sandboxed
    <2> QED
      BY <1>0, <2>1, <2>3 DEF BuildInv
  <1>3. CASE Unstash
    <2>1. /\ proc' \in BuildProcs /\ proc'.pc = "decide" /\ proc'.req = proc.req
          /\ proc'.result = proc.result /\ Built' = Built
      BY <1>3, ProcGoes DEF Unstash, BuildPcs
    <2>2. dir' \in [Files -> {None} \cup 0 .. 2] /\ Holds(0, 1, None)' /\ prov' = (proc.result = "ok")
      BY <1>0, <1>3, MoveIs DEF Unstash, BuildInv, DirFits, Holds
    <2>3. DirFits' /\ RunFits' /\ RecordTellsBuild'
      BY <1>0, <2>1, <2>2 DEF DirFits, RunFits, RecordTellsBuild, InPlace, Ran, Holds, RecipeKept, StashFits, Sandboxed
    <2> QED
      BY <1>0, <2>1, <2>3 DEF BuildInv
  <1> QED
    BY <1>1, <1>2, <1>3

\* A failed run is tried again, with the same patched recipe.
LEMMA RetryKept ==
    ASSUME BuildInv, FallBack \/ Again \/ Recover
    PROVE  BuildInv'
  <1>0. proc \in BuildProcs /\ UNCHANGED <<dir, row, prov>> /\ proc.pc = "decide" /\ prov \in BOOLEAN
    <2>1. UNCHANGED <<dir, row, prov>> /\ proc.pc = "decide"
      BY DEF FallBack, Again, Recover, CanAsk, Decided
    <2> QED
      BY <2>1 DEF BuildInv, RunFits, Idle
  <1>1. proc' \in BuildProcs /\ proc'.pc = "prepare" /\ proc'.req = proc.req
    <2>1. CASE FallBack
      BY <1>0, <2>1 DEF FallBack, BuildProcs, BuildPcs
    <2>2. CASE Again
      BY <1>0, <2>2 DEF Again, BuildProcs, BuildPcs
    <2>3. CASE Recover
      BY <1>0, <2>3 DEF Recover, BuildProcs, BuildPcs
    <2> QED
      BY <2>1, <2>2, <2>3
  <1>2. DirFits' /\ RunFits' /\ RecordTellsBuild'
    BY <1>0, <1>1 DEF BuildInv, DirFits, RunFits, RecordTellsBuild, InPlace, Ran, RecipeKept, StashFits
  <1> QED
    BY <1>0, <1>1, <1>2 DEF BuildInv

\* A run that is over: with an artifact, or one the user installs by hand.
LEMMA SucceedKept ==
    ASSUME BuildInv, Succeed \/ Salvage
    PROVE  BuildInv'
  <1>0. /\ proc \in BuildProcs /\ UNCHANGED <<dir, row, prov, art>> /\ proc.pc = "decide" /\ prov \in BOOLEAN
        /\ prov <=> proc.result = "ok" /\ Sandboxed(proc.req)
        /\ proc.result = "ok" => art = Built
    BY DEF BuildInv, Succeed, Salvage, CanAsk, Decided, RunFits, Ran, Idle
  <1>1. /\ proc' \in BuildProcs /\ proc'.pc = "persist" /\ proc'.req = proc.req /\ proc'.result = proc.result
        /\ Built' = Built
        /\ proc'.result = "ok" \/ proc'.salvaged
    <2>1. CASE Succeed
      <3>1. proc' = [proc EXCEPT !.pc = "persist"] /\ proc.result = "ok"
        BY <2>1 DEF Succeed, Goto, Decided
      <3> QED
        BY <1>0, <3>1 DEF BuildProcs, BuildPcs, Built, Used
    <2>2. CASE Salvage
      <3>1. proc' = [proc EXCEPT !.pc = "persist", !.salvaged = TRUE]
        BY <2>2 DEF Salvage
      <3> QED
        BY <1>0, <3>1 DEF BuildProcs, BuildPcs, Built, Used
    <2> QED
      BY <2>1, <2>2
  <1>2. DirFits' /\ RunFits' /\ RecordTellsBuild'
    BY <1>0, <1>1 DEF BuildInv, DirFits, RunFits, RecordTellsBuild, InPlace, Ran, RecipeKept, StashFits, Sandboxed
  <1> QED
    BY <1>0, <1>1, <1>2 DEF BuildInv

\* After a success: the sidecar goes, and the compiler that helped is kept.
LEMMA PersistKept ==
    ASSUME BuildInv, Persist
    PROVE  BuildInv'
  <1>0. /\ proc \in BuildProcs /\ UNCHANGED <<prov, art>> /\ proc.pc = "persist"
        /\ dir' \in [Files -> {None} \cup 0 .. 2] /\ StashFits' /\ row' \in Compilers \cup {None}
    <2>1. proc \in BuildProcs /\ UNCHANGED <<prov, art>> /\ proc.pc = "persist"
      BY DEF BuildInv, Persist, Idle
    <2>2. row' \in Compilers \cup {None}
      BY <2>1 DEF BuildInv, Persist, BuildProcs
    <2>3. dir' = [dir EXCEPT !["sidecar"] = None] /\ dir \in [Files -> {None} \cup 0 .. 2]
      BY DEF BuildInv, DirFits, Persist
    <2>4. PICK f \in {"PKGBUILD", "stash"} : dir[f] = 0
      BY DEF BuildInv, DirFits, RecipeKept, StashFits
    <2>5. dir'[f] = 0 /\ dir'["stash"] \in {None, 0}
      BY <2>3, <2>4 DEF Files, BuildInv, DirFits, StashFits
    <2> QED
      BY <2>1, <2>2, <2>3, <2>4, <2>5 DEF RecipeKept, StashFits
  <1>1. /\ proc' \in BuildProcs /\ proc'.pc = "record" /\ proc'.req = proc.req /\ proc'.result = proc.result
        /\ proc'.salvaged = proc.salvaged /\ Built' = Built
    BY <1>0, ProcGoes DEF Persist, BuildPcs
  <1>2. DirFits' /\ RunFits' /\ RecordTellsBuild'
    BY <1>0, <1>1 DEF BuildInv, DirFits, RunFits, RecordTellsBuild, InPlace, Ran, Sandboxed
  <1> QED
    BY <1>0, <1>1, <1>2 DEF BuildInv

\* The record is of the artifact on disk, or it says of no container.
LEMMA RecordKept ==
    ASSUME BuildInv, RecordBuild
    PROVE  BuildInv'
  <1>0. /\ proc \in BuildProcs /\ UNCHANGED <<dir, row, art>> /\ proc.pc = "record" /\ prov' = FALSE
        /\ prov \in BOOLEAN /\ (prov <=> proc.result = "ok" /\ Sandboxed(proc.req))
        /\ proc.result = "ok" => art = Built
        /\ proc.result = "ok" \/ proc.salvaged
    BY DEF BuildInv, RecordBuild, RunFits, Ran, Idle
  <1>1. CASE proc' = Idle
    BY <1>0, <1>1, StopsKept
  <1>2. CASE record' = Entry /\ proc' = Goto("recorded")
    <2>1. proc' \in BuildProcs /\ proc'.pc = "recorded" /\ (Repaired' <=> Repaired)
      BY <1>0, <1>2, ProcGoes DEF BuildPcs
    <2>2. DirFits' /\ RunFits'
      BY <1>0, <2>1 DEF BuildInv, DirFits, RunFits, InPlace, Ran, RecipeKept, StashFits
    <2>3. /\ record'.sandboxed = prov /\ record' = [cc |-> proc.cc, sandboxed |-> prov]
          /\ Sandboxed(proc.req) \in BOOLEAN
      BY <1>0, <1>2, BuildAssumption DEF Entry, Sandboxed, BuildProcs
    <2>4. CASE proc.result = "ok"
      <3>1. art.sandboxed = Sandboxed(proc.req) /\ prov = Sandboxed(proc.req)
        BY <1>0, <2>3, <2>4 DEF Built
      <3>2. ~Repaired => art = record'
        BY <1>0, <2>3, <2>4, <3>1 DEF Built, Used, Repaired
      <3>3. RecordTellsBuild'
        BY <1>0, <2>1, <2>3, <3>1, <3>2 DEF RecordTellsBuild
      <3> QED
        BY <1>0, <2>1, <2>2, <3>3 DEF BuildInv
    <2>5. CASE proc.result # "ok"
      <3>1. Repaired /\ ~prov
        BY <1>0, <2>5 DEF Repaired
      <3>2. RecordTellsBuild'
        BY <1>0, <2>1, <2>3, <3>1 DEF RecordTellsBuild
      <3> QED
        BY <1>0, <2>1, <2>2, <3>2 DEF BuildInv
    <2> QED
      BY <2>4, <2>5
  <1> QED
    BY <1>1, <1>2 DEF RecordBuild

\* Every step of a build, of the next one and of the user keeps the invariant.
LEMMA BuildStep == BuildInv /\ [Next]_vars => BuildInv'
  <1> SUFFICES ASSUME BuildInv, [Next]_vars PROVE BuildInv'
    OBVIOUS
  <1>1. ASSUME NEW r \in Requests, Start(r) PROVE BuildInv'
    <2>1. /\ proc' = [pc |-> "sync", req |-> r, cc |-> None, fallback |-> FALSE, menu |-> FALSE,
                      swap |-> None, limited |-> FALSE, result |-> None, salvaged |-> FALSE]
          /\ UNCHANGED <<dir, row, prov>>
      BY <1>1 DEF Start
    <2>2. proc' \in BuildProcs /\ proc'.pc = "sync"
      BY <2>1 DEF BuildProcs, BuildPcs
    <2>3. DirFits' /\ RunFits' /\ RecordTellsBuild'
      BY <2>1, <2>2 DEF BuildInv, DirFits, RunFits, RecordTellsBuild, InPlace, Ran, RecipeKept, StashFits
    <2> QED
      BY <2>1, <2>2, <2>3 DEF BuildInv
  <1>2. CASE Skip \/ Refused \/ GiveUp \/ NothingToDo \/ Instrumented \/ Finish \/ Kill
    <2>1. prov \in BOOLEAN
      BY DEF BuildInv, RunFits
    <2> QED
      BY <1>2, <2>1, StopsKept
      DEF Skip, Refused, GiveUp, NothingToDo, Instrumented, Finish, Kill, Decided
  <1>3. CASE Steps
    BY <1>2, <1>3, SyncKept, PatchKept, PrepareKept, SwapInKept, LimitKept, MakepkgKept, SwapOutKept,
       RetryKept, SucceedKept, PersistKept, RecordKept DEF Steps
  <1>4. CASE Exit
    <2>1. proc.pc = "idle" /\ proc' = proc /\ UNCHANGED <<dir, row>> /\ prov' = FALSE
      BY <1>4 DEF Exit
    <2> QED
      BY <2>1 DEF BuildInv, DirFits, RunFits, RecordTellsBuild, InPlace, Ran, RecipeKept, StashFits
  <1>5. CASE Restore
    <2>1. /\ proc.pc = "idle" /\ proc' = proc /\ UNCHANGED <<row, prov>> /\ dir' = Move("stash", "PKGBUILD")
          /\ dir \in [Files -> {None} \cup 0 .. 2] /\ dir["stash"] # None
          /\ {"PKGBUILD", "sidecar", "stash"} \subseteq Files
      BY <1>5 DEF Restore, BuildInv, DirFits, Files
    <2>2. /\ dir' \in [Files -> {None} \cup 0 .. 2] /\ dir'["PKGBUILD"] = dir["stash"]
          /\ dir'["stash"] = None
      BY <2>1, MoveIs
    <2>3. dir["stash"] = 0
      BY <2>1 DEF BuildInv, DirFits, StashFits
    <2>4. StashFits'
      BY <2>2, <2>3 DEF StashFits, RecipeKept
    <2> QED
      BY <2>1, <2>2, <2>4 DEF BuildInv, DirFits, RunFits, RecordTellsBuild, InPlace, Ran
  <1>6. CASE UNCHANGED vars
    BY <1>6 DEF vars, BuildInv, DirFits, RunFits, RecordTellsBuild, Holds, RecipeKept, StashFits, Built, Used, Repaired
  <1> QED
    BY <1>1, <1>2, <1>3, <1>4, <1>5, <1>6 DEF Next

\* Whatever a build is answered with, and wherever it is killed, the checkout's own
\* recipe is left in place or in the stash, makepkg reads it patched once, and the
\* record that follows tells the container and the compiler of the artifact on disk
\* (makepkg_wrapper.run, as_canonical_pkgbuild, _record_build_state).
THEOREM BuildsAreSound == Spec => []BuildSound
  <1>1. BuildInv => BuildSound
    <2> SUFFICES ASSUME BuildInv PROVE BuildSound
      OBVIOUS
    <2>1. PatchedOnce
      <3> SUFFICES ASSUME proc.pc = "run" PROVE dir[IF Sandboxed(proc.req) THEN "PKGBUILD" ELSE "sidecar"] = 1 \/ LeftOver
        BY DEF PatchedOnce
      <3> QED
        BY NoneApart DEF BuildInv, DirFits, Holds, InPlace, RecipeKept, StashFits, LeftOver
    <2> QED
      BY <2>1 DEF BuildSound, RecipeSafe, BuildInv, DirFits, StashFits
  <1> QED
    BY <1>1, BuildInit, BuildStep, PTL DEF Spec
-----------------------------------------------------------------------------
(* A library and its consumers.  LinkInv says what is installed and built,  *)
(* and that a stage that brings another version has named every consumer it *)
(* does not ship; after its install whatever is short in silence has the    *)
(* version in place, so that its last gate finds it.                        *)

Library  == [ver : Nat, source : BOOLEAN, syms : SUBSET Symbols, old : SUBSET Symbols]
Consumer == [ver : Nat, source : BOOLEAN, newer : BOOLEAN,
             undef : SUBSET ((Symbols \X {"LLVM"}) \cup {<<"std", "GLIBCXX">>})]
AbiNames == {"llvm"} \cup Consumers

Fits(f) ==
    /\ DOMAIN f \subseteq AbiNames /\ f = [l \in DOMAIN f |-> f[l]]
    /\ "llvm" \in DOMAIN f => f["llvm"] \in Library
    /\ \A c \in DOMAIN f \cap Consumers : f[c] \in Consumer
Whole(f) == Fits(f) /\ DOMAIN f = AbiNames

Stagings ==
    [pc : {"idle", "built", "install", "verify", "rebuild"}, target : Library, ships : SUBSET Others,
     mode : Modes, seen : Nat, queue : SUBSET Consumers, before : {<<>>} \cup [AbiNames -> Library \cup Consumer]]

LinkTyped ==
    /\ Whole(libs) /\ Fits(batch) /\ inRepos \in Nat
    /\ stage \in Stagings /\ (stage.pc # "idle" => Whole(stage.before))

LinkInv ==
    /\ LinkTyped
    /\ stage.pc \in {"built", "install"} /\ stage.target.ver # stage.seen => Consumers \ stage.ships \subseteq said
    /\ stage.pc = "verify" =>
          \A c \in Broken \ (said \cup exempt) : c \notin stage.ships /\ libs[c].ver = libs["llvm"].ver
    /\ SymbolsSound

\* What a build makes of the libLLVM it is linked against.
LEMMA LinkedFits ==
    ASSUME NEW c \in Consumers, NEW lib \in Library, NEW src \in BOOLEAN
    PROVE  Linked(c, lib, src) \in Consumer /\ Resolves(Linked(c, lib, src), lib)
<1>1. Uses[c] \subseteq Symbols
  BY LibraryAssumption
<1>2. Linked(c, lib, src) \in Consumer
  <2> DEFINE u == {<<s, "LLVM">> : s \in Uses[c] \cap (lib.syms \cup {"cxx"})}
                  \cup {<<s, "GLIBCXX">> : s \in (Uses[c] \cap {"std"}) \ lib.syms}
  <2>1. u \subseteq (Symbols \X {"LLVM"}) \cup {<<"std", "GLIBCXX">>}
    BY <1>1
  <2>2. Linked(c, lib, src) = [ver |-> lib.ver, source |-> src, newer |-> TRUE, undef |-> u]
    BY DEF Linked
  <2>3. lib.ver \in Nat
    BY DEF Library
  <2> HIDE DEF u
  <2> QED  BY <2>1, <2>2, <2>3 DEF Consumer
<1>3. \A x \in Linked(c, lib, src).undef :
         x = <<"std", "GLIBCXX">> \/ \E s \in Uses[c] \cap (lib.syms \cup {"cxx"}) : x = <<s, "LLVM">>
  BY DEF Linked
<1>4. Linked(c, lib, src).ver = lib.ver
  BY DEF Linked
<1> QED  BY <1>2, <1>3, <1>4 DEF Resolves

LEMMA RepoFits == ASSUME NEW v \in Nat PROVE RepoBuild(v) \in Library
  BY DEF RepoBuild, Library, Symbols

LEMMA NoneStaged == NoStage \in Stagings
  BY RepoFits DEF NoStage, Stagings, Modes

LEMMA WholeTyped ==
    ASSUME NEW f, Whole(f)
    PROVE  f \in [AbiNames -> Library \cup Consumer]
<1>1. \A l \in AbiNames : f[l] \in Library \cup Consumer
  BY DEF Whole, Fits, AbiNames
<1> QED  BY <1>1 DEF Whole, Fits

\* A symbol that libLLVM does not provide, nor libclang.
LEMMA NodeOf ==
    ASSUME NEW b \in Consumer, NEW x \in b.undef
    PROVE  x = <<x[1], x[2]>> /\ x[1] \in Symbols /\ (x[2] = "LLVM" \/ x = <<"std", "GLIBCXX">>)
<1>1. x \in Symbols \X {"LLVM"} \/ x = <<"std", "GLIBCXX">>
  BY DEF Consumer
<1> QED  BY <1>1 DEF Symbols

LEMMA NeedsSoname ==
    ASSUME NEW b \in Consumer, NEW v \in Nat
    PROVE  /\ Soname(v) \in Needed(b) <=> b.ver = v
           /\ Std \in Needed(b) /\ (Clang \in Needed(b) <=> <<"cxx", "LLVM">> \in b.undef)
           /\ Soname(v) # Std /\ Soname(v) # Clang
  BY DEF Needed, Soname, Std, Clang, Consumer

LEMMA LibcxxExports ==
    /\ ExportsOf(Std) = {<<"std", "GLIBCXX">>}
    /\ ExportsOf(Clang) = {<<"cxx", "LLVM">>}
  BY DEF ExportsOf, Std, Clang

\* A consumer of the version in place loads exactly if nothing of it is lost.
LostTells ==
    Whole(libs) => \A c \in Consumers, lib \in Library :
        /\ libs[c].ver = lib.ver => (Lost(c, lib) = {} <=> Resolves(libs[c], lib))
        /\ Lost(c, lib) # {} => ~Resolves(libs[c], lib)

LEMMA LostIsBroken == LostTells
<1> USE DEF LostTells
<1> SUFFICES ASSUME Whole(libs), NEW c \in Consumers, NEW lib \in Library
             PROVE  /\ libs[c].ver = lib.ver => (Lost(c, lib) = {} <=> Resolves(libs[c], lib))
                    /\ Lost(c, lib) # {} => ~Resolves(libs[c], lib)
  OBVIOUS
<1> DEFINE b == libs[c]
<1>1. b \in Consumer
  BY DEF Whole, Fits, AbiNames
<1>2. lib.ver \in Nat /\ lib.syms \subseteq Symbols /\ lib.old \subseteq Symbols
  BY DEF Library
<1>3. Soname(lib.ver) \in Needed(b) <=> b.ver = lib.ver
  BY <1>1, <1>2, NeedsSoname
<1>4. Needed(b) \ {Soname(lib.ver)} \subseteq {Std, Clang} \cup {Soname(b.ver)}
  BY DEF Needed
<1>5. ASSUME b.ver = lib.ver
      PROVE  Lost(c, lib) = {} <=> Resolves(b, lib)
  <2>1. \A x : x \in UNION {ExportsOf(n) : n \in Needed(b) \ {Soname(lib.ver)}}
               <=> x = <<"std", "GLIBCXX">> \/ (x = <<"cxx", "LLVM">> /\ <<"cxx", "LLVM">> \in b.undef)
    <3>1. Needed(b) \ {Soname(lib.ver)} = {Std} \cup IF <<"cxx", "LLVM">> \in b.undef THEN {Clang} ELSE {}
      BY <1>1, <1>2, <1>5, NeedsSoname DEF Needed
    <3> QED  BY <3>1, LibcxxExports
  <2>2. \A x \in b.undef : x \in Exports(lib) <=> x[2] = "LLVM" /\ x[1] \in lib.syms \cup lib.old
    <3> TAKE x \in b.undef
    <3>1. x = <<x[1], x[2]>>
      BY <1>1, NodeOf
    <3> QED  BY <3>1 DEF Exports
  <2>3. Lost(c, lib) = {x \in b.undef : x[2] = "LLVM" /\ x \notin Exports(lib)}
                       \ UNION {ExportsOf(n) : n \in Needed(b) \ {Soname(lib.ver)}}
    BY <1>3, <1>5 DEF Lost
  <2>4. \A x \in b.undef : x[2] = "LLVM" \/ x = <<"std", "GLIBCXX">>
    BY <1>1, NodeOf
  <2>5. \A x \in b.undef : x \in Lost(c, lib)
           <=> /\ x[2] = "LLVM" /\ x[1] \notin lib.syms \cup lib.old /\ x # <<"cxx", "LLVM">>
    BY <2>1, <2>2, <2>3, <2>4
  <2>6. Lost(c, lib) \subseteq b.undef
    BY <2>3
  <2>7. <<"std", "GLIBCXX">>[2] # "LLVM"
    OBVIOUS
  <2>8. Resolves(b, lib) <=> \A x \in b.undef : x \notin Lost(c, lib)
    BY <1>5, <2>4, <2>5, <2>7 DEF Resolves
  <2> QED  BY <2>6, <2>8
<1>6. b.ver # lib.ver => Lost(c, lib) = {}
  BY <1>3 DEF Lost
<1> QED  BY <1>5, <1>6

\* What the gate of a build refuses lacks a symbol of the library in place.
LEMMA SkewedIsBroken ==
    ASSUME Whole(libs), NEW b \in Consumer, Skewed(b)
    PROVE  ~Resolves(b, libs["llvm"])
<1> DEFINE lib == libs["llvm"]
<1>1. lib \in Library
  BY DEF Whole, Fits, AbiNames
<1> SUFFICES ASSUME Resolves(b, lib) PROVE FALSE
  OBVIOUS
<1>2. PICK x \in b.undef : x \notin Provided(b)
  BY DEF Skewed, Issues
<1>3. b.ver = lib.ver /\ lib.ver \in Nat
  BY <1>1 DEF Resolves, Library
<1>4. x \in {<<"std", "GLIBCXX">>, <<"cxx", "LLVM">>} \/ x[1] \in lib.syms \cup lib.old
  BY DEF Resolves
<1>5. Std \in Needed(b) /\ (Clang \in Needed(b) <=> <<"cxx", "LLVM">> \in b.undef) /\ Soname(lib.ver) \in Needed(b)
  BY <1>3, NeedsSoname
<1>6. \A n \in Needed(b) : x \notin ExportsOf(n)
  BY <1>2 DEF Provided
<1>7. x # <<"std", "GLIBCXX">> /\ x # <<"cxx", "LLVM">>
  BY <1>5, <1>6, LibcxxExports
<1>8. ExportsOf(Soname(lib.ver)) = Exports(lib)
  BY <1>3, NeedsSoname DEF ExportsOf, Cached
<1>9. x = <<x[1], "LLVM">>
  BY <1>7, NodeOf
<1>10. x \in Exports(lib)
  BY <1>4, <1>7, <1>9 DEF Exports
<1> QED  BY <1>5, <1>6, <1>8, <1>10

LEMMA AgedFits ==
    ASSUME NEW b \in Consumer
    PROVE  /\ [b EXCEPT !.newer = FALSE] \in Consumer
           /\ [b EXCEPT !.newer = FALSE].ver = b.ver /\ [b EXCEPT !.newer = FALSE].undef = b.undef
  BY DEF Consumer

\* What is installed over what.
LEMMA WithFits ==
    ASSUME NEW f, NEW g, Whole(f), Fits(g)
    PROVE  /\ Whole(With(f, g)) /\ Whole(Older(With(f, g)))
           /\ \A l \in AbiNames : With(f, g)[l] = IF l \in DOMAIN g THEN g[l] ELSE f[l]
           /\ Older(With(f, g))["llvm"] = With(f, g)["llvm"]
           /\ \A c \in Consumers : /\ Older(With(f, g))[c].ver = With(f, g)[c].ver
                                   /\ Older(With(f, g))[c].undef = With(f, g)[c].undef
<1> DEFINE w == With(f, g)
<1>1. w = [l \in AbiNames |-> IF l \in DOMAIN g THEN g[l] ELSE f[l]]
  BY DEF With, Whole, Fits
<1>2. Whole(w)
  BY <1>1 DEF Whole, Fits, AbiNames
<1>3. \A c \in Consumers : c # "llvm" /\ w[c] \in Consumer
  BY <1>2, LibraryAssumption DEF Whole, Fits, AbiNames
<1>4. Older(w) = [l \in AbiNames |-> IF l = "llvm" THEN w[l] ELSE [w[l] EXCEPT !.newer = FALSE]]
  BY <1>2 DEF Older, Whole
<1>5. \A c \in Consumers : /\ Older(w)[c] \in Consumer
                           /\ Older(w)[c].ver = w[c].ver /\ Older(w)[c].undef = w[c].undef
  <2> TAKE c \in Consumers
  <2>1. Older(w)[c] = [w[c] EXCEPT !.newer = FALSE]
    BY <1>3, <1>4 DEF AbiNames
  <2> QED  BY <1>3, <2>1, AgedFits
<1>6. Older(w)["llvm"] = w["llvm"] /\ Older(w)["llvm"] \in Library
  BY <1>2, <1>4 DEF Whole, Fits, AbiNames
<1>7. Whole(Older(w))
  BY <1>4, <1>5, <1>6 DEF Whole, Fits
<1> QED  BY <1>1, <1>2, <1>5, <1>6, <1>7

\* A consumer loads whatever its age, and a build with what it is made of.
LEMMA LoadsAlike ==
    ASSUME NEW b, NEW d, NEW lib, b.ver = d.ver, b.undef = d.undef
    PROVE  Resolves(b, lib) <=> Resolves(d, lib)
  BY DEF Resolves

LEMMA LinkInit == InitAbi => LinkInv
<1> SUFFICES ASSUME InitAbi PROVE LinkInv
  OBVIOUS
<1> USE DEF InitAbi
<1>1. RepoBuild(1) \in Library
  BY RepoFits
<1>2. libs["llvm"] = RepoBuild(1) /\ DOMAIN libs = AbiNames /\ libs = [l \in AbiNames |-> libs[l]]
  BY DEF AbiNames
<1>3. ASSUME NEW c \in Consumers
      PROVE  libs[c] \in Consumer /\ Resolves(libs[c], libs["llvm"])
  <2> DEFINE b == Linked(c, RepoBuild(1), FALSE)
  <2>1. c # "llvm" /\ libs[c] = [b EXCEPT !.newer = FALSE]
    BY LibraryAssumption
  <2>2. b \in Consumer /\ Resolves(b, RepoBuild(1))
    BY <1>1, LinkedFits
  <2> HIDE DEF b
  <2> QED  BY <1>2, <2>1, <2>2, AgedFits, LoadsAlike
<1>4. Whole(libs)
  BY <1>1, <1>2, <1>3 DEF Whole, Fits
<1>5. Fits(batch) /\ DOMAIN batch = {}
  BY DEF Fits
<1>6. LinkTyped
  BY <1>4, <1>5, NoneStaged DEF LinkTyped, NoStage
<1>7. SymbolsSound
  BY <1>3 DEF SymbolsSound, BrokenIsSaid, RefusedIsBroken, Broken, NoVerdict
<1> QED  BY <1>6, <1>7 DEF LinkInv, NoStage

\* A verb that changes nothing of what is installed or said.
LEMMA SameInstalled ==
    ASSUME LinkInv, LinkTyped', libs' = libs, said \subseteq said', exempt' = exempt,
           stage.pc # "verify", stage'.pc \notin {"built", "install", "verify"},
           RefusedIsBroken'
    PROVE  LinkInv'
<1>1. Broken' = Broken
  BY DEF Broken, Resolves
<1> QED  BY <1>1 DEF LinkInv, SymbolsSound, BrokenIsSaid

LEMMA NothingRefused == ASSUME verdict' = NoVerdict PROVE RefusedIsBroken'
  BY DEF NoVerdict, RefusedIsBroken

\* Each build against a libLLVM that there is.
LEMMA ConsumerBuilt ==
    ASSUME LinkInv, NEW c \in Consumers, BuildConsumer(c)
    PROVE  LinkInv'
<1>0. LinkTyped /\ Whole(libs) /\ Fits(batch) /\ inRepos \in Nat
  BY DEF LinkInv, LinkTyped
<1>1. \A lib \in Against : lib \in Library
  BY <1>0, RepoFits DEF Against, Whole, Fits, AbiNames
<1>2. PICK lib \in Against :
         LET b == Linked(c, lib, TRUE)
         IN  IF Skewed(b)
             THEN /\ verdict' = [refused |-> TRUE, of |-> {b}, with |-> libs["llvm"]] /\ UNCHANGED batch
                  /\ IF stage.pc = "rebuild" THEN stage' = [stage EXCEPT !.queue = @ \ {c}] /\ said' = said \cup {c}
                     ELSE UNCHANGED <<stage, said>>
             ELSE batch' = With(batch, [x \in {c} |-> b]) /\ verdict' = NoVerdict /\ UNCHANGED <<stage, said>>
  BY DEF BuildConsumer
<1> DEFINE b == Linked(c, lib, TRUE)
<1>3. b \in Consumer
  BY <1>1, LinkedFits
<1>4. stage.pc \in {"idle", "rebuild"} /\ UNCHANGED <<libs, inRepos, exempt>>
  BY DEF BuildConsumer
<1>5. stage' \in Stagings /\ stage'.pc = stage.pc /\ stage'.before = stage.before /\ said \subseteq said'
  BY <1>0, <1>2 DEF LinkTyped, Stagings
<1>6. CASE Skewed(b)
  <2>1. ~Resolves(b, libs["llvm"])
    BY <1>0, <1>3, <1>6, SkewedIsBroken
  <2>2. verdict' = [refused |-> TRUE, of |-> {b}, with |-> libs["llvm"]] /\ batch' = batch
    BY <1>2, <1>6
  <2>3. RefusedIsBroken'
    BY <2>1, <2>2 DEF RefusedIsBroken, Resolves
  <2>4. LinkTyped'
    BY <1>0, <1>4, <1>5, <2>2 DEF LinkTyped, Whole, Fits
  <2> QED  BY <1>4, <1>5, <2>3, <2>4, SameInstalled
<1>7. CASE ~Skewed(b)
  <2>1. batch' = With(batch, [x \in {c} |-> b]) /\ verdict' = NoVerdict
    BY <1>2, <1>7
  <2>2. Fits(batch')
    <3> HIDE DEF b
    <3>1. batch' = [x \in DOMAIN batch \cup {c} |-> IF x = c THEN b ELSE batch[x]]
      BY <2>1 DEF With
    <3> QED  BY <1>0, <1>3, <3>1, LibraryAssumption DEF Fits, AbiNames
  <2>3. LinkTyped'
    BY <1>0, <1>4, <1>5, <2>2 DEF LinkTyped, Whole, Fits
  <2> QED  BY <1>4, <1>5, <2>1, <2>3, NothingRefused, SameInstalled
<1> QED  BY <1>6, <1>7

LEMMA LibraryBuilt == LinkInv /\ BuildLibrary => LinkInv'
<1> SUFFICES ASSUME LinkInv, BuildLibrary PROVE LinkInv'
  OBVIOUS
<1>1. PICK lib \in LibraryBuilds : batch' = With(batch, [x \in {"llvm"} |-> lib])
  BY DEF BuildLibrary
<1>2. lib \in Library
  BY LibraryAssumption DEF Library
<1>3. batch' = [x \in DOMAIN batch \cup {"llvm"} |-> IF x = "llvm" THEN lib ELSE batch[x]]
  BY <1>1 DEF With
<1>4. Fits(batch')
  BY <1>2, <1>3, LibraryAssumption DEF LinkInv, LinkTyped, Fits, AbiNames
<1>5. LinkTyped'
  BY <1>4 DEF LinkInv, LinkTyped, BuildLibrary, Whole, Fits
<1> QED  BY <1>5, NothingRefused, SameInstalled DEF BuildLibrary

\* The look at a batch after its install misses only what is exempt.
LEMMA BatchInstalled == LinkInv /\ InstallBatch => LinkInv'
<1> SUFFICES ASSUME LinkInv, InstallBatch PROVE LinkInv'
  OBVIOUS
<1> DEFINE w == With(libs, batch)
           lib == libs["llvm"]
<1>1. Whole(libs) /\ Fits(batch) /\ inRepos \in Nat
  BY DEF LinkInv, LinkTyped
<1>2. /\ Whole(w) /\ Whole(Older(w)) /\ Older(w)["llvm"] = w["llvm"]
      /\ \A l \in AbiNames : w[l] = IF l \in DOMAIN batch THEN batch[l] ELSE libs[l]
      /\ \A c \in Consumers : Older(w)[c].ver = w[c].ver /\ Older(w)[c].undef = w[c].undef
  BY <1>1, WithFits
<1>3. libs' = w \/ libs' = Older(w)
  BY DEF InstallBatch
<1> HIDE DEF w
<1>4. /\ Whole(libs') /\ lib' = IF "llvm" \in DOMAIN batch THEN batch["llvm"] ELSE lib
      /\ \A c \in Consumers : libs'[c].ver = IF c \in DOMAIN batch THEN batch[c].ver ELSE libs[c].ver
  BY <1>2, <1>3 DEF AbiNames
<1>5. LinkTyped'
  BY <1>1, <1>4, NoneStaged DEF LinkTyped, InstallBatch, NoStage, Fits, Whole
<1>6. ASSUME NEW c \in Broken' PROVE c \in said' \cup exempt'
  <2>1. c \in Consumers /\ ~Resolves(libs'[c], lib')
    BY DEF Broken, Resolves
  <2>2. CASE libs'[c].ver = lib'.ver
    <3>1. LostTells'
      BY LostIsBroken, PTL
    <3>2. lib' \in Library
      BY <1>4 DEF Whole, Fits, AbiNames
    <3>3. (Lost(c, lib) # {})'
      BY <1>4, <2>1, <2>2, <3>1, <3>2 DEF LostTells, Resolves, Whole, Fits
    <3>4. c \in Short(lib, {})'
      BY <2>1, <3>3 DEF Short, Candidates, Dependents, Consumers
    <3> QED  BY <3>4 DEF InstallBatch
  <2>3. CASE libs'[c].ver # lib'.ver /\ "llvm" \in DOMAIN batch /\ batch["llvm"].ver # lib.ver
    BY <2>3 DEF InstallBatch
  <2>4. CASE libs'[c].ver # lib'.ver /\ ~("llvm" \in DOMAIN batch /\ batch["llvm"].ver # lib.ver)
    <3>1. lib'.ver = lib.ver
      BY <1>4, <2>4
    <3>2. exempt' = (exempt \ DOMAIN batch) \cup {k \in DOMAIN batch \cap Consumers : batch[k].ver # lib'.ver}
      BY <2>4 DEF InstallBatch
    <3>3. CASE c \in DOMAIN batch
      BY <1>4, <2>1, <2>4, <3>2, <3>3
    <3>4. CASE c \notin DOMAIN batch
      <4>1. libs[c].ver # lib.ver
        BY <1>4, <2>1, <2>4, <3>1, <3>4
      <4>2. c \in said \cup exempt
        BY <2>1, <4>1 DEF LinkInv, SymbolsSound, BrokenIsSaid, Broken, Resolves, InstallBatch
      <4> QED  BY <3>2, <3>4, <4>2 DEF InstallBatch
    <3> QED  BY <3>3, <3>4
  <2> QED  BY <2>2, <2>3, <2>4
<1>7. BrokenIsSaid'
  BY <1>6 DEF BrokenIsSaid
<1>8. stage'.pc = "idle" /\ RefusedIsBroken'
  BY NothingRefused DEF InstallBatch, NoStage
<1> QED  BY <1>5, <1>7, <1>8 DEF LinkInv, SymbolsSound

\* pacman -Syu leaves nothing broken that is not exempt.
LEMMA Upgraded == LinkInv /\ Upgrade => LinkInv'
<1> SUFFICES ASSUME LinkInv, Upgrade PROVE LinkInv'
  OBVIOUS
<1> DEFINE lib == IF libs["llvm"].ver > inRepos THEN libs["llvm"] ELSE RepoBuild(inRepos + 1)
           new == RepoBuild(inRepos + 1)
<1>1. Whole(libs) /\ inRepos \in Nat
  BY DEF LinkInv, LinkTyped
<1>2. new \in Library /\ lib \in Library
  BY <1>1, RepoFits DEF Whole, Fits, AbiNames
<1>3. libs' = [l \in DOMAIN libs |->
                  IF l = "llvm" THEN lib
                  ELSE IF libs[l].source THEN [libs[l] EXCEPT !.newer = FALSE]
                  ELSE [Linked(l, new, FALSE) EXCEPT !.newer = FALSE]]
  BY DEF Upgrade
<1> HIDE DEF lib, new
<1>4. \A c \in Consumers : libs'[c] \in Consumer
  <2> TAKE c \in Consumers
  <2>1. c # "llvm" /\ c \in DOMAIN libs /\ libs[c] \in Consumer
    BY <1>1, LibraryAssumption DEF Whole, Fits, AbiNames
  <2>2. Linked(c, new, FALSE) \in Consumer
    BY <1>2, LinkedFits
  <2>3. libs'[c] = [libs[c] EXCEPT !.newer = FALSE] \/ libs'[c] = [Linked(c, new, FALSE) EXCEPT !.newer = FALSE]
    BY <1>3, <2>1
  <2> QED  BY <2>1, <2>2, <2>3, AgedFits
<1>5. DOMAIN libs' = AbiNames /\ libs' = [l \in AbiNames |-> libs'[l]] /\ libs'["llvm"] = lib
  BY <1>1, <1>3 DEF Whole, AbiNames
<1>6. Whole(libs')
  BY <1>2, <1>4, <1>5 DEF Whole, Fits
<1>7. LinkTyped'
  <2>1. UNCHANGED <<batch, stage>> /\ inRepos' \in Nat
    BY <1>1 DEF Upgrade
  <2> QED  BY <1>6, <2>1 DEF LinkInv, LinkTyped, Fits, Whole
<1>8. Broken' \subseteq exempt'
  BY DEF Upgrade
<1>9. SymbolsSound'
  BY <1>8, NothingRefused DEF Upgrade, SymbolsSound, BrokenIsSaid
<1> QED  BY <1>7, <1>8, <1>9 DEF LinkInv, Upgrade

\* A step that leaves the stage or goes on with it, its libraries as they are.
LEMMA StageGoesOn ==
    ASSUME LinkInv, libs' = libs, batch' = batch \/ batch' = <<>>, inRepos' = inRepos,
           said \subseteq said', exempt' = exempt, stage.pc # "verify", stage'.pc # "verify", RefusedIsBroken',
           NEW STATE go, stage' \in {go, NoStage}, go.pc \in {"built", "install"},
           go \in Stagings, Whole(go.before), go.target.ver # go.seen => Consumers \ go.ships \subseteq said'
    PROVE  LinkInv'
<1>1. Fits(batch') /\ Whole(libs')
  <2>1. CASE batch' = <<>>
    BY <2>1 DEF LinkInv, LinkTyped, Fits, Whole
  <2>2. CASE batch' = batch
    BY <2>2 DEF LinkInv, LinkTyped, Fits, Whole
  <2> QED  BY <2>1, <2>2
<1>2. stage' = NoStage => stage'.pc = "idle" /\ stage' \in Stagings
  BY NoneStaged DEF NoStage
<1>3. LinkTyped'
  <2>1. CASE stage' = go
    BY <1>1, <2>1 DEF LinkInv, LinkTyped, Fits, Whole
  <2>2. CASE stage' = NoStage
    BY <1>1, <1>2, <2>2 DEF LinkInv, LinkTyped, Fits, Whole
  <2> QED  BY <2>1, <2>2
<1>4. BrokenIsSaid'
  BY DEF LinkInv, SymbolsSound, BrokenIsSaid, Broken, Resolves
<1>5. stage'.pc \in {"built", "install"} => stage' = go
  BY <1>2
<1> QED  BY <1>3, <1>4, <1>5 DEF LinkInv, SymbolsSound

\* Another version names all that it does not ship.
LEMMA StageStarted == LinkInv /\ StageStart => LinkInv'
<1> SUFFICES ASSUME LinkInv, StageStart PROVE LinkInv'
  OBVIOUS
<1>1. PICK lib \in LibraryBuilds, mode \in Modes, ships \in SUBSET Others :
         LET hit == IF lib.ver = libs["llvm"].ver THEN {} ELSE Declared(ships)
             go == [pc |-> "built", target |-> lib, ships |-> ships, mode |-> mode, seen |-> libs["llvm"].ver,
                    queue |-> Queued(mode, hit), before |-> libs]
         IN  /\ said' = said \cup hit
             /\ stage' \in Agreed(mode, hit, go)
  BY DEF StageStart
<1> DEFINE hit == IF lib.ver = libs["llvm"].ver THEN {} ELSE Declared(ships)
           q == Queued(mode, hit)
           go == [pc |-> "built", target |-> lib, ships |-> ships, mode |-> mode, seen |-> libs["llvm"].ver,
                  queue |-> q, before |-> libs]
<1>2. stage' \in {go, NoStage} /\ said' = said \cup hit
  BY <1>1 DEF Agreed
<1>3. lib \in Library /\ Whole(libs)
  BY LibraryAssumption DEF Library, LinkInv, LinkTyped
<1>4. go.target.ver # go.seen => Consumers \ go.ships \subseteq said'
  BY <1>2 DEF Declared
<1>5. UNCHANGED <<libs, inRepos, batch, exempt>> /\ stage.pc = "idle" /\ RefusedIsBroken'
  BY NothingRefused DEF StageStart
<1>6. stage'.pc # "verify"
  BY <1>2 DEF NoStage
<1>7. q \in SUBSET Consumers
  BY DEF Queued, Declared
<1>8. libs["llvm"].ver \in Nat
  BY <1>3 DEF Whole, Fits, AbiNames, Library
<1>9. libs \in [AbiNames -> Library \cup Consumer]
  BY <1>3, WholeTyped
<1> HIDE DEF q, hit
<1>10. go \in Stagings
  BY <1>3, <1>7, <1>8, <1>9 DEF Stagings
<1> QED  BY <1>2, <1>3, <1>4, <1>5, <1>6, <1>10, StageGoesOn

\* The gate before the install refuses only what would not load.
LEMMA SecondGate == LinkInv /\ Gate2 => LinkInv'
<1> SUFFICES ASSUME LinkInv, Gate2 PROVE LinkInv'
  OBVIOUS
<1> DEFINE short == Short(stage.target, stage.ships)
           gone == {c \in short : ~Healable(c, stage.target, FALSE)}
           hit == IF short = {} THEN {} ELSE Declared(stage.ships)
           q == stage.queue \cup Queued(stage.mode, hit)
           go == [stage EXCEPT !.pc = "install", !.queue = q]
<1>1. /\ stage.pc = "built" /\ UNCHANGED <<libs, inRepos, batch, exempt, abiSteps>>
      /\ IF gone # {}
         THEN /\ stage' = NoStage /\ verdict' = [refused |-> TRUE, of |-> {libs[c] : c \in gone}, with |-> stage.target]
              /\ UNCHANGED said
         ELSE /\ stage' \in Agreed(stage.mode, hit, go)
              /\ verdict' = NoVerdict /\ said' = said \cup hit
  BY DEF Gate2
<1>2. Whole(libs) /\ stage.target \in Library /\ LinkTyped
  BY <1>1 DEF LinkInv, LinkTyped, Stagings
<1>3. RefusedIsBroken'
  <2>1. CASE gone # {}
    <3>1. \A c \in gone : c \in Consumers /\ ~Resolves(libs[c], stage.target)
      BY <1>2, LostIsBroken DEF LostTells, Short, Candidates, Dependents, Consumers
    <3>2. verdict' = [refused |-> TRUE, of |-> {libs[c] : c \in gone}, with |-> stage.target]
      BY <1>1, <2>1
    <3> HIDE DEF gone
    <3> QED  BY <3>1, <3>2 DEF RefusedIsBroken, Resolves
  <2>2. CASE gone = {}
    BY <1>1, <2>2, NothingRefused
  <2> QED  BY <2>1, <2>2
<1> HIDE DEF short, gone, hit, q
<1>4. /\ go \in Stagings /\ go.pc = "install" /\ go.target = stage.target /\ go.ships = stage.ships
      /\ go.seen = stage.seen /\ go.before = stage.before
  <2>1. q \in SUBSET Consumers
    BY <1>2 DEF q, hit, LinkTyped, Stagings, Queued, Declared
  <2> QED  BY <1>2, <2>1 DEF LinkTyped, Stagings
<1> HIDE DEF go
<1>5. stage' \in {go, NoStage} /\ said \subseteq said'
  BY <1>1 DEF Agreed
<1>6. go.target.ver # go.seen => Consumers \ go.ships \subseteq said'
  BY <1>1, <1>4, <1>5 DEF LinkInv
<1>7. Whole(go.before) /\ stage'.pc # "verify" /\ stage.pc # "verify"
  BY <1>1, <1>2, <1>4, <1>5 DEF LinkTyped, NoStage
<1> QED  BY <1>1, <1>3, <1>4, <1>5, <1>6, <1>7, StageGoesOn

\* The products of the stage, as a batch over what is installed.
LEMMA ShippedFits ==
    ASSUME NEW ships \in SUBSET Others, NEW lib \in Library, NEW g,
           g = [l \in {"llvm"} \cup ships |-> IF l = "llvm" THEN lib ELSE Linked(l, lib, TRUE)]
    PROVE  /\ Fits(g) /\ DOMAIN g = {"llvm"} \cup ships
           /\ \A c \in ships : g[c] = Linked(c, lib, TRUE) /\ Resolves(g[c], lib)
<1>1. \A c \in ships : c \in Consumers /\ c # "llvm" /\ c \in {"llvm"} \cup ships
  BY LibraryAssumption DEF Consumers
<1>2. \A c \in ships : g[c] = Linked(c, lib, TRUE)
  BY <1>1
<1>3. \A c \in ships : Linked(c, lib, TRUE) \in Consumer /\ Resolves(Linked(c, lib, TRUE), lib)
  BY <1>1, LinkedFits
<1>4. DOMAIN g \cap Consumers = ships /\ DOMAIN g \subseteq AbiNames /\ g["llvm"] = lib
  BY <1>1, LibraryAssumption DEF AbiNames
<1> QED  BY <1>2, <1>3, <1>4 DEF Fits

LEMMA SuiteInstalled == LinkInv /\ StageInstall => LinkInv'
<1> SUFFICES ASSUME LinkInv, StageInstall PROVE LinkInv'
  OBVIOUS
<1> DEFINE lib == stage.target
           g == [l \in {"llvm"} \cup stage.ships |-> IF l = "llvm" THEN lib ELSE Linked(l, lib, TRUE)]
           w == With(libs, g)
<1>1. /\ LinkTyped /\ Whole(libs) /\ inRepos \in Nat /\ lib \in Library /\ stage.ships \subseteq Others
      /\ stage.pc = "install"
  BY DEF LinkInv, LinkTyped, StageInstall, Stagings
<1>2. /\ Fits(g) /\ DOMAIN g = {"llvm"} \cup stage.ships
      /\ \A c \in stage.ships : Resolves(g[c], lib)
  BY <1>1, ShippedFits
<1>3. g["llvm"] = lib
  OBVIOUS
<1>4. libs' = Older(w)
  BY DEF StageInstall
<1>5. stage' = [stage EXCEPT !.pc = "verify"] /\ UNCHANGED <<inRepos, batch>> /\ verdict' = NoVerdict
      /\ said' = said \ stage.ships
      /\ exempt' = (exempt \ stage.ships) \cup IF libs["llvm"].ver = stage.seen THEN {} ELSE Broken'
  BY DEF StageInstall
<1> HIDE DEF g
<1>6. /\ Whole(Older(w)) /\ Older(w)["llvm"] = w["llvm"]
      /\ \A l \in AbiNames : w[l] = IF l \in DOMAIN g THEN g[l] ELSE libs[l]
      /\ \A c \in Consumers : Older(w)[c].ver = w[c].ver /\ Older(w)[c].undef = w[c].undef
  BY <1>1, <1>2, WithFits
<1> HIDE DEF w
<1>7. Whole(libs') /\ libs'["llvm"] = lib
  BY <1>2, <1>3, <1>4, <1>6 DEF AbiNames
<1>8. /\ stage' \in Stagings /\ stage'.pc = "verify" /\ stage'.target = lib /\ stage'.ships = stage.ships
      /\ stage'.before = stage.before
  BY <1>1, <1>5 DEF LinkTyped, Stagings
<1>9. LinkTyped'
  BY <1>1, <1>5, <1>7, <1>8 DEF LinkTyped, Fits, Whole
<1>10. ASSUME NEW c \in Broken' \ (said' \cup exempt')
       PROVE  c \notin stage.ships /\ libs'[c].ver = lib.ver
  <2>1. c \in Consumers /\ ~Resolves(libs'[c], lib)
    BY <1>7 DEF Broken, Resolves
  <2>2. libs'[c].ver = w[c].ver /\ libs'[c].undef = w[c].undef
        /\ w[c] = IF c \in DOMAIN g THEN g[c] ELSE libs[c]
    BY <1>4, <1>6, <2>1 DEF AbiNames
  <2>3. c \notin stage.ships
    <3> SUFFICES ASSUME c \in stage.ships PROVE FALSE
      OBVIOUS
    <3>1. libs'[c].ver = g[c].ver /\ libs'[c].undef = g[c].undef
      BY <1>2, <2>2
    <3> QED  BY <1>2, <2>1, <3>1, LoadsAlike
  <2>4. libs["llvm"].ver = stage.seen
    BY <1>5
  <2>5. c \notin said /\ c \notin exempt
    BY <1>5, <2>3
  <2>6. lib.ver = stage.seen
    BY <1>1, <2>1, <2>3, <2>5 DEF LinkInv
  <2>7. libs[c].ver = libs["llvm"].ver
    BY <1>1, <2>1, <2>5 DEF LinkInv, SymbolsSound, BrokenIsSaid, Broken, Resolves
  <2>8. w[c] = libs[c]
    BY <1>2, <2>1, <2>2, <2>3, LibraryAssumption
  <2> QED  BY <2>2, <2>3, <2>4, <2>6, <2>7, <2>8
<1>11. SymbolsSound'
  BY <1>5, <1>8, NothingRefused DEF SymbolsSound, BrokenIsSaid, Broken
<1> QED  BY <1>7, <1>8, <1>9, <1>10, <1>11 DEF LinkInv

\* The gate after it finds what is short in silence, or takes all back.
LEMMA ThirdGate == LinkInv /\ Gate3 => LinkInv'
<1> SUFFICES ASSUME LinkInv, Gate3 PROVE LinkInv'
  OBVIOUS
<1> DEFINE short == Short(libs["llvm"], stage.ships)
           gone == {c \in short : ~Healable(c, libs["llvm"], TRUE)}
           g == [l \in {"llvm"} \cup stage.ships |-> stage.before[l]]
<1>1. LinkTyped /\ Whole(libs) /\ Whole(stage.before) /\ stage.ships \subseteq Others /\ stage.pc = "verify"
  BY DEF LinkInv, LinkTyped, Gate3, Stagings
<1>2. verdict' = NoVerdict /\ UNCHANGED <<inRepos, batch>> /\ RefusedIsBroken'
  BY NothingRefused DEF Gate3
<1>3. CASE gone # {}
  <2>1. libs' = Older(With(libs, g)) /\ exempt' = exempt \cup Broken' /\ stage' = NoStage /\ UNCHANGED said
    BY <1>3 DEF Gate3
  <2>2. Fits(g)
    BY <1>1, LibraryAssumption DEF Fits, Whole, AbiNames, Consumers
  <2> HIDE DEF g
  <2>3. Whole(libs')
    BY <1>1, <2>1, <2>2, WithFits
  <2>4. LinkTyped'
    BY <1>1, <1>2, <2>1, <2>3, NoneStaged DEF LinkTyped, NoStage, Fits, Whole
  <2>5. BrokenIsSaid' /\ stage'.pc = "idle"
    BY <2>1 DEF BrokenIsSaid, NoStage
  <2> QED  BY <1>2, <2>4, <2>5 DEF LinkInv, SymbolsSound
<1>4. CASE gone = {}
  <2>1. /\ said' = said \cup short /\ UNCHANGED <<libs, exempt>>
        /\ stage' = IF stage.queue = {} THEN NoStage ELSE [stage EXCEPT !.pc = "rebuild"]
    BY <1>4 DEF Gate3
  <2>2. /\ stage' \in Stagings /\ stage'.pc \in {"idle", "rebuild"}
        /\ stage'.pc = "rebuild" => stage'.before = stage.before
    BY <1>1, <2>1, NoneStaged DEF LinkTyped, Stagings, NoStage
  <2>3. LinkTyped' /\ stage'.pc \in {"idle", "rebuild"}
    BY <1>1, <1>2, <2>1, <2>2 DEF LinkTyped, Fits, Whole
  <2>4. ASSUME NEW c \in Broken PROVE c \in said' \cup exempt'
    <3> SUFFICES ASSUME c \notin said, c \notin exempt PROVE c \in short
      BY <2>1
    <3>1. c \notin stage.ships /\ libs[c].ver = libs["llvm"].ver /\ c \in Consumers /\ ~Resolves(libs[c], libs["llvm"])
      BY <1>1 DEF LinkInv, Broken
    <3>2. libs["llvm"] \in Library
      BY <1>1 DEF Whole, Fits, AbiNames
    <3>3. Lost(c, libs["llvm"]) # {}
      BY <1>1, <3>1, <3>2, LostIsBroken DEF LostTells
    <3> QED  BY <3>1, <3>3 DEF Short, Candidates, Dependents, Consumers
  <2>5. Broken' = Broken
    BY <2>1 DEF Broken, Resolves
  <2> QED  BY <1>2, <2>3, <2>4, <2>5 DEF LinkInv, SymbolsSound, BrokenIsSaid
<1> QED  BY <1>3, <1>4

LEMMA StageEnded == LinkInv /\ StageEnds => LinkInv'
<1> SUFFICES ASSUME LinkInv, StageEnds PROVE LinkInv'
  OBVIOUS
<1> USE DEF StageEnds
<1>1. stage' = NoStage /\ batch' = <<>> /\ UNCHANGED <<libs, inRepos, exempt>> /\ RefusedIsBroken'
  BY NothingRefused
<1>2. LinkTyped'
  BY <1>1, NoneStaged DEF LinkInv, LinkTyped, NoStage, Fits, Whole
<1>3. Broken' = Broken /\ Broken \subseteq Consumers
  BY <1>1 DEF Broken, Resolves
<1>4. BrokenIsSaid'
  BY <1>3 DEF LinkInv, SymbolsSound, BrokenIsSaid
<1> QED  BY <1>1, <1>2, <1>4 DEF LinkInv, SymbolsSound, NoStage

LEMMA LinkStep == LinkInv /\ [NextAbi]_abiVars => LinkInv'
<1> SUFFICES ASSUME LinkInv, [NextAbi]_abiVars PROVE LinkInv'
  OBVIOUS
<1>1. CASE UNCHANGED abiVars
  BY <1>1 DEF abiVars, LinkInv, LinkTyped, SymbolsSound, BrokenIsSaid, RefusedIsBroken, Broken, Resolves, Whole, Fits
<1> QED
  BY <1>1, ConsumerBuilt, LibraryBuilt, BatchInstalled, Upgraded, StageStarted, SecondGate,
     SuiteInstalled, ThirdGate, StageEnded DEF NextAbi

(* BrokenIsSaid and RefusedIsBroken (find_abi_issues, the gates of the      *)
(* toolchain stage, _post_install_libllvm_check), for any consumers, any    *)
(* builds of the library and whatever it exports or drops.                  *)
THEOREM SymbolsAreSound == AbiSpec => []SymbolsSound
<1>1. LinkInv => SymbolsSound
  BY DEF LinkInv
<1> QED  BY <1>1, LinkInit, LinkStep, PTL DEF AbiSpec

-----------------------------------------------------------------------------
(* The files of PKGDEST.  A file name tells its package and its version,    *)
(* whatever hyphens the package's name has.  ArchiveInv says that no file   *)
(* of a member is of a version to come, and while a build's packages are    *)
(* waiting, which files are its own.                                        *)

Dated == DOMAIN Texts
Words == STRING \cup {"0", "1", "any", "sysforge"}   \* the provers take no literal for a string
Named == Seq(Words)

LEMMA TextOf == ASSUME NEW v \in Dated PROVE Texts[v] \in Words /\ Texts[v] # "0" /\ Texts[v] # NoVersion
<1>1. Texts \in Seq(STRING \ {"0", NoVersion}) /\ v \in 1 .. Len(Texts)
  BY TextsApart, LenProperties DEF Dated
<1>2. Texts[v] \in STRING \ {"0", NoVersion}
  BY <1>1, ElementOfSeq
<1> QED  BY <1>2 DEF Words

LEMMA DatedFrom == 1 \in Dated /\ Dated = 1 .. Len(Texts) /\ Len(Texts) \in Nat
<1>1. Texts \in Seq(STRING \ {"0", NoVersion}) /\ Texts # <<>>
  BY TextsApart
<1> QED  BY <1>1, EmptySeq, LenProperties DEF Dated

LEMMA RankOf == ASSUME NEW v \in Dated PROVE Rank(Texts[v]) = v
  BY TextsApart DEF Rank, Dated

\* The words of a name, and then those of the version.
LEMMA FileTells ==
    ASSUME NEW n \in Named, NEW t \in Words
    PROVE  /\ FileOf(n, t) \in Named /\ Len(FileOf(n, t)) = Len(n) + 3 /\ Len(n) \in Nat
           /\ SubSeq(FileOf(n, t), 1, Len(n)) = n
           /\ FileOf(n, t)[Len(n) + 1] = t
<1> DEFINE e == <<t, "1", "any">>
           f == FileOf(n, t)
<1>1. e \in Named /\ Len(e) = 3 /\ e[1] = t
  <2>1. "1" \in Words /\ "any" \in Words
    BY DEF Words
  <2> QED  BY <2>1 DEF Named
<1>2. f = n \o e
  BY DEF FileOf
<1> HIDE DEF e, f
<1>3. Len(n) \in Nat
  BY LenProperties DEF Named
<1>4. f \in Named /\ Len(f) = Len(n) + 3
      /\ \A i \in 1 .. Len(n) + 3 : f[i] = IF i <= Len(n) THEN n[i] ELSE e[i - Len(n)]
  <2>1. /\ n \o e \in Seq(Words) /\ Len(n \o e) = Len(n) + Len(e)
        /\ \A i \in 1 .. Len(n) + Len(e) : (n \o e)[i] = IF i <= Len(n) THEN n[i] ELSE e[i - Len(n)]
    <3>1. n \in Seq(Words) /\ e \in Seq(Words)
      BY <1>1 DEF Named
    <3> QED  BY <3>1, ConcatProperties, Zenon
  <2> QED  BY <1>1, <1>2, <2>1 DEF Named
<1>5. f[Len(n) + 1] = t
  BY <1>1, <1>3, <1>4
<1>6. \A i \in 1 .. Len(n) : f[i] = n[i] /\ f[i] \in Words
  BY <1>3, <1>4, ElementOfSeq DEF Named
<1>7. SubSeq(f, 1, Len(n)) = n
  <2> DEFINE s == SubSeq(f, 1, Len(n))
  <2>1. s \in Seq(Words) /\ Len(s) = (IF 1 <= Len(n) THEN Len(n) - 1 + 1 ELSE 0)
        /\ \A i \in 1 .. Len(n) - 1 + 1 : s[i] = f[1 + i - 1]
    <3>1. 1 \in Int /\ Len(n) \in Int /\ \A i \in 1 .. Len(n) : f[i] \in Words
      BY <1>3, <1>6
    <3> HIDE DEF s
    <3> QED  BY <3>1, SubSeqProperties DEF s
  <2>2. Len(s) = Len(n) /\ \A i \in 1 .. Len(n) : s[i] = f[i]
    BY <1>3, <2>1
  <2> HIDE DEF s
  <2> QED  BY <1>6, <2>1, <2>2, SeqEqual DEF Named, s
<1> QED  BY <1>3, <1>4, <1>5, <1>7 DEF f

LEMMA FileIsOne ==
    ASSUME NEW m \in Named, NEW n \in Named, NEW t \in Words, NEW u \in Words,
           FileOf(m, t) = FileOf(n, u)
    PROVE  m = n /\ t = u
<1>1. Len(m) + 3 = Len(n) + 3 /\ Len(m) \in Nat /\ Len(n) \in Nat
  BY FileTells
<1>2. Len(m) = Len(n)
  BY <1>1
<1> QED  BY <1>2, FileTells

\* version_from_artifact: the version of a file for exactly its package.
LEMMA VersionTells ==
    ASSUME NEW m \in Named, NEW n \in Named, NEW t \in Words
    PROVE  VersionIn(m, FileOf(n, t)) = IF m = n THEN t ELSE NoVersion
<1>1. Len(FileOf(n, t)) = Len(n) + 3 /\ Len(m) \in Nat /\ Len(n) \in Nat
  BY FileTells
<1>2. CASE m = n
  BY <1>1, <1>2, FileTells DEF VersionIn
<1>3. CASE m # n
  <2>1. ASSUME Len(m) = Len(n) PROVE SubSeq(FileOf(n, t), 1, Len(m)) # m
    BY <1>3, <2>1, FileTells
  <2> QED  BY <1>1, <1>3, <2>1 DEF VersionIn
<1> QED  BY <1>2, <1>3

\* The package and the version that pacman compares.
LEMMA ParsedAs ==
    ASSUME NEW n \in Named, NEW t \in Words
    PROVE  LET f == FileOf(n, t) IN SubSeq(f, 1, Len(f) - 3) = n /\ f[Len(f) - 2] = t
<1>1. Len(FileOf(n, t)) = Len(n) + 3 /\ Len(n) \in Nat
  BY FileTells
<1>2. Len(FileOf(n, t)) - 3 = Len(n) /\ Len(FileOf(n, t)) - 2 = Len(n) + 1
  BY <1>1
<1> QED  BY <1>2, FileTells

LEMMA NamesAre ==
    /\ Members \subseteq Named /\ Neighbours \subseteq Named /\ Members \cap Neighbours = {}
    /\ \A n \in Named : n \o <<"sysforge">> \in Named
<1>1. STRING \subseteq Words
  BY DEF Words
<1>2. \A n \in Seq(STRING) : n \in Seq(Words)
  BY <1>1, SeqMonotonic
<1>3. ASSUME NEW n \in Named PROVE n \o <<"sysforge">> \in Named
  <2>1. <<"sysforge">> \in Seq(Words)
    BY DEF Words
  <2> QED  BY <2>1, ConcatProperties DEF Named
<1> QED  BY <1>2, <1>3, NamesTyped DEF Named

-----------------------------------------------------------------------------
(* The invariant.                                                           *)

Recipes == [ver : Dated, vcs : BOOLEAN, mode : {"plain", "extracted", "renamed"}]

\* What a file is of; a member's is of no version to come.
OfVersion(f, n, v) == f = FileOf(n, Texts[v]) /\ (n \in Members => v <= recipe.ver)

Waiting ==
    /\ pending.how \in {"built", "reused"} /\ pending.files = Emitted /\ Emitted \cap Archive # {}
    /\ pending.how = "built" =>
          /\ \A f \in Emitted : [file |-> f, made |-> shipments] \in pkgdest
          /\ \A a \in pkgdest : a.made = shipments => a.file \in Emitted

PutIsBuilt ==
    \/ put.files \subseteq put.of
    \/ put.sidecar # NoSidecar /\ put.sidecar # put.of
    \/ put.sidecar = NoSidecar /\ put.mode = "renamed"
    \/ put.how = "reused" /\ ~put.whole

ArchiveInv ==
    /\ recipe \in Recipes /\ shipments \in Nat
    /\ \A a \in pkgdest : /\ a = [file |-> a.file, made |-> a.made] /\ a.made \in 0 .. shipments
                          /\ \E n \in Named, v \in Dated : OfVersion(a.file, n, v)
    /\ pending # Nobody => Waiting
    /\ PutIsBuilt

LEMMA ShownIs == ASSUME NEW n \in Members PROVE Shown(n) \in Named
  BY NamesAre DEF Shown

\* The files of one build.
LEMMA EmittedIs ==
    ASSUME recipe \in Recipes, NEW f \in Emitted
    PROVE  /\ \E n \in Members : f = FileOf(Shown(n), Texts[recipe.ver])
           /\ \E n \in Named, v \in Dated : OfVersion(f, n, v)
<1>1. recipe.ver \in Dated /\ recipe.ver <= recipe.ver
  BY DatedFrom DEF Recipes
<1>2. PICK n \in Members : f = FileOf(Shown(n), Texts[recipe.ver])
  BY DEF Emitted
<1> QED  BY <1>1, <1>2, ShownIs DEF OfVersion

\* A build's own file of a package is the newest, and the only one made then.
LEMMA RecordTold ==
    ASSUME ArchiveInv, pending.how = "built", NEW n \in Members
    PROVE  FileOf(Shown(n), RecordedVersion(Shown(n), pkgdest)) \in pending.files
<1> DEFINE m == Shown(n)
           t == Texts[recipe.ver]
           ofMember == {a \in pkgdest : VersionIn(m, a.file) # NoVersion}
           mine == [file |-> FileOf(m, t), made |-> shipments]
           last == CHOOSE a \in ofMember : \A b \in ofMember : b.made <= a.made
<1>1. pending # Nobody /\ Waiting /\ recipe.ver \in Dated /\ shipments \in Nat /\ m \in Named
  BY ShownIs DEF Nobody, ArchiveInv, Recipes
<1>2. t \in Words /\ t # NoVersion
  BY <1>1, TextOf
<1>3. FileOf(m, t) \in Emitted
  BY DEF Emitted
<1>4. mine \in ofMember
  <2>1. mine \in pkgdest
    BY <1>1, <1>3 DEF Waiting
  <2>2. mine.file = FileOf(m, t)
    OBVIOUS
  <2>3. VersionIn(m, mine.file) # NoVersion
    BY <1>1, <1>2, <2>2, VersionTells
  <2> QED  BY <2>1, <2>3
<1>5. mine.made = shipments /\ \A b \in ofMember : b.made \in 0 .. shipments
  BY DEF ArchiveInv
<1>6. \A b \in ofMember : b.made <= mine.made
  BY <1>1, <1>5
<1> HIDE DEF ofMember, mine
<1>7. last \in ofMember /\ mine.made <= last.made
  BY <1>4, <1>6
<1>8. last.made = shipments /\ last \in pkgdest
  BY <1>1, <1>5, <1>7 DEF ofMember
<1>9. last.file \in Emitted
  BY <1>1, <1>8 DEF Waiting
<1>10. PICK k \in Members : last.file = FileOf(Shown(k), t)
  BY <1>9 DEF Emitted
<1> HIDE DEF last, t, m
<1>11. VersionIn(m, last.file) # NoVersion
  BY <1>7 DEF ofMember
<1>12. VersionIn(m, last.file) = t
  BY <1>1, <1>2, <1>10, <1>11, ShownIs, VersionTells
<1>13. ofMember # {} /\ RecordedVersion(m, pkgdest) = VersionIn(m, last.file)
  BY <1>4 DEF RecordedVersion, ofMember, last
<1> QED  BY <1>1, <1>3, <1>12, <1>13 DEF Waiting, m

\* What the PKGBUILD says, when all files of the build are there and no names
\* were changed: those files, the ones of the versions before them aside.
Unchanged == recipe.mode # "renamed" /\ Emitted \subseteq Archive

LEMMA PlainFiles ==
    ASSUME ArchiveInv, Unchanged
    PROVE  /\ Emitted = {FileOf(n, Texts[recipe.ver]) : n \in Members}
           /\ \A f \in Archive, n \in Members : VersionIn(n, f) # NoVersion =>
                 \E v \in Dated : f = FileOf(n, Texts[v]) /\ v <= recipe.ver /\ VersionIn(n, f) = Texts[v]
           /\ \A n \in Members : VersionIn(n, FileOf(n, Texts[recipe.ver])) = Texts[recipe.ver]
<1>1. recipe.ver \in Dated
  BY DEF ArchiveInv, Recipes
<1>2. Emitted = {FileOf(n, Texts[recipe.ver]) : n \in Members}
  BY DEF Unchanged, Emitted, Shown
<1>3. ASSUME NEW f \in Archive, NEW n \in Members, VersionIn(n, f) # NoVersion
      PROVE  \E v \in Dated : f = FileOf(n, Texts[v]) /\ v <= recipe.ver /\ VersionIn(n, f) = Texts[v]
  <2>1. PICK m \in Named, v \in Dated : OfVersion(f, m, v)
    BY DEF Archive, ArchiveInv
  <2>2. f = FileOf(m, Texts[v]) /\ Texts[v] \in Words /\ n \in Named
    BY <2>1, TextOf, NamesAre DEF OfVersion
  <2>3. VersionIn(n, f) = IF n = m THEN Texts[v] ELSE NoVersion
    BY <2>2, VersionTells
  <2>4. n = m
    BY <1>3, <2>3
  <2> QED  BY <2>1, <2>2, <2>3, <2>4 DEF OfVersion
<1>4. ASSUME NEW n \in Members PROVE VersionIn(n, FileOf(n, Texts[recipe.ver])) = Texts[recipe.ver]
  BY <1>1, TextOf, NamesAre, VersionTells
<1> QED  BY <1>2, <1>3, <1>4

LEMMA TakenOf == ASSUME NEW S PROVE Taken(S) \subseteq S
  BY DEF Taken

LEMMA ByNameTaken ==
    ASSUME ArchiveInv, Unchanged
    PROVE  Taken(ByName) \subseteq Emitted
<1> DEFINE scoped == {f \in Archive : IsOf(Members, f)}
           current == {f \in scoped : \E n \in Members : VersionIn(n, f) = Stated}
           now == Texts[recipe.ver]
<1>1. recipe.ver \in Dated /\ now # NoVersion /\ now # "0"
  BY TextOf DEF ArchiveInv, Recipes
<1>2. ByName = IF current # {} THEN current ELSE scoped
  BY DEF ByName
<1>3. Emitted = {FileOf(n, now) : n \in Members}
  BY PlainFiles
<1>4. \A n \in Members : FileOf(n, now) \in scoped /\ VersionIn(n, FileOf(n, now)) = now
  BY <1>1, <1>3, PlainFiles DEF Unchanged, IsOf
<1>5. \A f \in scoped, n \in Members : VersionIn(n, f) # NoVersion =>
         \E v \in Dated : f = FileOf(n, Texts[v]) /\ v <= recipe.ver /\ VersionIn(n, f) = Texts[v]
  BY PlainFiles
<1>6. CASE ~recipe.vcs
  <2>1. Stated = now
    BY <1>6 DEF Stated
  <2>2. current # {}
    BY <1>4, <2>1, NamesTyped
  <2>3. ASSUME NEW f \in current PROVE f \in Emitted
    <3>1. PICK n \in Members : VersionIn(n, f) = now
      BY <2>1
    <3>2. PICK v \in Dated : f = FileOf(n, Texts[v]) /\ VersionIn(n, f) = Texts[v]
      BY <1>1, <1>5, <3>1
    <3> QED  BY <1>3, <3>1, <3>2
  <2> QED  BY <1>2, <2>2, <2>3, TakenOf
<1>7. CASE recipe.vcs
  <2>1. Stated = "0"
    BY <1>7 DEF Stated
  <2>2. ASSUME NEW f \in current PROVE FALSE
    <3>1. PICK n \in Members : VersionIn(n, f) = "0"
      BY <2>1
    <3>2. PICK v \in Dated : VersionIn(n, f) = Texts[v]
      BY <1>5, <3>1, TextsApart
    <3> QED  BY <3>1, <3>2, TextOf
  <2>3. ByName = scoped
    BY <1>2, <2>2
  <2> HIDE DEF scoped, current, now
  <2>4. ASSUME NEW f \in Taken(scoped) PROVE f \in Emitted
    <3>1. f \in scoped /\ \A g \in scoped :
             SubSeq(f, 1, Len(f) - 3) = SubSeq(g, 1, Len(g) - 3) => Rank(g[Len(g) - 2]) <= Rank(f[Len(f) - 2])
      BY <2>4 DEF Taken
    <3>2. PICK n \in Members : VersionIn(n, f) # NoVersion
      BY <3>1 DEF scoped, IsOf
    <3>3. PICK v \in Dated : f = FileOf(n, Texts[v]) /\ v <= recipe.ver
      BY <1>5, <3>1, <3>2
    <3> DEFINE g == FileOf(n, now)
    <3>4. n \in Named /\ Texts[v] \in Words /\ now \in Words
      BY <1>1, NamesAre, TextOf DEF now
    <3>5. SubSeq(f, 1, Len(f) - 3) = n /\ f[Len(f) - 2] = Texts[v]
      BY <3>3, <3>4, ParsedAs
    <3>6. SubSeq(g, 1, Len(g) - 3) = n /\ g[Len(g) - 2] = now
      BY <3>4, ParsedAs
    <3>7. Rank(now) <= Rank(Texts[v])
      BY <1>4, <3>1, <3>5, <3>6
    <3>8. recipe.ver <= v
      BY <1>1, <3>7, RankOf DEF now
    <3>9. v = recipe.ver
      BY <1>1, <3>3, <3>8, DatedFrom
    <3> QED  BY <1>3, <3>3, <3>9 DEF now
  <2> QED  BY <2>3, <2>4
<1> QED  BY <1>6, <1>7

\* select_built_version of a build that is there already, and noted nothing.
LEMMA ReusedTaken ==
    ASSUME ArchiveInv, Unchanged, sidecar = NoSidecar
    PROVE  Reusable \subseteq Emitted
<1> DEFINE strict == {f \in Archive : \E n \in Members : f = FileOf(n, Stated)}
           newest == {f \in Archive : \E n \in Members :
                          /\ VersionIn(n, f) # NoVersion
                          /\ \A g \in Archive : VersionIn(n, g) # NoVersion =>
                                Rank(VersionIn(n, g)) <= Rank(VersionIn(n, f))}
           Held(n) == \E f \in strict : IsOf({n}, f)
           now == Texts[recipe.ver]
<1>1. recipe.ver \in Dated /\ now # NoVersion /\ now # "0"
  BY TextOf DEF ArchiveInv, Recipes
<1>2. Reusable = strict \cup {f \in newest : \E n \in Members : ~Held(n) /\ IsOf({n}, f)}
  BY DEF Reusable
<1>3. Emitted = {FileOf(n, now) : n \in Members}
  BY PlainFiles
<1>4. \A n \in Members : FileOf(n, now) \in Archive /\ VersionIn(n, FileOf(n, now)) = now
  BY <1>3, PlainFiles DEF Unchanged
<1>5. \A f \in Archive, n \in Members : VersionIn(n, f) # NoVersion =>
         \E v \in Dated : f = FileOf(n, Texts[v]) /\ v <= recipe.ver /\ VersionIn(n, f) = Texts[v]
  BY PlainFiles
<1>6. CASE ~recipe.vcs
  <2>1. Stated = now
    BY <1>6 DEF Stated
  <2>2. strict \subseteq Emitted
    BY <1>3, <2>1
  <2>3. \A n \in Members : Held(n)
    <3> TAKE n \in Members
    <3>1. FileOf(n, now) \in strict
      BY <1>4, <2>1
    <3>2. IsOf({n}, FileOf(n, now))
      BY <1>1, <1>4 DEF IsOf
    <3> QED  BY <3>1, <3>2
  <2> QED  BY <1>2, <2>2, <2>3
<1>7. CASE recipe.vcs
  <2>1. Stated = "0"
    BY <1>7 DEF Stated
  <2> HIDE DEF newest, now
  <2>2. ASSUME NEW f \in strict PROVE FALSE
    <3>1. PICK n \in Members : f = FileOf(n, "0")
      BY <2>1
    <3>2. PICK m \in Named, v \in Dated : f = FileOf(m, Texts[v])
      BY DEF Archive, ArchiveInv, OfVersion
    <3>3. n \in Named /\ "0" \in Words
      BY NamesAre DEF Words
    <3>4. FileOf(n, "0")[Len(FileOf(n, "0")) - 2] = "0"
      BY <3>3, ParsedAs
    <3>5. FileOf(m, Texts[v])[Len(FileOf(m, Texts[v])) - 2] = Texts[v]
      BY <3>2, TextOf, ParsedAs
    <3> QED  BY <3>1, <3>2, <3>4, <3>5, TextOf
  <2>3. ASSUME NEW f \in newest PROVE f \in Emitted
    <3>1. PICK n \in Members :
             /\ f \in Archive /\ VersionIn(n, f) # NoVersion
             /\ \A g \in Archive : VersionIn(n, g) # NoVersion => Rank(VersionIn(n, g)) <= Rank(VersionIn(n, f))
      BY <2>3 DEF newest
    <3>2. PICK v \in Dated : f = FileOf(n, Texts[v]) /\ v <= recipe.ver /\ VersionIn(n, f) = Texts[v]
      BY <1>5, <3>1
    <3>3. Rank(now) <= Rank(Texts[v])
      BY <1>1, <1>4, <3>1, <3>2
    <3>4. recipe.ver <= v
      BY <1>1, <3>2, <3>3, RankOf DEF now
    <3>5. v = recipe.ver
      BY <1>1, <3>2, <3>4, DatedFrom
    <3> QED  BY <1>3, <3>2, <3>5 DEF now
  <2> QED  BY <1>2, <2>2, <2>3
<1> QED  BY <1>6, <1>7

\* Whatever is taken for the build's, from a sidecar or by name, is its own.
LEMMA InstallTold ==
    ASSUME ArchiveInv, Waiting, NEW S, Installed(S),
           S = Scoped \/ S = Reusable \/ (pending.how = "built" /\ S = pending.files)
    PROVE  PutIsBuilt'
<1>1. /\ put'.files = Taken(S) /\ put'.of = Emitted /\ put'.how = pending.how /\ put'.mode = recipe.mode
      /\ put'.sidecar = sidecar /\ put'.whole = (Emitted \subseteq Archive)
  BY DEF Installed, Waiting
<1>2. Taken(S) \subseteq S /\ Emitted \cap Archive # {}
  BY TakenOf DEF Waiting
<1>3. CASE S = pending.files
  BY <1>1, <1>2, <1>3 DEF Waiting, PutIsBuilt
<1>4. CASE sidecar # NoSidecar /\ S # pending.files
  <2>1. CASE sidecar # Emitted
    BY <1>1, <1>4, <2>1 DEF PutIsBuilt
  <2>2. CASE sidecar = Emitted
    <3>1. NamedInSidecar = Archive \cap Emitted
      BY <1>4, <2>2 DEF NamedInSidecar
    <3>2. S = NamedInSidecar
      BY <1>2, <1>4, <3>1 DEF Scoped, Reusable
    <3> QED  BY <1>1, <1>2, <3>1, <3>2 DEF PutIsBuilt
  <2> QED  BY <2>1, <2>2
<1>5. CASE sidecar = NoSidecar /\ S # pending.files
  <2>1. CASE recipe.mode = "renamed"
    BY <1>1, <1>5, <2>1 DEF PutIsBuilt
  <2>2. CASE ~(Emitted \subseteq Archive)
    <3>1. pending.how = "reused"
      <4>1. ASSUME pending.how = "built", NEW f \in Emitted PROVE f \in Archive
        <5>1. [file |-> f, made |-> shipments] \in pkgdest
          BY <4>1 DEF Waiting
        <5>2. [file |-> f, made |-> shipments].file = f
          OBVIOUS
        <5> QED  BY <5>1, <5>2 DEF Archive
      <4> QED  BY <2>2, <4>1 DEF Waiting
    <3> QED  BY <1>1, <2>2, <3>1 DEF PutIsBuilt
  <2>3. CASE recipe.mode # "renamed" /\ Emitted \subseteq Archive
    <3>1. Unchanged
      BY <2>3 DEF Unchanged
    <3>2. CASE S = Reusable
      BY <1>1, <1>2, <1>5, <3>1, <3>2, ReusedTaken DEF PutIsBuilt
    <3>3. CASE S = Scoped
      <4>1. Scoped = ByName
        BY <1>5 DEF Scoped, NamedInSidecar
      <4> QED  BY <1>1, <3>1, <3>3, <4>1, ByNameTaken DEF PutIsBuilt
    <3> QED  BY <1>5, <3>2, <3>3
  <2> QED  BY <2>1, <2>2, <2>3
<1> QED  BY <1>3, <1>4, <1>5

LEMMA ArchiveInit == InitArtifacts => ArchiveInv
<1> SUFFICES ASSUME InitArtifacts PROVE ArchiveInv
  OBVIOUS
<1>1. recipe \in Recipes
  BY DatedFrom DEF InitArtifacts, Recipes
<1>2. ASSUME NEW a \in pkgdest
      PROVE  /\ a = [file |-> a.file, made |-> a.made] /\ a.made \in 0 .. shipments
             /\ \E n \in Named, v \in Dated : OfVersion(a.file, n, v)
  <2>1. PICK n \in Neighbours, v \in Dated : a = [file |-> FileOf(n, Texts[v]), made |-> 0]
    BY DEF InitArtifacts, Dated
  <2>2. n \in Named /\ n \notin Members /\ OfVersion(a.file, n, v)
    BY <2>1, NamesAre DEF OfVersion
  <2> QED  BY <2>1, <2>2 DEF InitArtifacts
<1>3. put.files = {} /\ pending = Nobody /\ shipments = 0
  BY DEF InitArtifacts
<1> QED  BY <1>1, <1>2, <1>3 DEF ArchiveInv, PutIsBuilt

\* Later versions leave the files what they are.
LEMMA FilesStay ==
    ASSUME ArchiveInv, pkgdest' \subseteq pkgdest, recipe'.ver >= recipe.ver, recipe' \in Recipes,
           shipments' \in Nat, shipments' >= shipments
    PROVE  \A a \in pkgdest' : /\ a = [file |-> a.file, made |-> a.made] /\ a.made \in 0 .. shipments'
                               /\ \E n \in Named, v \in Dated : OfVersion(a.file, n, v)'
<1> SUFFICES ASSUME NEW a \in pkgdest'
             PROVE  /\ a = [file |-> a.file, made |-> a.made] /\ a.made \in 0 .. shipments'
                    /\ \E n \in Named, v \in Dated : OfVersion(a.file, n, v)'
  OBVIOUS
<1>1. /\ a = [file |-> a.file, made |-> a.made] /\ a.made \in 0 .. shipments /\ shipments \in Nat
      /\ \E n \in Named, v \in Dated : OfVersion(a.file, n, v)
  BY DEF ArchiveInv
<1>2. PICK n \in Named, v \in Dated : OfVersion(a.file, n, v)
  BY <1>1
<1>3. recipe.ver \in Nat /\ recipe'.ver \in Nat /\ v \in Nat
  BY DatedFrom DEF ArchiveInv, Recipes
<1>4. OfVersion(a.file, n, v)'
  BY <1>2, <1>3 DEF OfVersion
<1> QED  BY <1>1, <1>4

LEMMA ArchiveStep == ArchiveInv /\ [NextArtifacts]_artVars => ArchiveInv'
<1> SUFFICES ASSUME ArchiveInv, [NextArtifacts]_artVars PROVE ArchiveInv'
  OBVIOUS
<1> USE DEF ArchiveInv
<1>0. recipe.ver \in Dated /\ recipe.ver \in Nat /\ Dated = 1 .. Len(Texts) /\ Len(Texts) \in Nat
  BY DatedFrom DEF Recipes
<1>1. CASE BuildFresh
  <2>1. /\ shipments' = shipments + 1 /\ recipe' = recipe /\ put' = put
        /\ pkgdest' = pkgdest \cup {[file |-> f, made |-> shipments'] : f \in Emitted}
        /\ pending' = [how |-> "built", files |-> Emitted]
    BY <1>1 DEF BuildFresh
  <2>2. Emitted' = Emitted /\ PutIsBuilt'
    BY <2>1 DEF Emitted, Shown, PutIsBuilt
  <2>3. ASSUME NEW a \in pkgdest'
        PROVE  /\ a = [file |-> a.file, made |-> a.made] /\ a.made \in 0 .. shipments'
               /\ \E n \in Named, v \in Dated : OfVersion(a.file, n, v)'
               /\ a.made = shipments' => a.file \in Emitted
    <3>1. CASE a \in pkgdest
      <4>1. /\ a = [file |-> a.file, made |-> a.made] /\ a.made \in 0 .. shipments
            /\ \E n \in Named, v \in Dated : OfVersion(a.file, n, v)
        BY <3>1
      <4>2. \E n \in Named, v \in Dated : OfVersion(a.file, n, v)'
        BY <2>1, <4>1 DEF OfVersion
      <4>3. a.made \in 0 .. shipments' /\ a.made # shipments'
        BY <2>1, <4>1
      <4> QED  BY <4>1, <4>2, <4>3
    <3>2. CASE a \notin pkgdest
      <4>1. PICK f \in Emitted : a = [file |-> f, made |-> shipments']
        BY <2>1, <3>2
      <4>2. \E n \in Named, v \in Dated : OfVersion(f, n, v)
        BY EmittedIs
      <4>3. \E n \in Named, v \in Dated : OfVersion(f, n, v)'
        BY <2>1, <4>2 DEF OfVersion
      <4> QED  BY <2>1, <4>1, <4>3
    <3> QED  BY <3>1, <3>2
  <2>4. \A f \in Emitted : [file |-> f, made |-> shipments'] \in pkgdest'
    BY <2>1
  <2>5. Emitted \cap Archive' # {}
    <3>1. PICK n : n \in Members
      BY NamesTyped
    <3>2. FileOf(Shown(n), Texts[recipe.ver]) \in Emitted
      BY <3>1 DEF Emitted
    <3>3. PICK f : f \in Emitted
      BY <3>2
    <3>4. [file |-> f, made |-> shipments'] \in pkgdest' /\ [file |-> f, made |-> shipments'].file = f
      BY <2>4, <3>3
    <3> QED  BY <3>3, <3>4 DEF Archive
  <2>6. Waiting'
    BY <2>1, <2>2, <2>3, <2>4, <2>5 DEF Waiting
  <2> QED  BY <2>1, <2>2, <2>3, <2>6
<1>2. CASE ReuseBuilt
  <2>1. /\ shipments' = shipments + 1 /\ recipe' = recipe /\ put' = put /\ pkgdest' = pkgdest
        /\ pending' = [how |-> "reused", files |-> Emitted] /\ Emitted \cap Archive # {}
    BY <1>2 DEF ReuseBuilt
  <2>2. Emitted' = Emitted /\ Archive' = Archive /\ PutIsBuilt'
    BY <2>1 DEF Emitted, Shown, Archive, PutIsBuilt
  <2>3. Waiting'
    BY <2>1, <2>2 DEF Waiting
  <2> QED  BY <1>0, <2>1, <2>2, <2>3, FilesStay
<1>3. CASE InstallBuilt
  <2>1. /\ pending # Nobody /\ Installed(Scoped) /\ pending' = Nobody
        /\ pkgdest' = pkgdest /\ recipe' = recipe /\ shipments' = shipments
    BY <1>3 DEF InstallBuilt
  <2>2. PutIsBuilt'
    BY <2>1, InstallTold
  <2> QED  BY <1>0, <2>1, <2>2, FilesStay
<1>4. CASE InstallUpdate
  <2>1. /\ pending # Nobody /\ pending' = Nobody
        /\ Installed(IF pending.how = "built" THEN pending.files ELSE Reusable)
        /\ pkgdest' = pkgdest /\ recipe' = recipe /\ shipments' = shipments
    BY <1>4 DEF InstallUpdate
  <2>2. PutIsBuilt'
    BY <2>1, InstallTold
  <2> QED  BY <1>0, <2>1, <2>2, FilesStay
<1>5. CASE NotInstalled
  <2>1. pending' = Nobody /\ UNCHANGED <<pkgdest, recipe, put, shipments>>
    BY <1>5 DEF NotInstalled
  <2>2. PutIsBuilt'
    BY <2>1 DEF PutIsBuilt
  <2> QED  BY <1>0, <2>1, <2>2, FilesStay
<1>6. CASE NewVersion
  <2>1. /\ pending = Nobody /\ recipe.ver < Len(Texts) /\ recipe' = [recipe EXCEPT !.ver = @ + 1]
        /\ UNCHANGED <<pkgdest, pending, put, shipments>>
    BY <1>6 DEF NewVersion
  <2>2. recipe' \in Recipes /\ recipe'.ver >= recipe.ver
    BY <1>0, <2>1 DEF Recipes
  <2>3. PutIsBuilt'
    BY <2>1 DEF PutIsBuilt
  <2> QED  BY <2>1, <2>2, <2>3, FilesStay
<1>7. CASE Configure
  <2>1. PICK m \in {"plain", "extracted", "renamed"} : recipe' = [recipe EXCEPT !.mode = m]
    BY <1>7 DEF Configure
  <2>2. pending = Nobody /\ UNCHANGED <<pkgdest, pending, put, shipments>>
    BY <1>7 DEF Configure
  <2>3. recipe' \in Recipes /\ recipe'.ver = recipe.ver /\ PutIsBuilt'
    BY <2>1, <2>2 DEF Recipes, PutIsBuilt
  <2> QED  BY <1>0, <2>2, <2>3, FilesStay
<1>8. CASE Cleared
  <2>1. pending = Nobody /\ pkgdest' \subseteq pkgdest /\ UNCHANGED <<recipe, pending, put, shipments>>
    BY <1>8 DEF Cleared
  <2>2. PutIsBuilt'
    BY <2>1 DEF PutIsBuilt
  <2> QED  BY <1>0, <2>1, <2>2, FilesStay
<1>9. CASE UNCHANGED artVars
  <2>1. UNCHANGED <<pkgdest, recipe, pending, put, shipments>>
    BY <1>9 DEF artVars
  <2>2. PutIsBuilt' /\ Emitted' = Emitted /\ Archive' = Archive
    BY <2>1 DEF PutIsBuilt, Emitted, Shown, Archive
  <2>3. pending' # Nobody => Waiting'
    BY <2>1, <2>2 DEF Waiting
  <2> QED  BY <1>0, <2>1, <2>2, <2>3, FilesStay
<1> QED  BY <1>1, <1>2, <1>3, <1>4, <1>5, <1>6, <1>7, <1>8, <1>9 DEF NextArtifacts

(* InstalledIsBuilt: for PKGBUILDs and neighbours of any names and any      *)
(* number of versions and builds, what is installed was emitted by the      *)
(* build it is installed for, but for the exceptions the property names     *)
(* (_artifacts_for_pkgbuild, find_artifacts, select_built_version).         *)
THEOREM InstalledAreBuilt == ArchiveSpec => []InstalledIsBuilt
<1>1. ArchiveInv => InstalledIsBuilt
  BY RecordTold DEF ArchiveInv, PutIsBuilt, InstalledIsBuilt
<1> QED  BY <1>1, ArchiveInit, ArchiveStep, PTL DEF ArchiveSpec
=============================================================================

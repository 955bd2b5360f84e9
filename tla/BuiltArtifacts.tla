--------------------------- MODULE BuiltArtifacts ---------------------------
(***************************************************************************)
(* Which files of PKGDEST are a build's own (primitives/                    *)
(* makepkg_artifacts.py, build/makepkg_wrapper.py).  PKGDEST is an archive  *)
(* that several PKGBUILDs and all their versions share.  A build that       *)
(* renames its packages, or takes flags out of its PKGBUILD, notes the      *)
(* names of its files in a sidecar next to it; whoever installs it reads    *)
(* that, and goes by the PKGBUILD without.                                  *)
(*                                                                          *)
(* A file name is the sequence of what its hyphens separate.                *)
(***************************************************************************)
EXTENDS Naturals, Sequences, FiniteSets

CONSTANTS
    Members,        \* the packages of the PKGBUILD: sequences of words
    Neighbours,     \* those of others
    Texts,          \* the versions, oldest first
    MaxShipments, NoSidecar, NoVersion

ASSUME NamesTyped ==
    /\ Members \subseteq Seq(STRING) /\ Members # {}
    /\ Neighbours \subseteq Seq(STRING) \ Members
ASSUME TextsApart ==
    /\ Texts \in Seq(STRING \ {"0", NoVersion}) \ {<<>>}
    /\ \A v, w \in DOMAIN Texts : Texts[v] = Texts[w] => v = w
    /\ NoVersion # "0"

VARIABLES
    pkgdest,        \* the files in PKGDEST, with the build that wrote them last
    recipe,         \* [ver, vcs, mode]: mode is "plain", "extracted" or "renamed"
    sidecar,        \* the names in it, or NoSidecar
    pending,        \* the build whose packages are to be installed: [how, files]
    put,            \* the last installation: what it took, of which build, and the sidecar then
    shipments

artVars == <<pkgdest, recipe, sidecar, pending, put, shipments>>

FileOf(name, text) == name \o <<text, "1", "any">>
Archive == {a.file : a \in pkgdest}
Nobody == [how |-> "none", files |-> {}]

InitArtifacts ==
    /\ pkgdest = {[file |-> FileOf(n, Texts[v]), made |-> 0] : n \in Neighbours, v \in DOMAIN Texts}
    /\ recipe \in [ver : {1}, vcs : BOOLEAN, mode : {"plain", "extracted", "renamed"}]
    /\ sidecar = NoSidecar /\ pending = Nobody /\ shipments = 0
    /\ put = [files |-> {}, of |-> {}, how |-> "none", mode |-> "plain", sidecar |-> NoSidecar, whole |-> TRUE]

-----------------------------------------------------------------------------
(* Names.                                                                  *)

\* Mutant: whatever begins with the name is the package.
VersionByPrefix(name, file) ==
    IF Len(file) > Len(name) + 2 /\ SubSeq(file, 1, Len(name)) = name THEN file[Len(file) - 2] ELSE NoVersion

\* The name, and then exactly version, release and architecture.
VersionIn(name, file) ==
    IF Len(file) = Len(name) + 3 /\ SubSeq(file, 1, Len(name)) = name THEN file[Len(name) + 1] ELSE NoVersion

IsOf(names, file) == \E n \in names : VersionIn(n, file) # NoVersion
Rank(text) == CHOOSE v \in DOMAIN Texts : Texts[v] = text

Shown(name) == IF recipe.mode = "renamed" THEN name \o <<"sysforge">> ELSE name
Emitted == {FileOf(Shown(n), Texts[recipe.ver]) : n \in Members}

\* What the PKGBUILD on disk says: pkgver() rewrites a copy of it.
Stated == IF recipe.vcs THEN "0" ELSE Texts[recipe.ver]

-----------------------------------------------------------------------------
(* Which files are this build's.                                           *)

(* By the PKGBUILD: its names, and its version where any file has it.       *)
ByName ==
    LET scoped == {f \in Archive : IsOf(Members, f)}
        current == {f \in scoped : \E n \in Members : VersionIn(n, f) = Stated}
    IN  IF current # {} THEN current ELSE scoped

NamedInSidecar == IF sidecar = NoSidecar THEN {} ELSE Archive \cap sidecar

\* For install_built_packages; nothing at all rather than what is not known.
Scoped == IF NamedInSidecar # {} THEN NamedInSidecar ELSE ByName

\* build and update, told that it is built already: the sidecar decides alone.
Reusable ==
    IF sidecar # NoSidecar THEN NamedInSidecar
    ELSE LET strict == {f \in Archive : \E n \in Members : f = FileOf(n, Stated)}
             newest == {f \in Archive : \E n \in Members :
                          /\ VersionIn(n, f) # NoVersion
                          /\ \A g \in Archive : VersionIn(n, g) # NoVersion =>
                                Rank(VersionIn(n, g)) <= Rank(VersionIn(n, f))}
             Has(n) == \E f \in strict : IsOf({n}, f)
         IN  strict \cup {f \in newest : \E n \in Members : ~Has(n) /\ IsOf({n}, f)}

\* The version a record gets: that of the file written last.
RecordedVersion(name, archive) ==
    LET own == {a \in archive : VersionIn(name, a.file) # NoVersion}
    IN  IF own = {} THEN NoVersion
        ELSE VersionIn(name, (CHOOSE a \in own : \A b \in own : b.made <= a.made).file)

\* pacman -U given several versions of a package takes the newest.
Taken(files) ==
    {f \in files : \A g \in files :
        SubSeq(f, 1, Len(f) - 3) = SubSeq(g, 1, Len(g) - 3) => Rank(g[Len(g) - 2]) <= Rank(f[Len(f) - 2])}

-----------------------------------------------------------------------------
(* Builds.                                                                 *)

Adapted == recipe.mode # "plain"

\* The sidecar after a build; makepkg --packagelist may fail.
Captured == IF Adapted THEN {Emitted, sidecar} ELSE {sidecar}

CapturedOnReuse == IF Adapted THEN {Emitted, sidecar} ELSE {NoSidecar}

\* makepkg takes some of the files there for all of them.
BuildFresh ==
    /\ pending = Nobody /\ shipments < MaxShipments /\ Emitted \cap Archive = {}
    /\ shipments' = shipments + 1
    /\ pkgdest' = pkgdest \cup {[file |-> f, made |-> shipments'] : f \in Emitted}
    /\ sidecar' \in Captured
    /\ pending' = [how |-> "built", files |-> Emitted]
    /\ UNCHANGED <<recipe, put>>

ReuseBuilt ==
    /\ pending = Nobody /\ shipments < MaxShipments /\ Emitted \cap Archive # {}
    /\ shipments' = shipments + 1
    /\ sidecar' \in CapturedOnReuse
    /\ pending' = [how |-> "reused", files |-> Emitted]
    /\ UNCHANGED <<pkgdest, recipe, put>>

Installed(files) ==
    put' = [files |-> Taken(files), of |-> pending.files, how |-> pending.how,
            mode |-> recipe.mode, sidecar |-> sidecar, whole |-> pending.files \subseteq Archive]

\* The stages and the builds of dependencies: the sidecar is used up.
InstallBuilt ==
    /\ pending # Nobody /\ Scoped # {}
    /\ Installed(Scoped) /\ sidecar' = NoSidecar /\ pending' = Nobody
    /\ UNCHANGED <<pkgdest, recipe, shipments>>

\* build and update: what appeared in PKGDEST, or what is there already.
InstallUpdate ==
    LET files == IF pending.how = "built" THEN pending.files ELSE Reusable
    IN  /\ pending # Nobody /\ files # {}
        /\ Installed(files) /\ pending' = Nobody
        /\ UNCHANGED <<pkgdest, recipe, sidecar, shipments>>

\* An install that finds nothing, is refused or killed.
NotInstalled == pending # Nobody /\ pending' = Nobody /\ UNCHANGED <<pkgdest, recipe, sidecar, put, shipments>>

-----------------------------------------------------------------------------
(* Between builds.                                                         *)

NewVersion ==
    /\ pending = Nobody /\ recipe.ver < Len(Texts)
    /\ recipe' = [recipe EXCEPT !.ver = @ + 1]
    /\ UNCHANGED <<pkgdest, sidecar, pending, put, shipments>>

Configure ==
    /\ pending = Nobody
    /\ \E m \in {"plain", "extracted", "renamed"} : recipe' = [recipe EXCEPT !.mode = m]
    /\ UNCHANGED <<pkgdest, sidecar, pending, put, shipments>>

\* The operator, or paccache, removes a file.
Cleared ==
    /\ pending = Nobody
    /\ \E a \in pkgdest : a.made > 0 /\ pkgdest' = pkgdest \ {a}
    /\ UNCHANGED <<recipe, sidecar, pending, put, shipments>>

NextArtifacts ==
    \/ BuildFresh \/ ReuseBuilt \/ InstallBuilt \/ InstallUpdate \/ NotInstalled \/ NewVersion \/ Configure \/ Cleared

ArchiveSpec == InitArtifacts /\ [][NextArtifacts]_artVars

-----------------------------------------------------------------------------
(* Properties.                                                             *)

(* Whatever else lies in PKGDEST, what is installed after a build was       *)
(* emitted by it, and the record made then has its version; but for a       *)
(* sidecar that an earlier build left (SidecarIsOfThisBuild), a renamed     *)
(* build whose names could not be noted, and the reuse of a package some of *)
(* whose files are gone, which falls back on the newest of each             *)
(* (_artifacts_for_pkgbuild, find_artifacts, select_built_version).         *)
InstalledIsBuilt ==
    /\ \/ put.files \subseteq put.of
       \/ put.sidecar # NoSidecar /\ put.sidecar # put.of
       \/ put.sidecar = NoSidecar /\ put.mode = "renamed"
       \/ put.how = "reused" /\ ~put.whole
    /\ pending.how = "built" =>
         \A n \in Members : FileOf(Shown(n), RecordedVersion(Shown(n), pkgdest)) \in pending.files

(* After a build its sidecar names its own files, or there is none          *)
(* (_capture_built_manifest: "any failure leaves no sidecar").              *)
SidecarIsOfThisBuild == pending.how = "built" => sidecar \in {NoSidecar, pending.files}
=============================================================================

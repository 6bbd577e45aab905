----------------------------- MODULE ModelPackage -----------------------------
(***************************************************************************)
(* A directory that becomes a model package: package_model() of several    *)
(* processes that were given the same destination (packaging.py), with     *)
(* build_manifest() and write_manifest() (manifest.py), and loads of that  *)
(* directory meanwhile: load_checkpoint() (checkpoints.py) followed by the *)
(* reading of the files.                                                   *)
(*                                                                         *)
(* Of a file's contents the model keeps whether they are all there and     *)
(* whether they are those of the source.  Digests are the contents         *)
(* themselves.  A process may be killed anywhere; files may be damaged.    *)
(***************************************************************************)
EXTENDS Integers, Sequences

CONSTANTS
  Packagers,   \* calls of package_model() with this destination
  Readers,     \* loads of it
  Items,       \* COPIED_ITEMS: for each, the files it stands for
  Required,    \* REQUIRED_FILES
  Nobody

Files == UNION {Items[i] : i \in DOMAIN Items}

ASSUME PackageAssumption ==
  /\ Nobody \notin Packagers
  /\ Required \subseteq Files

VARIABLES
  maker,      \* the packager that made the directory; Nobody: there is none
  files,      \* the contents of each file
  manifest,   \* manifest.json: a digest for each file, or NoManifest
  pc,         \* of each packager
  built,      \* the manifest that each packager has built
  loads       \* of each reader: where it is, files to do, the manifest it uses, and
              \* `early`: files of a published package damaged before it began

vars == <<maker, files, manifest, pc, built, loads>>

Complete == {"whole", "damaged"}
Contents == {"absent", "partial"} \cup Complete
NoManifest == [f \in {} |-> "absent"]
Manifests == [Files -> Complete] \cup {NoManifest}

TypeOK ==
  /\ maker \in Packagers \cup {Nobody}
  /\ files \in [Files -> Contents]
  /\ manifest \in Manifests
  /\ pc \in [Packagers -> {"idle", "checked", "copying", "built", "written", "removing",
                           "refused", "failed", "left", "killed", "returned"}]
  /\ built \in [Packagers -> Manifests]
  /\ loads \in [Readers -> [at : {"idle", "exist", "check", "read", "refused", "accepted"},
                            todo : SUBSET Files, manifest : Manifests, early : SUBSET Files]]

Init ==
  /\ maker = Nobody
  /\ files = [f \in Files |-> "absent"]
  /\ manifest = NoManifest
  /\ pc = [p \in Packagers |-> "idle"]
  /\ built = [p \in Packagers |-> NoManifest]
  /\ loads = [r \in Readers |-> [at |-> "idle", todo |-> {}, manifest |-> NoManifest, early |-> {}]]

----------------------------------------------------------------------------
\* package_model()
Goto(p, place) == pc' = [pc EXCEPT ![p] = place]

CheckDestination(p) ==
  /\ pc[p] = "idle"
  /\ Goto(p, IF maker = Nobody THEN "checked" ELSE "refused")
  /\ UNCHANGED <<maker, files, manifest, built, loads>>

\* mkdir(), which raises if another process was faster, outside the try.
RefuseAndRemove(p) == Goto(p, "removing") /\ UNCHANGED maker      \* mutant: inside the try
Refuse(p) == Goto(p, "refused") /\ UNCHANGED maker

MakeDirectory(p) ==
  /\ pc[p] = "checked"
  /\ IF maker = Nobody THEN Goto(p, "copying") /\ maker' = p ELSE Refuse(p)
  /\ UNCHANGED <<files, manifest, built, loads>>

\* The item being copied; a directory's files come in any order.
Missing(i) == {f \in Items[i] : files[f] \notin Complete}
Current(i) == Missing(i) # {} /\ \A j \in 1 .. i - 1 : Missing(j) = {}
FirstItem == 1 .. 1                                  \* mutant: the loop ends after one item
ItemsToCopy == DOMAIN Items

CopyFile(p) ==
  /\ pc[p] = "copying"
  /\ \E i \in ItemsToCopy : Current(i) /\ \E f \in Missing(i) :
       files' = [files EXCEPT ![f] = IF @ = "absent" THEN "partial" ELSE "whole"]
  /\ UNCHANGED <<maker, manifest, pc, built, loads>>

\* build_manifest() reads the copy, so damage before it goes unnoticed.
Build(p) ==
  /\ pc[p] = "copying"
  /\ \A i \in ItemsToCopy : Missing(i) = {}
  /\ built' = [built EXCEPT ![p] = files]
  /\ Goto(p, "built")
  /\ UNCHANGED <<maker, files, manifest, loads>>

\* write_manifest() writes beside and renames: the manifest appears whole.
WriteManifest(p) ==
  /\ pc[p] = "built"
  /\ manifest' = built[p]
  /\ Goto(p, "written")
  /\ UNCHANGED <<maker, files, built, loads>>

\* verify_model() of the copy has found nothing.
Return(p) ==
  /\ pc[p] = "written"
  /\ files = manifest
  /\ Goto(p, "returned")
  /\ UNCHANGED <<maker, files, manifest, built, loads>>

\* Any step of the try may raise, an interrupt or a failed verification included.
StartRemoval(p) == Goto(p, "removing")
Raise(p) ==
  /\ pc[p] \in {"copying", "built", "written"}
  /\ StartRemoval(p)
  /\ UNCHANGED <<maker, files, manifest, built, loads>>

\* rmtree() of the path, whoever made it, in the order of the directory's entries;
\* errors are ignored, and then something may be left.
RemoveFile(p) ==
  /\ pc[p] = "removing"
  /\ \/ \E f \in Files : /\ files[f] # "absent"
                         /\ files' = [files EXCEPT ![f] = "absent"]
                         /\ UNCHANGED manifest
     \/ manifest # NoManifest /\ manifest' = NoManifest /\ UNCHANGED files
  /\ UNCHANGED <<maker, pc, built, loads>>

Empty == manifest = NoManifest /\ \A f \in Files : files[f] = "absent"
RemoveDirectory(p) ==
  /\ pc[p] = "removing"
  /\ Empty
  /\ maker' = Nobody
  /\ Goto(p, "failed")
  /\ UNCHANGED <<files, manifest, built, loads>>

IgnoreErrors(p) ==
  /\ pc[p] = "removing"
  /\ Goto(p, "left")
  /\ UNCHANGED <<maker, files, manifest, built, loads>>

Killed(p) ==
  /\ pc[p] \in {"copying", "built", "written", "removing"}
  /\ Goto(p, "killed")
  /\ UNCHANGED <<maker, files, manifest, built, loads>>

\* The disk, or a user who edits a file.
Damage(f) ==
  /\ files[f] = "whole"
  /\ files' = [files EXCEPT ![f] = "damaged"]
  /\ UNCHANGED <<maker, manifest, pc, built, loads>>

----------------------------------------------------------------------------
\* load_checkpoint() and the reading of what it has accepted.
Set(r, at, todo) == loads' = [loads EXCEPT ![r].at = at, ![r].todo = todo]
RefuseLoad(r) == Set(r, "refused", {})
Tick(r, f) == loads' = [loads EXCEPT ![r].todo = @ \ {f}]

Published == \E p \in Packagers : pc[p] = "returned"
DamagedSince == IF Published THEN {f \in DOMAIN manifest : files[f] # manifest[f]} ELSE {}

BeginLoad(r) ==
  /\ loads[r].at = "idle"
  /\ loads' = [loads EXCEPT ![r] =
       [at |-> IF maker = Nobody THEN "refused" ELSE "exist",
        todo |-> IF maker = Nobody THEN {} ELSE Required,
        manifest |-> NoManifest, early |-> DamagedSince]]

Exists(r, f) ==
  /\ loads[r].at = "exist" /\ f \in loads[r].todo
  /\ IF files[f] = "absent" THEN RefuseLoad(r) ELSE Tick(r, f)

\* verify_manifest(): without a manifest there is nothing to check.
OpenManifest(r) ==
  /\ loads[r].at = "exist" /\ loads[r].todo = {}
  /\ IF manifest = NoManifest
     THEN Set(r, "read", Required)
     ELSE loads' = [loads EXCEPT ![r].at = "check", ![r].todo = Files, ![r].manifest = manifest]

SamePresence(r, f) == files[f] # "absent"            \* mutant: the digest is not compared
SameDigest(r, f) == files[f] = loads[r].manifest[f]

CheckFile(r, f) ==
  /\ loads[r].at = "check" /\ f \in loads[r].todo
  /\ IF SameDigest(r, f) THEN Tick(r, f) ELSE RefuseLoad(r)

AllChecked(r) ==
  /\ loads[r].at = "check" /\ loads[r].todo = {}
  /\ Set(r, "read", Required)

\* A part of a file does not parse; a damaged one may.
ReadFile(r, f) ==
  /\ loads[r].at = "read" /\ f \in loads[r].todo
  /\ \/ files[f] \in Complete /\ Tick(r, f)
     \/ files[f] # "whole" /\ RefuseLoad(r)

Accept(r) ==
  /\ loads[r].at = "read" /\ loads[r].todo = {}
  /\ Set(r, "accepted", {})

Load(r) ==
  /\ \/ BeginLoad(r) \/ OpenManifest(r) \/ AllChecked(r) \/ Accept(r)
     \/ \E f \in Files : Exists(r, f) \/ CheckFile(r, f) \/ ReadFile(r, f)
  /\ UNCHANGED <<maker, files, manifest, pc, built>>

Package(p) ==
  \/ CheckDestination(p) \/ MakeDirectory(p) \/ CopyFile(p) \/ Build(p) \/ WriteManifest(p)
  \/ Return(p) \/ Raise(p) \/ RemoveFile(p) \/ RemoveDirectory(p) \/ IgnoreErrors(p) \/ Killed(p)

Next ==
  \/ \E p \in Packagers : Package(p)
  \/ \E r \in Readers : Load(r)
  \/ \E f \in Files : Damage(f)

Spec == Init /\ [][Next]_vars

----------------------------------------------------------------------------
\* A package that was returned has every file and a manifest that records them;
\* since then a file can only have been damaged.
ReturnedIsComplete ==
  \A p \in Packagers : pc[p] = "returned" =>
    /\ maker = p
    /\ manifest \in [Files -> Complete]
    /\ \A f \in Files : files[f] \in {manifest[f], "damaged"}

\* packaging.py:36: existing packages are never overwritten.  Once a packager has
\* returned, no other one takes away or changes anything of the package, not even
\* one that had found no destination and then fails.
PublishedStays ==
  [][Published => /\ UNCHANGED <<maker, manifest>>
                  /\ \A f \in Files : files'[f] \in {files[f], "damaged"}]_vars

\* Failures do not stand in the way of a new attempt: if no packager is at work,
\* and none has returned, was killed, or could not remove its files, the
\* destination is free.
FailuresUnblock ==
  (\A p \in Packagers : pc[p] \in {"idle", "checked", "refused", "failed"}) =>
    maker = Nobody /\ Empty

\* A package that was damaged after it was returned, and before a load began, is
\* not accepted by that load.
DamageIsFound == \A r \in Readers : loads[r].at = "accepted" => loads[r].early = {}
=============================================================================

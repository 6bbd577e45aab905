-------------------------- MODULE ModelPackageProofs --------------------------
(***************************************************************************)
(* For any number of packagers and loads, and any files: what a packager   *)
(* has returned stays complete and is taken away by nobody, failures leave *)
(* the destination free, and damage to a package is found by every load    *)
(* that begins after it.                                                   *)
(***************************************************************************)
EXTENDS ModelPackage, TLAPS

\* Places of a packager to which the directory belongs, removed or not.
Owning == {"copying", "built", "written", "removing", "left", "killed", "returned"}

\* The directory has one owner, and without an owner there is nothing.
OwnerInv ==
  /\ \A p \in Packagers : pc[p] \in Owning <=> maker = p
  /\ maker = Nobody => Empty

\* Every file is as a manifest m says, or damaged since m was built.
Records(m) == m \in [Files -> Complete] /\ \A f \in Files : files[f] \in {m[f], "damaged"}

\* What a packager has achieved where it is.
ProgressInv ==
  \A p \in Packagers :
    /\ pc[p] = "built" => Records(built[p])
    /\ pc[p] \in {"written", "returned"} => Records(manifest)

\* The part of TypeOK that the others rest on.
DirectoryType ==
  /\ maker \in Packagers \cup {Nobody}
  /\ files \in [Files -> Contents]
  /\ pc \in [Packagers -> Owning \cup {"idle", "checked", "refused", "failed"}]
  /\ DOMAIN built = Packagers

PackageInv == DirectoryType /\ OwnerInv /\ ProgressInv

\* A load that began with damage to be found: the package is still there, the
\* damage too, and the load has it still to check, with the package's manifest.
Hunting(l) ==
  /\ Published
  /\ \A f \in l.early : f \in Files /\ files[f] = "damaged" /\ manifest[f] # "damaged"
  /\ l.at = "check" => l.manifest = manifest /\ l.early \subseteq l.todo
  /\ l.at \notin {"read", "accepted"}

LoadType == loads \in [Readers ->
  [at : {"idle", "exist", "check", "read", "refused", "accepted"},
   todo : SUBSET Files, manifest : Manifests, early : SUBSET Files]]
HuntInv == \A r \in Readers : loads[r].early # {} => Hunting(loads[r])

----------------------------------------------------------------------------
LEMMA InitPackage == Init => PackageInv
<1> SUFFICES ASSUME Init PROVE PackageInv
    OBVIOUS
<1> USE PackageAssumption DEF Init
<1>1. DirectoryType
    BY DEF DirectoryType, Contents
<1>2. OwnerInv
    BY DEF OwnerInv, Owning, Empty
<1>3. ProgressInv
    BY DEF ProgressInv
<1> QED
    BY <1>1, <1>2, <1>3 DEF PackageInv

\* A load changes nothing of the package.
LEMMA LoadOnlyReads ==
  ASSUME NEW r \in Readers, Load(r)
  PROVE  UNCHANGED <<maker, files, manifest, pc, built>>
BY DEF Load

\* Only the owner acts on the directory, so no two packagers are there at once.
LEMMA PackagePreserves ==
  ASSUME PackageInv, NEW p \in Packagers, Package(p)
  PROVE  PackageInv'
<1> USE PackageAssumption DEF PackageInv
<1>1. CASE CheckDestination(p)
  <2>1. DirectoryType'
      BY <1>1 DEF CheckDestination, Goto, DirectoryType
  <2>2. OwnerInv'
      BY <1>1 DEF CheckDestination, Goto, DirectoryType, OwnerInv, Owning, Empty
  <2>3. ProgressInv'
      BY <1>1 DEF CheckDestination, Goto, DirectoryType, ProgressInv, Records
  <2> QED
      BY <2>1, <2>2, <2>3
<1>2. CASE MakeDirectory(p)
  <2>1. DirectoryType'
      BY <1>2 DEF MakeDirectory, Refuse, Goto, DirectoryType, Owning
  <2>2. OwnerInv'
      BY <1>2 DEF MakeDirectory, Refuse, Goto, DirectoryType, OwnerInv, Owning, Empty
  <2>3. ProgressInv'
      BY <1>2 DEF MakeDirectory, Refuse, Goto, DirectoryType, ProgressInv, Records
  <2> QED
      BY <2>1, <2>2, <2>3
<1>3. CASE CopyFile(p)
  <2>1. DirectoryType'
      BY <1>3 DEF CopyFile, DirectoryType, Contents, Complete, Missing
  <2>2. OwnerInv'
      BY <1>3 DEF CopyFile, DirectoryType, OwnerInv, Owning
  <2>3. ProgressInv'
      BY <1>3 DEF CopyFile, DirectoryType, OwnerInv, Owning, ProgressInv
  <2> QED
      BY <2>1, <2>2, <2>3
<1>4. CASE Build(p)
  <2>1. DirectoryType'
      BY <1>4 DEF Build, Goto, DirectoryType, Owning
  <2>2. OwnerInv'
      BY <1>4 DEF Build, Goto, DirectoryType, OwnerInv, Owning, Empty
  <2>3. files \in [Files -> Complete]
      BY <1>4 DEF Build, DirectoryType, Files, Missing, ItemsToCopy
  <2>4. ProgressInv'
      BY <1>4, <2>3 DEF Build, Goto, DirectoryType, ProgressInv, Records
  <2> QED
      BY <2>1, <2>2, <2>4
<1>5. CASE WriteManifest(p)
  <2>1. DirectoryType'
      BY <1>5 DEF WriteManifest, Goto, DirectoryType, Owning
  <2>2. OwnerInv'
      BY <1>5 DEF WriteManifest, Goto, DirectoryType, OwnerInv, Owning, Empty
  <2>3. ProgressInv'
      BY <1>5 DEF WriteManifest, Goto, DirectoryType, OwnerInv, Owning, ProgressInv, Records
  <2> QED
      BY <2>1, <2>2, <2>3
<1>6. CASE Return(p)
  <2>1. DirectoryType'
      BY <1>6 DEF Return, Goto, DirectoryType, Owning
  <2>2. OwnerInv'
      BY <1>6 DEF Return, Goto, DirectoryType, OwnerInv, Owning, Empty
  <2>3. ProgressInv'
      BY <1>6 DEF Return, Goto, DirectoryType, ProgressInv, Records
  <2> QED
      BY <2>1, <2>2, <2>3
<1>7. CASE Raise(p) \/ IgnoreErrors(p) \/ Killed(p)
  <2>1. DirectoryType'
      BY <1>7 DEF Raise, StartRemoval, IgnoreErrors, Killed, Goto, DirectoryType, Owning
  <2>2. OwnerInv'
      BY <1>7 DEF Raise, StartRemoval, IgnoreErrors, Killed, Goto, DirectoryType, OwnerInv, Owning, Empty
  <2>3. ProgressInv'
      BY <1>7 DEF Raise, StartRemoval, IgnoreErrors, Killed, Goto, DirectoryType, ProgressInv, Records
  <2> QED
      BY <2>1, <2>2, <2>3
<1>8. CASE RemoveFile(p)
  <2>1. DirectoryType'
      BY <1>8 DEF RemoveFile, DirectoryType, Contents
  <2>2. OwnerInv'
      BY <1>8 DEF RemoveFile, DirectoryType, OwnerInv, Owning
  <2>3. ProgressInv'
      BY <1>8 DEF RemoveFile, DirectoryType, OwnerInv, Owning, ProgressInv
  <2> QED
      BY <2>1, <2>2, <2>3
<1>9. CASE RemoveDirectory(p)
  <2>1. DirectoryType'
      BY <1>9 DEF RemoveDirectory, Goto, DirectoryType
  <2>2. OwnerInv'
      BY <1>9 DEF RemoveDirectory, Goto, DirectoryType, OwnerInv, Owning, Empty
  <2>3. ProgressInv'
      BY <1>9 DEF RemoveDirectory, Goto, DirectoryType, ProgressInv, Records
  <2> QED
      BY <2>1, <2>2, <2>3
<1> QED
    BY <1>1, <1>2, <1>3, <1>4, <1>5, <1>6, <1>7, <1>8, <1>9 DEF Package

LEMMA DamagePreserves ==
  ASSUME PackageInv, NEW f \in Files, Damage(f)
  PROVE  PackageInv'
<1> USE DEF PackageInv, Damage
<1>1. DirectoryType'
    BY DEF DirectoryType, Contents, Complete
<1>2. OwnerInv'
    BY DEF OwnerInv, Empty, DirectoryType
<1>3. ProgressInv'
    BY DEF ProgressInv, Records, DirectoryType
<1> QED
    BY <1>1, <1>2, <1>3

LEMMA PackageInductive == PackageInv /\ [Next]_vars => PackageInv'
<1> SUFFICES ASSUME PackageInv, [Next]_vars PROVE PackageInv'
    OBVIOUS
<1>1. CASE UNCHANGED <<maker, files, manifest, pc, built>>
    BY <1>1 DEF PackageInv, DirectoryType, OwnerInv, Empty, ProgressInv, Records
<1>2. UNCHANGED vars => UNCHANGED <<maker, files, manifest, pc, built>>
    BY DEF vars
<1> QED
    BY <1>1, <1>2, PackagePreserves, DamagePreserves, LoadOnlyReads DEF Next

LEMMA PackageAlways == Spec => []PackageInv
BY InitPackage, PackageInductive, PTL DEF Spec

----------------------------------------------------------------------------
\* For every value of the constants, a package that was returned has every file
\* and a manifest that records them (package_model, build_manifest).
THEOREM PackageIsComplete == Spec => []ReturnedIsComplete
<1>1. PackageInv => ReturnedIsComplete
    BY DEF PackageInv, OwnerInv, Owning, ProgressInv, Records, ReturnedIsComplete
<1> QED
    BY <1>1, PackageAlways, PTL

\* Packagers that fail leave the destination free for the next attempt.
THEOREM FailedPackagersUnblock == Spec => []FailuresUnblock
<1>1. PackageInv => FailuresUnblock
    BY DEF PackageInv, DirectoryType, OwnerInv, Owning, FailuresUnblock
<1> QED
    BY <1>1, PackageAlways, PTL

\* No step of any packager or load changes what another one has returned.
LEMMA StepKeepsPublished ==
  ASSUME PackageInv, [Next]_vars, Published
  PROVE  /\ UNCHANGED <<maker, manifest>>
         /\ \A f \in Files : files'[f] \in {files[f], "damaged"}
         /\ Published'
<1>1. PICK q \in Packagers : pc[q] = "returned"
    BY DEF Published
<1>2. maker = q /\ q # Nobody
    BY <1>1, PackageAssumption DEF PackageInv, OwnerInv, Owning
<1>3. ASSUME NEW p \in Packagers, pc[p] \in Owning
      PROVE  p = q
    BY <1>2, <1>3 DEF PackageInv, OwnerInv
<1>4. CASE UNCHANGED <<maker, files, manifest, pc, built>>
    BY <1>4 DEF Published
<1>5. ASSUME NEW p \in Packagers, Package(p)
      PROVE  UNCHANGED <<maker, files, manifest, pc>> \/ (UNCHANGED <<maker, files, manifest>> /\ p # q /\ \E place : Goto(p, place))
  <2>1. pc[p] \in Owning => p = q /\ pc[p] = "returned"
      BY <1>1, <1>3
  <2> QED
      BY <1>1, <1>2, <1>5, <2>1
      DEF Package, CheckDestination, MakeDirectory, Refuse, CopyFile, Build, WriteManifest,
          Return, Raise, RemoveFile, RemoveDirectory, IgnoreErrors, Killed, Owning
<1>6. ASSUME NEW p \in Packagers, Package(p)
      PROVE  UNCHANGED <<maker, files, manifest>> /\ pc'[q] = "returned"
    BY <1>1, <1>5, <1>6 DEF Goto, PackageInv, DirectoryType
<1>7. ASSUME NEW f \in Files, Damage(f)
      PROVE  UNCHANGED <<maker, manifest, pc>> /\ \A g \in Files : files'[g] \in {files[g], "damaged"}
    BY <1>7 DEF Damage, PackageInv, DirectoryType
<1>8. UNCHANGED vars => UNCHANGED <<maker, files, manifest, pc, built>>
    BY DEF vars
<1> QED
    BY <1>1, <1>4, <1>6, <1>7, <1>8, LoadOnlyReads DEF Next, Published

\* packaging.py:36, for every value of the constants: what was returned is never
\* taken away or overwritten by another packager.
THEOREM PackagesAreKept == Spec => PublishedStays
<1>1. PackageInv /\ [Next]_vars =>
        [Published => /\ UNCHANGED <<maker, manifest>>
                      /\ \A f \in Files : files'[f] \in {files[f], "damaged"}]_vars
    BY StepKeepsPublished
<1> QED
    BY <1>1, PackageAlways, PTL DEF Spec, PublishedStays

----------------------------------------------------------------------------
\* The types of the whole state.  A manifest that is built has all files complete.
LEMMA CompleteFiles ==
  ASSUME files \in [Files -> Contents], \A i \in ItemsToCopy : Missing(i) = {}
  PROVE  files \in [Files -> Complete]
BY DEF Files, Missing, ItemsToCopy

LEMMA LoadKeepsTypes ==
  ASSUME TypeOK, NEW r \in Readers, Load(r)
  PROVE  TypeOK'
<1> USE PackageAssumption DEF TypeOK
<1>1. UNCHANGED <<maker, files, manifest, pc, built>>
    BY LoadOnlyReads
<1>2. ASSUME NEW at \in {"idle", "exist", "check", "read", "refused", "accepted"},
             NEW todo \in SUBSET Files, Set(r, at, todo)
      PROVE  LoadType'
  <2>1. [loads[r] EXCEPT !.at = at, !.todo = todo] \in
          [at : {"idle", "exist", "check", "read", "refused", "accepted"},
           todo : SUBSET Files, manifest : Manifests, early : SUBSET Files]
      OBVIOUS
  <2>2. loads' = [loads EXCEPT ![r] = [loads[r] EXCEPT !.at = at, !.todo = todo]]
      BY <1>2 DEF Set
  <2> QED
      BY <2>1, <2>2 DEF LoadType
<1>3. CASE BeginLoad(r)
  <2>1. DamagedSince \subseteq Files
      BY DEF DamagedSince, Manifests, NoManifest
  <2>2. NoManifest \in Manifests
      BY DEF Manifests
  <2>3. LoadType'
      BY <1>3, <2>1, <2>2 DEF BeginLoad, LoadType
  <2> QED
      BY <1>1, <2>3 DEF LoadType
<1>4. CASE OpenManifest(r)
  <2>1. LoadType'
      BY <1>2, <1>4 DEF OpenManifest, LoadType
  <2> QED
      BY <1>1, <2>1 DEF LoadType
<1>5. CASE AllChecked(r) \/ Accept(r)
  <2>1. LoadType'
      BY <1>2, <1>5 DEF AllChecked, Accept
  <2> QED
      BY <1>1, <2>1 DEF LoadType
<1>6. ASSUME NEW f \in Files, Exists(r, f) \/ CheckFile(r, f) \/ ReadFile(r, f)
      PROVE  TypeOK'
  <2>1. Tick(r, f) => LoadType'
      BY DEF Tick, LoadType
  <2>2. RefuseLoad(r) => LoadType'
      BY <1>2 DEF RefuseLoad
  <2>3. LoadType'
      BY <1>6, <2>1, <2>2 DEF Exists, CheckFile, ReadFile
  <2> QED
      BY <1>1, <2>3 DEF LoadType
<1> QED
    BY <1>3, <1>4, <1>5, <1>6 DEF Load

LEMMA PackageKeepsTypes ==
  ASSUME TypeOK, NEW p \in Packagers, Package(p)
  PROVE  TypeOK'
<1> USE PackageAssumption DEF TypeOK
<1>1. CASE Build(p)
    BY <1>1, CompleteFiles DEF Build, Goto, Manifests
<1>2. CASE WriteManifest(p) \/ Return(p) \/ Raise(p) \/ IgnoreErrors(p) \/ Killed(p)
    BY <1>2 DEF WriteManifest, Return, Raise, StartRemoval, IgnoreErrors, Killed, Goto
<1>3. CASE RemoveFile(p) \/ RemoveDirectory(p)
    BY <1>3 DEF RemoveFile, RemoveDirectory, Goto, Contents, Manifests
<1>4. CASE CheckDestination(p) \/ MakeDirectory(p)
    BY <1>4 DEF CheckDestination, MakeDirectory, Refuse, Goto
<1>5. CASE CopyFile(p)
    BY <1>5 DEF CopyFile, Contents, Complete
<1> QED
    BY <1>1, <1>2, <1>3, <1>4, <1>5 DEF Package

\* Every variable keeps its type, for every value of the constants.
THEOREM PackageTypes == Spec => []TypeOK
<1>1. Init => TypeOK
    BY DEF Init, TypeOK, Contents, Manifests
<1>2. TypeOK /\ [Next]_vars => TypeOK'
  <2> SUFFICES ASSUME TypeOK, [Next]_vars PROVE TypeOK'
      OBVIOUS
  <2>1. CASE UNCHANGED vars
      BY <2>1 DEF vars, TypeOK
  <2>2. ASSUME NEW f \in Files, Damage(f) PROVE TypeOK'
      BY <2>2 DEF Damage, TypeOK, Contents, Complete
  <2> QED
      BY <2>1, <2>2, PackageKeepsTypes, LoadKeepsTypes DEF Next
<1> QED
    BY <1>1, <1>2, PTL DEF Spec

----------------------------------------------------------------------------
\* Damage that a load has to find is still there after a step of anyone else.
LEMMA HuntGoesOn ==
  ASSUME PackageInv, TypeOK, [Next]_vars, NEW l, Hunting(l)
  PROVE  Hunting(l)'
BY StepKeepsPublished DEF Hunting

LEMMA LoadHunts ==
  ASSUME PackageInv, TypeOK, HuntInv, NEW r \in Readers, Load(r), loads'[r].early # {}
  PROVE  Hunting(loads'[r])
<1> DEFINE l == loads[r]
<1> USE DEF TypeOK
<1>1. CASE BeginLoad(r)
  <2>1. loads'[r].early = DamagedSince /\ loads'[r].at \in {"refused", "exist"}
      BY <1>1 DEF BeginLoad
  <2>2. Published
      BY <2>1 DEF DamagedSince
  <2>3. Records(manifest)
      BY <2>2 DEF Published, PackageInv, ProgressInv
  <2>4. \A f \in DamagedSince : f \in Files /\ files[f] = "damaged" /\ manifest[f] # "damaged"
      BY <2>2, <2>3 DEF DamagedSince, Records
  <2> QED
      BY <2>1, <2>2, <2>4 DEF Hunting
<1>2. loads'[r].early = l.early \/ BeginLoad(r)
    BY DEF Load, OpenManifest, AllChecked, Accept, Exists, CheckFile, ReadFile, Set, Tick, RefuseLoad
<1>3. ASSUME ~BeginLoad(r)
      PROVE  Hunting(l)
    BY <1>2, <1>3 DEF HuntInv
<1>4. ASSUME ~BeginLoad(r)
      PROVE  \E f \in l.early : f \in Files /\ files[f] = "damaged" /\ manifest[f] # "damaged"
    BY <1>2, <1>3, <1>4 DEF Hunting
<1>5. CASE ~BeginLoad(r) /\ OpenManifest(r)
  <2>1. manifest # NoManifest
    <3>1. Records(manifest)
        BY <1>3, <1>5 DEF Hunting, Published, PackageInv, ProgressInv
    <3> QED
        BY <1>4, <1>5, <3>1 DEF Records, NoManifest
  <2>2. /\ loads'[r].at = "check" /\ loads'[r].todo = Files
        /\ loads'[r].manifest = manifest /\ loads'[r].early = l.early
      BY <1>5, <2>1 DEF OpenManifest
  <2> QED
      BY <1>3, <1>5, <2>2 DEF Hunting
<1>6. CASE ~BeginLoad(r) /\ (AllChecked(r) \/ Accept(r))
    BY <1>3, <1>4, <1>6 DEF AllChecked, Accept, Hunting
<1>7. ASSUME ~BeginLoad(r), NEW g \in Files, Exists(r, g) \/ CheckFile(r, g) \/ ReadFile(r, g)
      PROVE  Hunting(loads'[r])
  <2>1. CASE RefuseLoad(r)
      BY <1>3, <1>7, <2>1 DEF RefuseLoad, Set, Hunting
  <2>2. CASE Exists(r, g) /\ Tick(r, g)
      BY <1>3, <1>7, <2>2 DEF Exists, Tick, Hunting
  <2>3. CASE CheckFile(r, g) /\ SameDigest(r, g) /\ Tick(r, g)
    <3>1. l.manifest = manifest /\ l.early \subseteq l.todo /\ g \notin l.early
        BY <1>3, <1>7, <2>3 DEF CheckFile, SameDigest, Hunting
    <3>2. loads'[r].todo = l.todo \ {g} /\ loads'[r].at = l.at
          /\ loads'[r].manifest = l.manifest /\ loads'[r].early = l.early
        BY <2>3 DEF Tick
    <3> QED
        BY <1>3, <1>7, <3>1, <3>2 DEF Hunting
  <2>4. l.at # "read"
      BY <1>3, <1>7 DEF Hunting
  <2> QED
      BY <1>7, <2>1, <2>2, <2>3, <2>4 DEF Exists, CheckFile, ReadFile
<1> QED
    BY <1>1, <1>5, <1>6, <1>7 DEF Load

LEMMA HuntInductive == PackageInv /\ TypeOK /\ HuntInv /\ [Next]_vars => HuntInv'
<1> SUFFICES ASSUME PackageInv, TypeOK, HuntInv, [Next]_vars,
                    NEW r \in Readers, loads'[r].early # {}
             PROVE  Hunting(loads[r])'
    BY DEF HuntInv
<1>1. CASE loads'[r] = loads[r]
    BY <1>1, HuntGoesOn DEF HuntInv, Hunting
<1>2. CASE Load(r)
  <2>1. Hunting(loads'[r])
      BY <1>2, LoadHunts
  <2>2. UNCHANGED <<maker, files, manifest, pc, built>>
      BY <1>2, LoadOnlyReads
  <2> QED
      BY <2>1, <2>2 DEF Hunting, Published
<1>3. ASSUME NEW q \in Readers, q # r, Load(q)
      PROVE  loads'[r] = loads[r]
    BY <1>3 DEF TypeOK, Load, BeginLoad, OpenManifest, AllChecked, Accept, Exists, CheckFile, ReadFile,
                Set, Tick, RefuseLoad
<1>4. ASSUME NEW p \in Packagers, Package(p)
      PROVE  UNCHANGED loads
    BY <1>4 DEF Package, CheckDestination, MakeDirectory, CopyFile, Build, WriteManifest, Return,
                Raise, RemoveFile, RemoveDirectory, IgnoreErrors, Killed
<1>5. ASSUME NEW f \in Files, Damage(f)
      PROVE  UNCHANGED loads
    BY <1>5 DEF Damage
<1> QED
    BY <1>1, <1>2, <1>3, <1>4, <1>5 DEF Next, vars

\* For every value of the constants: damage done to a package before a load began
\* is found by that load (verify_manifest).
THEOREM DamageNeverPasses == Spec => []DamageIsFound
<1>1. Init => HuntInv
    BY DEF Init, HuntInv
<1>2. HuntInv => DamageIsFound
    BY DEF HuntInv, Hunting, DamageIsFound
<1> QED
    BY <1>1, <1>2, PackageAlways, PackageTypes, HuntInductive, PTL DEF Spec
=============================================================================

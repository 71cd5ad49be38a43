-------------------------- MODULE SourceStoreProofs --------------------------
(***************************************************************************)
(* The safety of SourceStore, for any projects, names, files and bounds.   *)
(*                                                                         *)
(* The inductive invariant is that every package is Good, the property the *)
(* operations of SourcePackage preserve, and that its counters match its   *)
(* revisions as long as the lock is not poisoned: add_revision may leave   *)
(* them wrong, but then nothing adds a revision any more.                  *)
(***************************************************************************)
EXTENDS SourceStore, SourcePackageProofs, LibraryLemmas

PackagesOK ==
  \A p \in Projects, k \in PackageNames :
    Exists(p, k) => Good(packages[p][k]) /\ (~poisoned => CountersMatch(packages[p][k]))

IInv == TypeOK /\ PackagesOK

-----------------------------------------------------------------------------
(* Steps of a kind: what every action that does the same to the state uses. *)

\* A step that leaves the store alone, or only poisons the lock.
LEMMA StoreUnchanged ==
  ASSUME IInv, UNCHANGED <<projects, packages, repos>>, poisoned' \in BOOLEAN,
         poisoned => poisoned',
         reply' \in [op : HttpOps \cup SetterOps \cup {"start", "any"}, code : Codes]
  PROVE  IInv'
<1>1. TypeOK'
  BY DEF IInv, TypeOK, NoPackages, NoRepos
<1>2. PackagesOK'
  BY DEF IInv, TypeOK, PackagesOK, Exists
<1> QED
  BY <1>1, <1>2 DEF IInv

\* A step that puts one package.
LEMMA PackagePut ==
  ASSUME IInv, NEW p \in Projects, NEW k \in PackageNames, NEW pkg,
         packages' = [packages EXCEPT ![p] = [@ EXCEPT ![k] = pkg]],
         Good(pkg), poisoned' \in BOOLEAN, poisoned => poisoned',
         ~poisoned' => CountersMatch(pkg)
  PROVE  /\ packages' \in [Projects -> [PackageNames -> Package \cup {NoPackage}]]
         /\ \A q \in Projects : q # p => packages'[q] = packages[q]
         /\ PackagesOK'
<1>1. packages \in [Projects -> [PackageNames -> Package \cup {NoPackage}]]
  BY DEF IInv, TypeOK
<1>2. pkg \in Package
  BY DEF Good
<1>3. packages' \in [Projects -> [PackageNames -> Package \cup {NoPackage}]]
  BY <1>1, <1>2
<1>4. \A q \in Projects : q # p => packages'[q] = packages[q]
  BY <1>1
<1>5. PackagesOK'
  <2> SUFFICES ASSUME NEW q \in Projects, NEW l \in PackageNames, Exists(q, l)'
               PROVE  Good(packages'[q][l]) /\ (~poisoned' => CountersMatch(packages'[q][l]))
    BY DEF PackagesOK
  <2>1. CASE q = p /\ l = k
    BY <1>1, <2>1
  <2>2. CASE ~(q = p /\ l = k)
    <3>1. packages'[q][l] = packages[q][l]
      BY <1>1, <2>2
    <3> QED
      BY <3>1 DEF IInv, PackagesOK, Exists
  <2> QED
    BY <2>1, <2>2
<1> QED
  BY <1>3, <1>4, <1>5

\* SetPackage in a project that exists.
LEMMA SetPackageStep ==
  ASSUME IInv, NEW p \in projects, NEW k \in PackageNames, NEW pkg,
         SetPackage(p, k, pkg), Good(pkg), poisoned' \in BOOLEAN, poisoned => poisoned',
         ~poisoned' => CountersMatch(pkg),
         reply' \in [op : HttpOps \cup SetterOps \cup {"start", "any"}, code : Codes]
  PROVE  IInv'
<1>1. p \in Projects
  BY DEF IInv, TypeOK
<1>2. /\ packages' = [packages EXCEPT ![p] = [@ EXCEPT ![k] = pkg]]
      /\ UNCHANGED <<projects, repos>>
  BY DEF SetPackage, PutPackage
<1>3. /\ packages' \in [Projects -> [PackageNames -> Package \cup {NoPackage}]]
      /\ \A q \in Projects : q # p => packages'[q] = packages[q]
      /\ PackagesOK'
  BY <1>1, <1>2, PackagePut
<1>4. \A q \in Projects \ projects' : packages'[q] = NoPackages /\ repos'[q] = NoRepos
  BY <1>2, <1>3 DEF IInv, TypeOK
<1>5. TypeOK'
  BY <1>2, <1>3, <1>4 DEF IInv, TypeOK, NoPackages, NoRepos
<1> QED
  BY <1>3, <1>5 DEF IInv

\* What a lookup that finds the package says of it.
LEMMA Found ==
  ASSUME IInv, NEW p \in Projects, NEW k \in PackageNames, LookupError(p, k) = "none", ~poisoned
  PROVE  /\ p \in projects /\ Exists(p, k)
         /\ Good(packages[p][k]) /\ CountersMatch(packages[p][k])
BY DEF IInv, PackagesOK, LookupError

\* How operations end is well typed.
LEMMA Endings ==
  ASSUME NEW op \in HttpOps \cup SetterOps \cup {"any"}, NEW code \in Codes
  PROVE  [op |-> op, code |-> code] \in
           [op : HttpOps \cup SetterOps \cup {"start", "any"}, code : Codes]
OBVIOUS

\* A refusal preserves the invariant: it leaves the store alone.
LEMMA RefuseStep ==
  ASSUME IInv, NEW op \in HttpOps \cup SetterOps \cup {"any"}, NEW code \in Codes, Refuse(op, code)
  PROVE  IInv'
BY StoreUnchanged, Endings DEF Refuse, store, IInv, TypeOK

\* A panic that changes no package preserves it as well: it poisons the lock.
LEMMA PanicUnchangedStep ==
  ASSUME IInv, NEW op \in HttpOps \cup SetterOps \cup {"any"}, PanicUnchanged(op)
  PROVE  IInv'
<1>1. "panic" \in Codes
  BY DEF Codes
<1> QED
  BY <1>1, StoreUnchanged, Endings DEF PanicUnchanged, Panic

\* Adding a revision: it lands, or the lock is
\* poisoned with the counter ahead.
LEMMA PushRevisionStep ==
  ASSUME IInv, ~poisoned, NEW op \in {"commit", "add package revision"},
         NEW p \in Projects, NEW k \in PackageNames, LookupError(p, k) = "none",
         NEW v \in AllVersions, NEW s \in Srcmd5s, NEW entries \in SUBSET FileKeys,
         PushRevision(op, p, k, v, s, entries)
  PROVE  IInv'
<1> DEFINE old == packages[p][k]
           new == AddRevision(old, v, s, entries)
<1>1. p \in projects /\ Good(old) /\ CountersMatch(old)
  BY Found
<1>2. Good(new) /\ (EntriesStored(old, entries) => CountersMatch(new))
  BY <1>1, AddRevisionGood
<1>3. SetPackage(p, k, new)
  BY DEF PushRevision
<1>4. \/ EntriesStored(old, entries) /\ Done(op)
      \/ Panic(op)
  BY DEF PushRevision
<1>5. reply' \in [op : HttpOps \cup SetterOps \cup {"start", "any"}, code : Codes]
  <2>1. op \in HttpOps \cup SetterOps \cup {"any"} /\ {"ok", "panic"} \subseteq Codes
    BY DEF HttpOps, SetterOps, Codes
  <2> QED
    BY <1>4, <2>1, Endings DEF Done, Panic
<1>6. poisoned' \in BOOLEAN /\ (~poisoned' => EntriesStored(old, entries))
  BY <1>4 DEF Done, Panic, IInv, TypeOK
<1> HIDE DEF new
<1> QED
  BY <1>1, <1>2, <1>3, <1>5, <1>6, SetPackageStep

-----------------------------------------------------------------------------
(* One lemma per action.                                                   *)

\* What a failed lookup answers is a code of a reply.
LEMMA LookupErrorCode ==
  ASSUME NEW p, NEW k
  PROVE  LookupError(p, k) # "none" => LookupError(p, k) \in Codes
BY DEF LookupError, Codes

\* Deleting a project preserves the invariant: its packages go with it.
LEMMA DeleteProjectStep ==
  ASSUME IInv, NEW p \in Projects, DeleteProject(p)
  PROVE  IInv'
<1>1. CASE Refuse("delete project", "unknown project")
  BY <1>1, RefuseStep DEF HttpOps, Codes
<1>2. CASE /\ projects' = projects \ {p}
           /\ packages' = [packages EXCEPT ![p] = NoPackages]
           /\ repos' = [repos EXCEPT ![p] = NoRepos]
           /\ Done("delete project")
  <2>1. NoPackages \in [PackageNames -> Package \cup {NoPackage}]
        /\ NoRepos \in [RepoArchs -> {NoRepo} \cup SUBSET PackageNames]
    BY DEF NoPackages, NoRepos
  <2>2. reply' \in [op : HttpOps \cup SetterOps \cup {"start", "any"}, code : Codes]
    BY <1>2, Endings DEF Done, HttpOps, Codes
  <2>3. TypeOK'
    BY <1>2, <2>1, <2>2 DEF IInv, TypeOK, Done, NoPackages, NoRepos
  <2>4. PackagesOK'
    BY <1>2 DEF IInv, TypeOK, PackagesOK, Exists, NoPackages, Done
  <2> QED
    BY <2>3, <2>4 DEF IInv
<1> QED
  BY <1>1, <1>2 DEF DeleteProject

\* PUT of _meta preserves the invariant: the package it makes is good.
LEMMA PutMetaStep ==
  ASSUME IInv, NEW p \in Projects, NEW k \in PackageNames, PutMeta(p, k)
  PROVE  IInv'
<1>1. CASE Refuse("put meta", "unknown project")
  BY <1>1, RefuseStep DEF HttpOps, Codes
<1>2. CASE Done("put meta") /\ UNCHANGED <<projects, packages, repos>>
  BY <1>2, StoreUnchanged, Endings DEF Done, HttpOps, Codes, IInv, TypeOK
<1>3. CASE /\ p \in projects
           /\ SetPackage(p, k, NewWithMetadata(p, k, NoneDisabled))
           /\ Done("put meta")
  <2>1. reply' \in [op : HttpOps \cup SetterOps \cup {"start", "any"}, code : Codes]
    BY <1>3, Endings DEF Done, HttpOps, Codes
  <2> QED
    BY <1>3, <2>1, NewWithMetadataGood, SetPackageStep, PackageAssumption DEF Done, IInv, TypeOK
<1> QED
  BY <1>1, <1>2, <1>3 DEF PutMeta

\* Uploading a file preserves the invariant: no revision changes.
LEMMA UploadStep ==
  ASSUME IInv, NEW p \in Projects, NEW k \in PackageNames, NEW file \in UserFiles,
         NEW b \in BOOLEAN, Upload(p, k, file, b)
  PROVE  IInv'
<1>1. CASE LookupError(p, k) # "none" /\ Refuse("upload", LookupError(p, k))
  BY <1>1, RefuseStep, LookupErrorCode DEF HttpOps
<1>2. CASE Refuse("upload", "unsupported")
  BY <1>2, RefuseStep DEF HttpOps, Codes
<1>3. CASE /\ LookupError(p, k) = "none"
           /\ SetPackage(p, k, PutFile(packages[p][k], file))
           /\ Done("upload")
  <2>1. reply' \in [op : HttpOps \cup SetterOps \cup {"start", "any"}, code : Codes]
    BY <1>3, Endings DEF Done, HttpOps, Codes
  <2>2. ~poisoned
    BY DEF Upload
  <2>3. p \in projects /\ Good(packages[p][k]) /\ CountersMatch(packages[p][k])
    BY <1>3, <2>2, Found
  <2> QED
    BY <1>3, <2>1, <2>2, <2>3, PutFileGood, SetPackageStep DEF Done, IInv, TypeOK
<1> QED
  BY <1>1, <1>2, <1>3 DEF Upload

\* A commit preserves the invariant: its entries are stored.
LEMMA CommitStep ==
  ASSUME IInv, NEW p \in Projects, NEW k \in PackageNames, NEW list \in FileLists(p, k),
         NEW s \in Srcmd5s, Commit(p, k, list, s)
  PROVE  IInv'
<1>1. CASE LookupError(p, k) # "none" /\ Refuse("commit", LookupError(p, k))
  BY <1>1, RefuseStep, LookupErrorCode DEF HttpOps
<1>2. CASE Refuse("commit", "bad request") \/ Refuse("commit", "missing")
  BY <1>2, RefuseStep DEF HttpOps, Codes
<1>3. CASE /\ LookupError(p, k) = "none" /\ Missing(packages[p][k], list) = {}
           /\ PushRevision("commit", p, k, NoVersion, s, CommitEntries(list))
  <2>1. ~poisoned
    BY DEF Commit
  <2>2. Good(packages[p][k])
    BY <1>3, <2>1, Found
  <2>3. CommitEntries(list) \subseteq packages[p][k].files
    BY <1>3 DEF Missing, CommitEntries
  <2>4. CommitEntries(list) \in SUBSET FileKeys
    BY <2>2, <2>3 DEF Good, Package
  <2> QED
    BY <1>3, <2>1, <2>4, PushRevisionStep DEF AllVersions
<1> QED
  BY <1>1, <1>2, <1>3 DEF Commit

\* Making the target project keeps repositories well typed, and empty where
\* there is no project.
LEMMA MakeTargetType ==
  ASSUME IInv, NEW p \in Projects, NEW tp \in Projects, MakeTarget(p, tp)
  PROVE  /\ projects' \subseteq Projects /\ tp \in projects' /\ projects \subseteq projects'
         /\ repos' \in [Projects -> [RepoArchs -> {NoRepo} \cup SUBSET PackageNames]]
         /\ \A q \in Projects \ projects' : repos'[q] = NoRepos
BY DEF MakeTarget, IInv, TypeOK

\* Branching over HTTP preserves the invariant, whether or not it makes its target
\* project and whether or not it is refused after that.
LEMMA BranchStep ==
  ASSUME IInv, NEW p \in Projects, NEW k \in PackageNames, NEW tp \in Projects,
         NEW tk \in PackageNames, NEW force \in BOOLEAN, NEW m \in BOOLEAN,
         NEW modesParse \in BOOLEAN, NEW s \in Srcmd5s,
         Branch(p, k, tp, tk, force, m, modesParse, s)
  PROVE  IInv'
<1> DEFINE op == IF force THEN "forced branch" ELSE "branch"
           base == BranchBase(packages[p][k], Exists(p, k))
           branched == NewBranched(p, k, base, tp, tk, m, s)
<1>0. op \in HttpOps /\ poisoned = FALSE
  BY DEF HttpOps, Branch, IInv, TypeOK
<1>a. CASE Refuse(op, "invalid argument")
  BY <1>0, <1>a, RefuseStep DEF Codes
<1>b. CASE BranchError(p, k, m) # "none" /\ Refuse(op, BranchError(p, k, m))
  <2>1. BranchError(p, k, m) \in Codes
    BY <1>b DEF BranchError, Codes
  <2> QED
    BY <1>0, <1>b, <2>1, RefuseStep
<1>c. CASE /\ MakeTarget(p, tp)
           /\ reply' = [op |-> op, code |-> "double branch package"]
           /\ UNCHANGED <<packages, poisoned>>
  <2>1. reply' \in [op : HttpOps \cup SetterOps \cup {"start", "any"}, code : Codes]
    BY <1>0, <1>c, Endings DEF Codes
  <2>2. TypeOK'
    BY <1>c, <2>1, MakeTargetType DEF IInv, TypeOK, NoPackages, NoRepos
  <2> QED
    BY <1>c, <2>2 DEF IInv, PackagesOK, Exists
<1>d. CASE MakeTarget(p, tp) /\ PutPackage(tp, tk, branched) /\ Done(op)
  <2>1. Exists(p, k) \in BOOLEAN /\ (Exists(p, k) => Good(packages[p][k]))
    BY DEF Exists, IInv, PackagesOK
  <2>2. base \in Base /\ base.entries \subseteq base.files
    BY <2>1, BranchBaseGood
  <2> HIDE DEF base
  <2>3. Good(branched) /\ CountersMatch(branched)
    BY <2>2, NewBranchedGood
  <2> HIDE DEF branched
  <2>4. packages' = [packages EXCEPT ![tp] = [@ EXCEPT ![tk] = branched]]
        /\ poisoned' = FALSE
    BY <1>0, <1>d DEF PutPackage, Done
  <2>5. /\ packages' \in [Projects -> [PackageNames -> Package \cup {NoPackage}]]
        /\ \A q \in Projects : q # tp => packages'[q] = packages[q]
        /\ PackagesOK'
    BY <1>0, <2>3, <2>4, PackagePut
  <2>6. reply' \in [op : HttpOps \cup SetterOps \cup {"start", "any"}, code : Codes]
    BY <1>0, <1>d, Endings DEF Done, Codes
  <2>7. TypeOK'
    <3>1. \A q \in Projects \ projects' : packages'[q] = NoPackages
      BY <1>d, <2>5, MakeTargetType DEF IInv, TypeOK
    <3> QED
      BY <1>d, <2>4, <2>5, <2>6, <3>1, MakeTargetType DEF TypeOK, NoPackages, NoRepos
  <2> QED
    BY <2>5, <2>7 DEF IInv
<1> QED
  BY <1>a, <1>b, <1>c, <1>d DEF Branch

\* Deleting a package preserves the invariant.
LEMMA DeletePackageStep ==
  ASSUME IInv, NEW p \in Projects, NEW k \in PackageNames, DeletePackage(p, k)
  PROVE  IInv'
<1>1. CASE LookupError(p, k) # "none" /\ Refuse("delete package", LookupError(p, k))
  BY <1>1, RefuseStep, LookupErrorCode DEF HttpOps
<1>2. CASE /\ packages' = [packages EXCEPT ![p] = [@ EXCEPT ![k] = NoPackage]]
           /\ repos' = [repos EXCEPT ![p] =
                          [r \in RepoArchs |-> IF @[r] = NoRepo THEN NoRepo ELSE @[r] \ {k}]]
           /\ UNCHANGED projects
           /\ Done("delete package")
           /\ LookupError(p, k) = "none"
  <2>1. reply' \in [op : HttpOps \cup SetterOps \cup {"start", "any"}, code : Codes]
    BY <1>2, Endings DEF Done, HttpOps, Codes
  <2>2. p \in projects
    BY <1>2 DEF LookupError
  <2>3. repos' \in [Projects -> [RepoArchs -> {NoRepo} \cup SUBSET PackageNames]]
    BY <1>2 DEF IInv, TypeOK
  <2>4. packages' \in [Projects -> [PackageNames -> Package \cup {NoPackage}]]
    BY <1>2 DEF IInv, TypeOK
  <2>5. \A q \in Projects \ projects : packages'[q] = packages[q] /\ repos'[q] = repos[q]
    BY <1>2, <2>2 DEF IInv, TypeOK
  <2>6. TypeOK'
    BY <1>2, <2>1, <2>3, <2>4, <2>5 DEF IInv, TypeOK, Done, NoPackages, NoRepos
  <2>7. PackagesOK'
    BY <1>2 DEF IInv, TypeOK, PackagesOK, Exists, Done
  <2> QED
    BY <2>6, <2>7 DEF IInv
<1> QED
  BY <1>1, <1>2 DEF DeletePackage

\* The setter add_project preserves the invariant.
LEMMA AddProjectStep ==
  ASSUME IInv, NEW p \in Projects, AddProject(p)
  PROVE  IInv'
<1>1. reply' \in [op : HttpOps \cup SetterOps \cup {"start", "any"}, code : Codes]
  BY Endings DEF AddProject, Done, SetterOps, Codes
<1>2. TypeOK'
  BY <1>1 DEF AddProject, IInv, TypeOK, Done, NoPackages, NoRepos
<1>3. PackagesOK'
  BY DEF AddProject, IInv, PackagesOK, Exists, Done
<1> QED
  BY <1>2, <1>3 DEF IInv

\* The setter add_new_package preserves the invariant, over an old package too.
LEMMA AddNewPackageStep ==
  ASSUME IInv, NEW p \in Projects, NEW k \in PackageNames, NEW d \in DisabledLists,
         AddNewPackage(p, k, d)
  PROVE  IInv'
<1>1. CASE PanicUnchanged("add new package")
  BY <1>1, PanicUnchangedStep DEF SetterOps
<1>2. CASE /\ p \in projects
           /\ SetPackage(p, k, NewWithMetadata(p, k, d))
           /\ Done("add new package")
  <2>1. reply' \in [op : HttpOps \cup SetterOps \cup {"start", "any"}, code : Codes]
    BY <1>2, Endings DEF Done, SetterOps, Codes
  <2> QED
    BY <1>2, <2>1, NewWithMetadataGood, SetPackageStep DEF Done, IInv, TypeOK
<1> QED
  BY <1>1, <1>2 DEF AddNewPackage

\* The setter set_package_metadata preserves the invariant.
LEMMA SetPackageMetadataStep ==
  ASSUME IInv, NEW p \in Projects, NEW k \in PackageNames, NEW d \in DisabledLists,
         SetPackageMetadata(p, k, d)
  PROVE  IInv'
<1>1. CASE PanicUnchanged("set package metadata")
  BY <1>1, PanicUnchangedStep DEF SetterOps
<1>2. CASE /\ LookupError(p, k) = "none"
           /\ SetPackage(p, k, PutMetadata(packages[p][k], MetaFile(p, k, d)))
           /\ Done("set package metadata")
  <2>1. reply' \in [op : HttpOps \cup SetterOps \cup {"start", "any"}, code : Codes]
    BY <1>2, Endings DEF Done, SetterOps, Codes
  <2>2. ~poisoned /\ MetaFile(p, k, d) \in FileKeys /\ MetaFile(p, k, d).path = META_PATH
    BY GeneratedFiles DEF SetPackageMetadata, MetaFile
  <2>3. p \in projects /\ Good(packages[p][k]) /\ CountersMatch(packages[p][k])
    BY <1>2, <2>2, Found
  <2> QED
    BY <1>2, <2>1, <2>2, <2>3, PutMetadataGood, SetPackageStep DEF Done, IInv, TypeOK
<1> QED
  BY <1>1, <1>2 DEF SetPackageMetadata

\* The setter add_package_files preserves the invariant.
LEMMA AddPackageFilesStep ==
  ASSUME IInv, NEW p \in Projects, NEW k \in PackageNames, NEW file \in UserFiles,
         AddPackageFiles(p, k, file)
  PROVE  IInv'
<1>1. CASE PanicUnchanged("add package files")
  BY <1>1, PanicUnchangedStep DEF SetterOps
<1>2. CASE /\ LookupError(p, k) = "none"
           /\ SetPackage(p, k, PutFile(packages[p][k], file))
           /\ Done("add package files")
  <2>1. reply' \in [op : HttpOps \cup SetterOps \cup {"start", "any"}, code : Codes]
    BY <1>2, Endings DEF Done, SetterOps, Codes
  <2>2. ~poisoned
    BY DEF AddPackageFiles
  <2>3. p \in projects /\ Good(packages[p][k]) /\ CountersMatch(packages[p][k])
    BY <1>2, <2>2, Found
  <2> QED
    BY <1>2, <2>1, <2>2, <2>3, PutFileGood, SetPackageStep DEF Done, IInv, TypeOK
<1> QED
  BY <1>1, <1>2 DEF AddPackageFiles

\* The setter add_package_revision preserves the invariant: when its assertion
\* fails the counter is ahead, but the lock is poisoned.
LEMMA AddPackageRevisionStep ==
  ASSUME IInv, NEW p \in Projects, NEW k \in PackageNames, NEW v \in AllVersions,
         NEW s \in Srcmd5s, NEW entries \in Directories(p, k),
         AddPackageRevision(p, k, v, s, entries)
  PROVE  IInv'
<1>1. CASE PanicUnchanged("add package revision")
  BY <1>1, PanicUnchangedStep DEF SetterOps
<1>2. CASE /\ LookupError(p, k) = "none"
           /\ PushRevision("add package revision", p, k, v, s, entries)
  <2>1. ~poisoned
    BY DEF AddPackageRevision
  <2>2. Exists(p, k) /\ Good(packages[p][k])
    BY <1>2, <2>1, Found
  <2>3. Candidates(p, k) \subseteq FileKeys
    BY <2>2, GeneratedFiles DEF Candidates, Good, Package
  <2>4. entries \in SUBSET FileKeys
    BY <2>3 DEF Directories
  <2> QED
    BY <1>2, <2>1, <2>4, PushRevisionStep
<1> QED
  BY <1>1, <1>2 DEF AddPackageRevision

\* The setter branch preserves the invariant.
LEMMA MockBranchStep ==
  ASSUME IInv, NEW p \in Projects, NEW k \in PackageNames, NEW tp \in Projects,
         NEW tk \in PackageNames, NEW m \in BOOLEAN, NEW s \in Srcmd5s,
         MockBranch(p, k, tp, tk, m, s)
  PROVE  IInv'
<1> DEFINE base == BranchBase(packages[p][k], TRUE)
           branched == NewBranched(p, k, base, tp, tk, m, s)
<1>1. CASE PanicUnchanged("mock branch")
  BY <1>1, PanicUnchangedStep DEF SetterOps
<1>2. CASE /\ LookupError(p, k) = "none" /\ tp \in projects
           /\ SetPackage(tp, tk, branched)
           /\ Done("mock branch")
  <2>1. reply' \in [op : HttpOps \cup SetterOps \cup {"start", "any"}, code : Codes]
    BY <1>2, Endings DEF Done, SetterOps, Codes
  <2>2. ~poisoned
    BY DEF MockBranch
  <2>3. Good(packages[p][k])
    BY <1>2, <2>2, Found
  <2>4. base \in Base /\ base.entries \subseteq base.files
    BY <2>3, BranchBaseGood
  <2> HIDE DEF base
  <2>5. Good(branched) /\ CountersMatch(branched)
    BY <2>4, NewBranchedGood
  <2> HIDE DEF branched
  <2> QED
    BY <1>2, <2>1, <2>2, <2>5, SetPackageStep DEF Done, IInv, TypeOK
<1> QED
  BY <1>1, <1>2 DEF MockBranch

\* The setters that only touch repositories preserve the invariant.
LEMMA RepositoryStep ==
  ASSUME IInv, NEW p \in Projects, NEW r \in RepoArchs,
         \/ AddOrUpdateRepository(p, r)
         \/ \E k \in PackageNames : WithRepoPackage(p, r, k)
  PROVE  IInv'
<1>1. CASE PanicUnchanged("add repository") \/ PanicUnchanged("set repo package")
  BY <1>1, PanicUnchangedStep DEF SetterOps
<1>2. ASSUME NEW packs \in SUBSET PackageNames, p \in projects, SetRepo(p, r, packs),
             NEW op \in {"add repository", "set repo package"}, Done(op)
      PROVE  IInv'
  <2>1. reply' \in [op : HttpOps \cup SetterOps \cup {"start", "any"}, code : Codes]
    <3>1. op \in HttpOps \cup SetterOps \cup {"any"} /\ "ok" \in Codes
      BY DEF SetterOps, Codes
    <3> QED
      BY <1>2, <3>1, Endings DEF Done
  <2>2. /\ repos' \in [Projects -> [RepoArchs -> {NoRepo} \cup SUBSET PackageNames]]
        /\ \A q \in Projects \ projects : repos'[q] = repos[q]
        /\ poisoned' = poisoned
    BY <1>2 DEF IInv, TypeOK, Done, SetRepo
  <2>3. TypeOK'
    BY <1>2, <2>1, <2>2 DEF IInv, TypeOK, NoPackages, NoRepos, SetRepo
  <2> QED
    BY <1>2, <2>2, <2>3 DEF IInv, PackagesOK, Exists, SetRepo
<1>3. CASE p \in projects /\ Done("add repository")
           /\ SetRepo(p, r, IF repos[p][r] = NoRepo THEN {} ELSE repos[p][r])
  <2>1. (IF repos[p][r] = NoRepo THEN {} ELSE repos[p][r]) \in SUBSET PackageNames
    BY DEF IInv, TypeOK
  <2> QED
    BY <1>2, <1>3, <2>1
<1>4. ASSUME NEW k \in PackageNames, LookupError(p, k) = "none", repos[p][r] # NoRepo,
             SetRepo(p, r, repos[p][r] \cup {k}), Done("set repo package")
      PROVE  IInv'
  <2>1. repos[p][r] \cup {k} \in SUBSET PackageNames /\ p \in projects
    BY <1>4 DEF IInv, TypeOK, LookupError
  <2> QED
    BY <1>2, <1>4, <2>1
<1> QED
  BY <1>1, <1>3, <1>4 DEF AddOrUpdateRepository, WithRepoPackage

-----------------------------------------------------------------------------
(* The theorems.                                                           *)

\* An empty server satisfies the invariant.
LEMMA InitInv == Init => IInv
<1> SUFFICES ASSUME Init PROVE IInv
  OBVIOUS
<1>1. TypeOK
  BY DEF Init, TypeOK, NoPackages, NoRepos, Codes
<1>2. PackagesOK
  BY DEF Init, PackagesOK, Exists, NoPackages
<1> QED
  BY <1>1, <1>2 DEF IInv

\* Every request, every setter and every access to a poisoned lock preserves it.
LEMMA NextInv == IInv /\ [Next]_vars => IInv'
<1> SUFFICES ASSUME IInv, [Next]_vars PROVE IInv'
  OBVIOUS
<1>1. CASE HttpRequest
  <2>1. ASSUME NEW code \in Codes, OtherCommand(code) PROVE IInv'
    BY <2>1, RefuseStep DEF OtherCommand, HttpOps
  <2>2. CASE Unauthenticated
    BY <2>2, RefuseStep DEF Unauthenticated, Codes
  <2> QED
    BY <1>1, <2>1, <2>2, DeleteProjectStep, PutMetaStep, DeletePackageStep, UploadStep,
       CommitStep, BranchStep DEF HttpRequest
<1>2. CASE SetterCall
  BY <1>2, AddProjectStep, RepositoryStep, AddNewPackageStep, SetPackageMetadataStep,
     AddPackageFilesStep, AddPackageRevisionStep, MockBranchStep DEF SetterCall
<1>3. CASE PoisonedAccess
  BY <1>3, PanicUnchangedStep DEF PoisonedAccess
<1>4. CASE UNCHANGED vars
  BY <1>4 DEF vars, IInv, TypeOK, PackagesOK, Exists, NoPackages, NoRepos
<1> QED
  BY <1>1, <1>2, <1>3, <1>4 DEF Next

\* The state of the server is always well typed, and every package in it good.
THEOREM Invariance == Spec => []IInv
BY InitInv, NextInv, PTL DEF Spec

\* TypeOK: what handlers and setters leave in the project map is well typed, and
\* nothing outlives its project.
THEOREM TypeCorrectness == Spec => []TypeOK
<1>1. IInv => TypeOK
  BY DEF IInv
<1> QED
  BY <1>1, Invariance, PTL

\* StoredFilesResolve: no listing or file handler can unwrap a missing file.
THEOREM FilesAlwaysResolve == Spec => []StoredFilesResolve
<1>1. IInv => StoredFilesResolve
  BY DEF IInv, PackagesOK, Good, StoredFilesResolve, EveryPackage
<1> QED
  BY <1>1, Invariance, PTL

\* VrevsNumberRevisions: vrevs count without a gap in every version.
THEOREM VrevsAlwaysNumber == Spec => []VrevsNumberRevisions
<1>1. IInv => VrevsNumberRevisions
  BY DEF IInv, PackagesOK, Good, VrevsNumberRevisions, EveryPackage
<1> QED
  BY <1>1, Invariance, PTL

\* LinkInfoTracksLink: a revision has the linkinfo of the branch that began the
\* history exactly if no revision up to it dropped _link.
THEOREM LinkInfoAlwaysTracks == Spec => []LinkInfoTracksLink
<1>1. IInv => LinkInfoTracksLink
  BY DEF IInv, PackagesOK, Good, LinkInfoTracksLink, EveryPackage
<1> QED
  BY <1>1, Invariance, PTL

-----------------------------------------------------------------------------
(* Panics.                                                                 *)

\* A good package can be read in every way but one.
LEMMA GoodReads ==
  ASSUME NEW pkg, Good(pkg)
  PROVE  /\ \A rev \in Nat, given \in BOOLEAN : ListReply(pkg, FALSE, given, rev) # "panic"
         /\ ListReply(pkg, TRUE, FALSE, 0) # "panic"
         /\ \A path : FileReply(pkg, path) # "panic"
<1> DEFINE n == Len(pkg.revisions)
           m == Len(pkg.metaRevisions)
<1>0. /\ pkg.revisions \in Seq(Revision) /\ n \in Nat /\ DOMAIN pkg.revisions = 1..n
      /\ pkg.metaRevisions \in Seq(FileKeys) /\ m \in Nat /\ DOMAIN pkg.metaRevisions = 1..m
      /\ m # 0
  BY DEF Good, Package
<1>1. /\ \A i \in 1..n : pkg.revisions[i].entries \subseteq pkg.files
      /\ \A i \in 1..m : pkg.metaRevisions[i] \in pkg.files
  BY <1>0 DEF Good, FilesResolve, EntriesStored
<1>2. ASSUME NEW rev \in Nat, NEW given \in BOOLEAN
      PROVE  ListReply(pkg, FALSE, given, rev) # "panic"
  <2> DEFINE revisions == [i \in DOMAIN pkg.revisions |-> pkg.revisions[i].entries]
             revId == IF given THEN rev ELSE Len(revisions)
  <2>1. Len(revisions) = n /\ DOMAIN revisions = 1..n
    BY <1>0
  <2>2. \A i \in 1..n : ListingReply(pkg, revisions[i]) = "ok"
    BY <1>0, <1>1 DEF ListingReply, EntriesStored
  <2>3. ListReply(pkg, FALSE, given, rev) =
          IF given /\ ~(rev <= n) THEN "no such revision"
          ELSE IF revId = 0 THEN "zero revision"
          ELSE IF revId \in DOMAIN revisions THEN ListingReply(pkg, revisions[revId])
          ELSE "panic"
    BY <1>0 DEF ListReply
  <2> HIDE DEF revisions
  <2>4. CASE given
    <3>1. CASE rev <= n /\ rev # 0
      <4>1. rev \in 1..n
        BY <1>0, <3>1
      <4> QED
        BY <2>1, <2>2, <2>3, <2>4, <3>1, <4>1
    <3>2. CASE ~(rev <= n /\ rev # 0)
      BY <2>3, <2>4, <3>2
    <3> QED
      BY <3>1, <3>2
  <2>5. CASE ~given
    <3>1. CASE n # 0
      <4>1. n \in 1..n
        BY <1>0, <3>1
      <4> QED
        BY <2>1, <2>2, <2>3, <2>5, <3>1, <4>1
    <3>2. CASE n = 0
      BY <2>1, <2>3, <2>5, <3>2
    <3> QED
      BY <3>1, <3>2
  <2> QED
    BY <2>4, <2>5
<1>3. ListReply(pkg, TRUE, FALSE, 0) # "panic"
  <2> DEFINE revisions == [i \in DOMAIN pkg.metaRevisions |-> {pkg.metaRevisions[i]}]
  <2>1. Len(revisions) = m /\ DOMAIN revisions = 1..m /\ m \in 1..m
    BY <1>0
  <2>2. ListingReply(pkg, revisions[m]) = "ok"
    BY <1>0, <1>1, <2>1 DEF ListingReply, EntriesStored
  <2> QED
    BY <1>0, <2>1, <2>2 DEF ListReply
<1>4. ASSUME NEW path
      PROVE  FileReply(pkg, path) # "panic"
  <2>1. CASE path = META_PATH
    <3>1. pkg.metaRevisions # << >> /\ pkg.metaRevisions[m] \in pkg.files
      BY <1>0, <1>1
    <3> QED
      BY <2>1, <3>1 DEF FileReply, ListingReply, EntriesStored
  <2>2. CASE path # META_PATH /\ pkg.revisions # << >>
    <3>1. n \in 1..n
      BY <1>0, <2>2
    <3>2. Entry(LastRevision(pkg), path) \subseteq pkg.files
      BY <1>1, <3>1 DEF Entry, LastRevision
    <3> QED
      BY <2>2, <3>2 DEF FileReply, ListingReply, EntriesStored
  <2>3. CASE path # META_PATH /\ pkg.revisions = << >>
    BY <2>3 DEF FileReply
  <2> QED
    BY <2>1, <2>2, <2>3
<1> QED
  BY <1>2, <1>3, <1>4

\* ReadsNeverPanic: every GET of a package is answered.
THEOREM ReadsAlwaysAnswer == Spec => []ReadsNeverPanic
<1>1. IInv => ReadsNeverPanic
  <2> SUFFICES ASSUME IInv, NEW p \in Projects, NEW k \in PackageNames, Exists(p, k)
               PROVE  ReadsNeverPanicIn(packages[p][k])
    BY DEF ReadsNeverPanic, EveryPackage
  <2>1. Good(packages[p][k])
    BY DEF IInv, PackagesOK
  <2>2. 0..MaxRevs + 1 \subseteq Nat
    BY StoreAssumption
  <2> QED
    BY <2>1, <2>2, GoodReads DEF ReadsNeverPanicIn
<1> QED
  BY <1>1, Invariance, PTL

-----------------------------------------------------------------------------
(* What a failed request leaves.                                           *)

FailureIsClean == reply'.op \in HttpOps /\ reply'.code # "ok" => UNCHANGED store

\* A commit that gets as far as adding its revision ends well: its entries are
\* stored, and so its answer can be listed.
LEMMA CommitSucceeds ==
  ASSUME IInv, ~poisoned, NEW p \in Projects, NEW k \in PackageNames,
         NEW list \in FileLists(p, k), NEW s \in Srcmd5s, LookupError(p, k) = "none",
         Missing(packages[p][k], list) = {},
         PushRevision("commit", p, k, NoVersion, s, CommitEntries(list))
  PROVE  Done("commit")
<1> DEFINE old == packages[p][k]
           entries == CommitEntries(list)
           new == AddRevision(old, NoVersion, s, entries)
<1>1. Good(old) /\ CountersMatch(old)
  BY Found
<1>2. EntriesStored(old, entries)
  BY DEF Missing, CommitEntries, EntriesStored
<1>3. entries \in SUBSET FileKeys
  BY <1>1, <1>2 DEF EntriesStored, Good, Package
<1> HIDE DEF entries
<1>6. Good(new)
  BY <1>1, <1>3, AddRevisionGood DEF AllVersions
<1>7. new.revisions # << >>
  BY <1>1, <1>2 DEF AddRevision, Good, Package
<1> HIDE DEF new
<1>8. ListReply(new, FALSE, FALSE, 0) = "ok"
  <2>1. /\ new.revisions \in Seq(Revision) /\ Len(new.revisions) \in Nat \ {0}
        /\ Len(new.revisions) \in DOMAIN new.revisions
    BY <1>6, <1>7 DEF Good, Package
  <2>2. new.revisions[Len(new.revisions)].entries \subseteq new.files
    BY <1>6, <2>1 DEF Good, FilesResolve, EntriesStored
  <2> DEFINE revisions == [i \in DOMAIN new.revisions |-> new.revisions[i].entries]
  <2>3. Len(revisions) = Len(new.revisions)
    BY <2>1
  <2> QED
    BY <2>1, <2>2, <2>3 DEF ListReply, ListingReply, EntriesStored
<1> QED
  BY <1>2, <1>8 DEF PushRevision, new, entries

\* A request that does not succeed leaves the store as it was.
LEMMA CleanStep == IInv /\ [Next]_vars => [FailureIsClean]_vars
<1> SUFFICES ASSUME IInv, Next PROVE FailureIsClean
  OBVIOUS
<1>1. ASSUME NEW op, NEW code, Refuse(op, code) PROVE FailureIsClean
  BY <1>1 DEF Refuse, FailureIsClean
<1>2. ASSUME NEW op, Done(op) PROVE FailureIsClean
  BY <1>2 DEF Done, FailureIsClean
<1>3. ASSUME NEW op \in SetterOps \cup {"any"}, Done(op) \/ Panic(op) PROVE FailureIsClean
  <2>1. op \notin HttpOps
    BY <1>3 DEF SetterOps, HttpOps
  <2>2. reply'.op = op
    BY <1>3 DEF Done, Panic
  <2> QED
    BY <2>1, <2>2 DEF FailureIsClean
<1>4. CASE HttpRequest
  <2>1. ASSUME NEW p \in Projects, DeleteProject(p) PROVE FailureIsClean
    BY <2>1, <1>1, <1>2 DEF DeleteProject
  <2>2. ASSUME NEW p \in Projects, NEW k \in PackageNames, PutMeta(p, k) \/ DeletePackage(p, k)
        PROVE  FailureIsClean
    BY <2>2, <1>1, <1>2 DEF PutMeta, DeletePackage
  <2>3. ASSUME NEW p \in Projects, NEW k \in PackageNames, NEW file \in UserFiles,
               NEW b \in BOOLEAN, Upload(p, k, file, b)
        PROVE  FailureIsClean
    BY <2>3, <1>1, <1>2 DEF Upload
  <2>4. ASSUME NEW p \in Projects, NEW k \in PackageNames, NEW list \in FileLists(p, k),
               NEW s \in Srcmd5s, Commit(p, k, list, s)
        PROVE  FailureIsClean
    BY <2>4, <1>1, <1>2, CommitSucceeds DEF Commit
  <2>5. ASSUME NEW p \in Projects, NEW k \in PackageNames, NEW tp \in Projects,
               NEW tk \in PackageNames, NEW s \in Srcmd5s, NEW force \in BOOLEAN,
               NEW m \in BOOLEAN, NEW modesParse \in BOOLEAN,
               Branch(p, k, tp, tk, force, m, modesParse, s)
        PROVE  FailureIsClean
    <3>1. CASE Exists(tp, tk) /\ MakeTarget(p, tp) /\ UNCHANGED <<packages, poisoned>>
      <4>1. tp \in projects
        BY <3>1 DEF IInv, TypeOK, Exists, NoPackages
      <4> QED
        BY <3>1, <4>1 DEF MakeTarget, FailureIsClean, store
    <3> QED
      BY <2>5, <3>1, <1>1, <1>2 DEF Branch
  <2>6. ASSUME NEW code \in Codes, OtherCommand(code) PROVE FailureIsClean
    BY <2>6, <1>1 DEF OtherCommand
  <2>7. CASE Unauthenticated
    BY <2>7, <1>1 DEF Unauthenticated
  <2> QED
    BY <1>4, <2>1, <2>2, <2>3, <2>4, <2>5, <2>6, <2>7 DEF HttpRequest
<1>5. CASE SetterCall
  <2>1. \E op \in SetterOps : Done(op) \/ Panic(op)
    <3> USE DEF SetterOps, PanicUnchanged
    <3>1. ASSUME NEW p \in Projects, AddProject(p) PROVE <2>1
      BY <3>1 DEF AddProject
    <3>2. ASSUME NEW p \in Projects, NEW r \in RepoArchs, AddOrUpdateRepository(p, r) PROVE <2>1
      BY <3>2 DEF AddOrUpdateRepository
    <3>3. ASSUME NEW p \in Projects, NEW r \in RepoArchs, NEW k \in PackageNames,
                 WithRepoPackage(p, r, k)
          PROVE  <2>1
      BY <3>3 DEF WithRepoPackage
    <3>4. ASSUME NEW p \in Projects, NEW k \in PackageNames, NEW d \in DisabledLists,
                 AddNewPackage(p, k, d) \/ SetPackageMetadata(p, k, d)
          PROVE  <2>1
      BY <3>4 DEF AddNewPackage, SetPackageMetadata
    <3>5. ASSUME NEW p \in Projects, NEW k \in PackageNames, NEW file \in UserFiles,
                 AddPackageFiles(p, k, file)
          PROVE  <2>1
      BY <3>5 DEF AddPackageFiles
    <3>6. ASSUME NEW p \in Projects, NEW k \in PackageNames, NEW v \in AllVersions,
                 NEW s \in Srcmd5s, NEW E \in Directories(p, k),
                 AddPackageRevision(p, k, v, s, E)
          PROVE  <2>1
      BY <3>6 DEF AddPackageRevision, PushRevision
    <3>7. ASSUME NEW p \in Projects, NEW k \in PackageNames, NEW tp \in Projects,
                 NEW tk \in PackageNames, NEW m \in BOOLEAN, NEW s \in Srcmd5s,
                 MockBranch(p, k, tp, tk, m, s)
          PROVE  <2>1
      BY <3>7 DEF MockBranch
    <3> QED
      BY <1>5, <3>1, <3>2, <3>3, <3>4, <3>5, <3>6, <3>7 DEF SetterCall
  <2> QED
    BY <2>1, <1>3
<1>6. CASE PoisonedAccess
  BY <1>6, <1>3 DEF PoisonedAccess, PanicUnchanged
<1> QED
  BY <1>4, <1>5, <1>6 DEF Next

\* FailedRequestChangesNothing: no request that fails leaves a trace, and none
\* poisons the lock.
THEOREM FailuresAreClean == Spec => FailedRequestChangesNothing
BY CleanStep, Invariance, PTL DEF Spec, FailedRequestChangesNothing, FailureIsClean

-----------------------------------------------------------------------------
(* What a package keeps.                                                   *)

Keeps(old, new) ==
  /\ old.files \subseteq new.files
  /\ IsPrefix(old.revisions, new.revisions)
  /\ IsPrefix(old.metaRevisions, new.metaRevisions)

HistoryKept ==
  reply'.op \notin {"forced branch", "mock branch", "add new package"} =>
    \A p \in Projects, k \in PackageNames :
      Exists(p, k) /\ Exists(p, k)' => Keeps(packages[p][k], packages'[p][k])

\* The operations that change a package keep what it has.
LEMMA ChangesKeep ==
  ASSUME NEW pkg, Good(pkg)
  PROVE  /\ \A file : Keeps(pkg, PutFile(pkg, file))
         /\ \A meta : Keeps(pkg, PutMetadata(pkg, meta))
         /\ \A v \in AllVersions : \A s, entries : Keeps(pkg, AddRevision(pkg, v, s, entries))
<1>0. pkg \in Package
  BY DEF Good
<1>1. pkg.revisions \in Seq(Revision) /\ pkg.metaRevisions \in Seq(FileKeys)
  BY <1>0 DEF Package
<1>2. /\ IsPrefix(pkg.revisions, pkg.revisions) /\ IsPrefix(pkg.metaRevisions, pkg.metaRevisions)
      /\ \A e : IsPrefix(pkg.revisions, Append(pkg.revisions, e))
      /\ \A e : IsPrefix(pkg.metaRevisions, Append(pkg.metaRevisions, e))
  BY <1>1, PrefixOfAppend
<1>3. ASSUME NEW file PROVE Keeps(pkg, PutFile(pkg, file))
  BY <1>0, <1>2 DEF Keeps, PutFile, Package
<1>4. ASSUME NEW meta PROVE Keeps(pkg, PutMetadata(pkg, meta))
  BY <1>0, <1>2 DEF Keeps, PutMetadata, Package
<1>5. ASSUME NEW v \in AllVersions, NEW s, NEW entries
      PROVE  Keeps(pkg, AddRevision(pkg, v, s, entries))
  <2> DEFINE new == AddRevision(pkg, v, s, entries)
  <2>1. /\ new.files = pkg.files /\ new.metaRevisions = pkg.metaRevisions
        /\ \/ new.revisions = pkg.revisions
           \/ \E rev : new.revisions = Append(pkg.revisions, rev)
    BY <1>0 DEF AddRevision, Package
  <2> HIDE DEF new
  <2>2. Keeps(pkg, new)
    BY <1>2, <2>1 DEF Keeps
  <2> QED
    BY <2>2 DEF new
<1> QED
  BY <1>3, <1>4, <1>5

\* A step that puts one package keeps the others, and that one if the new
\* package keeps the old one.
LEMMA PutKeeps ==
  ASSUME IInv, NEW p \in Projects, NEW k \in PackageNames, NEW pkg,
         Exists(p, k) => Keeps(packages[p][k], pkg), PutPackage(p, k, pkg)
  PROVE  HistoryKept
<1> SUFFICES ASSUME NEW q \in Projects, NEW l \in PackageNames, Exists(q, l)
             PROVE  Keeps(packages[q][l], packages'[q][l])
  BY DEF HistoryKept
<1>1. packages \in [Projects -> [PackageNames -> Package \cup {NoPackage}]]
  BY DEF IInv, TypeOK
<1>2. CASE q = p /\ l = k
  BY <1>1, <1>2 DEF PutPackage
<1>3. CASE ~(q = p /\ l = k)
  <2>1. packages'[q][l] = packages[q][l] /\ Good(packages[q][l])
    BY <1>1, <1>3 DEF PutPackage, IInv, PackagesOK
  <2>2. packages[q][l].revisions \in Seq(Revision) /\ packages[q][l].metaRevisions \in Seq(FileKeys)
    BY <2>1 DEF Good, Package
  <2> QED
    BY <2>1, <2>2, PrefixOfAppend DEF Keeps
<1> QED
  BY <1>2, <1>3

\* A step in which no package changes but those that go.
LEMMA NothingPutKeeps ==
  ASSUME IInv,
         \A p \in Projects, k \in PackageNames :
           Exists(p, k)' => packages'[p][k] = packages[p][k]
  PROVE  HistoryKept
<1> SUFFICES ASSUME NEW p \in Projects, NEW k \in PackageNames, Exists(p, k), Exists(p, k)'
             PROVE  Keeps(packages[p][k], packages'[p][k])
  BY DEF HistoryKept
<1>1. packages[p][k].revisions \in Seq(Revision) /\ packages[p][k].metaRevisions \in Seq(FileKeys)
  BY DEF IInv, PackagesOK, Good, Package
<1> QED
  BY <1>1, PrefixOfAppend DEF Keeps

\* No step takes from a package that stays, unless it is one that replaces it.
LEMMA KeepStep == IInv /\ [Next]_vars => [HistoryKept]_vars
<1> SUFFICES ASSUME IInv, Next PROVE HistoryKept
  OBVIOUS
<1>0. ASSUME UNCHANGED packages PROVE HistoryKept
  BY <1>0, NothingPutKeeps
<1>1. ASSUME NEW op, NEW code, Refuse(op, code) \/ PanicUnchanged(op) PROVE HistoryKept
  BY <1>0, <1>1 DEF Refuse, PanicUnchanged, store
<1>2. ASSUME NEW op \in {"forced branch", "mock branch", "add new package"}, Done(op)
      PROVE  HistoryKept
  BY <1>2 DEF Done, HistoryKept
<1>3. ASSUME NEW p \in Projects, NEW k \in PackageNames, LookupError(p, k) = "none"
      PROVE  Good(packages[p][k])
  BY <1>3 DEF LookupError, IInv, PackagesOK
<1>4. CASE HttpRequest
  <2>1. ASSUME NEW p \in Projects, DeleteProject(p) PROVE HistoryKept
    <3>1. CASE packages' = [packages EXCEPT ![p] = NoPackages]
      BY <3>1, NothingPutKeeps DEF IInv, TypeOK, Exists, NoPackages
    <3> QED
      BY <2>1, <1>1, <3>1 DEF DeleteProject
  <2>2. ASSUME NEW p \in Projects, NEW k \in PackageNames, PutMeta(p, k) PROVE HistoryKept
    BY <2>2, <1>0, <1>1, PutKeeps DEF PutMeta, SetPackage
  <2>3. ASSUME NEW p \in Projects, NEW k \in PackageNames, DeletePackage(p, k)
        PROVE  HistoryKept
    <3>1. CASE packages' = [packages EXCEPT ![p] = [@ EXCEPT ![k] = NoPackage]]
      BY <3>1, NothingPutKeeps DEF IInv, TypeOK, Exists
    <3> QED
      BY <2>3, <1>1, <3>1 DEF DeletePackage
  <2>4. ASSUME NEW p \in Projects, NEW k \in PackageNames, NEW file \in UserFiles,
               NEW b \in BOOLEAN, Upload(p, k, file, b)
        PROVE  HistoryKept
    BY <2>4, <1>1, <1>3, ChangesKeep, PutKeeps DEF Upload, SetPackage
  <2>5. ASSUME NEW p \in Projects, NEW k \in PackageNames, NEW list \in FileLists(p, k),
               NEW s \in Srcmd5s, Commit(p, k, list, s)
        PROVE  HistoryKept
    <3>1. CASE LookupError(p, k) = "none"
               /\ PushRevision("commit", p, k, NoVersion, s, CommitEntries(list))
      BY <3>1, <1>3, ChangesKeep, PutKeeps DEF PushRevision, SetPackage, AllVersions
    <3> QED
      BY <2>5, <1>1, <3>1 DEF Commit
  <2>6. ASSUME NEW p \in Projects, NEW k \in PackageNames, NEW tp \in Projects,
               NEW tk \in PackageNames, NEW s \in Srcmd5s, NEW force \in BOOLEAN,
               NEW m \in BOOLEAN, NEW modesParse \in BOOLEAN,
               Branch(p, k, tp, tk, force, m, modesParse, s)
        PROVE  HistoryKept
    <3> DEFINE branched == NewBranched(p, k, BranchBase(packages[p][k], Exists(p, k)),
                                       tp, tk, m, s)
    <3>1. CASE force /\ Done("forced branch")
      BY <3>1, <1>2
    <3>2. CASE ~Exists(tp, tk) /\ PutPackage(tp, tk, branched)
      <4> HIDE DEF branched
      <4> QED
        BY <3>2, PutKeeps
    <3> QED
      BY <2>6, <1>0, <1>1, <3>1, <3>2 DEF Branch
  <2>7. ASSUME NEW code \in Codes, OtherCommand(code) PROVE HistoryKept
    BY <2>7, <1>1 DEF OtherCommand
  <2>8. CASE Unauthenticated
    BY <2>8, <1>1 DEF Unauthenticated
  <2> QED
    BY <1>4, <2>1, <2>2, <2>3, <2>4, <2>5, <2>6, <2>7, <2>8 DEF HttpRequest
<1>5. CASE SetterCall
  <2>1. ASSUME NEW p \in Projects, AddProject(p) PROVE HistoryKept
    BY <2>1, <1>0 DEF AddProject
  <2>2. ASSUME NEW p \in Projects, NEW r \in RepoArchs, AddOrUpdateRepository(p, r)
        PROVE  HistoryKept
    BY <2>2, <1>0, <1>1 DEF AddOrUpdateRepository, SetRepo
  <2>3. ASSUME NEW p \in Projects, NEW r \in RepoArchs, NEW k \in PackageNames,
               WithRepoPackage(p, r, k)
        PROVE  HistoryKept
    BY <2>3, <1>0, <1>1 DEF WithRepoPackage, SetRepo
  <2>4. ASSUME NEW p \in Projects, NEW k \in PackageNames, NEW d \in DisabledLists,
               AddNewPackage(p, k, d)
        PROVE  HistoryKept
    BY <2>4, <1>1, <1>2 DEF AddNewPackage
  <2>5. ASSUME NEW p \in Projects, NEW k \in PackageNames, NEW d \in DisabledLists,
               SetPackageMetadata(p, k, d)
        PROVE  HistoryKept
    BY <2>5, <1>1, <1>3, ChangesKeep, PutKeeps DEF SetPackageMetadata, SetPackage
  <2>6. ASSUME NEW p \in Projects, NEW k \in PackageNames, NEW file \in UserFiles,
               AddPackageFiles(p, k, file)
        PROVE  HistoryKept
    BY <2>6, <1>1, <1>3, ChangesKeep, PutKeeps DEF AddPackageFiles, SetPackage
  <2>7. ASSUME NEW p \in Projects, NEW k \in PackageNames, NEW v \in AllVersions,
               NEW s \in Srcmd5s, NEW E \in Directories(p, k),
               AddPackageRevision(p, k, v, s, E)
        PROVE  HistoryKept
    BY <2>7, <1>1, <1>3, ChangesKeep, PutKeeps DEF AddPackageRevision, PushRevision, SetPackage
  <2>8. ASSUME NEW p \in Projects, NEW k \in PackageNames, NEW tp \in Projects,
               NEW tk \in PackageNames, NEW m \in BOOLEAN, NEW s \in Srcmd5s,
               MockBranch(p, k, tp, tk, m, s)
        PROVE  HistoryKept
    BY <2>8, <1>1, <1>2 DEF MockBranch
  <2> QED
    BY <1>5, <2>1, <2>2, <2>3, <2>4, <2>5, <2>6, <2>7, <2>8 DEF SetterCall
<1>6. CASE PoisonedAccess
  BY <1>6, <1>1 DEF PoisonedAccess
<1> QED
  BY <1>4, <1>5, <1>6 DEF Next

\* OnlyReplacingLosesHistory: commits, uploads and metadata only ever add to a
\* package, and a branch that is not forced replaces none.
THEOREM HistoryOnlyGrows == Spec => OnlyReplacingLosesHistory
BY KeepStep, Invariance, PTL DEF Spec, OnlyReplacingLosesHistory, HistoryKept, Keeps

-----------------------------------------------------------------------------
(* Records without sources.                                                *)

NoNewOrphans ==
  reply'.op \notin {"branch", "forced branch"} \/ projects' = projects =>
    Orphans' \subseteq Orphans

\* A step that leaves the repositories alone, and takes no package away.
LEMMA SameReposOrphans ==
  ASSUME UNCHANGED repos,
         \A p \in Projects, k \in PackageNames : Exists(p, k) => Exists(p, k)'
  PROVE  NoNewOrphans
BY DEF NoNewOrphans, Orphans

\* A step that puts one package, and leaves the repositories alone.
LEMMA PutOrphans ==
  ASSUME IInv, NEW p \in Projects, NEW k \in PackageNames, NEW pkg, Good(pkg),
         PutPackage(p, k, pkg), UNCHANGED repos
  PROVE  NoNewOrphans
<1>1. pkg # NoPackage
  BY StoreAssumption DEF Good
<1>2. packages \in [Projects -> [PackageNames -> Package \cup {NoPackage}]]
  BY DEF IInv, TypeOK
<1>3. \A q \in Projects, l \in PackageNames : Exists(q, l) => Exists(q, l)'
  BY <1>1, <1>2 DEF PutPackage, Exists
<1> QED
  BY <1>3, SameReposOrphans

\* Adding a revision is such a step.
LEMMA PushRevisionOrphans ==
  ASSUME IInv, ~poisoned, NEW op, NEW p \in Projects, NEW k \in PackageNames,
         LookupError(p, k) = "none", NEW v \in AllVersions, NEW s \in Srcmd5s,
         NEW entries \in SUBSET FileKeys,
         PushRevision(op, p, k, v, s, entries)
  PROVE  NoNewOrphans
<1> DEFINE new == AddRevision(packages[p][k], v, s, entries)
<1>1. Good(new)
  BY Found, AddRevisionGood
<1>2. PutPackage(p, k, new) /\ UNCHANGED repos
  BY DEF PushRevision, SetPackage
<1> HIDE DEF new
<1> QED
  BY <1>1, <1>2, PutOrphans

\* Nor does a step orphan records that deletes a package with its records, or a
\* project with its repositories.
LEMMA DeletionOrphans ==
  ASSUME IInv, NEW p \in Projects, DeleteProject(p) \/ \E k \in PackageNames : DeletePackage(p, k)
  PROVE  NoNewOrphans
<1>0. /\ packages \in [Projects -> [PackageNames -> Package \cup {NoPackage}]]
      /\ repos \in [Projects -> [RepoArchs -> {NoRepo} \cup SUBSET PackageNames]]
  BY DEF IInv, TypeOK
<1>1. CASE UNCHANGED store
  BY <1>1, SameReposOrphans DEF store, Exists
<1>2. CASE packages' = [packages EXCEPT ![p] = NoPackages] /\ repos' = [repos EXCEPT ![p] = NoRepos]
  BY <1>0, <1>2 DEF NoNewOrphans, Orphans, Exists, NoPackages, NoRepos
<1>3. ASSUME NEW k \in PackageNames,
             packages' = [packages EXCEPT ![p] = [@ EXCEPT ![k] = NoPackage]],
             repos' = [repos EXCEPT ![p] =
                         [r \in RepoArchs |-> IF @[r] = NoRepo THEN NoRepo ELSE @[r] \ {k}]]
      PROVE  NoNewOrphans
  <2> SUFFICES ASSUME NEW q \in Projects, NEW r \in RepoArchs, NEW l \in PackageNames,
                      repos'[q][r] # NoRepo, l \in repos'[q][r], ~Exists(q, l)'
               PROVE  repos[q][r] # NoRepo /\ l \in repos[q][r] /\ ~Exists(q, l)
    BY DEF NoNewOrphans, Orphans
  <2>1. CASE q = p
    <3>1. repos[q][r] # NoRepo /\ l \in repos[q][r] /\ l # k
      BY <1>0, <1>3, <2>1
    <3>2. packages'[q][l] = packages[q][l]
      BY <1>0, <1>3, <3>1
    <3> QED
      BY <3>1, <3>2 DEF Exists
  <2>2. CASE q # p
    BY <1>0, <1>3, <2>2 DEF Exists
  <2> QED
    BY <2>1, <2>2
<1> QED
  BY <1>1, <1>2, <1>3 DEF DeleteProject, DeletePackage, Refuse

\* A record made for a package that exists is no orphan.
LEMMA RepositoryOrphans ==
  ASSUME IInv, NEW p \in Projects, NEW r \in RepoArchs,
         \/ AddOrUpdateRepository(p, r)
         \/ \E k \in PackageNames : WithRepoPackage(p, r, k)
  PROVE  NoNewOrphans
<1>0. repos \in [Projects -> [RepoArchs -> {NoRepo} \cup SUBSET PackageNames]]
  BY DEF IInv, TypeOK
<1>1. CASE UNCHANGED <<packages, repos>>
  BY <1>1, SameReposOrphans DEF Exists
<1>2. CASE SetRepo(p, r, IF repos[p][r] = NoRepo THEN {} ELSE repos[p][r])
  BY <1>0, <1>2 DEF SetRepo, NoNewOrphans, Orphans, Exists
<1>3. ASSUME NEW k \in PackageNames, Exists(p, k), repos[p][r] # NoRepo,
             SetRepo(p, r, repos[p][r] \cup {k})
      PROVE  NoNewOrphans
  BY <1>0, <1>3 DEF SetRepo, NoNewOrphans, Orphans, Exists
<1> QED
  BY <1>1, <1>2, <1>3 DEF AddOrUpdateRepository, WithRepoPackage, PanicUnchanged, LookupError

\* A branch that makes no project copies no repositories.
LEMMA BranchOrphans ==
  ASSUME IInv, NEW p \in Projects, NEW k \in PackageNames, NEW tp \in Projects,
         NEW tk \in PackageNames, NEW force \in BOOLEAN, NEW m \in BOOLEAN,
         NEW modesParse \in BOOLEAN, NEW s \in Srcmd5s,
         Branch(p, k, tp, tk, force, m, modesParse, s)
  PROVE  NoNewOrphans
<1> DEFINE base == BranchBase(packages[p][k], Exists(p, k))
           branched == NewBranched(p, k, base, tp, tk, m, s)
<1>1. CASE UNCHANGED store
  BY <1>1, SameReposOrphans DEF store, Exists
<1>2. CASE projects' # projects
  <2> DEFINE op == IF force THEN "forced branch" ELSE "branch"
  <2>1. \/ Refuse(op, "invalid argument") \/ Refuse(op, BranchError(p, k, m))
        \/ Done(op) \/ reply' = [op |-> op, code |-> "double branch package"]
    BY DEF Branch
  <2>2. op \in {"branch", "forced branch"}
    OBVIOUS
  <2> HIDE DEF op
  <2>3. ASSUME NEW code, reply' = [op |-> op, code |-> code] PROVE reply'.op = op
    BY <2>3
  <2>4. reply'.op = op
    BY <2>1, <2>3, Zenon DEF Refuse, Done
  <2> QED
    BY <1>2, <2>2, <2>4 DEF NoNewOrphans
<1>3. CASE projects' = projects /\ MakeTarget(p, tp) /\ UNCHANGED packages
  <2>1. UNCHANGED repos
    BY <1>3 DEF MakeTarget
  <2> QED
    BY <1>3, <2>1, SameReposOrphans DEF Exists
<1>4. CASE projects' = projects /\ MakeTarget(p, tp) /\ PutPackage(tp, tk, branched)
  <2>1. UNCHANGED repos
    BY <1>4 DEF MakeTarget
  <2>2. Exists(p, k) \in BOOLEAN /\ (Exists(p, k) => Good(packages[p][k]))
    BY DEF Exists, IInv, PackagesOK
  <2>3. base \in Base /\ base.entries \subseteq base.files
    BY <2>2, BranchBaseGood
  <2> HIDE DEF base
  <2>4. Good(branched)
    BY <2>3, NewBranchedGood
  <2> HIDE DEF branched
  <2> QED
    BY <1>4, <2>1, <2>4, PutOrphans
<1> QED
  BY <1>1, <1>2, <1>3, <1>4 DEF Branch, Refuse

\* Every other step.
LEMMA OrphanStep == IInv /\ [Next]_vars => [NoNewOrphans]_vars
<1> SUFFICES ASSUME IInv, Next PROVE NoNewOrphans
  OBVIOUS
<1>0. ASSUME UNCHANGED <<packages, repos>> PROVE NoNewOrphans
  BY <1>0, SameReposOrphans DEF Exists
<1>1. ASSUME NEW op, NEW code, Refuse(op, code) \/ PanicUnchanged(op) PROVE NoNewOrphans
  BY <1>0, <1>1 DEF Refuse, PanicUnchanged, store
<1>2. ASSUME NEW p \in Projects, NEW k \in PackageNames, LookupError(p, k) = "none", ~poisoned
      PROVE  Good(packages[p][k])
  BY <1>2, Found
<1>3. CASE HttpRequest
  <2>1. ASSUME NEW p \in Projects, NEW k \in PackageNames, PutMeta(p, k) PROVE NoNewOrphans
    BY <2>1, <1>0, <1>1, PutOrphans, NewWithMetadataGood, PackageAssumption
       DEF PutMeta, SetPackage
  <2>2. ASSUME NEW p \in Projects, NEW k \in PackageNames, NEW file \in UserFiles,
               NEW b \in BOOLEAN, Upload(p, k, file, b)
        PROVE  NoNewOrphans
    BY <2>2, <1>1, <1>2, PutFileGood, PutOrphans DEF Upload, SetPackage
  <2>3. ASSUME NEW p \in Projects, NEW k \in PackageNames, NEW list \in FileLists(p, k),
               NEW s \in Srcmd5s, Commit(p, k, list, s)
        PROVE  NoNewOrphans
    <3>1. CASE /\ LookupError(p, k) = "none" /\ Missing(packages[p][k], list) = {}
               /\ PushRevision("commit", p, k, NoVersion, s, CommitEntries(list))
      <4>1. ~poisoned /\ Good(packages[p][k])
        BY <2>3, <3>1, Found DEF Commit
      <4>2. CommitEntries(list) \in SUBSET FileKeys
        BY <3>1, <4>1 DEF Missing, CommitEntries, Good, Package
      <4> QED
        BY <3>1, <4>1, <4>2, PushRevisionOrphans DEF AllVersions
    <3> QED
      BY <2>3, <3>1, <1>1 DEF Commit
  <2>4. ASSUME NEW code \in Codes, OtherCommand(code) PROVE NoNewOrphans
    BY <2>4, <1>1 DEF OtherCommand
  <2>5. CASE Unauthenticated
    BY <2>5, <1>1 DEF Unauthenticated
  <2> QED
    BY <1>3, <2>1, <2>2, <2>3, <2>4, <2>5, DeletionOrphans, BranchOrphans DEF HttpRequest
<1>4. CASE SetterCall
  <2>1. ASSUME NEW p \in Projects, AddProject(p) PROVE NoNewOrphans
    BY <2>1, <1>0 DEF AddProject
  <2>2. ASSUME NEW p \in Projects, NEW k \in PackageNames, NEW d \in DisabledLists,
               AddNewPackage(p, k, d)
        PROVE  NoNewOrphans
    BY <2>2, <1>1, NewWithMetadataGood, PutOrphans DEF AddNewPackage, SetPackage
  <2>3. ASSUME NEW p \in Projects, NEW k \in PackageNames, NEW d \in DisabledLists,
               SetPackageMetadata(p, k, d)
        PROVE  NoNewOrphans
    <3>1. MetaFile(p, k, d) \in FileKeys /\ MetaFile(p, k, d).path = META_PATH
      BY GeneratedFiles DEF MetaFile
    <3> QED
      BY <2>3, <3>1, <1>1, <1>2, PutMetadataGood, PutOrphans DEF SetPackageMetadata, SetPackage
  <2>4. ASSUME NEW p \in Projects, NEW k \in PackageNames, NEW file \in UserFiles,
               AddPackageFiles(p, k, file)
        PROVE  NoNewOrphans
    BY <2>4, <1>1, <1>2, PutFileGood, PutOrphans DEF AddPackageFiles, SetPackage
  <2>5. ASSUME NEW p \in Projects, NEW k \in PackageNames, NEW v \in AllVersions,
               NEW s \in Srcmd5s, NEW E \in Directories(p, k),
               AddPackageRevision(p, k, v, s, E)
        PROVE  NoNewOrphans
    <3>1. CASE /\ LookupError(p, k) = "none"
               /\ PushRevision("add package revision", p, k, v, s, E)
      <4>1. ~poisoned /\ Exists(p, k) /\ Good(packages[p][k])
        BY <2>5, <3>1, Found DEF AddPackageRevision
      <4>2. Candidates(p, k) \subseteq FileKeys
        BY <4>1, GeneratedFiles DEF Candidates, Good, Package
      <4>3. E \in SUBSET FileKeys
        BY <4>2 DEF Directories
      <4> QED
        BY <3>1, <4>1, <4>3, PushRevisionOrphans
    <3> QED
      BY <2>5, <3>1, <1>1 DEF AddPackageRevision
  <2>6. ASSUME NEW p \in Projects, NEW k \in PackageNames, NEW tp \in Projects,
               NEW tk \in PackageNames, NEW m \in BOOLEAN, NEW s \in Srcmd5s,
               MockBranch(p, k, tp, tk, m, s)
        PROVE  NoNewOrphans
    <3> DEFINE base == BranchBase(packages[p][k], TRUE)
               branched == NewBranched(p, k, base, tp, tk, m, s)
    <3>1. CASE LookupError(p, k) = "none" /\ SetPackage(tp, tk, branched)
      <4>1. Good(packages[p][k])
        BY <2>6, <3>1, Found DEF MockBranch
      <4>2. base \in Base /\ base.entries \subseteq base.files
        BY <4>1, BranchBaseGood
      <4> HIDE DEF base
      <4>3. Good(branched)
        BY <4>2, NewBranchedGood
      <4> HIDE DEF branched
      <4> QED
        BY <3>1, <4>3, PutOrphans DEF SetPackage
    <3> QED
      BY <2>6, <3>1, <1>1 DEF MockBranch
  <2> QED
    BY <1>4, <2>1, <2>2, <2>3, <2>4, <2>5, <2>6, RepositoryOrphans DEF SetterCall
<1>5. CASE PoisonedAccess
  BY <1>5, <1>1 DEF PoisonedAccess
<1> QED
  BY <1>3, <1>4, <1>5 DEF Next

\* OnlyBranchingOrphansRecords: records lose their sources in no other way than
\* by a branch that copies them into the project it makes.
THEOREM OnlyBranchesOrphan == Spec => OnlyBranchingOrphansRecords
BY OrphanStep, Invariance, PTL DEF Spec, OnlyBranchingOrphansRecords, NoNewOrphans
=============================================================================

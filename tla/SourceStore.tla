---------------------------- MODULE SourceStore ----------------------------
(***************************************************************************)
(* The state of the mock OBS server that concerns sources, and everything  *)
(* that changes it: the HTTP handlers of api/source.rs and the setters of  *)
(* ObsMock that a test calls.  Both take the write guard of one RwLock     *)
(* around the whole project map for as long as they run, so each is one    *)
(* step.  A panic under that guard poisons the lock: from then on every    *)
(* handler and setter that takes it panics.                                *)
(*                                                                         *)
(* Of a project's repositories this module keeps which repository/arch     *)
(* pairs exist and which packages each has a record for; what the records  *)
(* say, and the rebuild and block modes, are left out.                     *)
(***************************************************************************)
EXTENDS SourcePackage

CONSTANTS
  RepoArchs,         \* repository/architecture pairs
  NoRepo,            \* the value of a pair a project does not have
  NoPackage,         \* the value of a package a project does not have
  MaxRevs,           \* bound: source revisions of a package
  MaxMetaRevs,       \* bound: metadata revisions of a package
  MaxFiles,          \* bound: files of a package
  MaxListLen         \* bound: entries of one commit or revision

ASSUME StoreAssumption ==
  /\ NoPackage \notin Package
  /\ \A S \in SUBSET PackageNames : NoRepo # S
  /\ {MaxRevs, MaxMetaRevs, MaxFiles, MaxListLen} \subseteq Nat

VARIABLES
  projects,          \* the projects that exist
  packages,          \* packages[p][k]: package k of project p, or NoPackage
  repos,             \* repos[p][r]: the packages pair r has a record for, or NoRepo
  poisoned,          \* the RwLock is poisoned
  reply              \* the last operation and how it ended

store == <<projects, packages, repos, poisoned>>
vars == <<projects, packages, repos, poisoned, reply>>

HttpOps == {"delete project", "put meta", "upload", "commit", "branch",
            "forced branch", "command", "delete package"}
SetterOps == {"add project", "add new package", "set package metadata",
              "add package files", "add package revision", "mock branch",
              "add repository", "set repo package"}
Codes == {"ok", "panic", "missing", "bad request", "unsupported", "missing parameter",
          "illegal request", "invalid argument", "unknown project", "unknown package",
          "not missing", "double branch package", "authentication required"}

NoPackages == [k \in PackageNames |-> NoPackage]
NoRepos == [r \in RepoArchs |-> NoRepo]

TypeOK ==
  /\ projects \subseteq Projects
  /\ packages \in [Projects -> [PackageNames -> Package \cup {NoPackage}]]
  /\ repos \in [Projects -> [RepoArchs -> {NoRepo} \cup SUBSET PackageNames]]
  /\ \A p \in Projects \ projects : packages[p] = NoPackages /\ repos[p] = NoRepos
  /\ poisoned \in BOOLEAN
  /\ reply \in [op : HttpOps \cup SetterOps \cup {"start", "any"}, code : Codes]

Init ==
  /\ projects = {}
  /\ packages = [p \in Projects |-> NoPackages]
  /\ repos = [p \in Projects |-> NoRepos]
  /\ poisoned = FALSE
  /\ reply = [op |-> "start", code |-> "ok"]

Exists(p, k) == packages[p][k] # NoPackage

-----------------------------------------------------------------------------
(* How an operation ends.                                                  *)

Done(op) == reply' = [op |-> op, code |-> "ok"] /\ poisoned' = poisoned

Refuse(op, code) == reply' = [op |-> op, code |-> code] /\ UNCHANGED store

\* A panic under the write guard.
Panic(op) == reply' = [op |-> op, code |-> "panic"] /\ poisoned' = TRUE

PanicUnchanged(op) == Panic(op) /\ UNCHANGED <<projects, packages, repos>>

\* The bounds on what TLC explores; the code has none.
WithinBounds(pkg) ==
  /\ Len(pkg.revisions) <= MaxRevs
  /\ Len(pkg.metaRevisions) <= MaxMetaRevs
  /\ Cardinality(pkg.files) <= MaxFiles

PutPackage(p, k, pkg) ==
  /\ WithinBounds(pkg)
  /\ packages' = [packages EXCEPT ![p] = [@ EXCEPT ![k] = pkg]]

SetPackage(p, k, pkg) == PutPackage(p, k, pkg) /\ UNCHANGED <<projects, repos>>

SetRepo(p, r, packs) ==
  /\ repos' = [repos EXCEPT ![p] = [@ EXCEPT ![r] = packs]]
  /\ UNCHANGED <<projects, packages>>

\* The lookups most package handlers begin with.
LookupError(p, k) ==
  IF p \notin projects THEN "unknown project"
  ELSE IF ~Exists(p, k) THEN "unknown package"
  ELSE "none"

-----------------------------------------------------------------------------
(* HTTP handlers.                                                          *)

\* Mutant of DeleteProject: the packages outlive their project.
DeleteProjectKeepsPackages(p) ==
  /\ ~poisoned
  /\ p \in projects
  /\ projects' = projects \ {p}
  /\ UNCHANGED <<packages, repos>>
  /\ Done("delete project")

DeleteProject(p) ==
  /\ ~poisoned
  /\ \/ /\ p \notin projects
        /\ Refuse("delete project", "unknown project")
     \/ /\ p \in projects
        /\ projects' = projects \ {p}
        /\ packages' = [packages EXCEPT ![p] = NoPackages]
        /\ repos' = [repos EXCEPT ![p] = NoRepos]
        /\ Done("delete project")

\* Mutant of PutMeta: a package that exists is made anew.
PutMetaOverwrites(p, k) ==
  /\ ~poisoned
  /\ p \in projects
  /\ SetPackage(p, k, NewWithMetadata(p, k, NoneDisabled))
  /\ Done("put meta")

\* PUT of _meta makes the package if it is not there, and else does nothing.
PutMeta(p, k) ==
  /\ ~poisoned
  /\ \/ /\ p \notin projects
        /\ Refuse("put meta", "unknown project")
     \/ /\ p \in projects
        /\ Exists(p, k)
        /\ Done("put meta")
        /\ UNCHANGED <<projects, packages, repos>>
     \/ /\ p \in projects
        /\ ~Exists(p, k)
        /\ SetPackage(p, k, NewWithMetadata(p, k, NoneDisabled))
        /\ Done("put meta")

\* Mutant of Upload: the file is stored before rev is looked at.
UploadStoresFirst(p, k, file, revIsRepository) ==
  /\ ~poisoned
  /\ file.path # META_PATH
  /\ LookupError(p, k) = "none"
  /\ SetPackage(p, k, PutFile(packages[p][k], file))
  /\ reply' = [op |-> "upload", code |-> IF revIsRepository THEN "ok" ELSE "unsupported"]
  /\ UNCHANGED poisoned

\* PUT of another file, which the mock takes only with rev=repository.
Upload(p, k, file, revIsRepository) ==
  /\ ~poisoned
  /\ file.path # META_PATH
  /\ \/ /\ LookupError(p, k) # "none"
        /\ Refuse("upload", LookupError(p, k))
     \/ /\ LookupError(p, k) = "none"
        /\ ~revIsRepository
        /\ Refuse("upload", "unsupported")
     \/ /\ LookupError(p, k) = "none"
        /\ revIsRepository
        /\ SetPackage(p, k, PutFile(packages[p][k], file))
        /\ Done("upload")

\* A new revision, and the listing the commit handler answers with (its
\* setter, add_package_revision, answers nothing).  The assertion in
\* add_revision is the first thing that can panic, the listing the second.
PushRevision(op, p, k, version, srcmd5, entries) ==
  LET pkg == AddRevision(packages[p][k], version, srcmd5, entries)
      listed == ListReply(pkg, FALSE, FALSE, 0)
  IN  /\ SetPackage(p, k, pkg)
      /\ IF EntriesStored(packages[p][k], entries) /\ (op = "commit" => listed = "ok")
         THEN Done(op)
         ELSE Panic(op)

\* POST cmd=commitfilelist.  An empty list does not parse.
Commit(p, k, list, srcmd5) ==
  /\ ~poisoned
  /\ \/ /\ LookupError(p, k) # "none"
        /\ Refuse("commit", LookupError(p, k))
     \/ /\ LookupError(p, k) = "none"
        /\ list = << >>
        /\ Refuse("commit", "bad request")
     \/ /\ LookupError(p, k) = "none"
        /\ list # << >>
        /\ Missing(packages[p][k], list) # {}
        /\ Refuse("commit", "missing")
     \/ /\ LookupError(p, k) = "none"
        /\ list # << >>
        /\ Missing(packages[p][k], list) = {}
        /\ PushRevision("commit", p, k, NoVersion, srcmd5, CommitEntries(list))

\* The checks of do_branch that come before it makes the target project.
BranchError(p, k, missingok) ==
  IF p \notin projects /\ ~missingok THEN "unknown project"
  ELSE IF Exists(p, k) /\ missingok THEN "not missing"
  ELSE IF ~Exists(p, k) /\ ~missingok THEN "unknown package"
  ELSE "none"

\* The target project, made with a copy of the origin's repositories.
MakeTarget(p, tp) ==
  /\ projects' = projects \cup {tp}
  /\ repos' = IF tp \in projects THEN repos ELSE [repos EXCEPT ![tp] = repos[p]]

\* POST cmd=branch.
Branch(p, k, tp, tk, force, missingok, modesParse, srcmd5) ==
  LET op == IF force THEN "forced branch" ELSE "branch"
      branched == NewBranched(p, k, BranchBase(packages[p][k], Exists(p, k)),
                              tp, tk, missingok, srcmd5)
  IN  /\ ~poisoned
      /\ \/ /\ ~modesParse
            /\ Refuse(op, "invalid argument")
         \/ /\ modesParse
            /\ BranchError(p, k, missingok) # "none"
            /\ Refuse(op, BranchError(p, k, missingok))
         \/ /\ modesParse
            /\ BranchError(p, k, missingok) = "none"
            /\ ~force /\ Exists(tp, tk)
            /\ MakeTarget(p, tp)
            /\ reply' = [op |-> op, code |-> "double branch package"]
            /\ UNCHANGED <<packages, poisoned>>
         \/ /\ modesParse
            /\ BranchError(p, k, missingok) = "none"
            /\ force \/ ~Exists(tp, tk)
            /\ MakeTarget(p, tp)
            /\ PutPackage(tp, tk, branched)
            /\ Done(op)

\* POST without a cmd, or with one the mock does not have.
OtherCommand(code) ==
  /\ ~poisoned
  /\ code \in {"missing parameter", "illegal request"}
  /\ Refuse("command", code)

\* Mutant of DeletePackage: the repositories keep their records.
DeletePackageKeepsRecords(p, k) ==
  /\ ~poisoned
  /\ LookupError(p, k) = "none"
  /\ packages' = [packages EXCEPT ![p] = [@ EXCEPT ![k] = NoPackage]]
  /\ UNCHANGED <<projects, repos>>
  /\ Done("delete package")

DeletePackage(p, k) ==
  /\ ~poisoned
  /\ \/ /\ LookupError(p, k) # "none"
        /\ Refuse("delete package", LookupError(p, k))
     \/ /\ LookupError(p, k) = "none"
        /\ packages' = [packages EXCEPT ![p] = [@ EXCEPT ![k] = NoPackage]]
        /\ repos' = [repos EXCEPT ![p] =
                       [r \in RepoArchs |->
                          IF @[r] = NoRepo THEN NoRepo ELSE @[r] \ {k}]]
        /\ UNCHANGED projects
        /\ Done("delete package")

-----------------------------------------------------------------------------
(* Setters of ObsMock.  A project, package or repository that is not there *)
(* is a panic.                                                             *)

AddProject(p) ==
  /\ ~poisoned
  /\ projects' = projects \cup {p}
  /\ Done("add project")
  /\ UNCHANGED <<packages, repos>>

\* Replaces a package of that name.
AddNewPackage(p, k, disabled) ==
  /\ ~poisoned
  /\ \/ /\ p \notin projects
        /\ PanicUnchanged("add new package")
     \/ /\ p \in projects
        /\ SetPackage(p, k, NewWithMetadata(p, k, disabled))
        /\ Done("add new package")

SetPackageMetadata(p, k, disabled) ==
  /\ ~poisoned
  /\ \/ /\ LookupError(p, k) # "none"
        /\ PanicUnchanged("set package metadata")
     \/ /\ LookupError(p, k) = "none"
        /\ SetPackage(p, k, PutMetadata(packages[p][k], MetaFile(p, k, disabled)))
        /\ Done("set package metadata")

AddPackageFiles(p, k, file) ==
  /\ ~poisoned
  /\ \/ /\ LookupError(p, k) # "none"
        /\ PanicUnchanged("add package files")
     \/ /\ LookupError(p, k) = "none"
        /\ SetPackage(p, k, PutFile(packages[p][k], file))
        /\ Done("add package files")

AddPackageRevision(p, k, version, srcmd5, entries) ==
  /\ ~poisoned
  /\ \/ /\ LookupError(p, k) # "none"
        /\ PanicUnchanged("add package revision")
     \/ /\ LookupError(p, k) = "none"
        /\ PushRevision("add package revision", p, k, version, srcmd5, entries)

\* Unlike the handler it makes no project, and overwrites without being asked.
MockBranch(p, k, tp, tk, missingok, srcmd5) ==
  /\ ~poisoned
  /\ \/ /\ LookupError(p, k) # "none" \/ tp \notin projects
        /\ PanicUnchanged("mock branch")
     \/ /\ LookupError(p, k) = "none" /\ tp \in projects
        /\ SetPackage(tp, tk, NewBranched(p, k, BranchBase(packages[p][k], TRUE),
                                          tp, tk, missingok, srcmd5))
        /\ Done("mock branch")

AddOrUpdateRepository(p, r) ==
  /\ ~poisoned
  /\ \/ /\ p \notin projects
        /\ PanicUnchanged("add repository")
     \/ /\ p \in projects
        /\ SetRepo(p, r, IF repos[p][r] = NoRepo THEN {} ELSE repos[p][r])
        /\ Done("add repository")

\* with_repo_package: what setting a status, binaries, a log or a history
\* entry of a package in a repository begins with.
WithRepoPackage(p, r, k) ==
  /\ ~poisoned
  /\ \/ /\ LookupError(p, k) # "none" \/ repos[p][r] = NoRepo
        /\ PanicUnchanged("set repo package")
     \/ /\ LookupError(p, k) = "none" /\ repos[p][r] # NoRepo
        /\ SetRepo(p, r, repos[p][r] \cup {k})
        /\ Done("set repo package")

\* A request without credentials that fit: refused before the lock is taken.
Unauthenticated == Refuse("any", "authentication required")

\* Any access to the project map once the lock is poisoned.
PoisonedAccess ==
  /\ poisoned
  /\ PanicUnchanged("any")

-----------------------------------------------------------------------------

\* What a commit may list and a revision may hold: files the package has, and
\* files users have (a client knows the MD5s of the files in a listing).
Candidates(p, k) == UserFiles \cup (IF Exists(p, k) THEN packages[p][k].files ELSE {})

FileLists(p, k) == SeqOf(Candidates(p, k), MaxListLen)

Directories(p, k) ==
  {E \in SUBSET Candidates(p, k) :
     /\ Cardinality(E) <= MaxListLen
     /\ \A e, f \in E : e.path = f.path => e = f}

HttpRequest ==
  \/ \E p \in Projects : DeleteProject(p)
  \/ \E p \in Projects, k \in PackageNames :
       \/ PutMeta(p, k)
       \/ DeletePackage(p, k)
       \/ \E file \in UserFiles, b \in BOOLEAN : Upload(p, k, file, b)
       \/ \E list \in FileLists(p, k), s \in Srcmd5s : Commit(p, k, list, s)
       \/ \E tp \in Projects, tk \in PackageNames, s \in Srcmd5s :
            \E force, missingok, modesParse \in BOOLEAN :
              Branch(p, k, tp, tk, force, missingok, modesParse, s)
  \/ \E code \in Codes : OtherCommand(code)
  \/ Unauthenticated

SetterCall ==
  \/ \E p \in Projects : AddProject(p)
  \/ \E p \in Projects, r \in RepoArchs :
       \/ AddOrUpdateRepository(p, r)
       \/ \E k \in PackageNames : WithRepoPackage(p, r, k)
  \/ \E p \in Projects, k \in PackageNames :
       \/ \E d \in DisabledLists : AddNewPackage(p, k, d) \/ SetPackageMetadata(p, k, d)
       \/ \E file \in UserFiles : AddPackageFiles(p, k, file)
       \/ \E v \in AllVersions, s \in Srcmd5s, E \in Directories(p, k) :
            AddPackageRevision(p, k, v, s, E)
       \/ \E tp \in Projects, tk \in PackageNames, m \in BOOLEAN, s \in Srcmd5s :
            MockBranch(p, k, tp, tk, m, s)

Next == HttpRequest \/ SetterCall \/ PoisonedAccess

Spec == Init /\ [][Next]_vars

-----------------------------------------------------------------------------
(* Safety.                                                                 *)

EveryPackage(P(_)) ==
  \A p \in Projects, k \in PackageNames : Exists(p, k) => P(packages[p][k])

\* Whatever mix of commits, uploads, branches, overwrites and metadata updates
\* made it, no package holds a revision with an entry it has no file for.
\* source_listing_xml and the file handler unwrap on this.
StoredFilesResolve == EveryPackage(FilesResolve)

\* vrevs count the revisions of each version without a gap, in every package;
\* add_revision counts before it checks the entries, so the counters may be
\* ahead, but only once the lock is poisoned and nobody can use them.
VrevsNumberRevisions ==
  /\ EveryPackage(VrevsAreRanks)
  /\ ~poisoned => EveryPackage(CountersMatch)

\* A package shows linkinfo from its branch on exactly until a revision drops
\* _link: not lost before, not back after, and always that of the branch.  A
\* _link that only users wrote gives none.  (InheritedLinkInfo looks at the last
\* revision alone; this is what follows for the history.)
LinkInfoTracksLink == EveryPackage(LinkInfoOfFirst)

ReadsNeverPanicIn(pkg) ==
  /\ \A rev \in 0..MaxRevs + 1, given \in BOOLEAN : ListReply(pkg, FALSE, given, rev) # "panic"
  /\ ListReply(pkg, TRUE, FALSE, 0) # "panic"
  /\ \A file \in pkg.files : FileReply(pkg, file.path) # "panic"
  /\ FileReply(pkg, META_PATH) # "panic"

\* No GET of a package unwraps None or indexes out of bounds: the listing of
\* sources at any revision, that of the last metadata, and any file.  (The
\* listing of metadata at a given revision is the exception stated by
\* MetaRevisionsAreListed.)
ReadsNeverPanic == EveryPackage(ReadsNeverPanicIn)

MetaRevisionsAreListedIn(pkg) ==
  \A rev \in 1..MaxMetaRevs + 1 :
    ListReply(pkg, TRUE, TRUE, rev) =
      IF rev <= Len(pkg.metaRevisions) THEN "ok" ELSE "no such revision"

\* A revision of the metadata that exists can be listed, and one that does not
\* is refused with "no such revision": the number the listing reports can be
\* asked for again.
MetaRevisionsAreListed == EveryPackage(MetaRevisionsAreListedIn)

\* A request that does not succeed leaves no trace, and none panics: in
\* particular a commit never reaches the assertion of add_revision, and a
\* branch that is refused has not made its target project.
FailedRequestChangesNothing ==
  [][reply'.op \in HttpOps /\ reply'.code # "ok" => UNCHANGED store]_vars

\* A package that stays keeps its history and files, unless a forced branch, or
\* a setter that overwrites, replaced it.  (A step of these three says nothing
\* of the packages it does not replace.)
OnlyReplacingLosesHistory ==
  [][reply'.op \notin {"forced branch", "mock branch", "add new package"} =>
       \A p \in Projects, k \in PackageNames :
         LET old == packages[p][k]
             new == packages'[p][k]
         IN  Exists(p, k) /\ Exists(p, k)' =>
               /\ old.files \subseteq new.files
               /\ IsPrefix(old.revisions, new.revisions)
               /\ IsPrefix(old.metaRevisions, new.metaRevisions)]_vars

\* Records in a repository of packages without sources.
Orphans ==
  {t \in Projects \X RepoArchs \X PackageNames :
     /\ repos[t[1]][t[2]] # NoRepo
     /\ t[3] \in repos[t[1]][t[2]]
     /\ ~Exists(t[1], t[3])}

\* The setters assert that a package recorded in a repository exists as a
\* source package, and deleting the package deletes its records.
RepoPackagesHaveSources == Orphans = {}

\* Only a branch that makes its target project leaves such records behind;
\* deleting a package or a project in particular does not.
OnlyBranchingOrphansRecords ==
  [][reply'.op \notin {"branch", "forced branch"} \/ projects' = projects =>
       Orphans' \subseteq Orphans]_vars
=============================================================================

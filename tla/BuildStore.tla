----------------------------- MODULE BuildStore -----------------------------
(***************************************************************************)
(* The state of the mock OBS server that concerns builds: of each project  *)
(* its packages, its repositories with a record for each package that was  *)
(* built in one, and the status that a rebuild gives.  The operations are  *)
(* the rebuild command of api/build.rs, the setters of ObsMock with which  *)
(* a test plays the build farm, and the operations on sources that make,   *)
(* copy or delete builds.  What SourceStore says of sources (files and     *)
(* revisions) is left out here, what this module says of records is left   *)
(* out there.                                                              *)
(*                                                                         *)
(* The server stores statuses, logs and history entries, but never looks   *)
(* into one, so they are opaque values.  Each operation runs under one     *)
(* guard of the RwLock and is one step; a panic under the write guard      *)
(* poisons the lock.                                                       *)
(***************************************************************************)
EXTENDS Naturals, Sequences, FiniteSets, SequencesExt

CONSTANTS
  Projects,          \* project names
  PackageNames,      \* package names
  RepoArchs,         \* pairs <<repository, architecture>>
  NoProject, NoPackage, NoRepo, NoRecord,   \* absent entries of the maps
  Every,               \* the None of a disabled build's repository or arch
  DisabledLists,     \* sets of [repository, arch], {} among them
  Statuses,          \* what MockBuildStatus can hold (code, details, dirty)
  DefaultStatus,     \* code unknown, no details, not dirty
  Modes,             \* rebuild and block modes of a project
  DefaultModes,
  RepoCodes,         \* MockRepositoryCode
  Logs, NoLog,       \* build logs, and none
  BinaryNames,       \* file names of binaries
  HistoryEntries,    \* build history entries
  MaxStored          \* bound: records, and what all records and job histories hold

ASSUME BuildAssumption ==
  /\ {} \in DisabledLists
  /\ DefaultStatus \in Statuses
  /\ DefaultModes \in Modes
  /\ NoLog \notin Logs
  /\ MaxStored \in Nat

VARIABLES
  projects,          \* projects[p]: a MockProject, or NoProject
  poisoned,          \* the RwLock is poisoned
  reply              \* the last operation and how it ended

store == <<projects, poisoned>>
vars == <<projects, poisoned, reply>>

\* disabled is what a rebuild looks at, meta what the latest _meta says.
Package == [disabled : DisabledLists, meta : DisabledLists]

\* log is the latest log, goodLog that of the latest success, which is a log too.
Record ==
  {record \in [status : Statuses, binaries : SUBSET BinaryNames,
               log : Logs \cup {NoLog}, goodLog : Logs \cup {NoLog},
               history : Seq(HistoryEntries)] :
     record.goodLog # NoLog => record.log # NoLog}

Repo ==
  [code : RepoCodes, jobhist : Seq(PackageNames),
   records : [PackageNames -> Record \cup {NoRecord}]]

Project ==
  [packages : [PackageNames -> Package \cup {NoPackage}],
   repos : [RepoArchs -> Repo \cup {NoRepo}],
   modes : Modes, rebuildStatus : Statuses]

ASSUME AbsenceAssumption ==
  /\ NoRecord \notin Record /\ NoRepo \notin Repo
  /\ NoPackage \notin Package /\ NoProject \notin Project

HttpOps == {"rebuild", "branch", "delete_package", "delete_project"}
SetterOps == {"add_project", "set_modes", "add_new_package", "set_metadata",
              "add_repository", "add_job", "set_rebuild_status", "set_status",
              "set_binaries", "add_log", "add_history"}
Codes == {"ok", "panic", "unknown_project", "unknown_package", "missing_parameter",
          "unsupported", "unknown_parameter", "not_found", "illegal_request",
          "not_missing", "double_branch_package"}

NewPackage(disabled) == [disabled |-> disabled, meta |-> disabled]

DefaultRecord ==
  [status |-> DefaultStatus, binaries |-> {}, log |-> NoLog, goodLog |-> NoLog,
   history |-> << >>]

NewRepo(code) ==
  [code |-> code, jobhist |-> << >>, records |-> [k \in PackageNames |-> NoRecord]]

NewProject(repos, modes) ==
  [packages |-> [k \in PackageNames |-> NoPackage], repos |-> repos,
   modes |-> modes, rebuildStatus |-> DefaultStatus]

NoRepos == [r \in RepoArchs |-> NoRepo]

Init ==
  /\ projects = [p \in Projects |-> NoProject]
  /\ poisoned = FALSE
  /\ reply = [op |-> "add_project", code |-> "ok"]

-----------------------------------------------------------------------------
(* What the maps hold.                                                     *)

HasProject(p) == projects[p] # NoProject
HasPackage(p, k) == HasProject(p) /\ projects[p].packages[k] # NoPackage
HasRepo(p, r) == HasProject(p) /\ projects[p].repos[r] # NoRepo
HasRecord(p, r, k) == HasRepo(p, r) /\ projects[p].repos[r].records[k] # NoRecord

RecordOf(p, r, k) == projects[p].repos[r].records[k]

Recorded == {t \in Projects \X RepoArchs \X PackageNames : HasRecord(t[1], t[2], t[3])}

TypeOK ==
  /\ projects \in [Projects -> Project \cup {NoProject}]
  /\ poisoned \in BOOLEAN
  /\ reply \in [op : HttpOps \cup SetterOps \cup {"any"}, code : Codes]

-----------------------------------------------------------------------------
(* How an operation ends.                                                  *)

Done(op) == reply' = [op |-> op, code |-> "ok"] /\ UNCHANGED poisoned

Refuse(op, code) == reply' = [op |-> op, code |-> code] /\ UNCHANGED store

\* A panic under the write guard, before anything is changed.
Panic(op) ==
  /\ reply' = [op |-> op, code |-> "panic"]
  /\ poisoned' = TRUE
  /\ UNCHANGED projects

\* How much is stored: the bound on it keeps what TLC explores finite, the code
\* has none.
RecordSize(t) ==
  LET record == RecordOf(t[1], t[2], t[3])
  IN  1 + Cardinality(record.binaries) + Cardinality({record.log, record.goodLog} \ {NoLog})
        + Len(record.history)

JobHistorySize(u) == IF HasRepo(u[1], u[2]) THEN Len(projects[u[1]].repos[u[2]].jobhist) ELSE 0

Stored == MapThenSumSet(RecordSize, Recorded)
            + MapThenSumSet(JobHistorySize, Projects \X RepoArchs)

\* project replaces p.
Put(p, project) ==
  /\ projects' = [projects EXCEPT ![p] = project]
  /\ Stored' <= MaxStored

PutRepo(p, r, repo) ==
  Put(p, [projects[p] EXCEPT !.repos = [@ EXCEPT ![r] = repo]])

PutRecord(p, r, k, record) ==
  PutRepo(p, r, [projects[p].repos[r] EXCEPT !.records = [@ EXCEPT ![k] = record]])

PutPackage(p, k, package) ==
  Put(p, [projects[p] EXCEPT !.packages = [@ EXCEPT ![k] = package]])

\* repos with the records of the packages ks changed.
MapRecords(repos, ks, Change(_)) ==
  [r \in RepoArchs |->
     IF repos[r] = NoRepo THEN NoRepo
     ELSE [repos[r] EXCEPT !.records =
             [k \in PackageNames |-> IF k \in ks THEN Change(@[k]) ELSE @[k]]]]

OrDefault(record) == IF record = NoRecord THEN DefaultRecord ELSE record

-----------------------------------------------------------------------------
(* HTTP handlers.                                                          *)

\* A rebuild of no named package is one of all the project has.
RebuildNames(p, names) ==
  IF names = {} THEN {k \in PackageNames : HasPackage(p, k)} ELSE names

\* The checks, in their order; other is what a parameter that is not cmd or
\* package is answered with.
RebuildError(p, cmd, other, names) ==
  IF ~HasProject(p) THEN "unknown_project"
  ELSE IF cmd = "none" THEN "missing_parameter"
  ELSE IF cmd # "rebuild" THEN "illegal_request"
  ELSE IF other # "none" THEN other
  ELSE IF \E k \in RebuildNames(p, names) : ~HasPackage(p, k) THEN "not_found"
  ELSE "none"

\* The project after a rebuild of ks.  The loop over the disabled builds of a
\* package continues itself and not the loop around it: it skips nothing.
Rebuilt(project, ks) ==
  LET Restart(record) == [OrDefault(record) EXCEPT !.status = project.rebuildStatus]
  IN  [project EXCEPT !.repos = MapRecords(@, ks, Restart)]

\* POST to /build/<project>.
Rebuild(p, cmd, other, names) ==
  /\ ~poisoned
  /\ \/ /\ RebuildError(p, cmd, other, names) # "none"
        /\ Refuse("rebuild", RebuildError(p, cmd, other, names))
     \/ /\ RebuildError(p, cmd, other, names) = "none"
        /\ Put(p, Rebuilt(projects[p], RebuildNames(p, names)))
        /\ Done("rebuild")

\* The checks of do_branch before it makes the target project; parsing the
\* modes is in SourceStore.
BranchError(p, k, missingok) ==
  IF ~HasProject(p) /\ ~missingok THEN "unknown_project"
  ELSE IF HasPackage(p, k) /\ missingok THEN "not_missing"
  ELSE IF ~HasPackage(p, k) /\ ~missingok THEN "unknown_package"
  ELSE "none"

\* The target project: a new one gets a copy of all that is in the origin's
\* repositories, and the modes of the request; one that is there is not
\* touched.
BranchTarget(p, tp, modes) ==
  IF HasProject(tp) THEN projects[tp]
  ELSE NewProject(IF HasProject(p) THEN projects[p].repos ELSE NoRepos, modes)

\* A branch hands on the list of disabled builds if the origin has a revision,
\* which this module does not know.
BranchDisabled(p, k) ==
  {{}} \cup (IF HasPackage(p, k) THEN {projects[p].packages[k].disabled} ELSE {})

Branch(p, k, tp, tk, force, missingok, modes) ==
  LET target == BranchTarget(p, tp, modes)
  IN  /\ ~poisoned
      /\ \/ /\ BranchError(p, k, missingok) # "none"
            /\ Refuse("branch", BranchError(p, k, missingok))
         \/ /\ BranchError(p, k, missingok) = "none"
            /\ ~force /\ HasPackage(tp, tk)
            /\ Put(tp, target)
            /\ reply' = [op |-> "branch", code |-> "double_branch_package"]
            /\ UNCHANGED poisoned
         \/ /\ BranchError(p, k, missingok) = "none"
            /\ force \/ ~HasPackage(tp, tk)
            /\ \E d \in BranchDisabled(p, k) :
                 Put(tp, [target EXCEPT !.packages = [@ EXCEPT ![tk] = NewPackage(d)]])
            /\ Done("branch")

\* Mutant of DeletePackage: the repositories keep their records.
DeletePackageKeepsRecords(p, k) ==
  /\ ~poisoned
  /\ HasPackage(p, k)
  /\ PutPackage(p, k, NoPackage)
  /\ Done("delete_package")

DeletePackage(p, k) ==
  LET Gone(record) == NoRecord
  IN  /\ ~poisoned
      /\ \/ /\ ~HasProject(p)
            /\ Refuse("delete_package", "unknown_project")
         \/ /\ HasProject(p) /\ ~HasPackage(p, k)
            /\ Refuse("delete_package", "unknown_package")
         \/ /\ HasPackage(p, k)
            /\ Put(p, [projects[p] EXCEPT !.packages = [@ EXCEPT ![k] = NoPackage],
                                          !.repos = MapRecords(@, {k}, Gone)])
            /\ Done("delete_package")

DeleteProject(p) ==
  /\ ~poisoned
  /\ \/ /\ ~HasProject(p)
        /\ Refuse("delete_project", "unknown_project")
     \/ /\ HasProject(p)
        /\ Put(p, NoProject)
        /\ Done("delete_project")

-----------------------------------------------------------------------------
(* Setters of ObsMock.  A project, package or repository that is not there *)
(* is a panic.                                                             *)

\* A setter of the project: it exists, or the setter panics.
OnProject(op, p, project) ==
  /\ ~poisoned
  /\ \/ ~HasProject(p) /\ Panic(op)
     \/ HasProject(p) /\ Put(p, project) /\ Done(op)

AddProject(p) ==
  /\ ~poisoned
  /\ Put(p, IF HasProject(p) THEN projects[p] ELSE NewProject(NoRepos, DefaultModes))
  /\ Done("add_project")

SetProjectModes(p, modes) ==
  OnProject("set_modes", p, [projects[p] EXCEPT !.modes = modes])

\* Replaces a package of that name.  Its records stay.
AddNewPackage(p, k, disabled) ==
  OnProject("add_new_package", p,
            [projects[p] EXCEPT !.packages = [@ EXCEPT ![k] = NewPackage(disabled)]])

\* Writes _meta, but not the list that a rebuild looks at.
SetPackageMetadata(p, k, disabled) ==
  /\ ~poisoned
  /\ \/ /\ ~HasPackage(p, k)
        /\ Panic("set_metadata")
     \/ /\ HasPackage(p, k)
        /\ PutPackage(p, k, [projects[p].packages[k] EXCEPT !.meta = disabled])
        /\ Done("set_metadata")

\* Mutant of AddOrUpdateRepository: an update makes the repository anew.
AddOrReplaceRepository(p, r, code) ==
  OnProject("add_repository", p,
            [projects[p] EXCEPT !.repos = [@ EXCEPT ![r] = NewRepo(code)]])

AddOrUpdateRepository(p, r, code) ==
  LET was == projects[p].repos[r]
      repo == IF was = NoRepo THEN NewRepo(code) ELSE [was EXCEPT !.code = code]
  IN  OnProject("add_repository", p, [projects[p] EXCEPT !.repos = [@ EXCEPT ![r] = repo]])

SetPackageBuildStatusForRebuilds(p, status) ==
  OnProject("set_rebuild_status", p, [projects[p] EXCEPT !.rebuildStatus = status])

AddJobHistory(p, r, k) ==
  /\ ~poisoned
  /\ \/ /\ ~HasPackage(p, k) \/ ~HasRepo(p, r)
        /\ Panic("add_job")
     \/ /\ HasPackage(p, k) /\ HasRepo(p, r)
        /\ PutRepo(p, r, [projects[p].repos[r] EXCEPT !.jobhist = Append(@, k)])
        /\ Done("add_job")

\* with_repo_package: the record is made if it is not there, then changed.
WithRepoPackage(op, p, r, k, Change(_)) ==
  /\ ~poisoned
  /\ \/ /\ ~HasPackage(p, k) \/ ~HasRepo(p, r)
        /\ Panic(op)
     \/ /\ HasPackage(p, k) /\ HasRepo(p, r)
        /\ PutRecord(p, r, k, Change(OrDefault(RecordOf(p, r, k))))
        /\ Done(op)

SetPackageBuildStatus(p, r, k, status) ==
  LET Set(record) == [record EXCEPT !.status = status]
  IN  WithRepoPackage("set_status", p, r, k, Set)

SetPackageBinaries(p, r, k, binaries) ==
  LET Set(record) == [record EXCEPT !.binaries = binaries]
  IN  WithRepoPackage("set_binaries", p, r, k, Set)

\* Mutant of AddCompletedBuildLog: a success replaces only the successful log.
AddBuildLogOnce(p, r, k, log, success) ==
  LET Add(record) == IF success THEN [record EXCEPT !.goodLog = log]
                     ELSE [record EXCEPT !.log = log]
  IN  WithRepoPackage("add_log", p, r, k, Add)

AddCompletedBuildLog(p, r, k, log, success) ==
  LET Add(record) == [record EXCEPT !.log = log, !.goodLog = IF success THEN log ELSE @]
  IN  WithRepoPackage("add_log", p, r, k, Add)

AddBuildHistory(p, r, k, entry) ==
  LET Add(record) == [record EXCEPT !.history = Append(@, entry)]
  IN  WithRepoPackage("add_history", p, r, k, Add)

\* Every access to the project map once the lock is poisoned.
PoisonedAccess == poisoned /\ Panic("any")

-----------------------------------------------------------------------------
(* The answers of the handlers that read, all of which begin with the same *)
(* lookups and differ in what they make of a missing record.               *)

ProjectPackages(p) == {k \in PackageNames : HasPackage(p, k)}

\* The repositories and architectures of the listings and the project's _meta.
ProjectRepos(p) == {r \in RepoArchs : HasRepo(p, r)}

ReadError(p, r, k) ==
  IF ~HasProject(p) THEN "unknown_project"
  ELSE IF ~HasPackage(p, k) THEN "unknown_package"
  ELSE IF \A q \in ProjectRepos(p) : q[1] # r[1] THEN "unknown_repo"
  ELSE IF ~HasRepo(p, r) THEN "unknown_arch"
  ELSE "ok"

\* The statuses in the results of a pair: those of all records, or of the
\* records of the packages asked for.
Results(p, r, asked) ==
  [k \in {k \in PackageNames : HasRecord(p, r, k) /\ (asked = {} \/ k \in asked)} |->
     RecordOf(p, r, k).status]

ResultsError(p, asked) ==
  IF ~HasProject(p) THEN "unknown_project"
  ELSE IF ~(asked \subseteq ProjectPackages(p)) THEN "unknown_package"
  ELSE "ok"

\* Mutant of PackageStatus: a package without a record is an error.
PackageStatusOfRecord(p, r, k) ==
  IF ReadError(p, r, k) # "ok" THEN [code |-> ReadError(p, r, k)]
  ELSE IF ~HasRecord(p, r, k) THEN [code |-> "not_found"]
  ELSE [code |-> "ok", status |-> RecordOf(p, r, k).status]

PackageStatus(p, r, k) ==
  IF ReadError(p, r, k) # "ok" THEN [code |-> ReadError(p, r, k)]
  ELSE [code |-> "ok",
        status |-> IF HasRecord(p, r, k) THEN RecordOf(p, r, k).status ELSE DefaultStatus]

BinaryList(p, r, k) ==
  IF HasRecord(p, r, k) THEN RecordOf(p, r, k).binaries ELSE {}

BinaryFile(p, r, k, file) ==
  IF ReadError(p, r, k) # "ok" THEN ReadError(p, r, k)
  ELSE IF file \notin BinaryList(p, r, k) THEN "no_such_file"
  ELSE "ok"

BuildHistory(p, r, k) ==
  IF HasRecord(p, r, k) THEN RecordOf(p, r, k).history ELSE << >>

BuildLog(p, r, k) ==
  IF ReadError(p, r, k) # "ok" THEN ReadError(p, r, k)
  ELSE IF ~HasRecord(p, r, k) THEN "no_logfile"
  ELSE "ok"

-----------------------------------------------------------------------------

Request ==
  \/ \E p \in Projects, names \in SUBSET PackageNames :
       \/ \E cmd \in {"none", "rebuild", "wipe"} : Rebuild(p, cmd, "none", names)
       \/ \E other \in {"unsupported", "unknown_parameter"} : Rebuild(p, "rebuild", other, names)
  \/ \E p, tp \in Projects, k, tk \in PackageNames :
       \E force, missingok \in BOOLEAN, modes \in Modes :
         Branch(p, k, tp, tk, force, missingok, modes)
  \/ \E p \in Projects, k \in PackageNames : DeletePackage(p, k)
  \/ \E p \in Projects : DeleteProject(p)

SetterCall ==
  \/ \E p \in Projects : AddProject(p)
  \/ \E p \in Projects, modes \in Modes : SetProjectModes(p, modes)
  \/ \E p \in Projects, k \in PackageNames, d \in DisabledLists :
       AddNewPackage(p, k, d) \/ SetPackageMetadata(p, k, d)
  \/ \E p \in Projects, r \in RepoArchs, code \in RepoCodes : AddOrUpdateRepository(p, r, code)
  \/ \E p \in Projects, status \in Statuses : SetPackageBuildStatusForRebuilds(p, status)
  \/ \E p \in Projects, r \in RepoArchs, k \in PackageNames :
       \/ AddJobHistory(p, r, k)
       \/ \E status \in Statuses : SetPackageBuildStatus(p, r, k, status)
       \/ \E binaries \in SUBSET BinaryNames : SetPackageBinaries(p, r, k, binaries)
       \/ \E log \in Logs, success \in BOOLEAN : AddCompletedBuildLog(p, r, k, log, success)
       \/ \E entry \in HistoryEntries : AddBuildHistory(p, r, k, entry)

Next == Request \/ SetterCall \/ PoisonedAccess

Spec == Init /\ [][Next]_vars

-----------------------------------------------------------------------------
(* Safety.                                                                 *)

\* Whatever was made, copied or deleted before, what the listings of a project
\* name can be asked for: a package of any of its repositories and
\* architectures has a status, the one that the results of the whole project
\* and of that package say or else unknown, and every binary listed can be
\* fetched; it has a log to ask for exactly if the results name it, and a history
\* only then.
ReadsAgree ==
  \A p \in Projects : HasProject(p) =>
    \A k \in ProjectPackages(p), r \in ProjectRepos(p) :
      LET status == PackageStatus(p, r, k)
          listed == k \in DOMAIN Results(p, r, {})
      IN  /\ status.code = "ok"
          /\ ResultsError(p, {k}) = "ok"
          /\ listed <=> BuildLog(p, r, k) = "ok"
          /\ BuildHistory(p, r, k) # << >> => listed
          /\ listed <=> k \in DOMAIN Results(p, r, {k})
          /\ status.status = IF listed THEN Results(p, r, {})[k] ELSE DefaultStatus
          /\ listed => Results(p, r, {k})[k] = status.status
          /\ \A file \in BinaryList(p, r, k) : BinaryFile(p, r, k, file) = "ok"

\* The old record of p, r, k is still there, with the logs and history it had.
BuildsSurvive(p, r, k) ==
  LET old == RecordOf(p, r, k)
      new == RecordOf(p, r, k)'
  IN  /\ HasRecord(p, r, k)'
      /\ IsPrefix(old.history, new.history)
      /\ old.log # NoLog => new.log # NoLog
      /\ old.goodLog # NoLog => new.goodLog # NoLog

\* Builds go only with the sources they are of: no rebuild, no update of a
\* repository, no package made anew or branched over an old one, and no
\* deletion of another package loses a record, its logs or its history, or an
\* entry of the job history.
BuildsGoOnlyWithSources ==
  [][/\ \A t \in Recorded :
          HasProject(t[1])' /\ (HasPackage(t[1], t[3]) => HasPackage(t[1], t[3])')
            => BuildsSurvive(t[1], t[2], t[3])
     /\ \A p \in Projects, r \in RepoArchs :
          HasRepo(p, r) /\ HasProject(p)' =>
            /\ HasRepo(p, r)'
            /\ IsPrefix(projects[p].repos[r].jobhist, projects'[p].repos[r].jobhist)]_vars

\* Records of packages without sources.
Orphans == {t \in Recorded : ~HasPackage(t[1], t[3])}

\* Builds go with the sources they are of: only a branch that makes its target
\* project leaves records without them.  A rebuild in particular records no
\* package that is not there, and a package deleted takes its records out of
\* every repository.
OrphansComeFromBranching ==
  [][(reply'.op = "branch" => \A p \in Projects : HasProject(p) <=> HasProject(p)') =>
       Orphans' \subseteq Orphans]_vars

\* The list of disabled builds that a package's _meta shows covers r.
IsDisabled(p, r, k) ==
  \E d \in projects[p].packages[k].meta :
    d.repository \in {Every, r[1]} /\ d.arch \in {Every, r[2]}

\* A rebuild leaves alone the builds that the package's _meta says are
\* disabled.
DisabledBuildsAreLeftAlone ==
  [][reply'.op = "rebuild" =>
       \A p \in Projects, r \in RepoArchs, k \in PackageNames :
         HasPackage(p, k) /\ HasRepo(p, r) /\ IsDisabled(p, r, k) =>
           projects'[p].repos[r].records[k] = RecordOf(p, r, k)]_vars
=============================================================================

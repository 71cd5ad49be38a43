-------------------------- MODULE BuildStoreProofs --------------------------
(***************************************************************************)
(* BuildStore for any projects, packages and repositories: its types and   *)
(* its safety.                                                             *)
(*                                                                         *)
(* Every step replaces at most one project by another, makes one or takes  *)
(* one away.  The two relations below say what the operations leave of a   *)
(* project they replace; each operation is shown to be within both, and    *)
(* the properties follow from that alone.                                  *)
(***************************************************************************)
EXTENDS BuildStore, LibraryLemmas

\* The record new has all that the record old had.
Survives(old, new) ==
  /\ new # NoRecord
  /\ IsPrefix(old.history, new.history)
  /\ old.log # NoLog => new.log # NoLog
  /\ old.goodLog # NoLog => new.goodLog # NoLog

\* The project new has all builds of the project old whose sources it has.
KeepsBuilds(old, new) ==
  \A r \in RepoArchs : old.repos[r] # NoRepo =>
    /\ new.repos[r] # NoRepo
    /\ IsPrefix(old.repos[r].jobhist, new.repos[r].jobhist)
    /\ \A k \in PackageNames :
         /\ old.repos[r].records[k] # NoRecord
         /\ old.packages[k] # NoPackage => new.packages[k] # NoPackage
         => Survives(old.repos[r].records[k], new.repos[r].records[k])

\* The project new has no more builds without sources than old.
AddsNoOrphans(old, new) ==
  \A r \in RepoArchs, k \in PackageNames :
    /\ new.repos[r] # NoRepo /\ new.repos[r].records[k] # NoRecord
    /\ new.packages[k] = NoPackage
    => /\ old.repos[r] # NoRepo /\ old.repos[r].records[k] # NoRecord
       /\ old.packages[k] = NoPackage

Sound(old, new) == KeepsBuilds(old, new) /\ AddsNoOrphans(old, new)

-----------------------------------------------------------------------------
(* What projects consist of.                                               *)

\* A record survives a change of its status or binaries, and logs and history
\* entries that are added.
LEMMA RecordsSurvive ==
  ASSUME NEW record \in Record
  PROVE  /\ record # NoRecord /\ Survives(record, record)
         /\ \A status \in Statuses :
              LET new == [record EXCEPT !.status = status]
              IN  new \in Record /\ Survives(record, new)
         /\ \A binaries \in SUBSET BinaryNames :
              LET new == [record EXCEPT !.binaries = binaries]
              IN  new \in Record /\ Survives(record, new)
         /\ \A log \in Logs, success \in BOOLEAN :
              LET new == [record EXCEPT !.log = log, !.goodLog = IF success THEN log ELSE @]
              IN  new \in Record /\ Survives(record, new)
         /\ \A entry \in HistoryEntries :
              LET new == [record EXCEPT !.history = Append(@, entry)]
              IN  new \in Record /\ Survives(record, new)
<1> DEFINE Fields == [status : Statuses, binaries : SUBSET BinaryNames,
                      log : Logs \cup {NoLog}, goodLog : Logs \cup {NoLog},
                      history : Seq(HistoryEntries)]
<1>1. record \in Fields /\ (record.goodLog # NoLog => record.log # NoLog)
  BY DEF Record
<1>2. record.history \in Seq(HistoryEntries)
  BY <1>1
<1>3. /\ IsPrefix(record.history, record.history)
      /\ \A entry : IsPrefix(record.history, Append(record.history, entry))
  BY <1>2, PrefixOfAppend
<1>4. ASSUME NEW new \in Fields, new.goodLog # NoLog => new.log # NoLog
      PROVE  new \in Record /\ new # NoRecord
  BY <1>4, AbsenceAssumption DEF Record
<1> HIDE DEF Fields
<1>5. record # NoRecord /\ Survives(record, record)
  BY <1>1, <1>3, <1>4 DEF Survives
<1>6. ASSUME NEW status \in Statuses
      PROVE  LET new == [record EXCEPT !.status = status]
             IN  new \in Record /\ Survives(record, new)
  <2> DEFINE new == [record EXCEPT !.status = status]
  <2>1. new \in Fields /\ new.log = record.log /\ new.goodLog = record.goodLog
        /\ new.history = record.history
    BY <1>1 DEF Fields
  <2> HIDE DEF new
  <2>2. new \in Record /\ Survives(record, new)
    BY <1>1, <1>3, <1>4, <2>1 DEF Survives
  <2> QED
    BY <2>2 DEF new
<1>7. ASSUME NEW binaries \in SUBSET BinaryNames
      PROVE  LET new == [record EXCEPT !.binaries = binaries]
             IN  new \in Record /\ Survives(record, new)
  <2> DEFINE new == [record EXCEPT !.binaries = binaries]
  <2>1. new \in Fields /\ new.log = record.log /\ new.goodLog = record.goodLog
        /\ new.history = record.history
    BY <1>1 DEF Fields
  <2> HIDE DEF new
  <2>2. new \in Record /\ Survives(record, new)
    BY <1>1, <1>3, <1>4, <2>1 DEF Survives
  <2> QED
    BY <2>2 DEF new
<1>8. ASSUME NEW log \in Logs, NEW success \in BOOLEAN
      PROVE  LET new == [record EXCEPT !.log = log, !.goodLog = IF success THEN log ELSE @]
             IN  new \in Record /\ Survives(record, new)
  <2> DEFINE new == [record EXCEPT !.log = log, !.goodLog = IF success THEN log ELSE @]
  <2>1. new \in Fields /\ new.log = log /\ new.goodLog \in {log, record.goodLog}
        /\ new.history = record.history
    BY <1>1 DEF Fields
  <2> HIDE DEF new
  <2>2. log # NoLog
    BY BuildAssumption
  <2>3. new \in Record /\ Survives(record, new)
    BY <1>1, <1>3, <1>4, <2>1, <2>2 DEF Survives
  <2> QED
    BY <2>3 DEF new
<1>9. ASSUME NEW entry \in HistoryEntries
      PROVE  LET new == [record EXCEPT !.history = Append(@, entry)]
             IN  new \in Record /\ Survives(record, new)
  <2> DEFINE history == Append(record.history, entry)
             new == [record EXCEPT !.history = history]
  <2>1. history \in Seq(HistoryEntries)
    BY <1>2
  <2>2. IsPrefix(record.history, history)
    BY <1>3
  <2> HIDE DEF history
  <2>3. new \in Fields /\ new.log = record.log /\ new.goodLog = record.goodLog
        /\ new.history = history
    BY <1>1, <2>1 DEF Fields
  <2> HIDE DEF new
  <2>4. new \in Record /\ Survives(record, new)
    BY <1>1, <1>4, <2>2, <2>3 DEF Survives
  <2> QED
    BY <2>4 DEF new, history
<1> QED
  BY <1>5, <1>6, <1>7, <1>8, <1>9

\* What a project has.
LEMMA ProjectParts ==
  ASSUME NEW project \in Project
  PROVE  /\ project # NoProject
         /\ project.packages \in [PackageNames -> Package \cup {NoPackage}]
         /\ project.repos \in [RepoArchs -> Repo \cup {NoRepo}]
         /\ project.modes \in Modes /\ project.rebuildStatus \in Statuses
         /\ \A r \in RepoArchs : project.repos[r] # NoRepo =>
              /\ project.repos[r] \in Repo
              /\ project.repos[r].code \in RepoCodes
              /\ project.repos[r].jobhist \in Seq(PackageNames)
              /\ project.repos[r].records \in [PackageNames -> Record \cup {NoRecord}]
<1>1. /\ project.packages \in [PackageNames -> Package \cup {NoPackage}]
      /\ project.repos \in [RepoArchs -> Repo \cup {NoRepo}]
      /\ project.modes \in Modes /\ project.rebuildStatus \in Statuses
  BY DEF Project
<1>2. \A repo \in Repo :
        /\ repo.code \in RepoCodes /\ repo.jobhist \in Seq(PackageNames)
        /\ repo.records \in [PackageNames -> Record \cup {NoRecord}]
  BY DEF Repo
<1>3. project # NoProject
  BY AbsenceAssumption
<1> QED
  BY <1>1, <1>2, <1>3

\* A change that leaves the repositories alone and takes no package away.
LEMMA PackagesChange ==
  ASSUME NEW old \in Project, NEW new \in Project, new.repos = old.repos,
         \A k \in PackageNames : old.packages[k] # NoPackage => new.packages[k] # NoPackage
  PROVE  Sound(old, new)
<1>1. ASSUME NEW r \in RepoArchs, old.repos[r] # NoRepo
      PROVE  /\ IsPrefix(old.repos[r].jobhist, old.repos[r].jobhist)
             /\ \A k \in PackageNames : old.repos[r].records[k] # NoRecord =>
                  Survives(old.repos[r].records[k], old.repos[r].records[k])
  <2>1. /\ old.repos[r].jobhist \in Seq(PackageNames)
        /\ old.repos[r].records \in [PackageNames -> Record \cup {NoRecord}]
    BY <1>1, ProjectParts
  <2>2. \A k \in PackageNames : old.repos[r].records[k] # NoRecord =>
          old.repos[r].records[k] \in Record
    BY <2>1
  <2> QED
    BY <2>1, <2>2, PrefixOfAppend, RecordsSurvive
<1> QED
  BY <1>1 DEF Sound, KeepsBuilds, AddsNoOrphans

\* A change of one repository and architecture, which keeps the records and the
\* job history it had, and adds only records of packages that are there.
LEMMA RepoChanges ==
  ASSUME NEW old \in Project, NEW r \in RepoArchs, NEW repo \in Repo,
         old.repos[r] # NoRepo =>
           /\ IsPrefix(old.repos[r].jobhist, repo.jobhist)
           /\ \A k \in PackageNames : old.repos[r].records[k] # NoRecord =>
                Survives(old.repos[r].records[k], repo.records[k]),
         \A k \in PackageNames : repo.records[k] # NoRecord =>
           \/ old.packages[k] # NoPackage
           \/ old.repos[r] # NoRepo /\ old.repos[r].records[k] # NoRecord
  PROVE  LET new == [old EXCEPT !.repos = [@ EXCEPT ![r] = repo]]
         IN  new \in Project /\ Sound(old, new)
<1> DEFINE repos == [old.repos EXCEPT ![r] = repo]
           new == [old EXCEPT !.repos = repos]
<1>1. /\ repos \in [RepoArchs -> Repo \cup {NoRepo}] /\ repos[r] = repo
      /\ \A q \in RepoArchs \ {r} : repos[q] = old.repos[q]
  BY ProjectParts
<1>2. repo # NoRepo
  BY AbsenceAssumption
<1> HIDE DEF repos
<1>3. new \in Project /\ new.repos = repos /\ new.packages = old.packages
  BY <1>1 DEF Project
<1>4. Sound(old, old)
  BY PackagesChange
<1> HIDE DEF new
<1>5. KeepsBuilds(old, new)
  BY <1>1, <1>2, <1>3, <1>4 DEF Sound, KeepsBuilds
<1>6. AddsNoOrphans(old, new)
  BY <1>1, <1>2, <1>3, <1>4 DEF Sound, AddsNoOrphans
<1> QED
  BY <1>3, <1>5, <1>6 DEF Sound, new, repos

\* The record that is made for a package that has none.
LEMMA DefaultIsRecord ==
  /\ DefaultRecord \in Record
  /\ \A record \in Record \cup {NoRecord} :
       OrDefault(record) \in Record /\ (record # NoRecord => OrDefault(record) = record)
BY BuildAssumption DEF DefaultRecord, Record, OrDefault

\* A new repository, and a project with given ones, have no package.
LEMMA NewIsEmpty ==
  /\ \A code \in RepoCodes :
       /\ NewRepo(code) \in Repo /\ NewRepo(code).jobhist = << >>
       /\ \A k \in PackageNames : NewRepo(code).records[k] = NoRecord
  /\ NoRepos \in [RepoArchs -> Repo \cup {NoRepo}] /\ \A r \in RepoArchs : NoRepos[r] = NoRepo
  /\ \A repos \in [RepoArchs -> Repo \cup {NoRepo}], modes \in Modes :
       /\ NewProject(repos, modes) \in Project /\ NewProject(repos, modes).repos = repos
       /\ \A k \in PackageNames : NewProject(repos, modes).packages[k] = NoPackage
<1>1. \A code \in RepoCodes :
        /\ NewRepo(code) \in Repo /\ NewRepo(code).jobhist = << >>
        /\ \A k \in PackageNames : NewRepo(code).records[k] = NoRecord
  BY DEF NewRepo, Repo
<1>2. NoRepos \in [RepoArchs -> Repo \cup {NoRepo}] /\ \A r \in RepoArchs : NoRepos[r] = NoRepo
  BY DEF NoRepos
<1>3. \A repos \in [RepoArchs -> Repo \cup {NoRepo}], modes \in Modes :
        /\ NewProject(repos, modes) \in Project /\ NewProject(repos, modes).repos = repos
        /\ \A k \in PackageNames : NewProject(repos, modes).packages[k] = NoPackage
  BY BuildAssumption DEF NewProject, Project
<1> QED
  BY <1>1, <1>2, <1>3

\* A rebuild of packages that are there records no others, and takes nothing out
\* of a record.
LEMMA RebuiltIsSound ==
  ASSUME NEW old \in Project, NEW ks \in SUBSET PackageNames,
         \A k \in ks : old.packages[k] # NoPackage
  PROVE  Rebuilt(old, ks) \in Project /\ Sound(old, Rebuilt(old, ks))
<1> DEFINE Restarted(record) == [OrDefault(record) EXCEPT !.status = old.rebuildStatus]
           Records(r) == [k \in PackageNames |->
                            IF k \in ks THEN Restarted(old.repos[r].records[k])
                            ELSE old.repos[r].records[k]]
           repos == [r \in RepoArchs |->
                       IF old.repos[r] = NoRepo THEN NoRepo
                       ELSE [old.repos[r] EXCEPT !.records = Records(r)]]
           new == [old EXCEPT !.repos = repos]
<1>1. Rebuilt(old, ks) = new
  BY DEF Rebuilt, MapRecords
<1>2. ASSUME NEW record \in Record \cup {NoRecord}
      PROVE  /\ Restarted(record) \in Record
             /\ record # NoRecord => Survives(record, Restarted(record))
  BY DefaultIsRecord, RecordsSurvive, ProjectParts
<1> HIDE DEF Restarted
<1>3. ASSUME NEW r \in RepoArchs, old.repos[r] # NoRepo
      PROVE  /\ Records(r) \in [PackageNames -> Record \cup {NoRecord}]
             /\ \A k \in PackageNames :
                  /\ old.repos[r].records[k] # NoRecord =>
                       Survives(old.repos[r].records[k], Records(r)[k])
                  /\ k \notin ks => Records(r)[k] = old.repos[r].records[k]
  <2>1. \A k \in PackageNames : old.repos[r].records[k] \in Record \cup {NoRecord}
    BY <1>3, ProjectParts
  <2> QED
    BY <1>2, <2>1, RecordsSurvive
<1> HIDE DEF Records
<1>4. ASSUME NEW r \in RepoArchs, old.repos[r] # NoRepo
      PROVE  /\ repos[r] \in Repo /\ repos[r].records = Records(r)
             /\ repos[r].jobhist = old.repos[r].jobhist
  <2>1. old.repos[r] \in Repo
    BY <1>4, ProjectParts
  <2> QED
    BY <1>3, <1>4, <2>1 DEF Repo
<1>5. \A r \in RepoArchs : old.repos[r] = NoRepo => repos[r] = NoRepo
  OBVIOUS
<1>6. repos \in [RepoArchs -> Repo \cup {NoRepo}]
  BY <1>4
<1> HIDE DEF repos
<1>7. new \in Project /\ new.repos = repos /\ new.packages = old.packages
  BY <1>6 DEF Project
<1> HIDE DEF new
<1>8. KeepsBuilds(old, new)
  <2>1. \A r \in RepoArchs : old.repos[r] # NoRepo =>
          repos[r] # NoRepo /\ IsPrefix(old.repos[r].jobhist, repos[r].jobhist)
    BY <1>4, ProjectParts, PrefixOfAppend, AbsenceAssumption
  <2> QED
    BY <1>3, <1>4, <1>7, <2>1 DEF KeepsBuilds
<1>9. AddsNoOrphans(old, new)
  BY <1>3, <1>4, <1>5, <1>7 DEF AddsNoOrphans
<1> QED
  BY <1>1, <1>7, <1>8, <1>9 DEF Sound

\* The deletion of a package takes its records out of every repository, and
\* nothing else.
LEMMA DeletedIsSound ==
  ASSUME NEW old \in Project, NEW gone \in PackageNames,
         NEW new,
         new = [old EXCEPT
                  !.packages = [old.packages EXCEPT ![gone] = NoPackage],
                  !.repos = [r \in RepoArchs |->
                     IF old.repos[r] = NoRepo THEN NoRepo
                     ELSE [old.repos[r] EXCEPT !.records =
                             [k \in PackageNames |->
                                IF k \in {gone} THEN NoRecord ELSE old.repos[r].records[k]]]]],
         old.packages[gone] # NoPackage
  PROVE  new \in Project /\ Sound(old, new)
<1> DEFINE Records(r) == [k \in PackageNames |->
                            IF k \in {gone} THEN NoRecord ELSE old.repos[r].records[k]]
           repos == [r \in RepoArchs |->
                       IF old.repos[r] = NoRepo THEN NoRepo
                       ELSE [old.repos[r] EXCEPT !.records = Records(r)]]
           packages == [old.packages EXCEPT ![gone] = NoPackage]
<1>1. new = [old EXCEPT !.packages = packages, !.repos = repos]
  OBVIOUS
<1>2. /\ packages \in [PackageNames -> Package \cup {NoPackage}] /\ packages[gone] = NoPackage
      /\ \A k \in PackageNames \ {gone} : packages[k] = old.packages[k]
  BY ProjectParts
<1> HIDE DEF packages
<1>3. ASSUME NEW r \in RepoArchs, old.repos[r] # NoRepo
      PROVE  /\ Records(r) \in [PackageNames -> Record \cup {NoRecord}]
             /\ Records(r)[gone] = NoRecord
             /\ \A k \in PackageNames \ {gone} : Records(r)[k] = old.repos[r].records[k]
  BY <1>3, ProjectParts
<1> HIDE DEF Records
<1>4. ASSUME NEW r \in RepoArchs, old.repos[r] # NoRepo
      PROVE  /\ repos[r] \in Repo /\ repos[r].records = Records(r)
             /\ repos[r].jobhist = old.repos[r].jobhist
  <2>1. old.repos[r] \in Repo
    BY <1>4, ProjectParts
  <2> QED
    BY <1>3, <1>4, <2>1 DEF Repo
<1>5. \A r \in RepoArchs : old.repos[r] = NoRepo => repos[r] = NoRepo
  OBVIOUS
<1>6. repos \in [RepoArchs -> Repo \cup {NoRepo}]
  BY <1>4
<1> HIDE DEF repos
<1>7. new \in Project /\ new.repos = repos /\ new.packages = packages
  BY <1>1, <1>2, <1>6 DEF Project
<1>8. KeepsBuilds(old, new)
  <2>1. \A r \in RepoArchs : old.repos[r] # NoRepo =>
          repos[r] # NoRepo /\ IsPrefix(old.repos[r].jobhist, repos[r].jobhist)
    BY <1>4, ProjectParts, PrefixOfAppend, AbsenceAssumption
  <2>2. ASSUME NEW r \in RepoArchs, old.repos[r] # NoRepo, NEW k \in PackageNames \ {gone},
               old.repos[r].records[k] # NoRecord
        PROVE  Survives(old.repos[r].records[k], repos[r].records[k])
    <3>1. old.repos[r].records[k] \in Record
      BY <2>2, ProjectParts
    <3> QED
      BY <1>3, <1>4, <2>2, <3>1, RecordsSurvive
  <2> QED
    BY <1>2, <1>7, <2>1, <2>2 DEF KeepsBuilds
<1>9. AddsNoOrphans(old, new)
  BY <1>2, <1>3, <1>4, <1>5, <1>7 DEF AddsNoOrphans
<1> QED
  BY <1>7, <1>8, <1>9 DEF Sound

-----------------------------------------------------------------------------
(* What a step does to the projects.                                       *)

Replaces(p) ==
  /\ HasProject(p)
  /\ \E new \in Project :
       Sound(projects[p], new) /\ projects' = [projects EXCEPT ![p] = new]

\* A project made without a branch has no repositories.
Makes(p) ==
  /\ ~HasProject(p)
  /\ \E new \in Project :
       /\ projects' = [projects EXCEPT ![p] = new]
       /\ reply'.op = "branch" \/ new.repos = NoRepos

Removes(p) == projects' = [projects EXCEPT ![p] = NoProject]

Changes == UNCHANGED projects \/ \E p \in Projects : Replaces(p) \/ Makes(p) \/ Removes(p)

Ops == HttpOps \cup SetterOps \cup {"any"}

\* How a step ends: with an answer, and at most a poisoned lock.
Ends ==
  \E op \in Ops, code \in Codes :
    /\ reply' = [op |-> op, code |-> code]
    /\ poisoned' \in {poisoned, TRUE}

\* The projects there are, of their types.
LEMMA ProjectsTyped ==
  ASSUME TypeOK, NEW p \in Projects, HasProject(p)
  PROVE  projects[p] \in Project
BY DEF TypeOK, HasProject

\* An existing package goes into a project, in place of another or not.
LEMMA PackagePut ==
  ASSUME NEW old \in Project, NEW k \in PackageNames, NEW package \in Package
  PROVE  LET new == [old EXCEPT !.packages = [@ EXCEPT ![k] = package]]
         IN  new \in Project /\ new.repos = old.repos /\ Sound(old, new)
<1> DEFINE packages == [old.packages EXCEPT ![k] = package]
           new == [old EXCEPT !.packages = packages]
<1>1. packages \in [PackageNames -> Package \cup {NoPackage}] /\ package # NoPackage
      /\ \A j \in PackageNames : packages[j] = IF j = k THEN package ELSE old.packages[j]
  BY ProjectParts, AbsenceAssumption
<1> HIDE DEF packages
<1>2. new \in Project /\ new.repos = old.repos /\ new.packages = packages
  BY <1>1 DEF Project
<1> HIDE DEF new
<1>3. Sound(old, new)
  BY <1>1, <1>2, PackagesChange
<1> QED
  BY <1>2, <1>3 DEF new, packages

\* The setters of the modes and of the status for rebuilds.
LEMMA FieldsPut ==
  ASSUME NEW old \in Project
  PROVE  /\ \A modes \in Modes :
              LET new == [old EXCEPT !.modes = modes]
              IN  new \in Project /\ Sound(old, new)
         /\ \A status \in Statuses :
              LET new == [old EXCEPT !.rebuildStatus = status]
              IN  new \in Project /\ Sound(old, new)
<1>1. ASSUME NEW modes \in Modes
      PROVE  LET new == [old EXCEPT !.modes = modes]
             IN  new \in Project /\ Sound(old, new)
  <2> DEFINE new == [old EXCEPT !.modes = modes]
  <2>1. new \in Project /\ new.repos = old.repos /\ new.packages = old.packages
    BY DEF Project
  <2> HIDE DEF new
  <2>2. Sound(old, new)
    BY <2>1, PackagesChange
  <2> QED
    BY <2>1, <2>2 DEF new
<1>2. ASSUME NEW status \in Statuses
      PROVE  LET new == [old EXCEPT !.rebuildStatus = status]
             IN  new \in Project /\ Sound(old, new)
  <2> DEFINE new == [old EXCEPT !.rebuildStatus = status]
  <2>1. new \in Project /\ new.repos = old.repos /\ new.packages = old.packages
    BY DEF Project
  <2> HIDE DEF new
  <2>2. Sound(old, new)
    BY <2>1, PackagesChange
  <2> QED
    BY <2>1, <2>2 DEF new
<1> QED
  BY <1>1, <1>2

\* A record of a package that is there goes into a repository that is there.
LEMMA RecordPut ==
  ASSUME NEW old \in Project, NEW r \in RepoArchs, NEW k \in PackageNames,
         old.packages[k] # NoPackage, old.repos[r] # NoRepo, NEW record \in Record,
         Survives(OrDefault(old.repos[r].records[k]), record)
  PROVE  LET repo == [old.repos[r] EXCEPT !.records = [@ EXCEPT ![k] = record]]
             new == [old EXCEPT !.repos = [@ EXCEPT ![r] = repo]]
         IN  new \in Project /\ Sound(old, new)
<1> DEFINE records == [old.repos[r].records EXCEPT ![k] = record]
           repo == [old.repos[r] EXCEPT !.records = records]
<1>1. /\ old.repos[r] \in Repo /\ old.repos[r].jobhist \in Seq(PackageNames)
      /\ old.repos[r].records \in [PackageNames -> Record \cup {NoRecord}]
  BY ProjectParts
<1>2. /\ records \in [PackageNames -> Record \cup {NoRecord}] /\ records[k] = record
      /\ \A j \in PackageNames \ {k} : records[j] = old.repos[r].records[j]
  BY <1>1
<1> HIDE DEF records
<1>3. repo \in Repo /\ repo.records = records /\ repo.jobhist = old.repos[r].jobhist
  BY <1>1, <1>2 DEF Repo
<1> HIDE DEF repo
<1>4. IsPrefix(old.repos[r].jobhist, repo.jobhist)
  BY <1>1, <1>3, PrefixOfAppend
<1>5. ASSUME NEW j \in PackageNames, old.repos[r].records[j] # NoRecord
      PROVE  Survives(old.repos[r].records[j], repo.records[j])
  <2>1. old.repos[r].records[j] \in Record
    BY <1>1, <1>5
  <2>2. CASE j = k
    BY <1>2, <1>3, <1>5, <2>2 DEF OrDefault
  <2>3. CASE j # k
    BY <1>2, <1>3, <2>1, <2>3, RecordsSurvive
  <2> QED
    BY <2>2, <2>3
<1>6. ASSUME NEW j \in PackageNames, repo.records[j] # NoRecord
      PROVE  \/ old.packages[j] # NoPackage
             \/ old.repos[r] # NoRepo /\ old.repos[r].records[j] # NoRecord
  BY <1>2, <1>3, <1>6
<1> DEFINE new == [old EXCEPT !.repos = [@ EXCEPT ![r] = repo]]
<1>7. new \in Project /\ Sound(old, new)
  BY <1>3, <1>4, <1>5, <1>6, RepoChanges
<1> QED
  BY <1>7 DEF repo, records

-----------------------------------------------------------------------------
(* The actions.                                                            *)

\* A project that is put in the place of another.
LEMMA PutReplaces ==
  ASSUME NEW p \in Projects, HasProject(p), NEW new, Put(p, new),
         new \in Project, Sound(projects[p], new)
  PROVE  Changes
BY DEF Put, Changes, Replaces

\* A request either is refused or changes the projects soundly.
LEMMA RequestChanges ==
  ASSUME TypeOK, Request
  PROVE  Changes
<1>1. ASSUME NEW p \in Projects, NEW names \in SUBSET PackageNames, NEW cmd, NEW other,
             Rebuild(p, cmd, other, names)
      PROVE  Changes
  <2>1. CASE UNCHANGED projects
    BY <2>1 DEF Changes
  <2>2. CASE RebuildError(p, cmd, other, names) = "none"
             /\ Put(p, Rebuilt(projects[p], RebuildNames(p, names)))
    <3>1. HasProject(p) /\ \A k \in RebuildNames(p, names) : HasPackage(p, k)
      BY <2>2 DEF RebuildError
    <3>2. RebuildNames(p, names) \in SUBSET PackageNames
      BY DEF RebuildNames
    <3> DEFINE ks == RebuildNames(p, names)
               new == Rebuilt(projects[p], ks)
    <3> HIDE DEF ks
    <3>3. new \in Project /\ Sound(projects[p], new)
      BY <3>1, <3>2, ProjectsTyped, RebuiltIsSound DEF HasPackage, ks
    <3>4. Put(p, new)
      BY <2>2 DEF ks
    <3> HIDE DEF new
    <3> QED
      BY <3>1, <3>3, <3>4, PutReplaces
  <2> QED
    BY <1>1, <2>1, <2>2 DEF Rebuild, Refuse, store
<1>2. ASSUME NEW p \in Projects, NEW tp \in Projects, NEW k \in PackageNames,
             NEW tk \in PackageNames, NEW force \in BOOLEAN, NEW missingok \in BOOLEAN,
             NEW modes \in Modes, Branch(p, k, tp, tk, force, missingok, modes)
      PROVE  Changes
  <2> DEFINE target == BranchTarget(p, tp, modes)
  <2>1. target \in Project /\ (HasProject(tp) => target = projects[tp])
    <3>1. CASE HasProject(tp)
      BY <3>1, ProjectsTyped DEF BranchTarget
    <3>2. CASE ~HasProject(tp)
      <4> DEFINE repos == IF HasProject(p) THEN projects[p].repos ELSE NoRepos
      <4>1. repos \in [RepoArchs -> Repo \cup {NoRepo}]
        BY ProjectsTyped, ProjectParts, NewIsEmpty
      <4>2. target = NewProject(repos, modes)
        BY <3>2 DEF BranchTarget
      <4> HIDE DEF repos
      <4> QED
        BY <3>2, <4>1, <4>2, NewIsEmpty
    <3> QED
      BY <3>1, <3>2
  <2> HIDE DEF target
  <2>2. CASE UNCHANGED projects
    BY <2>2 DEF Changes
  <2>3. ASSUME NEW d \in BranchDisabled(p, k),
               Put(tp, [target EXCEPT !.packages = [@ EXCEPT ![tk] = NewPackage(d)]]),
               Done("branch")
        PROVE  Changes
    <3>1. d \in DisabledLists
      <4>1. HasPackage(p, k) => projects[p].packages[k] \in Package
        BY ProjectsTyped, ProjectParts DEF HasPackage
      <4> QED
        BY <4>1, BuildAssumption DEF BranchDisabled, Package
    <3> DEFINE package == NewPackage(d)
               new == [target EXCEPT !.packages = [@ EXCEPT ![tk] = package]]
    <3>2. package \in Package
      BY <3>1 DEF NewPackage, Package
    <3> HIDE DEF package
    <3>3. new \in Project /\ Sound(target, new)
      BY <2>1, <3>2, PackagePut
    <3>4. Put(tp, new) /\ reply'.op = "branch"
      BY <2>3 DEF package, Done
    <3> HIDE DEF new
    <3>5. CASE HasProject(tp)
      BY <2>1, <3>3, <3>4, <3>5, PutReplaces
    <3>6. CASE ~HasProject(tp)
      BY <3>3, <3>4, <3>6 DEF Put, Changes, Makes
    <3> QED
      BY <3>5, <3>6
  <2>4. CASE HasPackage(tp, tk) /\ Put(tp, target)
    <3>1. target = projects[tp] /\ projects \in [Projects -> Project \cup {NoProject}]
      BY <2>1, <2>4 DEF HasPackage, TypeOK
    <3> QED
      BY <2>2, <2>4, <3>1 DEF Put
  <2> QED
    BY <1>2, <2>2, <2>3, <2>4 DEF Branch, Refuse, store, target
<1>3. ASSUME NEW p \in Projects, NEW k \in PackageNames, DeletePackage(p, k)
      PROVE  Changes
  <2>1. CASE UNCHANGED projects
    BY <2>1 DEF Changes
  <2>2. CASE HasPackage(p, k) /\ ~UNCHANGED projects
    <3>1. PICK new :
            /\ new = [projects[p] EXCEPT
                        !.packages = [projects[p].packages EXCEPT ![k] = NoPackage],
                        !.repos = [r \in RepoArchs |->
                           IF projects[p].repos[r] = NoRepo THEN NoRepo
                           ELSE [projects[p].repos[r] EXCEPT !.records =
                                   [j \in PackageNames |->
                                      IF j \in {k} THEN NoRecord
                                      ELSE projects[p].repos[r].records[j]]]]]
            /\ Put(p, new)
      BY <1>3, <2>2 DEF DeletePackage, Refuse, store, MapRecords, HasPackage
    <3>2. HasProject(p) /\ projects[p].packages[k] # NoPackage /\ projects[p] \in Project
      BY <2>2, ProjectsTyped DEF HasPackage
    <3>3. new \in Project /\ Sound(projects[p], new)
      BY <3>1, <3>2, DeletedIsSound
    <3> QED
      BY <3>1, <3>2, <3>3, PutReplaces
  <2> QED
    BY <1>3, <2>1, <2>2 DEF DeletePackage, Refuse, store
<1>4. ASSUME NEW p \in Projects, DeleteProject(p)
      PROVE  Changes
  BY <1>4 DEF DeleteProject, Refuse, store, Put, Changes, Removes
<1> QED
  BY <1>1, <1>2, <1>3, <1>4 DEF Request

\* A setter of a project: a panic changes no project.
LEMMA OnProjectChanges ==
  ASSUME NEW op, NEW p \in Projects, NEW new, OnProject(op, p, new),
         HasProject(p) => new \in Project /\ Sound(projects[p], new)
  PROVE  Changes
<1>1. CASE UNCHANGED projects
  BY <1>1 DEF Changes
<1>2. CASE HasProject(p) /\ Put(p, new)
  BY <1>2, PutReplaces
<1> QED
  BY <1>1, <1>2 DEF OnProject, Panic

\* So is a setter of a package's builds.
LEMMA RecordSetterChanges ==
  ASSUME TypeOK, NEW p \in Projects, NEW r \in RepoArchs, NEW k \in PackageNames,
         \/ \E status \in Statuses : SetPackageBuildStatus(p, r, k, status)
         \/ \E binaries \in SUBSET BinaryNames : SetPackageBinaries(p, r, k, binaries)
         \/ \E log \in Logs, success \in BOOLEAN : AddCompletedBuildLog(p, r, k, log, success)
         \/ \E entry \in HistoryEntries : AddBuildHistory(p, r, k, entry)
  PROVE  Changes
<1> DEFINE old == OrDefault(RecordOf(p, r, k))
<1>1. ASSUME HasPackage(p, k), HasRepo(p, r)
      PROVE  /\ HasProject(p) /\ projects[p] \in Project
             /\ projects[p].packages[k] # NoPackage /\ projects[p].repos[r] # NoRepo
             /\ old \in Record
  <2>1. HasProject(p) /\ projects[p] \in Project
        /\ projects[p].packages[k] # NoPackage /\ projects[p].repos[r] # NoRepo
    BY <1>1, ProjectsTyped DEF HasPackage, HasRepo
  <2>2. RecordOf(p, r, k) \in Record \cup {NoRecord}
    BY <2>1, ProjectParts DEF RecordOf
  <2> QED
    BY <2>1, <2>2, DefaultIsRecord
<1> HIDE DEF old
<1>2. ASSUME HasPackage(p, k), HasRepo(p, r), NEW record \in Record, Survives(old, record),
             PutRecord(p, r, k, record)
      PROVE  Changes
  <2> DEFINE repo == [projects[p].repos[r] EXCEPT !.records = [@ EXCEPT ![k] = record]]
             new == [projects[p] EXCEPT !.repos = [@ EXCEPT ![r] = repo]]
  <2>1. Put(p, new)
    BY <1>2 DEF PutRecord, PutRepo
  <2>2. new \in Project /\ Sound(projects[p], new)
    BY <1>1, <1>2, RecordPut DEF old, RecordOf
  <2> HIDE DEF new
  <2> QED
    BY <1>1, <1>2, <2>1, <2>2, PutReplaces
<1>3. CASE UNCHANGED projects
  BY <1>3 DEF Changes
<1>4. ASSUME NEW status \in Statuses, SetPackageBuildStatus(p, r, k, status)
      PROVE  Changes
  <2> DEFINE record == [old EXCEPT !.status = status]
  <2>1. CASE HasPackage(p, k) /\ HasRepo(p, r) /\ PutRecord(p, r, k, record)
    <3>1. record \in Record /\ Survives(old, record)
      BY <1>1, <2>1, RecordsSurvive
    <3> HIDE DEF record
    <3> QED
      BY <1>2, <2>1, <3>1
  <2> QED
    BY <1>3, <1>4, <2>1 DEF SetPackageBuildStatus, WithRepoPackage, Panic, old
<1>5. ASSUME NEW binaries \in SUBSET BinaryNames, SetPackageBinaries(p, r, k, binaries)
      PROVE  Changes
  <2> DEFINE record == [old EXCEPT !.binaries = binaries]
  <2>1. CASE HasPackage(p, k) /\ HasRepo(p, r) /\ PutRecord(p, r, k, record)
    <3>1. record \in Record /\ Survives(old, record)
      BY <1>1, <2>1, RecordsSurvive
    <3> HIDE DEF record
    <3> QED
      BY <1>2, <2>1, <3>1
  <2> QED
    BY <1>3, <1>5, <2>1 DEF SetPackageBinaries, WithRepoPackage, Panic, old
<1>6. ASSUME NEW log \in Logs, NEW success \in BOOLEAN,
             AddCompletedBuildLog(p, r, k, log, success)
      PROVE  Changes
  <2> DEFINE record == [old EXCEPT !.log = log, !.goodLog = IF success THEN log ELSE @]
  <2>1. CASE HasPackage(p, k) /\ HasRepo(p, r) /\ PutRecord(p, r, k, record)
    <3>1. record \in Record /\ Survives(old, record)
      BY <1>1, <2>1, RecordsSurvive
    <3> HIDE DEF record
    <3> QED
      BY <1>2, <2>1, <3>1
  <2> QED
    BY <1>3, <1>6, <2>1 DEF AddCompletedBuildLog, WithRepoPackage, Panic, old
<1>7. ASSUME NEW entry \in HistoryEntries, AddBuildHistory(p, r, k, entry)
      PROVE  Changes
  <2> DEFINE record == [old EXCEPT !.history = Append(@, entry)]
  <2>1. CASE HasPackage(p, k) /\ HasRepo(p, r) /\ PutRecord(p, r, k, record)
    <3>1. record \in Record /\ Survives(old, record)
      BY <1>1, <2>1, RecordsSurvive
    <3> HIDE DEF record
    <3> QED
      BY <1>2, <2>1, <3>1
  <2> QED
    BY <1>3, <1>7, <2>1 DEF AddBuildHistory, WithRepoPackage, Panic, old
<1> QED
  BY <1>4, <1>5, <1>6, <1>7

\* Every setter panics or changes the projects soundly.
LEMMA SetterChanges ==
  ASSUME TypeOK, SetterCall
  PROVE  Changes
<1>1. CASE UNCHANGED projects
  BY <1>1 DEF Changes
<1>2. ASSUME NEW p \in Projects, AddProject(p)
      PROVE  Changes
  <2>1. CASE HasProject(p)
    <3>1. UNCHANGED projects
      BY <1>2, <2>1 DEF AddProject, Put, TypeOK
    <3> QED
      BY <1>1, <3>1
  <2>2. CASE ~HasProject(p)
    <3>1. NewProject(NoRepos, DefaultModes) \in Project
          /\ NewProject(NoRepos, DefaultModes).repos = NoRepos
      BY NewIsEmpty, BuildAssumption
    <3> QED
      BY <1>2, <2>2, <3>1 DEF AddProject, Put, Changes, Makes
  <2> QED
    BY <2>1, <2>2
<1>3. ASSUME NEW p \in Projects, NEW modes \in Modes, SetProjectModes(p, modes)
      PROVE  Changes
  BY <1>3, ProjectsTyped, FieldsPut, OnProjectChanges DEF SetProjectModes
<1>4. ASSUME NEW p \in Projects, NEW status \in Statuses,
             SetPackageBuildStatusForRebuilds(p, status)
      PROVE  Changes
  BY <1>4, ProjectsTyped, FieldsPut, OnProjectChanges DEF SetPackageBuildStatusForRebuilds
<1>5. ASSUME NEW p \in Projects, NEW k \in PackageNames, NEW d \in DisabledLists,
             AddNewPackage(p, k, d)
      PROVE  Changes
  <2>1. NewPackage(d) \in Package
    BY DEF NewPackage, Package
  <2> QED
    BY <1>5, <2>1, ProjectsTyped, PackagePut, OnProjectChanges DEF AddNewPackage
<1>6. ASSUME NEW p \in Projects, NEW k \in PackageNames, NEW d \in DisabledLists,
             SetPackageMetadata(p, k, d)
      PROVE  Changes
  <2> DEFINE package == [projects[p].packages[k] EXCEPT !.meta = d]
  <2>1. CASE HasPackage(p, k) /\ PutPackage(p, k, package)
    <3>1. HasProject(p) /\ projects[p] \in Project /\ projects[p].packages[k] \in Package
      BY <2>1, ProjectsTyped, ProjectParts DEF HasPackage
    <3>2. package \in Package
      BY <3>1 DEF Package
    <3> HIDE DEF package
    <3> DEFINE new == [projects[p] EXCEPT !.packages = [@ EXCEPT ![k] = package]]
    <3>3. new \in Project /\ Sound(projects[p], new)
      BY <3>1, <3>2, PackagePut
    <3>4. Put(p, new)
      BY <2>1 DEF PutPackage
    <3> HIDE DEF new
    <3> QED
      BY <3>1, <3>3, <3>4, PutReplaces
  <2> QED
    BY <1>1, <1>6, <2>1 DEF SetPackageMetadata, Panic
<1>7. ASSUME NEW p \in Projects, NEW r \in RepoArchs, NEW code \in RepoCodes,
             AddOrUpdateRepository(p, r, code)
      PROVE  Changes
  <2> DEFINE was == projects[p].repos[r]
             repo == IF was = NoRepo THEN NewRepo(code) ELSE [was EXCEPT !.code = code]
             new == [projects[p] EXCEPT !.repos = [@ EXCEPT ![r] = repo]]
  <2>1. ASSUME HasProject(p)
        PROVE  new \in Project /\ Sound(projects[p], new)
    <3>1. projects[p] \in Project
      BY <2>1, ProjectsTyped
    <3>2. CASE was = NoRepo
      <4>1. repo \in Repo /\ \A k \in PackageNames : repo.records[k] = NoRecord
        BY <3>2, NewIsEmpty
      <4> HIDE DEF repo
      <4> QED
        BY <3>1, <3>2, <4>1, RepoChanges
    <3>3. CASE was # NoRepo
      <4>1. was \in Repo /\ was.jobhist \in Seq(PackageNames)
            /\ was.records \in [PackageNames -> Record \cup {NoRecord}]
        BY <3>1, <3>3, ProjectParts
      <4>2. repo \in Repo /\ repo.jobhist = was.jobhist /\ repo.records = was.records
        BY <3>3, <4>1 DEF Repo
      <4> HIDE DEF repo
      <4>3. IsPrefix(was.jobhist, repo.jobhist)
        BY <4>1, <4>2, PrefixOfAppend
      <4>4. \A k \in PackageNames : was.records[k] # NoRecord =>
              Survives(was.records[k], repo.records[k])
        BY <4>1, <4>2, RecordsSurvive
      <4> QED
        BY <3>1, <3>3, <4>2, <4>3, <4>4, RepoChanges
    <3> QED
      BY <3>2, <3>3
  <2>2. OnProject("add_repository", p, new)
    BY <1>7 DEF AddOrUpdateRepository
  <2> HIDE DEF new
  <2> QED
    BY <2>1, <2>2, OnProjectChanges
<1>8. ASSUME NEW p \in Projects, NEW r \in RepoArchs, NEW k \in PackageNames,
             AddJobHistory(p, r, k)
      PROVE  Changes
  <2> DEFINE was == projects[p].repos[r]
             jobhist == Append(was.jobhist, k)
             repo == [was EXCEPT !.jobhist = jobhist]
             new == [projects[p] EXCEPT !.repos = [@ EXCEPT ![r] = repo]]
  <2>1. CASE HasRepo(p, r) /\ Put(p, new)
    <3>1. HasProject(p) /\ projects[p] \in Project /\ was # NoRepo
      BY <2>1, ProjectsTyped DEF HasRepo
    <3>2. was \in Repo /\ was.jobhist \in Seq(PackageNames)
          /\ was.records \in [PackageNames -> Record \cup {NoRecord}]
      BY <3>1, ProjectParts
    <3>3. jobhist \in Seq(PackageNames) /\ IsPrefix(was.jobhist, jobhist)
      BY <3>2, PrefixOfAppend
    <3> HIDE DEF jobhist
    <3>4. repo \in Repo /\ repo.jobhist = jobhist /\ repo.records = was.records
      BY <3>2, <3>3 DEF Repo
    <3>5. \A j \in PackageNames : was.records[j] # NoRecord =>
            Survives(was.records[j], repo.records[j])
      BY <3>2, <3>4, RecordsSurvive
    <3> HIDE DEF repo
    <3>6. new \in Project /\ Sound(projects[p], new)
      BY <3>1, <3>3, <3>4, <3>5, RepoChanges
    <3> HIDE DEF new
    <3> QED
      BY <2>1, <3>1, <3>6, PutReplaces
  <2> QED
    BY <1>1, <1>8, <2>1 DEF AddJobHistory, PutRepo, Panic
<1> QED
  BY <1>2, <1>3, <1>4, <1>5, <1>6, <1>7, <1>8, RecordSetterChanges DEF SetterCall

\* Every step changes the projects soundly, or not at all.
LEMMA NextChanges ==
  ASSUME TypeOK, [Next]_vars
  PROVE  Changes
<1>1. CASE UNCHANGED projects
  BY <1>1 DEF Changes
<1> QED
  BY <1>1, RequestChanges, SetterChanges DEF Next, PoisonedAccess, Panic, vars

\* An operation that is done.
LEMMA DoneEnds ==
  ASSUME TypeOK, NEW op \in Ops, Done(op)
  PROVE  Ends
BY DEF Done, Ends, Codes, TypeOK

\* One that is refused.
LEMMA RefuseEnds ==
  ASSUME TypeOK, NEW op \in Ops, NEW code \in Codes, Refuse(op, code)
  PROVE  Ends
BY DEF Refuse, Ends, store, TypeOK

\* A setter that panics, or any access to a poisoned lock.
LEMMA PanicEnds ==
  ASSUME TypeOK, NEW op \in Ops, Panic(op)
  PROVE  Ends
BY DEF Panic, Ends, Codes

\* The operations are requests and setters, or any access to a poisoned lock.
LEMMA OpNames == HttpOps \subseteq Ops /\ SetterOps \subseteq Ops /\ "any" \in Ops
BY DEF Ops

\* Every request is done or refused.
LEMMA RequestEnds ==
  ASSUME TypeOK, Request
  PROVE  Ends
<1>1. ASSUME NEW p \in Projects, NEW names, NEW cmd,
             NEW other \in {"none", "unsupported", "unknown_parameter"},
             Rebuild(p, cmd, other, names)
      PROVE  Ends
  <2>1. RebuildError(p, cmd, other, names) # "none" =>
          RebuildError(p, cmd, other, names) \in Codes
    BY DEF RebuildError, Codes
  <2>2. "rebuild" \in Ops
    BY OpNames DEF HttpOps
  <2> QED
    BY <1>1, <2>1, <2>2, DoneEnds, RefuseEnds DEF Rebuild
<1>2. ASSUME NEW p \in Projects, NEW tp \in Projects, NEW k \in PackageNames,
             NEW tk \in PackageNames, NEW force, NEW missingok, NEW modes,
             Branch(p, k, tp, tk, force, missingok, modes)
      PROVE  Ends
  <2>1. BranchError(p, k, missingok) # "none" => BranchError(p, k, missingok) \in Codes
    BY DEF BranchError, Codes
  <2>2. "branch" \in Ops /\ "double_branch_package" \in Codes
    BY OpNames DEF HttpOps, Codes
  <2>3. reply' = [op |-> "branch", code |-> "double_branch_package"] /\ UNCHANGED poisoned
          => Ends
    BY <2>2 DEF Ends
  <2> QED
    BY <1>2, <2>1, <2>2, <2>3, DoneEnds, RefuseEnds DEF Branch
<1>3. ASSUME NEW p \in Projects, NEW k \in PackageNames, DeletePackage(p, k)
      PROVE  Ends
  <2>1. "delete_package" \in Ops /\ {"unknown_project", "unknown_package"} \subseteq Codes
    BY OpNames DEF HttpOps, Codes
  <2> QED
    BY <1>3, <2>1, DoneEnds, RefuseEnds DEF DeletePackage
<1>4. ASSUME NEW p \in Projects, DeleteProject(p)
      PROVE  Ends
  <2>1. "delete_project" \in Ops /\ "unknown_project" \in Codes
    BY OpNames DEF HttpOps, Codes
  <2> QED
    BY <1>4, <2>1, DoneEnds, RefuseEnds DEF DeleteProject
<1> QED
  BY <1>1, <1>2, <1>3, <1>4 DEF Request

\* Every setter is done or panics.
LEMMA SetterEnds ==
  ASSUME TypeOK, SetterCall
  PROVE  Ends
<1>1. ASSUME NEW op \in SetterOps, Done(op) \/ Panic(op)
      PROVE  Ends
  BY <1>1, OpNames, DoneEnds, PanicEnds
<1>2. ASSUME NEW op \in SetterOps, NEW p, NEW new, OnProject(op, p, new)
      PROVE  Ends
  BY <1>1, <1>2 DEF OnProject
<1>3. ASSUME NEW p \in Projects, AddProject(p)
      PROVE  Ends
  BY <1>1, <1>3 DEF AddProject, SetterOps
<1>4. ASSUME NEW p \in Projects, NEW modes \in Modes, SetProjectModes(p, modes)
      PROVE  Ends
  BY <1>2, <1>4 DEF SetProjectModes, SetterOps
<1>5. ASSUME NEW p \in Projects, NEW k \in PackageNames, NEW d \in DisabledLists,
             AddNewPackage(p, k, d) \/ SetPackageMetadata(p, k, d)
      PROVE  Ends
  BY <1>1, <1>2, <1>5 DEF AddNewPackage, SetPackageMetadata, SetterOps
<1>6. ASSUME NEW p \in Projects, NEW r \in RepoArchs, NEW code \in RepoCodes,
             AddOrUpdateRepository(p, r, code)
      PROVE  Ends
  BY <1>2, <1>6 DEF AddOrUpdateRepository, SetterOps
<1>7. ASSUME NEW p \in Projects, NEW status \in Statuses,
             SetPackageBuildStatusForRebuilds(p, status)
      PROVE  Ends
  BY <1>2, <1>7 DEF SetPackageBuildStatusForRebuilds, SetterOps
<1>8. ASSUME NEW p \in Projects, NEW r \in RepoArchs, NEW k \in PackageNames,
             \/ AddJobHistory(p, r, k)
             \/ \E status \in Statuses : SetPackageBuildStatus(p, r, k, status)
             \/ \E binaries \in SUBSET BinaryNames : SetPackageBinaries(p, r, k, binaries)
             \/ \E log \in Logs, success \in BOOLEAN :
                  AddCompletedBuildLog(p, r, k, log, success)
             \/ \E entry \in HistoryEntries : AddBuildHistory(p, r, k, entry)
      PROVE  Ends
  <2>1. \E op \in SetterOps : Done(op) \/ Panic(op)
    BY <1>8 DEF AddJobHistory, SetPackageBuildStatus, SetPackageBinaries,
                AddCompletedBuildLog, AddBuildHistory, WithRepoPackage, SetterOps
  <2> QED
    BY <1>1, <2>1
<1> QED
  BY <1>3, <1>4, <1>5, <1>6, <1>7, <1>8 DEF SetterCall

\* Every step that is one ends.
LEMMA NextEnds ==
  ASSUME TypeOK, Next
  PROVE  Ends
BY OpNames, RequestEnds, SetterEnds, PanicEnds DEF Next, PoisonedAccess

-----------------------------------------------------------------------------
(* Types.                                                                  *)

\* The server starts with no project.
LEMMA InitTyped == Init => TypeOK
<1>1. ASSUME Init
      PROVE  TypeOK
  <2>1. projects \in [Projects -> Project \cup {NoProject}] /\ poisoned \in BOOLEAN
    BY <1>1 DEF Init
  <2>2. "add_project" \in Ops /\ "ok" \in Codes
    BY OpNames DEF SetterOps, Codes
  <2>3. reply \in [op : Ops, code : Codes]
    BY <1>1, <2>2 DEF Init
  <2> QED
    BY <2>1, <2>3 DEF TypeOK, Ops
<1> QED
  BY <1>1

\* A step keeps the types, for projects are replaced by projects.
LEMMA NextTyped ==
  ASSUME TypeOK, [Next]_vars
  PROVE  TypeOK'
<1>1. projects' \in [Projects -> Project \cup {NoProject}]
  <2>1. Changes /\ projects \in [Projects -> Project \cup {NoProject}]
    BY NextChanges DEF TypeOK
  <2>2. ASSUME NEW p \in Projects, NEW new \in Project \cup {NoProject},
               projects' = [projects EXCEPT ![p] = new]
        PROVE  projects' \in [Projects -> Project \cup {NoProject}]
    BY <2>1, <2>2
  <2> QED
    BY <2>1, <2>2 DEF Changes, Replaces, Makes, Removes
<1>2. poisoned' \in BOOLEAN
      /\ reply' \in [op : HttpOps \cup SetterOps \cup {"any"}, code : Codes]
  <2>1. poisoned \in BOOLEAN
        /\ reply \in [op : HttpOps \cup SetterOps \cup {"any"}, code : Codes]
    BY DEF TypeOK
  <2>2. CASE Next
    <3>1. PICK op \in Ops, code \in Codes :
            reply' = [op |-> op, code |-> code] /\ poisoned' \in {poisoned, TRUE}
      BY <2>2, NextEnds DEF Ends
    <3>2. reply' \in [op : Ops, code : Codes]
      BY <3>1
    <3> QED
      BY <2>1, <3>1, <3>2 DEF Ops
  <2>3. CASE UNCHANGED vars
    BY <2>1, <2>3 DEF vars
  <2> QED
    BY <2>2, <2>3
<1> QED
  BY <1>1, <1>2 DEF TypeOK

\* Every project, package, repository and record is of its type, and the latest
\* successful log is never without a latest log.
THEOREM TypeCorrectness == Spec => []TypeOK
BY InitTyped, NextTyped, PTL DEF Spec

-----------------------------------------------------------------------------
(* Safety.                                                                 *)

\* A project that is there before and after a step is changed soundly.
LEMMA StepsAreSound ==
  ASSUME TypeOK, [Next]_vars, NEW p \in Projects, HasProject(p), HasProject(p)'
  PROVE  /\ projects[p] \in Project /\ projects'[p] \in Project
         /\ Sound(projects[p], projects'[p])
<1>1. projects \in [Projects -> Project \cup {NoProject}] /\ projects[p] \in Project
      /\ projects'[p] # NoProject
  BY ProjectsTyped DEF TypeOK, HasProject
<1>2. Sound(projects[p], projects[p])
  BY <1>1, PackagesChange
<1>3. CASE projects'[p] = projects[p]
  BY <1>1, <1>2, <1>3
<1>4. CASE projects'[p] # projects[p]
  <2>1. PICK q \in Projects : Replaces(q) \/ Makes(q) \/ Removes(q)
    BY <1>4, NextChanges DEF Changes
  <2>2. q = p
    BY <1>1, <1>4, <2>1 DEF Replaces, Makes, Removes
  <2>3. Replaces(p)
    BY <1>1, <2>1, <2>2 DEF Makes, Removes, HasProject
  <2> QED
    BY <1>1, <2>3 DEF Replaces
<1> QED
  BY <1>3, <1>4

\* No step takes a build, its logs or its history, or an entry of a job history,
\* but with the package or the project it is of.
THEOREM BuildsAreKept == Spec => BuildsGoOnlyWithSources
<1> DEFINE Kept ==
      /\ \A t \in Recorded :
           HasProject(t[1])' /\ (HasPackage(t[1], t[3]) => HasPackage(t[1], t[3])')
             => BuildsSurvive(t[1], t[2], t[3])
      /\ \A p \in Projects, r \in RepoArchs :
           HasRepo(p, r) /\ HasProject(p)' =>
             /\ HasRepo(p, r)'
             /\ IsPrefix(projects[p].repos[r].jobhist, projects'[p].repos[r].jobhist)
<1>1. ASSUME TypeOK, [Next]_vars
      PROVE  Kept
  <2>1. ASSUME NEW p \in Projects, NEW r \in RepoArchs, HasRepo(p, r), HasProject(p)'
        PROVE  /\ projects[p] # NoProject /\ projects[p].repos[r] # NoRepo
               /\ projects'[p] # NoProject /\ projects'[p].repos[r] # NoRepo
               /\ IsPrefix(projects[p].repos[r].jobhist, projects'[p].repos[r].jobhist)
               /\ Sound(projects[p], projects'[p])
    <3>1. HasProject(p) /\ projects[p].repos[r] # NoRepo
      BY <2>1 DEF HasRepo
    <3>2. Sound(projects[p], projects'[p])
      BY <1>1, <2>1, <3>1, StepsAreSound
    <3> QED
      BY <2>1, <3>1, <3>2 DEF Sound, KeepsBuilds, HasProject
  <2>2. ASSUME NEW p \in Projects, NEW r \in RepoArchs, NEW k \in PackageNames,
               HasRecord(p, r, k), HasProject(p)', HasPackage(p, k) => HasPackage(p, k)'
        PROVE  BuildsSurvive(p, r, k)
    <3>1. HasRepo(p, r) /\ RecordOf(p, r, k) # NoRecord
      BY <2>2 DEF HasRecord, RecordOf
    <3>2. /\ projects[p] # NoProject /\ projects[p].repos[r] # NoRepo
          /\ projects'[p] # NoProject /\ projects'[p].repos[r] # NoRepo
          /\ Sound(projects[p], projects'[p])
      BY <2>1, <2>2, <3>1
    <3>3. projects[p].packages[k] # NoPackage => projects'[p].packages[k] # NoPackage
      BY <2>2, <3>2 DEF HasPackage, HasProject
    <3>4. Survives(projects[p].repos[r].records[k], projects'[p].repos[r].records[k])
      BY <3>1, <3>2, <3>3 DEF Sound, KeepsBuilds, RecordOf
    <3> QED
      BY <3>2, <3>4 DEF Survives, BuildsSurvive, HasRecord, HasRepo, HasProject, RecordOf
  <2>3. \A t \in Recorded : t[1] \in Projects /\ t[2] \in RepoArchs /\ t[3] \in PackageNames
                           /\ HasRecord(t[1], t[2], t[3])
    BY DEF Recorded
  <2>4. \A t \in Recorded :
          HasProject(t[1])' /\ (HasPackage(t[1], t[3]) => HasPackage(t[1], t[3])')
            => BuildsSurvive(t[1], t[2], t[3])
    BY <2>2, <2>3
  <2>5. \A p \in Projects, r \in RepoArchs :
          HasRepo(p, r) /\ HasProject(p)' =>
            /\ HasRepo(p, r)'
            /\ IsPrefix(projects[p].repos[r].jobhist, projects'[p].repos[r].jobhist)
    BY <2>1 DEF HasRepo, HasProject
  <2> QED
    BY <2>4, <2>5
<1>2. TypeOK /\ [Next]_vars => [Kept]_vars
  BY <1>1
<1> QED
  BY <1>2, TypeCorrectness, PTL DEF Spec, BuildsGoOnlyWithSources

\* Only a branch that makes its target project leaves builds whose package is
\* not there.
THEOREM BuildsHaveSources == Spec => OrphansComeFromBranching
<1> DEFINE Clean ==
      (reply'.op = "branch" => \A p \in Projects : HasProject(p) <=> HasProject(p)') =>
        Orphans' \subseteq Orphans
<1>1. ASSUME TypeOK, [Next]_vars,
             reply'.op = "branch" => \A p \in Projects : HasProject(p) <=> HasProject(p)',
             NEW t \in Orphans'
      PROVE  t \in Orphans
  <2> DEFINE p == t[1]
             r == t[2]
             k == t[3]
  <2>1. /\ t \in Projects \X RepoArchs \X PackageNames
        /\ projects'[p] # NoProject /\ projects'[p].repos[r] # NoRepo
        /\ projects'[p].repos[r].records[k] # NoRecord /\ projects'[p].packages[k] = NoPackage
    BY <1>1 DEF Orphans, Recorded, HasRecord, HasRepo, HasPackage, HasProject
  <2>2. p \in Projects /\ r \in RepoArchs /\ k \in PackageNames
    BY <2>1
  <2> HIDE DEF p, r, k
  <2>3. HasProject(p)
    <3> SUFFICES ASSUME projects[p] = NoProject
                 PROVE  FALSE
      BY DEF HasProject
    <3>1. projects \in [Projects -> Project \cup {NoProject}]
      BY <1>1 DEF TypeOK
    <3>2. PICK q \in Projects : Replaces(q) \/ Makes(q) \/ Removes(q)
      BY <1>1, <2>1, NextChanges DEF Changes
    <3>3. q = p
      BY <2>1, <2>2, <3>1, <3>2 DEF Replaces, Makes, Removes
    <3>4. Makes(p)
      BY <2>1, <2>2, <3>1, <3>2, <3>3 DEF Replaces, Removes, HasProject
    <3>5. projects'[p].repos = NoRepos
      BY <1>1, <2>1, <2>2, <3>1, <3>4 DEF Makes, HasProject
    <3> QED
      BY <2>1, <2>2, <3>5 DEF NoRepos
  <2>4. Sound(projects[p], projects'[p])
    BY <1>1, <2>1, <2>2, <2>3, StepsAreSound DEF HasProject
  <2>5. /\ projects[p].repos[r] # NoRepo /\ projects[p].repos[r].records[k] # NoRecord
        /\ projects[p].packages[k] = NoPackage
    BY <2>1, <2>2, <2>4 DEF Sound, AddsNoOrphans
  <2>6. HasRecord(p, r, k) /\ ~HasPackage(p, k)
    BY <2>3, <2>5 DEF HasRecord, HasRepo, HasPackage
  <2> QED
    BY <2>1, <2>6 DEF Orphans, Recorded, p, r, k
<1>2. TypeOK /\ [Next]_vars => [Clean]_vars
  BY <1>1
<1> QED
  BY <1>2, TypeCorrectness, PTL DEF Spec, OrphansComeFromBranching

\* The handlers that read agree on a build in whatever state they find the
\* server: none of them needs anything of the steps that led there.
THEOREM ReadersAgree == Spec => []ReadsAgree
<1>1. ASSUME NEW p \in Projects, HasProject(p), NEW k \in ProjectPackages(p),
             NEW r \in ProjectRepos(p)
      PROVE  LET status == PackageStatus(p, r, k)
                 listed == k \in DOMAIN Results(p, r, {})
             IN  /\ status.code = "ok"
                 /\ ResultsError(p, {k}) = "ok"
                 /\ listed <=> BuildLog(p, r, k) = "ok"
                 /\ BuildHistory(p, r, k) # << >> => listed
                 /\ listed <=> k \in DOMAIN Results(p, r, {k})
                 /\ status.status = IF listed THEN Results(p, r, {})[k] ELSE DefaultStatus
                 /\ listed => Results(p, r, {k})[k] = status.status
                 /\ \A file \in BinaryList(p, r, k) : BinaryFile(p, r, k, file) = "ok"
  <2> DEFINE status == PackageStatus(p, r, k)
             listed == k \in DOMAIN Results(p, r, {})
  <2>1. k \in PackageNames /\ r \in RepoArchs /\ HasPackage(p, k) /\ HasRepo(p, r)
    BY DEF ProjectPackages, ProjectRepos
  <2>2. ReadError(p, r, k) = "ok"
    BY <1>1, <2>1 DEF ReadError
  <2>3. listed <=> HasRecord(p, r, k)
    BY <2>1 DEF Results
  <2>4. status.code = "ok"
        /\ status.status = IF HasRecord(p, r, k) THEN RecordOf(p, r, k).status ELSE DefaultStatus
    BY <2>2 DEF PackageStatus
  <2>5. ResultsError(p, {k}) = "ok"
    BY <1>1 DEF ResultsError
  <2>6. listed <=> BuildLog(p, r, k) = "ok"
    BY <2>2, <2>3 DEF BuildLog
  <2>7. BuildHistory(p, r, k) # << >> => listed
    BY <2>3 DEF BuildHistory
  <2>8. listed <=> k \in DOMAIN Results(p, r, {k})
    BY <2>1, <2>3 DEF Results
  <2>9. listed => /\ Results(p, r, {})[k] = RecordOf(p, r, k).status
                  /\ Results(p, r, {k})[k] = RecordOf(p, r, k).status
    BY <2>1, <2>3 DEF Results
  <2>10. \A file \in BinaryList(p, r, k) : BinaryFile(p, r, k, file) = "ok"
    BY <2>2 DEF BinaryFile
  <2> HIDE DEF status, listed
  <2>11. status.status = IF listed THEN Results(p, r, {})[k] ELSE DefaultStatus
    BY <2>3, <2>4, <2>9
  <2>12. listed => Results(p, r, {k})[k] = status.status
    BY <2>3, <2>4, <2>9
  <2> QED
    BY <2>4, <2>5, <2>6, <2>7, <2>8, <2>10, <2>11, <2>12 DEF status, listed
<1>2. ReadsAgree
  BY <1>1 DEF ReadsAgree
<1> QED
  BY <1>2, PTL
=============================================================================

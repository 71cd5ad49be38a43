\* Two projects, two packages and one repository: builds made, copied by
\* branches, restarted and deleted.
CONSTANTS
  standard = standard
  x86 = x86
  arm = arm
  Projects = {p1, p2}
  PackageNames = {k1, k2}
  RepoArchs <- OnePair
  NoProject = NoProject
  NoPackage = NoPackage
  NoRepo = NoRepo
  NoRecord = NoRecord
  Every = Every
  DisabledLists <- NothingDisabled
  Statuses = {DefaultStatus, s1}
  DefaultStatus = DefaultStatus
  Modes = {DefaultModes}
  DefaultModes = DefaultModes
  RepoCodes = {c1}
  Logs = {l1}
  NoLog = NoLog
  BinaryNames = {b1}
  HistoryEntries = {h1}
  MaxStored = 4
VIEW store
SYMMETRY NameSymmetry
SPECIFICATION Spec
INVARIANTS TypeOK ReadsAgree
PROPERTIES BuildsGoOnlyWithSources OrphansComeFromBranching

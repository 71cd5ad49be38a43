\* One package built for two architectures, of which its _meta disables none,
\* one or both.
CONSTANTS
  standard = standard
  x86 = x86
  arm = arm
  Projects = {p1}
  PackageNames = {k1}
  RepoArchs <- TwoArchs
  NoProject = NoProject
  NoPackage = NoPackage
  NoRepo = NoRepo
  NoRecord = NoRecord
  Every = Every
  DisabledLists <- SomeDisabled
  Statuses = {DefaultStatus, s1}
  DefaultStatus = DefaultStatus
  Modes = {DefaultModes}
  DefaultModes = DefaultModes
  RepoCodes = {c1}
  Logs = {l1}
  NoLog = NoLog
  BinaryNames = {}
  HistoryEntries = {h1}
  MaxStored = 2
VIEW store
SPECIFICATION Spec
PROPERTIES DisabledBuildsAreLeftAlone

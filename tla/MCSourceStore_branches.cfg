\* Two projects, one package name: branching back and forth, overwriting and
\* deleting.
CONSTANTS
  c1 = c1
  c2 = c2
  Projects = {p1, p2}
  PackageNames = {k1}
  UserFiles <- OneFile
  Versions = {}
  NoVersion = NoVersion
  Srcmd5s = {s1}
  ZERO_REV_SRCMD5 = ZERO_REV_SRCMD5
  NoneDisabled = NoneDisabled
  DisabledLists = {NoneDisabled}
  RepoArchs = {}
  NoRepo = NoRepo
  NoPackage = NoPackage
  MaxRevs = 2
  MaxMetaRevs = 1
  MaxFiles = 4
  MaxListLen = 1
VIEW store
SYMMETRY ProjectSymmetry
SPECIFICATION Spec
INVARIANTS TypeOK StoredFilesResolve
PROPERTIES FailedRequestChangesNothing OnlyReplacingLosesHistory

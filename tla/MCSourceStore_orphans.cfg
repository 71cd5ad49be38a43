\* Records of packages without sources after a branch.
CONSTANTS
  c1 = c1
  c2 = c2
  Projects = {p1, p2}
  PackageNames = {k1, k2}
  UserFiles <- NoFiles
  Versions = {}
  NoVersion = NoVersion
  Srcmd5s = {s1}
  ZERO_REV_SRCMD5 = ZERO_REV_SRCMD5
  NoneDisabled = NoneDisabled
  DisabledLists = {NoneDisabled}
  RepoArchs = {r1}
  NoRepo = NoRepo
  NoPackage = NoPackage
  MaxRevs = 1
  MaxMetaRevs = 1
  MaxFiles = 2
  MaxListLen = 0
VIEW store
SPECIFICATION Spec
SYMMETRY NameSymmetry
INVARIANT RepoPackagesHaveSources

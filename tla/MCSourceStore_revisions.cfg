\* One package, up to three revisions of two versions, with lists that repeat a
\* path, and metadata that changes.
CONSTANTS
  c1 = c1
  c2 = c2
  Projects = {p1}
  PackageNames = {k1}
  UserFiles <- TwoContents
  Versions = {v1}
  NoVersion = NoVersion
  Srcmd5s = {s1}
  ZERO_REV_SRCMD5 = ZERO_REV_SRCMD5
  NoneDisabled = NoneDisabled
  DisabledLists = {NoneDisabled}
  RepoArchs = {}
  NoRepo = NoRepo
  NoPackage = NoPackage
  MaxRevs = 3
  MaxMetaRevs = 2
  MaxFiles = 4
  MaxListLen = 2
VIEW store
SPECIFICATION Spec
INVARIANTS VrevsNumberRevisions ReadsNeverPanic

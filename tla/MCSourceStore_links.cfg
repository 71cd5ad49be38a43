\* One package that branches itself, up to three revisions: a _link that comes
\* and goes.
CONSTANTS
  c1 = c1
  c2 = c2
  Projects = {p1}
  PackageNames = {k1}
  UserFiles <- OwnLink
  Versions = {}
  NoVersion = NoVersion
  Srcmd5s = {s1, s2}
  ZERO_REV_SRCMD5 = ZERO_REV_SRCMD5
  NoneDisabled = NoneDisabled
  DisabledLists = {NoneDisabled}
  RepoArchs = {}
  NoRepo = NoRepo
  NoPackage = NoPackage
  MaxRevs = 3
  MaxMetaRevs = 1
  MaxFiles = 4
  MaxListLen = 2
VIEW store
SPECIFICATION Spec
INVARIANTS LinkInfoTracksLink

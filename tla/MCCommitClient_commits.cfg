\* Two clients commit lists with a common file, a third one files that do not arrive.
CONSTANTS
  c1 = c1
  c2 = c2
  c3 = c3
  x = x
  y = y
  Clients = {c1, c2, c3}
  FileList <- Lists
  Encoded <- Percent
  Projects = {p1}
  PackageNames = {k1}
  UserFiles <- AllFiles
  Versions = {}
  NoVersion = NoVersion
  Srcmd5s <- Digests
  ZERO_REV_SRCMD5 = ZERO_REV_SRCMD5
  NoneDisabled = NoneDisabled
  DisabledLists = {NoneDisabled}
  NoPackage = NoPackage
  Nothing = Nothing
  MaxFaults = 2
CHECK_DEADLOCK FALSE
SPECIFICATION Spec
INVARIANTS TypeOK NothingMissingTwice RevisionsAreAccountedFor
PROPERTIES CommitsAreAtomic EveryoneFinishes

\* A package built for two architectures.  The monitor ends, and then nothing
\* happens any more.
CONSTANTS
  standard = standard
  x86 = x86
  arm = arm
  Pairs <- TwoArchs
  ServerCodes = {"building", "failed", "disabled", "excluded", "succeeded"}
  NoStatus = NoStatus
  NotListed = NotListed
CHECK_DEADLOCK FALSE
SPECIFICATION Spec
INVARIANTS TypeOK VerdictOnQuietAnswer
PROPERTIES KeepsPromise VerdictNotFromDirty EndsOnceSettled

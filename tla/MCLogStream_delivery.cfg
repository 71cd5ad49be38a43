\* Up to two logs of up to three bytes, read from any offset to any end, while
\* the package, its repository and its project come and go.
CONSTANTS
  None = None
  Lengths = {0, 1, 2, 3}
  ChunkSizes <- SomeChunkSizes
  Offsets = {0, 1, 2}
  Ends <- SomeEnds
  MaxUsize = 4
  MaxLogs = 2
SPECIFICATION Spec
INVARIANTS TypeOK
PROPERTIES RefusalsHaveCause DeliversInOrder Terminates

---------------------------- MODULE MCLogStream ----------------------------
\* LogStream on small logs, for TLC.
EXTENDS LogStream

\* A chunk_size of MaxUsize can be added to a start of 0 only.
SomeChunkSizes == {None, 0, 1, 2, MaxUsize}
SomeEnds == {None, 0, 2, 3}
=============================================================================

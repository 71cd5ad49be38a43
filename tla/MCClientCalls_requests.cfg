\* Names of every role that are also words of routes, and all queries of a
\* history of three entries.
CONSTANTS
  Names <- OddNames
  Encoded <- OddlyWritten
  Written <- PercentWritten
  Home <- OneHome
  Jobs <- SomeJobs
  Queries <- SomeQueries
  NotANumber = NotANumber
  MaxJobs = 3
SPECIFICATION Spec
INVARIANTS TypeOK OnlyOddNamesGoAstray
PROPERTIES JobHistoryIsWhatWasAsked

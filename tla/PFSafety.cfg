\* Up to three rows in up to three jobs, two pool threads, two distances, with
\* and without sorting.
SPECIFICATION Spec
CONSTANTS
  MaxLines = 3
  Threads = 2
  RowsPerJob = 1
  JobsPerThread = 2
  Distances <- ZeroOrOne
INVARIANTS
  TypeOK
  FrameIsOurs
  SlicesKept
  ListIsRight

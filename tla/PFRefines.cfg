\* Up to three rows, each a job of its own, two pool threads.
SPECIFICATION Spec
CONSTANTS
  MaxLines = 3
  Threads = 2
  RowsPerJob = 1
  JobsPerThread = 2
  Distances <- OnlyZero
PROPERTIES
  FilterSpec
  PassEnds

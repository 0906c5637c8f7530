SPECIFICATION Spec
CONSTANTS
  Pages <- TwoPages
  Icons <- ThreeIcons
  Missing <- OneMissing
  Threads = 2
  Kinds = {"caches", "queries", "fallback"}
  MaxChanges = 1
  Prompt = TRUE
CHECK_DEADLOCK FALSE
INVARIANTS TypeOK OneJobWhileStarted
PROPERTIES RowsSettle FetchingEnds

SPECIFICATION Spec
CONSTANTS
  Pages <- TwoPages
  Icons <- ThreeIcons
  Missing <- OneMissing
  Threads = 2
  Kinds = {"caches"}
  MaxChanges = 2
  Prompt = TRUE
CHECK_DEADLOCK FALSE
PROPERTY IconsCome

SPECIFICATION Spec
CONSTANTS
  MaxRows = 3
  WordBits = 2
  MultiSelect = TRUE
  Modes = {"any"}
CHECK_DEADLOCK FALSE
PROPERTY NextIsVisible

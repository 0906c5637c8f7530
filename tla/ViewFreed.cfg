SPECIFICATION Spec
CONSTANTS
  Backends = {"xcb"}
  NumModes = 1
  Dialogs = {}
  CountLimit = 2
  AutoSelect = FALSE
  UserTimeout = FALSE
  Blink = FALSE
CHECK_DEADLOCK FALSE
INVARIANT NoUseAfterFree

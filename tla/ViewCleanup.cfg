SPECIFICATION Spec
CONSTANTS
  Backends = {"xcb"}
  NumModes = 1
  Dialogs = {1}
  CountLimit = 2
  AutoSelect = FALSE
  UserTimeout = FALSE
  Blink = FALSE
CHECK_DEADLOCK FALSE
INVARIANT QueueIsEmptyAtCleanup

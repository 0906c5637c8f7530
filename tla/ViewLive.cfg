SPECIFICATION Spec
CONSTANTS
  Backends = {"xcb", "wayland"}
  NumModes = 1
  Dialogs = {}
  CountLimit = 2
  AutoSelect = FALSE
  UserTimeout = TRUE
  Blink = TRUE
CHECK_DEADLOCK FALSE
PROPERTIES RowsShown FilterNotPutOff QuitHandled
INVARIANT ListFollowsInput

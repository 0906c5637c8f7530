SPECIFICATION Spec
CONSTANTS
  Backends = {"xcb"}
  NumModes = 1
  Dialogs = {}
  CountLimit = 2
  AutoSelect = FALSE
  UserTimeout = TRUE
  Blink = FALSE
CHECK_DEADLOCK FALSE
PROPERTY QuitHandled

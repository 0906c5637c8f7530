SPECIFICATION InterfaceSpec
CONSTANTS
  Backends = {"wayland"}
  NumModes = 1
  Dialogs = {1}
  CountLimit = 2
  AutoSelect = TRUE
  UserTimeout = TRUE
  Blink = TRUE
  RepeatKeys = {"a", "b"}
  Turns <- HalfNotches
  Distances <- PadDistances
  MaxTurn = 120
  MaxFrames = 3
  Buffers = {1, 2, 3}
  MaxPools = 4
  Args <- ArgsGiven
  Files <- FilesHold
  MaxSets = 3
CHECK_DEADLOCK FALSE
INVARIANTS InterfaceTypeOK StackSound OptionsSound DrawingSound SeatSound BuffersAreSafe

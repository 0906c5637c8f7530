SPECIFICATION ModesSpec
CONSTANTS
  MaxRows = 3
  WordBits = 2
  MultiSelect = TRUE
  Modes = {"any", "no-custom", "only-match"}
  MaxHistory = 2
  MaxCount = 2
  Rofi = {"p", "q"}
  Replacing = {"q"}
  Launchable = {"a", "b", "c"}
  Ignored = {"c"}
  NumModes = 3
  MaxOfMode = 2
  Names <- CombiNames
  Looks <- ListLooks
  Heights = {1, 5}
  MaxListed = 4
  MaxLen = 3
  Typed <- Strings
  ElementH = 2
  Gap = 1
  Word = 64
  Contents <- BrowserContents
  RootDir = "home"
  HashOf <- BrowserHash
  QueueMax = 1
  PipeSize = 2
  Outputs <- ScriptOutputs
  Words = {"a", "b", "c", "d", "e", "x", "none", "typed"}
  MaxCalls = 3
  Servers = {"x11", "wayland"}
  Windows = {"a", "b"}
  MaxEvents = 3
CHECK_DEADLOCK FALSE
INVARIANTS ModesTypeOK MarksAreKept PrintsTheChoice SelectionSound RowsAreFound OneRofiWrites HistoryKeepsUse EveryFileOnce RowReachesItsMode CallsAreAllowed RowsFollowWindows
PROPERTIES ToggleAdvances ListSteps EditsSound

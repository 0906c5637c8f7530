SPECIFICATION Spec
CONSTANTS
  BlockSize = 2
  ChunkSize = 3
  MinRoom = 2
  MaxText = 4
CHECK_DEADLOCK FALSE
PROPERTIES AllShown JoinReturns
INVARIANTS TypeOK NothingLost LoadedIsComplete BuffersFit

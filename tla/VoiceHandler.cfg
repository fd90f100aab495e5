\* One capture, and the connection is lost: does the handler end?
CONSTANTS
  NoTurn = 0
  End = End
  NoState = NoState
  QueueFrames = 2
  PreRoll = 2
  Onset = 2
  Endpoint = 1
  MaxUtterance = 4
  ChunkFrames = 2
  MaxCaptures = 1
  MaxFrames = 5
SPECIFICATION Spec
PROPERTIES
  HandlerEnds
CHECK_DEADLOCK FALSE

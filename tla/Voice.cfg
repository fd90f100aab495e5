\* Two captures of up to five frames through a queue of two; two loud frames begin a
\* turn, one silent frame or four frames of speech end it.
CONSTANTS
  NoTurn = 0
  End = End
  NoState = NoState
  QueueFrames = 2
  PreRoll = 2
  Onset = 2
  Endpoint = 1
  MaxUtterance = 4
  ChunkFrames = 2
  MaxCaptures = 2
  MaxFrames = 5
SPECIFICATION Spec
INVARIANTS
  CapturingIsServed
  OneConsumer
  TurnsEnd
  FinalIsWhatWasSaid
PROPERTIES
  ImplementsUtterances
  ReaderReturns
CHECK_DEADLOCK FALSE

\* The next stream starts while the one before is still playing.
CONSTANTS
  s1 = s1
  s2 = s2
  Stream = {s1, s2}
  NoStream = NoStream
  PendingLimit = 1
  Capacity = 2
  Watermark = 2
  MaxNodes = 2
  MaxChunks = 2
  MaxGeneration = 3
SPECIFICATION Spec
INVARIANT StreamsDoNotMix
CHECK_DEADLOCK FALSE

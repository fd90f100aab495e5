\* Two streams of up to two chunks through a pending list of one and a ring of
\* two, interrupted at any time, with and without a node at the start.
CONSTANTS
  s1 = s1
  s2 = s2
  Stream = {s1, s2}
  NoStream = NoStream
  PendingLimit = 1
  Capacity = 2
  Watermark = 2
  MaxNodes = 2
  MaxChunks = 2
  MaxGeneration = 3
SPECIFICATION Spec
INVARIANTS
  OrderKept
  RestIsSilent
  CompletedIsHeard
PROPERTIES
  PlaybackEnds
CHECK_DEADLOCK FALSE

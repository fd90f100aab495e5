\* Two responses and one interruption: who closes a stream that lost the floor?
CONSTANTS
  d1 = d1
  d2 = d2
  reader = reader
  vad = vad
  Response = {d1, d2}
  Interrupter = {reader}
  Nobody = Nobody
  MaxChunks = 2
  MaxRevision = 4
SPECIFICATION Spec
INVARIANTS
  NoStreamLeftOpen
CHECK_DEADLOCK FALSE

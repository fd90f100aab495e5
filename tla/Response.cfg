\* Two overlapping responses with up to two chunks each, interrupted from two
\* places.
CONSTANTS
  d1 = d1
  d2 = d2
  reader = reader
  vad = vad
  Response = {d1, d2}
  Interrupter = {reader, vad}
  Nobody = Nobody
  MaxChunks = 2
  MaxRevision = 4
SPECIFICATION Spec
INVARIANTS
  TypeOK
  ActiveIsCurrent
  UndisturbedStreamsClose
  SettlesWhenUndisturbed
PROPERTIES
  ImplementsSpeechWire
  FloorIsGivenBack
CHECK_DEADLOCK FALSE

\* One call of disconnect() and one fault; a tool's three messages.
CONSTANTS
  MaxSockets = 4
  MaxDisconnects = 1
  MaxFaults = 1
  MaxSayings = 1
  MaxSends = 3
SPECIFICATION Spec
INVARIANTS
  GreetingComesFirst
  CapturesEndWithTheirConnection
PROPERTIES
  Reconnects
CHECK_DEADLOCK FALSE

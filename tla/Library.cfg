\* Four small instances in one run; the behaviours of each are its own.
CONSTANTS
  Letters = {a}
  Space = Space
  Slash = Slash
  MaxLength = 4
  MaxUpdates = 4
  Escalation = {e1, e2, e3, e4, e5}
  RetryBudget = 1
  SessionBudget = 4
  FailureThreshold = 2
  Capacity = 10
  Limit = 4
  MaxEnqueues = 11
  Role = {"research", "coding", "local-supervisor"}
  Backend = "deterministic"
  NoTarget = NoTarget
  MinTurns = 5
  Delay = {2000, 6000, 9000}
SPECIFICATION Spec
INVARIANTS
  CircuitKnowsItsCalls
  NoProtectedRecordIsLost
  PassIsEarned
PROPERTIES
  OnlyTheAgreedIsCommitted
CHECK_DEADLOCK FALSE

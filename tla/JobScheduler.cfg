\* Two agents that share the pool, one key, delegation and retries.
CONSTANTS
  a1 = a1
  a2 = a2
  k1 = k1
  Role = {a1, a2}
  Concurrency <- MCConcurrency
  QueueLimit <- MCQueueLimit
  GlobalConcurrency = 2
  GlobalQueueLimit = 2
  Key = {k1}
  NoKey = NoKey
  HeartbeatTimeout = 1
  MinRetryDeadline = 1
  MaxJobs = 3
  MaxTime = 1
  Deadlines = {1}
  RetryBudgets = {1}
  Cancellables = {TRUE, FALSE}
  Delegation = TRUE
SPECIFICATION Spec
ACTION_CONSTRAINT FewerInputs
INVARIANTS
  QueueHoldsExactlyTheWaiting
  ConcurrencyBounded
  QueueBounded
  CancelsOnlyTheCancellable
  KeyNamesNewestAttempt
PROPERTIES
  FifoPerAgent
  TerminalIsFinal
  CancelReachesTheTree
CHECK_DEADLOCK FALSE

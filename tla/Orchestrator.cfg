\* Three utterances, of which one agent's queue can hold one.
CONSTANTS
  t1 = t1
  t2 = t2
  t3 = t3
  Turn = {t1, t2, t3}
  Role <- MCRole
  Backend = "qwen"
  NoTarget = NoTarget
  Targets = {"coding"}
  Texts <- MCTexts
  Concurrency <- MCConcurrency
  QueueLimit <- MCQueueLimit
  GlobalConcurrency = 2
  GlobalQueueLimit = 2
  NoKey = NoKey
SPECIFICATION Spec
INVARIANTS
  SchedulerStaysSound
  OnlyCompletedWorkIsSpoken
  CompletedByItsOwnTurn
PROPERTIES
  NothingConsequentialIsStarted
  JobsEndWithoutOverlap
CHECK_DEADLOCK FALSE

\* Two utterances in progress at once: the run that shows a job nobody starts
\* or finishes.
CONSTANTS
  t1 = t1
  t2 = t2
  t3 = t3
  Turn = {t1, t2, t3}
  Role <- MCRole
  Backend = "qwen"
  NoTarget = NoTarget
  Targets = {"coding"}
  Texts <- MCTexts
  Concurrency <- MCConcurrency
  QueueLimit <- MCQueueLimit
  GlobalConcurrency = 2
  GlobalQueueLimit = 2
  NoKey = NoKey
SPECIFICATION Spec
INVARIANT NoJobLeftBehind
CHECK_DEADLOCK FALSE

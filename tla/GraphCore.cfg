CONSTANTS
  t1 = t1
  t2 = t2
  t3 = t3
  NoTask = NoTask
  Tasks = {t1, t2}
  Helpers = {}
  Parent <- NoParent
  FailureLimit = 2
  Gates = {"time", "event", "watch"}
  WatchTasks = {}
  AskTasks = {}
  TimedTasks = {}
  OwnerTargets = {"abandoned"}
  MaxEpoch = 2
SPECIFICATION Spec
SYMMETRY Symmetry
CHECK_DEADLOCK FALSE
INVARIANTS
  TypeOK
  TerminalInert
  ClosedWasJudged
  CompletionEarned
  DeniedNeverRetried
  DoneHasResult
PROPERTIES
  JudgedOnce
  StartsClean
  KeepsPromise

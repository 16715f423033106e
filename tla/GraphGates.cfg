CONSTANTS
  t1 = t1
  t2 = t2
  t3 = t3
  NoTask = NoTask
  Tasks = {t1}
  Helpers = {}
  Parent <- NoParent
  FailureLimit = 2
  Gates = {"time", "event", "watch"}
  WatchTasks = {t1}
  AskTasks = {t1}
  TimedTasks = {t1}
  OwnerTargets = {"abandoned", "superseded", "waiting", "failed"}
  MaxEpoch = 3
SPECIFICATION Spec
CHECK_DEADLOCK FALSE
INVARIANTS
  ClosedWasJudged
PROPERTIES
  StartsClean
  AskEndsByAnswer

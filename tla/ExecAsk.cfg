CONSTANTS
  t1 = t1
  t2 = t2
  h1 = h1
  NoTask = NoTask
  Tasks = {t1}
  Helpers = {h1}
  Parent <- OneParent
  FailureLimit = 1
  Gates = {}
  WatchTasks = {}
  AskTasks = {t1}
  TimedTasks = {}
  OwnerTargets = {"abandoned"}
  MaxEpoch = 2
  MaxRestarts = 1
SPECIFICATION XSpec
CHECK_DEADLOCK FALSE
INVARIANTS
  XTypeOK
  OneUnfinishedAttempt
  ThreadHoldsItsRow
  OneOpenCall
  CallStopsWithItsTask
  FinishedTaskQuiet
PROPERTIES
  ImplementsGraph

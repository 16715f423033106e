CONSTANTS
  t1 = t1
  t2 = t2
  h1 = h1
  NoTask = NoTask
  Tasks = {t1}
  Helpers = {}
  Parent <- NoParent
  FailureLimit = 1
  Gates = {}
  WatchTasks = {}
  AskTasks = {}
  TimedTasks = {}
  OwnerTargets = {"abandoned"}
  MaxEpoch = 2
  MaxRestarts = 1
SPECIFICATION FairSpec
CHECK_DEADLOCK FALSE
PROPERTIES
  JudgmentComes
  InFlightEnds

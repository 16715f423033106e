CONSTANTS
  t1 = t1
  t2 = t2
  t3 = t3
  NoTask = NoTask
  Tasks = {t1, t2, t3}
  Helpers = {}
  Parent <- NoParent
  FailureLimit = 2
  Gates = {}
  WatchTasks = {}
  AskTasks = {}
  TimedTasks = {}
  OwnerTargets = {"abandoned"}
  MaxEpoch = 0
SPECIFICATION Spec
SYMMETRY Symmetry
CHECK_DEADLOCK FALSE
INVARIANTS
  Acyclic
PROPERTIES
  OrderSurvives

SPECIFICATION Spec
CHECK_DEADLOCK FALSE
CONSTANTS
  t1 = t1
  t2 = t2
  Tasks = {t1}
  Linked = {t1}
  MaxEpoch = 1
  MaxCrashes = 0
INVARIANTS LiveAskIsAnswerable

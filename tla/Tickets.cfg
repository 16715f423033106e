SPECIFICATION FairSpec
CHECK_DEADLOCK FALSE
CONSTANTS
  t1 = t1
  t2 = t2
  Tasks = {t1, t2}
  Linked = {t2}
  MaxEpoch = 1
  MaxCrashes = 1
INVARIANTS ATypeOK AnswerDecides OneQuestionOut
PROPERTIES AnswerLands

CONSTANTS
  w1 = w1
  w2 = w2
  c1 = c1
  b1 = b1
  room = room
  tick = tick
  Works = {w1, w2}
  Concerns = {c1}
  Beliefs = {b1}
  Rooms = {}
  Tick = tick
  Served = {w1}
  Answers = {"revise"}
  MaxApplied = 2
  MaxChanges = 2
  MaxCrashes = 1
SPECIFICATION FairSpec
CHECK_DEADLOCK FALSE
INVARIANTS
  DTypeOK
  NothingLost
  OneTransactionInOrder
  NoLostPoke
  BeliefsWereTold
PROPERTIES
  DecidedOnce
  EveryOutcomeArrives

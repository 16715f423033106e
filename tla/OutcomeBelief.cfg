CONSTANTS
  w1 = w1
  w2 = w2
  c1 = c1
  b1 = b1
  room = room
  tick = tick
  Works = {w1}
  Concerns = {c1}
  Beliefs = {b1}
  Rooms = {}
  Tick = tick
  Served = {w1}
  Answers = {"no_change", "resolve", "revise"}
  MaxApplied = 2
  MaxChanges = 2
  MaxCrashes = 1
SPECIFICATION Spec
CHECK_DEADLOCK FALSE
INVARIANT NoSilentDivergence

SPECIFICATION Spec
CONSTANTS
  None = None
  a = a
  b = b
  c = c
  d = d
  Threads = {a, b, c, d}
  bound_ = 2
  MaxPuts = 4
INVARIANTS InOrder NoMissedWakeup OnePlace Answered RecursionBounded
PROPERTY IsAChannel
CHECK_DEADLOCK FALSE

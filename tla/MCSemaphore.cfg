SPECIFICATION Spec
CONSTANTS
  None = None
  a = a
  b = b
  c = c
  d = d
  Threads = {a, b, c, d}
  initial_count = 1
  MaxN = 3
  MaxPut = 4
INVARIANTS Conserved NoMissedWakeup
PROPERTY OvertakenBySmaller
CHECK_DEADLOCK FALSE

SPECIFICATION Spec
CONSTANTS
  Width = 2
  InBits = {"0", "1", "Z"}
  Strengths = {5, 6}
  Strong = 6
  DelayVals = {1, 3}
  Types = {"VEC4", "VEC8", "REAL"}
  LastTime = 6
  Times <- MCTimes
  MaxRecv = 3
INVARIANTS MinDelayRight Settled
PROPERTIES OnTime
CHECK_DEADLOCK FALSE

SPECIFICATION Spec
CONSTANTS
  Width = 1
  InBits = {"0", "1", "Z"}
  Strengths = {5, 6}
  Strong = 6
  DelayVals = {1, 3}
  Types = {"VEC4"}
  LastTime = 6
  Times <- MCTimes
  MaxRecv = 4
INVARIANTS NewestIsInput
CHECK_DEADLOCK FALSE

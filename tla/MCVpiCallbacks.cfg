SPECIFICATION Spec
CONSTANTS
  Ids = {i1, i2, i3}
  Null = Null
  Signals = {"s"}
  Reasons = {"ValueChange", "ReadOnlySynch", "ReadWriteSynch", "AfterDelay",
             "AtStartOfSimTime", "AtEndOfSimTime", "EndOfCompile", "StartOfSimulation",
             "NextSimTime", "EndOfSimulation"}
  MaxTime = 1
  MaxOps = 5
INVARIANTS WalksSafe ToldLatest CalledPerChange Held
PROPERTIES OneShot
SYMMETRY Symmetric
CHECK_DEADLOCK FALSE

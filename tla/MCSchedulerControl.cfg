CONSTANTS
  Delays = {0, 1}
  MaxEvents = 2
  MaxStops = 2
  Regions = {"start", "active", "inactive", "nbassign", "rwsync", "rosync", "del_thr"}
  Controls = {"finish", "stop", "step", "INT", "TERM", "-n"}
  NoEvent = NoEvent
  NoCall = NoCall
SPECIFICATION FairSpec
INVARIANT LossExplained StopServedFirst
PROPERTIES FinishFreezesTime Terminates

CONSTANTS
  Delays = {0, 1, 2}
  MaxEvents = 4
  MaxStops = 0
  Regions = {"active", "inactive", "nbassign", "rwsync", "rosync"}
  Controls = {}
  NoEvent = NoEvent
  NoCall = NoCall
SPECIFICATION Spec
INVARIANTS OnTime FullInv RunsInOrder Stratified
PROPERTIES PushedRunFirst

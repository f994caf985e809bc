SPECIFICATION Spec
CONSTANTS
  Absent = Absent
  NodeIds <- MCNodeIds
  Environments <- MCEnvironments
  ChanCap = 1
  WireCap = 1
  MaxEvents = 3
  MaxLosses = 1
CHECK_DEADLOCK FALSE
INVARIANTS
  PageLive
  StatusLive

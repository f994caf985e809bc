SPECIFICATION FairReaders
CONSTANTS
  sensor = sensor
  SENSOR = SENSOR
  Empty = Empty
  Absent = Absent
  NoLabel = "none"
  NodeIds <- MCNodeIds
  Words <- MCWords
  Lower <- MCLower
  Labels <- MCLabels
  Segment <- MCSegment
  InitialFabrics <- MCFabrics
  Environments <- MCCalm
  Removable = {4}
  RetainState = TRUE
  PublishNames = TRUE
  EventsCap = 2
  MaxChanges = 2
  MaxHiccups = 1
CHECK_DEADLOCK FALSE
PROPERTIES
  IsMirror
  EventuallyConverged

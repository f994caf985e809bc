SPECIFICATION Spec
CONSTANTS
  sensor = sensor
  SENSOR = SENSOR
  Empty = Empty
  Absent = Absent
  NoLabel = "none"
  NodeIds <- MCNodeIds
  Words <- MCWords
  Lower <- MCLower
  Labels <- MCLabels
  Segment <- MCSegment
  InitialFabrics <- MCFabrics
  Environments <- MCEnvironments
  Removable = {4}
  RetainState = TRUE
  PublishNames = TRUE
  EventsCap = 2
  MaxChanges = 2
  MaxHiccups = 2
CHECK_DEADLOCK FALSE
INVARIANTS
  TypeOK
  NamesInSync
  OneOwner
  TrackedCovers
  DownMeansOffline
  NumericTreeHeals
PROPERTY NoRegress

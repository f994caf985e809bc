SPECIFICATION Spec
CONSTANTS
  Leaves <- MCLeaves
  Empty = Empty
  None = None
  Requests = {"granted", "refused"}
  MaxReports = 3
  MaxDrops = 2
CHECK_DEADLOCK FALSE
INVARIANTS
  UnrequestedLeavesNothing
  OneOrphanAtMost

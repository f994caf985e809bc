SPECIFICATION Spec
CONSTANTS
  n4 = n4
  n9 = n9
  sensor = sensor
  SENSOR = SENSOR
  other = other
  x = x
  y = y
  Empty = Empty
  None = None
  NodeIds <- MCNodeIds
  Names <- MCNames
  Lower <- MCLower
  InNodes <- MCInNodes
  Device <- MCDevice
  NodeOrders <- MCNodeOrders
  Deployments <- MCDeployments
  ClearOrders <- MCClearOrders
  Fabrics <- MCFabrics
  MaxEvents = 2
  MaxHiccups = 1
CHECK_DEADLOCK FALSE
INVARIANT BindsWhenPublished

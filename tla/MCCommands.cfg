SPECIFICATION CommandSpec
CONSTANTS
  sensor = sensor
  SENSOR = SENSOR
  salotto = salotto
  OnOff = OnOff
  Onoff = Onoff
  Level = Level
  FeatureMap = FeatureMap
  Own = Own
  onoff = onoff
  level = level
  featuremap = featuremap
  own = own
  Toggle = Toggle
  Empty = Empty
  RawObject = RawObject
  None = None
  NoLabel = "none"
  NodeIds <- MCNodeIds
  Words <- MCWords
  Lower <- MCLower
  Labels <- MCLabels
  Segment <- MCSegment
  Endpoints = {1}
  ClusterIds = {6, 8, 9}
  AttributeIds = {0, 1, 3}
  GlobalAttributes <- MCGlobals
  ModelNames <- MCModelNames
  LowerName <- MCLowerName
  Tables <- MCTables
  CommandNames = {Toggle}
INVARIANTS
  NamesDistinct
  NameAddressesOwner
  RoundTrip
  OneCodePath
PROPERTIES
  RenamedForAReason

SPECIFICATION FairSpec
CONSTANTS
  Unset = Unset
  Blank = ""
  Texts <- MCTexts
  AsInt <- MCAsInt
  AsBool <- MCAsBool
  TrimSlash <- MCTrimSlash
  WebsocketURLs = {"ws://m"}
  Loopback = {"127.0.0.1:8099"}
  DefaultPrefix = "matter"
  DefaultURL = "ws://m"
  DefaultAddr = "127.0.0.1:8099"
  Inputs <- MCInputs
  MaxBackoff = 3
  WireCap = 2
  MaxRuns = 2
  MaxLosses = 1
  Environments <- MCEnvironments
CHECK_DEADLOCK FALSE
INVARIANTS
  TypeOK
  GoneMeansOffline
  OnlineWhenConnected
  ConfigEffective
PROPERTIES
  StaleTrueCorrected
  StopEnds

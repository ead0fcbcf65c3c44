\* Connections added and taken away while they work, then STOP.
SPECIFICATION Spec
CONSTANTS
  URLs <- OneUrl
  NoURL = "nourl"
  Address <- AddressOf
  NoAddress = "none"
  IsSsl <- Plain
  RequestLen <- SameLength
  OAuth = FALSE
  NoKeepAlive = FALSE
  ThinkTime = TRUE
  Faults <- NoFaults
  NumConnections = 1
  Modes <- Load
  ResizeTargets <- UpTo2
  MaxResizes = 2
  MaxConnections = 3
  CallerWaits = TRUE
INVARIANTS
  AtMostOneConnectAfterShrink
  RefsAccount
  CleanExit
  ResizeApplied
PROPERTIES
  RefinesPool

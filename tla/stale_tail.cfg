\* URLs whose requests differ in length.
SPECIFICATION Spec
CONSTANTS
  URLs <- ThreeUrls
  NoURL = "nourl"
  Address <- AddressOf
  NoAddress = "none"
  IsSsl <- Plain
  RequestLen <- Unequal
  OAuth = FALSE
  NoKeepAlive = FALSE
  ThinkTime = FALSE
  Faults <- NoFaults
  NumConnections = 1
  Modes <- Load
  ResizeTargets <- NoResize
  MaxResizes = 0
  MaxConnections = 1
  CallerWaits = TRUE
INVARIANTS
  SendsOnlyTheRequest

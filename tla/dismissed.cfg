\* A connection is taken away while it is kept alive.
SPECIFICATION Spec
CONSTANTS
  URLs <- OneUrl
  NoURL = "nourl"
  Address <- AddressOf
  NoAddress = "none"
  IsSsl <- Plain
  RequestLen <- SameLength
  OAuth = FALSE
  NoKeepAlive = FALSE
  ThinkTime = FALSE
  Faults <- NoFaults
  NumConnections = 1
  Modes <- Load
  ResizeTargets <- None
  MaxResizes = 1
  MaxConnections = 1
  CallerWaits = TRUE
PROPERTIES
  DismissedSendNoMore

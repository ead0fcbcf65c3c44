\* A plain server closes before the first byte of a response.
SPECIFICATION FairSpec
CONSTANTS
  URLs <- OneUrl
  NoURL = "nourl"
  Address <- AddressOf
  NoAddress = "none"
  IsSsl <- Plain
  RequestLen <- SameLength
  OAuth = FALSE
  NoKeepAlive = FALSE
  ThinkTime = FALSE
  Faults <- OnlyEof
  NumConnections = 1
  Modes <- Load
  ResizeTargets <- NoResize
  MaxResizes = 0
  MaxConnections = 1
  CallerWaits = TRUE
PROPERTIES
  EofReconnects

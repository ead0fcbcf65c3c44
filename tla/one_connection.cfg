\* One connection with everything that can happen to it: plain and TLS servers, think time, all faults.
SPECIFICATION FairSpec
CONSTANTS
  URLs <- ThreeUrls
  NoURL = "nourl"
  Address <- AddressOf
  NoAddress = "none"
  IsSsl <- OnlyBTls
  RequestLen <- TwoWrites
  OAuth = FALSE
  NoKeepAlive = FALSE
  ThinkTime = TRUE
  Faults <- AllFaults
  NumConnections = 1
  Modes <- Either
  ResizeTargets <- NoResize
  MaxResizes = 0
  MaxConnections = 1
  CallerWaits = TRUE
INVARIANTS
  NeverStranded
  WatcherMatchesSocket
  RequestMatchesServer
  AccountedOnce
  AtMostOneAfterStop
  LoopExistsWhenSignalled
  JustOneRequest
PROPERTIES
  RefinesPool
  StopCompletes
  JustOnceCompletes
  TlsEofReconnects
  Reconnects

\* Two threads record while main resets, reports once in each phase and stops.
SPECIFICATION Spec
CONSTANTS
  NumThreads = 2
  NumAddresses = 7
  MaxRecords = 2
  MaxIntervals = 1
  Modes <- Either
  Phases <- WarmupOrRun
INVARIANTS
  OneOwner
  NothingCountedTwice
  LatenciesMatchResults

\* Every combination of options, limits and CPUs, any thread may fail.
SPECIFICATION FairSpec
CONSTANTS
  ConnectionOptions <- SomeConnections
  ThreadOptions <- SomeThreads
  Durations <- SomeDurations
  ReportSleepTime = 2
  MaxCpus = 1
  MaxUnreadable = 1
  Limits <- SomeLimits
  Unlimited = 9
INVARIANTS
  ConnectionsPlaced
  MeasuredAsAsked
  SamplesAddUp
  DiesOnlyIf

  

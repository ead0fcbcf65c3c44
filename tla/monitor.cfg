\* Two monitored hosts and one socket of the load, with every fault.
SPECIFICATION FairSpec
CONSTANTS
  NumHosts = 2
  NumDescriptors = 3
  NumTags = 2
  MaxIntervals = 1
  Phases <- WithWarmup
  Faults <- AllFaults
  MaxFaults = 2
INVARIANTS
  OnlyOwnDescriptors
  RepliesAnswerCommands
PROPERTIES
  RunEnds

\* Two clients, a backlog of one, and one descriptor for their connections.
SPECIFICATION FairSpec
CONSTANTS
  Clients = {c1, c2}
  Callers <- BothCallers
  ListenBacklog = 1
  MaxDescriptors = 2
  MaxCommands = 2
INVARIANTS
  DescriptorsAccount
  LoopWhileWanted
  SurvivesPoliteClients
PROPERTIES
  StopCompletes
  ClientsAnswered

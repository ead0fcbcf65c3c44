\* Every input of up to eight bytes, in every division into reads.
SPECIFICATION ListSpec
CONSTANTS
  bufSize = 5
  MaxInput = 8
  Readers <- BothReaders
  h = h
  i = i
  Hosts <- TwoHosts
  Texts <- FourTexts
  BadURL = BadURL
  HostAddresses <- TwoMachines
  NoAddress = NoAddress
  NumThreads = 2
INVARIANTS
  LinesAgree
  ListIsTheFile
  OtherSchemeOtherServer

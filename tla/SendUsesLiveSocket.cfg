CONSTANTS
  NumProcs = 1
  SlaveSize = 1
  BasePort = 4
  PortLimit = 16
  Busy <- NoPorts
  Mortal <- OneSlave
  Talkers <- OneTalker
  MaxChunks = 1
SPECIFICATION Spec
CHECK_DEADLOCK FALSE
INVARIANT SendUsesLiveSocket

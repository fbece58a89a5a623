CONSTANTS
  NumProcs = 2
  SlaveSize = 2
  BasePort = 12
  PortLimit = 16
  Busy <- OnePort
  Mortal <- OneSlave
  Talkers <- OneTalker
  MaxChunks = 2
SPECIFICATION FairSpec
CHECK_DEADLOCK FALSE
INVARIANTS TypeOK PointerValid InOrder OwnSocket
PROPERTIES QuitShutsAll StartupCompletes

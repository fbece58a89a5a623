CONSTANTS
  BasePort = 4
  PortLimit = 16
  Busy = {5}
SPECIFICATION SessionSpec
CHECK_DEADLOCK FALSE
INVARIANTS NoOrphan WaitsForItsOwn GdbIsServed
PROPERTIES DeadSocatFails OneEndsAllEnd ConnectionsImplemented MasterEndsSlave SlaveEndForgotten

CONSTANTS
  Values <- EnteredValues
  HandWritten <- TwoFiles
  IntMax = 70000
  MaxActs = 3
SPECIFICATION Spec
CHECK_DEADLOCK FALSE
INVARIANTS TypeOK RoundTrip StartsAsShown SlavesFindMaster SshReleased

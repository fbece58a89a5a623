CONSTANTS
  r0 = r0
  r1 = r1
  b1 = b1
  b2 = b2
  NoBkpt = NoBkpt
  Ranks <- TwoRanks
  Bkpts <- OneBkpt
  BadLines <- None
  Mortal <- OneRank
  MaxNumber = 2
  MaxCmds = 1
  MaxRecords = 1
  MaxSigints = 1
  PatientUser = TRUE
SPECIFICATION FairSpec
PROPERTIES LatchClears ViewImplemented

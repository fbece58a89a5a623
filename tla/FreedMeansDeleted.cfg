CONSTANTS
  r0 = r0
  r1 = r1
  b1 = b1
  b2 = b2
  NoBkpt = NoBkpt
  Ranks <- OneRank
  Bkpts <- OneBkpt
  BadLines <- None
  Mortal <- None
  MaxNumber = 3
  MaxCmds = 2
  MaxRecords = 2
  MaxSigints = 1
  PatientUser = FALSE
SPECIFICATION Spec
INVARIANT FreedMeansDeleted

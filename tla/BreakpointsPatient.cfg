CONSTANTS
  r0 = r0
  r1 = r1
  b1 = b1
  b2 = b2
  NoBkpt = NoBkpt
  Ranks <- TwoRanks
  Bkpts <- TwoBkpts
  BadLines <- None
  Mortal <- None
  MaxNumber = 3
  MaxCmds = 1
  MaxRecords = 1
  MaxSigints = 1
  PatientUser = TRUE
SPECIFICATION Spec
SYMMETRY FullSymmetry
INVARIANTS LatchArmed FreedMeansDeleted StateMatchesGdb NumberIsOwn NoDanglingPointer
PROPERTY StopAllReachesShownIdle

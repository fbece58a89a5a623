CONSTANTS
  f0 = f0
  f1 = f1
  f2 = f2
  NoFile = NoFile
  NumProcs = 2
  Files <- ThreeFiles
  Missing <- OneFile
  Lines = {1, 2}
  FollowChoices = {{0, 1}, {}}
  Places <- ThreePlaces
  NumColors = 1
  MaxIdle = 1
  MaxChunk = 2
SPECIFICATION Spec
INVARIANTS MapsAgree UsedIsOpen LabelsTrue ColorsAgree
CHECK_DEADLOCK FALSE

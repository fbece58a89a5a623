CONSTANTS
  f0 = f0
  f1 = f1
  f2 = f2
  NoFile = NoFile
  NumProcs = 1
  Files <- OneFile
  Missing <- NoFiles
  Lines = {1}
  FollowChoices = {{0}}
  Places <- OnePlace
  NumColors = 1
  MaxIdle = 2
  MaxChunk = 1
SPECIFICATION Spec
INVARIANTS ScrollFindsView

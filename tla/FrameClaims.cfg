CONSTANTS
  Frames <- SmallFrames
  Chunk = 3
  MaxFrames = 1
  Requests <- Boundaries
SPECIFICATION FairSpec
CHECK_DEADLOCK FALSE
INVARIANTS
  OnlyWholeTextsAreReceived
  CompressedTextsAreReceived

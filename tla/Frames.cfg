CONSTANTS
  Frames <- SmallFrames
  Chunk = 3
  MaxFrames = 2
  Requests <- Boundaries
SPECIFICATION FairSpec
CHECK_DEADLOCK FALSE
INVARIANTS
  TypeOK
  SizesAreReadBack
  ReceiverKeepsStep
PROPERTIES
  ImplementsFrameChannel

CONSTANTS
  FrameUnits = 2
  MaxFrames = 3
SPECIFICATION FairSpec
INVARIANTS
  WireInOrder
  HalfCloseAfterLastFrame
  NoStrandedPush
  OneTeardown
PROPERTIES
  QueueDrains

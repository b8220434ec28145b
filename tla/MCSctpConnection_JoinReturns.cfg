CONSTANTS
  FrameUnits = 2
  MaxFrames = 2
SPECIFICATION FairSpec
PROPERTIES
  JoinReturns

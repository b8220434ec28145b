CONSTANTS
  Interval = 2
  MaxTime = 20
  HeaderSize = 2
  Sizes = {2, 3, 5}
  Fallbacks = {2, 3}
  FrameCount = 3
  Receivers = {1, 2}
  Latencies = {1, 101}
  MaxCalls = 2
SPECIFICATION PartsSpec
CHECK_DEADLOCK FALSE
INVARIANTS
  RateKept
  BurstBounded
  FramesWhole
  SummaryAddsUp
  PercentilesNearest

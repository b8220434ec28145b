CONSTANTS
  ServerCount = 1
  MaxConnections = 2
  MaxFrames = 1
SPECIFICATION FairSpec
INVARIANTS
  EchoesConserved
  NoStaleState
  StopLeavesNothing
PROPERTIES
  SignalStopsServer
  EchoReturns

CONSTANTS
  ServerCount = 2
  Conns = {c1, c2}
  StreamCount = 1
  MaxFrames = 2
SPECIFICATION FairSpec
INVARIANTS
  PendingDecides
PROPERTIES
  ImplementsEchoPeer
  StreamsFinish
  SignalEndsServer

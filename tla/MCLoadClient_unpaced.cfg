CONSTANTS
  ClientCount = 2
  ServerCount = 1
  SendServerIndex <- AllServers
  StreamCount = 1
  MaxInflight <- TwoAndOne
  PacingMode = "Unlimited"
  ProfilePps = {}
  MaxMessages = 3
SPECIFICATION Spec
INVARIANTS
  TypeOK
  CloseAfterDrain
  CloseCarriedOut
  WindowKeptFull
  LastEchoCloses
  HandOffInOrder

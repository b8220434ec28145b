CONSTANTS
  ClientCount = 1
  ServerCount = 1
  SendServerIndex <- AllServers
  StreamCount = 2
  MaxInflight <- TwoAndOne
  PacingMode = "Unlimited"
  ProfilePps = {0}
  MaxMessages = 2
SPECIFICATION EchoingSpec
INVARIANTS
  InflightBounded
PROPERTIES
  StopClosesAll

CONSTANTS
  ClientCount = 1
  ServerCount = 1
  SendServerIndex <- AllServers
  StreamCount = 2
  MaxInflight <- TwoEach
  PacingMode = "Unlimited"
  ProfilePps = {}
  MaxMessages = 2
SPECIFICATION Spec
INVARIANTS
  MaxInflightPerConnection

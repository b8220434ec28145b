CONSTANTS
  ClientCount = 2
  ServerCount = 2
  SendServerIndex = 0
  StreamCount = 1
  MaxInflight <- OneEach
  PacingMode = "TotalPps"
  ProfilePps = {}
  MaxMessages = 2
SPECIFICATION Spec
INVARIANTS
  QuietAfterJoin
PROPERTIES
  ImplementsEchoSession

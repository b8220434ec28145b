CONSTANTS
  ClientCount = 1
  ServerCount = 1
  SendServerIndex <- AllServers
  StreamCount = 1
  MaxInflight <- OneEach
  PacingMode = "PerClientPps"
  ProfilePps = {}
  MaxMessages = 2
SPECIFICATION FairSpec
PROPERTIES
  RunReachesJoin

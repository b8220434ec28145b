CONSTANTS
  Configs <- SomeConfigs
  MaxInflight = 1
  MaxMessages = 2
SPECIFICATION FairSpec
INVARIANTS
  TypeOK
  OpenHandles
  CloseAfterDrain
  WindowKeptFull
  
PROPERTIES
  ImplementsEchoSession
  RunEnds

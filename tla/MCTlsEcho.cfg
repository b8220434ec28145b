CONSTANTS
  Configs <- SomeConfigs
  Capacity = 1
SPECIFICATION FairSpec
INVARIANTS
  NoMutualBlock
PROPERTIES
  ClientEnds
  ServerEnds

SPECIFICATION Spec
CONSTANTS
  UnitsPerSecond = 1000
  NumServers = 1
  NumPackets = 1
  IsTCP = TRUE
  IsPortTest = FALSE
  TestLength = 16
  SamplesPerReplay = 100
  Faulty = {}
INVARIANT NoPanic

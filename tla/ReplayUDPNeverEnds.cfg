SPECIFICATION FairSpec
CONSTANTS
  UnitsPerSecond = 1000
  NumServers = 1
  NumPackets = 1
  IsTCP = FALSE
  IsPortTest = FALSE
  TestLength = 16
  SamplesPerReplay = 100
  Faulty = {}
PROPERTY Terminates

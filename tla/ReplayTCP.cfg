SPECIFICATION FairSpec
CONSTANTS
  UnitsPerSecond = 1000
  NumServers = 2
  NumPackets = 2
  IsTCP = TRUE
  IsPortTest = FALSE
  TestLength = 16
  SamplesPerReplay = 100
  Faulty = {2}
INVARIANTS TypeOK QuiescentOnSuccess ErrorsCancel ErrorHasCause
PROPERTIES ImplementsJoin EndsUnlessServerStaysOpen SuccessReleases

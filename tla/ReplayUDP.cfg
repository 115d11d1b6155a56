SPECIFICATION FairSpec
CONSTANTS
  UnitsPerSecond = 1000
  NumServers = 2
  NumPackets = 2
  IsTCP = FALSE
  IsPortTest = FALSE
  TestLength = 16
  SamplesPerReplay = 100
  Faulty = {1, 2}
INVARIANTS IndInv ClosedUnderCancelOnly SuccessMeansNoFailure
PROPERTIES AtMostOnePacketAfterCancel CancellationDrains ErrorSettles

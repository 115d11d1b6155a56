SPECIFICATION FairSpec
CONSTANTS
  NumServers = 3
  NumTests = 2
  UseMLab = TRUE
  SampleCounts = {100, 200}
  UseDefaultThresholds = TRUE
  AreaThreshold = 50
  Areas = {20, 40, 60}
INVARIANTS TypeOK ReplayAgreed ThroughputsComplete ResultsComplete ChannelsReleased PermissionsCurrent ReadIffWellFormed
PROPERTIES SessionsInOrder ImplementsLoop EndsUnlessBlocked

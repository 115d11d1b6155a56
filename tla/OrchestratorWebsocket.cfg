SPECIFICATION Spec
CONSTANTS
  NumServers = 1
  NumTests = 2
  UseMLab = TRUE
  SampleCounts = {100, 200}
  UseDefaultThresholds = TRUE
  AreaThreshold = 50
  Areas = {20, 40, 60}
INVARIANT WebsocketOpenDuringTest

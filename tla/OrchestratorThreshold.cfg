SPECIFICATION Spec
CONSTANTS
  NumServers = 2
  NumTests = 1
  UseMLab = TRUE
  SampleCounts = {100, 200}
  UseDefaultThresholds = TRUE
  AreaThreshold = 50
  Areas = {20, 40, 60}
INVARIANT ThresholdOfResult

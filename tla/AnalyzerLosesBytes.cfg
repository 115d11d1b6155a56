SPECIFICATION Spec
CONSTANTS
  UnitsPerSecond = 1000
  ReplayLength = 2000
  NumberOfSamples = 4
  Chunk = 125000
  MaxReads = 1
  MaxTicks = 1
INVARIANT BytesConserved

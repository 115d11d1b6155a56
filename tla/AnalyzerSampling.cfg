SPECIFICATION Spec
CONSTANTS
  UnitsPerSecond = 1000
  ReplayLength = 2000
  NumberOfSamples = 4
  Chunk = 125000
  MaxReads = 2
  MaxTicks = 3
INVARIANTS TypeOK TimesSound BytesConservedUnlessRaced FiguresAligned AtMostOneLateSample

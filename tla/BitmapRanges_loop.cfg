SPECIFICATION LoopSpec
CONSTANTS
  KeyCount = 4
  ChunkSize = 2
  MaxArgument = 8
PROPERTY
  FromRangeReturns

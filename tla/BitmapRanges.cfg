SPECIFICATION Spec
CONSTANTS
  KeyCount = 4
  ChunkSize = 3
  MaxArgument = 12
INVARIANTS HoldsMembers RangeQueriesAgree
PROPERTY
  FromRangeReturns

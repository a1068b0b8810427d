SPECIFICATION Spec
CONSTANTS
  ChunkSize = 8
  DEFAULT_MAX_SIZE = 3
  BITSET_SIZE_IN_BYTES = 7
  ARRAY_LAZY_LOWERBOUND = 2
  arbitrary_threshold = 2
  WordBits = 2
  block_gap = 1
  KeyCount = 3
  Counts = {0, 1, 3, 9}
  Targets = {0, 2, 7, 8, 12, 19, 23}
INVARIANTS HoldsMembers StaysValid QueriesAgree AsAsked
PROPERTY RefinesCursor
CHECK_DEADLOCK FALSE

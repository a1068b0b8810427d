SPECIFICATION Spec
CONSTANTS
  ChunkSize = 6
  DEFAULT_MAX_SIZE = 2
  BITSET_SIZE_IN_BYTES = 5
  ARRAY_LAZY_LOWERBOUND = 2
  arbitrary_threshold = 2
  WordBits = 2
  block_gap = 1
  KeyCount = 3
  DoublingLimit = 4
  Ends = {0, 5, 6, 17}
  Offsets = {1, 6, 9}
  MaxChanges = 3
  Counts = {0, 1, 3, 20}
  Targets = {0, 5, 6, 10, 17}
INVARIANTS HoldsMembers SlotsMatchLeaves QueriesAgree CacheDescribes
PROPERTY RefinesCursor
CHECK_DEADLOCK FALSE

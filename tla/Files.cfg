SPECIFICATION Spec
CONSTANTS
  ChunkSize = 32
  DEFAULT_MAX_SIZE = 2
  BITSET_SIZE_IN_BYTES = 4
  FROZEN_COOKIE = 5
  ARRAY_LAZY_LOWERBOUND = 1
  arbitrary_threshold = 1
  KeyCount = 6
  BucketKeys = 3
  Spans64 = {{3}, {33, 36}, {40}, {97, 130}, {90, 190}}
  Spans32 = {{0}, {2, 9}, {31, 101}, {5}, {64, 300}, {319}}
  MaxChanges = 4
  TearFrozen = FALSE
  FreezeShared = FALSE
  Unusual = {}
INVARIANTS HoldsMembers RoundTrip TornRejected ViewsAgree MemorySafe

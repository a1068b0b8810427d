SPECIFICATION Spec
CONSTANTS
  ChunkSize = 3
  DEFAULT_MAX_SIZE = 1
  BITSET_SIZE_IN_BYTES = 3
  ARRAY_LAZY_LOWERBOUND = 1
  arbitrary_threshold = 1
  WordBits = 1
  block_gap = 1
  KeyCount = 3
  Chunks = {{}, {0}, {1, 2}}
  ChainKeys = 2
  MaxSteps = 2
  FlagKept = TRUE
  KeysMayFail = FALSE
  MixedWhenShared = FALSE
  KeptOverCopy = FALSE
INVARIANTS HoldsMembers NothingDangles SharedOnlyInCow QueriesAgree ContextCurrent
CHECK_DEADLOCK FALSE

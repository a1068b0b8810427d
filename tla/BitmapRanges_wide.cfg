SPECIFICATION WideSpec
CONSTANTS
  KeyCount = 2
  ChunkSize = 2
  MaxArgument = 8
INVARIANT
  HoldsMembers

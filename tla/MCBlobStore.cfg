SPECIFICATION Spec
CONSTANTS
  NFiles = 2
  Contents <- MCContents
  Ranges <- MCRanges
  BlockSize = 2
  ChunkSize = 4
  MaxChanges = 1
INVARIANTS
  TypeOK
  DedupAccounting
  NoDuplicateChunk
PROPERTY
  ImplementsFileStore
CHECK_DEADLOCK FALSE

SPECIFICATION Spec
CONSTANTS
  U8 = 16
  U16 = 16
  U32 = 64
  BlkSzBits = 3
  Epoch = 100
  Inodes <- Older
INVARIANTS
  MtimePreserved
CHECK_DEADLOCK FALSE

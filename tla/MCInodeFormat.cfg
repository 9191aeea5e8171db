SPECIFICATION Spec
CONSTANTS
  U8 = 16
  U16 = 16
  U32 = 64
  BlkSzBits = 3
  Epoch = 100
  Inodes <- MCInodes
INVARIANTS
  TypeOK
  AttributesPreserved
  XattrsPreserved
  DataFound
CHECK_DEADLOCK FALSE

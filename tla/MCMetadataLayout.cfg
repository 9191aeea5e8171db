SPECIFICATION Spec
CONSTANTS
  BlockSize = 8
  SlotSize = 2
  ExtendedSize = 4
  MetaSizes = {2, 3, 4, 9}
  DirSizes = {8, 16}
  MaxInodes = 4
INVARIANTS
  TypeOK
  NoPanic
  ReaderFindsWhatWasWritten
PROPERTY
  ImplementsAllocator
CHECK_DEADLOCK FALSE

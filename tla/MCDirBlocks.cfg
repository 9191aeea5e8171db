SPECIFICATION Spec
CONSTANTS
  BlockSize = 14
  DirentSize = 3
  Dot = 2
  FtDir = 2
  ChildLists <- MCChildLists
  Targets <- MCTargets
  NoName = NoName
INVARIANTS
  TypeOK
  ListingExact
  LookupExact
PROPERTY
  Completes
CHECK_DEADLOCK FALSE

CONSTANTS
  Files <- MCFiles
  Root = 1
  NoFile = 0
  LinkFile = 9
  Names <- MCNames
  Lossy <- MCLossy
  XattrIndex <- MCXattrIndex
  Sources <- MCSources
  Moving <- MovingSources
  Arguments = {"dir", "link", "file"}
  MaxChanges = 2
  MaxErrors = 1
SPECIFICATION Spec
CHECK_DEADLOCK FALSE
PROPERTY WalksSource
PROPERTY Terminates
INVARIANT TypeOK
INVARIANT TreeCopied
INVARIANT ParentHoldsChild
INVARIANT FormsATree

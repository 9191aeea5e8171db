CONSTANTS
  Files <- MCFiles
  Root = 1
  NoFile = 0
  LinkFile = 9
  Names <- MCNames
  Lossy <- MCLossy
  XattrIndex <- MCXattrIndex
  Sources <- Replaced
  Moving <- Replaced
  Arguments = {"dir"}
  MaxChanges = 1
  MaxErrors = 0
SPECIFICATION Spec
CHECK_DEADLOCK FALSE
INVARIANT ParentsWired

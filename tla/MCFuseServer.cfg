SPECIFICATION Spec
CONSTANTS
  Clients = {c1, c2}
  Workers = {w1, w2}
  Dirs = {"etc", "tmp", "bad"}
  DirEntries <- MCDirEntries
  BadDirs = {"bad"}
  MaxBatch = 2
  MaxOpens = 2
  MaxFailures = 2
INVARIANTS
  TypeOK
  StreamHasHandle
  HandleHasOneOwner
  ListingExact
PROPERTIES
  AnsweredWhileAWorkerLives
  SignalFreesClients
CHECK_DEADLOCK FALSE

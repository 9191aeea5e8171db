CONSTANTS
  Nodes = {"root", "sub", "file", "link"}
  Names = {".", "..", "a", "b", "l", "x"}
  Attrs = {"user", "acl"}
  AttrLen <- MCAttrLen
  Images <- Placements
  MaxBuf = 6
SPECIFICATION OpsSpec
INVARIANT OpsTypeOK
INVARIANT InoNamesOneFile
INVARIANT RepliesAboutAskedFile
INVARIANT SizeIsEnough

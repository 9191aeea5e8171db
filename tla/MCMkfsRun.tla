----------------------------- MODULE MCMkfsRun -----------------------------
EXTENDS MkfsRun

(* A directory has an inode block and a directory block at least.            *)
DirectoryShapes ==
  {[blob |-> 0, meta |-> 2, inos |-> 1], [blob |-> 2, meta |-> 3, inos |-> 2]}

(* The single inode of a link that was given for a directory: one block, which *)
(* BufWriter holds until it is dropped.                                      *)
LinkShapes == {[blob |-> 0, meta |-> 1, inos |-> 1]}

MCShapes == DirectoryShapes \cup LinkShapes
=============================================================================

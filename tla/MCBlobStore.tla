---------------------------- MODULE MCBlobStore ----------------------------
(***************************************************************************)
(* Instance of BlobStore for TLC: blocks of 2 cells, chunks of 2 blocks.    *)
(* The contents are chosen to meet the cases of the chunk loops: the empty  *)
(* file, a tail shorter than a block, a chunk that another chunk has as its *)
(* zero-padded form, an exact chunk, a chunk repeated inside a file and     *)
(* shared between files, and a tail after a full chunk.                     *)
(***************************************************************************)
EXTENDS BlobStore

MCContents ==
  { << >>,
    <<1>>,
    <<1, 0>>,
    <<1, 0, 0, 0>>,
    <<1, 0, 1, 1, 1>>,
    <<1, 0, 0, 0, 1, 0, 0, 0>> }

MCRanges == { [off |-> 0, size |-> 9], [off |-> 0, size |-> 1],
              [off |-> 1, size |-> 2], [off |-> 3, size |-> 3],
              [off |-> 4, size |-> 4], [off |-> 8, size |-> 1] }

=============================================================================

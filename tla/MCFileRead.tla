----------------------------- MODULE MCFileRead -----------------------------
EXTENDS FileRead

(* Blocks of 2 cells; flat files of no block, a part of one, one, one and a    *)
(* part, two; the inode and its tail in block 1, the blocks from 3 on.         *)
FlatFiles ==
  {[layout |-> l, size |-> s, startblk |-> 3, tailAt |-> 3, chunks |-> << >>] :
     l \in {"plain", "inline"}, s \in 0 .. 5}

Chunk(dev, addr) == [device |-> dev, blkaddr |-> addr]
AllOnes == Chunk(15, 255)

(* Chunks of two blocks: in the blob, in the image, all ones; a last one cut.  *)
ChunkFiles ==
  {[layout |-> "chunks", size |-> 10, startblk |-> 0, tailAt |-> 2, chunks |-> c] :
     c \in {<<Chunk(1, 1), Chunk(1, 0), Chunk(0, 3)>>,
            <<Chunk(0, 3), AllOnes, Chunk(1, 0)>>}}
  \cup {[layout |-> "chunks", size |-> 0, startblk |-> 0, tailAt |-> 3,
         chunks |-> << >>]}

AllFiles == FlatFiles \cup ChunkFiles
=============================================================================

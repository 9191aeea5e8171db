--------------------------- MODULE MCInodeFormat ---------------------------
(***************************************************************************)
(* Instances of InodeFormat for TLC.  Integers are scaled to U8 = U16 = 16  *)
(* and U32 = 64, blocks to 8 bytes; every limit has inputs on both sides.   *)
(***************************************************************************)
EXTENDS InodeFormat

X(index, suffix, value) == [index |-> index, suffix |-> suffix, value |-> value]
Fill(n, c) == [i \in 1 .. n |-> c]

(* No xattr; an ACL (empty suffix); lengths off and on the 4-byte grid; an   *)
(* empty value; two entries; the largest ibody that i_xattr_icount counts.  *)
XattrLists ==
  { << >>,
    << X(2, << >>, Fill(3, 7)) >>,
    << X(1, <<5>>, << >>) >>,
    << X(1, <<5>>, Fill(3, 7)), X(6, <<5, 6>>, Fill(15, 8)) >>,
    << X(4, Fill(9, 5), Fill(15, 7)), X(1, Fill(9, 6), Fill(15, 8)) >> }

(* A value of 2^16 bytes; four values that no single u16 limit forbids but   *)
(* whose ibody has more words than a u16 counts.                            *)
LongValue == << X(1, <<5>>, Fill(U16, 7)) >>
ManyValues == [i \in 1 .. 4 |-> X(1, <<i>>, Fill(15, 7))]

Plain ==
  [kind |-> "fifo", uid |-> 0, gid |-> 0, size |-> 0, statSize |-> 0,
   nlink |-> 1, mtime |-> Epoch, nsec |-> 3, xattrs |-> << >>,
   chunks |-> << >>, target |-> << >>, startblk |-> 0, rdev |-> 0,
   chunkbits |-> BlkSzBits]

(* A regular file, its chunks in the blocks from first on *)
File(size, chunkbits, first) ==
  LET n == (size + (2 ^ chunkbits) - 1) \div (2 ^ chunkbits)
  IN [Plain EXCEPT !.kind = "reg", !.size = size, !.statSize = size,
                   !.chunkbits = chunkbits,
                   !.chunks = [c \in 1 .. n |-> first + (2 * c)]]

Symlink(n) == [Plain EXCEPT !.kind = "lnk", !.size = n, !.statSize = n,
                            !.target = Fill(n, 9)]

(* A directory's size is set from its data, statSize is lstat's. *)
Dir(size, statSize, startblk) ==
  [Plain EXCEPT !.kind = "dir", !.size = size, !.statSize = statSize,
                !.startblk = startblk]

Shapes ==
  { File(size, bits, first) :
      size \in {0, 1, 8, 9, 63, 64}, bits \in {3, 4}, first \in {0, 60} }
  \cup { Symlink(n) : n \in {1, 4, 7} }
  \cup { Dir(size, st, blk) : size \in {8, 63}, st \in {0, 64}, blk \in {5, 70} }
  \cup { [Plain EXCEPT !.kind = "dev", !.rdev = d] : d \in {0, 63} }
  \cup { Plain }

(* A file with a hole in the middle                                        *)
Sparse == [File(17, 3, 0) EXCEPT !.chunks[2] = NullAddr]

MCInodes ==
  { [s EXCEPT !.uid = u, !.gid = g, !.nlink = n, !.xattrs = xs,
              !.mtime = t] :
      s \in Shapes \cup {Sparse}, u \in {15, 16}, g \in {15, 16}, n \in {1, 2},
      xs \in XattrLists \cup {LongValue, ManyValues},
      t \in {Epoch - 5, Epoch} }

(* A file whose time is the build's or earlier                              *)
Older == { [File(9, 3, 0) EXCEPT !.mtime = t] : t \in Epoch - 5 .. Epoch }

=============================================================================

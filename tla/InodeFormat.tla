---------------------------- MODULE InodeFormat ----------------------------
(***************************************************************************)
(* One inode from InodeInfo to the view of the mounted image: the header in  *)
(* its compact or extended form, the inline xattrs, and the data that        *)
(* follows (chunk indexes or a symlink target).  serialize_inode             *)
(* (build/inode.rs) writes, ErofsInode (metadata/inode.rs), read_xattrs      *)
(* (fs/meta.rs) and chunk_indexes (fs/data.rs) read.                        *)
(*                                                                         *)
(* The header is a record of its fields; what follows is cells, one per     *)
(* byte, except that a cell may hold a whole integer field.  Integers are    *)
(* cut to their width on disk: U8, U16 and U32 are the numbers of values of  *)
(* the types u8, u16 and u32, scaled down by the instances.                 *)
(***************************************************************************)
EXTENDS Integers, Sequences

CONSTANTS
  U8, U16, U32,   (* 2^8, 2^16, 2^32                                        *)
  BlkSzBits,      (* EROFS_BLKSZBITS, 12 in the code                        *)
  Epoch,          (* the build time, stored in the superblock               *)
  Inodes          (* what phases 1 and 2b may leave in an InodeInfo         *)

CompactSize == 32       (* EROFS_INODE_COMPACT_SIZE       *)
ExtendedSize == 64      (* EROFS_INODE_EXTENDED_SIZE      *)
IbodyHeader == 12       (* EROFS_XATTR_IBODY_HEADER_SIZE  *)
EntryHeader == 4        (* EROFS_XATTR_ENTRY_HEADER_SIZE  *)
ChunkIndexSize == 8     (* EROFS_CHUNK_INDEX_SIZE         *)

(* The data layouts EROFS_INODE_* *)
FlatPlain == 0
FlatInline == 2
ChunkBased == 4

(* EROFS_NULL_ADDR, the block address of a hole: u64::MAX.  A u64 has the    *)
(* width of a u32 and two u16s.                                             *)
NullAddr == (U16 * U16 * U32) - 1

(* The chunks of a file: size.div_ceil(chunksize)                          *)
NChunks(size, chunkbits) == (size + (2 ^ chunkbits) - 1) \div (2 ^ chunkbits)

(* What the builder has found out: a name of an xattr has 255 bytes at most   *)
(* (Linux), --chunksize is a power of 2 that a u32 holds and not below the    *)
(* block size, what lstat finds has a link, and it told the size of a file    *)
(* and the length of a link; directories get their size in phase 2b, and      *)
(* everything else has size 0.                                              *)
InodeOK(i) ==
  /\ i.kind \in {"reg", "dir", "lnk", "dev", "fifo"}
  /\ i.uid \in Nat /\ i.gid \in Nat /\ i.nlink \in Nat \ {0}
  /\ i.size \in Nat /\ i.statSize \in Nat
  /\ i.mtime \in Nat /\ i.nsec \in Nat /\ i.startblk \in Nat
  /\ i.rdev \in 0 .. U32 - 1
  /\ i.xattrs \in Seq([index : Nat, suffix : Seq(Nat), value : Seq(Nat)])
  /\ \A x \in DOMAIN i.xattrs : Len(i.xattrs[x].suffix) < U8
  /\ i.chunks \in Seq(0 .. NullAddr) /\ i.target \in Seq(Nat)
  /\ i.chunkbits \in BlkSzBits .. BlkSzBits + 31
  /\ i.kind = "reg" => /\ i.statSize = i.size
                       /\ Len(i.chunks) = NChunks(i.size, i.chunkbits)
  /\ i.kind = "lnk" => Len(i.target) = i.size /\ i.size < U32
  /\ i.kind \in {"dev", "fifo"} => i.size = 0

ASSUME FormatAssumption ==
  /\ U8 \in Nat \ {0} /\ U16 \in Nat \ {0} /\ U32 \in Nat \ {0}
  /\ BlkSzBits \in Nat /\ Epoch \in Nat
  /\ \A i \in Inodes : InodeOK(i)

VARIABLES
  inode,    (* the InodeInfo                                               *)
  phase,    (* "header", "xattrs": the writer; "cast", "parse", "data",     *)
            (* "done": the reader; "panic": a slice was out of range        *)
  hdr,      (* the header on disk                                          *)
  buf,      (* the cells of the inode's metadata                           *)
  k,        (* index of the next xattr to write                            *)
  pos,      (* where the xattr loops are                                   *)
  seen,     (* the xattrs read back                                        *)
  tail      (* the chunk indexes or the target read back                   *)

vars == <<inode, phase, hdr, buf, k, pos, seen, tail>>

-----------------------------------------------------------------------------
(* Sizes.                                                                  *)

(* Faulty variants, for mutation: no padding; a limit that is off by one;   *)
(* an ibody counted from its entries; metadata sized without the xattrs.    *)
NoRound(n) == n
NotAbove(n, limit) == n > limit
IcountOffByOne(size) == IF size = 0 THEN 0 ELSE ((size - 12) \div 4) % U16

RoundUp4(n) == ((n + 3) \div 4) * 4
Above(n, limit) == n >= limit       (* n > MAX, with limit = MAX + 1 *)

EntrySize(x) == RoundUp4(EntryHeader + Len(x.suffix) + Len(x.value))

(* The first n entries                                                     *)
EntriesSize(xs, n) ==
  LET sum[j \in 0 .. n] == IF j = 0 THEN 0 ELSE sum[j - 1] + EntrySize(xs[j])
  IN sum[n]

IbodySize(xs) ==
  IF xs = << >> THEN 0 ELSE IbodyHeader + EntriesSize(xs, Len(xs))

(* xattr_icount: the size in words, less two; cut to 16 bits.              *)
Icount(size) == IF size = 0 THEN 0 ELSE ((size - 8) \div 4) % U16

IsExtended(i) ==
  \/ Above(i.statSize, U32) \/ Above(i.uid, U16) \/ Above(i.gid, U16)
  \/ i.nlink > 1

HeaderSize(extended) == IF extended THEN ExtendedSize ELSE CompactSize

TailSize(i) ==
  CASE i.kind = "reg" -> Len(i.chunks) * ChunkIndexSize
    [] i.kind = "lnk" -> Len(i.target)
    [] OTHER          -> 0

SizeWithoutXattrs(i) == HeaderSize(IsExtended(i)) + TailSize(i)

(* inode_meta_size *)
MetaSize(i) == HeaderSize(IsExtended(i)) + IbodySize(i.xattrs) + TailSize(i)

-----------------------------------------------------------------------------
(* serialize_inode.                                                        *)

Layout(i) ==
  CASE i.kind = "reg" -> ChunkBased
    [] i.kind = "lnk" -> FlatInline
    [] OTHER          -> FlatPlain

(* compact_i_format and extended_i_format: the version is bit 0, the layout *)
(* starts at bit 1, bit 4 says that nlink is 1.                             *)
IFormat(i) ==
  IF IsExtended(i) THEN 1 + 2 * Layout(i)
  ELSE 2 * Layout(i) + (IF i.kind = "dir" THEN 0 ELSE 16)

(* EROFS_CHUNK_FORMAT_INDEXES | (chunkbits - blkszbits) *)
ChunkFormat(chunkbits) == 32 + (chunkbits - BlkSzBits)

(* i_u: chunk format, low half of the start block, or device number *)
IU(i) ==
  CASE i.kind = "reg" -> ChunkFormat(i.chunkbits)
    [] i.kind = "dir" -> i.startblk % U32
    [] i.kind = "dev" -> i.rdev % U32
    [] OTHER          -> 0

(* The high half of the start block; 0 for the other kinds *)
INb(i) == IF i.kind = "dir" THEN (i.startblk \div U32) % U16 ELSE 0

(* inode.mtime.wrapping_sub(epoch) as u32 *)
MtimeDelta(mtime) == (mtime - Epoch) % U32

(* Device, fifo and socket inodes are written with size 0. *)
SizeField(i) == IF i.kind \in {"dev", "fifo"} THEN 0 ELSE i.size

Header(i) ==
  IF IsExtended(i)
    THEN [fmt |-> IFormat(i), icount |-> Icount(IbodySize(i.xattrs)),
          mode |-> i.kind, nb |-> INb(i), iu |-> IU(i),
          size |-> SizeField(i), uid |-> i.uid, gid |-> i.gid,
          mtime |-> i.mtime, nsec |-> i.nsec, nlink |-> i.nlink]
    ELSE [fmt |-> IFormat(i), icount |-> Icount(IbodySize(i.xattrs)),
          mode |-> i.kind, nb |-> INb(i), iu |-> IU(i),
          size |-> SizeField(i) % U32, uid |-> i.uid % U16,
          gid |-> i.gid % U16, mtime |-> MtimeDelta(i.mtime)]

Zeros(n) == [c \in 1 .. n |-> 0]
Put(cells, offset, data) ==
  [c \in DOMAIN cells |->
     IF c \in offset + 1 .. offset + Len(data) THEN data[c - offset]
     ELSE cells[c]]

(* Writing past the end of the buffer panics. *)
PutOrPanic(offset, data, next) ==
  IF offset + Len(data) <= Len(buf)
    THEN buf' = Put(buf, offset, data) /\ phase' = next
    ELSE buf' = buf /\ phase' = "panic"

Init ==
  /\ inode \in Inodes
  /\ phase = "header"
  /\ hdr = << >>
  /\ buf = << >>
  /\ k = 1
  /\ pos = 0
  /\ seen = << >>
  /\ tail = << >>

WriteHeader ==
  /\ phase = "header"
  /\ hdr' = Header(inode)
  /\ buf' = Zeros(MetaSize(inode))
  /\ pos' = HeaderSize(IsExtended(inode)) + IbodyHeader
  /\ phase' = "xattrs"
  /\ UNCHANGED <<inode, k, seen, tail>>

EntryCells(x) ==
  <<Len(x.suffix) % U8, x.index, Len(x.value) % U16, 0>> \o x.suffix \o x.value

(* One iteration of serialize_xattrs. *)
WriteXattr ==
  /\ phase = "xattrs"
  /\ k <= Len(inode.xattrs)
  /\ LET x == inode.xattrs[k]
     IN /\ PutOrPanic(pos, EntryCells(x), "xattrs")
        /\ pos' = pos + EntrySize(x)
  /\ k' = k + 1
  /\ UNCHANGED <<inode, hdr, seen, tail>>

(* ErofsChunkIndex::new: hi, device, lo; all ones for a hole.  0xFFFF is     *)
(* U16 - 1 and 0xFFFFFFFF is U32 - 1.                                       *)
ChunkIndex(blkaddr) ==
  IF blkaddr = NullAddr THEN <<U16 - 1, U16 - 1, U32 - 1, 0, 0, 0, 0, 0>>
  ELSE <<(blkaddr \div U32) % U16, 1, blkaddr % U32, 0, 0, 0, 0, 0>>

(* extent_offset and inline_off *)
TailOffset == HeaderSize(IsExtended(inode)) + IbodySize(inode.xattrs)

ChunkIndexes(chunks) ==
  [c \in 1 .. Len(chunks) * ChunkIndexSize |->
     ChunkIndex(chunks[((c - 1) \div ChunkIndexSize) + 1])
       [((c - 1) % ChunkIndexSize) + 1]]

TailCells(i) ==
  CASE i.kind = "reg" -> ChunkIndexes(i.chunks)
    [] i.kind = "lnk" -> i.target
    [] OTHER          -> << >>

WriteTail ==
  /\ phase = "xattrs"
  /\ k > Len(inode.xattrs)
  /\ PutOrPanic(TailOffset, TailCells(inode), "cast")
  /\ UNCHANGED <<inode, hdr, k, pos, seen, tail>>

-----------------------------------------------------------------------------
(* The reader, from the header and the cells alone.                        *)

RdExtended == hdr.fmt % 2 = 1
RdLayout == (hdr.fmt \div 2) % 8

(* ErofsInode::xattr_size *)
RdXattrSize == IF hdr.icount = 0 THEN 0 ELSE hdr.icount * 4 + 8

RdDataOffset == HeaderSize(RdExtended) + RdXattrSize

(* ErofsInode's accessors; startblk, rdev and the chunk bits (blkszbits +    *)
(* (chunk_format & 0x1F), fs/data.rs) are readings of i_nb and i_u.          *)
View ==
  [kind  |-> hdr.mode,
   size  |-> hdr.size,
   uid   |-> hdr.uid,
   gid   |-> hdr.gid,
   nlink |-> IF RdExtended THEN hdr.nlink ELSE 1,
   mtime |-> IF RdExtended THEN hdr.mtime ELSE Epoch + hdr.mtime,
   nsec  |-> IF RdExtended THEN hdr.nsec ELSE 0,
   startblk  |-> hdr.nb * U32 + hdr.iu,
   rdev      |-> hdr.iu,
   chunkbits |-> BlkSzBits + (hdr.iu % 32)]

(* read_xattrs: nothing without an ibody; the entries start behind its       *)
(* header (h_shared_count is 0).                                            *)
Cast ==
  /\ phase = "cast"
  /\ pos' = IbodyHeader
  /\ phase' = IF RdXattrSize = 0 THEN "data" ELSE "parse"
  /\ UNCHANGED <<inode, hdr, buf, k, seen, tail>>

(* The byte at p of the xattr area; beyond this inode's metadata the reader  *)
(* sees the next slot, which the model leaves at 0.                         *)
Xattr(p) ==
  LET c == HeaderSize(RdExtended) + p + 1
  IN IF c <= Len(buf) THEN buf[c] ELSE 0
Xattrs(from, to) == [c \in 1 .. to - from |-> Xattr(from + c - 1)]

NameEnd == pos + EntryHeader + Xattr(pos)
ValueEnd == NameEnd + Xattr(pos + 2)
HasEntry == pos + EntryHeader <= RdXattrSize /\ ValueEnd <= RdXattrSize

ParseXattr ==
  /\ phase = "parse"
  /\ HasEntry
  /\ seen' = Append(seen, [index  |-> Xattr(pos + 1),
                           suffix |-> Xattrs(pos + EntryHeader, NameEnd),
                           value  |-> Xattrs(NameEnd, ValueEnd)])
  /\ pos' = RoundUp4(ValueEnd)
  /\ UNCHANGED <<inode, phase, hdr, buf, k, tail>>

EndXattrs ==
  /\ phase = "parse"
  /\ ~ HasEntry
  /\ phase' = "data"
  /\ UNCHANGED <<inode, hdr, buf, k, pos, seen, tail>>

(* ErofsChunkIndex::blkaddr *)
BlkAddr(cells) == cells[1] * U32 + cells[3]

Cells(from, to) ==
  [c \in 1 .. to - from |-> IF from + c <= Len(buf) THEN buf[from + c] ELSE 0]

(* The chunks that chunk_indexes looks for. *)
RdChunks == NChunks(View.size, View.chunkbits)

(* chunk_indexes and blkaddr, or read_symlink. *)
ReadData ==
  /\ phase = "data"
  /\ tail' =
       CASE RdLayout = ChunkBased ->
              [c \in 1 .. RdChunks |->
                 BlkAddr(Cells(RdDataOffset + (c - 1) * ChunkIndexSize,
                               RdDataOffset + c * ChunkIndexSize))]
         [] RdLayout = FlatInline ->
              Cells(RdDataOffset, RdDataOffset + View.size)
         [] OTHER                 -> << >>
  /\ phase' = "done"
  /\ UNCHANGED <<inode, hdr, buf, k, pos, seen>>

Next ==
  \/ WriteHeader \/ WriteXattr \/ WriteTail
  \/ Cast \/ ParseXattr \/ EndXattrs \/ ReadData

Spec == Init /\ [][Next]_vars

-----------------------------------------------------------------------------
(* Properties.                                                             *)

(* The phases do not include "panic": no slice is ever out of the buffer.   *)
TypeOK ==
  /\ inode \in Inodes
  /\ phase \in {"header", "xattrs", "cast", "parse", "data", "done"}
  /\ phase # "header" => Len(buf) = MetaSize(inode)
  /\ k \in 1 .. Len(inode.xattrs) + 1
  /\ pos \in Nat
  /\ \A i \in 1 .. Len(seen) : seen[i].index \in Nat

(* Every attribute that a header narrows comes back whole: the             *)
(* choice of the extended header covers each value that would be cut.  The   *)
(* exception is the time of a compact inode: one that is older than the      *)
(* build, as the files of a tree are, comes back 2^32 seconds too late.      *)
AttributesPreserved ==
  phase = "cast" =>
    /\ View.kind = inode.kind
    /\ View.size = inode.size
    /\ View.uid = inode.uid
    /\ View.gid = inode.gid
    /\ View.nlink = inode.nlink
    /\ inode.kind = "reg" => View.chunkbits = inode.chunkbits
    /\ inode.kind = "dir" => View.startblk = inode.startblk
    /\ inode.kind = "dev" => View.rdev = inode.rdev
    /\ View.mtime = inode.mtime + (IF RdExtended \/ inode.mtime >= Epoch THEN 0
                                  ELSE U32)
    /\ RdExtended => View.nsec = inode.nsec

(* The words of the ibody fit i_xattr_icount.                               *)
IcountFits == IbodySize(inode.xattrs) < 4 * U16 + 8

(* "Extended attributes (xattr) preservation" (README): what is listed and   *)
(* got from the mounted file is what was read from the source file, as long  *)
(* as 16 bits hold the length of each value and the words of them all, and   *)
(* never otherwise.                                                         *)
XattrsPreserved ==
  phase = "done" =>
    (seen = inode.xattrs
     <=> /\ IcountFits
         /\ \A i \in 1 .. Len(inode.xattrs) : Len(inode.xattrs[i].value) < U16)

(* The reader computes the place of the chunk indexes or the target from     *)
(* i_xattr_icount, the writer from the xattrs themselves; both agree.  An    *)
(* address has 48 bits: EROFS_NULL_ADDR comes back as the last of them,      *)
(* which the reader's test for a hole, against u64::MAX, does not meet.      *)
DataFound ==
  phase = "done" /\ IcountFits =>
    /\ inode.kind = "reg" =>
         tail = [c \in 1 .. Len(inode.chunks) |-> inode.chunks[c] % (U16 * U32)]
    /\ inode.kind = "lnk" => tail = inode.target

(* "The compact inode stores mtime - epoch": the reader gets the time back.  *)
MtimePreserved == phase = "cast" => View.mtime = inode.mtime

=============================================================================

--------------------------- MODULE MetadataLayout ---------------------------
(***************************************************************************)
(* Phases 2 and 3 of erofs-mkfs: `main` (bin/erofs-mkfs.rs) driving the     *)
(* metadata allocator `MetadataLayout` (metadata/layout.rs).                *)
(*                                                                         *)
(* The tree built by phase 1 is the sequence `tree`, in the order of the    *)
(* inode list; tree[1] is the root.  main allocates one slot-aligned extent *)
(* per inode, pads to a block, allocates block-aligned directory data and   *)
(* writes it, goes back and writes every inode at the offset it was given,  *)
(* and finally writes block 0 and the buffer to the image file.             *)
(*                                                                         *)
(* Bytes are not modelled: an extent is an offset and a length.  The last   *)
(* section states what the reader (fs/mod.rs, fs/meta.rs) computes from the *)
(* numbers that the builder stored.                                         *)
(***************************************************************************)
EXTENDS Naturals, Sequences

CONSTANTS
  BlockSize,      (* EROFS_BLOCK_SIZE, 4096 in the code               *)
  SlotSize,       (* EROFS_SLOTSIZE, 32 in the code                   *)
  ExtendedSize,   (* EROFS_INODE_EXTENDED_SIZE, 64 in the code        *)
  MetaSizes,      (* what inode_meta_size may return                  *)
  DirSizes,       (* what serialize_directory may return (its length) *)
  MaxInodes       (* bound on the length of the inode list            *)

ASSUME LayoutAssumption ==
  /\ SlotSize \in Nat \ {0}
  /\ BlockSize \in Nat \ {0}
  /\ BlockSize % SlotSize = 0
  /\ ExtendedSize \in 1 .. BlockSize
  /\ MetaSizes \subseteq Nat \ {0}
  /\ \A d \in DirSizes : d \in Nat \ {0} /\ d % BlockSize = 0
  /\ MaxInodes \in Nat

VARIABLES
  tree,     (* the inode list: [size |-> metadata size, dir |-> length of  *)
            (* the directory data, 0 when the inode is not a directory]    *)
  phase,    (* where main is                                               *)
  next,     (* the loop index of that phase                                *)
  cursor,   (* MetadataLayout::cursor                                      *)
  bufLen,   (* MetadataLayout::buf.len()                                   *)
  meta,     (* InodeInfo::{meta_offset, nid} of the inodes allocated so far *)
  dirs,     (* directory data written so far, in the order of allocation   *)
  image     (* the image file: its length, and the superblock fields that  *)
            (* phase 3 derives; [len |-> 0, ...] until it is written       *)

vars == <<tree, phase, next, cursor, bufLen, meta, dirs, image>>

Phases == {"alloc", "dirs", "inodes", "image", "done", "panic"}

(* Faulty variants, for mutation: the rounding forgets align - 1; the buffer *)
(* is not resized; the start block forgets meta_blkaddr; every inode is     *)
(* taken for a directory.                                                   *)
RoundDown(val, align) == (val \div align) * align
NoGrow(len, cur) == len
BareStartBlk(offset) == offset \div BlockSize
EveryInode(i) == TRUE

(* round_up_usize *)
RoundUp(val, align) == ((val + align - 1) \div align) * align

(* buf.resize(cursor, 0), guarded by buf.len() < cursor *)
Grow(len, cur) == IF len < cur THEN cur ELSE len

(* The starting block of the metadata area, fixed by MetadataLayout::new *)
MetaBlkAddr == 1

StartBlk(offset) == MetaBlkAddr + (offset \div BlockSize)

(* metadata_buf.len().div_ceil(block_size) *)
MetaBlocks(len) == (len + BlockSize - 1) \div BlockSize

NoImage == [len |-> 0, blocks |-> 0, rootNid |-> 0]

IsDir(i) == tree[i].dir > 0

-----------------------------------------------------------------------------
(* The trees phase 1 can hand over.  Only a directory has children, so a    *)
(* list of several inodes starts with a directory; a single inode need not  *)
(* be one (a source path that is a symbolic link to a directory passes      *)
(* is_dir() and is then lstat'ed).                                          *)
Trees ==
  { t \in UNION { [1 .. n -> [size : MetaSizes, dir : DirSizes \cup {0}]] :
                  n \in 1 .. MaxInodes } :
    Len(t) > 1 => t[1].dir > 0 }

Init ==
  /\ tree \in Trees
  /\ phase = "alloc"
  /\ next = 1
  /\ cursor = 0
  /\ bufLen = 0
  /\ meta = << >>
  /\ dirs = << >>
  /\ image = NoImage

(* Phase 2a: alloc_inode(inode_meta_size(inode)). *)
AllocInode ==
  /\ phase = "alloc"
  /\ next <= Len(tree)
  /\ meta' = Append(meta, [offset |-> cursor, nid |-> cursor \div SlotSize])
  /\ cursor' = cursor + RoundUp(tree[next].size, SlotSize)
  /\ bufLen' = Grow(bufLen, cursor')
  /\ next' = next + 1
  /\ UNCHANGED <<tree, phase, dirs, image>>

(* pad_to_block, once every inode has its slot. *)
PadToBlock ==
  /\ phase = "alloc"
  /\ next > Len(tree)
  /\ cursor' = RoundUp(cursor, BlockSize)
  /\ bufLen' = Grow(bufLen, cursor')
  /\ phase' = "dirs"
  /\ next' = 1
  /\ UNCHANGED <<tree, meta, dirs, image>>

(* Phase 2b for one directory: alloc_dir_data, write_at(dir data), and the  *)
(* start block and size stored back in the inode.  write_at slices buf and  *)
(* panics when the extent is not inside it.                                 *)
AllocDirData ==
  LET offset == RoundUp(cursor, BlockSize)
      len    == tree[next].dir
  IN /\ phase = "dirs"
     /\ next <= Len(tree)
     /\ IsDir(next)
     /\ cursor' = offset + RoundUp(len, BlockSize)
     /\ bufLen' = Grow(bufLen, cursor')
     /\ IF offset + len <= bufLen'
          THEN /\ dirs' = Append(dirs,
                       [idx      |-> next,
                        offset   |-> offset,
                        startblk |-> StartBlk(offset),
                        size     |-> len])
               /\ phase' = phase
          ELSE /\ phase' = "panic"
               /\ dirs' = dirs
     /\ next' = next + 1
     /\ UNCHANGED <<tree, meta, image>>

(* The filter_map that collects dir_infos passes over the other inodes. *)
SkipNonDir ==
  /\ phase = "dirs"
  /\ next <= Len(tree)
  /\ ~ IsDir(next)
  /\ next' = next + 1
  /\ UNCHANGED <<tree, phase, cursor, bufLen, meta, dirs, image>>

DirsDone ==
  /\ phase = "dirs"
  /\ next > Len(tree)
  /\ phase' = "inodes"
  /\ next' = 1
  /\ UNCHANGED <<tree, cursor, bufLen, meta, dirs, image>>

(* Phase 2c: write_at(meta_offset, serialize_inode(..)), whose length is    *)
(* inode_meta_size again.                                                   *)
WriteInode ==
  /\ phase = "inodes"
  /\ next <= Len(tree)
  /\ phase' = IF meta[next].offset + tree[next].size <= bufLen
                THEN phase ELSE "panic"
  /\ next' = next + 1
  /\ UNCHANGED <<tree, cursor, bufLen, meta, dirs, image>>

InodesDone ==
  /\ phase = "inodes"
  /\ next > Len(tree)
  /\ phase' = "image"
  /\ UNCHANGED <<tree, next, cursor, bufLen, meta, dirs, image>>

(* Phase 3: write_image writes block 0 with the superblock, the buffer, and *)
(* zeros up to the next block boundary when the buffer does not end on one. *)
WriteImage ==
  /\ phase = "image"
  /\ LET remainder == bufLen % BlockSize
     IN image' = [len     |-> BlockSize + bufLen
                                + (IF remainder # 0
                                     THEN BlockSize - remainder ELSE 0),
                  blocks  |-> 1 + MetaBlocks(bufLen),
                  rootNid |-> meta[1].nid]
  /\ phase' = "done"
  /\ UNCHANGED <<tree, next, cursor, bufLen, meta, dirs>>

Next ==
  \/ AllocInode  \/ PadToBlock
  \/ AllocDirData \/ SkipNonDir \/ DirsDone
  \/ WriteInode \/ InodesDone
  \/ WriteImage

Spec == Init /\ [][Next]_vars

-----------------------------------------------------------------------------
(* What the reader computes.                                               *)

(* ErofsReader::nid_to_offset *)
NidToOffset(nid) == MetaBlkAddr * BlockSize + nid * SlotSize

(* ErofsReader::mmap_slice succeeds *)
InImage(offset, len) == offset + len <= image.len

(* ErofsReader::inode maps EROFS_INODE_EXTENDED_SIZE bytes at the NID, also *)
(* for a compact inode                                                      *)
InodeWindow(nid) == [offset |-> NidToOffset(nid), len |-> ExtendedSize]

(* read_flat_data of a FLAT_PLAIN directory, from 0 to its size *)
DirWindow(d) == [offset |-> d.startblk * BlockSize, len |-> d.size]

-----------------------------------------------------------------------------
(* Properties.                                                             *)

TypeOK ==
  /\ tree \in Seq([size : MetaSizes, dir : DirSizes \cup {0}]) \ {<< >>}
  /\ phase \in Phases
  /\ next \in 1 .. Len(tree) + 1
  /\ cursor \in Nat
  /\ bufLen \in Nat
  /\ meta \in Seq([offset : Nat, nid : Nat])
  /\ dirs \in Seq([idx : 1 .. Len(tree), offset : Nat, startblk : Nat,
                   size : DirSizes])
  /\ image \in [len : Nat, blocks : Nat, rootNid : Nat]

(* No write_at is ever outside the buffer: the two-phase use of the          *)
(* allocator (reserve now, write later) never slices past buf.len().        *)
NoPanic == phase # "panic"

(* The extents reserved so far, each with its owner and the length of what   *)
(* is written there.                                                         *)
Extents ==
  { [owner |-> <<"inode", i>>, lo |-> meta[i].offset, len |-> tree[i].size] :
    i \in 1 .. Len(meta) }
  \cup
  { [owner |-> <<"dir", dirs[j].idx>>, lo |-> dirs[j].offset,
     len |-> dirs[j].size] : j \in 1 .. Len(dirs) }

(* The allocator hands out extents that never move and never overlap, which  *)
(* is why the late inode writes of phase 2c cannot destroy directory data    *)
(* or another inode.                                                         *)
Allocator == INSTANCE ExtentAllocator WITH extents <- Extents
ImplementsAllocator == Allocator!Spec

(* In the finished image, whose length is what the superblock declares, the  *)
(* reader finds every inode at the address its NID encodes and every         *)
(* directory at the address its start block encodes, and no read it makes    *)
(* there leaves the mapped file.  The 64-byte window on a 32-byte inode in   *)
(* the last slot of a block is covered only because directory data follows.  *)
ReaderFindsWhatWasWritten ==
  phase = "done" =>
    /\ image.len = image.blocks * BlockSize
    /\ NidToOffset(image.rootNid) = BlockSize + meta[1].offset
    /\ \A i \in 1 .. Len(tree) :
         /\ NidToOffset(meta[i].nid) = BlockSize + meta[i].offset
         /\ InImage(BlockSize + meta[i].offset, tree[i].size)
         /\ InImage(InodeWindow(meta[i].nid).offset,
                    InodeWindow(meta[i].nid).len)
    /\ \A j \in 1 .. Len(dirs) :
         /\ DirWindow(dirs[j]).offset = BlockSize + dirs[j].offset
         /\ InImage(DirWindow(dirs[j]).offset, DirWindow(dirs[j]).len)

=============================================================================

------------------------ MODULE MetadataLayoutProofs ------------------------
(***************************************************************************)
(* Proofs about MetadataLayout for every block size, slot size and inode    *)
(* list.  The chain is: arithmetic of round_up_usize, an inductive          *)
(* invariant (IInv) relating the cursor, the buffer and every extent handed *)
(* out, and from it the safety properties and the refinement.               *)
(***************************************************************************)
EXTENDS MetadataLayout, SequenceTheorems, TLAPS

-----------------------------------------------------------------------------
(* Arithmetic.                                                             *)

(* Division with remainder, the form in which the provers can use it. *)
LEMMA DivMod ==
  ASSUME NEW x \in Nat, NEW a \in Nat \ {0}
  PROVE  /\ x = a * (x \div a) + (x % a)
         /\ x \div a \in Nat
         /\ x % a \in 0 .. a - 1
BY SMT

(* A multiple of a divides by a exactly. *)
LEMMA MultipleDiv ==
  ASSUME NEW q \in Nat, NEW a \in Nat \ {0}
  PROVE  (q * a) % a = 0 /\ (q * a) \div a = q
BY SMT

(* The block before block b starts one block lower. *)
LEMMA Predecessor ==
  ASSUME NEW b \in Nat, NEW a \in Nat, NEW x \in Nat, x = (b - 1) * a
  PROVE  b * a = a + x
<1>1. (b - 1) * a = b * a - a
  BY SMT
<1>2. b * a \in Nat
  BY SMT
<1> DEFINE p == b * a
<1> HIDE DEF p
<1>3. x = p - a /\ p \in Nat
  BY <1>1, <1>2 DEF p
<1>4. p = a + x
  BY <1>3
<1> QED
  BY <1>4 DEF p

(* round_up_usize returns a multiple of the alignment that is not below its *)
(* argument and less than one alignment above it.                          *)
LEMMA RoundUpFacts ==
  ASSUME NEW v \in Nat, NEW a \in Nat \ {0}
  PROVE  /\ RoundUp(v, a) \in Nat
         /\ RoundUp(v, a) >= v
         /\ RoundUp(v, a) < v + a
         /\ RoundUp(v, a) % a = 0
<1> DEFINE q == (v + a - 1) \div a
<1>1. v + a - 1 \in Nat
  OBVIOUS
<1>2. /\ v + a - 1 = a * q + ((v + a - 1) % a)
      /\ q \in Nat
      /\ (v + a - 1) % a \in 0 .. a - 1
  BY <1>1, DivMod
<1>3. (q * a) % a = 0
  BY <1>2, MultipleDiv
<1>4. RoundUp(v, a) = q * a
  BY DEF RoundUp
<1> DEFINE r == (v + a - 1) % a
<1> HIDE DEF q, r
<1>5. v + a - 1 = a * q + r /\ q \in Nat /\ r \in 0 .. a - 1
  BY <1>2 DEF q, r
<1>6. a * q = q * a /\ q * a \in Nat
  BY <1>5
<1>7. q * a >= v /\ q * a < v + a
  BY <1>5, <1>6
<1> QED
  BY <1>3, <1>4, <1>6, <1>7

(* Sums of multiples are multiples. *)
LEMMA MultipleSum ==
  ASSUME NEW x \in Nat, NEW y \in Nat, NEW a \in Nat \ {0},
         x % a = 0, y % a = 0
  PROVE  (x + y) % a = 0
<1> DEFINE p == x \div a
           q == y \div a
<1>1. x = a * p /\ p \in Nat
  BY DivMod
<1>2. y = a * q /\ q \in Nat
  BY DivMod
<1> HIDE DEF p, q
<1>3. x + y = (p + q) * a
  BY <1>1, <1>2
<1>4. p + q \in Nat
  BY <1>1, <1>2
<1> QED
  BY <1>3, <1>4, MultipleDiv

(* A multiple of a multiple is a multiple. *)
LEMMA MultipleTrans ==
  ASSUME NEW x \in Nat, NEW b \in Nat \ {0}, NEW a \in Nat \ {0},
         x % b = 0, b % a = 0
  PROVE  x % a = 0
<1> DEFINE p == x \div b
           q == b \div a
<1>1. x = b * p /\ p \in Nat
  BY DivMod
<1>2. b = a * q /\ q \in Nat
  BY DivMod
<1> HIDE DEF p, q
<1>3. x = (q * p) * a
  BY <1>1, <1>2
<1>4. q * p \in Nat
  BY <1>1, <1>2
<1> QED
  BY <1>3, <1>4, MultipleDiv

(* A positive multiple is at least one alignment. *)
LEMMA MultipleAtLeast ==
  ASSUME NEW x \in Nat \ {0}, NEW a \in Nat \ {0}, x % a = 0
  PROVE  x >= a
BY SMT

(* A multiple of the alignment is left alone by the rounding. *)
LEMMA RoundUpAligned ==
  ASSUME NEW v \in Nat, NEW a \in Nat \ {0}, v % a = 0
  PROVE  RoundUp(v, a) = v
<1> DEFINE w == RoundUp(v, a)
           p == v \div a
           q == w \div a
<1>1. w \in Nat /\ w >= v /\ w < v + a /\ w % a = 0
  BY RoundUpFacts
<1> HIDE DEF w
<1>2. v = a * p /\ p \in Nat
  BY DivMod
<1>3. w = a * q /\ q \in Nat
  BY <1>1, DivMod
<1> HIDE DEF p, q
<1>4. a * q >= a * p /\ a * q < a * (p + 1)
  BY <1>1, <1>2, <1>3
<1>5. q >= p /\ q < p + 1
  BY <1>2, <1>3, <1>4
<1>6. w = v
  BY <1>2, <1>3, <1>5
<1> QED
  BY <1>6 DEF w

-----------------------------------------------------------------------------
(* The inductive invariant.                                                *)

Allocated == 1 .. Len(meta)

(* The buffer always ends at the cursor, the cursor is on a slot boundary,  *)
(* and on a block boundary once pad_to_block has run.                       *)
CursorOK ==
  /\ bufLen = cursor
  /\ cursor % SlotSize = 0
  /\ phase # "alloc" => cursor % BlockSize = 0

(* Phase 2a has allocated the inodes before `next`; later phases find all   *)
(* of them allocated.                                                       *)
ProgressOK ==
  /\ phase # "panic"
  /\ phase = "alloc" => Len(meta) = next - 1 /\ dirs = << >>
  /\ phase # "alloc" => Len(meta) = Len(tree)

(* Inode slots: slot-aligned, in increasing order, below the cursor, and    *)
(* named by their NID.                                                      *)
InodesOK ==
  /\ \A i \in Allocated :
       /\ meta[i].offset = meta[i].nid * SlotSize
       /\ meta[i].offset + tree[i].size <= cursor
  /\ \A i, k \in Allocated :
       i < k => meta[i].offset + tree[i].size <= meta[k].offset
  /\ Len(meta) > 0 => meta[1].offset = 0
  /\ Len(meta) = 0 => cursor = 0

(* Directory data: block-aligned, above every inode, in increasing order,   *)
(* below the cursor, of the length serialize_directory returned.            *)
DirsOK ==
  /\ \A j \in 1 .. Len(dirs) :
       /\ dirs[j].size = tree[dirs[j].idx].dir
       /\ phase = "dirs" => dirs[j].idx < next
       /\ dirs[j].offset = (dirs[j].startblk - MetaBlkAddr) * BlockSize
       /\ dirs[j].startblk >= MetaBlkAddr
       /\ dirs[j].offset + dirs[j].size <= cursor
       /\ \A i \in Allocated : meta[i].offset + tree[i].size <= dirs[j].offset
  /\ \A j, k \in 1 .. Len(dirs) :
       j < k => /\ dirs[j].idx < dirs[k].idx
                /\ dirs[j].offset + dirs[j].size <= dirs[k].offset

(* A list of several inodes starts with a directory, whose data is written  *)
(* first: the blocks that keep the 64-byte window of the last inode inside  *)
(* the image.                                                               *)
RootOK ==
  /\ Len(tree) > 1 => tree[1].dir > 0
  /\ phase = "dirs" /\ next > 1 /\ tree[1].dir > 0 => Len(dirs) > 0
  /\ phase \in {"inodes", "image", "done"} /\ tree[1].dir > 0 => Len(dirs) > 0

(* The file that write_image produced. *)
ImageOK ==
  phase = "done" =>
    image = [len     |-> BlockSize + bufLen,
             blocks  |-> 1 + (bufLen \div BlockSize),
             rootNid |-> 0]

IInv ==
  /\ TypeOK
  /\ CursorOK
  /\ ProgressOK
  /\ InodesOK
  /\ DirsOK
  /\ RootOK
  /\ ImageOK

-----------------------------------------------------------------------------
(* Initial states.                                                         *)

LEMMA TreesAreSequences ==
  ASSUME NEW t \in Trees
  PROVE  t \in Seq([size : MetaSizes, dir : DirSizes \cup {0}]) \ {<< >>}
<1> DEFINE S == [size : MetaSizes, dir : DirSizes \cup {0}]
<1>1. PICK n \in 1 .. MaxInodes : t \in [1 .. n -> S]
  BY DEF Trees
<1>2. n \in Nat /\ n > 0
  BY LayoutAssumption, <1>1
<1> HIDE DEF S
<1>3. t \in Seq(S)
  BY <1>1, <1>2, SeqDef
<1>4. DOMAIN t = 1 .. n
  BY <1>1
<1>5. t # << >>
  BY <1>2, <1>4
<1> QED
  BY <1>3, <1>5 DEF S

(* main starts in the invariant. *)
LEMMA InitIInv == Init => IInv
<1> SUFFICES ASSUME Init PROVE IInv
  OBVIOUS
<1> USE DEF Init
<1>1. tree \in Seq([size : MetaSizes, dir : DirSizes \cup {0}]) \ {<< >>}
  BY TreesAreSequences
<1>2. TypeOK
  <2>1. Len(tree) \in Nat /\ Len(tree) > 0
    BY <1>1
  <2>2. next \in 1 .. Len(tree) + 1
    BY <2>1
  <2>3. meta \in Seq([offset : Nat, nid : Nat])
    OBVIOUS
  <2>4. dirs \in Seq([idx : 1 .. Len(tree), offset : Nat, startblk : Nat,
                      size : DirSizes])
    OBVIOUS
  <2> QED
    BY <1>1, <2>2, <2>3, <2>4 DEF TypeOK, Phases, NoImage
<1>3. CursorOK
  BY LayoutAssumption, SMT DEF CursorOK
<1>4. ProgressOK
  BY DEF ProgressOK
<1>5. InodesOK
  BY DEF InodesOK, Allocated
<1>6. DirsOK
  BY DEF DirsOK
<1>7. RootOK
  BY DEF RootOK, Trees
<1>8. ImageOK
  BY DEF ImageOK
<1> QED
  BY <1>2, <1>3, <1>4, <1>5, <1>6, <1>7, <1>8 DEF IInv

-----------------------------------------------------------------------------
(* Steps.                                                                  *)

DirRecord == [idx : 1 .. Len(tree), offset : Nat, startblk : Nat,
              size : DirSizes]

(* What the type invariant says of the sequences, element by element. *)
LEMMA TypeFacts ==
  ASSUME TypeOK
  PROVE  /\ Len(tree) \in Nat \ {0}
         /\ \A i \in 1 .. Len(tree) :
              /\ tree[i].size \in Nat \ {0}
              /\ tree[i].size \in MetaSizes
              /\ tree[i].dir \in DirSizes \cup {0}
              /\ tree[i].dir \in Nat
              /\ tree[i].dir > 0 => tree[i].dir \in DirSizes
              /\ tree[i].dir % BlockSize = 0
         /\ Len(meta) \in Nat
         /\ \A i \in 1 .. Len(meta) :
              meta[i] \in [offset : Nat, nid : Nat]
         /\ Len(dirs) \in Nat
         /\ \A j \in 1 .. Len(dirs) : dirs[j] \in DirRecord
<1> DEFINE S == [size : MetaSizes, dir : DirSizes \cup {0}]
<1>1. tree \in Seq(S) \ {<< >>}
  BY DEF TypeOK
<1>2. Len(tree) \in Nat \ {0}
  BY <1>1, EmptySeq
<1>3. ASSUME NEW i \in 1 .. Len(tree)
      PROVE  /\ tree[i].size \in MetaSizes
             /\ tree[i].dir \in DirSizes \cup {0}
  <2>1. tree[i] \in S
    BY <1>1, ElementOfSeq
  <2> QED
    BY <2>1
<1>4. ASSUME NEW d \in DirSizes \cup {0}
      PROVE  d \in Nat /\ d % BlockSize = 0
  <2>1. CASE d = 0
    BY <2>1, LayoutAssumption, SMT
  <2>2. CASE d \in DirSizes
    BY <2>2, LayoutAssumption
  <2> QED
    BY <2>1, <2>2
<1>5. \A i \in 1 .. Len(tree) :
        /\ tree[i].size \in Nat \ {0}
        /\ tree[i].size \in MetaSizes
        /\ tree[i].dir \in DirSizes \cup {0}
        /\ tree[i].dir \in Nat
        /\ tree[i].dir > 0 => tree[i].dir \in DirSizes
        /\ tree[i].dir % BlockSize = 0
  <2> SUFFICES ASSUME NEW i \in 1 .. Len(tree)
               PROVE  /\ tree[i].size \in Nat \ {0}
                      /\ tree[i].size \in MetaSizes
                      /\ tree[i].dir \in DirSizes \cup {0}
                      /\ tree[i].dir \in Nat
                      /\ tree[i].dir > 0 => tree[i].dir \in DirSizes
                      /\ tree[i].dir % BlockSize = 0
    OBVIOUS
  <2>1. tree[i].size \in MetaSizes /\ tree[i].dir \in DirSizes \cup {0}
    BY <1>3
  <2>2. tree[i].size \in Nat \ {0}
    BY <2>1, LayoutAssumption
  <2>3. tree[i].dir \in Nat /\ tree[i].dir % BlockSize = 0
    BY <2>1, <1>4
  <2>4. tree[i].dir > 0 => tree[i].dir \in DirSizes
    BY <2>1
  <2> QED
    BY <2>1, <2>2, <2>3, <2>4
<1>6. meta \in Seq([offset : Nat, nid : Nat])
  BY DEF TypeOK
<1>7. Len(meta) \in Nat /\ \A i \in 1 .. Len(meta) :
                             meta[i] \in [offset : Nat, nid : Nat]
  BY <1>6, ElementOfSeq, LenProperties
<1>8. dirs \in Seq(DirRecord)
  BY DEF TypeOK, DirRecord
<1>9. Len(dirs) \in Nat /\ \A j \in 1 .. Len(dirs) : dirs[j] \in DirRecord
  BY <1>8, ElementOfSeq, LenProperties
<1> QED
  BY <1>2, <1>5, <1>7, <1>9

(* alloc_inode: the new slot starts where the last one ended. *)
LEMMA AllocInodeStep ==
  ASSUME IInv, AllocInode
  PROVE  IInv'
<1> DEFINE new == [offset |-> cursor, nid |-> cursor \div SlotSize]
           n == Len(meta)
           size == tree[next].size
<1> USE DEF IInv
<1>0. /\ phase = "alloc" /\ phase' = "alloc"
      /\ next \in 1 .. Len(tree) /\ next' = next + 1
      /\ n = next - 1 /\ n \in Nat
      /\ dirs = << >> /\ dirs' = << >>
      /\ tree' = tree /\ image' = image
      /\ cursor \in Nat /\ bufLen = cursor
  BY TypeFacts DEF AllocInode, ProgressOK, TypeOK, CursorOK
<1>1. size \in Nat \ {0}
  BY <1>0, TypeFacts
<1>2. /\ cursor' = cursor + RoundUp(size, SlotSize)
      /\ RoundUp(size, SlotSize) \in Nat
      /\ RoundUp(size, SlotSize) >= size
      /\ RoundUp(size, SlotSize) % SlotSize = 0
  BY <1>1, RoundUpFacts, LayoutAssumption DEF AllocInode
<1>3. cursor' \in Nat /\ cursor + size <= cursor' /\ cursor <= cursor'
  BY <1>0, <1>1, <1>2
<1>4. cursor' % SlotSize = 0
  BY <1>0, <1>2, MultipleSum, LayoutAssumption DEF CursorOK
<1>5. bufLen' = cursor'
  <2>1. bufLen' = Grow(bufLen, cursor')
    BY DEF AllocInode
  <2> QED
    BY <1>0, <1>3, <2>1 DEF Grow
<1>6. /\ cursor \div SlotSize \in Nat
      /\ cursor = (cursor \div SlotSize) * SlotSize
  <2>1. cursor % SlotSize = 0
    BY DEF CursorOK
  <2>2. /\ cursor = SlotSize * (cursor \div SlotSize) + (cursor % SlotSize)
        /\ cursor \div SlotSize \in Nat
    BY <1>0, DivMod, LayoutAssumption
  <2> DEFINE q == cursor \div SlotSize
  <2> HIDE DEF q
  <2>3. cursor = SlotSize * q /\ q \in Nat
    BY <2>1, <2>2, LayoutAssumption DEF q
  <2>4. cursor = q * SlotSize
    BY <2>3, LayoutAssumption
  <2> QED
    BY <2>3, <2>4 DEF q
<1>7. new \in [offset : Nat, nid : Nat]
  BY <1>0, <1>6
<1>8. /\ meta' = Append(meta, new)
      /\ meta' \in Seq([offset : Nat, nid : Nat])
      /\ Len(meta') = n + 1
      /\ \A i \in 1 .. n : meta'[i] = meta[i]
      /\ meta'[n + 1] = new
  <2>1. meta' = Append(meta, new)
    BY DEF AllocInode
  <2>2. meta \in Seq([offset : Nat, nid : Nat])
    BY DEF TypeOK
  <2> HIDE DEF new
  <2> QED
    BY <1>7, <2>1, <2>2, AppendProperties
<1> HIDE DEF n
<1>9. TypeOK'
  <2>1. next' \in 1 .. Len(tree') + 1
    BY <1>0, TypeFacts
  <2>2. dirs' \in Seq([idx : 1 .. Len(tree'), offset : Nat, startblk : Nat,
                       size : DirSizes])
    BY <1>0
  <2> QED
    BY <1>0, <1>3, <1>5, <1>8, <2>1, <2>2 DEF TypeOK, Phases
<1>10. CursorOK'
  BY <1>0, <1>4, <1>5 DEF CursorOK
<1>11. ProgressOK'
  BY <1>0, <1>8 DEF ProgressOK
<1>12. InodesOK'
  <2>1. ASSUME NEW i \in 1 .. n + 1
        PROVE  /\ meta'[i].offset = meta'[i].nid * SlotSize
               /\ meta'[i].offset + tree[i].size <= cursor'
    <3>1. CASE i \in 1 .. n
      <4>1. /\ meta[i].offset = meta[i].nid * SlotSize
            /\ meta[i].offset + tree[i].size <= cursor
        BY <3>1 DEF InodesOK, Allocated, n
      <4>2. meta[i].offset \in Nat /\ tree[i].size \in Nat
        BY <1>0, <3>1, TypeFacts DEF n
      <4>3. meta'[i] = meta[i]
        BY <1>8, <3>1
      <4> DEFINE o == meta[i].offset
                 z == tree[i].size
      <4>4. o + z <= cursor'
        <5>1. o + z <= cursor /\ o \in Nat /\ z \in Nat
          BY <4>1, <4>2
        <5> HIDE DEF o, z
        <5> QED
          BY <1>0, <1>3, <5>1
      <4> QED
        BY <4>1, <4>3, <4>4
    <3>2. CASE i = n + 1
      BY <1>0, <1>3, <1>6, <1>8, <3>2
    <3> QED
      BY <1>0, <3>1, <3>2
  <2>2. ASSUME NEW i \in 1 .. n + 1, NEW k \in 1 .. n + 1, i < k
        PROVE  meta'[i].offset + tree[i].size <= meta'[k].offset
    <3>1. i \in 1 .. n
      BY <1>0, <2>2
    <3>2. CASE k \in 1 .. n
      BY <1>8, <2>2, <3>1, <3>2 DEF InodesOK, Allocated, n
    <3>3. CASE k = n + 1
      <4>1. meta[i].offset + tree[i].size <= cursor
        BY <3>1 DEF InodesOK, Allocated, n
      <4>2. meta'[i] = meta[i]
        BY <1>8, <3>1
      <4>3. meta'[k] = new
        BY <1>8, <3>3
      <4>4. meta'[k].offset = cursor
        BY <4>3
      <4> QED
        BY ONLY <4>1, <4>2, <4>4
    <3> QED
      BY <1>0, <3>2, <3>3
  <2>3. meta'[1].offset = 0
    <3>1. CASE n = 0
      <4>1. cursor = 0
        BY <3>1 DEF InodesOK, n
      <4> QED
        BY <1>8, <3>1, <4>1
    <3>2. CASE n > 0
      BY <1>0, <1>8, <3>2 DEF InodesOK, n
    <3> QED
      BY <1>0, <3>1, <3>2
  <2>4. /\ Len(meta') = n + 1 /\ n \in Nat /\ tree' = tree
    BY <1>0, <1>8
  <2>5. /\ \A i \in Allocated' :
             /\ meta'[i].offset = meta'[i].nid * SlotSize
             /\ meta'[i].offset + tree'[i].size <= cursor'
        /\ \A i, k \in Allocated' :
             i < k => meta'[i].offset + tree'[i].size <= meta'[k].offset
    BY ONLY <2>1, <2>2, <2>4 DEF Allocated
  <2>6. ~ (Len(meta') = 0)
    BY ONLY <2>4
  <2> QED
    BY ONLY <2>3, <2>5, <2>6 DEF InodesOK
<1>13. DirsOK' /\ RootOK' /\ ImageOK'
  BY <1>0 DEF DirsOK, RootOK, ImageOK
<1> QED
  BY <1>9, <1>10, <1>11, <1>12, <1>13

(* pad_to_block: the cursor moves up to a block boundary. *)
LEMMA PadToBlockStep ==
  ASSUME IInv, PadToBlock
  PROVE  IInv'
<1> USE DEF IInv
<1>0. /\ phase = "alloc" /\ phase' = "dirs"
      /\ Len(meta) = Len(tree) /\ next' = 1
      /\ dirs = << >> /\ dirs' = << >> /\ meta' = meta
      /\ tree' = tree /\ image' = image
      /\ cursor \in Nat /\ bufLen = cursor
  BY TypeFacts DEF PadToBlock, ProgressOK, TypeOK, CursorOK
<1>1. /\ cursor' \in Nat /\ cursor' >= cursor
      /\ cursor' % BlockSize = 0
  BY <1>0, RoundUpFacts, LayoutAssumption DEF PadToBlock
<1>2. cursor' % SlotSize = 0
  BY <1>1, MultipleTrans, LayoutAssumption
<1>3. bufLen' = cursor'
  <2>1. bufLen' = Grow(bufLen, cursor')
    BY DEF PadToBlock
  <2> QED
    BY <1>0, <1>1, <2>1 DEF Grow
<1>4. TypeOK'
  <2>1. next' \in 1 .. Len(tree') + 1
    BY <1>0, TypeFacts
  <2>2. dirs' \in Seq([idx : 1 .. Len(tree'), offset : Nat, startblk : Nat,
                       size : DirSizes])
    BY <1>0
  <2> QED
    BY <1>0, <1>1, <1>3, <2>1, <2>2 DEF TypeOK, Phases
<1>5. CursorOK'
  BY <1>1, <1>2, <1>3 DEF CursorOK
<1>6. ProgressOK'
  BY <1>0 DEF ProgressOK
<1>7. InodesOK'
  <2>1. ASSUME NEW i \in 1 .. Len(meta)
        PROVE  meta[i].offset + tree[i].size <= cursor'
    <3>1. meta[i].offset + tree[i].size <= cursor
      BY DEF InodesOK, Allocated
    <3>2. meta[i].offset \in Nat /\ tree[i].size \in Nat
      BY <1>0, TypeFacts
    <3> QED
      BY <1>0, <1>1, <3>1, <3>2
  <2>2. Len(meta) # 0
    BY <1>0, TypeFacts
  <2> QED
    BY <1>0, <2>1, <2>2 DEF InodesOK, Allocated
<1>8. DirsOK' /\ RootOK' /\ ImageOK'
  BY <1>0 DEF DirsOK, RootOK, ImageOK
<1> QED
  BY <1>4, <1>5, <1>6, <1>7, <1>8

(* alloc_dir_data and write_at: the new blocks start at the cursor, and the *)
(* directory data fits in them.                                             *)
LEMMA AllocDirDataStep ==
  ASSUME IInv, AllocDirData
  PROVE  IInv'
<1> DEFINE len == tree[next].dir
           new == [idx |-> next, offset |-> cursor,
                   startblk |-> StartBlk(cursor), size |-> len]
           n == Len(dirs)
<1> USE DEF IInv
<1>0. /\ phase = "dirs"
      /\ next \in 1 .. Len(tree) /\ next' = next + 1
      /\ Len(meta) = Len(tree) /\ Len(meta) # 0 /\ meta' = meta
      /\ tree' = tree /\ image' = image
      /\ cursor \in Nat /\ bufLen = cursor
      /\ cursor % BlockSize = 0 /\ cursor % SlotSize = 0
      /\ n \in Nat
  BY TypeFacts DEF AllocDirData, ProgressOK, TypeOK, CursorOK
<1>1. len \in DirSizes /\ len \in Nat \ {0} /\ len % BlockSize = 0
  BY <1>0, TypeFacts DEF AllocDirData, IsDir
<1>2. RoundUp(cursor, BlockSize) = cursor /\ RoundUp(len, BlockSize) = len
  BY <1>0, <1>1, RoundUpAligned, LayoutAssumption
<1>3. cursor' = cursor + len /\ cursor' \in Nat /\ cursor' >= cursor
  BY <1>0, <1>1, <1>2 DEF AllocDirData
<1>4. bufLen' = cursor'
  <2>1. bufLen' = Grow(bufLen, cursor')
    BY DEF AllocDirData
  <2> QED
    BY <1>0, <1>3, <2>1 DEF Grow
<1>5. phase' = "dirs" /\ dirs' = Append(dirs, new)
  <2>1. cursor + len <= bufLen'
    BY <1>3, <1>4
  <2> QED
    BY <1>0, <1>2, <2>1 DEF AllocDirData
<1>6. /\ StartBlk(cursor) \in Nat
      /\ StartBlk(cursor) >= MetaBlkAddr
      /\ cursor = (StartBlk(cursor) - MetaBlkAddr) * BlockSize
  <2> DEFINE q == cursor \div BlockSize
  <2>1. cursor = BlockSize * q + (cursor % BlockSize) /\ q \in Nat
    BY <1>0, DivMod, LayoutAssumption
  <2>2. StartBlk(cursor) = 1 + q
    BY DEF StartBlk, MetaBlkAddr
  <2> HIDE DEF q
  <2>3. cursor = q * BlockSize
    BY <1>0, <2>1, LayoutAssumption
  <2> QED
    BY <2>1, <2>2, <2>3 DEF MetaBlkAddr
<1>7. /\ dirs' \in Seq(DirRecord)
      /\ Len(dirs') = n + 1
      /\ \A j \in 1 .. n : dirs'[j] = dirs[j]
      /\ dirs'[n + 1] = new
  <2>1. new \in DirRecord
    BY <1>0, <1>1, <1>6 DEF DirRecord
  <2>2. dirs \in Seq(DirRecord)
    BY DEF TypeOK, DirRecord
  <2> HIDE DEF new
  <2> QED
    BY <1>5, <2>1, <2>2, AppendProperties
<1> HIDE DEF n
<1>8. TypeOK'
  <2>1. next' \in 1 .. Len(tree') + 1
    BY <1>0, TypeFacts
  <2>2. dirs' \in Seq([idx : 1 .. Len(tree'), offset : Nat, startblk : Nat,
                       size : DirSizes])
    BY <1>0, <1>7 DEF DirRecord
  <2> QED
    BY <1>0, <1>3, <1>4, <1>5, <2>1, <2>2 DEF TypeOK, Phases
<1>9. CursorOK'
  <2>1. cursor' % BlockSize = 0
    BY <1>0, <1>1, <1>3, MultipleSum, LayoutAssumption
  <2>2. cursor' % SlotSize = 0
    BY <1>3, <2>1, MultipleTrans, LayoutAssumption
  <2> QED
    BY <1>4, <2>1, <2>2 DEF CursorOK
<1>10. ProgressOK'
  BY <1>0, <1>5 DEF ProgressOK
<1>11. ASSUME NEW i \in Allocated
       PROVE  meta[i].offset + tree[i].size <= cursor
  BY DEF InodesOK
<1>12. InodesOK'
  <2>1. ASSUME NEW i \in Allocated
        PROVE  meta[i].offset + tree[i].size <= cursor'
    <3>1. meta[i].offset \in Nat /\ tree[i].size \in Nat
      BY <1>0, TypeFacts DEF Allocated
    <3> DEFINE o == meta[i].offset
               z == tree[i].size
    <3>2. /\ o + z <= cursor /\ o \in Nat /\ z \in Nat
          /\ cursor \in Nat /\ cursor' \in Nat /\ cursor <= cursor'
      BY <1>0, <1>3, <1>11, <3>1
    <3> HIDE DEF o, z
    <3>3. o + z <= cursor'
      BY ONLY <3>2
    <3> QED
      BY <3>3 DEF o, z
  <2> QED
    BY <1>0, <2>1 DEF InodesOK, Allocated
<1>13. DirsOK'
  <2>1. ASSUME NEW j \in 1 .. n + 1
        PROVE  /\ dirs'[j].size = tree[dirs'[j].idx].dir
               /\ dirs'[j].idx < next + 1
               /\ dirs'[j].offset = (dirs'[j].startblk - MetaBlkAddr) * BlockSize
               /\ dirs'[j].startblk >= MetaBlkAddr
               /\ dirs'[j].offset + dirs'[j].size <= cursor'
               /\ \A i \in Allocated :
                    meta[i].offset + tree[i].size <= dirs'[j].offset
    <3>1. CASE j \in 1 .. n
      <4>1. dirs[j] \in DirRecord
        BY <3>1, TypeFacts DEF n
      <4>2. /\ dirs[j].size = tree[dirs[j].idx].dir
            /\ dirs[j].idx < next
            /\ dirs[j].offset = (dirs[j].startblk - MetaBlkAddr) * BlockSize
            /\ dirs[j].startblk >= MetaBlkAddr
            /\ dirs[j].offset + dirs[j].size <= cursor
            /\ \A i \in Allocated :
                 meta[i].offset + tree[i].size <= dirs[j].offset
        BY <1>0, <3>1 DEF DirsOK, n
      <4>3. /\ dirs[j].offset \in Nat /\ dirs[j].idx \in Nat
            /\ dirs[j].size \in Nat
        BY <4>1, LayoutAssumption DEF DirRecord
      <4>4. dirs[j].offset + dirs[j].size <= cursor'
        <5> DEFINE o == dirs[j].offset
                   z == dirs[j].size
        <5>1. /\ o + z <= cursor /\ o \in Nat /\ z \in Nat
              /\ cursor \in Nat /\ cursor' \in Nat /\ cursor <= cursor'
          BY <1>0, <1>3, <4>2, <4>3
        <5> HIDE DEF o, z
        <5>2. o + z <= cursor'
          BY ONLY <5>1
        <5> QED
          BY ONLY <5>2 DEF o, z
      <4>5. dirs[j].idx < next + 1
        <5>1. dirs[j].idx \in Nat /\ dirs[j].idx < next /\ next \in Nat
          BY <1>0, <4>2, <4>3
        <5> QED
          BY ONLY <5>1
      <4>6. dirs'[j] = dirs[j]
        BY <1>7, <3>1
      <4> QED
        BY <4>2, <4>4, <4>5, <4>6
    <3>2. CASE j = n + 1
      <4>1. dirs'[j] = new
        BY <1>7, <3>2
      <4> QED
        BY <1>0, <1>3, <1>6, <1>11, <4>1
    <3> QED
      BY <1>0, <3>1, <3>2
  <2>2. ASSUME NEW j \in 1 .. n + 1, NEW k \in 1 .. n + 1, j < k
        PROVE  /\ dirs'[j].idx < dirs'[k].idx
               /\ dirs'[j].offset + dirs'[j].size <= dirs'[k].offset
    <3>1. j \in 1 .. n /\ dirs'[j] = dirs[j]
      BY <1>0, <1>7, <2>2
    <3>2. CASE k \in 1 .. n
      BY <1>7, <2>2, <3>1, <3>2 DEF DirsOK, n
    <3>3. CASE k = n + 1
      <4>1. dirs'[k] = new
        BY <1>7, <3>3
      <4>2. dirs[j].idx < next /\ dirs[j].offset + dirs[j].size <= cursor
        BY <1>0, <3>1 DEF DirsOK, n
      <4> QED
        BY <3>1, <4>1, <4>2
    <3> QED
      BY <1>0, <3>2, <3>3
  <2>3. /\ Len(dirs') = n + 1 /\ tree' = tree /\ meta' = meta
        /\ next' = next + 1
    BY <1>0, <1>7
  <2> QED
    BY ONLY <2>1, <2>2, <2>3 DEF DirsOK, Allocated
<1>14. RootOK'
  <2>1. Len(dirs') > 0 /\ tree' = tree
    <3>1. Len(dirs') = n + 1 /\ n \in Nat /\ tree' = tree
      BY <1>0, <1>7
    <3> QED
      BY ONLY <3>1
  <2>2. Len(tree) > 1 => tree[1].dir > 0
    BY DEF RootOK
  <2> QED
    BY ONLY <2>1, <2>2 DEF RootOK
<1>15. ImageOK'
  BY <1>0, <1>5 DEF ImageOK
<1> QED
  BY <1>8, <1>9, <1>10, <1>12, <1>13, <1>14, <1>15

(* The filter_map: an inode that is not a directory is passed over. *)
LEMMA SkipNonDirStep ==
  ASSUME IInv, SkipNonDir
  PROVE  IInv'
<1> USE DEF IInv
<1>0. /\ phase = "dirs" /\ phase' = "dirs"
      /\ next \in 1 .. Len(tree) /\ next' = next + 1
      /\ tree' = tree /\ cursor' = cursor /\ bufLen' = bufLen
      /\ meta' = meta /\ dirs' = dirs /\ image' = image
      /\ tree[next].dir = 0
      /\ Len(tree) \in Nat
  BY TypeFacts DEF SkipNonDir, IsDir, TypeOK
<1>1. next' \in 1 .. Len(tree') + 1
  BY <1>0
<1>2. TypeOK'
  BY <1>0, <1>1 DEF TypeOK
<1>3. CursorOK' /\ ProgressOK' /\ InodesOK' /\ ImageOK'
  BY <1>0 DEF CursorOK, ProgressOK, InodesOK, Allocated, ImageOK
<1>4. DirsOK'
  <2>1. \A j \in 1 .. Len(dirs) : dirs[j].idx < next + 1
    <3>1. ASSUME NEW j \in 1 .. Len(dirs) PROVE dirs[j].idx < next + 1
      <4>1. dirs[j].idx \in Nat
        BY <1>0, TypeFacts DEF DirRecord
      <4>2. dirs[j].idx < next
        BY <1>0 DEF DirsOK
      <4> QED
        BY <1>0, <4>1, <4>2
    <3> QED
      BY <3>1
  <2> QED
    BY <1>0, <2>1 DEF DirsOK, Allocated
<1>5. RootOK'
  BY <1>0 DEF RootOK
<1> QED
  BY <1>2, <1>3, <1>4, <1>5

(* The steps that only move main on to the next item or phase: end of the   *)
(* directory loop, one inode written in place, end of the inode loop.       *)
LEMMA LoopStep ==
  ASSUME IInv, DirsDone \/ WriteInode \/ InodesDone
  PROVE  IInv'
<1> USE DEF IInv
<1>0. /\ tree' = tree /\ cursor' = cursor /\ bufLen' = bufLen
      /\ meta' = meta /\ dirs' = dirs /\ image' = image
  BY DEF DirsDone, WriteInode, InodesDone
<1>1. /\ phase \in {"dirs", "inodes"}
      /\ phase' \in {"inodes", "image"}
      /\ phase = "dirs" => next > Len(tree)
      /\ next' \in 1 .. Len(tree) + 1
  <2>1. Len(tree) \in Nat \ {0} /\ next \in 1 .. Len(tree) + 1
    BY TypeFacts DEF TypeOK
  <2>2. CASE DirsDone
    BY <2>1, <2>2 DEF DirsDone
  <2>3. CASE WriteInode
    <3>1. phase = "inodes" /\ next \in 1 .. Len(tree) /\ next' = next + 1
      BY <2>1, <2>3 DEF WriteInode
    <3>2. next \in Allocated
      BY <3>1 DEF ProgressOK, Allocated
    <3>3. meta[next].offset + tree[next].size <= bufLen
      BY <3>2 DEF InodesOK, CursorOK
    <3>4. phase' = "inodes"
      BY <2>3, <3>1, <3>3 DEF WriteInode
    <3> QED
      BY <2>1, <3>1, <3>4
  <2>4. CASE InodesDone
    BY <2>1, <2>4 DEF InodesDone
  <2> QED
    BY <2>2, <2>3, <2>4
<1>2. TypeOK'
  BY <1>0, <1>1 DEF TypeOK, Phases
<1>3. CursorOK' /\ ProgressOK' /\ InodesOK' /\ ImageOK' /\ DirsOK'
  <2>1. phase # "alloc" /\ phase' \notin {"alloc", "panic", "dirs", "done"}
    BY <1>1
  <2>2. CursorOK' /\ ProgressOK' /\ ImageOK'
    BY <1>0, <2>1 DEF CursorOK, ProgressOK, ImageOK
  <2>3. InodesOK'
    BY <1>0 DEF InodesOK, Allocated
  <2>4. DirsOK'
    BY <1>0, <2>1 DEF DirsOK, Allocated
  <2> QED
    BY <2>2, <2>3, <2>4
<1>4. RootOK'
  <2>1. Len(tree) \in Nat \ {0} /\ next \in 1 .. Len(tree) + 1
    BY TypeFacts DEF TypeOK
  <2> QED
    BY <1>0, <1>1, <2>1 DEF RootOK
<1> QED
  BY <1>2, <1>3, <1>4

(* write_image: the buffer ends on a block boundary, so there is nothing to *)
(* pad and the superblock's block count is exact.                           *)
LEMMA WriteImageStep ==
  ASSUME IInv, WriteImage
  PROVE  IInv'
<1> DEFINE q == bufLen \div BlockSize
<1> USE DEF IInv
<1>0. /\ phase = "image" /\ phase' = "done"
      /\ tree' = tree /\ next' = next /\ cursor' = cursor
      /\ bufLen' = bufLen /\ meta' = meta /\ dirs' = dirs
      /\ cursor \in Nat /\ bufLen = cursor /\ bufLen % BlockSize = 0
  BY DEF WriteImage, TypeOK, CursorOK
<1>1. bufLen = BlockSize * q /\ q \in Nat
  BY <1>0, DivMod, LayoutAssumption
<1>2. MetaBlocks(bufLen) = q
  <2>1. MetaBlocks(bufLen) \in Nat
    BY <1>0, DivMod, LayoutAssumption DEF MetaBlocks
  <2>2. MetaBlocks(bufLen) * BlockSize = RoundUp(bufLen, BlockSize)
    BY DEF MetaBlocks, RoundUp
  <2>3. RoundUp(bufLen, BlockSize) = bufLen
    BY <1>0, RoundUpAligned, LayoutAssumption
  <2> DEFINE m == MetaBlocks(bufLen)
  <2> HIDE DEF m, q
  <2>4. m \in Nat /\ m * BlockSize = BlockSize * q
    BY <1>1, <2>1, <2>2, <2>3 DEF m
  <2>5. m = q
    BY <1>1, <2>4, LayoutAssumption
  <2> QED
    BY <2>5 DEF m
<1>3. Len(meta) # 0 /\ meta[1].nid = 0
  <2>1. Len(meta) = Len(tree) /\ Len(tree) \in Nat \ {0}
    BY <1>0, TypeFacts DEF ProgressOK
  <2>2. meta[1].offset = 0 /\ meta[1].offset = meta[1].nid * SlotSize
    BY <2>1 DEF InodesOK, Allocated
  <2>3. meta[1].nid \in Nat
    BY <2>1, TypeFacts
  <2> QED
    BY <2>1, <2>2, <2>3, LayoutAssumption
<1>4. image' = [len     |-> BlockSize + bufLen,
                blocks  |-> 1 + q,
                rootNid |-> 0]
  BY <1>0, <1>2, <1>3, LayoutAssumption DEF WriteImage
<1>5. TypeOK'
  <2>1. image' \in [len : Nat, blocks : Nat, rootNid : Nat]
    BY <1>0, <1>1, <1>4, LayoutAssumption
  <2> QED
    BY <1>0, <2>1 DEF TypeOK, Phases
<1>6. ImageOK'
  BY <1>0, <1>4 DEF ImageOK
<1>7. CursorOK' /\ ProgressOK' /\ InodesOK' /\ DirsOK' /\ RootOK'
  BY <1>0 DEF CursorOK, ProgressOK, InodesOK, Allocated, DirsOK, RootOK
<1> QED
  BY <1>5, <1>6, <1>7

(* Every step of main, and a stutter, keeps the invariant. *)
LEMMA NextIInv == IInv /\ [Next]_vars => IInv'
<1> SUFFICES ASSUME IInv, [Next]_vars PROVE IInv'
  OBVIOUS
<1>1. CASE AllocInode
  BY <1>1, AllocInodeStep
<1>2. CASE PadToBlock
  BY <1>2, PadToBlockStep
<1>3. CASE AllocDirData
  BY <1>3, AllocDirDataStep
<1>4. CASE SkipNonDir
  BY <1>4, SkipNonDirStep
<1>5. CASE DirsDone \/ WriteInode \/ InodesDone
  BY <1>5, LoopStep
<1>6. CASE WriteImage
  BY <1>6, WriteImageStep
<1>7. CASE UNCHANGED vars
  BY <1>7 DEF vars, IInv, TypeOK, CursorOK, ProgressOK, InodesOK, Allocated,
              DirsOK, RootOK, ImageOK
<1> QED
  BY <1>1, <1>2, <1>3, <1>4, <1>5, <1>6, <1>7 DEF Next

LEMMA InvariantHolds == Spec => []IInv
BY InitIInv, NextIInv, PTL DEF Spec

-----------------------------------------------------------------------------
(* The theorems.                                                           *)

(* Every state of main's run is well typed, whatever the tree. *)
THEOREM TypeCorrect == Spec => []TypeOK
<1>1. IInv => TypeOK
  BY DEF IInv
<1> QED
  BY <1>1, InvariantHolds, PTL

(* No write_at of the two-phase layout is ever out of the buffer's bounds. *)
THEOREM NeverPanics == Spec => []NoPanic
<1>1. IInv => NoPanic
  BY DEF IInv, ProgressOK, NoPanic
<1> QED
  BY <1>1, InvariantHolds, PTL

(* In every finished image the reader finds each inode and each directory    *)
(* where the builder put them, and reads nothing outside the file.           *)
THEOREM ReaderFindsEverything == Spec => []ReaderFindsWhatWasWritten
<1>1. IInv => ReaderFindsWhatWasWritten
  <2> SUFFICES ASSUME IInv, phase = "done"
               PROVE  /\ image.len = image.blocks * BlockSize
                      /\ NidToOffset(image.rootNid) = BlockSize + meta[1].offset
                      /\ \A i \in 1 .. Len(tree) :
                           /\ NidToOffset(meta[i].nid)
                                = BlockSize + meta[i].offset
                           /\ InImage(BlockSize + meta[i].offset, tree[i].size)
                           /\ InImage(InodeWindow(meta[i].nid).offset,
                                      InodeWindow(meta[i].nid).len)
                      /\ \A j \in 1 .. Len(dirs) :
                           /\ DirWindow(dirs[j]).offset
                                = BlockSize + dirs[j].offset
                           /\ InImage(DirWindow(dirs[j]).offset,
                                      DirWindow(dirs[j]).len)
    BY DEF ReaderFindsWhatWasWritten
  <2> DEFINE q == bufLen \div BlockSize
  <2>0. /\ BlockSize \in Nat /\ ExtendedSize \in Nat
        /\ ExtendedSize <= BlockSize
    BY LayoutAssumption
  <2>1. /\ bufLen = cursor /\ cursor \in Nat /\ cursor % BlockSize = 0
        /\ Len(meta) = Len(tree)
        /\ image = [len     |-> BlockSize + bufLen,
                    blocks  |-> 1 + q,
                    rootNid |-> 0]
    BY DEF IInv, TypeOK, CursorOK, ProgressOK, ImageOK
  <2>nat. cursor \in Nat
    BY <2>1
  <2>2. Len(tree) \in Nat \ {0}
    BY TypeFacts DEF IInv
  <2>3. bufLen = q * BlockSize /\ q \in Nat
    <3>1. bufLen = BlockSize * q + (bufLen % BlockSize) /\ q \in Nat
      BY <2>1, DivMod, LayoutAssumption
    <3> HIDE DEF q
    <3> QED
      BY <2>1, <3>1, LayoutAssumption
  <2> HIDE DEF q
  <2>4. image.len = image.blocks * BlockSize
    BY <2>1, <2>3, LayoutAssumption
  <2>5. meta[1].offset = 0
    BY <2>1, <2>2 DEF IInv, InodesOK
  <2>6. NidToOffset(image.rootNid) = BlockSize + meta[1].offset
    BY <2>1, <2>5, LayoutAssumption DEF NidToOffset, MetaBlkAddr
  <2>7. ASSUME NEW j \in 1 .. Len(dirs)
        PROVE  /\ DirWindow(dirs[j]).offset = BlockSize + dirs[j].offset
               /\ InImage(DirWindow(dirs[j]).offset, DirWindow(dirs[j]).len)
               /\ dirs[j].size >= BlockSize
               /\ dirs[j].offset + dirs[j].size <= cursor
               /\ dirs[j].offset \in Nat /\ dirs[j].size \in Nat
    <3>1. dirs[j] \in DirRecord
      BY TypeFacts DEF IInv
    <3>2. /\ dirs[j].offset \in Nat /\ dirs[j].startblk \in Nat
          /\ dirs[j].size \in Nat \ {0} /\ dirs[j].size % BlockSize = 0
      BY <3>1, LayoutAssumption DEF DirRecord
    <3>3. /\ dirs[j].offset = (dirs[j].startblk - 1) * BlockSize
          /\ dirs[j].startblk >= 1
          /\ dirs[j].offset + dirs[j].size <= cursor
      BY DEF IInv, DirsOK, MetaBlkAddr
    <3>4. dirs[j].startblk * BlockSize = BlockSize + dirs[j].offset
      BY <2>0, <3>2, <3>3, Predecessor
    <3>5. dirs[j].size >= BlockSize
      BY <3>2, MultipleAtLeast, LayoutAssumption
    <3>6. DirWindow(dirs[j]).offset = BlockSize + dirs[j].offset
      BY <3>4 DEF DirWindow
    <3>7. InImage(DirWindow(dirs[j]).offset, DirWindow(dirs[j]).len)
      <4>1. DirWindow(dirs[j]).len = dirs[j].size
        BY DEF DirWindow
      <4>2. image.len = BlockSize + cursor
        BY <2>1
      <4> DEFINE o == dirs[j].offset
      <4> DEFINE z == dirs[j].size
      <4>3. o + z <= cursor /\ o \in Nat /\ z \in Nat /\ cursor \in Nat
        BY <3>2, <3>3, <2>nat
      <4> HIDE DEF o, z
      <4>4. BlockSize + o + z <= BlockSize + cursor
        BY <2>0, <4>3
      <4>5. BlockSize + dirs[j].offset + dirs[j].size <= BlockSize + cursor
        BY <4>4 DEF o, z
      <4> QED
        BY <3>6, <4>1, <4>2, <4>5 DEF InImage
    <3> QED
      BY <3>2, <3>3, <3>5, <3>6, <3>7
  <2>8. ASSUME NEW i \in 1 .. Len(tree)
        PROVE  /\ NidToOffset(meta[i].nid) = BlockSize + meta[i].offset
               /\ InImage(BlockSize + meta[i].offset, tree[i].size)
               /\ InImage(InodeWindow(meta[i].nid).offset,
                          InodeWindow(meta[i].nid).len)
    <3>1. /\ meta[i].offset \in Nat /\ meta[i].nid \in Nat
          /\ tree[i].size \in Nat \ {0}
      BY <2>1, TypeFacts DEF IInv
    <3>2. /\ meta[i].offset = meta[i].nid * SlotSize
          /\ meta[i].offset + tree[i].size <= cursor
      BY <2>1 DEF IInv, InodesOK, Allocated
    <3>3. NidToOffset(meta[i].nid) = BlockSize + meta[i].offset
      <4>1. NidToOffset(meta[i].nid) = 1 * BlockSize + meta[i].offset
        BY <3>2, Zenon DEF NidToOffset, MetaBlkAddr
      <4>2. 1 * BlockSize = BlockSize
        BY <2>0
      <4> QED
        BY <4>1, <4>2
    <3>4. meta[i].offset + ExtendedSize <= cursor
      <4>1. CASE Len(dirs) > 0
        <5>1. 1 \in 1 .. Len(dirs)
          BY <4>1, TypeFacts DEF IInv
        <5>2. meta[i].offset + tree[i].size <= dirs[1].offset
          BY <2>1, <5>1 DEF IInv, DirsOK, Allocated
        <5>3. /\ dirs[1].size >= BlockSize
              /\ dirs[1].offset + dirs[1].size <= cursor
              /\ dirs[1].offset \in Nat /\ dirs[1].size \in Nat
          BY <2>7, <5>1
        <5> DEFINE o == meta[i].offset
        <5> DEFINE t == tree[i].size
        <5> DEFINE do == dirs[1].offset
        <5> DEFINE dz == dirs[1].size
        <5>4. /\ o + t <= do /\ do + dz <= cursor /\ dz >= BlockSize
              /\ o \in Nat /\ t \in Nat /\ do \in Nat /\ dz \in Nat
          BY <3>1, <5>2, <5>3
        <5> HIDE DEF o, t, do, dz
        <5>5. o + ExtendedSize <= cursor
          BY <2>0, <5>4, <2>nat
        <5> QED
          BY <5>5 DEF o
      <4>2. CASE ~ (Len(dirs) > 0)
        <5>1. ~ (tree[1].dir > 0)
          BY <4>2 DEF IInv, RootOK
        <5>2. i = 1
          BY <2>2, <5>1 DEF IInv, RootOK
        <5>3. cursor \in Nat \ {0}
          BY <2>1, <3>1, <3>2
        <5>4. cursor >= BlockSize
          BY <2>1, <5>3, MultipleAtLeast, LayoutAssumption
        <5> QED
          BY <2>0, <2>1, <2>5, <5>2, <5>4
      <4> QED
        BY <4>1, <4>2
    <3>5. /\ image.len = BlockSize + cursor
          /\ InodeWindow(meta[i].nid).offset = BlockSize + meta[i].offset
          /\ InodeWindow(meta[i].nid).len = ExtendedSize
      BY <2>1, <3>3 DEF InodeWindow
    <3>6. /\ BlockSize + meta[i].offset + tree[i].size <= BlockSize + cursor
          /\ BlockSize + meta[i].offset + ExtendedSize <= BlockSize + cursor
      <4> DEFINE o == meta[i].offset
      <4> DEFINE t == tree[i].size
      <4>1. /\ o + t <= cursor /\ o + ExtendedSize <= cursor
            /\ o \in Nat /\ t \in Nat
        BY <3>1, <3>2, <3>4
      <4> HIDE DEF o, t
      <4>2. /\ BlockSize + o + t <= BlockSize + cursor
            /\ BlockSize + o + ExtendedSize <= BlockSize + cursor
        BY <2>0, <2>nat, <4>1
      <4> QED
        BY <4>2 DEF o, t
    <3> QED
      BY <3>3, <3>5, <3>6 DEF InImage
  <2> QED
    BY <2>4, <2>6, <2>7, <2>8
<1> QED
  BY <1>1, InvariantHolds, PTL

-----------------------------------------------------------------------------
(* The refinement.                                                         *)

InodeExtent(i) ==
  [owner |-> <<"inode", i>>, lo |-> meta[i].offset, len |-> tree[i].size]
DirExtent(j) ==
  [owner |-> <<"dir", dirs[j].idx>>, lo |-> dirs[j].offset,
   len |-> dirs[j].size]

(* A new inode slot lies above every extent there is. *)
LEMMA AllocInodeReserves ==
  ASSUME IInv, AllocInode
  PROVE  Allocator!Reserve
<1> DEFINE n == Len(meta)
           e == [owner |-> <<"inode", n + 1>>, lo |-> cursor,
                 len |-> tree[n + 1].size]
<1>1. /\ n \in Nat /\ n = next - 1 /\ dirs = << >>
      /\ tree' = tree /\ dirs' = << >>
      /\ cursor \in Nat /\ next \in Nat
      /\ n + 1 \in 1 .. Len(tree)
  BY TypeFacts DEF IInv, ProgressOK, TypeOK, AllocInode
<1>2. /\ Len(meta') = n + 1
      /\ \A i \in 1 .. n : meta'[i] = meta[i]
      /\ meta'[n + 1].offset = cursor
  <2> DEFINE new == [offset |-> cursor, nid |-> cursor \div SlotSize]
  <2>1. meta' = Append(meta, new)
    BY DEF AllocInode
  <2>2. new \in [offset : Nat, nid : Nat]
    BY <1>1, DivMod, LayoutAssumption
  <2>3. meta \in Seq([offset : Nat, nid : Nat])
    BY DEF IInv, TypeOK
  <2>4. new.offset = cursor
    OBVIOUS
  <2> HIDE DEF new
  <2> QED
    BY <2>1, <2>2, <2>3, <2>4, AppendProperties
<1> HIDE DEF n
<1>3. Extents = { InodeExtent(i) : i \in 1 .. n }
  BY <1>1 DEF Extents, InodeExtent, n
<1>4. Extents' = { [owner |-> <<"inode", i>>, lo |-> meta'[i].offset,
                    len |-> tree[i].size] : i \in 1 .. n + 1 }
  BY <1>1, <1>2 DEF Extents
<1>5. Extents' = Extents \cup {e}
  <2>1. 1 .. n + 1 = (1 .. n) \cup {n + 1}
    BY <1>1
  <2>2. \A i \in 1 .. n :
          InodeExtent(i) = [owner |-> <<"inode", i>>, lo |-> meta'[i].offset,
                            len |-> tree[i].size]
    BY <1>2 DEF InodeExtent
  <2>3. e = [owner |-> <<"inode", n + 1>>, lo |-> meta'[n + 1].offset,
             len |-> tree[n + 1].size]
    BY <1>2
  <2> HIDE DEF e
  <2> QED
    BY <1>3, <1>4, <2>1, <2>2, <2>3
<1>6. \A f \in Extents : Allocator!Disjoint(e, f) /\ f.owner # e.owner
  <2>1. ASSUME NEW i \in 1 .. n
        PROVE  /\ Allocator!Disjoint(e, InodeExtent(i))
               /\ InodeExtent(i).owner # e.owner
    <3>1. meta[i].offset + tree[i].size <= cursor
      BY DEF IInv, InodesOK, Allocated, n
    <3>2. i # n + 1
      BY <1>1
    <3> QED
      BY <3>1, <3>2 DEF InodeExtent, Allocator!Disjoint
  <2> HIDE DEF e
  <2> QED
    BY <1>3, <2>1
<1>7. e \notin Extents /\ e \in Extents'
  <2> HIDE DEF e
  <2> QED
    BY <1>5, <1>6
<1> HIDE DEF e
<1> QED
  BY <1>5, <1>6, <1>7 DEF Allocator!Reserve

(* New directory blocks lie above every extent there is. *)
LEMMA AllocDirDataReserves ==
  ASSUME IInv, AllocDirData
  PROVE  Allocator!Reserve
<1> DEFINE n == Len(dirs)
           len == tree[next].dir
           e == [owner |-> <<"dir", next>>, lo |-> cursor, len |-> len]
<1>1. /\ phase = "dirs" /\ next \in 1 .. Len(tree)
      /\ cursor \in Nat /\ bufLen = cursor /\ cursor % BlockSize = 0
      /\ tree' = tree /\ meta' = meta
      /\ n \in Nat /\ Len(meta) \in Nat
  BY TypeFacts DEF IInv, TypeOK, CursorOK, AllocDirData
<1>2. len \in DirSizes /\ len \in Nat \ {0} /\ len % BlockSize = 0
  BY <1>1, TypeFacts DEF IInv, AllocDirData, IsDir
<1>3. RoundUp(cursor, BlockSize) = cursor /\ RoundUp(len, BlockSize) = len
  BY <1>1, <1>2, RoundUpAligned, LayoutAssumption
<1>4. cursor + len <= bufLen'
  <2>1. cursor' = cursor + len /\ bufLen' = Grow(bufLen, cursor')
    BY <1>3 DEF AllocDirData
  <2> QED
    BY <1>1, <1>2, <2>1 DEF Grow
<1>5. /\ Len(dirs') = n + 1
      /\ \A j \in 1 .. n : dirs'[j] = dirs[j]
      /\ dirs'[n + 1].idx = next
      /\ dirs'[n + 1].offset = cursor
      /\ dirs'[n + 1].size = len
  <2> DEFINE new == [idx |-> next, offset |-> cursor,
                     startblk |-> StartBlk(cursor), size |-> len]
  <2>1. dirs' = Append(dirs, new)
    BY <1>3, <1>4 DEF AllocDirData
  <2>2. new \in DirRecord
    <3>1. cursor \div BlockSize \in Nat
      BY <1>1, DivMod, LayoutAssumption
    <3> QED
      BY <1>1, <1>2, <3>1 DEF DirRecord, StartBlk, MetaBlkAddr
  <2>3. dirs \in Seq(DirRecord)
    BY DEF IInv, TypeOK, DirRecord
  <2>4. new.idx = next /\ new.offset = cursor /\ new.size = len
    OBVIOUS
  <2> HIDE DEF new
  <2> QED
    BY <2>1, <2>2, <2>3, <2>4, AppendProperties
<1> HIDE DEF n
<1>6. Extents = { InodeExtent(i) : i \in Allocated }
                  \cup { DirExtent(j) : j \in 1 .. n }
  BY DEF Extents, InodeExtent, DirExtent, Allocated, n
<1>7. Extents' = Extents \cup {e}
  <2> DEFINE D(j) == [owner |-> <<"dir", dirs'[j].idx>>,
                      lo |-> dirs'[j].offset, len |-> dirs'[j].size]
  <2>1. Extents' = { InodeExtent(i) : i \in Allocated }
                     \cup { D(j) : j \in 1 .. n + 1 }
    BY <1>1, <1>5 DEF Extents, InodeExtent, Allocated
  <2>2. 1 .. n + 1 = (1 .. n) \cup {n + 1}
    BY <1>1 DEF n
  <2>3. \A j \in 1 .. n : D(j) = DirExtent(j)
    BY <1>5 DEF DirExtent
  <2>4. D(n + 1) = e
    BY <1>5
  <2> HIDE DEF D, e
  <2> QED
    BY <1>6, <2>1, <2>2, <2>3, <2>4
<1>8. \A f \in Extents : Allocator!Disjoint(e, f) /\ f.owner # e.owner
  <2>1. ASSUME NEW i \in Allocated
        PROVE  /\ Allocator!Disjoint(e, InodeExtent(i))
               /\ InodeExtent(i).owner # e.owner
    <3>1. meta[i].offset + tree[i].size <= cursor
      BY DEF IInv, InodesOK
    <3> QED
      BY <3>1 DEF InodeExtent, Allocator!Disjoint
  <2>2. ASSUME NEW j \in 1 .. n
        PROVE  /\ Allocator!Disjoint(e, DirExtent(j))
               /\ DirExtent(j).owner # e.owner
    <3>1. dirs[j].idx < next /\ dirs[j].offset + dirs[j].size <= cursor
      BY <1>1 DEF IInv, DirsOK, n
    <3>2. dirs[j].idx \in Nat
      BY TypeFacts DEF IInv, DirRecord, n
    <3>3. dirs[j].idx # next
      BY <1>1, <3>1, <3>2
    <3> QED
      BY <3>1, <3>3 DEF DirExtent, Allocator!Disjoint
  <2> HIDE DEF e
  <2> QED
    BY <1>6, <2>1, <2>2
<1>9. e \notin Extents /\ e \in Extents'
  <2> HIDE DEF e
  <2> QED
    BY <1>7, <1>8
<1> HIDE DEF e
<1> QED
  BY <1>7, <1>8, <1>9 DEF Allocator!Reserve

(* main's use of the allocator implements the abstract allocator: extents    *)
(* are only ever added, and a new one shares no byte with those there are.   *)
THEOREM LayoutImplementsAllocator == Spec => ImplementsAllocator
<1>1. Init => Allocator!Init
  BY DEF Init, Allocator!Init, Extents
<1>2. IInv /\ [Next]_vars => [Allocator!Reserve]_Extents
  <2> SUFFICES ASSUME IInv, [Next]_vars
               PROVE  Allocator!Reserve \/ Extents' = Extents
    OBVIOUS
  <2>1. CASE AllocInode
    BY <2>1, AllocInodeReserves
  <2>2. CASE AllocDirData
    BY <2>2, AllocDirDataReserves
  <2>3. CASE PadToBlock \/ SkipNonDir \/ DirsDone \/ WriteInode
             \/ InodesDone \/ WriteImage \/ UNCHANGED vars
    <3>1. tree' = tree /\ meta' = meta /\ dirs' = dirs
      BY <2>3 DEF PadToBlock, SkipNonDir, DirsDone, WriteInode, InodesDone,
                  WriteImage, vars
    <3> QED
      BY <3>1 DEF Extents
  <2> QED
    BY <2>1, <2>2, <2>3 DEF Next
<1> QED
  BY <1>1, <1>2, InvariantHolds, PTL
     DEF Spec, ImplementsAllocator, Allocator!Spec

=============================================================================

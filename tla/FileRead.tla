------------------------------ MODULE FileRead ------------------------------
(***************************************************************************)
(* How the reader finds the bytes of an inode in its two mappings, for each   *)
(* data layout and each path: "write" for FUSE read (write_file_data_to),     *)
(* "buffer" for read_file_data_sync and read_file_data, "whole" for           *)
(* directories and links (for_each_dir_entry, read_symlink).                  *)
(* BlobStore reads what this project's mkfs writes; the reader also knows     *)
(* flat files, chunks in the image, and data that ends behind its inode.      *)
(*                                                                         *)
(* A mapping is its length: a byte is named by its device and address.  The   *)
(* files and the lengths of the mappings are inputs, so that both may end     *)
(* anywhere before the data.                                                *)
(***************************************************************************)
EXTENDS Integers, Sequences, SequencesExt

CONSTANTS
  BlockSize, ChunkSize,
  IndexSize,      (* EROFS_CHUNK_INDEX_SIZE                                 *)
  Files,          (* [layout, size, startblk, tailAt, chunks]; a chunk is    *)
                  (* its [device, blkaddr]                                  *)
  ImageLens, BlobLens,  (* lengths of the mappings; 0: no blob device        *)
  MaxSize         (* bound on the size of a request                         *)

NChunks(f) == (f.size + ChunkSize - 1) \div ChunkSize

(* A file has a slot of the table for each of its chunks, whatever is in it.  *)
FileOK(f) ==
  /\ f.layout \in {"plain", "inline", "chunks"}
  /\ f.size \in Nat /\ f.startblk \in Nat /\ f.tailAt \in Nat
  /\ f.layout = "chunks" => /\ f.chunks \in Seq([device : Nat, blkaddr : Nat])
                            /\ Len(f.chunks) = NChunks(f)

ASSUME ReadAssumption ==
  /\ BlockSize \in Nat \ {0} /\ ChunkSize \in Nat \ {0} /\ IndexSize \in Nat \ {0}
  /\ MaxSize \in Nat \ {0}
  /\ \A f \in Files : FileOK(f)
  /\ ImageLens \subseteq Nat /\ BlobLens \subseteq Nat

VARIABLES
  file,           (* the inode: tailAt is what follows it and its xattrs      *)
  imageLen, blobLen,
  req,            (* the request: path, offset, size                         *)
  pc,             (* "flat", "indexes", "chunks", "ok", "error"              *)
  pos, remaining, (* file_pos and remaining of the chunk loop                *)
  out             (* what is in the writer or the buffer                     *)

vars == <<file, imageLen, blobLen, req, pc, pos, remaining, out>>
mounted == <<file, imageLen, blobLen>>

MinOf(a, b) == IF a <= b THEN a ELSE b

Bytes(dev, at, n) == [i \in 1 .. n |-> [dev |-> dev, at |-> at + i - 1]]
Zeros(n) == [i \in 1 .. n |-> [dev |-> "zero", at |-> 0]]

MapLen(dev) == IF dev = "image" THEN imageLen ELSE blobLen

(* Faulty variant, for mutation: the end is taken to be inside the mapping.   *)
EndsInside(dev, at, n) == at + n < MapLen(dev)

(* mmap_slice and blob_mmap_slice                                          *)
Mapped(dev, at, n) == at + n <= MapLen(dev) /\ (dev = "blob" => blobLen > 0)

-----------------------------------------------------------------------------
(* Flat data: read_flat_data, read_flat_data_vec, write_flat_data_to.        *)

(* Faulty variant, for mutation: a file of whole blocks has a tail too.       *)
LastBlock(f) == IF f.size > 0 /\ f.size % BlockSize = 0 THEN BlockSize
                ELSE f.size % BlockSize

TailBytes(f) == f.size % BlockSize
BlocksSize(f) == f.size - TailBytes(f)

InBlocks(f, off) == f.startblk * BlockSize + off
InTail(f, off) == f.tailAt + off - BlocksSize(f)

Spans(f, off, n) ==
  /\ f.layout = "inline" /\ BlocksSize(f) > 0
  /\ off < BlocksSize(f) /\ off + n > BlocksSize(f)

(* Where read_flat_data looks for a range that does not span both.            *)
SliceAt(f, off, n) ==
  IF f.layout = "plain" \/ (off < BlocksSize(f) /\ off + n <= BlocksSize(f))
    THEN InBlocks(f, off) ELSE InTail(f, off)

(* The pieces of a flat read, in order.                                      *)
FlatPieces(f, off, n) ==
  IF Spans(f, off, n)
    THEN LET head == BlocksSize(f) - off
         IN <<[at |-> InBlocks(f, off), n |-> head],
              [at |-> f.tailAt, n |-> n - head]>>
    ELSE <<[at |-> SliceAt(f, off, n), n |-> n]>>

-----------------------------------------------------------------------------
(* The requests.                                                           *)

Finish(how) == pc' = how /\ UNCHANGED <<req, pos, remaining, mounted>>

Init ==
  /\ file \in Files /\ imageLen \in ImageLens /\ blobLen \in BlobLens
  /\ req = [path |-> "none", off |-> 0, size |-> 0]
  /\ pc = "ok" /\ pos = 0 /\ remaining = 0 /\ out = << >>

Start(path, off, size) ==
  /\ req' = [path |-> path, off |-> off, size |-> size]
  /\ pos' = off /\ UNCHANGED mounted

(* ErofsFs::read and async_read: the range is cut at the end of the file.  The *)
(* buffer of a chunk read starts as zeros.                                    *)
Read(path, off, size) ==
  /\ pc \in {"ok", "error"}
  /\ Start(path, off, size)
  /\ remaining' = IF off >= file.size THEN 0 ELSE MinOf(size, file.size - off)
  /\ pc' = IF off >= file.size THEN "ok"
           ELSE IF file.layout = "chunks" THEN "indexes" ELSE "flat"
  /\ out' = IF path = "buffer" /\ pc' = "indexes" THEN Zeros(remaining')
            ELSE << >>

(* A directory or a link is read as a whole and never has chunks; an empty     *)
(* directory is not read.  One slice of a directory is tried first; an error   *)
(* sends it to the pieces.                                                   *)
ReadWhole ==
  /\ pc \in {"ok", "error"} /\ file.layout # "chunks"
  /\ Start("whole", 0, file.size)
  /\ pc' = IF file.size = 0 THEN "ok" ELSE "flat"
  /\ remaining' = file.size /\ out' = << >>

(* All pieces are in the mapping, or the call fails, when the writer may have  *)
(* the first already.                                                        *)
ReadFlat ==
  /\ pc = "flat"
  /\ LET pieces == FlatPieces(file, pos, remaining)
         Ok(p)  == Mapped("image", p.at, p.n)
         Got(p) == Bytes("image", p.at, p.n)
     IN IF \A i \in DOMAIN pieces : Ok(pieces[i])
          THEN /\ out' = FlattenSeq([i \in DOMAIN pieces |-> Got(pieces[i])])
               /\ Finish("ok")
          ELSE /\ out' = IF req.path = "write" /\ Ok(Head(pieces))
                           THEN Got(Head(pieces)) ELSE << >>
               /\ Finish("error")

(* chunk_indexes: the whole table must be in the image.                       *)
GetIndexes ==
  /\ pc = "indexes"
  /\ Finish(IF Mapped("image", file.tailAt, NChunks(file) * IndexSize)
              THEN "chunks" ELSE "error")
  /\ UNCHANGED out

(* Faulty variant, for mutation: a buffer is extended instead of filled.      *)
Appended(bytes) == out \o bytes

InChunks == pos \div ChunkSize < NChunks(file)

(* What a piece becomes: appended by the writer; at buf_pos in the buffer.     *)
Placed(bytes) ==
  IF req.path = "write" THEN out \o bytes
  ELSE [i \in DOMAIN out |-> IF i - (pos - req.off) \in DOMAIN bytes
                               THEN bytes[i - (pos - req.off)] ELSE out[i]]

(* One iteration of the loop.  An index of all ones decodes to the last 48-bit *)
(* address of the last device, so that it is no hole here (InodeFormat).      *)
ReadChunk ==
  /\ pc = "chunks" /\ remaining > 0 /\ InChunks
  /\ LET c   == file.chunks[(pos \div ChunkSize) + 1]
         n   == MinOf(remaining, ChunkSize - (pos % ChunkSize))
         dev == IF c.device > 0 THEN "blob" ELSE "image"
         at  == c.blkaddr * BlockSize + (pos % ChunkSize)
     IN IF Mapped(dev, at, n)
          THEN /\ out' = Placed(Bytes(dev, at, n))
               /\ pos' = pos + n /\ remaining' = remaining - n
               /\ UNCHANGED <<pc, req, mounted>>
          ELSE Finish("error") /\ UNCHANGED out

ChunksDone ==
  /\ pc = "chunks" /\ (remaining = 0 \/ ~ InChunks)
  /\ Finish("ok") /\ UNCHANGED out

Next ==
  \/ \E path \in {"write", "buffer"}, off \in 0 .. file.size + 1,
       size \in 1 .. MaxSize : Read(path, off, size)
  \/ ReadWhole \/ ReadFlat \/ GetIndexes \/ ReadChunk \/ ChunksDone

Spec == Init /\ [][Next]_vars

-----------------------------------------------------------------------------
(* Properties.                                                             *)

(* The reply never has more than was asked for, and all types are right.       *)
TypeOK ==
  /\ file \in Files /\ imageLen \in ImageLens /\ blobLen \in BlobLens
  /\ req.path \in {"none", "write", "buffer", "whole"}
  /\ pc \in {"flat", "indexes", "chunks", "ok", "error"}
  /\ pos \in Nat /\ remaining \in Nat
  /\ Len(out) <= req.size

(* The format's own definition of where byte b of a file is: in the blocks    *)
(* from startblk on, except the incomplete last block of an inline file, which *)
(* follows the inode; or in its chunk.                                       *)
Home(b) ==
  LET blk == b \div BlockSize
      c   == file.chunks[(b \div ChunkSize) + 1]
  IN IF file.layout = "chunks"
       THEN [dev |-> IF c.device = 0 THEN "image" ELSE "blob",
             at  |-> c.blkaddr * BlockSize + (b % ChunkSize)]
     ELSE IF file.layout = "inline" /\ blk = file.size \div BlockSize
       THEN [dev |-> "image", at |-> file.tailAt + (b % BlockSize)]
       ELSE [dev |-> "image", at |-> file.startblk * BlockSize + b]

Wanted == {b \in 0 .. file.size - 1 : req.off <= b /\ b < req.off + req.size}

(* Whatever the layout, the path and the range, and wherever the mappings end: *)
(* a call that succeeds returns exactly the bytes asked for, in order.        *)
ReadExact ==
  pc = "ok" /\ req.path # "none" =>
    /\ Len(out) = IF Wanted = {} THEN 0 ELSE MinOf(req.size, file.size - req.off)
    /\ \A i \in DOMAIN out : out[i] = Home(req.off + i - 1)

(* A call fails only when a byte that it needs is not in the mappings: data     *)
(* before a cut stays readable.                                              *)
FailsOnlyWhenCut ==
  pc = "error" =>
    \/ \E b \in Wanted : Home(b).at >= MapLen(Home(b).dev)
    \/ /\ file.layout = "chunks"
       /\ file.tailAt + NChunks(file) * IndexSize > imageLen
=============================================================================

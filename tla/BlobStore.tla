----------------------------- MODULE BlobStore -----------------------------
(***************************************************************************)
(* File data from the source tree to the blob device and back:              *)
(*   - build_tree_recursive (build/inode.rs) takes a file's size with lstat  *)
(*     and calls BlobWriter::write_file_chunks (build/blobchunk.rs), which   *)
(*     reads the file chunk by chunk, deduplicates by BLAKE3 and appends     *)
(*     padded chunks to the blob file;                                      *)
(*   - ErofsReader::write_file_data_to and read_file_data_sync (fs/data.rs)  *)
(*     resolve a read of the mounted image chunk by chunk.                   *)
(*                                                                         *)
(* Another program may rewrite source files while the build runs.  A file   *)
(* is a sequence of cells; a block is BlockSize cells.  BLAKE3 is taken to   *)
(* be injective: the key of `dedup` is the hashed content itself.           *)
(***************************************************************************)
EXTENDS Naturals, Sequences

CONSTANTS
  NFiles,      (* regular files, in the order build_tree visits them        *)
  Contents,    (* the contents a source file may have                       *)
  Ranges,      (* the reads asked of the mounted image, [off, size]         *)
  BlockSize,   (* EROFS_BLOCK_SIZE                                          *)
  ChunkSize,   (* --chunksize                                               *)
  MaxChanges   (* bound on the rewrites of source files during the build    *)

Files == 1 .. NFiles

ASSUME BlobAssumption ==
  /\ NFiles \in Nat \ {0}
  /\ \A c \in Contents : c \in Seq(Nat)
  /\ Ranges \subseteq [off : Nat, size : Nat]
  /\ BlockSize \in Nat \ {0}
  /\ ChunkSize \in Nat \ {0}
  /\ ChunkSize % BlockSize = 0
  /\ MaxChanges \in Nat

VARIABLES
  source,        (* contents of the source files                            *)
  changes,       (* rewrites so far                                         *)
  phase,         (* "stat", "read", "place": the builder; then "mounted", or *)
                 (* "failed" when main returned an error                     *)
  cur,           (* the file being processed                                *)
  size,          (* InodeInfo::size, from lstat                             *)
  indexes,       (* the chunk indexes of each inode (blkaddr)               *)
  chunkBuf,      (* chunk_buf[..to_read] between read_exact and the push    *)
  blob,          (* the blob file                                           *)
  nextBlkaddr,   (* BlobWriter::next_blkaddr                                *)
  dedup,         (* BlobWriter::dedup: a function from content to blkaddr   *)
  savedByDedup,  (* BlobWriter::saved_by_dedup                              *)
  mapped,        (* length of the blob mapping the reader was given         *)
  rd             (* the reader's call: request, locals and result           *)

bvars == <<cur, size, indexes, chunkBuf, blob, nextBlkaddr, dedup,
           savedByDedup>>
vars == <<source, changes, phase, bvars, mapped, rd>>

NoRead == [st |-> "idle", file |-> 1, off |-> 0, size |-> 0,
           filePos |-> 0, remaining |-> 0, out |-> << >>]

MinOf(a, b) == IF a < b THEN a ELSE b
DivCeil(a, b) == (a + b - 1) \div b

-----------------------------------------------------------------------------
(* The builder.                                                            *)

(* Faulty variants, for mutation: the bytes saved forget the padding; a new  *)
(* address is not remembered.                                              *)
UnpaddedLen(n) == n
NotInserted(h, addr) == dedup

NBlocks(n) == DivCeil(n, BlockSize)
WriteLen(n) == NBlocks(n) * BlockSize
Padding(n) == [i \in 1 .. (WriteLen(n) - n) |-> 0]
Saved(n) == WriteLen(n)
Hash(c) == c
Inserted(h, addr) ==
  [c \in DOMAIN dedup \cup {h} |-> IF c = h THEN addr ELSE dedup[c]]

Init ==
  /\ source \in [Files -> Contents]
  /\ changes = 0
  /\ phase = "stat"
  /\ cur = 1
  /\ size = [f \in Files |-> 0]
  /\ indexes = [f \in Files |-> << >>]
  /\ chunkBuf = << >>
  /\ blob = << >>
  /\ nextBlkaddr = 0
  /\ dedup = << >>
  /\ savedByDedup = 0
  /\ mapped = 0
  /\ rd = NoRead

(* Another program rewrites a source file while the tree is built. *)
ModifySource ==
  /\ phase \in {"stat", "read", "place"}
  /\ changes < MaxChanges
  /\ \E f \in Files : \E c \in Contents \ {source[f]} :
       source' = [source EXCEPT ![f] = c]
  /\ changes' = changes + 1
  /\ UNCHANGED <<phase, bvars, mapped, rd>>

(* symlink_metadata of the next file.  An empty file has no chunk and is not *)
(* even opened.                                                            *)
StatFile ==
  /\ phase = "stat"
  /\ cur <= NFiles
  /\ size' = [size EXCEPT ![cur] = Len(source[cur])]
  /\ IF size'[cur] = 0
       THEN cur' = cur + 1 /\ phase' = phase
       ELSE cur' = cur /\ phase' = "read"
  /\ UNCHANGED <<source, changes, indexes, chunkBuf, blob, nextBlkaddr, dedup,
                 savedByDedup, mapped, rd>>

ChunkPos == Len(indexes[cur]) * ChunkSize
RestOfFile == size[cur] - ChunkPos   (* faulty variant: no end *)
ToRead == MinOf(size[cur] - ChunkPos, ChunkSize)

(* read_exact of the next chunk; it fails, and the build with it, when the  *)
(* file has become too short.                                              *)
ReadChunk ==
  /\ phase = "read"
  /\ IF ChunkPos + ToRead <= Len(source[cur])
       THEN /\ chunkBuf' = SubSeq(source[cur], ChunkPos + 1, ChunkPos + ToRead)
            /\ phase' = "place"
       ELSE chunkBuf' = chunkBuf /\ phase' = "failed"
  /\ UNCHANGED <<source, changes, cur, size, indexes, blob, nextBlkaddr, dedup,
                 savedByDedup, mapped, rd>>

(* indexes.push, and on to the next chunk or the next file. *)
PushIndex(blkaddr) ==
  LET last == Len(indexes[cur]) + 1 = DivCeil(size[cur], ChunkSize)
  IN /\ indexes' = [indexes EXCEPT ![cur] = Append(@, blkaddr)]
     /\ chunkBuf' = << >>
     /\ cur' = IF last THEN cur + 1 ELSE cur
     /\ phase' = IF last THEN "stat" ELSE "read"

(* The hash is known: only the address is recorded. *)
ReuseChunk ==
  /\ phase = "place"
  /\ Hash(chunkBuf) \in DOMAIN dedup
  /\ savedByDedup' = savedByDedup + Saved(Len(chunkBuf))
  /\ PushIndex(dedup[Hash(chunkBuf)])
  /\ UNCHANGED <<source, changes, size, blob, nextBlkaddr, dedup, mapped, rd>>

(* The hash is new: data and padding are appended to the blob. *)
WriteChunk ==
  /\ phase = "place"
  /\ Hash(chunkBuf) \notin DOMAIN dedup
  /\ blob' = blob \o chunkBuf \o Padding(Len(chunkBuf))
  /\ nextBlkaddr' = nextBlkaddr + NBlocks(Len(chunkBuf))
  /\ dedup' = Inserted(Hash(chunkBuf), nextBlkaddr)
  /\ PushIndex(nextBlkaddr)
  /\ UNCHANGED <<source, changes, size, savedByDedup, mapped, rd>>

(* write_all fails after a part of the data or of the padding has reached   *)
(* the file; the error ends main before any image is written.               *)
WriteChunkFails ==
  /\ phase = "place"
  /\ Hash(chunkBuf) \notin DOMAIN dedup
  /\ \E n \in 0 .. WriteLen(Len(chunkBuf)) - 1 :
       blob' = blob \o SubSeq(chunkBuf \o Padding(Len(chunkBuf)), 1, n)
  /\ phase' = "failed"
  /\ UNCHANGED <<source, changes, cur, size, indexes, chunkBuf, nextBlkaddr,
                 dedup, savedByDedup, mapped, rd>>

-----------------------------------------------------------------------------
(* The reader.                                                             *)

(* ErofsReader::open.  The blob file given to it may have been cut short    *)
(* since the build; a missing blob behaves as an empty one.                 *)
Mount ==
  /\ phase = "stat"
  /\ cur > NFiles
  /\ phase' = "mounted"
  /\ mapped' \in 0 .. Len(blob)
  /\ UNCHANGED <<source, changes, bvars, rd>>

(* The start of write_file_data_to: nothing to read at or past the end, a   *)
(* range cut at the end otherwise.                                         *)
StartRead(f, off, sz) ==
  /\ phase = "mounted"
  /\ rd.st # "busy"
  /\ rd' = [st        |-> "busy",
            file      |-> f,
            off       |-> off,
            size      |-> sz,
            filePos   |-> off,
            remaining |-> IF off >= size[f] THEN 0
                          ELSE MinOf(sz, size[f] - off),
            out       |-> << >>]
  /\ UNCHANGED <<source, changes, phase, bvars, mapped>>

ChunkIdx(pos) == pos \div ChunkSize
ChunkOff(pos) == pos % ChunkSize
InChunks(f, pos) == ChunkIdx(pos) < DivCeil(size[f], ChunkSize)

(* Faulty variant: the piece is not cut at the end of its chunk. *)
UncutPiece(remaining, pos) == MinOf(remaining, ChunkSize)

Piece(remaining, pos) == MinOf(remaining, ChunkSize - ChunkOff(pos))

(* One iteration of the loop of write_chunk_data_to / read_chunk_data_sync:  *)
(* the chunk index gives a block of the blob, blob_mmap_slice checks that    *)
(* the piece is inside the mapping.                                        *)
ReadPiece ==
  /\ rd.st = "busy"
  /\ rd.remaining > 0
  /\ InChunks(rd.file, rd.filePos)
  /\ LET n     == Piece(rd.remaining, rd.filePos)
         addr  == indexes[rd.file][ChunkIdx(rd.filePos) + 1]
         start == addr * BlockSize + ChunkOff(rd.filePos)
     IN rd' = IF start + n <= mapped
                THEN [rd EXCEPT !.out = @ \o SubSeq(blob, start + 1, start + n),
                                !.filePos = @ + n,
                                !.remaining = @ - n]
                ELSE [rd EXCEPT !.st = "error", !.out = << >>]
  /\ UNCHANGED <<source, changes, phase, bvars, mapped>>

(* The loop ends with nothing remaining, or with an index past the table.   *)
FinishRead ==
  /\ rd.st = "busy"
  /\ rd.remaining = 0 \/ ~ InChunks(rd.file, rd.filePos)
  /\ rd' = [rd EXCEPT !.st = "ok"]
  /\ UNCHANGED <<source, changes, phase, bvars, mapped>>

Next ==
  \/ ModifySource
  \/ StatFile \/ ReadChunk \/ ReuseChunk \/ WriteChunk \/ WriteChunkFails
  \/ Mount
  \/ \E f \in Files, r \in Ranges : StartRead(f, r.off, r.size)
  \/ ReadPiece \/ FinishRead

(* A worker thread runs the read loop without waiting for anything. *)
Spec == Init /\ [][Next]_vars /\ WF_vars(ReadPiece \/ FinishRead)

-----------------------------------------------------------------------------
(* Properties.                                                             *)

IsCells(s) == s \in Seq(Nat)

TypeOK ==
  /\ source \in [Files -> Contents]
  /\ changes \in 0 .. MaxChanges
  /\ phase \in {"stat", "read", "place", "mounted", "failed"}
  /\ cur \in 1 .. NFiles + 1
  /\ size \in [Files -> Nat]
  /\ indexes \in [Files -> Seq(Nat)]
  /\ IsCells(chunkBuf)
  /\ Len(chunkBuf) <= ChunkSize
  /\ IsCells(blob)
  /\ nextBlkaddr \in Nat
  /\ \A c \in DOMAIN dedup : IsCells(c) /\ dedup[c] \in Nat
  /\ savedByDedup \in Nat
  /\ mapped \in Nat
  /\ rd \in [st : {"idle", "busy", "ok", "error"}, file : Files, off : Nat,
             size : Nat, filePos : Nat, remaining : Nat, out : Seq(Nat)]

(* Length of the k-th chunk of file f. *)
ChunkLen(f, k) == MinOf(size[f] - (k - 1) * ChunkSize, ChunkSize)

(* The cells of file f that its indexes resolve to in the blob so far. *)
Resolved(f) ==
  [p \in 1 .. MinOf(size[f], Len(indexes[f]) * ChunkSize) |->
     blob[indexes[f][ChunkIdx(p - 1) + 1] * BlockSize + ChunkOff(p - 1) + 1]]

(* The refinement: what has been captured of a file is what its indexes     *)
(* resolve to, and for the current file also the chunk in hand.  So sharing *)
(* a chunk, appending to the blob, or a rewrite of the source never changes *)
(* what was captured, and a read of the mounted image returns exactly it.   *)
Store == INSTANCE FileStore WITH
  source <- source,
  stored <- [f \in Files |->
               Resolved(f) \o (IF f = cur THEN chunkBuf ELSE << >>)],
  stage  <- IF phase = "failed" THEN "failed"
            ELSE IF phase # "mounted" THEN "building"
            ELSE IF mapped = Len(blob) THEN "whole" ELSE "damaged",
  call   <- IF rd.st = "idle" THEN [st |-> "idle"]
            ELSE [st |-> rd.st, file |-> rd.file, off |-> rd.off,
                  size |-> rd.size,
                  out |-> IF rd.st = "ok" THEN rd.out ELSE << >>]
ImplementsFileStore == Store!Spec

(* The sum of g over 1 .. n. *)
SumTo(g, n) ==
  LET sum[k \in 0 .. n] == IF k = 0 THEN 0 ELSE sum[k - 1] + g[k]
  IN sum[n]

(* What the inodes refer to in the blob, file by file, padding included.     *)
Referred(f) ==
  SumTo([k \in 1 .. Len(indexes[f]) |-> WriteLen(ChunkLen(f, k))],
        Len(indexes[f]))

(* saved_by_dedup is what mkfs reports to the user: with what was written,   *)
(* it accounts for every block that the inodes refer to.                    *)
DedupAccounting ==
  phase # "failed" =>
    savedByDedup + Len(blob)
      = SumTo([f \in Files |-> Referred(f)], NFiles)

(* No content is stored twice: two addresses in use hold different chunks,  *)
(* or chunks of different length.                                          *)
NoDuplicateChunk ==
  \A f, g \in Files :
    \A k \in 1 .. Len(indexes[f]), l \in 1 .. Len(indexes[g]) :
      LET a == indexes[f][k] * BlockSize
          b == indexes[g][l] * BlockSize
      IN a # b /\ ChunkLen(f, k) = ChunkLen(g, l) =>
           SubSeq(blob, a + 1, a + ChunkLen(f, k))
             # SubSeq(blob, b + 1, b + ChunkLen(g, l))

=============================================================================

--------------------------- MODULE MkfsRunProofs ---------------------------
(***************************************************************************)
(* Theorems about MkfsRun, for runs of any shape in any number, a write       *)
(* buffer of any capacity, and any number of failures: what the two files can *)
(* be at any moment, and what a daemon can have mapped.                      *)
(***************************************************************************)
EXTENDS MkfsRun, TLAPS

-----------------------------------------------------------------------------
(* Prefixes.                                                               *)

LEMMA ConcatIsSeq ==
  ASSUME NEW S, NEW s \in Seq(S), NEW t \in Seq(S)
  PROVE  /\ s \o t \in Seq(S) /\ Len(s \o t) = Len(s) + Len(t)
         /\ Len(s) \in Nat /\ Len(t) \in Nat
OBVIOUS

LEMMA HeadOfConcat ==
  ASSUME NEW S, NEW s \in Seq(S), NEW t \in Seq(S), 1 <= Len(s)
  PROVE  /\ s \o t \in Seq(S) /\ Len(s \o t) = Len(s) + Len(t)
         /\ (s \o t)[1] = s[1]
<1>1. Len(s) \in Nat /\ Len(t) \in Nat
  OBVIOUS
<1> QED
  BY <1>1

LEMMA EmptyIsNeutral ==
  ASSUME NEW S, NEW s \in Seq(S)
  PROVE  s \o << >> = s /\ << >> \o s = s /\ << >> \in Seq(S)
OBVIOUS

LEMMA PrefixByPoints ==
  ASSUME NEW S, NEW s \in Seq(S), NEW t \in Seq(S)
  PROVE  IsPrefix(s, t)
         <=> Len(s) <= Len(t) /\ \A i \in 1 .. Len(s) : s[i] = t[i]
<1>1. ASSUME Len(s) <= Len(t), SubSeq(s, 1, Len(s)) = SubSeq(t, 1, Len(s)),
             NEW i \in 1 .. Len(s)
      PROVE  s[i] = t[i]
  <2>1. SubSeq(s, 1, Len(s))[i] = s[i] /\ SubSeq(t, 1, Len(s))[i] = t[i]
    BY <1>1
  <2> QED
    BY <2>1, <1>1
<1>2. ASSUME Len(s) <= Len(t), \A i \in 1 .. Len(s) : s[i] = t[i]
      PROVE  SubSeq(s, 1, Len(s)) = SubSeq(t, 1, Len(s))
  BY <1>2
<1> QED
  BY <1>1, <1>2 DEF IsPrefix

LEMMA PrefixOfConcat ==
  ASSUME NEW S, NEW s \in Seq(S), NEW t \in Seq(S), NEW n \in 0 .. Len(t)
  PROVE  IsPrefix(s \o SubSeq(t, 1, n), s \o t)
<1>1. SubSeq(t, 1, n) \in Seq(S) /\ Len(SubSeq(t, 1, n)) = n
      /\ \A i \in 1 .. n : SubSeq(t, 1, n)[i] = t[i]
  OBVIOUS
<1> DEFINE u == SubSeq(t, 1, n)
<1> HIDE DEF u
<1>2. u \in Seq(S) /\ Len(u) = n /\ \A i \in 1 .. n : u[i] = t[i]
  BY <1>1 DEF u
<1>3. s \o u \in Seq(S) /\ s \o t \in Seq(S)
      /\ Len(s \o u) = Len(s) + n /\ Len(s \o t) = Len(s) + Len(t)
  BY <1>2
<1> Len(s) \in Nat /\ Len(t) \in Nat
  OBVIOUS
<1>4. ASSUME NEW i \in 1 .. Len(s) + n
      PROVE  (s \o u)[i] = (s \o t)[i]
  <2>0. i \in Int /\ 1 <= i /\ i <= Len(s) + n
    OBVIOUS
  <2>1. CASE i <= Len(s)
    BY <2>0, <2>1, <1>2
  <2>2. CASE ~ (i <= Len(s))
    <3>1. i - Len(s) \in 1 .. n
      BY <2>2
    <3>2. (s \o u)[i] = u[i - Len(s)] /\ (s \o t)[i] = t[i - Len(s)]
      BY <2>2, <1>2, <3>1
    <3> QED
      BY <3>1, <3>2, <1>2
  <2> QED
    BY <2>1, <2>2
<1> HIDE DEF u
<1>5. ASSUME NEW x \in Seq(S), NEW y \in Seq(S), Len(x) <= Len(y),
             \A i \in 1 .. Len(x) : x[i] = y[i]
      PROVE  IsPrefix(x, y)
  BY <1>5, PrefixByPoints
<1>6. IsPrefix(s \o u, s \o t)
  <2>1. Len(s \o u) <= Len(s \o t)
    BY <1>3
  <2>2. \A i \in 1 .. Len(s \o u) : (s \o u)[i] = (s \o t)[i]
    BY <1>3, <1>4
  <2> QED
    BY <1>3, <1>5, <2>1, <2>2
<1> QED
  BY <1>6 DEF u

LEMMA PrefixTransitive ==
  ASSUME NEW S, NEW s \in Seq(S), NEW t \in Seq(S), NEW u \in Seq(S),
         IsPrefix(s, t), IsPrefix(t, u)
  PROVE  IsPrefix(s, u)
<1>1. Len(s) <= Len(t) /\ \A i \in 1 .. Len(s) : s[i] = t[i]
  BY PrefixByPoints
<1>2. Len(t) <= Len(u) /\ \A i \in 1 .. Len(t) : t[i] = u[i]
  BY PrefixByPoints
<1>3. Len(s) <= Len(u) /\ \A i \in 1 .. Len(s) : s[i] = u[i]
  BY <1>1, <1>2
<1> QED
  BY <1>3, PrefixByPoints

LEMMA PrefixGrows ==
  ASSUME NEW S, NEW s \in Seq(S), NEW t \in Seq(S), IsPrefix(s, t), Len(s) < Len(t)
  PROVE  /\ Append(s, t[Len(s) + 1]) \in Seq(S)
         /\ IsPrefix(Append(s, t[Len(s) + 1]), t)
<1> DEFINE u == Append(s, t[Len(s) + 1])
<1>1. Len(s) <= Len(t) /\ \A i \in 1 .. Len(s) : s[i] = t[i]
  BY PrefixByPoints
<1>2. Len(s) \in Nat /\ Len(t) \in Nat /\ Len(s) + 1 \in 1 .. Len(t)
  OBVIOUS
<1>3. t[Len(s) + 1] \in S
  BY <1>2
<1>4. u \in Seq(S) /\ Len(u) = Len(s) + 1
      /\ u[Len(s) + 1] = t[Len(s) + 1]
      /\ \A i \in 1 .. Len(s) : u[i] = s[i]
  BY <1>2, <1>3
<1> HIDE DEF u
<1>5. Len(u) <= Len(t) /\ \A i \in 1 .. Len(u) : u[i] = t[i]
  BY <1>1, <1>2, <1>4
<1>6. IsPrefix(u, t)
  BY <1>4, <1>5, PrefixByPoints
<1> QED
  BY <1>4, <1>6 DEF u

LEMMA WholePrefix ==
  ASSUME NEW S, NEW s \in Seq(S), NEW t \in Seq(S), IsPrefix(s, t), Len(s) = Len(t)
  PROVE  s = t
<1>1. \A i \in 1 .. Len(s) : s[i] = t[i]
  BY PrefixByPoints
<1> QED
  BY <1>1

LEMMA WholeIsPrefix ==
  ASSUME NEW S, NEW s \in Seq(S)
  PROVE  IsPrefix(s, s)
<1>1. Len(s) \in Nat
  OBVIOUS
<1> QED
  BY <1>1 DEF IsPrefix

LEMMA ConcatAssociates ==
  ASSUME NEW S, NEW s \in Seq(S), NEW t \in Seq(S), NEW u \in Seq(S)
  PROVE  s \o (t \o u) = (s \o t) \o u
OBVIOUS

LEMMA HeadIsPrefix ==
  ASSUME NEW S, NEW s \in Seq(S), NEW t \in Seq(S)
  PROVE  IsPrefix(s, s \o t)
<1>1. 0 \in 0 .. Len(t) /\ SubSeq(t, 1, 0) = << >>
  OBVIOUS
<1>2. IsPrefix(s \o SubSeq(t, 1, 0), s \o t)
  BY <1>1, PrefixOfConcat
<1> QED
  BY <1>1, <1>2, EmptyIsNeutral

LEMMA EmptyIsPrefix ==
  ASSUME NEW S, NEW s \in Seq(S)
  PROVE  IsPrefix(<< >>, s)
BY DEF IsPrefix

-----------------------------------------------------------------------------
(* Cells.                                                                  *)

CellSet ==
  [kind : {"meta", "zero", "chunk"}, run : Nat, at : Nat]
  \cup [kind : {"super"}, run : Nat, at : Nat, inos : {s.inos : s \in Shapes},
        blocks : Nat, blobBlocks : Nat]

LEMMA CellsAreCells ==
  \A kind \in {"meta", "zero", "chunk"} : \A r, first, n \in Nat :
    Cells(kind, r, first, n) \in Seq(CellSet)
<1> TAKE kind \in {"meta", "zero", "chunk"}
<1> TAKE r, first, n \in Nat
<1> DEFINE cell(i) == [kind |-> kind, run |-> r, at |-> first + i]
<1>1. \A i \in 1 .. n : cell(i) \in CellSet
  BY DEF CellSet
<1> HIDE DEF cell
<1>2. [i \in 1 .. n |-> cell(i)] \in Seq(CellSet)
  BY <1>1
<1> QED
  BY <1>2 DEF Cells, cell

LEMMA LenOfCells ==
  \A kind \in {"meta", "zero", "chunk"} : \A r, first, n \in Nat :
    Len(Cells(kind, r, first, n)) = n
BY DEF Cells

LEMMA ChunkCells ==
  \A r, n \in Nat : \A i \in 1 .. n : Cells("chunk", r, 0, n)[i].kind = "chunk"
BY DEF Cells

(* What a file that takes n cells of the buffer is, and what is left of both.  *)
SplitAt(s, b, n) ==
  /\ SubSeq(b, 1, n) \in Seq(CellSet) /\ Len(SubSeq(b, 1, n)) = n
  /\ SubSeq(b, n + 1, Len(b)) \in Seq(CellSet)
  /\ Len(SubSeq(b, n + 1, Len(b))) = Len(b) - n
  /\ (s \o SubSeq(b, 1, n)) \o SubSeq(b, n + 1, Len(b)) = s \o b

LEMMA TakeFromBuffer ==
  ASSUME NEW s \in Seq(CellSet), NEW b \in Seq(CellSet), NEW n \in 0 .. Len(b)
  PROVE  SplitAt(s, b, n)
<1> DEFINE u == SubSeq(b, 1, n)
           v == SubSeq(b, n + 1, Len(b))
<1>1. u \in Seq(CellSet) /\ Len(u) = n /\ \A i \in 1 .. n : u[i] = b[i]
  OBVIOUS
<1>2. v \in Seq(CellSet) /\ Len(v) = Len(b) - n
      /\ \A i \in 1 .. Len(b) - n : v[i] = b[i + n]
  OBVIOUS
<1> HIDE DEF u, v
<1>0. Len(b) \in Nat /\ n \in Nat /\ n <= Len(b)
  OBVIOUS
<1>3. u \o v \in Seq(CellSet) /\ Len(u \o v) = Len(b)
  <2>1. u \o v \in Seq(CellSet) /\ Len(u \o v) = Len(u) + Len(v)
    BY <1>1, <1>2, ConcatIsSeq
  <2> QED
    BY <1>0, <1>1, <1>2, <2>1
<1>4. ASSUME NEW i \in 1 .. Len(b)
      PROVE  (u \o v)[i] = b[i]
  <2>0. i \in Int /\ 1 <= i /\ i <= Len(b)
    BY <1>0
  <2>1. CASE i <= n
    BY <1>0, <2>0, <2>1, <1>1, <1>2
  <2>2. CASE ~ (i <= n)
    <3>1. i - n \in 1 .. Len(b) - n /\ (i - n) + n = i
      BY <1>0, <2>0, <2>2
    <3>2. (u \o v)[i] = v[i - n]
      BY <1>0, <2>0, <2>2, <3>1, <1>1, <1>2
    <3> QED
      BY <3>1, <3>2, <1>2
  <2> QED
    BY <2>1, <2>2
<1>5. u \o v = b
  <2>1. ASSUME NEW x \in Seq(CellSet), NEW y \in Seq(CellSet), Len(x) = Len(y),
               \A i \in 1 .. Len(y) : x[i] = y[i]
        PROVE  x = y
    BY <2>1
  <2> QED
    BY <1>3, <1>4, <2>1
<1>6. (s \o u) \o v = s \o (u \o v)
  BY <1>1, <1>2
<1> QED
  BY <1>1, <1>2, <1>5, <1>6 DEF u, v, SplitAt

(* The shapes of the runs so far are shapes.                                 *)
ShapesOK == run \in Nat /\ shapes \in Seq(Shapes) /\ Len(shapes) = run

(* What a run writes.                                                       *)
LEMMA WhatARunWrites ==
  ASSUME ShapesOK, NEW r \in 1 .. run
  PROVE  /\ shapes[r].meta * CellsPerBlock \in Nat
         /\ Superblock(r) \in CellSet /\ Superblock(r).kind = "super"
         /\ Block0(r) \in Seq(CellSet) /\ Len(Block0(r)) = CellsPerBlock
         /\ Block0(r)[1] = Superblock(r)
         /\ Metadata(r) \in Seq(CellSet)
         /\ Len(Metadata(r)) = shapes[r].meta * CellsPerBlock
         /\ WholeImage(r) \in Seq(CellSet)
         /\ WholeImage(r) = Block0(r) \o Metadata(r)
         /\ WholeImage(r)[1] = Superblock(r)
         /\ WholeBlob(r) \in Seq(CellSet)
         /\ Len(WholeBlob(r)) = shapes[r].blob
         /\ \A i \in 1 .. Len(WholeBlob(r)) : WholeBlob(r)[i].kind = "chunk"
<1>1. r \in Nat /\ shapes[r] \in Shapes
  BY DEF ShapesOK
<1>2. shapes[r].blob \in Nat /\ shapes[r].meta \in Nat
  BY <1>1, RunAssumption
<1>3. shapes[r].meta * CellsPerBlock \in Nat /\ 1 + shapes[r].meta \in Nat
      /\ shapes[r].blob \div CellsPerBlock \in Nat
  BY <1>2 DEF CellsPerBlock
<1>4. Superblock(r) \in CellSet /\ Superblock(r).kind = "super"
  <2>1. shapes[r].inos \in {s.inos : s \in Shapes}
    BY <1>1
  <2> QED
    BY <1>1, <1>3, <2>1 DEF Superblock, CellSet
<1> DEFINE zeros == Cells("zero", r, 1, CellsPerBlock - 1)
           meta == Metadata(r)
<1>5. zeros \in Seq(CellSet) /\ Len(zeros) = 1
  <2>1. "zero" \in {"meta", "zero", "chunk"} /\ 1 \in Nat
    OBVIOUS
  <2>2. CellsPerBlock - 1 \in Nat /\ CellsPerBlock - 1 = 1
    BY DEF CellsPerBlock
  <2>3. Cells("zero", r, 1, CellsPerBlock - 1) \in Seq(CellSet)
    BY ONLY <1>1, <2>1, <2>2, CellsAreCells
  <2>4. Len(Cells("zero", r, 1, CellsPerBlock - 1)) = CellsPerBlock - 1
    BY ONLY <1>1, <2>1, <2>2, LenOfCells
  <2> QED
    BY <2>2, <2>3, <2>4 DEF zeros
<1>6. meta \in Seq(CellSet) /\ Len(meta) = shapes[r].meta * CellsPerBlock
  <2>1. "meta" \in {"meta", "zero", "chunk"} /\ CellsPerBlock \in Nat
    BY DEF CellsPerBlock
  <2> DEFINE n == shapes[r].meta * CellsPerBlock
  <2>2. n \in Nat
    BY <1>3
  <2> HIDE DEF n
  <2>3. /\ Cells("meta", r, CellsPerBlock, n) \in Seq(CellSet)
        /\ Len(Cells("meta", r, CellsPerBlock, n)) = n
    BY <1>1, <2>1, <2>2, CellsAreCells, LenOfCells
  <2> QED
    BY <2>3 DEF meta, Metadata, n
<1> HIDE DEF zeros, meta
<1>7. <<Superblock(r)>> \in Seq(CellSet) /\ Len(<<Superblock(r)>>) = 1
      /\ <<Superblock(r)>>[1] = Superblock(r)
  BY <1>4
<1>8. Block0(r) = <<Superblock(r)>> \o zeros
  BY DEF Block0, zeros
<1> DEFINE super == <<Superblock(r)>>
<1> HIDE DEF super
<1>9. Block0(r) \in Seq(CellSet) /\ Len(Block0(r)) = CellsPerBlock
      /\ Block0(r)[1] = Superblock(r)
  <2>1. super \in Seq(CellSet) /\ Len(super) = 1 /\ super[1] = Superblock(r)
    BY <1>7 DEF super
  <2>2. /\ super \o zeros \in Seq(CellSet)
        /\ Len(super \o zeros) = Len(super) + Len(zeros)
        /\ (super \o zeros)[1] = super[1]
    <3>1. 1 <= Len(super)
      BY <2>1
    <3> QED
      BY <2>1, <1>5, <3>1, HeadOfConcat
  <2>3. Block0(r) = super \o zeros
    BY <1>8 DEF super
  <2>4. Len(super) + Len(zeros) = CellsPerBlock
    BY <2>1, <1>5 DEF CellsPerBlock
  <2> QED
    BY <2>1, <2>2, <2>3, <2>4
<1>10. WholeImage(r) = Block0(r) \o meta
  BY DEF WholeImage, meta
<1>11. WholeImage(r) \in Seq(CellSet) /\ WholeImage(r)[1] = Superblock(r)
  <2>1. 1 <= Len(Block0(r))
    BY <1>9 DEF CellsPerBlock
  <2>2. /\ Block0(r) \o meta \in Seq(CellSet)
        /\ (Block0(r) \o meta)[1] = Block0(r)[1]
    BY <1>6, <1>9, <2>1, HeadOfConcat
  <2> QED
    BY <1>9, <1>10, <2>2
<1>12. /\ WholeBlob(r) \in Seq(CellSet)
       /\ Len(WholeBlob(r)) = shapes[r].blob
       /\ \A i \in 1 .. Len(WholeBlob(r)) : WholeBlob(r)[i].kind = "chunk"
  <2>1. "chunk" \in {"meta", "zero", "chunk"} /\ 0 \in Nat
    OBVIOUS
  <2> DEFINE n == shapes[r].blob
  <2>2. n \in Nat
    BY <1>2
  <2> HIDE DEF n
  <2>3. Cells("chunk", r, 0, n) \in Seq(CellSet)
    BY <1>1, <2>1, <2>2, CellsAreCells
  <2>4. Len(Cells("chunk", r, 0, n)) = n
    BY <1>1, <2>1, <2>2, LenOfCells
  <2>5. \A i \in 1 .. n : Cells("chunk", r, 0, n)[i].kind = "chunk"
    BY <1>1, <2>2, ChunkCells
  <2> QED
    BY <2>3, <2>4, <2>5 DEF WholeBlob, n
<1> QED
  BY <1>3, <1>4, <1>6, <1>9, <1>10, <1>11, <1>12 DEF meta

(* A later run does not change what an earlier one wrote.                      *)
LEMMA RunsStay ==
  ASSUME NEW r \in Nat, shapes'[r] = shapes[r]
  PROVE  /\ Superblock(r)' = Superblock(r)
         /\ Block0(r)' = Block0(r) /\ Metadata(r)' = Metadata(r)
         /\ WholeImage(r)' = WholeImage(r) /\ WholeBlob(r)' = WholeBlob(r)
<1>1. Superblock(r)' = Superblock(r)
  BY DEF Superblock
<1>2. Block0(r)' = Block0(r)
  BY <1>1 DEF Block0, Cells
<1>3. Metadata(r)' = Metadata(r)
  BY DEF Metadata, Cells
<1>4. WholeImage(r)' = WholeImage(r)
  BY <1>2, <1>3 DEF WholeImage
<1>5. WholeBlob(r)' = WholeBlob(r)
  BY DEF WholeBlob, Cells
<1> QED
  BY <1>1, <1>2, <1>3, <1>4, <1>5

-----------------------------------------------------------------------------
(* The invariant.                                                          *)

Readers ==
  [state : {"closed", "refused", "mapped", "mounted", "killed"},
   image : {"none", "image", "blob"}, len : Nat, run : Nat, blobRun : Nat]

Types ==
  /\ TypeOK
  /\ blob \in Seq(CellSet) /\ image \in Seq(CellSet)
  /\ bufw \in Seq(CellSet) /\ slice \in Seq(CellSet)
  /\ reader \in Readers

FilesOK ==
  /\ OneRunPerFile
  /\ imageOwner <= blobOwner
  /\ imageOwner # 0 /\ imageOwner = blobOwner => blob = WholeBlob(blobOwner)

(* What is true where a run is: before it creates the image nothing is in its  *)
(* buffer; then the image, the buffer and the slice are one after the other    *)
(* what the run writes.                                                     *)
Placed ==
  /\ pc # "idle" => run # 0
  /\ pc \in {"args", "create_blob", "build", "create_image"} =>
       imageOwner # run /\ bufw = << >>
  /\ pc \in {"build", "create_image"} => blobOwner = run
  /\ pc = "create_image" => blob = WholeBlob(run)
  /\ pc \in {"block0", "meta"} => imageOwner = run
  /\ pc = "block0" => image = << >> /\ bufw = << >> /\ slice = Block0(run)
  /\ pc = "meta" => image \o bufw = Block0(run) /\ slice = Metadata(run)
  /\ pc = "exit" /\ imageOwner = run => IsPrefix(image \o bufw, WholeImage(run))
  /\ pc = "exit" /\ imageOwner # run => bufw = << >>

Bypasses(r) == shapes[r].meta * CellsPerBlock >= Cap

Succeeds ==
  /\ pc = "exit" /\ code = "ok" =>
       /\ imageOwner = run /\ image \o bufw = WholeImage(run)
       /\ Bypasses(run) => bufw = << >>
  /\ pc = "idle" /\ code = "ok" =>
       /\ run # 0 /\ imageOwner = run
       /\ Bypasses(run) => image = WholeImage(run)

Held ==
  /\ reader.state \in {"mapped", "mounted"} =>
       /\ reader.run # 0 /\ reader.run <= imageOwner
       /\ reader.image = "image"
       /\ reader.run = imageOwner =>
            reader.len <= Len(image) /\ image[1] = Superblock(reader.run)
  /\ reader.state = "mounted" => reader.run <= reader.blobRun

IInv == Types /\ FilesOK /\ Placed /\ Succeeds /\ Held

(* Facts that every step uses.                                              *)
LEMMA TypeFacts ==
  ASSUME Types
  PROVE  /\ ShapesOK
         /\ run \in Nat /\ run <= MaxRuns /\ MaxRuns \in Nat
         /\ blobOwner \in Nat /\ blobOwner <= run
         /\ imageOwner \in Nat /\ imageOwner <= run
         /\ blob \in Seq(CellSet) /\ image \in Seq(CellSet)
         /\ bufw \in Seq(CellSet) /\ slice \in Seq(CellSet)
         /\ Len(blob) \in Nat /\ Len(image) \in Nat
         /\ Len(bufw) \in Nat /\ Len(slice) \in Nat
         /\ reader \in Readers
         /\ reader.run \in Nat /\ reader.len \in Nat /\ reader.blobRun \in Nat
BY RunAssumption DEF Types, TypeOK, ShapesOK, Readers

(* The shapes of the runs so far are kept.                                   *)
ShapesKept == run' \in Nat /\ run <= run' /\ \A r \in 1 .. run : shapes'[r] = shapes[r]

LEMMA SameShapes ==
  ASSUME Types, UNCHANGED <<run, shapes>>
  PROVE  ShapesKept
BY TypeFacts DEF ShapesKept

LEMMA WholesStay ==
  ASSUME Types, ShapesKept, NEW r \in 1 .. run
  PROVE  /\ Superblock(r)' = Superblock(r)
         /\ Block0(r)' = Block0(r) /\ Metadata(r)' = Metadata(r)
         /\ WholeImage(r)' = WholeImage(r) /\ WholeBlob(r)' = WholeBlob(r)
<1>1. r \in Nat /\ shapes'[r] = shapes[r]
  BY TypeFacts DEF ShapesKept
<1> QED
  BY <1>1, RunsStay

(* A step that leaves the files alone.                                       *)
LEMMA FilesStay ==
  ASSUME Types, FilesOK, ShapesKept, UNCHANGED files
  PROVE  FilesOK'
<1> PICK i \in Nat : i = imageOwner /\ i <= run
  BY TypeFacts
<1> PICK b \in Nat : b = blobOwner /\ b <= run
  BY TypeFacts
<1>1. /\ blob' = blob /\ blobOwner' = b /\ image' = image /\ imageOwner' = i
  BY DEF files
<1>2. /\ IF i = 0 THEN image = << >> ELSE IsPrefix(image, WholeImage(i))
      /\ IF b = 0 THEN blob = << >> ELSE IsPrefix(blob, WholeBlob(b))
      /\ i <= b /\ (i # 0 /\ i = b => blob = WholeBlob(b))
  BY DEF FilesOK, OneRunPerFile
<1>3. i # 0 => i \in 1 .. run
  BY TypeFacts
<1>4. b # 0 => b \in 1 .. run
  BY TypeFacts
<1>5. i # 0 => WholeImage(i)' = WholeImage(i)
  BY <1>3, WholesStay
<1>6. b # 0 => WholeBlob(b)' = WholeBlob(b)
  BY <1>4, WholesStay
<1>7. /\ IF i = 0 THEN image' = << >> ELSE IsPrefix(image', WholeImage(i)')
      /\ IF b = 0 THEN blob' = << >> ELSE IsPrefix(blob', WholeBlob(b)')
      /\ i <= b /\ (i # 0 /\ i = b => blob' = WholeBlob(b)')
  BY <1>1, <1>2, <1>5, <1>6
<1>8. OneRunPerFile'
  BY <1>1, <1>7 DEF OneRunPerFile
<1>9. /\ imageOwner' <= blobOwner'
      /\ imageOwner' # 0 /\ imageOwner' = blobOwner' => blob' = WholeBlob(blobOwner)'
  BY <1>1, <1>7
<1> QED
  BY <1>8, <1>9 DEF FilesOK

(* A step of mkfs that leaves the image alone, or makes it longer.            *)
LEMMA HeldStays ==
  ASSUME Types, Held, ShapesKept, imageOwner' = imageOwner, reader' = reader,
         NEW d \in Seq(CellSet), image' = image \o d
  PROVE  Held'
<1> SUFFICES ASSUME reader.state \in {"mapped", "mounted"}
             PROVE  Held'
  BY DEF Held
<1> PICK q \in Nat : q = reader.run
  BY TypeFacts
<1>1. q # 0 /\ q <= imageOwner /\ reader.image = "image" /\ q \in 1 .. run
      /\ (q = imageOwner => reader.len <= Len(image) /\ image[1] = Superblock(q))
      /\ (reader.state = "mounted" => reader.run <= reader.blobRun)
  BY SMTT(30), TypeFacts DEF Held
<1>2. Superblock(q)' = Superblock(q)
  BY <1>1, WholesStay
<1>3. reader.len > 0
  BY DEF Types, TypeOK
<1>4. ASSUME q = imageOwner
      PROVE  reader.len <= Len(image') /\ image'[1] = Superblock(q)'
  <2>1. reader.len <= Len(image) /\ image[1] = Superblock(q) /\ 1 <= Len(image)
    BY <1>1, <1>3, <1>4, TypeFacts
  <2>2. image \in Seq(CellSet)
    BY TypeFacts
  <2>3. (image \o d)[1] = image[1]
    BY <2>1, <2>2, HeadOfConcat
  <2>4. Len(image \o d) = Len(image) + Len(d) /\ Len(d) \in Nat
    BY <2>2, ConcatIsSeq
  <2> QED
    BY <1>2, <2>1, <2>3, <2>4, TypeFacts
<1>5. reader'.run = q /\ imageOwner' = imageOwner
  OBVIOUS
<1> QED
  BY <1>1, <1>4, <1>5 DEF Held

(* A step of mkfs that writes on behind the image of its own run.              *)
LEMMA FilesGrow ==
  ASSUME Types, FilesOK, UNCHANGED <<run, shapes, blob, blobOwner, imageOwner>>,
         imageOwner = run, run # 0, IsPrefix(image', WholeImage(run))
  PROVE  FilesOK'
<1> PICK r \in Nat : r = run /\ r # 0
  BY TypeFacts
<1>1. r \in 1 .. run /\ imageOwner = r /\ blobOwner = r
  BY TypeFacts DEF FilesOK
<1>2. WholeImage(r)' = WholeImage(r) /\ WholeBlob(r)' = WholeBlob(r)
  BY <1>1, SameShapes, WholesStay
<1>3. imageOwner' = r /\ blobOwner' = r /\ blob' = WholeBlob(r)'
  BY <1>1, <1>2 DEF FilesOK
<1>4. IsPrefix(blob', WholeBlob(r)') /\ IsPrefix(image', WholeImage(r)')
  BY <1>1, <1>2 DEF FilesOK, OneRunPerFile
<1>5. OneRunPerFile'
  BY <1>3, <1>4 DEF OneRunPerFile
<1> QED
  BY <1>3, <1>5 DEF FilesOK

(* The types are kept by a step of a run.                                    *)
LEMMA TypesStay ==
  ASSUME Types, UNCHANGED <<run, shapes, reader>>,
         blobOwner' \in {blobOwner, run}, imageOwner' \in {imageOwner, run},
         pc' \in {"idle", "args", "create_blob", "build", "create_image",
                  "block0", "meta", "exit"},
         code' \in {"none", "ok", "error", "killed"},
         Fault \/ NoFault,
         blob' \in Seq(CellSet), image' \in Seq(CellSet),
         bufw' \in Seq(CellSet), slice' \in Seq(CellSet), Len(bufw') <= Cap
  PROVE  Types'
<1>1. faults' \in 0 .. MaxFaults
  <2>1. faults \in 0 .. MaxFaults /\ MaxFaults \in Nat
    BY RunAssumption DEF Types, TypeOK
  <2>2. faults' = faults \/ (faults < MaxFaults /\ faults' = faults + 1)
    BY DEF Fault, NoFault
  <2> QED
    BY <2>1, <2>2
<1>2. blobOwner' \in 0 .. run /\ imageOwner' \in 0 .. run
  <2>1. /\ run \in Nat /\ blobOwner \in Nat /\ blobOwner <= run
        /\ imageOwner \in Nat /\ imageOwner <= run
    BY TypeFacts
  <2>2. blobOwner' \in {blobOwner, run} /\ imageOwner' \in {imageOwner, run}
    OBVIOUS
  <2> QED
    BY ONLY <2>1, <2>2
<1>3. TypeOK'
  BY <1>1, <1>2 DEF Types, TypeOK
<1> QED
  BY <1>3 DEF Types

LEMMA InitKeeps == Init => IInv
<1> SUFFICES ASSUME Init
             PROVE  IInv
  OBVIOUS
<1>1. Types
  BY RunAssumption DEF Init, Types, TypeOK, Closed, Readers
<1>2. FilesOK
  BY DEF Init, FilesOK, OneRunPerFile
<1>3. Placed /\ Succeeds /\ Held
  BY DEF Init, Placed, Succeeds, Held, Closed
<1> QED
  BY <1>1, <1>2, <1>3 DEF IInv

LEMMA StartKeeps == IInv /\ Start => IInv'
<1> SUFFICES ASSUME IInv, Start
             PROVE  IInv'
  OBVIOUS
<1> USE DEF IInv
<1>1. PICK s \in Shapes : shapes' = Append(shapes, s)
  BY DEF Start
<1>2. /\ pc = "idle" /\ run < MaxRuns /\ run' = run + 1
      /\ pc' = "args" /\ code' = "none" /\ bufw' = << >> /\ slice' = << >>
      /\ NoFault /\ UNCHANGED <<files, reader>>
  BY DEF Start
<1>3. ShapesKept
  <2>1. ShapesOK /\ run \in Nat
    BY TypeFacts
  <2>2. run' = run + 1
    BY <1>2
  <2> QED
    BY ONLY <1>1, <2>1, <2>2 DEF ShapesKept, ShapesOK
<1>4. Types'
  <2>1. shapes' \in Seq(Shapes) /\ Len(shapes') = run'
    <3>1. shapes \in Seq(Shapes) /\ Len(shapes) = run
      BY TypeFacts DEF ShapesOK
    <3>2. run' = run + 1
      BY <1>2
    <3> QED
      BY ONLY <1>1, <3>1, <3>2
  <2>2. run' \in 0 .. MaxRuns /\ blobOwner' \in 0 .. run' /\ imageOwner' \in 0 .. run'
    <3>1. /\ run \in Nat /\ MaxRuns \in Nat /\ blobOwner \in Nat
          /\ blobOwner <= run /\ imageOwner \in Nat /\ imageOwner <= run
      BY TypeFacts
    <3>2. /\ run < MaxRuns /\ run' = run + 1
          /\ blobOwner' = blobOwner /\ imageOwner' = imageOwner
      BY ONLY <1>2 DEF files
    <3> QED
      BY ONLY <3>1, <3>2
  <2>3. TypeOK'
    BY <1>2, <2>1, <2>2, RunAssumption DEF Types, TypeOK, NoFault
  <2> QED
    BY <1>2, <2>3 DEF Types, files
<1>5. FilesOK'
  BY <1>2, <1>3, FilesStay
<1>6. Placed'
  BY <1>2, TypeFacts DEF Placed, files
<1>7. Succeeds'
  BY <1>2 DEF Succeeds
<1>8. Held'
  BY <1>2, <1>3, HeldStays, TypeFacts, EmptyIsNeutral DEF files
<1> QED
  BY <1>4, <1>5, <1>6, <1>7, <1>8

LEMMA CheckArgsKeeps == IInv /\ CheckArgs => IInv'
<1> SUFFICES ASSUME IInv, CheckArgs
             PROVE  IInv'
  OBVIOUS
<1> USE DEF IInv
<1>1. /\ pc = "args" /\ NoFault
      /\ UNCHANGED <<bufw, slice, files, reader, run, shapes>>
      /\ (pc' = "create_blob" /\ code' = code) \/ (pc' = "exit" /\ code' = "error")
  BY DEF CheckArgs, Goto, GiveUp
<1>2. Types'
  BY <1>1, TypesStay DEF Types, TypeOK, files
<1>3. FilesOK'
  BY <1>1, SameShapes, FilesStay
<1>4. Placed'
  BY <1>1 DEF Placed, files
<1>5. Succeeds'
  BY <1>1 DEF Succeeds
<1>6. Held'
  BY <1>1, SameShapes, HeldStays, TypeFacts, EmptyIsNeutral DEF files
<1> QED
  BY <1>2, <1>3, <1>4, <1>5, <1>6

LEMMA CreateBlobKeeps == IInv /\ CreateBlob => IInv'
<1> SUFFICES ASSUME IInv, CreateBlob
             PROVE  IInv'
  OBVIOUS
<1> USE DEF IInv
<1>1. /\ pc = "create_blob" /\ (Fault \/ NoFault)
      /\ UNCHANGED <<bufw, slice, image, imageOwner, reader, run, shapes>>
      /\ \/ blob' = << >> /\ blobOwner' = run /\ pc' = "build" /\ code' = code
         \/ blob' = blob /\ blobOwner' = blobOwner /\ pc' = "exit" /\ code' = "error"
  BY DEF CreateBlob, Goto, GiveUp
<1>2. ShapesKept
  BY <1>1, SameShapes
<1>3. Types'
  BY <1>1, TypesStay, EmptyIsNeutral DEF Types, TypeOK
<1>4. FilesOK'
  <2>1. CASE blob' = blob /\ blobOwner' = blobOwner
    BY <1>1, <1>2, <2>1, FilesStay DEF files
  <2>2. CASE blob' = << >> /\ blobOwner' = run
    <3>1. imageOwner # run /\ run # 0
      BY <1>1 DEF Placed
    <3>2. PICK i \in Nat : i = imageOwner /\ i < run
      BY <3>1, TypeFacts
    <3>3. PICK r \in Nat : r = run
      BY TypeFacts
    <3>4. i # 0 => i \in 1 .. run
      BY <3>2, TypeFacts
    <3>5. i # 0 => WholeImage(i)' = WholeImage(i)
      BY <1>2, <3>4, WholesStay
    <3>6. IF i = 0 THEN image' = << >> ELSE IsPrefix(image', WholeImage(i)')
      BY <1>1, <3>2, <3>5 DEF FilesOK, OneRunPerFile
    <3>7. r \in 1 .. run /\ WholeBlob(r)' = WholeBlob(r) /\ WholeBlob(r) \in Seq(CellSet)
      <4>1. r \in 1 .. run /\ ShapesOK /\ Types
        BY <3>1, <3>3, TypeFacts
      <4>2. WholeBlob(r)' = WholeBlob(r)
        BY <1>2, <4>1, WholesStay
      <4>3. WholeBlob(r) \in Seq(CellSet)
        BY <4>1, WhatARunWrites
      <4> QED
        BY <4>1, <4>2, <4>3
    <3>8. IsPrefix(<< >>, WholeBlob(r)')
      BY <3>7, EmptyIsPrefix
    <3>9. OneRunPerFile'
      BY <1>1, <2>2, <3>1, <3>2, <3>3, <3>6, <3>8 DEF OneRunPerFile
    <3>10. imageOwner' = i /\ blobOwner' = r /\ i < r
      BY <1>1, <2>2, <3>2, <3>3
    <3>11. imageOwner' <= blobOwner' /\ imageOwner' # blobOwner'
      BY <3>10
    <3> QED
      BY <3>9, <3>11 DEF FilesOK
  <2> QED
    BY <1>1, <2>1, <2>2
<1>5. Placed'
  BY <1>1 DEF Placed
<1>6. Succeeds'
  BY <1>1 DEF Succeeds
<1>7. Held'
  BY <1>1, <1>2, HeldStays, TypeFacts, EmptyIsNeutral
<1> QED
  BY <1>3, <1>4, <1>5, <1>6, <1>7

LEMMA BuildTreeKeeps == IInv /\ BuildTree => IInv'
<1> SUFFICES ASSUME IInv, BuildTree
             PROVE  IInv'
  OBVIOUS
<1> USE DEF IInv
<1>1. /\ pc = "build" /\ (Fault \/ NoFault)
      /\ UNCHANGED <<bufw, slice, blobOwner, image, imageOwner, reader, run, shapes>>
  BY DEF BuildTree, Goto, GiveUp
<1>2. \/ /\ Len(blob) < shapes[run].blob
         /\ blob' = Append(blob, WholeBlob(run)[Len(blob) + 1])
         /\ pc' = pc /\ code' = code
      \/ /\ Len(blob) = shapes[run].blob
         /\ blob' = blob /\ pc' = "create_image" /\ code' = code
      \/ blob' = blob /\ pc' = "exit" /\ code' = "error"
  BY DEF BuildTree, Goto, GiveUp
<1>3. ShapesKept
  BY <1>1, SameShapes
<1>4. run # 0 /\ imageOwner # run /\ blobOwner = run /\ bufw = << >>
  BY <1>1 DEF Placed
<1> PICK r \in Nat : r = run
  BY TypeFacts
<1>5. /\ r \in 1 .. run /\ WholeBlob(r)' = WholeBlob(r)
      /\ WholeBlob(r) \in Seq(CellSet) /\ Len(WholeBlob(r)) = shapes[r].blob
  <2>1. r \in 1 .. run /\ ShapesOK /\ Types
    BY <1>4, TypeFacts
  <2>2. WholeBlob(r)' = WholeBlob(r)
    BY <1>3, <2>1, WholesStay
  <2>3. WholeBlob(r) \in Seq(CellSet) /\ Len(WholeBlob(r)) = shapes[r].blob
    BY <2>1, WhatARunWrites
  <2> QED
    BY <2>1, <2>2, <2>3
<1>6. blob \in Seq(CellSet) /\ IsPrefix(blob, WholeBlob(r))
  BY <1>4, TypeFacts DEF FilesOK, OneRunPerFile
<1>7. blob' \in Seq(CellSet) /\ IsPrefix(blob', WholeBlob(r))
  <2>1. CASE blob' = blob
    BY <2>1, <1>6
  <2>2. CASE /\ Len(blob) < shapes[run].blob
             /\ blob' = Append(blob, WholeBlob(run)[Len(blob) + 1])
    BY <2>2, <1>5, <1>6, PrefixGrows
  <2> QED
    BY <1>2, <2>1, <2>2
<1>8. Types'
  BY <1>1, <1>2, <1>7, TypesStay DEF Types, TypeOK
<1>9. FilesOK'
  <2>1. PICK i \in Nat : i = imageOwner /\ i < r
    BY <1>4, TypeFacts
  <2>2. i # 0 => i \in 1 .. run
    BY <2>1
  <2>3. i # 0 => WholeImage(i)' = WholeImage(i)
    BY <1>3, <2>2, WholesStay
  <2>4. IF i = 0 THEN image' = << >> ELSE IsPrefix(image', WholeImage(i)')
    BY <1>1, <2>1, <2>3 DEF FilesOK, OneRunPerFile
  <2>5. imageOwner' = i /\ blobOwner' = r /\ i < r
    BY <1>1, <1>4, <2>1
  <2>6. OneRunPerFile'
    BY <1>5, <1>7, <2>4, <2>5 DEF OneRunPerFile
  <2>7. imageOwner' <= blobOwner' /\ imageOwner' # blobOwner'
    BY <2>5
  <2> QED
    BY <2>6, <2>7 DEF FilesOK
<1>10. pc' = "create_image" => blob' = WholeBlob(r)
  BY <1>1, <1>2, <1>5, <1>6, WholePrefix
<1>11. Placed'
  <2>1. run' = r /\ WholeBlob(r)' = WholeBlob(r)
    BY <1>1, <1>5
  <2>2. pc' = "create_image" => blob' = WholeBlob(run)'
    BY <1>10, <2>1
  <2>3. pc' \in {"build", "create_image", "exit"}
    BY <1>1, <1>2
  <2> QED
    BY <1>1, <1>4, <2>2, <2>3 DEF Placed
<1>12. Succeeds'
  BY <1>1, <1>2 DEF Succeeds
<1>13. Held'
  BY <1>1, <1>3, HeldStays, TypeFacts, EmptyIsNeutral
<1> QED
  BY <1>8, <1>9, <1>11, <1>12, <1>13

LEMMA CreateImageKeeps == IInv /\ CreateImage => IInv'
<1> SUFFICES ASSUME IInv, CreateImage
             PROVE  IInv'
  OBVIOUS
<1> USE DEF IInv
<1>1. /\ pc = "create_image" /\ (Fault \/ NoFault)
      /\ UNCHANGED <<bufw, blob, blobOwner, reader, run, shapes>>
  BY DEF CreateImage, Goto, GiveUp
<1>2. \/ /\ image' = << >> /\ imageOwner' = run
         /\ slice' = Block0(run) /\ pc' = "block0" /\ code' = code
      \/ /\ UNCHANGED <<slice, image, imageOwner>>
         /\ pc' = "exit" /\ code' = "error"
  BY DEF CreateImage, Goto, GiveUp
<1>3. ShapesKept
  BY <1>1, SameShapes
<1>4. /\ run # 0 /\ imageOwner # run /\ blobOwner = run /\ bufw = << >>
      /\ blob = WholeBlob(run)
  BY <1>1 DEF Placed
<1> PICK r \in Nat : r = run
  BY TypeFacts
<1>5. /\ r \in 1 .. run /\ WholeBlob(r)' = WholeBlob(r) /\ Block0(r)' = Block0(r)
      /\ WholeImage(r)' = WholeImage(r) /\ WholeImage(r) \in Seq(CellSet)
      /\ Block0(r) \in Seq(CellSet)
  <2>1. r \in 1 .. run /\ ShapesOK /\ Types
    BY <1>4, TypeFacts
  <2>2. WholeBlob(r)' = WholeBlob(r) /\ Block0(r)' = Block0(r)
        /\ WholeImage(r)' = WholeImage(r)
    BY <1>3, <2>1, WholesStay
  <2>3. WholeImage(r) \in Seq(CellSet) /\ Block0(r) \in Seq(CellSet)
    BY <2>1, WhatARunWrites
  <2> QED
    BY <2>1, <2>2, <2>3
<1>6. CASE UNCHANGED <<slice, image, imageOwner>>
  <2>1. Types'
    BY <1>1, <1>2, <1>6, TypesStay DEF Types, TypeOK
  <2>2. FilesOK'
    BY <1>1, <1>3, <1>6, FilesStay DEF files
  <2>3. pc' = "exit" /\ code' = "error"
    BY <1>2, <1>4, <1>6
  <2>4. Placed' /\ Succeeds'
    BY <1>1, <1>4, <1>6, <2>3 DEF Placed, Succeeds
  <2>5. Held'
    BY <1>1, <1>3, <1>6, HeldStays, TypeFacts, EmptyIsNeutral
  <2> QED
    BY <2>1, <2>2, <2>4, <2>5
<1>7. CASE /\ image' = << >> /\ imageOwner' = run
           /\ slice' = Block0(run) /\ pc' = "block0" /\ code' = code
  <2>1. Types'
    BY <1>1, <1>5, <1>7, TypesStay, EmptyIsNeutral DEF Types, TypeOK
  <2>2. FilesOK'
    <3>1. IsPrefix(image', WholeImage(r)')
      BY <1>5, <1>7, EmptyIsPrefix
    <3>2. IsPrefix(blob', WholeBlob(r)')
      BY <1>1, <1>4, <1>5 DEF FilesOK, OneRunPerFile
    <3>3. imageOwner' = r /\ blobOwner' = r /\ blob' = WholeBlob(r)' /\ r # 0
      BY <1>1, <1>4, <1>5, <1>7
    <3>4. OneRunPerFile'
      BY <3>1, <3>2, <3>3 DEF OneRunPerFile
    <3> QED
      BY <3>3, <3>4 DEF FilesOK
  <2>3. Placed'
    <3>1. run' = r /\ slice' = Block0(r)'
      BY <1>1, <1>5, <1>7
    <3>2. slice' = Block0(run)'
      BY <3>1
    <3> QED
      BY <1>1, <1>4, <1>7, <3>2 DEF Placed
  <2>4. Succeeds'
    BY <1>7 DEF Succeeds
  <2>5. Held'
    <3>1. reader.state \in {"mapped", "mounted"} => reader.run < r
      BY <1>4, TypeFacts DEF Held
    <3>2. imageOwner' = r /\ reader' = reader
      BY <1>1, <1>7
    <3> QED
      BY <3>1, <3>2, TypeFacts DEF Held
  <2> QED
    BY <2>1, <2>2, <2>3, <2>4, <2>5
<1> QED
  BY <1>2, <1>6, <1>7

(* What is in the file, in the buffer and in hand while the image is written.  *)
LEMMA WhileWriting ==
  ASSUME IInv, Writing, UNCHANGED <<run, shapes>>
  PROVE  \E r \in Nat :
           /\ r = run /\ r # 0 /\ imageOwner = r
           /\ Block0(r)' = Block0(r) /\ Block0(r) \in Seq(CellSet)
           /\ Metadata(r)' = Metadata(r) /\ Metadata(r) \in Seq(CellSet)
           /\ WholeImage(r)' = WholeImage(r) /\ WholeImage(r) \in Seq(CellSet)
           /\ WholeImage(r) = Block0(r) \o Metadata(r)
           /\ Len(Metadata(r)) = shapes[r].meta * CellsPerBlock
           /\ Bypasses(r)' = Bypasses(r)
           /\ IF pc = "block0"
                THEN image = << >> /\ bufw = << >> /\ slice = Block0(r)
                ELSE image \o bufw = Block0(r) /\ slice = Metadata(r)
<1> USE DEF IInv
<1>1. PICK r \in Nat : r = run
  BY TypeFacts
<1>2. r # 0 /\ imageOwner = r
  BY <1>1 DEF Placed, Writing
<1>3. ShapesKept
  BY SameShapes
<1>4. r \in 1 .. run
  BY <1>1, <1>2
<1>5. /\ Block0(r)' = Block0(r) /\ Metadata(r)' = Metadata(r)
      /\ WholeImage(r)' = WholeImage(r)
  BY <1>3, <1>4, WholesStay
<1>6. /\ Block0(r) \in Seq(CellSet) /\ Metadata(r) \in Seq(CellSet)
      /\ WholeImage(r) \in Seq(CellSet) /\ WholeImage(r) = Block0(r) \o Metadata(r)
      /\ Len(Metadata(r)) = shapes[r].meta * CellsPerBlock
  BY <1>4, WhatARunWrites, TypeFacts
<1>7. Bypasses(r)' = Bypasses(r)
  BY DEF Bypasses
<1>8. IF pc = "block0"
        THEN image = << >> /\ bufw = << >> /\ slice = Block0(r)
        ELSE image \o bufw = Block0(r) /\ slice = Metadata(r)
  BY <1>1 DEF Placed, Writing
<1> QED
  BY <1>1, <1>2, <1>5, <1>6, <1>7, <1>8

LEMMA WriteBufferedKeeps == IInv /\ WriteBuffered => IInv'
<1> SUFFICES ASSUME IInv, WriteBuffered
             PROVE  IInv'
  OBVIOUS
<1> USE DEF IInv
<1>1. /\ Writing /\ Len(slice) <= Cap - Len(bufw) /\ Len(slice) < Cap
      /\ bufw' = bufw \o slice
      /\ NoFault /\ UNCHANGED <<files, reader, run, shapes>>
      /\ IF pc = "block0"
           THEN slice' = Metadata(run) /\ pc' = "meta" /\ code' = code
           ELSE slice' = << >> /\ pc' = "exit" /\ code' = "ok"
  BY DEF WriteBuffered, Fits, Spare, WriteDone, Goto
<1> PICK r \in Nat :
           /\ r = run /\ r # 0 /\ imageOwner = r
           /\ Block0(r)' = Block0(r) /\ Block0(r) \in Seq(CellSet)
           /\ Metadata(r)' = Metadata(r) /\ Metadata(r) \in Seq(CellSet)
           /\ WholeImage(r)' = WholeImage(r) /\ WholeImage(r) \in Seq(CellSet)
           /\ WholeImage(r) = Block0(r) \o Metadata(r)
           /\ Len(Metadata(r)) = shapes[r].meta * CellsPerBlock
           /\ Bypasses(r)' = Bypasses(r)
           /\ IF pc = "block0"
                THEN image = << >> /\ bufw = << >> /\ slice = Block0(r)
                ELSE image \o bufw = Block0(r) /\ slice = Metadata(r)
  BY <1>1, WhileWriting
<1>2. ShapesKept
  BY <1>1, SameShapes
<1>3. Types'
  <2>1. bufw' \in Seq(CellSet) /\ Len(bufw') <= Cap
    <3>1. Len(bufw \o slice) = Len(bufw) + Len(slice) /\ bufw \o slice \in Seq(CellSet)
      BY TypeFacts, ConcatIsSeq
    <3>2. Len(bufw) + Len(slice) <= Cap
      BY <1>1, TypeFacts, RunAssumption
    <3> QED
      BY <1>1, <3>1, <3>2
  <2>2. slice' \in Seq(CellSet)
    BY <1>1, EmptyIsNeutral
  <2>3. pc' \in {"meta", "exit"} /\ code' \in {"ok", code}
    BY <1>1
  <2> QED
    BY <1>1, <2>1, <2>2, <2>3, TypesStay DEF Types, TypeOK, files
<1>4. FilesOK'
  BY <1>1, <1>2, FilesStay
<1>5. Held'
  BY <1>1, <1>2, HeldStays, TypeFacts, EmptyIsNeutral DEF files
<1>6. CASE pc = "block0"
  <2>1. image' = << >> /\ bufw' = Block0(r) /\ slice' = Metadata(r) /\ pc' = "meta"
        /\ run' = r /\ imageOwner' = r
    BY <1>1, <1>6, EmptyIsNeutral DEF files
  <2>2. image' \o bufw' = Block0(run)' /\ slice' = Metadata(run)'
    BY <2>1, EmptyIsNeutral
  <2>3. Placed' /\ Succeeds'
    BY <2>1, <2>2 DEF Placed, Succeeds
  <2> QED
    BY <1>3, <1>4, <1>5, <2>3
<1>7. CASE pc # "block0"
  <2>1. image' = image /\ bufw' = bufw \o Metadata(r) /\ pc' = "exit"
        /\ run' = r /\ imageOwner' = r
    BY <1>1, <1>7 DEF files
  <2>2. image \o (bufw \o Metadata(r)) = (image \o bufw) \o Metadata(r)
    <3>1. /\ image \in Seq(CellSet) /\ bufw \in Seq(CellSet)
          /\ Metadata(r) \in Seq(CellSet)
      BY TypeFacts
    <3> QED
      BY ONLY <3>1, ConcatAssociates
  <2>3. image' \o bufw' = WholeImage(run)'
    BY <1>7, <2>1, <2>2
  <2>4. IsPrefix(image' \o bufw', WholeImage(run)')
    BY <2>1, <2>3, WholeIsPrefix
  <2>5. ~ Bypasses(run)'
    <3>1. ~ Bypasses(r)
      <4> DEFINE m == shapes[r].meta * CellsPerBlock
      <4>1. Len(slice) = m
        BY <1>7
      <4> HIDE DEF m
      <4>2. m \in Nat /\ Cap \in Nat /\ m < Cap
        BY <1>1, <4>1, TypeFacts, RunAssumption
      <4>3. ~ (m >= Cap)
        BY <4>2
      <4> QED
        BY <4>3 DEF Bypasses, m
    <3> QED
      BY <2>1, <3>1
  <2>6. Placed' /\ Succeeds'
    BY <2>1, <2>3, <2>4, <2>5 DEF Placed, Succeeds
  <2> QED
    BY <1>3, <1>4, <1>5, <2>6
<1> QED
  BY <1>6, <1>7

(* The file takes d from the buffer; file and buffer together stay the whole.  *)
Took(d, whole) ==
  /\ image' = image \o d /\ image \o d \in Seq(CellSet)
  /\ bufw' \in Seq(CellSet) /\ Len(bufw') <= Cap
  /\ image' \o bufw' = whole
  /\ IsPrefix(image \o d, whole)

LEMMA FlushBufferKeeps == IInv /\ FlushBuffer => IInv'
<1> SUFFICES ASSUME IInv, FlushBuffer
             PROVE  IInv'
  OBVIOUS
<1> USE DEF IInv
<1>1. /\ Writing /\ bufw # << >> /\ (Fault \/ NoFault)
      /\ UNCHANGED <<blob, blobOwner, imageOwner, reader, run, shapes, slice>>
  BY DEF FlushBuffer, GiveUp
<1>2. \/ image' = image \o bufw /\ bufw' = << >> /\ pc' = pc /\ code' = code
      \/ \E n \in 0 .. Len(bufw) - 1 :
           /\ image' = image \o SubSeq(bufw, 1, n)
           /\ bufw' = SubSeq(bufw, n + 1, Len(bufw))
           /\ pc' = "exit" /\ code' = "error"
  BY DEF FlushBuffer, GiveUp
<1> PICK r \in Nat :
           /\ r = run /\ r # 0 /\ imageOwner = r
           /\ Block0(r)' = Block0(r) /\ Block0(r) \in Seq(CellSet)
           /\ Metadata(r)' = Metadata(r) /\ Metadata(r) \in Seq(CellSet)
           /\ WholeImage(r)' = WholeImage(r) /\ WholeImage(r) \in Seq(CellSet)
           /\ WholeImage(r) = Block0(r) \o Metadata(r)
           /\ Len(Metadata(r)) = shapes[r].meta * CellsPerBlock
           /\ Bypasses(r)' = Bypasses(r)
           /\ IF pc = "block0"
                THEN image = << >> /\ bufw = << >> /\ slice = Block0(r)
                ELSE image \o bufw = Block0(r) /\ slice = Metadata(r)
  BY <1>1, WhileWriting
<1>3. pc = "meta" /\ image \o bufw = Block0(r) /\ slice = Metadata(r)
  BY <1>1 DEF Writing
<1>4. ShapesKept
  BY <1>1, SameShapes
<1>5. IsPrefix(Block0(r), WholeImage(r))
  BY HeadIsPrefix
(* The cells that the file has taken, and what is left.                        *)
<1>6. \E d \in Seq(CellSet) : Took(d, Block0(r))
  <2>1. CASE image' = image \o bufw /\ bufw' = << >>
    <3>1. bufw \in Seq(CellSet) /\ image \o bufw \in Seq(CellSet)
      BY TypeFacts, ConcatIsSeq
    <3>2. image' \o bufw' = Block0(r) /\ IsPrefix(image \o bufw, Block0(r))
      BY <1>3, <2>1, EmptyIsNeutral, WholeIsPrefix
    <3>3. bufw' \in Seq(CellSet) /\ Len(bufw') <= Cap
      BY <2>1, RunAssumption
    <3> QED
      BY <2>1, <3>1, <3>2, <3>3 DEF Took
  <2>2. ASSUME NEW n \in 0 .. Len(bufw) - 1,
               image' = image \o SubSeq(bufw, 1, n),
               bufw' = SubSeq(bufw, n + 1, Len(bufw))
        PROVE  \E d \in Seq(CellSet) : Took(d, Block0(r))
    <3>1. n \in 0 .. Len(bufw) /\ n \in Nat
      BY TypeFacts
    <3>2. /\ SubSeq(bufw, 1, n) \in Seq(CellSet) /\ Len(SubSeq(bufw, 1, n)) = n
          /\ SubSeq(bufw, n + 1, Len(bufw)) \in Seq(CellSet)
          /\ Len(SubSeq(bufw, n + 1, Len(bufw))) = Len(bufw) - n
          /\ (image \o SubSeq(bufw, 1, n)) \o SubSeq(bufw, n + 1, Len(bufw))
               = image \o bufw
      <4>1. image \in Seq(CellSet) /\ bufw \in Seq(CellSet)
        BY TypeFacts
      <4> QED
        BY <3>1, <4>1, TakeFromBuffer DEF SplitAt
    <3>3. IsPrefix(image \o SubSeq(bufw, 1, n), image \o bufw)
      BY <3>1, TypeFacts, PrefixOfConcat
    <3>4. Len(bufw') <= Cap
      BY <2>2, <3>1, <3>2, TypeFacts, RunAssumption DEF Types, TypeOK
    <3>5. image \o SubSeq(bufw, 1, n) \in Seq(CellSet)
      BY <3>2, TypeFacts, ConcatIsSeq
    <3> QED
      BY <1>3, <2>2, <3>2, <3>3, <3>4, <3>5 DEF Took
  <2> QED
    BY <1>2, <2>1, <2>2
<1>7. PICK d \in Seq(CellSet) :
        /\ image' = image \o d /\ image \o d \in Seq(CellSet)
        /\ bufw' \in Seq(CellSet) /\ Len(bufw') <= Cap
        /\ image' \o bufw' = Block0(r)
        /\ IsPrefix(image \o d, Block0(r))
  BY <1>6 DEF Took
<1>8. Types'
  BY <1>1, <1>2, <1>7, TypesStay DEF Types, TypeOK
<1>9. FilesOK'
  <2>1. IsPrefix(image', WholeImage(run))
    BY <1>5, <1>7, PrefixTransitive
  <2> QED
    BY <1>1, <2>1, FilesGrow
<1>10. Held'
  BY <1>1, <1>4, <1>7, HeldStays
<1>11. Placed'
  <2>1. image' \o bufw' = Block0(run)' /\ slice' = Metadata(run)'
    BY <1>1, <1>3, <1>7
  <2>2. IsPrefix(image' \o bufw', WholeImage(run)')
    BY <1>1, <1>5, <1>7
  <2> QED
    BY <1>1, <1>2, <1>3, <2>1, <2>2 DEF Placed
<1>12. Succeeds'
  BY <1>2, <1>3 DEF Succeeds
<1> QED
  BY <1>8, <1>9, <1>10, <1>11, <1>12

LEMMA WriteDirectKeeps == IInv /\ WriteDirect => IInv'
<1> SUFFICES ASSUME IInv, WriteDirect
             PROVE  IInv'
  OBVIOUS
<1> USE DEF IInv
<1>1. /\ Writing /\ Len(slice) >= Cap /\ (Fault \/ NoFault)
      /\ UNCHANGED <<bufw, blob, blobOwner, imageOwner, reader, run, shapes>>
  BY DEF WriteDirect, WriteDone, GiveUp, Goto
<1>2. \/ /\ image' = image \o slice
         /\ IF pc = "block0"
              THEN slice' = Metadata(run) /\ pc' = "meta" /\ code' = code
              ELSE slice' = << >> /\ pc' = "exit" /\ code' = "ok"
      \/ /\ \E n \in 0 .. Len(slice) - 1 : image' = image \o SubSeq(slice, 1, n)
         /\ slice' = slice /\ pc' = "exit" /\ code' = "error"
  BY DEF WriteDirect, WriteDone, GiveUp, Goto
<1>3. bufw = << >>
  <2>1. Fits => Len(bufw) = 0
    BY <1>1, TypeFacts, RunAssumption DEF Fits, Spare
  <2> QED
    BY <2>1, TypeFacts DEF WriteDirect
<1> PICK r \in Nat :
           /\ r = run /\ r # 0 /\ imageOwner = r
           /\ Block0(r)' = Block0(r) /\ Block0(r) \in Seq(CellSet)
           /\ Metadata(r)' = Metadata(r) /\ Metadata(r) \in Seq(CellSet)
           /\ WholeImage(r)' = WholeImage(r) /\ WholeImage(r) \in Seq(CellSet)
           /\ WholeImage(r) = Block0(r) \o Metadata(r)
           /\ Len(Metadata(r)) = shapes[r].meta * CellsPerBlock
           /\ Bypasses(r)' = Bypasses(r)
           /\ IF pc = "block0"
                THEN image = << >> /\ bufw = << >> /\ slice = Block0(r)
                ELSE image \o bufw = Block0(r) /\ slice = Metadata(r)
  BY <1>1, WhileWriting
<1>4. ShapesKept
  BY <1>1, SameShapes
<1>5. image \in Seq(CellSet) /\ slice \in Seq(CellSet) /\ image \o slice \in Seq(CellSet)
  BY TypeFacts, ConcatIsSeq
<1>6. image \o slice = IF pc = "block0" THEN Block0(r) ELSE WholeImage(r)
  BY <1>3, <1>5, EmptyIsNeutral
<1>7. IsPrefix(image \o slice, WholeImage(r))
  BY <1>6, HeadIsPrefix, WholeIsPrefix
<1>8. \E d \in Seq(CellSet) :
        /\ image' = image \o d /\ image \o d \in Seq(CellSet)
        /\ IsPrefix(image \o d, image \o slice)
  <2>1. CASE image' = image \o slice
    BY <1>5, <2>1, WholeIsPrefix
  <2>2. ASSUME NEW n \in 0 .. Len(slice) - 1, image' = image \o SubSeq(slice, 1, n)
        PROVE  \E d \in Seq(CellSet) :
                 /\ image' = image \o d /\ image \o d \in Seq(CellSet)
                 /\ IsPrefix(image \o d, image \o slice)
    <3>1. n \in 0 .. Len(slice)
      BY TypeFacts
    <3>2. SubSeq(slice, 1, n) \in Seq(CellSet)
      BY <1>5, <3>1, TakeFromBuffer DEF SplitAt
    <3>3. IsPrefix(image \o SubSeq(slice, 1, n), image \o slice)
      BY <1>5, <3>1, PrefixOfConcat
    <3>4. image \o SubSeq(slice, 1, n) \in Seq(CellSet)
      BY <1>5, <3>2, ConcatIsSeq
    <3> QED
      BY <2>2, <3>2, <3>3, <3>4
  <2> QED
    BY <1>2, <2>1, <2>2
<1>9. PICK d \in Seq(CellSet) :
        /\ image' = image \o d /\ image \o d \in Seq(CellSet)
        /\ IsPrefix(image \o d, image \o slice)
  BY <1>8
<1>10. IsPrefix(image', WholeImage(r))
  BY <1>5, <1>7, <1>9, PrefixTransitive
<1>11. Types'
  <2>1. pc' \in {"meta", "exit"} /\ code' \in {"ok", "error", code}
        /\ slice' \in {slice, Metadata(r), << >>}
    BY <1>2
  <2>2. slice' \in Seq(CellSet)
    BY <2>1, <1>5, EmptyIsNeutral
  <2> QED
    BY <1>1, <1>9, <2>1, <2>2, TypesStay DEF Types, TypeOK
<1>12. FilesOK'
  BY <1>1, <1>10, FilesGrow
<1>13. Held'
  BY <1>1, <1>4, <1>9, HeldStays
<1>14. run' = r /\ imageOwner' = r /\ bufw' = << >> /\ image' \o bufw' = image'
  BY <1>1, <1>3, <1>9, EmptyIsNeutral
<1>15. CASE pc' = "meta"
  <2>1. pc = "block0" /\ image' = image \o slice /\ slice' = Metadata(r)
    BY <1>2, <1>15
  <2>2. image' \o bufw' = Block0(run)' /\ slice' = Metadata(run)'
    BY <1>6, <1>14, <2>1
  <2>3. Placed' /\ Succeeds'
    BY <1>14, <1>15, <2>2 DEF Placed, Succeeds
  <2> QED
    BY <1>11, <1>12, <1>13, <2>3
<1>16. CASE pc' = "exit"
  <2>1. IsPrefix(image' \o bufw', WholeImage(run)')
    BY <1>10, <1>14
  <2>2. code' = "ok" => image' \o bufw' = WholeImage(run)'
    <3>1. code' = "ok" => image' = image \o slice /\ pc # "block0"
      BY <1>2, <1>16
    <3> QED
      BY <1>6, <1>14, <3>1
  <2>3. Placed' /\ Succeeds'
    BY <1>14, <1>16, <2>1, <2>2 DEF Placed, Succeeds
  <2> QED
    BY <1>11, <1>12, <1>13, <2>3
<1> QED
  BY <1>2, <1>15, <1>16

LEMMA ExitKeeps == IInv /\ Exit => IInv'
<1> SUFFICES ASSUME IInv, Exit
             PROVE  IInv'
  OBVIOUS
<1> USE DEF IInv
<1>1. /\ pc = "exit" /\ pc' = "idle" /\ bufw' = << >> /\ (Fault \/ NoFault)
      /\ UNCHANGED <<run, shapes, slice, code, blob, blobOwner, imageOwner, reader>>
  BY DEF Exit
<1>2. PICK n \in 0 .. Len(bufw) : image' = image \o SubSeq(bufw, 1, n)
  BY DEF Exit
<1>3. ShapesKept
  BY <1>1, SameShapes
<1>4. image \in Seq(CellSet) /\ bufw \in Seq(CellSet)
  BY TypeFacts
<1> DEFINE d == SubSeq(bufw, 1, n)
<1>5. d \in Seq(CellSet) /\ Len(d) = n
  BY <1>4, TakeFromBuffer DEF SplitAt
<1>6. IsPrefix(image \o d, image \o bufw)
  BY <1>4, PrefixOfConcat
<1>7. bufw = << >> => d = << >>
  BY <1>5
<1>8. image' = image \o d
  BY <1>2
<1> HIDE DEF d
<1>9. image \o d \in Seq(CellSet) /\ image \o bufw \in Seq(CellSet)
  BY <1>4, <1>5, ConcatIsSeq
<1>10. bufw = << >> => image' = image /\ image \o bufw = image
  BY <1>4, <1>7, <1>8, EmptyIsNeutral
<1> PICK r \in Nat : r = run /\ r # 0
  BY <1>1, TypeFacts DEF Placed
<1>11. /\ WholeImage(r)' = WholeImage(r) /\ WholeImage(r) \in Seq(CellSet)
       /\ Bypasses(r)' = Bypasses(r)
  <2>1. r \in 1 .. run
    BY TypeFacts
  <2>2. WholeImage(r)' = WholeImage(r)
    BY <1>3, <2>1, WholesStay
  <2>3. WholeImage(r) \in Seq(CellSet)
    BY <2>1, WhatARunWrites, TypeFacts
  <2>4. Bypasses(r)' = Bypasses(r)
    BY <1>1 DEF Bypasses
  <2> QED
    BY <2>2, <2>3, <2>4
<1>12. Types'
  BY <1>1, <1>8, <1>9, TypesStay, EmptyIsNeutral, RunAssumption DEF Types, TypeOK
<1>13. FilesOK'
  <2>1. CASE imageOwner = run
    <3>1. IsPrefix(image \o bufw, WholeImage(r))
      BY <1>1, <2>1 DEF Placed
    <3>2. IsPrefix(image', WholeImage(run))
      BY <1>6, <1>8, <1>9, <1>11, <3>1, PrefixTransitive
    <3> QED
      BY <1>1, <2>1, <3>2, FilesGrow
  <2>2. CASE imageOwner # run
    <3>1. image' = image
      BY <1>1, <1>10, <2>2 DEF Placed
    <3> QED
      BY <1>1, <1>3, <3>1, FilesStay DEF files
  <2> QED
    BY <2>1, <2>2
<1>14. Placed'
  BY <1>1 DEF Placed
<1>15. Succeeds'
  <2>1. CASE code = "ok"
    <3>1. imageOwner = r /\ image \o bufw = WholeImage(r)
          /\ (Bypasses(r) => bufw = << >>)
      BY <1>1, <2>1 DEF Succeeds
    <3>2. Bypasses(r)' => image' = WholeImage(r)'
      BY <1>10, <1>11, <3>1
    <3>3. run' = r /\ imageOwner' = r
      BY <1>1, <3>1
    <3>4. Bypasses(run)' => image' = WholeImage(run)'
      BY <3>2, <3>3
    <3> QED
      BY <1>1, <3>3, <3>4 DEF Succeeds
  <2>2. CASE code # "ok"
    BY <1>1, <2>2 DEF Succeeds
  <2> QED
    BY <2>1, <2>2
<1>16. Held'
  BY <1>1, <1>3, <1>5, <1>8, HeldStays
<1> QED
  BY <1>12, <1>13, <1>14, <1>15, <1>16

LEMMA KillKeeps == IInv /\ Kill => IInv'
<1> SUFFICES ASSUME IInv, Kill
             PROVE  IInv'
  OBVIOUS
<1> USE DEF IInv
<1>1. /\ Fault /\ pc' = "idle" /\ code' = "killed"
      /\ UNCHANGED <<run, shapes, bufw, slice, files, reader>>
  BY DEF Kill
<1>2. Types'
  BY <1>1, TypesStay DEF Types, TypeOK, files
<1>3. FilesOK'
  BY <1>1, SameShapes, FilesStay
<1>4. Placed' /\ Succeeds'
  BY <1>1 DEF Placed, Succeeds
<1>5. Held'
  BY <1>1, SameShapes, HeldStays, TypeFacts, EmptyIsNeutral DEF files
<1> QED
  BY <1>2, <1>3, <1>4, <1>5

(* A step of the daemon touches nothing of mkfs.                              *)
LEMMA DaemonTouchesNothing ==
  ASSUME IInv, UNCHANGED <<files, mkfs>>
  PROVE  /\ ShapesKept
         /\ FilesOK' /\ Placed' /\ Succeeds'
<1> USE DEF IInv
<1>1. UNCHANGED <<run, shapes, pc, bufw, slice, code, blob, blobOwner, image, imageOwner>>
  BY DEF files, mkfs
<1>2. ShapesKept
  BY <1>1, SameShapes
<1>3. FilesOK'
  BY <1>2, FilesStay
<1>4. Placed'
  BY <1>1 DEF Placed, Block0, Superblock, Metadata, Cells, WholeBlob, WholeImage
<1>5. Succeeds'
  BY <1>1 DEF Succeeds, Bypasses, Block0, Superblock, Metadata, Cells, WholeImage
<1> QED
  BY <1>2, <1>3, <1>4, <1>5

LEMMA DaemonTypes ==
  ASSUME Types, UNCHANGED <<files, mkfs>>, NoFault, reader' \in Readers,
         reader'.run <= MaxRuns, reader'.blobRun <= MaxRuns,
         reader'.state \in {"mapped", "mounted"} => reader'.len > 0
  PROVE  Types'
<1>1. UNCHANGED <<run, shapes, pc, bufw, slice, code, blob, blobOwner, image, imageOwner>>
  BY DEF files, mkfs
<1>2. /\ reader'.state \in {"closed", "refused", "mapped", "mounted", "killed"}
      /\ reader'.run \in 0 .. MaxRuns /\ reader'.blobRun \in 0 .. MaxRuns
  BY RunAssumption DEF Readers
<1>3. TypeOK'
  BY <1>1, <1>2 DEF Types, TypeOK, NoFault
<1> QED
  BY <1>1, <1>3 DEF Types

LEMMA OpenAndMapKeeps == IInv /\ OpenAndMap => IInv'
<1> SUFFICES ASSUME IInv, OpenAndMap
             PROVE  IInv'
  OBVIOUS
<1> USE DEF IInv
<1>1. NoFault /\ UNCHANGED <<files, mkfs>>
  BY DEF OpenAndMap
<1>2. ShapesKept /\ FilesOK' /\ Placed' /\ Succeeds'
  BY <1>1, DaemonTouchesNothing
<1>3. \/ \E arg \in {"image", "blob"} :
           LET file == IF arg = "image" THEN image ELSE blob
           IN /\ HasSuperblock(file)
              /\ reader' = [state |-> "mapped", image |-> arg, len |-> Len(file),
                            run |-> imageOwner, blobRun |-> 0]
      \/ reader' = [state |-> "refused", image |-> "none", len |-> 0, run |-> 0,
                    blobRun |-> 0]
  BY DEF OpenAndMap, Closed
<1>4. CASE reader' = [state |-> "refused", image |-> "none", len |-> 0, run |-> 0,
                      blobRun |-> 0]
  <2>1. Types'
    BY <1>1, <1>4, DaemonTypes, RunAssumption DEF Readers
  <2>2. Held'
    BY <1>4 DEF Held
  <2> QED
    BY <1>2, <2>1, <2>2
(* No cell of the blob is a superblock.                                      *)
<1>5. ~ HasSuperblock(blob)
  <2>1. SUFFICES ASSUME blob # << >>, blob[1].kind = "super"
                 PROVE  FALSE
    BY DEF HasSuperblock
  <2>2. PICK b \in Nat : b = blobOwner /\ b <= run
    BY TypeFacts
  <2>3. b \in 1 .. run /\ IsPrefix(blob, WholeBlob(b))
    BY <2>1, <2>2, TypeFacts DEF FilesOK, OneRunPerFile
  <2>4. /\ WholeBlob(b) \in Seq(CellSet)
        /\ \A i \in 1 .. Len(WholeBlob(b)) : WholeBlob(b)[i].kind = "chunk"
    BY <2>3, WhatARunWrites, TypeFacts
  <2>5. blob \in Seq(CellSet) /\ 1 \in 1 .. Len(blob)
    BY <2>1, TypeFacts
  <2>6. blob[1] = WholeBlob(b)[1] /\ Len(blob) <= Len(WholeBlob(b))
    BY <2>3, <2>4, <2>5, PrefixByPoints
  <2>7. 1 \in 1 .. Len(WholeBlob(b))
    BY <2>4, <2>5, <2>6
  <2> QED
    BY <2>1, <2>4, <2>6, <2>7
<1>6. CASE HasSuperblock(image)
           /\ reader' = [state |-> "mapped", image |-> "image", len |-> Len(image),
                         run |-> imageOwner, blobRun |-> 0]
  <2>1. image # << >> /\ image \in Seq(CellSet) /\ Len(image) \in Nat /\ Len(image) > 0
    BY <1>6, TypeFacts DEF HasSuperblock
  <2>2. Types'
    BY <1>1, <1>6, <2>1, DaemonTypes, TypeFacts DEF Readers
  <2>3. PICK i \in Nat : i = imageOwner /\ i <= run
    BY TypeFacts
  <2>4. i \in 1 .. run /\ IsPrefix(image, WholeImage(i))
    BY <2>1, <2>3, TypeFacts DEF FilesOK, OneRunPerFile
  <2>5. WholeImage(i) \in Seq(CellSet) /\ WholeImage(i)[1] = Superblock(i)
        /\ Superblock(i)' = Superblock(i)
    <3>1. ShapesOK /\ Types
      BY TypeFacts
    <3>2. WholeImage(i) \in Seq(CellSet) /\ WholeImage(i)[1] = Superblock(i)
      BY <2>4, <3>1, WhatARunWrites
    <3> QED
      BY <1>2, <2>4, <3>1, <3>2, WholesStay
  <2>6. image[1] = Superblock(i)'
    BY <2>1, <2>4, <2>5, PrefixByPoints
  <2>7. image' = image /\ imageOwner' = i /\ reader'.run = i /\ reader'.state = "mapped"
        /\ reader'.image = "image" /\ reader'.len = Len(image)
    BY <1>1, <1>6, <2>3 DEF files
  <2>8. image'[1] = Superblock(reader.run)'
    BY <2>6, <2>7
  <2>9. Held'
    BY <2>1, <2>4, <2>7, <2>8 DEF Held
  <2> QED
    BY <1>2, <2>2, <2>9
<1> QED
  BY <1>3, <1>4, <1>5, <1>6

LEMMA MapBlobKeeps == IInv /\ MapBlob => IInv'
<1> SUFFICES ASSUME IInv, MapBlob
             PROVE  IInv'
  OBVIOUS
<1> USE DEF IInv
<1>1. /\ reader.state = "mapped" /\ NoFault /\ UNCHANGED <<files, mkfs>>
      /\ reader' = [reader EXCEPT !.state = "mounted", !.blobRun = blobOwner]
  BY DEF MapBlob
<1>2. ShapesKept /\ FilesOK' /\ Placed' /\ Succeeds'
  BY <1>1, DaemonTouchesNothing
<1>3. /\ reader' \in Readers /\ reader'.state = "mounted"
      /\ reader'.image = reader.image /\ reader'.len = reader.len
      /\ reader'.run = reader.run /\ reader'.blobRun = blobOwner
  BY <1>1, TypeFacts DEF Readers
<1>4. Types'
  <2>1. reader.len > 0 /\ reader.run <= MaxRuns /\ blobOwner <= MaxRuns
    BY <1>1, TypeFacts DEF Types, TypeOK
  <2> QED
    BY <1>1, <1>3, <2>1, DaemonTypes
<1>5. Held'
  <2>1. PICK q \in Nat : q = reader.run
    BY TypeFacts
  <2>2. q # 0 /\ q <= imageOwner /\ reader.image = "image" /\ q \in 1 .. run
        /\ (q = imageOwner => reader.len <= Len(image) /\ image[1] = Superblock(q))
    BY <1>1, <2>1, TypeFacts DEF Held
  <2>3. Superblock(q)' = Superblock(q)
    BY <1>2, <2>2, WholesStay
  <2>4. imageOwner <= blobOwner
    BY DEF FilesOK
  <2>5. q <= blobOwner
    BY <2>2, <2>4, TypeFacts
  <2>6. image' = image /\ imageOwner' = imageOwner /\ reader'.run = q
    BY <1>1, <1>3, <2>1 DEF files
  <2> QED
    BY <1>3, <2>2, <2>3, <2>5, <2>6 DEF Held
<1> QED
  BY <1>2, <1>4, <1>5

LEMMA ReadImageKeeps == IInv /\ (ReadImage \/ Reopen) => IInv'
<1> SUFFICES ASSUME IInv, ReadImage \/ Reopen
             PROVE  IInv'
  OBVIOUS
<1> USE DEF IInv
<1>1. /\ NoFault /\ UNCHANGED <<files, mkfs>>
      /\ \/ reader' = [reader EXCEPT !.state = "killed"]
         \/ reader' = [state |-> "closed", image |-> "none", len |-> 0, run |-> 0,
                       blobRun |-> 0]
  BY DEF ReadImage, Reopen, Closed
<1>2. ShapesKept /\ FilesOK' /\ Placed' /\ Succeeds'
  BY <1>1, DaemonTouchesNothing
<1>3. /\ reader' \in Readers /\ reader'.state \in {"killed", "closed"}
      /\ reader'.run <= MaxRuns /\ reader'.blobRun <= MaxRuns
  <2>1. /\ reader \in Readers /\ MaxRuns \in Nat
        /\ reader.run \in 0 .. MaxRuns /\ reader.blobRun \in 0 .. MaxRuns
    BY TypeFacts DEF Types, TypeOK
  <2>2. CASE reader' = [reader EXCEPT !.state = "killed"]
    BY ONLY <2>1, <2>2 DEF Readers
  <2>3. CASE reader' = [state |-> "closed", image |-> "none", len |-> 0,
                        run |-> 0, blobRun |-> 0]
    BY ONLY <2>1, <2>3 DEF Readers
  <2> QED
    BY <1>1, <2>2, <2>3
<1>4. Types'
  BY <1>1, <1>3, DaemonTypes
<1>5. Held'
  BY <1>3 DEF Held
<1> QED
  BY <1>2, <1>4, <1>5

LEMMA StutterKeeps == IInv /\ UNCHANGED vars => IInv'
<1> SUFFICES ASSUME IInv, UNCHANGED vars
             PROVE  IInv'
  OBVIOUS
<1> USE DEF IInv
<1>1. UNCHANGED <<files, mkfs, faults, reader>>
  BY DEF vars
<1>2. ShapesKept /\ FilesOK' /\ Placed' /\ Succeeds'
  BY <1>1, DaemonTouchesNothing
<1>3. UNCHANGED <<blob, blobOwner, image, imageOwner, run, shapes, pc, bufw, slice,
                  code, faults, reader>>
  BY <1>1 DEF files, mkfs
<1>4. Types'
  BY <1>3 DEF Types, TypeOK
<1>5. Held'
  BY <1>2, <1>3, HeldStays, TypeFacts, EmptyIsNeutral
<1> QED
  BY <1>2, <1>4, <1>5

(* Every step of a run, of a kill or of the daemon keeps the invariant.        *)
LEMMA NextKeeps == IInv /\ [Next]_vars => IInv'
<1> SUFFICES ASSUME IInv, [Next]_vars
             PROVE  IInv'
  OBVIOUS
<1>1. CASE Start      BY <1>1, StartKeeps
<1>2. CASE Mkfs
  BY <1>2, CheckArgsKeeps, CreateBlobKeeps, BuildTreeKeeps, CreateImageKeeps,
     WriteBufferedKeeps, FlushBufferKeeps, WriteDirectKeeps, ExitKeeps DEF Mkfs
<1>3. CASE Kill       BY <1>3, KillKeeps
<1>4. CASE Daemon
  BY <1>4, OpenAndMapKeeps, MapBlobKeeps, ReadImageKeeps DEF Daemon
<1>5. CASE UNCHANGED vars  BY <1>5, StutterKeeps
<1> QED
  BY <1>1, <1>2, <1>3, <1>4, <1>5 DEF Next

(* The invariant holds in every state of any sequence of runs.                *)
THEOREM Invariance == Spec => []IInv
BY InitKeeps, NextKeeps, PTL DEF Spec

-----------------------------------------------------------------------------
(* What the invariant gives.                                               *)

(* Runs of mkfs and the daemon keep their types.                             *)
THEOREM RunTypeCorrect == Spec => []TypeOK
<1>1. IInv => TypeOK
  BY DEF IInv, Types
<1> QED
  BY <1>1, Invariance, PTL

(* Wherever runs of erofs-mkfs fail or are killed, neither file mixes two of    *)
(* them or has a gap.                                                       *)
THEOREM FilesNeverMix == Spec => []OneRunPerFile
<1>1. IInv => OneRunPerFile
  BY DEF IInv, FilesOK
<1> QED
  BY <1>1, Invariance, PTL

(* The image never gets ahead of the blob, in the files or in a daemon.         *)
THEOREM BlobComesFirst == Spec => []ImageAfterBlob
<1>1. IInv => ImageAfterBlob
  <2> SUFFICES ASSUME IInv
               PROVE  ImageAfterBlob
    OBVIOUS
  <2>1. image # << >> => imageOwner # 0
    BY DEF IInv, FilesOK, OneRunPerFile
  <2> QED
    BY <2>1 DEF IInv, FilesOK, Held, ImageAfterBlob
<1> QED
  BY <1>1, Invariance, PTL

(* main that returns Ok has left both files complete, unless the metadata fits  *)
(* in the buffer.                                                          *)
THEOREM OkMeansComplete == Spec => []ExitZeroComplete
<1>1. IInv => ExitZeroComplete
  <2> SUFFICES ASSUME IInv, pc = "idle", code = "ok"
               PROVE  /\ blobOwner = run /\ blob = WholeBlob(run)
                      /\ imageOwner = run
                      /\ shapes[run].meta * CellsPerBlock >= Cap
                           => image = WholeImage(run)
    BY DEF ExitZeroComplete
  <2>1. /\ run # 0 /\ imageOwner = run
        /\ shapes[run].meta * CellsPerBlock >= Cap => image = WholeImage(run)
    BY DEF IInv, Succeeds, Bypasses
  <2>2. blobOwner = run
    BY <2>1, TypeFacts DEF IInv, FilesOK
  <2> QED
    BY <2>1, <2>2 DEF IInv, FilesOK
<1> QED
  BY <1>1, Invariance, PTL

(* What the daemon holds was the image of a run, superblock and all, and is     *)
(* still there as long as no later run has opened the file.                   *)
THEOREM OnlyImagesAreOpened == Spec => []OpenedAnImage
<1>1. IInv => OpenedAnImage
  BY DEF IInv, Held, OpenedAnImage
<1> QED
  BY <1>1, Invariance, PTL
=============================================================================

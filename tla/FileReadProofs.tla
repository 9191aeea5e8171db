--------------------------- MODULE FileReadProofs ---------------------------
(***************************************************************************)
(* Theorems about FileRead, for every block, chunk and index size, every file *)
(* and every length of the mappings: a read that succeeds returns exactly the *)
(* bytes of its range, and one that fails needed a byte that is not mapped.   *)
(***************************************************************************)
EXTENDS FileRead, SequenceTheorems, TLAPS

Cells == [dev : {"image", "blob", "zero"}, at : Nat]

(* What a call has to return: its range, cut at the end of the file.          *)
Total == IF req.off >= file.size THEN 0 ELSE MinOf(req.size, file.size - req.off)

(* The first n cells of the output are those of the file.                     *)
Got(n) == \A i \in 1 .. n : out[i] = Home(req.off + i - 1)

Typed ==
  /\ file \in Files /\ imageLen \in ImageLens /\ blobLen \in BlobLens
  /\ req.path \in {"none", "write", "buffer", "whole"}
  /\ req.off \in Nat /\ req.size \in Nat
  /\ pc \in {"flat", "indexes", "chunks", "ok", "error"}
  /\ pos \in Nat /\ remaining \in Nat
  /\ out \in Seq(Cells)

Asked == req.path # "none"
ChunkCall == file.layout = "chunks" /\ req.path \in {"write", "buffer"}

(* Nothing is collected yet, and there is something to collect.               *)
FlatOK ==
  pc = "flat" =>
    /\ Asked /\ file.layout # "chunks"
    /\ pos = req.off /\ remaining = Total /\ Total > 0 /\ out = << >>

IndexesOK ==
  pc = "indexes" =>
    /\ ChunkCall
    /\ pos = req.off /\ remaining = Total /\ Total > 0
    /\ Len(out) = IF req.path = "write" THEN 0 ELSE Total

(* The loop has collected what is in front of pos.                           *)
ChunksOK ==
  pc = "chunks" =>
    /\ ChunkCall
    /\ req.off <= pos /\ pos + remaining = req.off + Total
    /\ Total > 0
    /\ Len(out) = IF req.path = "write" THEN pos - req.off ELSE Total
    /\ Got(pos - req.off)

(* Before the first call, too, when nothing is asked and nothing is there.     *)
OkExact == pc = "ok" => Len(out) = Total /\ Got(Total)

ErrorCut == pc = "error" => Asked /\ FailsOnlyWhenCut /\ Len(out) <= req.size

IInv == Typed /\ FlatOK /\ IndexesOK /\ ChunksOK /\ OkExact /\ ErrorCut

-----------------------------------------------------------------------------
(* Arithmetic.                                                             *)

LEMMA DivMod ==
  ASSUME NEW x \in Nat, NEW a \in Nat \ {0}
  PROVE  /\ x = (x \div a) * a + (x % a)
         /\ x \div a \in Nat /\ x % a \in 0 .. a - 1
         /\ (x \div a) * a \in Nat
BY SMT

LEMMA DivModUnique ==
  ASSUME NEW q \in Nat, NEW a \in Nat \ {0}, NEW r \in 0 .. a - 1
  PROVE  (q * a + r) \div a = q /\ (q * a + r) % a = r
BY SMT

LEMMA MultiplesInOrder ==
  ASSUME NEW q \in Nat, NEW k \in Nat, NEW a \in Nat, q <= k
  PROVE  q * a <= k * a /\ q * a \in Nat /\ k * a \in Nat
BY SMT

LEMMA NextMultiple ==
  ASSUME NEW q \in Nat, NEW a \in Nat
  PROVE  (q + 1) * a = q * a + a /\ q * a \in Nat
BY SMT

(* Below the last multiple of a, the quotient is below that of the size.      *)
LEMMA InWholeBlocks ==
  ASSUME NEW b \in Nat, NEW s \in Nat, NEW a \in Nat \ {0}, b < s - (s % a)
  PROVE  b \div a # s \div a
<1>1. s = (s \div a) * a + (s % a) /\ b = (b \div a) * a + (b % a)
  BY DivMod
<1>2. b % a \in 0 .. a - 1 /\ (b \div a) * a \in Nat /\ (s \div a) * a \in Nat
      /\ s % a \in 0 .. a - 1
  BY DivMod
<1> QED
  BY <1>1, <1>2

(* From there on, it is that of the size, and the remainder counts from there. *)
LEMMA InLastBlock ==
  ASSUME NEW b \in Nat, NEW s \in Nat, NEW a \in Nat \ {0},
         s - (s % a) <= b, b < s
  PROVE  b \div a = s \div a /\ b % a = b - (s - (s % a))
<1> DEFINE q == s \div a
           r == b - (s - (s % a))
<1>1. s = q * a + (s % a) /\ q \in Nat /\ s % a \in 0 .. a - 1 /\ q * a \in Nat
  BY DivMod
<1> HIDE DEF q
<1>2. r \in 0 .. a - 1 /\ b = q * a + r
  BY <1>1
<1> HIDE DEF r
<1>3. (q * a + r) \div a = q /\ (q * a + r) % a = r
  <2>1. q \in Nat /\ a \in Nat \ {0} /\ r \in 0 .. a - 1
    BY <1>1, <1>2
  <2> QED
    BY ONLY <2>1, DivModUnique
<1> QED
  BY <1>2, <1>3 DEF q, r

(* A range that does not leave its chunk.                                    *)
LEMMA InOneChunk ==
  ASSUME NEW p \in Nat, NEW a \in Nat \ {0}, NEW i \in Nat, i < a - (p % a)
  PROVE  (p + i) \div a = p \div a /\ (p + i) % a = (p % a) + i
<1> DEFINE q == p \div a
           r == (p % a) + i
<1>1. p = q * a + (p % a) /\ q \in Nat /\ p % a \in 0 .. a - 1 /\ q * a \in Nat
  BY DivMod
<1> HIDE DEF q
<1>2. r \in 0 .. a - 1 /\ p + i = q * a + r
  BY <1>1
<1> HIDE DEF r
<1>3. (q * a + r) \div a = q /\ (q * a + r) % a = r
  <2>1. q \in Nat /\ a \in Nat \ {0} /\ r \in 0 .. a - 1
    BY <1>1, <1>2
  <2> QED
    BY ONLY <2>1, DivModUnique
<1> QED
  BY <1>2, <1>3 DEF q, r

LEMMA RemainderFits ==
  ASSUME NEW s \in Nat, NEW a \in Nat \ {0}
  PROVE  s - (s % a) \in Nat /\ s - (s % a) <= s
<1>1. s = (s \div a) * a + (s % a) /\ (s \div a) * a \in Nat /\ s % a \in 0 .. a - 1
  BY DivMod
<1> QED
  BY <1>1

(* A byte of the file is in one of its chunks.                               *)
LEMMA ChunkExists ==
  ASSUME NEW b \in Nat, NEW s \in Nat, NEW a \in Nat \ {0}, b < s
  PROVE  b \div a < (s + a - 1) \div a
<1> DEFINE q == b \div a
           d == (s + a - 1) \div a
           r == (s + a - 1) % a
<1>1. b = q * a + (b % a) /\ q \in Nat /\ b % a \in 0 .. a - 1 /\ q * a \in Nat
  BY DivMod
<1>2. s + a - 1 \in Nat
  OBVIOUS
<1>3. s + a - 1 = d * a + r /\ d \in Nat /\ r \in 0 .. a - 1 /\ d * a \in Nat
  BY <1>2, DivMod
<1> HIDE DEF q, d, r
<1>4. ~ (d <= q)
  <2>1. d <= q => d * a <= q * a
    BY <1>1, <1>3, MultiplesInOrder
  <2> QED
    BY <2>1, <1>1, <1>3
<1> QED
  BY <1>1, <1>3, <1>4 DEF q, d

-----------------------------------------------------------------------------
(* Sequences of cells.                                                     *)

LEMMA BytesFacts ==
  ASSUME NEW dev \in {"image", "blob", "zero"}, NEW at \in Nat, NEW n \in Nat
  PROVE  /\ Bytes(dev, at, n) \in Seq(Cells)
         /\ Len(Bytes(dev, at, n)) = n
         /\ DOMAIN Bytes(dev, at, n) = 1 .. n
         /\ \A i \in 1 .. n : Bytes(dev, at, n)[i] = [dev |-> dev, at |-> at + i - 1]
<1>1. \A i \in 1 .. n : [dev |-> dev, at |-> at + i - 1] \in Cells
  BY DEF Cells
<1> QED
  BY <1>1 DEF Bytes

(* s is what a device holds at n consecutive addresses.                       *)
IsBytes(s, dev, at, n) ==
  /\ s \in Seq(Cells) /\ Len(s) = n
  /\ \A i \in 1 .. n : s[i] = [dev |-> dev, at |-> at + i - 1]

LEMMA BytesAre ==
  \A dev \in {"image", "blob", "zero"}, at \in Nat, n \in Nat :
    IsBytes(Bytes(dev, at, n), dev, at, n)
<1> SUFFICES ASSUME NEW dev \in {"image", "blob", "zero"},
                    NEW at \in Nat, NEW n \in Nat
             PROVE  IsBytes(Bytes(dev, at, n), dev, at, n)
  OBVIOUS
<1>1. \A i \in 1 .. n : [dev |-> dev, at |-> at + i - 1] \in Cells
  BY DEF Cells
<1>2. Bytes(dev, at, n) \in Seq(Cells) /\ Len(Bytes(dev, at, n)) = n
  BY <1>1 DEF Bytes
<1>3. \A i \in 1 .. n : Bytes(dev, at, n)[i] = [dev |-> dev, at |-> at + i - 1]
  BY DEF Bytes
<1> QED
  BY ONLY <1>2, <1>3 DEF IsBytes

LEMMA ZerosFacts ==
  ASSUME NEW n \in Nat
  PROVE  Zeros(n) \in Seq(Cells) /\ Len(Zeros(n)) = n
<1>1. [dev |-> "zero", at |-> 0] \in Cells
  BY DEF Cells
<1> QED
  BY <1>1 DEF Zeros

LEMMA EmptyFacts == << >> \in Seq(Cells) /\ Len(<< >>) = 0
BY EmptySeq

LEMMA Concatenation ==
  ASSUME NEW s \in Seq(Cells), NEW t \in Seq(Cells)
  PROVE  /\ s \o t \in Seq(Cells)
         /\ Len(s \o t) = Len(s) + Len(t)
         /\ \A i \in 1 .. Len(s) + Len(t) :
              (s \o t)[i] = IF i <= Len(s) THEN s[i] ELSE t[i - Len(s)]
BY ConcatProperties

LEMMA FunctionIsSeq ==
  ASSUME NEW n \in Nat, NEW f, f = [i \in 1 .. n |-> f[i]],
         \A i \in 1 .. n : f[i] \in Cells
  PROVE  f \in Seq(Cells) /\ Len(f) = n
<1>1. f \in [1 .. n -> Cells]
  OBVIOUS
<1> QED
  BY <1>1

(* FlattenSeq of one sequence and of two: all that a flat read makes.         *)
LEMMA FlattenOne ==
  ASSUME NEW s
  PROVE  FlattenSeq(<<s>>) = s
<1> DEFINE q == <<s>>
           Good(f) == f = [i \in 1 .. Len(q) |-> IF i = 1 THEN q[i] ELSE f[i-1] \o q[i]]
           fl == CHOOSE f : Good(f)
           w == [i \in 1 .. 1 |-> s]
<1>1. Good(w)
  OBVIOUS
<1>2. Good(fl)
  BY <1>1
<1>3. Len(q) = 1 /\ q[1] = s
  OBVIOUS
<1>4. FlattenSeq(q) = fl[1]
  BY <1>3 DEF FlattenSeq
<1> HIDE DEF fl, q
<1>5. fl[1] = s
  BY <1>2, <1>3
<1> QED
  BY <1>4, <1>5 DEF q

LEMMA FlattenTwo ==
  ASSUME NEW s, NEW t
  PROVE  FlattenSeq(<<s, t>>) = s \o t
<1> DEFINE q == <<s, t>>
           Good(f) == f = [i \in 1 .. Len(q) |-> IF i = 1 THEN q[i] ELSE f[i-1] \o q[i]]
           fl == CHOOSE f : Good(f)
           w == [i \in 1 .. 2 |-> IF i = 1 THEN s ELSE s \o t]
<1>1. Good(w)
  OBVIOUS
<1>2. Good(fl)
  BY <1>1
<1>3. Len(q) = 2 /\ q[1] = s /\ q[2] = t
  OBVIOUS
<1>4. FlattenSeq(q) = fl[2]
  BY <1>3 DEF FlattenSeq
<1> HIDE DEF fl, q
<1>5. fl[1] = s
  BY <1>2, <1>3
<1>6. fl[2] = fl[1] \o q[2]
  BY <1>2, <1>3
<1> QED
  BY <1>3, <1>4, <1>5, <1>6 DEF q

-----------------------------------------------------------------------------
(* Where the bytes of a file are.                                           *)

LEMMA Sizes ==
  BlockSize \in Nat \ {0} /\ ChunkSize \in Nat \ {0} /\ IndexSize \in Nat \ {0}
BY ReadAssumption

LEMMA FileFacts ==
  ASSUME Typed
  PROVE  /\ FileOK(file) /\ imageLen \in Nat /\ blobLen \in Nat
         /\ file.size \in Nat /\ file.startblk \in Nat /\ file.tailAt \in Nat
         /\ file.startblk * BlockSize \in Nat
         /\ BlocksSize(file) \in Nat /\ BlocksSize(file) <= file.size
<1>1. FileOK(file) /\ imageLen \in Nat /\ blobLen \in Nat
  BY ReadAssumption DEF Typed
<1>2. file.size \in Nat /\ file.startblk \in Nat /\ file.tailAt \in Nat
  BY <1>1 DEF FileOK
<1>3. file.startblk * BlockSize \in Nat
  BY <1>2, Sizes
<1>4. BlocksSize(file) \in Nat /\ BlocksSize(file) <= file.size
  BY <1>2, Sizes, RemainderFits DEF BlocksSize, TailBytes
<1> QED
  BY <1>1, <1>2, <1>3, <1>4

InImage(at) == [dev |-> "image", at |-> at]

(* A byte of a flat file.                                                   *)
LEMMA FlatHome ==
  ASSUME Typed, file.layout # "chunks", NEW b \in Nat, b < file.size
  PROVE  /\ file.layout = "plain" \/ b < BlocksSize(file) =>
              Home(b) = InImage(InBlocks(file, b))
         /\ file.layout # "plain" /\ b >= BlocksSize(file) =>
              Home(b) = InImage(InTail(file, b))
<1>1. file.layout \in {"plain", "inline"} /\ file.size \in Nat
      /\ BlocksSize(file) = file.size - (file.size % BlockSize)
  BY FileFacts DEF FileOK, BlocksSize, TailBytes
<1>2. CASE b < BlocksSize(file)
  <2>1. b \div BlockSize # file.size \div BlockSize
    BY <1>1, <1>2, Sizes, InWholeBlocks
  <2>2. BlocksSize(file) \in Nat
    BY FileFacts
  <2> QED
    BY <1>1, <1>2, <2>1, <2>2 DEF Home, InImage, InBlocks
<1>3. CASE ~ (b < BlocksSize(file))
  <2>1. BlocksSize(file) <= b
    BY <1>3, FileFacts
  <2>2. b \div BlockSize = file.size \div BlockSize /\ b % BlockSize = b - BlocksSize(file)
    BY <1>1, <2>1, Sizes, InLastBlock
  <2>3. file.tailAt + (b % BlockSize) = InTail(file, b)
    BY <2>1, <2>2, FileFacts DEF InTail
  <2> QED
    BY <1>1, <1>3, <2>2, <2>3 DEF Home, InImage, InBlocks
<1> QED
  BY <1>2, <1>3

(* n bytes of the file from byte b on are one after the other in the image.   *)
Consecutive(b, at, n) ==
  /\ at \in Nat /\ n \in Nat \ {0}
  /\ \A i \in 1 .. n : Home(b + i - 1) = InImage(at + i - 1)

LEMMA BlocksConsecutive ==
  ASSUME Typed, file.layout # "chunks", NEW b \in Nat, NEW n \in Nat \ {0},
         b + n <= file.size, file.layout = "plain" \/ b + n <= BlocksSize(file)
  PROVE  Consecutive(b, InBlocks(file, b), n)
<1>1. InBlocks(file, b) \in Nat
  BY FileFacts DEF InBlocks
<1>2. ASSUME NEW i \in 1 .. n
      PROVE  Home(b + i - 1) = InImage(InBlocks(file, b) + i - 1)
  <2>1. b + i - 1 \in Nat /\ b + i - 1 < file.size
        /\ (b + n <= BlocksSize(file) => b + i - 1 < BlocksSize(file))
    BY FileFacts
  <2>2. Home(b + i - 1) = InImage(InBlocks(file, b + i - 1))
    BY <2>1, FlatHome
  <2>3. InBlocks(file, b + i - 1) = InBlocks(file, b) + i - 1
    BY FileFacts DEF InBlocks
  <2> QED
    BY <2>2, <2>3
<1> QED
  BY <1>1, <1>2 DEF Consecutive

LEMMA TailConsecutive ==
  ASSUME Typed, file.layout = "inline", NEW b \in Nat, NEW n \in Nat \ {0},
         b + n <= file.size, b >= BlocksSize(file)
  PROVE  Consecutive(b, InTail(file, b), n)
<1>1. InTail(file, b) \in Nat
  BY FileFacts DEF InTail
<1>2. ASSUME NEW i \in 1 .. n
      PROVE  Home(b + i - 1) = InImage(InTail(file, b) + i - 1)
  <2>1. b + i - 1 \in Nat /\ b + i - 1 < file.size /\ b + i - 1 >= BlocksSize(file)
    BY FileFacts
  <2>2. Home(b + i - 1) = InImage(InTail(file, b + i - 1))
    BY <2>1, FlatHome
  <2>3. InTail(file, b + i - 1) = InTail(file, b) + i - 1
    BY FileFacts DEF InTail
  <2> QED
    BY <2>2, <2>3
<1> QED
  BY <1>1, <1>2 DEF Consecutive

(* The pieces of a flat read are the range, in one part or in two.            *)
LEMMA PiecesFacts ==
  ASSUME Typed, file.layout # "chunks", NEW b \in Nat, NEW n \in Nat \ {0},
         b + n <= file.size
  PROVE  \/ \E at : /\ FlatPieces(file, b, n) = <<[at |-> at, n |-> n]>>
                    /\ Consecutive(b, at, n)
         \/ \E at, head, behind, rest :
              /\ FlatPieces(file, b, n) =
                   <<[at |-> at, n |-> head], [at |-> behind, n |-> rest]>>
              /\ head + rest = n
              /\ Consecutive(b, at, head) /\ Consecutive(b + head, behind, rest)
<1>1. file.layout \in {"plain", "inline"}
  BY FileFacts DEF FileOK
<1>2. CASE Spans(file, b, n)
  <2> DEFINE head == BlocksSize(file) - b
  <2>1. /\ file.layout = "inline" /\ head \in Nat \ {0} /\ n - head \in Nat \ {0}
        /\ b + head = BlocksSize(file)
    BY <1>2, FileFacts DEF Spans
  <2>2. Consecutive(b, InBlocks(file, b), head)
    BY <2>1, FileFacts, BlocksConsecutive
  <2>3. InTail(file, b + head) = file.tailAt
    BY <2>1, FileFacts DEF InTail
  <2>4. Consecutive(b + head, file.tailAt, n - head)
    <3>1. b + head \in Nat /\ b + head >= BlocksSize(file)
          /\ (b + head) + (n - head) <= file.size
      BY <2>1, FileFacts
    <3> HIDE DEF head
    <3>2. Consecutive(b + head, InTail(file, b + head), n - head)
      BY <2>1, <3>1, TailConsecutive
    <3> QED
      BY <2>3, <3>2
  <2>5. FlatPieces(file, b, n) = <<[at |-> InBlocks(file, b), n |-> head],
                                   [at |-> file.tailAt, n |-> n - head]>>
    BY <1>2 DEF FlatPieces
  <2>6. head + (n - head) = n
    BY <2>1
  <2> HIDE DEF head
  <2> QED
    BY <2>2, <2>4, <2>5, <2>6
<1>3. CASE ~ Spans(file, b, n)
  <2>1. FlatPieces(file, b, n) = <<[at |-> SliceAt(file, b, n), n |-> n]>>
    BY <1>3 DEF FlatPieces
  <2>2. CASE file.layout = "plain" \/ b + n <= BlocksSize(file)
    <3>1. SliceAt(file, b, n) = InBlocks(file, b)
      BY <2>2, FileFacts DEF SliceAt
    <3> QED
      BY <2>1, <2>2, <3>1, BlocksConsecutive
  <2>3. CASE ~ (file.layout = "plain" \/ b + n <= BlocksSize(file))
    <3>1. file.layout = "inline" /\ b >= BlocksSize(file)
      BY <1>1, <1>3, <2>3, FileFacts DEF Spans
    <3>2. SliceAt(file, b, n) = InTail(file, b)
      BY <2>3 DEF SliceAt
    <3> QED
      BY <2>1, <3>1, <3>2, TailConsecutive
  <2> QED
    BY <2>2, <2>3
<1> QED
  BY <1>2, <1>3

-----------------------------------------------------------------------------
(* What a call must return, and what it may fail for.                        *)

LEMMA TotalFacts ==
  ASSUME Typed
  PROVE  /\ Total \in Nat /\ Total <= req.size
         /\ Total > 0 => req.off + Total <= file.size
         /\ \A b \in Nat : b \in Wanted <=> req.off <= b /\ b < req.off + Total
<1>1. req.off \in Nat /\ req.size \in Nat /\ file.size \in Nat
  BY FileFacts DEF Typed
<1> QED
  BY <1>1 DEF Total, MinOf, Wanted

(* The cells of a piece that is mapped are the bytes of the file, and a piece  *)
(* that is not mapped lacks its last byte.                                   *)
LEMMA PieceInImage ==
  ASSUME Typed, NEW b \in Nat, NEW at, NEW n, Consecutive(b, at, n)
  PROVE  /\ Bytes("image", at, n) \in Seq(Cells) /\ Len(Bytes("image", at, n)) = n
         /\ \A i \in 1 .. n : Bytes("image", at, n)[i] = Home(b + i - 1)
         /\ ~ Mapped("image", at, n) =>
              Home(b + n - 1).at >= MapLen(Home(b + n - 1).dev)
<1>1. at \in Nat /\ n \in Nat \ {0} /\ n \in 1 .. n
      /\ \A i \in 1 .. n : Home(b + i - 1) = InImage(at + i - 1)
  BY DEF Consecutive
<1>2. /\ Bytes("image", at, n) \in Seq(Cells) /\ Len(Bytes("image", at, n)) = n
      /\ \A i \in 1 .. n : Bytes("image", at, n)[i] = InImage(at + i - 1)
  BY <1>1, BytesFacts DEF InImage
<1>3. Home(b + n - 1) = InImage(at + n - 1)
  BY <1>1
<1>4. ~ Mapped("image", at, n) => at + n - 1 >= imageLen
  BY <1>1, FileFacts DEF Mapped, MapLen
<1>5. Home(b + n - 1).at = at + n - 1 /\ MapLen(Home(b + n - 1).dev) = imageLen
  BY <1>3 DEF InImage, MapLen
<1> QED
  BY <1>1, <1>2, <1>4, <1>5

LEMMA LacksByte ==
  ASSUME Typed, NEW b \in Nat, req.off <= b, b < req.off + Total,
         Home(b).at >= MapLen(Home(b).dev)
  PROVE  FailsOnlyWhenCut
BY TotalFacts DEF FailsOnlyWhenCut

(* What a step leaves alone. *)
LEMMA SameCall ==
  ASSUME req' = req, UNCHANGED mounted
  PROVE  /\ Total' = Total /\ Wanted' = Wanted
         /\ \A b : Home(b)' = Home(b)
         /\ \A dev : MapLen(dev)' = MapLen(dev)
         /\ NChunks(file)' = NChunks(file)
BY DEF mounted, Total, Wanted, Home, MapLen, NChunks

(* A call that ends with an error because of a byte that it lacks.           *)
LEMMA ErrorEnds ==
  ASSUME Typed, Asked, req' = req, UNCHANGED mounted, UNCHANGED <<pos, remaining>>,
         pc' = "error", out' \in Seq(Cells), Len(out') <= req.size,
         \/ \E b \in Wanted : Home(b).at >= MapLen(Home(b).dev)
         \/ /\ file.layout = "chunks"
            /\ file.tailAt + NChunks(file) * IndexSize > imageLen
  PROVE  IInv'
<1>1. Typed'
  BY DEF Typed, mounted
<1>2. FailsOnlyWhenCut'
  BY SameCall DEF FailsOnlyWhenCut, mounted, Home, MapLen
<1>3. Asked'
  BY DEF Asked
<1> QED
  BY <1>1, <1>2, <1>3 DEF IInv, FlatOK, IndexesOK, ChunksOK, OkExact, ErrorCut

(* A call that ends with what it has to return.                              *)
LEMMA OkEnds ==
  ASSUME Typed, req' = req, UNCHANGED mounted, UNCHANGED <<pos, remaining>>,
         pc' = "ok", out' \in Seq(Cells), Len(out') = Total,
         \A i \in 1 .. Total : out'[i] = Home(req.off + i - 1)
  PROVE  IInv'
<1>1. Typed'
  BY DEF Typed, mounted
<1>2. (Len(out) = Total /\ Got(Total))'
  BY SameCall DEF Got
<1> QED
  BY <1>1, <1>2 DEF IInv, FlatOK, IndexesOK, ChunksOK, OkExact, ErrorCut

-----------------------------------------------------------------------------
(* The invariant, a lemma per action.                                        *)

LEMMA InitIInv == Init => IInv
<1> SUFFICES ASSUME Init
             PROVE  IInv
  OBVIOUS
<1>1. Typed
  BY EmptyFacts DEF Init, Typed
<1>2. Total = 0
  BY <1>1, FileFacts DEF Init, Total, MinOf
<1>3. OkExact
  BY <1>2, EmptyFacts DEF Init, OkExact, Got
<1> QED
  BY <1>1, <1>3 DEF Init, IInv, FlatOK, IndexesOK, ChunksOK, ErrorCut

LEMMA StutterKeeps == IInv /\ UNCHANGED vars => IInv'
<1> SUFFICES ASSUME IInv, UNCHANGED vars
             PROVE  IInv'
  OBVIOUS
<1>1. /\ req' = req /\ UNCHANGED mounted /\ pc' = pc /\ pos' = pos
      /\ remaining' = remaining /\ out' = out
  BY DEF vars, mounted
<1>2. Typed'
  BY <1>1 DEF IInv, Typed, mounted
<1>3. Total' = Total /\ (Asked' <=> Asked) /\ (ChunkCall' <=> ChunkCall)
  BY <1>1, SameCall DEF Asked, ChunkCall, mounted
<1>4. \A n : Got(n)' <=> Got(n)
  BY <1>1, SameCall DEF Got
<1>5. FlatOK'
  BY <1>1, <1>3 DEF IInv, FlatOK, mounted
<1>6. IndexesOK'
  BY <1>1, <1>3 DEF IInv, IndexesOK
<1>7. ChunksOK'
  BY <1>1, <1>3, <1>4 DEF IInv, ChunksOK
<1>8. OkExact'
  BY <1>1, <1>3, <1>4 DEF IInv, OkExact
<1>9. ErrorCut'
  <2>1. FailsOnlyWhenCut' <=> FailsOnlyWhenCut
    BY <1>1 DEF FailsOnlyWhenCut, mounted, Home, MapLen, Wanted, NChunks
  <2> QED
    BY <1>1, <1>3, <2>1 DEF IInv, ErrorCut
<1> QED
  BY <1>2, <1>5, <1>6, <1>7, <1>8, <1>9 DEF IInv

LEMMA ReadKeeps ==
  ASSUME IInv, NEW path \in {"write", "buffer"}, NEW off \in Nat, NEW size \in Nat \ {0},
         Read(path, off, size)
  PROVE  IInv'
<1>1. /\ req' = [path |-> path, off |-> off, size |-> size]
      /\ pos' = off /\ UNCHANGED mounted
  BY DEF Read, Start
<1>2. file.size \in Nat /\ file' = file
  BY <1>1, FileFacts DEF mounted, IInv
<1>3. Total' = remaining' /\ remaining' \in Nat
  BY <1>1, <1>2 DEF Read, Total, MinOf
<1>4. /\ pc' \in {"ok", "indexes", "flat"}
      /\ pc' = "ok" <=> off >= file.size
      /\ pc' = "indexes" => file.layout = "chunks"
      /\ pc' = "flat" => file.layout # "chunks"
      /\ remaining' > 0 <=> off < file.size
  BY <1>2 DEF Read, MinOf
<1>5. out' = IF path = "buffer" /\ pc' = "indexes" THEN Zeros(remaining') ELSE << >>
  BY DEF Read
<1>6. out' \in Seq(Cells)
      /\ Len(out') = IF path = "buffer" /\ pc' = "indexes" THEN remaining' ELSE 0
  BY <1>3, <1>5, ZerosFacts, EmptyFacts
<1>7. Typed'
  BY <1>1, <1>3, <1>4, <1>6 DEF Typed, IInv, mounted
<1>8. FlatOK'
  BY <1>1, <1>2, <1>3, <1>4, <1>5 DEF FlatOK, Asked
<1>9. IndexesOK'
  BY <1>1, <1>2, <1>3, <1>4, <1>6 DEF IndexesOK, ChunkCall
<1>10. OkExact'
  <2>1. ASSUME pc' = "ok"
        PROVE  Len(out') = 0 /\ Total' = 0
    BY <2>1, <1>2, <1>3, <1>4, <1>6
  <2> QED
    BY <2>1 DEF OkExact, Got
<1> QED
  BY <1>4, <1>7, <1>8, <1>9, <1>10 DEF IInv, ChunksOK, ErrorCut

LEMMA ReadWholeKeeps == IInv /\ ReadWhole => IInv'
<1> SUFFICES ASSUME IInv, ReadWhole
             PROVE  IInv'
  OBVIOUS
<1>1. /\ req' = [path |-> "whole", off |-> 0, size |-> file.size]
      /\ pos' = 0 /\ UNCHANGED mounted /\ file.layout # "chunks"
      /\ remaining' = file.size /\ out' = << >>
      /\ pc' = IF file.size = 0 THEN "ok" ELSE "flat"
  BY DEF ReadWhole, Start
<1>2. file.size \in Nat /\ file' = file
  BY <1>1, FileFacts DEF mounted, IInv
<1>3. Total' = file.size
  BY <1>1, <1>2 DEF Total, MinOf
<1>4. Typed'
  BY <1>1, <1>2, EmptyFacts DEF Typed, IInv, mounted
<1>5. FlatOK'
  BY <1>1, <1>2, <1>3 DEF FlatOK, Asked
<1>6. OkExact'
  BY <1>1, <1>2, <1>3, EmptyFacts DEF OkExact, Got
<1> QED
  BY <1>1, <1>4, <1>5, <1>6 DEF IInv, IndexesOK, ChunksOK, ErrorCut

LEMMA GetIndexesKeeps == IInv /\ GetIndexes => IInv'
<1> SUFFICES ASSUME IInv, GetIndexes
             PROVE  IInv'
  OBVIOUS
<1>1. /\ pc = "indexes" /\ out' = out
      /\ req' = req /\ UNCHANGED mounted /\ pos' = pos /\ remaining' = remaining
      /\ pc' = IF Mapped("image", file.tailAt, NChunks(file) * IndexSize)
                 THEN "chunks" ELSE "error"
  BY DEF GetIndexes, Finish
<1>2. /\ ChunkCall /\ pos = req.off /\ remaining = Total /\ Total > 0
      /\ Len(out) = IF req.path = "write" THEN 0 ELSE Total
  BY <1>1 DEF IInv, IndexesOK
<1>3. Typed /\ Total \in Nat /\ Total <= req.size /\ req.off \in Nat /\ req.size \in Nat
  BY TotalFacts DEF IInv, Typed
<1>4. CASE pc' = "chunks"
  <2>1. Typed'
    BY <1>1, <1>3, <1>4 DEF Typed, mounted
  <2>2. ChunksOK'
    BY <1>1, <1>2, <1>3, SameCall DEF ChunksOK, ChunkCall, mounted, Got
  <2> QED
    BY <1>4, <2>1, <2>2 DEF IInv, FlatOK, IndexesOK, OkExact, ErrorCut
<1>5. CASE pc' # "chunks"
  <2>1. pc' = "error" /\ ~ Mapped("image", file.tailAt, NChunks(file) * IndexSize)
    BY <1>1, <1>5
  <2>2. file.tailAt + NChunks(file) * IndexSize > imageLen
    <3>1. NChunks(file) \in Nat
      <4>1. file.size + ChunkSize - 1 \in Nat
        BY <1>3, FileFacts, Sizes
      <4> QED
        BY <4>1, Sizes, DivMod DEF NChunks
    <3>2. NChunks(file) * IndexSize \in Nat
      BY <3>1, Sizes
    <3> QED
      BY <2>1, <3>2, <1>3, FileFacts DEF Mapped, MapLen
  <2>3. Asked /\ file.layout = "chunks"
    BY <1>2 DEF ChunkCall, Asked
  <2>4. Len(out') <= req.size /\ out' \in Seq(Cells)
    BY <1>1, <1>2, <1>3 DEF Typed
  <2> QED
    BY <1>1, <1>3, <2>1, <2>2, <2>3, <2>4, ErrorEnds
<1> QED
  BY <1>4, <1>5

(* All pieces of a flat read are mapped and follow one another; of the pieces  *)
(* that are not, the first lacks a byte of the range.                        *)
LEMMA ReadFlatKeeps == IInv /\ ReadFlat => IInv'
<1> SUFFICES ASSUME IInv, ReadFlat
             PROVE  IInv'
  OBVIOUS
<1> DEFINE Ok(p)  == Mapped("image", p.at, p.n)
           Cell(p) == Bytes("image", p.at, p.n)
           pieces == FlatPieces(file, pos, remaining)
<1>1. /\ Typed /\ Asked /\ file.layout # "chunks"
      /\ pos = req.off /\ remaining = Total /\ Total > 0
  BY DEF ReadFlat, IInv, FlatOK
<1>2. /\ Total \in Nat \ {0} /\ Total <= req.size /\ req.off + Total <= file.size
      /\ req.off \in Nat /\ req.size \in Nat
  BY <1>1, TotalFacts DEF Typed
<1>3. /\ IF \A i \in DOMAIN pieces : Ok(pieces[i])
           THEN /\ out' = FlattenSeq([i \in DOMAIN pieces |-> Cell(pieces[i])])
                /\ pc' = "ok"
           ELSE /\ out' = IF req.path = "write" /\ Ok(Head(pieces))
                            THEN Cell(Head(pieces)) ELSE << >>
                /\ pc' = "error"
      /\ req' = req /\ UNCHANGED mounted /\ UNCHANGED <<pos, remaining>>
  BY DEF ReadFlat, Finish
<1>4. CASE \E at : /\ pieces = <<[at |-> at, n |-> Total]>>
                   /\ Consecutive(req.off, at, Total)
  <2> PICK at : /\ pieces = <<[at |-> at, n |-> Total]>>
                /\ Consecutive(req.off, at, Total)
    BY <1>4
  <2> DEFINE p == [at |-> at, n |-> Total]
             bytes == Bytes("image", at, Total)
  <2>1. DOMAIN pieces = {1} /\ pieces[1] = p /\ Head(pieces) = p
        /\ Cell(p) = bytes /\ (Ok(p) <=> Mapped("image", at, Total))
    OBVIOUS
  <2>2. /\ bytes \in Seq(Cells) /\ Len(bytes) = Total
        /\ \A i \in 1 .. Total : bytes[i] = Home(req.off + i - 1)
        /\ ~ Mapped("image", at, Total) =>
             Home(req.off + Total - 1).at >= MapLen(Home(req.off + Total - 1).dev)
    BY <1>1, <1>2, PieceInImage
  <2>3. CASE Mapped("image", at, Total)
    <3>1. \A i \in DOMAIN pieces : Ok(pieces[i])
      BY <2>1, <2>3
    <3>2. [i \in DOMAIN pieces |-> Cell(pieces[i])] = <<bytes>>
      BY <2>1
    <3> HIDE DEF pieces, Cell, Ok, bytes
    <3>3. out' = bytes /\ pc' = "ok"
      BY <1>3, <3>1, <3>2, FlattenOne
    <3> QED
      BY <1>1, <1>3, <2>2, <3>3, OkEnds
  <2>4. CASE ~ Mapped("image", at, Total)
    <3>1. ~ \A i \in DOMAIN pieces : Ok(pieces[i])
      BY <2>1, <2>4
    <3>2. ~ Ok(Head(pieces))
      BY <2>1, <2>4
    <3> HIDE DEF pieces, Cell, Ok, bytes
    <3>3. out' = << >> /\ pc' = "error"
      BY <1>3, <3>1, <3>2
    <3>4. req.off + Total - 1 \in Wanted
      BY <1>1, <1>2, TotalFacts
    <3>5. out' \in Seq(Cells) /\ Len(out') <= req.size
      BY <1>2, <3>3, EmptyFacts
    <3> QED
      BY <1>1, <1>3, <2>2, <2>4, <3>3, <3>4, <3>5, ErrorEnds
  <2> QED
    BY <2>3, <2>4
<1>5. CASE \E at, head, behind, rest :
              /\ pieces = <<[at |-> at, n |-> head], [at |-> behind, n |-> rest]>>
              /\ head + rest = Total
              /\ Consecutive(req.off, at, head) /\ Consecutive(req.off + head, behind, rest)
  <2> PICK at, head, behind, rest :
              /\ pieces = <<[at |-> at, n |-> head], [at |-> behind, n |-> rest]>>
              /\ head + rest = Total
              /\ Consecutive(req.off, at, head) /\ Consecutive(req.off + head, behind, rest)
    BY <1>5
  <2> DEFINE p == [at |-> at, n |-> head]
             q == [at |-> behind, n |-> rest]
             first == Bytes("image", at, head)
             second == Bytes("image", behind, rest)
  <2>1. DOMAIN pieces = {1, 2} /\ pieces[1] = p /\ pieces[2] = q /\ Head(pieces) = p
        /\ Cell(p) = first /\ Cell(q) = second
        /\ (Ok(p) <=> Mapped("image", at, head))
        /\ (Ok(q) <=> Mapped("image", behind, rest))
    OBVIOUS
  <2>2. head \in Nat \ {0} /\ rest \in Nat \ {0} /\ req.off + head \in Nat
    BY <1>2 DEF Consecutive
  <2>3. /\ first \in Seq(Cells) /\ Len(first) = head
        /\ \A i \in 1 .. head : first[i] = Home(req.off + i - 1)
        /\ ~ Mapped("image", at, head) =>
             Home(req.off + head - 1).at >= MapLen(Home(req.off + head - 1).dev)
    BY <1>1, <1>2, PieceInImage
  <2>4. /\ second \in Seq(Cells) /\ Len(second) = rest
        /\ \A i \in 1 .. rest : second[i] = Home(req.off + head + i - 1)
        /\ ~ Mapped("image", behind, rest) =>
             Home(req.off + head + rest - 1).at >=
               MapLen(Home(req.off + head + rest - 1).dev)
    BY <1>1, <2>2, PieceInImage
  <2>5. req.off + head - 1 \in Wanted /\ req.off + head + rest - 1 \in Wanted
    <3>1. /\ req.off + head - 1 \in Nat /\ req.off + head + rest - 1 \in Nat
          /\ req.off <= req.off + head - 1 /\ req.off + head - 1 < req.off + Total
          /\ req.off <= req.off + head + rest - 1
          /\ req.off + head + rest - 1 < req.off + Total
      BY <1>2, <2>2
    <3> QED
      BY <1>1, <3>1, TotalFacts
  <2>6. CASE Mapped("image", at, head) /\ Mapped("image", behind, rest)
    <3>1. \A i \in DOMAIN pieces : Ok(pieces[i])
      BY <2>1, <2>6
    <3>2. [i \in DOMAIN pieces |-> Cell(pieces[i])] = <<first, second>>
      BY <2>1
    <3> HIDE DEF pieces, Cell, Ok, first, second
    <3>3. out' = first \o second /\ pc' = "ok"
      BY <1>3, <3>1, <3>2, FlattenTwo
    <3>4. /\ first \o second \in Seq(Cells) /\ Len(first \o second) = head + rest
          /\ \A i \in 1 .. head + rest : (first \o second)[i] =
               IF i <= head THEN first[i] ELSE second[i - head]
      BY <2>3, <2>4, ConcatProperties
    <3>5. ASSUME NEW i \in 1 .. Total
          PROVE  out'[i] = Home(req.off + i - 1)
      <4>1. CASE i <= head
        BY <4>1, <2>2, <2>3, <3>3, <3>4
      <4>2. CASE ~ (i <= head)
        <5>1. i - head \in 1 .. rest /\ req.off + head + (i - head) - 1 = req.off + i - 1
          BY <1>2, <2>2, <4>2
        <5>2. second[i - head] = Home(req.off + i - 1)
          BY <2>4, <5>1
        <5> QED
          BY <3>3, <3>4, <4>2, <5>2
      <4> QED
        BY <4>1, <4>2
    <3> QED
      BY <1>1, <1>3, <3>3, <3>4, <3>5, OkEnds
  <2>7. CASE ~ (Mapped("image", at, head) /\ Mapped("image", behind, rest))
    <3>1. ~ \A i \in DOMAIN pieces : Ok(pieces[i])
      BY <2>1, <2>7
    <3>2. Cell(Head(pieces)) = first
      BY <2>1
    <3> HIDE DEF pieces, Cell, Ok, first
    <3>3. (out' = << >> \/ out' = first) /\ pc' = "error"
      BY <1>3, <3>1, <3>2
    <3>4. out' \in Seq(Cells) /\ Len(out') <= req.size
      <4>1. head <= req.size /\ 0 <= req.size
        BY <1>2, <2>2
      <4> QED
        BY ONLY <4>1, <2>3, <3>3, EmptyFacts
    <3>5. \E b \in Wanted : Home(b).at >= MapLen(Home(b).dev)
      BY <2>3, <2>4, <2>5, <2>7
    <3> QED
      BY <1>1, <1>3, <3>3, <3>4, <3>5, ErrorEnds
  <2> QED
    BY <2>6, <2>7
<1> QED
  BY <1>1, <1>2, <1>4, <1>5, PiecesFacts

(* The chunk of pos holds the next n bytes one after the other.               *)
LEMMA ChunkConsecutive ==
  ASSUME Typed, ChunkCall, NEW p \in Nat, NEW n \in Nat \ {0},
         p + n <= file.size, n <= ChunkSize - (p % ChunkSize)
  PROVE  LET c  == file.chunks[(p \div ChunkSize) + 1]
             at == c.blkaddr * BlockSize + (p % ChunkSize)
         IN /\ at \in Nat /\ c.device \in Nat
            /\ \A i \in 1 .. n :
                 Home(p + i - 1) =
                   [dev |-> IF c.device > 0 THEN "blob" ELSE "image", at |-> at + i - 1]
<1> DEFINE c  == file.chunks[(p \div ChunkSize) + 1]
           base == c.blkaddr * BlockSize
<1>1. /\ file.chunks \in Seq([device : Nat, blkaddr : Nat])
      /\ Len(file.chunks) = NChunks(file) /\ file.layout = "chunks"
  BY FileFacts DEF FileOK, ChunkCall
<1>2. p % ChunkSize \in Nat /\ p \div ChunkSize \in Nat
  BY Sizes, DivMod
<1>3. (p \div ChunkSize) + 1 \in 1 .. Len(file.chunks)
  <2>1. p < file.size /\ file.size \in Nat
    BY FileFacts
  <2>2. p \div ChunkSize < NChunks(file)
    BY <2>1, Sizes, ChunkExists DEF NChunks
  <2>3. Len(file.chunks) \in Nat
    BY <1>1, LenProperties
  <2> QED
    BY <1>1, <1>2, <2>2, <2>3
<1>4. c \in [device : Nat, blkaddr : Nat]
  BY <1>1, <1>3, ElementOfSeq
<1>5. base \in Nat /\ c.device \in Nat
  BY <1>4, Sizes
<1>6. ASSUME NEW i \in 1 .. n
      PROVE  Home(p + i - 1) =
               [dev |-> IF c.device > 0 THEN "blob" ELSE "image",
                at  |-> base + (p % ChunkSize) + i - 1]
  <2>1. i - 1 \in Nat /\ i - 1 < ChunkSize - (p % ChunkSize)
    BY <1>2, Sizes
  <2>2. (p + (i - 1)) \div ChunkSize = p \div ChunkSize
        /\ (p + (i - 1)) % ChunkSize = (p % ChunkSize) + (i - 1)
    BY <2>1, Sizes, InOneChunk
  <2>3. p + (i - 1) = p + i - 1
    OBVIOUS
  <2>4. Home(p + i - 1) = [dev |-> IF c.device = 0 THEN "image" ELSE "blob",
                           at  |-> base + ((p + i - 1) % ChunkSize)]
    BY <1>1, <2>2, <2>3 DEF Home
  <2> HIDE DEF base, c
  <2>5. base + ((p + i - 1) % ChunkSize) = base + (p % ChunkSize) + i - 1
    BY <1>2, <1>5, <2>2, <2>3
  <2> QED
    BY <1>5, <2>4, <2>5
<1> QED
  BY <1>2, <1>5, <1>6

(* What an iteration places: the cells before, then the new ones.             *)
LEMMA PlacedFacts ==
  ASSUME Typed, ChunkCall, ChunksOK, pc = "chunks",
         NEW bytes \in Seq(Cells), NEW n \in Nat, Len(bytes) = n, n <= remaining
  PROVE  /\ Placed(bytes) \in Seq(Cells)
         /\ Len(Placed(bytes)) =
              IF req.path = "write" THEN pos + n - req.off ELSE Total
         /\ \A i \in 1 .. pos - req.off : Placed(bytes)[i] = out[i]
         /\ \A i \in 1 .. n : Placed(bytes)[(pos - req.off) + i] = bytes[i]
<1> DEFINE d == pos - req.off
<1>1. /\ d \in Nat /\ d + n <= Total /\ Total \in Nat /\ req.off \in Nat
      /\ Len(out) = IF req.path = "write" THEN d ELSE Total
      /\ out \in Seq(Cells) /\ pos \in Nat
  BY TotalFacts DEF Typed, ChunksOK
<1>2. CASE req.path = "write"
  <2>1. /\ out \o bytes \in Seq(Cells) /\ Len(out \o bytes) = d + n
        /\ \A i \in 1 .. d + n : (out \o bytes)[i] =
             IF i <= d THEN out[i] ELSE bytes[i - d]
    <3>1. Len(out) = d
      BY <1>1, <1>2
    <3> HIDE DEF d
    <3> QED
      BY ONLY <1>1, <3>1, Len(bytes) = n, bytes \in Seq(Cells), Concatenation
  <2>2. Placed(bytes) = out \o bytes
    BY <1>2 DEF Placed
  <2> HIDE DEF d
  <2>3. \A i \in 1 .. n : d + i \in 1 .. d + n /\ ~ (d + i <= d) /\ (d + i) - d = i
    BY <1>1
  <2>4. \A i \in 1 .. d : i \in 1 .. d + n
    BY <1>1
  <2>5. pos + n - req.off = d + n
    BY <1>1 DEF d
  <2>6. \A i \in 1 .. d : Placed(bytes)[i] = out[i]
    BY <2>1, <2>2, <2>4
  <2>7. \A i \in 1 .. n : Placed(bytes)[d + i] = bytes[i]
    BY <2>1, <2>2, <2>3
  <2>8. Placed(bytes) \in Seq(Cells) /\ Len(Placed(bytes)) = pos + n - req.off
    BY <2>1, <2>2, <2>5
  <2> QED
    BY <1>2, <2>6, <2>7, <2>8 DEF d
<1>3. CASE req.path # "write"
  <2>1. DOMAIN out = 1 .. Total /\ DOMAIN bytes = 1 .. n
    BY <1>1, <1>3, LenProperties
  <2>2. Placed(bytes) = [i \in 1 .. Total |-> IF i - d \in 1 .. n
                                                THEN bytes[i - d] ELSE out[i]]
    BY <1>3, <2>1 DEF Placed
  <2>3. \A i \in 1 .. Total :
          (IF i - d \in 1 .. n THEN bytes[i - d] ELSE out[i]) \in Cells
    <3>1. \A i \in 1 .. Total : out[i] \in Cells
      BY <1>1, <1>3, ElementOfSeq
    <3>2. \A i \in 1 .. n : bytes[i] \in Cells
      BY ElementOfSeq
    <3> QED
      BY <3>1, <3>2
  <2> HIDE DEF d
  <2>4. Placed(bytes) \in Seq(Cells) /\ Len(Placed(bytes)) = Total
    <3> DEFINE f == Placed(bytes)
    <3>1. \A i \in 1 .. Total : f[i] \in Cells
      BY <2>2, <2>3
    <3>2. f = [i \in 1 .. Total |-> f[i]]
      BY <2>2
    <3> HIDE DEF f
    <3>3. f \in Seq(Cells) /\ Len(f) = Total
      BY <1>1, <3>1, <3>2, FunctionIsSeq
    <3> QED
      BY <3>3 DEF f
  <2>5. \A i \in 1 .. d : i \in 1 .. Total /\ i - d \notin 1 .. n
    BY <1>1
  <2>6. \A i \in 1 .. n : d + i \in 1 .. Total /\ (d + i) - d = i
    BY <1>1
  <2>7. \A i \in 1 .. d : Placed(bytes)[i] = out[i]
    BY <2>2, <2>5
  <2>8. \A i \in 1 .. n : Placed(bytes)[d + i] = bytes[i]
    BY <2>2, <2>6
  <2> QED
    BY <1>3, <2>4, <2>7, <2>8 DEF d
<1> QED
  BY <1>2, <1>3

LEMMA ReadChunkKeeps == IInv /\ ReadChunk => IInv'
<1> SUFFICES ASSUME IInv, ReadChunk
             PROVE  IInv'
  OBVIOUS
<1> DEFINE c   == file.chunks[(pos \div ChunkSize) + 1]
           n   == MinOf(remaining, ChunkSize - (pos % ChunkSize))
           from == IF c.device > 0 THEN "blob" ELSE "image"
           start  == c.blkaddr * BlockSize + (pos % ChunkSize)
           bytes == Bytes(from, start, n)
           d   == pos - req.off
<1>1. /\ Typed /\ ChunkCall /\ ChunksOK /\ pc = "chunks" /\ remaining > 0 /\ Asked
  BY DEF ReadChunk, IInv, ChunksOK, ChunkCall, Asked
<1>2. /\ req.off <= pos /\ pos + remaining = req.off + Total /\ Total > 0
      /\ req.path \in {"write", "buffer"}
      /\ Got(d)
  BY <1>1 DEF ChunksOK, ChunkCall
<1>3. /\ Total \in Nat /\ Total <= req.size /\ req.off + Total <= file.size
      /\ req.off \in Nat /\ req.size \in Nat /\ pos \in Nat /\ remaining \in Nat
      /\ file.size \in Nat
  BY <1>1, <1>2, TotalFacts, FileFacts DEF Typed
<1>4. n \in Nat \ {0} /\ n <= remaining /\ n <= ChunkSize - (pos % ChunkSize)
  <2>1. pos % ChunkSize \in 0 .. ChunkSize - 1
    BY <1>3, Sizes, DivMod
  <2> QED
    BY <2>1, <1>1, <1>3, Sizes DEF MinOf
<1>5. IF Mapped(from, start, n)
        THEN /\ out' = Placed(bytes)
             /\ pos' = pos + n /\ remaining' = remaining - n
             /\ UNCHANGED <<pc, req, mounted>>
        ELSE /\ pc' = "error" /\ UNCHANGED <<req, pos, remaining, mounted>>
             /\ out' = out
  BY DEF ReadChunk, Finish
<1>6. /\ start \in Nat
      /\ \A i \in 1 .. n : Home(pos + i - 1) = [dev |-> from, at |-> start + i - 1]
  <2>1. pos + n <= file.size
    BY <1>2, <1>3, <1>4
  <2> HIDE DEF n
  <2> QED
    BY <1>1, <1>3, <1>4, <2>1, ChunkConsecutive
<1>7. from \in {"image", "blob", "zero"} /\ from \in {"image", "blob"}
  OBVIOUS
<1> HIDE DEF c, n, from, start
<1>8. /\ bytes \in Seq(Cells) /\ Len(bytes) = n
      /\ \A i \in 1 .. n : bytes[i] = [dev |-> from, at |-> start + i - 1]
  <2>1. n \in Nat /\ start \in Nat /\ from \in {"image", "blob", "zero"}
    BY <1>4, <1>6, <1>7
  <2>2. IsBytes(bytes, from, start, n)
    BY ONLY <2>1, BytesAre DEF bytes
  <2> QED
    BY ONLY <2>2 DEF IsBytes
<1> HIDE DEF bytes
<1>9. CASE Mapped(from, start, n)
  <2>1. /\ out' = Placed(bytes) /\ pos' = pos + n /\ remaining' = remaining - n
        /\ pc' = pc /\ req' = req /\ UNCHANGED mounted
    BY <1>5, <1>9
  <2>2. /\ out' \in Seq(Cells)
        /\ Len(out') = IF req.path = "write" THEN pos + n - req.off ELSE Total
        /\ \A i \in 1 .. d : out'[i] = out[i]
        /\ \A i \in 1 .. n : out'[d + i] = bytes[i]
    BY <1>1, <1>4, <1>8, <2>1, PlacedFacts
  <2>3. \A i \in 1 .. d + n : out'[i] = Home(req.off + i - 1)
    <3>1. ASSUME NEW i \in 1 .. d
          PROVE  out'[i] = Home(req.off + i - 1)
      BY <1>2, <2>2 DEF Got
    <3>2. ASSUME NEW i \in 1 .. d + n, ~ (i <= d)
          PROVE  out'[i] = Home(req.off + i - 1)
      <4>1. i - d \in 1 .. n /\ d + (i - d) = i /\ pos + (i - d) - 1 = req.off + i - 1
        BY <1>2, <1>3, <1>4, <3>2
      <4>2. out'[i] = bytes[i - d]
        BY <2>2, <4>1
      <4>3. bytes[i - d] = Home(pos + (i - d) - 1)
        BY <1>6, <1>8, <4>1
      <4> QED
        BY <4>1, <4>2, <4>3
    <3>3. d \in Nat
      BY <1>2, <1>3
    <3> QED
      BY <1>4, <3>1, <3>2, <3>3
  <2>4. Typed'
    BY <1>1, <1>3, <1>4, <2>1, <2>2 DEF Typed, mounted
  <2>5. ChunksOK'
    <3>1. /\ Total' = Total /\ \A b : Home(b)' = Home(b)
      BY <2>1, SameCall
    <3>2. Got(pos - req.off)'
      <4>1. pos' - req'.off = d + n
        BY <1>3, <1>4, <2>1
      <4> HIDE DEF d
      <4> QED
        BY <2>1, <2>3, <4>1, SameCall DEF Got
    <3>3. ChunkCall'
      BY <1>1, <2>1 DEF ChunkCall, mounted
    <3>4. /\ req'.off <= pos' /\ pos' + remaining' = req'.off + Total'
          /\ Total' > 0
      BY <1>2, <1>3, <1>4, <2>1, <3>1
    <3>5. Len(out') = IF req'.path = "write" THEN pos' - req'.off ELSE Total'
      BY <1>3, <1>4, <2>1, <2>2, <3>1
    <3> QED
      BY <3>2, <3>3, <3>4, <3>5 DEF ChunksOK
  <2> QED
    BY <1>1, <2>1, <2>4, <2>5
    DEF IInv, FlatOK, IndexesOK, OkExact, ErrorCut
<1>10. CASE ~ Mapped(from, start, n)
  <2>1. /\ pc' = "error" /\ UNCHANGED <<req, pos, remaining, mounted>> /\ out' = out
    BY <1>5, <1>10
  <2> DEFINE b == pos + n - 1
  <2>2. b \in Nat /\ req.off <= b /\ b < req.off + Total
    BY <1>2, <1>3, <1>4
  <2>3. Home(b) = [dev |-> from, at |-> start + n - 1]
    BY <1>4, <1>6
  <2>4. start + n - 1 >= MapLen(from)
    BY <1>1, <1>4, <1>6, <1>7, <1>10, FileFacts DEF Mapped, MapLen
  <2>5. b \in Wanted
    BY <1>1, <2>2, TotalFacts
  <2>6. Len(out') <= req.size /\ out' \in Seq(Cells)
    BY <1>1, <1>2, <1>3, <2>1 DEF ChunksOK, Typed
  <2>7. Home(b).at >= MapLen(Home(b).dev)
    BY <2>3, <2>4
  <2> HIDE DEF b
  <2> QED
    BY <1>1, <2>1, <2>5, <2>6, <2>7, ErrorEnds
<1> QED
  BY <1>9, <1>10

LEMMA ChunksDoneKeeps == IInv /\ ChunksDone => IInv'
<1> SUFFICES ASSUME IInv, ChunksDone
             PROVE  IInv'
  OBVIOUS
<1>1. /\ Typed /\ ChunkCall /\ pc = "chunks"
      /\ req.off <= pos /\ pos + remaining = req.off + Total /\ Total > 0
      /\ Len(out) = IF req.path = "write" THEN pos - req.off ELSE Total
      /\ Got(pos - req.off)
  BY DEF ChunksDone, IInv, ChunksOK
<1>2. /\ Total \in Nat /\ req.off + Total <= file.size
      /\ req.off \in Nat /\ pos \in Nat /\ remaining \in Nat /\ file.size \in Nat
  BY <1>1, TotalFacts, FileFacts DEF Typed
<1>3. remaining = 0
  <2>1. remaining = 0 \/ ~ InChunks
    BY DEF ChunksDone
  <2>2. remaining # 0 => pos < file.size
    BY <1>1, <1>2
  <2>3. pos < file.size => InChunks
    BY <1>2, Sizes, ChunkExists DEF InChunks, NChunks
  <2> QED
    BY <2>1, <2>2, <2>3
<1>4. pos - req.off = Total
  BY <1>1, <1>2, <1>3
<1>5. Len(out) = Total /\ \A i \in 1 .. Total : out[i] = Home(req.off + i - 1)
  BY <1>1, <1>4 DEF Got
<1>6. /\ pc' = "ok" /\ out' = out /\ req' = req /\ UNCHANGED mounted
      /\ UNCHANGED <<pos, remaining>>
  BY DEF ChunksDone, Finish
<1>7. out' \in Seq(Cells)
  BY <1>1, <1>6 DEF Typed
<1> QED
  BY <1>1, <1>5, <1>6, <1>7, OkEnds

LEMMA NextIInv == IInv /\ [Next]_vars => IInv'
<1> SUFFICES ASSUME IInv, [Next]_vars
             PROVE  IInv'
  OBVIOUS
<1>1. ASSUME NEW path \in {"write", "buffer"}, NEW off \in 0 .. file.size + 1,
             NEW size \in 1 .. MaxSize, Read(path, off, size)
      PROVE  IInv'
  <2>1. off \in Nat /\ size \in Nat \ {0}
    BY ReadAssumption, FileFacts DEF IInv
  <2> QED
    BY <1>1, <2>1, ReadKeeps
<1> QED
  BY <1>1, StutterKeeps, ReadWholeKeeps, ReadFlatKeeps, GetIndexesKeeps,
     ReadChunkKeeps, ChunksDoneKeeps DEF Next

LEMMA Invariance == Spec => []IInv
BY InitIInv, NextIInv, PTL DEF Spec

-----------------------------------------------------------------------------
(* The theorems.                                                           *)

(* Type correctness of the read paths; no reply is longer than was asked for. *)
THEOREM ReadTypeCorrect == Spec => []TypeOK
<1>1. IInv => TypeOK
  <2> SUFFICES ASSUME IInv
               PROVE  TypeOK
    OBVIOUS
  <2>1. Total \in Nat /\ Total <= req.size /\ req.size \in Nat /\ req.off \in Nat
        /\ Len(out) \in Nat
    BY TotalFacts, LenProperties DEF IInv, Typed
  <2>2. Len(out) <= req.size
    <3>1. CASE pc = "flat"
      BY <2>1, <3>1, EmptyFacts DEF IInv, FlatOK
    <3>2. CASE pc = "indexes"
      BY <2>1, <3>2 DEF IInv, IndexesOK
    <3>3. CASE pc = "chunks"
      BY <2>1, <3>3 DEF IInv, ChunksOK, Typed
    <3>4. CASE pc = "error"
      BY <3>4 DEF IInv, ErrorCut
    <3>5. CASE pc = "ok"
      BY <2>1, <3>5 DEF IInv, OkExact
    <3> QED
      BY <3>1, <3>2, <3>3, <3>4, <3>5 DEF IInv, Typed
  <2> QED
    BY <2>2 DEF IInv, Typed, TypeOK
<1> QED
  BY <1>1, Invariance, PTL

(* In every layout and on every path, a call that succeeds returns exactly the *)
(* bytes of its range.                                                      *)
THEOREM ReadsAreExact == Spec => []ReadExact
<1>1. IInv => ReadExact
  <2> SUFFICES ASSUME IInv, pc = "ok", Asked
               PROVE  /\ Len(out) = IF Wanted = {} THEN 0
                                    ELSE MinOf(req.size, file.size - req.off)
                      /\ \A i \in DOMAIN out : out[i] = Home(req.off + i - 1)
    BY DEF ReadExact, Asked
  <2>1. Len(out) = Total /\ Got(Total) /\ Typed
    BY DEF IInv, OkExact
  <2>2. req.off \in Nat /\ req.size \in Nat /\ file.size \in Nat
    BY <2>1, FileFacts DEF Typed
  <2>3. Total = IF Wanted = {} THEN 0 ELSE MinOf(req.size, file.size - req.off)
    <3>1. CASE req.off >= file.size \/ req.size = 0
      <4>1. Wanted = {}
        BY <2>2, <3>1 DEF Wanted
      <4> QED
        BY <2>2, <3>1, <4>1 DEF Total, MinOf
    <3>2. CASE ~ (req.off >= file.size \/ req.size = 0)
      <4>1. req.off \in Wanted
        BY <2>2, <3>2 DEF Wanted
      <4> QED
        BY <3>2, <4>1 DEF Total
    <3> QED
      BY <3>1, <3>2
  <2>4. DOMAIN out = 1 .. Total
    BY <2>1, LenProperties DEF Typed
  <2> QED
    BY <2>1, <2>3, <2>4 DEF Got
<1> QED
  BY <1>1, Invariance, PTL

(* A call fails only for a byte of its range, or for the table of its chunks,  *)
(* that the mappings do not have.                                           *)
THEOREM OnlyCutsFail == Spec => []FailsOnlyWhenCut
<1>1. IInv => FailsOnlyWhenCut
  BY DEF IInv, ErrorCut, FailsOnlyWhenCut
<1> QED
  BY <1>1, Invariance, PTL
=============================================================================

-------------------------- MODULE BlobStoreProofs --------------------------
(***************************************************************************)
(* Proofs about BlobStore for every block size, chunk size, number of files *)
(* and set of contents.  The chain is: the arithmetic of cells in chunks;   *)
(* what a file resolves to, as an operator of a size, a list of indexes and *)
(* a blob, and how it behaves when the blob grows or an index is pushed; an *)
(* inductive invariant (IInv) which says that every index leads to a        *)
(* content the dedup table knows and the blob holds; and from it the        *)
(* properties and the safety part of the refinement of FileStore; and last   *)
(* sums over chunks and files, for the bytes that deduplication saved.       *)
(***************************************************************************)
EXTENDS BlobStore, SequenceTheorems, WellFoundedInduction, TLAPS

-----------------------------------------------------------------------------
(* Arithmetic.                                                             *)

(* Division with remainder. *)
LEMMA DivMod ==
  ASSUME NEW x \in Nat, NEW a \in Nat \ {0}
  PROVE  /\ x = (x \div a) * a + (x % a)
         /\ x \div a \in Nat
         /\ x % a \in 0 .. a - 1
BY SMT

(* Division with remainder has one result only. *)
LEMMA DivModUnique ==
  ASSUME NEW q \in Nat, NEW a \in Nat \ {0}, NEW r \in 0 .. a - 1
  PROVE  (q * a + r) \div a = q /\ (q * a + r) % a = r
BY SMT

(* A multiple stays below a multiple of the same number only with a smaller *)
(* factor.                                                                 *)
LEMMA FactorBelow ==
  ASSUME NEW q \in Nat, NEW k \in Nat, NEW a \in Nat \ {0}, q * a < k * a
  PROVE  q + 1 <= k
<1>1. ~ (k <= q)
  <2>1. k <= q => k * a <= q * a
    BY SMT
  <2>2. k * a \in Nat /\ q * a \in Nat
    OBVIOUS
  <2> QED
    BY <2>1, <2>2
<1> QED
  BY <1>1

(* Factors in order, multiples in order. *)
LEMMA MultiplesInOrder ==
  ASSUME NEW q \in Nat, NEW k \in Nat, NEW a \in Nat, q <= k
  PROVE  q * a <= k * a
BY SMT

LEMMA NextMultiple ==
  ASSUME NEW q \in Nat, NEW a \in Nat
  PROVE  /\ (q + 1) * a = q * a + a
         /\ q * a \in Nat
         /\ (q + 1) * a \in Nat
BY SMT

(* div_ceil counts the chunks that start below x. *)
LEMMA DivCeilCounts ==
  ASSUME NEW x \in Nat, NEW a \in Nat \ {0}, NEW q \in Nat
  PROVE  DivCeil(x, a) \in Nat /\ (q < DivCeil(x, a) <=> q * a < x)
<1> DEFINE d == (x + a - 1) \div a
           r == (x + a - 1) % a
<1>1. x + a - 1 \in Nat
  OBVIOUS
<1>2. x + a - 1 = d * a + r /\ d \in Nat /\ r \in 0 .. a - 1
  BY <1>1, DivMod
<1>3. DivCeil(x, a) = d
  BY DEF DivCeil
<1> HIDE DEF d, r
<1>4. q * a \in Nat /\ d * a \in Nat /\ (q + 1) * a = q * a + a
  BY <1>2, NextMultiple
<1>5. q < d => q * a < x
  <2> SUFFICES ASSUME q < d PROVE q * a < x
    OBVIOUS
  <2>1. q + 1 \in Nat /\ q + 1 <= d
    BY <1>2
  <2>2. (q + 1) * a <= d * a
    BY <2>1, <1>2, MultiplesInOrder
  <2> QED
    BY <2>2, <1>2, <1>4
<1>6. ~ (q < d) => ~ (q * a < x)
  <2> SUFFICES ASSUME ~ (q < d) PROVE ~ (q * a < x)
    OBVIOUS
  <2>1. d <= q
    BY <1>2
  <2>2. d * a <= q * a
    BY <2>1, <1>2, MultiplesInOrder
  <2> QED
    BY <2>2, <1>2, <1>4
<1> QED
  BY <1>2, <1>3, <1>5, <1>6

-----------------------------------------------------------------------------
(* What a list of indexes resolves to.                                     *)

LenOf(sz, k) == MinOf(sz - (k - 1) * ChunkSize, ChunkSize)

Known(sz, idx) == MinOf(sz, Len(idx) * ChunkSize)

CellAt(idx, bl, p) ==
  bl[idx[ChunkIdx(p - 1) + 1] * BlockSize + ChunkOff(p - 1) + 1]

ResolvedOf(sz, idx, bl) == [p \in 1 .. Known(sz, idx) |-> CellAt(idx, bl, p)]

(* Concatenation of sequences of cells. *)
LEMMA Concatenation ==
  ASSUME NEW s \in Seq(Nat), NEW t \in Seq(Nat)
  PROVE  /\ s \o t \in Seq(Nat)
         /\ Len(s \o t) = Len(s) + Len(t)
         /\ \A i \in 1 .. Len(s) + Len(t) :
              (s \o t)[i] = IF i <= Len(s) THEN s[i] ELSE t[i - Len(s)]
BY ConcatProperties

(* p is the n cells of b behind the first s. *)
IsPiece(p, b, s, n) ==
  /\ p \in Seq(Nat)
  /\ Len(p) = n
  /\ \A i \in 1 .. n : p[i] = b[s + i]

LEMMA SubSeqIsPiece ==
  ASSUME NEW b \in Seq(Nat), NEW s \in Nat, NEW n \in Nat, s + n <= Len(b)
  PROVE  IsPiece(SubSeq(b, s + 1, s + n), b, s, n)
<1> DEFINE p == SubSeq(b, s + 1, s + n)
<1>1. Len(b) \in Nat
  BY LenProperties
<1>2. \A i \in s + 1 .. s + n : i \in 1 .. Len(b)
  BY <1>1
<1>3. \A i \in s + 1 .. s + n : b[i] \in Nat
  BY <1>2, ElementOfSeq
<1>4. s + 1 \in Int /\ s + n \in Int
  OBVIOUS
<1>5. /\ p \in Seq(Nat)
      /\ Len(p) = IF s + 1 <= s + n THEN (s + n) - (s + 1) + 1 ELSE 0
      /\ \A i \in 1 .. (s + n) - (s + 1) + 1 : p[i] = b[s + 1 + i - 1]
  BY ONLY <1>3, <1>4, SubSeqProperties
<1> HIDE DEF p
<1>6. Len(p) = n
  BY <1>5
<1>7. \A i \in 1 .. n :
        i \in 1 .. (s + n) - (s + 1) + 1 /\ s + 1 + i - 1 = s + i
  OBVIOUS
<1>8. \A i \in 1 .. n : p[i] = b[s + i]
  BY <1>5, <1>7
<1>9. IsPiece(p, b, s, n)
  BY <1>5, <1>6, <1>8 DEF IsPiece
<1> QED
  BY <1>9 DEF p

(* The blob holds content c at block a. *)
HoldsAt(bl, a, c) ==
  /\ a * BlockSize + Len(c) <= Len(bl)
  /\ \A j \in 1 .. Len(c) : bl[a * BlockSize + j] = c[j]

(* Every index has a chunk of the file to hold, and holds it inside bl. *)
Backed(sz, idx, bl) ==
  \A k \in 1 .. Len(idx) :
    /\ (k - 1) * ChunkSize < sz
    /\ idx[k] * BlockSize + LenOf(sz, k) <= Len(bl)

Extends(bl, bl2) ==
  /\ Len(bl) <= Len(bl2)
  /\ \A i \in 1 .. Len(bl) : bl2[i] = bl[i]

LEMMA ResolvedIs ==
  ASSUME NEW f \in Files
  PROVE  Resolved(f) = ResolvedOf(size[f], indexes[f], blob)
BY DEF Resolved, ResolvedOf, Known, CellAt

LEMMA Sizes == BlockSize \in Nat \ {0} /\ ChunkSize \in Nat \ {0}
BY BlobAssumption

(* The position of a cell of a chunk, from the chunk and back. *)
LEMMA CellInChunk ==
  ASSUME NEW q \in Nat, NEW j \in 1 .. ChunkSize, NEW p,
         p = q * ChunkSize + j
  PROVE  /\ ChunkIdx(p - 1) = q
         /\ ChunkOff(p - 1) = j - 1
<1>1. j - 1 \in 0 .. ChunkSize - 1 /\ q * ChunkSize \in Nat
  BY Sizes, NextMultiple
<1>2. p - 1 = q * ChunkSize + (j - 1)
  BY <1>1
<1>3. /\ (q * ChunkSize + (j - 1)) \div ChunkSize = q
      /\ (q * ChunkSize + (j - 1)) % ChunkSize = j - 1
  BY <1>1, Sizes, DivModUnique
<1> QED
  BY <1>2, <1>3 DEF ChunkIdx, ChunkOff

LEMMA LenOfFacts ==
  ASSUME NEW sz \in Nat, NEW k \in Nat \ {0}, (k - 1) * ChunkSize < sz
  PROVE  /\ LenOf(sz, k) \in 1 .. ChunkSize
         /\ (k - 1) * ChunkSize \in Nat
         /\ (k - 1) * ChunkSize + LenOf(sz, k) = MinOf(sz, k * ChunkSize)
<1>1. (k - 1) + 1 = k /\ k - 1 \in Nat
  OBVIOUS
<1>2. k * ChunkSize = (k - 1) * ChunkSize + ChunkSize
      /\ (k - 1) * ChunkSize \in Nat
  BY <1>1, Sizes, NextMultiple
<1> DEFINE u == (k - 1) * ChunkSize
           v == k * ChunkSize
<1> HIDE DEF u, v
<1>3. u \in Nat /\ v = u + ChunkSize /\ u < sz
  BY <1>2 DEF u, v
<1>4. /\ MinOf(sz - u, ChunkSize) \in 1 .. ChunkSize
      /\ u + MinOf(sz - u, ChunkSize) = MinOf(sz, v)
  BY <1>3, Sizes DEF MinOf
<1> QED
  BY <1>3, <1>4 DEF LenOf, u, v

(* A cell of what is known of a file lies in one of its chunks. *)
LEMMA CellPlace ==
  ASSUME NEW sz \in Nat, NEW idx \in Seq(Nat), NEW p \in 1 .. Known(sz, idx)
  PROVE  \E k \in 1 .. Len(idx) : \E j \in 1 .. ChunkSize :
           /\ p = (k - 1) * ChunkSize + j
           /\ (k - 1) * ChunkSize < sz
           /\ j <= LenOf(sz, k)
           /\ ChunkIdx(p - 1) + 1 = k
           /\ ChunkOff(p - 1) + 1 = j
<1> DEFINE q == (p - 1) \div ChunkSize
           r == (p - 1) % ChunkSize
<1>0. /\ Len(idx) \in Nat /\ Len(idx) * ChunkSize \in Nat
      /\ p \in Nat /\ p >= 1 /\ p <= sz /\ p <= Len(idx) * ChunkSize
  <2>1. Len(idx) \in Nat
    OBVIOUS
  <2>2. Len(idx) * ChunkSize \in Nat
    BY <2>1, Sizes, NextMultiple
  <2> DEFINE v == Len(idx) * ChunkSize
  <2>3. MinOf(sz, v) <= sz /\ MinOf(sz, v) <= v /\ MinOf(sz, v) \in Nat
    <3> HIDE DEF v
    <3> QED
      BY <2>2 DEF MinOf, v
  <2> QED
    BY <2>1, <2>2, <2>3 DEF Known
<1>1. p - 1 \in Nat
  BY <1>0
<1>2. p - 1 = q * ChunkSize + r /\ q \in Nat /\ r \in 0 .. ChunkSize - 1
  BY <1>1, Sizes, DivMod
<1>3. ChunkIdx(p - 1) = q /\ ChunkOff(p - 1) = r
  BY DEF ChunkIdx, ChunkOff
<1> HIDE DEF q, r
<1>4. q * ChunkSize \in Nat
  BY <1>2, Sizes, NextMultiple
<1>5. q * ChunkSize < Len(idx) * ChunkSize
  BY <1>0, <1>2, <1>4
<1>6. q + 1 \in 1 .. Len(idx)
  <2>1. q + 1 <= Len(idx)
    BY <1>0, <1>2, <1>5, Sizes, FactorBelow
  <2> QED
    BY <2>1, <1>0, <1>2
<1>7. r + 1 \in 1 .. ChunkSize
  BY <1>2, Sizes
<1>8. (q + 1) - 1 = q /\ q * ChunkSize < sz
      /\ p = q * ChunkSize + (r + 1)
  BY <1>0, <1>2, <1>4, Sizes
<1>9. r + 1 <= LenOf(sz, q + 1)
  BY <1>0, <1>2, <1>4, <1>8, Sizes DEF LenOf, MinOf
<1> QED
  BY <1>3, <1>6, <1>7, <1>8, <1>9

LEMMA AppendedExtends ==
  ASSUME NEW s \in Seq(Nat), NEW t \in Seq(Nat)
  PROVE  s \o t \in Seq(Nat) /\ Extends(s, s \o t)
<1>1. Len(s) \in Nat /\ Len(t) \in Nat
  BY LenProperties
<1>2. /\ s \o t \in Seq(Nat)
      /\ Len(s \o t) = Len(s) + Len(t)
      /\ \A i \in 1 .. Len(s) + Len(t) :
           (s \o t)[i] = IF i <= Len(s) THEN s[i] ELSE t[i - Len(s)]
  BY Concatenation
<1>3. \A i \in 1 .. Len(s) : i \in 1 .. Len(s) + Len(t) /\ i <= Len(s)
  BY <1>1
<1>4. \A i \in 1 .. Len(s) : (s \o t)[i] = s[i]
  BY <1>2, <1>3
<1>5. Len(s) <= Len(s \o t)
  BY <1>1, <1>2
<1> QED
  BY <1>2, <1>4, <1>5 DEF Extends

(* Where the blob holds cell p of a file: inside, and behind the index of   *)
(* its chunk.                                                              *)
LEMMA CellInBlob ==
  ASSUME NEW sz \in Nat, NEW idx \in Seq(Nat), NEW bl \in Seq(Nat),
         Backed(sz, idx, bl),
         NEW k \in 1 .. Len(idx), NEW j \in 1 .. ChunkSize, j <= LenOf(sz, k)
  PROVE  /\ idx[k] * BlockSize + j \in 1 .. Len(bl)
         /\ (k - 1) * ChunkSize + j \in 1 .. Known(sz, idx)
         /\ CellAt(idx, bl, (k - 1) * ChunkSize + j)
              = bl[idx[k] * BlockSize + j]
<1>1. Len(idx) \in Nat /\ k \in Nat \ {0} /\ k - 1 \in Nat /\ j \in Nat
  BY Sizes
<1>2. (k - 1) * ChunkSize < sz /\ idx[k] * BlockSize + LenOf(sz, k) <= Len(bl)
  BY DEF Backed
<1>3. /\ LenOf(sz, k) \in 1 .. ChunkSize
      /\ (k - 1) * ChunkSize \in Nat
      /\ (k - 1) * ChunkSize + LenOf(sz, k) = MinOf(sz, k * ChunkSize)
  BY <1>1, <1>2, LenOfFacts
<1>4. idx[k] \in Nat
  BY ElementOfSeq
<1>5. idx[k] * BlockSize \in Nat
  BY <1>4, Sizes, NextMultiple
<1>6. Len(bl) \in Nat
  BY LenProperties
<1>7. idx[k] * BlockSize + j \in 1 .. Len(bl)
  <2> DEFINE u == idx[k] * BlockSize
             n == LenOf(sz, k)
  <2>1. u \in Nat /\ n \in Nat /\ u + n <= Len(bl) /\ j <= n
    BY <1>2, <1>3, <1>5, Sizes
  <2> HIDE DEF u, n
  <2>2. u + j \in 1 .. Len(bl)
    BY <2>1, <1>1, <1>6
  <2> QED
    BY <2>2 DEF u
<1>8. (k - 1) * ChunkSize + j \in 1 .. Known(sz, idx)
  <2>0. k \in Nat /\ Len(idx) \in Nat /\ k <= Len(idx) /\ ChunkSize \in Nat
    BY <1>1, Sizes
  <2>1. k * ChunkSize <= Len(idx) * ChunkSize
    BY ONLY <2>0, MultiplesInOrder
  <2> DEFINE u == (k - 1) * ChunkSize
             v == k * ChunkSize
             w == Len(idx) * ChunkSize
             n == LenOf(sz, k)
  <2>2. /\ u \in Nat /\ v \in Nat /\ w \in Nat /\ v <= w
        /\ n \in Nat /\ j <= n /\ u + n = MinOf(sz, v)
    BY <1>1, <1>3, <2>1, Sizes, NextMultiple
  <2> HIDE DEF u, v, w, n
  <2>3. u + j \in 1 .. MinOf(sz, w)
    BY <2>2, <1>1 DEF MinOf
  <2> QED
    BY <2>3 DEF u, w, Known
<1> DEFINE p == (k - 1) * ChunkSize + j
           q == k - 1
<1>9. ChunkIdx(p - 1) = q /\ ChunkOff(p - 1) = j - 1
  <2>1. q \in Nat /\ p = q * ChunkSize + j
    BY <1>1
  <2> HIDE DEF p, q
  <2> QED
    BY <2>1, CellInChunk
<1>10. CellAt(idx, bl, (k - 1) * ChunkSize + j) = bl[idx[k] * BlockSize + j]
  <2> HIDE DEF p
  <2>1. ChunkIdx(p - 1) + 1 = k
    BY <1>1, <1>9
  <2>2. idx[k] * BlockSize + ChunkOff(p - 1) + 1 = idx[k] * BlockSize + j
    BY <1>1, <1>5, <1>9
  <2>3. CellAt(idx, bl, p) = bl[idx[k] * BlockSize + j]
    BY <2>1, <2>2 DEF CellAt
  <2> QED
    BY <2>3 DEF p
<1> QED
  BY <1>7, <1>8, <1>10

LEMMA KnownFacts ==
  ASSUME NEW sz \in Nat, NEW idx \in Seq(Nat)
  PROVE  /\ Known(sz, idx) \in Nat
         /\ Known(sz, idx) <= sz
         /\ Len(idx) * ChunkSize \in Nat
         /\ Known(sz, idx) = sz \/ Known(sz, idx) = Len(idx) * ChunkSize
         /\ sz <= Len(idx) * ChunkSize => Known(sz, idx) = sz
         /\ Len(idx) * ChunkSize <= sz => Known(sz, idx) = Len(idx) * ChunkSize
<1>1. Len(idx) * ChunkSize \in Nat
  BY LenProperties, Sizes, NextMultiple
<1> DEFINE w == Len(idx) * ChunkSize
<1> HIDE DEF w
<1>2. w \in Nat
  BY <1>1 DEF w
<1>3. /\ MinOf(sz, w) \in Nat
      /\ MinOf(sz, w) <= sz
      /\ MinOf(sz, w) = sz \/ MinOf(sz, w) = w
      /\ sz <= w => MinOf(sz, w) = sz
      /\ w <= sz => MinOf(sz, w) = w
  BY <1>2 DEF MinOf
<1> QED
  BY <1>2, <1>3 DEF w, Known

(* What indexes resolve to is a sequence of cells of the blob. *)
LEMMA ResolvedIsSeq ==
  ASSUME NEW sz \in Nat, NEW idx \in Seq(Nat), NEW bl \in Seq(Nat),
         Backed(sz, idx, bl)
  PROVE  /\ ResolvedOf(sz, idx, bl) \in Seq(Nat)
         /\ Len(ResolvedOf(sz, idx, bl)) = Known(sz, idx)
         /\ \A p \in 1 .. Known(sz, idx) :
              ResolvedOf(sz, idx, bl)[p] = CellAt(idx, bl, p)
<1>1. \A p \in 1 .. Known(sz, idx) : CellAt(idx, bl, p) \in Nat
  <2> SUFFICES ASSUME NEW p \in 1 .. Known(sz, idx)
               PROVE  CellAt(idx, bl, p) \in Nat
    OBVIOUS
  <2>1. PICK k \in 1 .. Len(idx), j \in 1 .. ChunkSize :
          p = (k - 1) * ChunkSize + j /\ j <= LenOf(sz, k)
    BY CellPlace
  <2>2. /\ idx[k] * BlockSize + j \in 1 .. Len(bl)
        /\ CellAt(idx, bl, p) = bl[idx[k] * BlockSize + j]
    BY <2>1, CellInBlob
  <2> QED
    BY <2>2, ElementOfSeq
<1>2. Known(sz, idx) \in Nat
  BY KnownFacts
<1> DEFINE R == ResolvedOf(sz, idx, bl)
           n == Known(sz, idx)
<1>3. /\ n \in Nat
      /\ R \in [1 .. n -> Nat]
      /\ \A p \in 1 .. n : R[p] = CellAt(idx, bl, p)
  <2>1. R = [p \in 1 .. n |-> CellAt(idx, bl, p)]
    BY DEF ResolvedOf
  <2>2. \A p \in 1 .. n : CellAt(idx, bl, p) \in Nat
    BY <1>1
  <2> HIDE DEF R, n
  <2> QED
    BY <1>2, <2>1, <2>2 DEF n
<1> HIDE DEF R, n
<1>4. R \in Seq(Nat) /\ Len(R) = n
  BY <1>3
<1> QED
  BY <1>3, <1>4 DEF R, n

(* Appending to the blob changes nothing of what indexes resolve to. *)
LEMMA ResolvedStays ==
  ASSUME NEW sz \in Nat, NEW idx \in Seq(Nat), NEW bl \in Seq(Nat),
         NEW bl2 \in Seq(Nat), Backed(sz, idx, bl), Extends(bl, bl2)
  PROVE  /\ Backed(sz, idx, bl2)
         /\ ResolvedOf(sz, idx, bl2) = ResolvedOf(sz, idx, bl)
<1>1. Backed(sz, idx, bl2)
  <2> SUFFICES ASSUME NEW k \in 1 .. Len(idx)
               PROVE  /\ (k - 1) * ChunkSize < sz
                      /\ idx[k] * BlockSize + LenOf(sz, k) <= Len(bl2)
    BY DEF Backed
  <2>1. /\ (k - 1) * ChunkSize < sz
        /\ idx[k] * BlockSize + LenOf(sz, k) <= Len(bl)
    BY DEF Backed
  <2>2. k \in Nat \ {0} /\ idx[k] \in Nat
    BY LenProperties, ElementOfSeq
  <2>3. LenOf(sz, k) \in Nat
    BY <2>1, <2>2, LenOfFacts, Sizes
  <2>4. idx[k] * BlockSize \in Nat
    BY <2>2, Sizes, NextMultiple
  <2>5. Len(bl) \in Nat /\ Len(bl2) \in Nat /\ Len(bl) <= Len(bl2)
    BY LenProperties DEF Extends
  <2> QED
    BY <2>1, <2>3, <2>4, <2>5
<1>2. \A p \in 1 .. Known(sz, idx) : CellAt(idx, bl2, p) = CellAt(idx, bl, p)
  <2> SUFFICES ASSUME NEW p \in 1 .. Known(sz, idx)
               PROVE  CellAt(idx, bl2, p) = CellAt(idx, bl, p)
    OBVIOUS
  <2>1. PICK k \in 1 .. Len(idx), j \in 1 .. ChunkSize :
          p = (k - 1) * ChunkSize + j /\ j <= LenOf(sz, k)
    BY CellPlace
  <2>2. /\ idx[k] * BlockSize + j \in 1 .. Len(bl)
        /\ CellAt(idx, bl, p) = bl[idx[k] * BlockSize + j]
    BY <2>1, CellInBlob
  <2>3. CellAt(idx, bl2, p) = bl2[idx[k] * BlockSize + j]
    BY <2>1, <1>1, CellInBlob
  <2> QED
    BY <2>2, <2>3 DEF Extends
<1> QED
  BY <1>1, <1>2 DEF ResolvedOf

(* c is the next chunk of a file, and the blob holds it at block a. *)
NextInBlob(sz, idx, bl, c, a) ==
  /\ Backed(sz, idx, bl)
  /\ Len(idx) * ChunkSize < sz
  /\ Len(c) = LenOf(sz, Len(idx) + 1)
  /\ HoldsAt(bl, a, c)

(* Pushing the address of a chunk appends exactly that chunk. *)
LEMMA ResolvedGrows ==
  ASSUME NEW sz \in Nat, NEW idx \in Seq(Nat), NEW bl \in Seq(Nat),
         NEW c \in Seq(Nat), NEW a \in Nat, NextInBlob(sz, idx, bl, c, a)
  PROVE  ResolvedOf(sz, Append(idx, a), bl) = ResolvedOf(sz, idx, bl) \o c
<1> SUFFICES ASSUME Backed(sz, idx, bl),
                    Len(idx) * ChunkSize < sz,
                    Len(c) = LenOf(sz, Len(idx) + 1),
                    HoldsAt(bl, a, c)
             PROVE  ResolvedOf(sz, Append(idx, a), bl)
                      = ResolvedOf(sz, idx, bl) \o c
  BY DEF NextInBlob
<1> DEFINE idx2 == Append(idx, a)
           m == Len(idx) + 1
           R == ResolvedOf(sz, idx, bl)
           R2 == ResolvedOf(sz, idx2, bl)
           u == Len(idx) * ChunkSize
<1>1. /\ idx2 \in Seq(Nat) /\ Len(idx2) = m /\ idx2[m] = a
      /\ \A i \in 1 .. Len(idx) : idx2[i] = idx[i]
  BY AppendProperties
<1>2. Len(idx) \in Nat /\ m \in Nat \ {0} /\ m - 1 = Len(idx) /\ u \in Nat
  <2>1. Len(idx) \in Nat
    BY LenProperties
  <2>2. u \in Nat
    BY KnownFacts
  <2> QED
    BY <2>1, <2>2
<1>3. /\ Len(c) \in 1 .. ChunkSize
      /\ u + Len(c) = MinOf(sz, m * ChunkSize)
  BY <1>2, LenOfFacts
<1> HIDE DEF idx2
<1>4. Backed(sz, idx2, bl)
  <2> SUFFICES ASSUME NEW k \in 1 .. Len(idx2)
               PROVE  /\ (k - 1) * ChunkSize < sz
                      /\ idx2[k] * BlockSize + LenOf(sz, k) <= Len(bl)
    BY DEF Backed
  <2>1. CASE k = m
    <3>1. (k - 1) * ChunkSize < sz
      BY <2>1, <1>2
    <3>2. a * BlockSize + Len(c) <= Len(bl)
      BY DEF HoldsAt
    <3> QED
      BY <3>1, <3>2, <2>1, <1>1
  <2>2. CASE k \in 1 .. Len(idx)
    BY <2>2, <1>1 DEF Backed
  <2> QED
    BY <2>1, <2>2, <1>1, <1>2
<1>50. Known(sz, idx) = u
  <2>1. u <= sz
    BY <1>2
  <2> QED
    BY <2>1, KnownFacts
<1>5. /\ R \in Seq(Nat) /\ Len(R) = u
      /\ \A p \in 1 .. u : R[p] = CellAt(idx, bl, p)
  BY <1>50, ResolvedIsSeq
<1>6. /\ R2 \in Seq(Nat) /\ Len(R2) = u + Len(c)
      /\ \A p \in 1 .. u + Len(c) : R2[p] = CellAt(idx2, bl, p)
  <2>1. Known(sz, idx2) = u + Len(c)
    BY <1>1, <1>3 DEF Known
  <2> QED
    BY <2>1, <1>1, <1>4, ResolvedIsSeq
<1> HIDE DEF R, R2
<1>7. /\ R \o c \in Seq(Nat) /\ Len(R \o c) = u + Len(c)
      /\ \A p \in 1 .. u + Len(c) :
           (R \o c)[p] = IF p <= u THEN R[p] ELSE c[p - u]
  <2> HIDE DEF u
  <2> QED
    BY <1>5, Concatenation
<1>8. \A p \in 1 .. u + Len(c) : R2[p] = (R \o c)[p]
  <2> SUFFICES ASSUME NEW p \in 1 .. u + Len(c)
               PROVE  R2[p] = (R \o c)[p]
    OBVIOUS
  <2>0. p \in Nat /\ u \in Nat
    <3> HIDE DEF u
    <3> QED
      BY <1>2, <1>3, Sizes
  <2>1. CASE p <= u
    <3>1. p \in 1 .. u
      BY <2>1, <1>2, <1>3
    <3>2. p \in 1 .. Known(sz, idx)
      BY <3>1, <1>50
    <3>3. PICK k \in 1 .. Len(idx), j \in 1 .. ChunkSize :
            p = (k - 1) * ChunkSize + j /\ j <= LenOf(sz, k)
      BY <3>2, CellPlace
    <3>4. CellAt(idx, bl, p) = bl[idx[k] * BlockSize + j]
      BY ONLY ZenonT(30), <3>3, Backed(sz, idx, bl), CellInBlob
    <3>5. k \in 1 .. Len(idx2)
      BY <1>1, <1>2
    <3>6. CellAt(idx2, bl, p) = bl[idx2[k] * BlockSize + j]
      BY ONLY ZenonT(30), <3>3, <3>5, <1>1, <1>4, CellInBlob
    <3> QED
      BY <2>1, <3>1, <3>4, <3>6, <1>1, <1>5, <1>6, <1>7
  <2>2. CASE p > u
    <3> DEFINE j == p - u
    <3>1. j \in 1 .. Len(c) /\ p = u + j
      BY <2>2, <1>2, <1>3
    <3>2. j \in 1 .. ChunkSize /\ j <= LenOf(sz, m)
      BY <3>1, <1>3, Sizes
    <3> HIDE DEF j
    <3>3. m \in 1 .. Len(idx2)
      BY <1>1, <1>2
    <3>4. CellAt(idx2, bl, (m - 1) * ChunkSize + j)
            = bl[idx2[m] * BlockSize + j]
      BY ONLY ZenonT(30), <3>2, <3>3, <1>1, <1>4, CellInBlob
    <3>5. (m - 1) * ChunkSize + j = p
      BY <3>1, <1>2
    <3>6. bl[a * BlockSize + j] = c[j]
      BY <3>1 DEF HoldsAt
    <3>7. ~ (p <= u)
      BY <2>2, <1>2, <1>3
    <3>8. c[p - u] = c[j]
      BY DEF j
    <3> QED
      BY <3>4, <3>5, <3>6, <3>7, <3>8, <1>1, <1>6, <1>7
  <2>3. p <= u \/ p > u
    <3> HIDE DEF u
    <3> QED
      BY <2>0
  <2> QED
    BY <2>1, <2>2, <2>3
<1>9. R2 = R \o c
  BY <1>6, <1>7, <1>8, SeqEqual
<1> QED
  BY <1>4, <1>9 DEF R, R2, idx2

-----------------------------------------------------------------------------
(* The inductive invariant.                                                *)

(* Every content in the dedup table is in the blob, at its address. *)
InvDedup ==
  \A c \in DOMAIN dedup :
    c \in Seq(Nat) /\ dedup[c] \in Nat /\ HoldsAt(blob, dedup[c], c)

(* Every index is the address of a content as long as the chunk it is for. *)
InvIndex ==
  \A f \in Files : \A k \in 1 .. Len(indexes[f]) :
    /\ (k - 1) * ChunkSize < size[f]
    /\ \E c \in DOMAIN dedup :
         Len(c) = LenOf(size[f], k) /\ indexes[f][k] = dedup[c]

(* The next address is the end of the blob. *)
InvBlob == phase # "failed" => Len(blob) = nextBlkaddr * BlockSize

(* How far the builder is: files behind it are complete, files ahead of it  *)
(* have no index, the chunk in hand is the next one of the current file.    *)
InvProgress ==
  /\ phase \in {"stat", "read", "mounted"} => chunkBuf = << >>
  /\ phase \in {"read", "place"} => cur \in Files /\ ChunkPos < size[cur]
  /\ phase = "place" =>
       Len(chunkBuf) = LenOf(size[cur], Len(indexes[cur]) + 1)
  /\ \A f \in Files :
       f > cur \/ (f = cur /\ phase = "stat") => indexes[f] = << >>
  /\ \A f \in Files : f < cur => size[f] <= Len(indexes[f]) * ChunkSize

InvMounted == phase = "mounted" => cur = NFiles + 1 /\ mapped <= Len(blob)

(* The cells that a read of n cells at off asks for. *)
Wanted(sz, off, n) == IF off >= sz THEN 0 ELSE MinOf(n, sz - off)

(* The cells of file f. *)
CellsOf(f) == ResolvedOf(size[f], indexes[f], blob)

(* What a read has collected is the part of the file it is about. *)
InvRead ==
  /\ rd.st # "idle" => phase = "mounted"
  /\ rd.st = "busy" =>
       /\ Len(rd.out) + rd.remaining = Wanted(size[rd.file], rd.off, rd.size)
       /\ rd.filePos = rd.off + Len(rd.out)
       /\ \A j \in 1 .. Len(rd.out) :
            rd.out[j] = CellsOf(rd.file)[rd.off + j]

IInv ==
  /\ TypeOK
  /\ InvDedup
  /\ InvIndex
  /\ InvBlob
  /\ InvProgress
  /\ InvMounted
  /\ InvRead

LEMMA TypeFacts ==
  ASSUME TypeOK
  PROVE  /\ blob \in Seq(Nat) /\ chunkBuf \in Seq(Nat)
         /\ cur \in Nat /\ NFiles \in Nat
         /\ \A f \in Files : /\ f \in Nat
                             /\ size[f] \in Nat
                             /\ indexes[f] \in Seq(Nat)
                             /\ Len(indexes[f]) \in Nat
         /\ \A f \in Files : source[f] \in Seq(Nat)
<1>1. NFiles \in Nat /\ cur \in 1 .. NFiles + 1
  BY BlobAssumption DEF TypeOK
<1>2. cur \in Nat /\ \A f \in Files : f \in Nat
  BY <1>1 DEF Files
<1>3. blob \in Seq(Nat) /\ chunkBuf \in Seq(Nat)
  BY DEF TypeOK, IsCells
<1>4. \A f \in Files : size[f] \in Nat /\ indexes[f] \in Seq(Nat)
  BY DEF TypeOK
<1>5. \A f \in Files : Len(indexes[f]) \in Nat
  BY <1>4, LenProperties
<1>6. \A f \in Files : source[f] \in Seq(Nat)
  BY BlobAssumption DEF TypeOK
<1> QED
  BY <1>1, <1>2, <1>3, <1>4, <1>5, <1>6

LEMMA AllBacked ==
  ASSUME TypeOK, InvDedup, InvIndex, NEW f \in Files
  PROVE  Backed(size[f], indexes[f], blob)
<1> SUFFICES ASSUME NEW k \in 1 .. Len(indexes[f])
             PROVE  /\ (k - 1) * ChunkSize < size[f]
                    /\ indexes[f][k] * BlockSize + LenOf(size[f], k)
                         <= Len(blob)
  BY DEF Backed
<1>1. PICK c \in DOMAIN dedup :
        Len(c) = LenOf(size[f], k) /\ indexes[f][k] = dedup[c]
  BY DEF InvIndex
<1>2. dedup[c] * BlockSize + Len(c) <= Len(blob)
  BY DEF InvDedup, HoldsAt
<1> QED
  BY <1>1, <1>2 DEF InvIndex

(* An idle reader has nothing to keep. *)
LEMMA IdleReader ==
  ASSUME InvRead, phase # "mounted", rd' = rd
  PROVE  InvRead'
BY DEF InvRead

LEMMA InitKeeps == Init => IInv
<1> SUFFICES ASSUME Init PROVE IInv
  OBVIOUS
<1> USE DEF Init
<1>1. TypeOK
  <2>1. cur \in 1 .. NFiles + 1 /\ changes \in 0 .. MaxChanges
    BY BlobAssumption
  <2>2. rd \in [st : {"idle", "busy", "ok", "error"}, file : Files, off : Nat,
                size : Nat, filePos : Nat, remaining : Nat, out : Seq(Nat)]
    BY BlobAssumption, EmptySeq DEF NoRead, Files
  <2>3. /\ IsCells(chunkBuf) /\ Len(chunkBuf) <= ChunkSize
        /\ IsCells(blob)
        /\ indexes \in [Files -> Seq(Nat)]
    BY BlobAssumption, EmptySeq DEF IsCells
  <2> QED
    BY <2>1, <2>2, <2>3 DEF TypeOK
<1>2. InvDedup
  BY DEF InvDedup
<1>3. InvIndex
  BY DEF InvIndex
<1>4. InvBlob
  BY Sizes DEF InvBlob
<1>5. InvProgress
  BY DEF InvProgress, Files
<1>6. InvMounted /\ InvRead
  BY DEF InvMounted, InvRead, NoRead
<1> QED
  BY <1>1, <1>2, <1>3, <1>4, <1>5, <1>6 DEF IInv

LEMMA ModifySourceKeeps == IInv /\ ModifySource => IInv'
<1> SUFFICES ASSUME IInv, ModifySource PROVE IInv'
  OBVIOUS
<1> USE DEF ModifySource, bvars
<1>1. TypeOK'
  <2>1. source' \in [Files -> Contents]
    BY DEF IInv, TypeOK
  <2>2. changes' \in 0 .. MaxChanges
    BY BlobAssumption DEF IInv, TypeOK
  <2> QED
    BY <2>1, <2>2 DEF IInv, TypeOK
<1>2. InvDedup' /\ InvIndex' /\ InvBlob'
  BY DEF IInv, InvDedup, InvIndex, InvBlob
<1>3. InvProgress' /\ InvMounted'
  BY DEF IInv, InvProgress, InvMounted, ChunkPos
<1>4. InvRead'
  BY IdleReader DEF IInv
<1> QED
  BY <1>1, <1>2, <1>3, <1>4 DEF IInv

LEMMA StatFileKeeps == IInv /\ StatFile => IInv'
<1> SUFFICES ASSUME IInv, StatFile PROVE IInv'
  OBVIOUS
<1> USE DEF StatFile
<1>0. cur \in Files /\ indexes[cur] = << >> /\ chunkBuf = << >>
  BY DEF IInv, TypeOK, Files, InvProgress
<1>1. /\ size' \in [Files -> Nat] /\ size'[cur] = Len(source[cur])
      /\ \A f \in Files : f # cur => size'[f] = size[f]
  BY <1>0, TypeFacts, LenProperties DEF IInv, TypeOK
<1>2. cur' \in 1 .. NFiles + 1
  <2>1. cur' = cur \/ cur' = cur + 1
    OBVIOUS
  <2>2. cur \in 1 .. NFiles /\ NFiles \in Nat
    BY <1>0, BlobAssumption DEF Files
  <2> HIDE DEF StatFile
  <2> QED
    BY <2>1, <2>2
<1>3. TypeOK'
  <2>1. phase' \in {"stat", "read", "place", "mounted", "failed"}
    OBVIOUS
  <2>2. UNCHANGED <<source, changes, indexes, chunkBuf, blob, nextBlkaddr,
                    dedup, savedByDedup, mapped, rd>>
    OBVIOUS
  <2> HIDE DEF StatFile
  <2> QED
    BY <1>1, <1>2, <2>1, <2>2 DEF IInv, TypeOK
<1>4. InvDedup' /\ InvBlob'
  BY DEF IInv, InvDedup, InvBlob
<1>5. InvIndex'
  BY <1>0, <1>1 DEF IInv, InvIndex
<1>6. InvProgress'
  <2>1. Len(indexes[cur]) * ChunkSize = 0
    BY <1>0, Sizes
  <2>2. phase' \in {"read", "place"} =>
          cur' \in Files /\ ChunkPos' < size'[cur']
    BY <1>0, <1>1, <2>1, TypeFacts, LenProperties DEF IInv, ChunkPos
  <2>3. \A f \in Files :
          f > cur' \/ (f = cur' /\ phase' = "stat") => indexes'[f] = << >>
    BY <1>0, TypeFacts DEF IInv, InvProgress, Files
  <2>4. \A f \in Files : f < cur' => size'[f] <= Len(indexes'[f]) * ChunkSize
    BY SMTT(30), <1>0, <1>1, <2>1, TypeFacts DEF IInv, InvProgress, Files
  <2> QED
    BY <1>0, <2>2, <2>3, <2>4 DEF InvProgress
<1>7. InvMounted' /\ InvRead'
  BY IdleReader DEF IInv, InvMounted
<1> QED
  BY <1>3, <1>4, <1>5, <1>6, <1>7 DEF IInv

(* The number of cells read is the length of the next chunk. *)
LEMMA NextChunk ==
  ASSUME IInv, cur \in Files, ChunkPos < size[cur]
  PROVE  /\ ToRead = LenOf(size[cur], Len(indexes[cur]) + 1)
         /\ ToRead \in 1 .. ChunkSize
         /\ ChunkPos \in Nat
         /\ Known(size[cur], indexes[cur]) = ChunkPos
<1> DEFINE n == Len(indexes[cur])
           sz == size[cur]
<1>1. n \in Nat /\ sz \in Nat /\ indexes[cur] \in Seq(Nat)
  BY TypeFacts DEF IInv
<1>2. ChunkPos = n * ChunkSize
  BY DEF ChunkPos
<1>3. ToRead = MinOf(sz - n * ChunkSize, ChunkSize)
  BY <1>2 DEF ToRead
<1> HIDE DEF n, sz
<1>4. n + 1 \in Nat \ {0} /\ (n + 1) - 1 = n
  BY <1>1
<1>5. ToRead = LenOf(sz, n + 1)
  BY <1>3, <1>4 DEF LenOf
<1>6. LenOf(sz, n + 1) \in 1 .. ChunkSize
  BY <1>1, <1>2, <1>4, LenOfFacts DEF sz
<1>7. ChunkPos \in Nat
  BY <1>1, <1>2, Sizes, NextMultiple
<1>8. Known(sz, indexes[cur]) = ChunkPos
  BY <1>1, <1>2, <1>7, KnownFacts DEF n, sz
<1> QED
  BY <1>5, <1>6, <1>7, <1>8 DEF n, sz

(* What read_exact puts into the buffer. *)
LEMMA ChunkRead ==
  ASSUME IInv, ReadChunk, ChunkPos + ToRead <= Len(source[cur])
  PROVE  /\ chunkBuf' \in Seq(Nat)
         /\ Len(chunkBuf') = ToRead
<1>1. cur \in Files /\ ChunkPos < size[cur]
  BY DEF IInv, InvProgress, ReadChunk
<1>2. ToRead \in 1 .. ChunkSize /\ ChunkPos \in Nat
  BY <1>1, NextChunk
<1>3. source[cur] \in Seq(Nat)
  BY <1>1, TypeFacts DEF IInv
<1>4. ToRead \in Nat
  BY <1>2, Sizes
<1>6. IsPiece(SubSeq(source[cur], ChunkPos + 1, ChunkPos + ToRead),
              source[cur], ChunkPos, ToRead)
  BY <1>2, <1>3, <1>4, SubSeqIsPiece
<1>7. chunkBuf' = SubSeq(source[cur], ChunkPos + 1, ChunkPos + ToRead)
  BY DEF ReadChunk
<1> QED
  BY <1>6, <1>7 DEF IsPiece

LEMMA ReadChunkKeeps == IInv /\ ReadChunk => IInv'
<1> SUFFICES ASSUME IInv, ReadChunk PROVE IInv'
  OBVIOUS
<1>0. /\ phase = "read" /\ cur \in Files /\ ChunkPos < size[cur]
      /\ chunkBuf = << >>
  BY DEF IInv, InvProgress, ReadChunk
<1>1. /\ chunkBuf' \in Seq(Nat) /\ Len(chunkBuf') <= ChunkSize
      /\ phase' = "place" =>
           Len(chunkBuf') = LenOf(size[cur], Len(indexes[cur]) + 1)
  <2>1. CASE ChunkPos + ToRead <= Len(source[cur])
    BY <1>0, <2>1, ChunkRead, NextChunk, Sizes
  <2>2. CASE ~ (ChunkPos + ToRead <= Len(source[cur]))
    BY <1>0, <2>2, EmptySeq, Sizes DEF ReadChunk
  <2> QED
    BY <2>1, <2>2
<1> USE DEF ReadChunk
<1>2. TypeOK'
  BY <1>1 DEF IInv, TypeOK, IsCells
<1>3. InvDedup' /\ InvIndex' /\ InvBlob'
  BY <1>0 DEF IInv, InvDedup, InvIndex, InvBlob
<1>4. InvProgress'
  BY <1>0, <1>1 DEF IInv, InvProgress, ChunkPos
<1>5. InvMounted' /\ InvRead'
  BY <1>0, IdleReader DEF IInv, InvMounted
<1> QED
  BY <1>2, <1>3, <1>4, <1>5 DEF IInv

(* What PushIndex does with the builder's place. *)
LEMMA PushMoves ==
  ASSUME IInv, phase = "place", NEW a \in Nat, PushIndex(a), UNCHANGED size
  PROVE  /\ cur \in Files
         /\ indexes' \in [Files -> Seq(Nat)]
         /\ indexes'[cur] = Append(indexes[cur], a)
         /\ \A f \in Files : f # cur => indexes'[f] = indexes[f]
         /\ cur' \in 1 .. NFiles + 1
         /\ cur' \in {cur, cur + 1}
         /\ phase' \in {"stat", "read"}
         /\ chunkBuf' = << >>
         /\ InvProgress'
<1> DEFINE n == Len(indexes[cur])
           sz == size[cur]
           last == n + 1 = DivCeil(sz, ChunkSize)
<1>1. cur \in Files /\ n * ChunkSize < sz
  BY DEF IInv, InvProgress, ChunkPos
<1>2. n \in Nat /\ sz \in Nat /\ indexes[cur] \in Seq(Nat)
  BY <1>1, TypeFacts DEF IInv
<1>3. /\ indexes' = [indexes EXCEPT ![cur] = Append(@, a)]
      /\ chunkBuf' = << >>
      /\ cur' = IF last THEN cur + 1 ELSE cur
      /\ phase' = IF last THEN "stat" ELSE "read"
  BY DEF PushIndex
<1>4. DivCeil(sz, ChunkSize) \in Nat /\ n < DivCeil(sz, ChunkSize)
  BY <1>1, <1>2, Sizes, DivCeilCounts
<1>5. n + 1 \in Nat /\ (n + 1) * ChunkSize \in Nat
  BY <1>2, Sizes, NextMultiple
<1>6. last => sz <= (n + 1) * ChunkSize
  <2>1. last => ~ (n + 1 < DivCeil(sz, ChunkSize))
    BY <1>4, <1>5
  <2>2. last => ~ ((n + 1) * ChunkSize < sz)
    BY <2>1, <1>2, <1>5, Sizes, DivCeilCounts
  <2> QED
    BY <2>2, <1>2, <1>5
<1>7. ~ last => (n + 1) * ChunkSize < sz
  <2>1. ~ last => n + 1 < DivCeil(sz, ChunkSize)
    BY <1>2, <1>4
  <2> QED
    BY <2>1, <1>2, <1>5, Sizes, DivCeilCounts
<1> HIDE DEF n, sz, last
<1>8. indexes \in [Files -> Seq(Nat)]
  BY DEF IInv, TypeOK
<1>9. /\ Append(indexes[cur], a) \in Seq(Nat)
      /\ Len(Append(indexes[cur], a)) = n + 1
  BY <1>2, AppendProperties DEF n
<1>10. /\ indexes' \in [Files -> Seq(Nat)]
       /\ indexes'[cur] = Append(indexes[cur], a)
       /\ \A f \in Files : f # cur => indexes'[f] = indexes[f]
  BY <1>1, <1>3, <1>8, <1>9
<1>11. cur \in Nat /\ NFiles \in Nat /\ cur <= NFiles /\ cur >= 1
  BY <1>1, TypeFacts DEF IInv, Files
<1>12. cur' \in 1 .. NFiles + 1 /\ cur' \in {cur, cur + 1}
  BY <1>3, <1>11
<1>13. InvProgress'
  <2>1. phase' \in {"read", "place"} =>
          cur' \in Files /\ ChunkPos' < size'[cur']
    <3> SUFFICES ASSUME ~ last
                 PROVE  cur' \in Files /\ ChunkPos' < size'[cur']
      BY <1>3
    <3>1. cur' = cur /\ Len(indexes'[cur]) = n + 1
      BY <1>3, <1>9, <1>10
    <3>2. ChunkPos' = (n + 1) * ChunkSize
      BY <3>1 DEF ChunkPos
    <3> QED
      BY <3>1, <3>2, <1>1, <1>7 DEF sz
  <2>2. phase' # "place"
    BY <1>3
  <2>3. ASSUME NEW f \in Files, f > cur' \/ (f = cur' /\ phase' = "stat")
        PROVE  indexes'[f] = << >>
    <3>1. f \in Nat /\ f > cur
      BY <2>3, <1>3, <1>11 DEF Files
    <3>2. indexes[f] = << >> /\ f # cur
      BY <3>1, <1>11 DEF IInv, InvProgress
    <3> QED
      BY <3>2, <1>10
  <2>4. ASSUME NEW f \in Files, f < cur'
        PROVE  size'[f] <= Len(indexes'[f]) * ChunkSize
    <3>1. CASE f = cur
      <4>1. last
        BY <2>4, <3>1, <1>3, <1>11
      <4> QED
        BY <4>1, <3>1, <1>6, <1>9, <1>10 DEF sz
    <3>2. CASE f # cur
      <4>1. f < cur
        BY <2>4, <3>2, <1>3, <1>11 DEF Files
      <4> QED
        BY <4>1, <3>2, <1>10 DEF IInv, InvProgress
    <3> QED
      BY <3>1, <3>2
  <2> QED
    BY <1>3, <2>1, <2>2, <2>3, <2>4 DEF InvProgress
<1> QED
  BY <1>1, <1>3, <1>10, <1>12, <1>13

(* The index pushed is one more index with a content behind it. *)
LEMMA PushIndexed ==
  ASSUME IInv, phase = "place", NEW a \in Nat, PushIndex(a), UNCHANGED size,
         \A c \in DOMAIN dedup : c \in DOMAIN dedup' /\ dedup'[c] = dedup[c],
         chunkBuf \in DOMAIN dedup', dedup'[chunkBuf] = a
  PROVE  InvIndex'
<1> SUFFICES ASSUME NEW f \in Files, NEW k \in 1 .. Len(indexes'[f])
             PROVE  /\ (k - 1) * ChunkSize < size[f]
                    /\ \E c \in DOMAIN dedup' :
                         /\ Len(c) = LenOf(size[f], k)
                         /\ indexes'[f][k] = dedup'[c]
  BY DEF InvIndex
<1>1. /\ cur \in Files
      /\ indexes'[cur] = Append(indexes[cur], a)
      /\ \A g \in Files : g # cur => indexes'[g] = indexes[g]
  BY PushMoves
<1>2. indexes[f] \in Seq(Nat) /\ Len(indexes[f]) \in Nat
  BY TypeFacts DEF IInv
<1>3. CASE k \in 1 .. Len(indexes[f])
  <2>1. indexes'[f][k] = indexes[f][k]
    <3>1. CASE f = cur
      <4>1. Append(indexes[f], a)[k] = indexes[f][k]
        BY <1>2, <1>3, AppendProperties
      <4> QED
        BY <4>1, <3>1, <1>1
    <3>2. CASE f # cur
      BY <3>2, <1>1
    <3> QED
      BY <3>1, <3>2
  <2> QED
    BY <1>3, <2>1 DEF IInv, InvIndex
<1>4. CASE k \notin 1 .. Len(indexes[f])
  <2>1. f = cur /\ k = Len(indexes[f]) + 1 /\ indexes'[f][k] = a
    <3>1. f = cur
      BY <1>1, <1>4
    <3>2. /\ Len(Append(indexes[f], a)) = Len(indexes[f]) + 1
          /\ Append(indexes[f], a)[Len(indexes[f]) + 1] = a
      BY <1>2, AppendProperties
    <3>3. k \in 1 .. Len(indexes[f]) + 1
      BY <3>1, <3>2, <1>1
    <3>4. k = Len(indexes[f]) + 1
      BY <3>3, <1>2, <1>4
    <3> QED
      BY <3>1, <3>2, <3>4, <1>1
  <2>2. /\ Len(indexes[cur]) * ChunkSize < size[cur]
        /\ Len(chunkBuf) = LenOf(size[cur], Len(indexes[cur]) + 1)
    BY DEF IInv, InvProgress, ChunkPos
  <2>3. k - 1 = Len(indexes[f])
    BY <2>1, <1>2
  <2> QED
    BY <2>1, <2>2, <2>3
<1> QED
  BY <1>3, <1>4

LEMMA ReuseChunkKeeps == IInv /\ ReuseChunk => IInv'
<1> SUFFICES ASSUME IInv, ReuseChunk PROVE IInv'
  OBVIOUS
<1> DEFINE a == dedup[chunkBuf]
<1>0. /\ phase = "place" /\ chunkBuf \in DOMAIN dedup
      /\ PushIndex(a)
      /\ savedByDedup' = savedByDedup + Saved(Len(chunkBuf))
      /\ UNCHANGED <<source, changes, size, blob, nextBlkaddr, dedup, mapped,
                     rd>>
  BY DEF ReuseChunk, Hash
<1>1. a \in Nat
  BY <1>0 DEF IInv, InvDedup
<1> HIDE DEF a
<1>2. /\ cur \in Files
      /\ indexes' \in [Files -> Seq(Nat)]
      /\ cur' \in 1 .. NFiles + 1
      /\ phase' \in {"stat", "read"}
      /\ chunkBuf' = << >>
      /\ InvProgress'
  BY <1>0, <1>1, PushMoves
<1>3. InvIndex'
  BY <1>0, <1>1, PushIndexed DEF a
<1>4. savedByDedup' \in Nat
  <2>1. Len(chunkBuf) \in Nat
    BY TypeFacts, LenProperties DEF IInv
  <2>2. DivCeil(Len(chunkBuf), BlockSize) \in Nat
    BY <2>1, Sizes, DivCeilCounts
  <2>3. Saved(Len(chunkBuf)) \in Nat
    BY <2>2, Sizes, NextMultiple DEF Saved, WriteLen, NBlocks
  <2> QED
    <3>1. savedByDedup \in Nat
      BY DEF IInv, TypeOK
    <3> QED
      BY ONLY <3>1, <1>0, <2>3
<1>5. TypeOK'
  <2>1. IsCells(chunkBuf') /\ Len(chunkBuf') <= ChunkSize
    BY <1>2, EmptySeq, Sizes DEF IsCells
  <2>2. phase' \in {"stat", "read", "place", "mounted", "failed"}
    BY <1>2
  <2> QED
    BY <1>0, <1>2, <1>4, <2>1, <2>2 DEF IInv, TypeOK
<1>6. InvDedup'
  BY <1>0 DEF IInv, InvDedup
<1>7. InvBlob' /\ InvMounted' /\ InvRead'
  BY <1>0, <1>2, IdleReader DEF IInv, InvBlob, InvMounted
<1> QED
  BY <1>2, <1>3, <1>5, <1>6, <1>7 DEF IInv

AppendedTo(bl, c) == bl \o c \o Padding(Len(c))

(* A chunk and its padding are appended: the blob before it stays, and the  *)
(* chunk is where the next address pointed.                                *)
LEMMA ChunkAppended ==
  ASSUME NEW bl \in Seq(Nat), NEW c \in Seq(Nat), NEW a \in Nat,
         Len(bl) = a * BlockSize
  PROVE  /\ AppendedTo(bl, c) \in Seq(Nat)
         /\ Extends(bl, AppendedTo(bl, c))
         /\ HoldsAt(AppendedTo(bl, c), a, c)
         /\ Len(AppendedTo(bl, c)) = (a + NBlocks(Len(c))) * BlockSize
<1> DEFINE bl2 == AppendedTo(bl, c)
           n == Len(c)
           u == Len(bl)
           w == WriteLen(n)
           pad == Padding(n)
<1>1. n \in Nat /\ u \in Nat
  BY LenProperties
<1>2. NBlocks(n) \in Nat /\ w = NBlocks(n) * BlockSize /\ w \in Nat /\ n <= w
  <2>1. NBlocks(n) \in Nat
        /\ (NBlocks(n) < NBlocks(n) <=> NBlocks(n) * BlockSize < n)
    BY <1>1, Sizes, DivCeilCounts DEF NBlocks
  <2> DEFINE v == NBlocks(n) * BlockSize
  <2>2. v \in Nat
    BY <2>1, Sizes, NextMultiple
  <2>3. ~ (v < n)
    BY <2>1
  <2>4. w = v
    BY DEF WriteLen
  <2> HIDE DEF v, w, n
  <2>5. n <= v
    BY <2>2, <2>3, <1>1
  <2> QED
    BY <2>1, <2>2, <2>4, <2>5 DEF v
<1>3. pad \in Seq(Nat) /\ Len(pad) = w - n
  <2> DEFINE k == w - n
  <2>1. k \in Nat
    <3> HIDE DEF w, n
    <3> QED
      BY <1>1, <1>2
  <2>2. pad = [i \in 1 .. k |-> 0]
    BY DEF Padding
  <2> HIDE DEF k, pad
  <2>3. pad \in [1 .. k -> Nat]
    BY <2>2
  <2>4. pad \in Seq(Nat) /\ Len(pad) = k
    BY <2>1, <2>3
  <2> QED
    BY <2>4 DEF k
<1> HIDE DEF pad, w
<1>4. /\ bl \o c \in Seq(Nat) /\ Len(bl \o c) = u + n
      /\ \A i \in 1 .. u + n : (bl \o c)[i] = IF i <= u THEN bl[i] ELSE c[i - u]
  BY Concatenation
<1>5. /\ bl2 \in Seq(Nat) /\ Len(bl2) = u + n + (w - n)
      /\ \A i \in 1 .. u + n + (w - n) :
           bl2[i] = IF i <= u + n THEN (bl \o c)[i] ELSE pad[i - (u + n)]
  <2> DEFINE h == bl \o c
  <2>1. bl2 = h \o pad
    BY DEF pad, AppendedTo
  <2> HIDE DEF h
  <2>2. h \in Seq(Nat) /\ Len(h) = u + n /\ pad \in Seq(Nat)
    BY <1>3, <1>4 DEF h
  <2>3. /\ h \o pad \in Seq(Nat) /\ Len(h \o pad) = Len(h) + Len(pad)
        /\ \A i \in 1 .. Len(h) + Len(pad) :
             (h \o pad)[i] = IF i <= Len(h) THEN h[i] ELSE pad[i - Len(h)]
    BY ONLY <2>2, Concatenation
  <2>4. Len(pad) = w - n
    BY <1>3
  <2> QED
    BY ONLY <2>1, <2>2, <2>3, <2>4 DEF h
<1> HIDE DEF n, u, bl2
<1>60. w \in Nat /\ n <= w
  BY <1>2
<1>61. u + n + (w - n) = u + w
  BY ONLY <1>1, <1>60
<1>6. Len(bl2) = u + w
  BY <1>5, <1>61
<1>7. \A i \in 1 .. u : bl2[i] = bl[i]
  <2> SUFFICES ASSUME NEW i \in 1 .. u PROVE bl2[i] = bl[i]
    OBVIOUS
  <2>1. /\ i \in 1 .. u + n /\ i \in 1 .. u + n + (w - n)
        /\ i <= u /\ i <= u + n
    BY ONLY <1>1, <1>60, i \in 1 .. u
  <2> QED
    BY <2>1, <1>4, <1>5
<1>8. \A j \in 1 .. n : bl2[u + j] = c[j]
  <2> SUFFICES ASSUME NEW j \in 1 .. n PROVE bl2[u + j] = c[j]
    OBVIOUS
  <2>1. /\ u + j \in 1 .. u + n /\ u + j \in 1 .. u + n + (w - n)
        /\ ~ (u + j <= u) /\ (u + j) - u = j /\ u + j <= u + n
    BY <1>1, <1>2
  <2> QED
    BY <2>1, <1>4, <1>5
<1>9. Extends(bl, bl2)
  BY <1>1, <1>2, <1>6, <1>7 DEF Extends, u
<1>10. HoldsAt(bl2, a, c)
  <2>1. u = a * BlockSize
    BY DEF u
  <2>2. u + n <= Len(bl2)
    BY <1>1, <1>2, <1>6
  <2> QED
    BY <2>1, <2>2, <1>8 DEF HoldsAt, n
<1>11. Len(bl2) = (a + NBlocks(n)) * BlockSize
  <2>1. (a + NBlocks(n)) * BlockSize = a * BlockSize + NBlocks(n) * BlockSize
    BY <1>2, Sizes
  <2> QED
    BY <2>1, <1>2, <1>6 DEF u
<1> QED
  BY <1>5, <1>9, <1>10, <1>11 DEF n, bl2

(* What the blob holds it still holds when it has grown. *)
LEMMA HeldStays ==
  ASSUME NEW bl \in Seq(Nat), NEW bl2 \in Seq(Nat), Extends(bl, bl2),
         NEW a \in Nat, NEW c \in Seq(Nat), HoldsAt(bl, a, c)
  PROVE  HoldsAt(bl2, a, c)
<1> DEFINE u == a * BlockSize
<1>1. u \in Nat /\ Len(c) \in Nat /\ Len(bl) \in Nat /\ Len(bl2) \in Nat
  BY Sizes, NextMultiple, LenProperties
<1>2. u + Len(c) <= Len(bl) /\ \A j \in 1 .. Len(c) : bl[u + j] = c[j]
  BY DEF HoldsAt
<1> HIDE DEF u
<1>3. u + Len(c) <= Len(bl2)
  BY <1>1, <1>2 DEF Extends
<1>4. \A j \in 1 .. Len(c) : bl2[u + j] = c[j]
  <2> SUFFICES ASSUME NEW j \in 1 .. Len(c) PROVE bl2[u + j] = c[j]
    OBVIOUS
  <2>1. u + j \in 1 .. Len(bl)
    BY <1>1, <1>2
  <2> QED
    BY <2>1, <1>2 DEF Extends
<1> QED
  BY <1>3, <1>4 DEF HoldsAt, u

LEMMA DedupStays ==
  ASSUME IInv, blob' \in Seq(Nat), Extends(blob, blob'), UNCHANGED dedup
  PROVE  InvDedup'
BY HeldStays, TypeFacts DEF IInv, InvDedup

(* What WriteChunk leaves behind. *)
LEMMA ChunkWritten ==
  ASSUME IInv, WriteChunk
  PROVE  /\ blob' \in Seq(Nat)
         /\ Extends(blob, blob')
         /\ HoldsAt(blob', nextBlkaddr, chunkBuf)
         /\ Len(blob') = nextBlkaddr' * BlockSize
         /\ nextBlkaddr \in Nat /\ nextBlkaddr' \in Nat
         /\ \A c \in DOMAIN dedup : c \in DOMAIN dedup' /\ dedup'[c] = dedup[c]
         /\ DOMAIN dedup' = DOMAIN dedup \cup {chunkBuf}
         /\ dedup'[chunkBuf] = nextBlkaddr
<1>1. /\ blob \in Seq(Nat) /\ chunkBuf \in Seq(Nat) /\ nextBlkaddr \in Nat
      /\ Len(blob) = nextBlkaddr * BlockSize
  BY TypeFacts DEF IInv, TypeOK, InvBlob, WriteChunk
<1>2. /\ blob' = blob \o chunkBuf \o Padding(Len(chunkBuf))
      /\ nextBlkaddr' = nextBlkaddr + NBlocks(Len(chunkBuf))
      /\ chunkBuf \notin DOMAIN dedup
      /\ dedup' = [c \in DOMAIN dedup \cup {chunkBuf} |->
                     IF c = chunkBuf THEN nextBlkaddr ELSE dedup[c]]
  BY DEF WriteChunk, Hash, Inserted
<1>3. /\ blob' \in Seq(Nat)
      /\ Extends(blob, blob')
      /\ HoldsAt(blob', nextBlkaddr, chunkBuf)
      /\ Len(blob') = nextBlkaddr' * BlockSize
  <2>1. blob' = AppendedTo(blob, chunkBuf)
    BY <1>2 DEF AppendedTo
  <2>2. /\ AppendedTo(blob, chunkBuf) \in Seq(Nat)
        /\ Extends(blob, AppendedTo(blob, chunkBuf))
        /\ HoldsAt(AppendedTo(blob, chunkBuf), nextBlkaddr, chunkBuf)
        /\ Len(AppendedTo(blob, chunkBuf))
             = (nextBlkaddr + NBlocks(Len(chunkBuf))) * BlockSize
    BY ONLY <1>1, ChunkAppended
  <2> QED
    BY <2>1, <2>2, <1>2
<1>4. nextBlkaddr' \in Nat
  <2>1. Len(chunkBuf) \in Nat
    BY <1>1, LenProperties
  <2>2. NBlocks(Len(chunkBuf)) \in Nat
    BY <2>1, Sizes, DivCeilCounts DEF NBlocks
  <2> QED
    BY <1>1, <1>2, <2>2
<1>5. \A c \in DOMAIN dedup : c \in DOMAIN dedup' /\ dedup'[c] = dedup[c]
  BY <1>2
<1> QED
  BY <1>1, <1>2, <1>3, <1>4, <1>5

LEMMA WriteChunkKeeps == IInv /\ WriteChunk => IInv'
<1> SUFFICES ASSUME IInv, WriteChunk PROVE IInv'
  OBVIOUS
<1>0. /\ phase = "place"
      /\ PushIndex(nextBlkaddr)
      /\ UNCHANGED <<source, changes, size, savedByDedup, mapped, rd>>
  BY DEF WriteChunk
<1>1. /\ blob' \in Seq(Nat)
      /\ Extends(blob, blob')
      /\ HoldsAt(blob', nextBlkaddr, chunkBuf)
      /\ Len(blob') = nextBlkaddr' * BlockSize
      /\ nextBlkaddr \in Nat /\ nextBlkaddr' \in Nat
      /\ \A c \in DOMAIN dedup : c \in DOMAIN dedup' /\ dedup'[c] = dedup[c]
      /\ DOMAIN dedup' = DOMAIN dedup \cup {chunkBuf}
      /\ dedup'[chunkBuf] = nextBlkaddr
  BY ChunkWritten
<1>2. /\ cur \in Files
      /\ indexes' \in [Files -> Seq(Nat)]
      /\ cur' \in 1 .. NFiles + 1
      /\ phase' \in {"stat", "read"}
      /\ chunkBuf' = << >>
      /\ InvProgress'
  BY <1>0, <1>1, PushMoves
<1>3. InvIndex'
  BY <1>0, <1>1, PushIndexed
<1>4. InvDedup'
  <2> SUFFICES ASSUME NEW c \in DOMAIN dedup'
               PROVE  /\ c \in Seq(Nat) /\ dedup'[c] \in Nat
                      /\ HoldsAt(blob', dedup'[c], c)
    BY DEF InvDedup
  <2>1. CASE c = chunkBuf
    BY <2>1, <1>1, TypeFacts DEF IInv
  <2>2. CASE c \in DOMAIN dedup
    <3>1. c \in Seq(Nat) /\ dedup[c] \in Nat /\ HoldsAt(blob, dedup[c], c)
      BY <2>2 DEF IInv, InvDedup
    <3> QED
      BY <3>1, <2>2, <1>1, HeldStays, TypeFacts DEF IInv
  <2> QED
    BY <2>1, <2>2, <1>1
<1>5. TypeOK'
  <2>1. IsCells(chunkBuf') /\ Len(chunkBuf') <= ChunkSize /\ IsCells(blob')
    BY <1>1, <1>2, EmptySeq, Sizes DEF IsCells
  <2>2. phase' \in {"stat", "read", "place", "mounted", "failed"}
    BY <1>2
  <2>3. \A c \in DOMAIN dedup' : IsCells(c) /\ dedup'[c] \in Nat
    BY <1>4 DEF InvDedup, IsCells
  <2> QED
    BY <1>0, <1>1, <1>2, <2>1, <2>2, <2>3 DEF IInv, TypeOK
<1>6. InvBlob' /\ InvMounted' /\ InvRead'
  BY <1>0, <1>1, <1>2, IdleReader DEF IInv, InvBlob, InvMounted
<1> QED
  BY <1>2, <1>3, <1>4, <1>5, <1>6 DEF IInv

(* A write that fails leaves a part of what it was to append. *)
LEMMA PartAppended ==
  ASSUME IInv, WriteChunkFails
  PROVE  blob' \in Seq(Nat) /\ Extends(blob, blob')
<1> DEFINE pad == Padding(Len(chunkBuf))
           all == chunkBuf \o pad
<1>1. PICK n \in 0 .. WriteLen(Len(chunkBuf)) - 1 :
        blob' = blob \o SubSeq(all, 1, n)
  BY DEF WriteChunkFails
<1>2. blob \in Seq(Nat) /\ chunkBuf \in Seq(Nat)
  BY TypeFacts DEF IInv
<1>3. Len(chunkBuf) \in Nat /\ WriteLen(Len(chunkBuf)) \in Nat
      /\ Len(chunkBuf) <= WriteLen(Len(chunkBuf))
  <2> DEFINE k == Len(chunkBuf)
             v == NBlocks(k) * BlockSize
  <2>1. k \in Nat
    BY <1>2, LenProperties
  <2>2. /\ NBlocks(k) \in Nat
        /\ (NBlocks(k) < NBlocks(k) <=> NBlocks(k) * BlockSize < k)
    BY <2>1, Sizes, DivCeilCounts DEF NBlocks
  <2>3. v \in Nat /\ ~ (v < k)
    BY <2>2, Sizes, NextMultiple
  <2>4. WriteLen(k) = v
    BY DEF WriteLen
  <2> HIDE DEF k, v
  <2>5. k <= v
    BY <2>1, <2>3
  <2> QED
    BY <2>1, <2>3, <2>4, <2>5 DEF k
<1>4. pad \in Seq(Nat) /\ Len(pad) = WriteLen(Len(chunkBuf)) - Len(chunkBuf)
  <2> DEFINE k == WriteLen(Len(chunkBuf)) - Len(chunkBuf)
  <2>1. k \in Nat
    BY <1>3
  <2>2. pad = [i \in 1 .. k |-> 0]
    BY DEF Padding
  <2> HIDE DEF k, pad
  <2>3. pad \in [1 .. k -> Nat]
    BY <2>2
  <2>4. pad \in Seq(Nat) /\ Len(pad) = k
    BY <2>1, <2>3
  <2> QED
    BY <2>4 DEF k
<1> HIDE DEF pad
<1>5. all \in Seq(Nat) /\ Len(all) = WriteLen(Len(chunkBuf))
  <2>1. all \in Seq(Nat) /\ Len(all) = Len(chunkBuf) + Len(pad)
    BY <1>2, <1>4, Concatenation
  <2> HIDE DEF all
  <2> QED
    BY <2>1, <1>3, <1>4
<1> HIDE DEF all
<1>6. SubSeq(all, 1, n) \in Seq(Nat)
  <2>1. \A i \in 1 .. n : all[i] \in Nat
    BY <1>3, <1>5, ElementOfSeq
  <2>2. n \in Int
    BY <1>3
  <2> QED
    BY <2>1, <2>2, SubSeqProperties
<1> DEFINE part == SubSeq(all, 1, n)
<1> HIDE DEF part
<1>7. part \in Seq(Nat) /\ blob' = blob \o part
  BY <1>1, <1>6 DEF part
<1>8. blob \o part \in Seq(Nat) /\ Extends(blob, blob \o part)
  BY <1>2, <1>7, AppendedExtends
<1> QED
  BY <1>7, <1>8

LEMMA WriteChunkFailsKeeps == IInv /\ WriteChunkFails => IInv'
<1> SUFFICES ASSUME IInv, WriteChunkFails PROVE IInv'
  OBVIOUS
<1>0. /\ phase = "place" /\ phase' = "failed"
      /\ UNCHANGED <<source, changes, cur, size, indexes, chunkBuf,
                     nextBlkaddr, dedup, savedByDedup, mapped, rd>>
  BY DEF WriteChunkFails
<1>1. blob' \in Seq(Nat) /\ Extends(blob, blob')
  BY PartAppended
<1>2. TypeOK'
  BY <1>0, <1>1 DEF IInv, TypeOK, IsCells
<1>3. InvDedup' /\ InvIndex'
  BY <1>0, <1>1, DedupStays DEF IInv, InvIndex
<1>4. InvBlob' /\ InvProgress' /\ InvMounted'
  BY <1>0 DEF IInv, InvBlob, InvProgress, InvMounted
<1>5. InvRead'
  BY <1>0, IdleReader DEF IInv
<1> QED
  BY <1>2, <1>3, <1>4, <1>5 DEF IInv

LEMMA MountKeeps == IInv /\ Mount => IInv'
<1> SUFFICES ASSUME IInv, Mount PROVE IInv'
  OBVIOUS
<1>0. /\ phase = "stat" /\ phase' = "mounted" /\ cur > NFiles
      /\ mapped' \in 0 .. Len(blob)
      /\ UNCHANGED <<source, changes, cur, size, indexes, chunkBuf, blob,
                     nextBlkaddr, dedup, savedByDedup, rd>>
  BY DEF Mount, bvars
<1>1. Len(blob) \in Nat /\ cur = NFiles + 1
  <2>1. blob \in Seq(Nat) /\ cur \in 1 .. NFiles + 1 /\ NFiles \in Nat
    BY TypeFacts DEF IInv, TypeOK
  <2> QED
    BY ONLY <1>0, <2>1, LenProperties
<1>2. TypeOK'
  BY <1>0, <1>1 DEF IInv, TypeOK
<1>3. InvDedup' /\ InvIndex' /\ InvBlob'
  BY <1>0 DEF IInv, InvDedup, InvIndex, InvBlob
<1>4. InvProgress'
  BY <1>0 DEF IInv, InvProgress
<1>5. InvMounted'
  BY <1>0, <1>1 DEF InvMounted
<1>6. InvRead'
  BY <1>0, IdleReader DEF IInv
<1> QED
  BY <1>2, <1>3, <1>4, <1>5, <1>6 DEF IInv

(* A step of the reader leaves everything but its call alone. *)
LEMMA ReaderStep ==
  ASSUME IInv, UNCHANGED <<source, changes, phase, bvars, mapped>>,
         rd' \in [st : {"idle", "busy", "ok", "error"}, file : Files, off : Nat,
                  size : Nat, filePos : Nat, remaining : Nat, out : Seq(Nat)],
         InvRead'
  PROVE  IInv'
<1> USE DEF bvars
<1>1. TypeOK'
  BY DEF IInv, TypeOK
<1>2. InvDedup' /\ InvIndex' /\ InvBlob'
  BY DEF IInv, InvDedup, InvIndex, InvBlob
<1>3. InvProgress' /\ InvMounted'
  BY DEF IInv, InvProgress, InvMounted, ChunkPos
<1> QED
  BY <1>1, <1>2, <1>3 DEF IInv

(* The whole of every file is known once the image is mounted. *)
LEMMA MountedFile ==
  ASSUME IInv, phase = "mounted", NEW f \in Files
  PROVE  /\ Backed(size[f], indexes[f], blob)
         /\ size[f] <= Len(indexes[f]) * ChunkSize
         /\ CellsOf(f) \in Seq(Nat)
         /\ Len(CellsOf(f)) = size[f]
         /\ \A p \in 1 .. size[f] :
              CellsOf(f)[p] = CellAt(indexes[f], blob, p)
<1>1. Backed(size[f], indexes[f], blob)
  BY AllBacked DEF IInv
<1>2. f < cur
  BY TypeFacts DEF IInv, InvMounted, Files
<1>3. size[f] <= Len(indexes[f]) * ChunkSize
  BY <1>2 DEF IInv, InvProgress
<1>4. size[f] \in Nat /\ indexes[f] \in Seq(Nat) /\ blob \in Seq(Nat)
  BY TypeFacts DEF IInv
<1>5. Known(size[f], indexes[f]) = size[f]
  BY <1>3, <1>4, KnownFacts
<1>6. /\ CellsOf(f) \in Seq(Nat)
      /\ Len(CellsOf(f)) = Known(size[f], indexes[f])
      /\ \A p \in 1 .. Known(size[f], indexes[f]) :
           CellsOf(f)[p] = CellAt(indexes[f], blob, p)
  BY <1>1, <1>4, ResolvedIsSeq DEF CellsOf
<1> QED
  BY <1>1, <1>3, <1>5, <1>6

LEMMA WantedFacts ==
  ASSUME NEW sz \in Nat, NEW off \in Nat, NEW n \in Nat
  PROVE  /\ Wanted(sz, off, n) \in Nat
         /\ Wanted(sz, off, n) > 0 => off + Wanted(sz, off, n) <= sz
BY DEF Wanted, MinOf

StartOf(f, pos) ==
  indexes[f][ChunkIdx(pos) + 1] * BlockSize + ChunkOff(pos)

ReadType ==
  [st : {"idle", "busy", "ok", "error"}, file : Files, off : Nat,
   size : Nat, filePos : Nat, remaining : Nat, out : Seq(Nat)]

(* The piece that one iteration of the read loop copies lies in the blob and *)
(* is the next piece of the file; and there is one as long as anything       *)
(* remains.                                                                *)
LEMMA PieceFacts ==
  ASSUME IInv, rd.st = "busy", rd.remaining > 0,
         NEW n, n = Piece(rd.remaining, rd.filePos),
         NEW s, s = StartOf(rd.file, rd.filePos)
  PROVE  /\ n \in 1 .. rd.remaining
         /\ InChunks(rd.file, rd.filePos)
         /\ s \in Nat
         /\ s + n <= Len(blob)
         /\ \A i \in 1 .. n : blob[s + i] = CellsOf(rd.file)[rd.filePos + i]
<1> DEFINE f == rd.file
           pos == rd.filePos
           rem == rd.remaining
           sz == size[f]
           idx == indexes[f]
           q == ChunkIdx(pos)
           o == ChunkOff(pos)
           v == q * ChunkSize
           u == idx[q + 1] * BlockSize
<1>1. /\ f \in Files /\ pos \in Nat /\ rem \in Nat \ {0}
      /\ rd.off \in Nat /\ rd.size \in Nat /\ rd.out \in Seq(Nat)
  BY DEF IInv, TypeOK
<1>2. /\ phase = "mounted"
      /\ Len(rd.out) + rem = Wanted(sz, rd.off, rd.size)
      /\ pos = rd.off + Len(rd.out)
  BY DEF IInv, InvRead
<1>3. sz \in Nat /\ idx \in Seq(Nat) /\ Len(idx) \in Nat /\ blob \in Seq(Nat)
  BY <1>1, TypeFacts DEF IInv
<1>4. /\ Backed(sz, idx, blob)
      /\ sz <= Len(idx) * ChunkSize
      /\ \A p \in 1 .. sz : CellsOf(f)[p] = CellAt(idx, blob, p)
  BY <1>1, <1>2, MountedFile
<1>5. pos + rem <= sz
  <2> DEFINE W == Wanted(sz, rd.off, rd.size)
             l == Len(rd.out)
  <2>1. l \in Nat
    BY <1>1, LenProperties
  <2>2. W \in Nat /\ (W > 0 => rd.off + W <= sz)
    BY <1>1, <1>3, WantedFacts
  <2>3. l + rem = W /\ pos = rd.off + l
    BY <1>2
  <2>4. rem \in Nat \ {0} /\ rd.off \in Nat /\ sz \in Nat
    BY <1>1, <1>3
  <2> HIDE DEF W, l, sz, pos, rem
  <2>5. W > 0
    BY ONLY <2>1, <2>2, <2>3, <2>4
  <2>6. pos + rem = rd.off + W
    BY ONLY <2>1, <2>2, <2>3, <2>4
  <2> QED
    BY <2>2, <2>5, <2>6
<1>6. pos = v + o /\ q \in Nat /\ o \in 0 .. ChunkSize - 1
  BY <1>1, Sizes, DivMod DEF ChunkIdx, ChunkOff
<1>7. n = MinOf(rem, ChunkSize - o) /\ s = u + o
  BY DEF Piece, StartOf
<1> HIDE DEF f, pos, rem, sz, idx, q, o
<1>8. v \in Nat /\ v < sz
  <2>1. v \in Nat
    BY <1>6, Sizes, NextMultiple
  <2> HIDE DEF v
  <2> QED
    BY <2>1, <1>1, <1>3, <1>5, <1>6, Sizes
<1>9. q < DivCeil(sz, ChunkSize)
  BY <1>3, <1>6, <1>8, Sizes, DivCeilCounts
<1>10. q + 1 \in 1 .. Len(idx)
  <2>1. Len(idx) * ChunkSize \in Nat
    BY <1>3, Sizes, NextMultiple
  <2>2. q * ChunkSize < Len(idx) * ChunkSize
    BY <2>1, <1>3, <1>4, <1>8
  <2>3. q + 1 <= Len(idx)
    BY <2>2, <1>3, <1>6, Sizes, FactorBelow
  <2> QED
    BY <2>3, <1>3, <1>6
<1>11. idx[q + 1] \in Nat
  BY <1>3, <1>10, ElementOfSeq
<1>12. u \in Nat
  BY <1>11, Sizes, NextMultiple
<1>13. n \in 1 .. rem /\ o + n <= ChunkSize
  BY <1>1, <1>6, <1>7, Sizes DEF MinOf
<1>14. ASSUME NEW i \in 1 .. n
       PROVE  /\ s + i \in 1 .. Len(blob)
              /\ blob[s + i] = CellsOf(f)[pos + i]
  <2> DEFINE j == o + i
             k == q + 1
  <2>1. /\ j \in 1 .. ChunkSize
        /\ pos + i = v + j /\ v + j <= sz /\ v + j \in 1 .. sz
        /\ s + i = u + j
    <3> HIDE DEF u, v
    <3> QED
      BY <1>1, <1>3, <1>5, <1>6, <1>7, <1>8, <1>12, <1>13, Sizes
  <2>2. k - 1 = q /\ k \in 1 .. Len(idx)
    BY <1>6, <1>10
  <2>3. j <= LenOf(sz, k)
    <3>1. LenOf(sz, k) = MinOf(sz - v, ChunkSize)
      BY <2>2 DEF LenOf
    <3> HIDE DEF v, j
    <3> QED
      BY <3>1, <2>1, <1>3, <1>8, Sizes DEF MinOf
  <2> HIDE DEF j
  <2>4. /\ idx[k] * BlockSize + j \in 1 .. Len(blob)
        /\ CellAt(idx, blob, (k - 1) * ChunkSize + j)
             = blob[idx[k] * BlockSize + j]
    <3> HIDE DEF k
    <3> QED
      BY <2>1, <2>2, <2>3, <1>3, <1>4, CellInBlob
  <2>5. (k - 1) * ChunkSize + j = pos + i
    BY <2>1, <2>2
  <2> QED
    BY <2>1, <2>4, <2>5, <1>4
<1>15. s \in Nat /\ s + n <= Len(blob)
  <2>1. s \in Nat
    <3> HIDE DEF u
    <3> QED
      BY <1>6, <1>7, <1>12, Sizes
  <2>2. s + n \in 1 .. Len(blob)
    BY <1>13, <1>14, <1>1
  <2> QED
    BY <2>1, <2>2
<1>16. InChunks(f, pos)
  BY <1>9 DEF InChunks, q, sz
<1> QED
  BY <1>13, <1>14, <1>15, <1>16 DEF f, pos, rem

LEMMA StartReadKeeps ==
  ASSUME IInv, NEW f \in Files, NEW r \in Ranges, StartRead(f, r.off, r.size)
  PROVE  IInv'
<1>1. r.off \in Nat /\ r.size \in Nat
  BY BlobAssumption
<1>2. size[f] \in Nat
  BY TypeFacts DEF IInv
<1> DEFINE rem == IF r.off >= size[f] THEN 0 ELSE MinOf(r.size, size[f] - r.off)
<1>3. rem \in Nat /\ rem = Wanted(size[f], r.off, r.size)
  BY <1>1, <1>2, WantedFacts DEF Wanted
<1>4. /\ rd' = [st |-> "busy", file |-> f, off |-> r.off, size |-> r.size,
                filePos |-> r.off, remaining |-> rem, out |-> << >>]
      /\ phase = "mounted"
      /\ UNCHANGED <<source, changes, phase, bvars, mapped>>
  BY DEF StartRead
<1> HIDE DEF rem
<1>5. rd' \in [st : {"idle", "busy", "ok", "error"}, file : Files, off : Nat,
               size : Nat, filePos : Nat, remaining : Nat, out : Seq(Nat)]
  BY <1>1, <1>3, <1>4, EmptySeq
<1>6. InvRead'
  <2>1. rd'.file = f /\ rd'.off = r.off /\ rd'.size = r.size
        /\ rd'.filePos = r.off /\ rd'.remaining = rem /\ rd'.out = << >>
    BY <1>4
  <2>2. Len(rd'.out) = 0 /\ phase' = "mounted" /\ size' = size
    BY <2>1, <1>4 DEF bvars
  <2> QED
    BY <2>1, <2>2, <1>1, <1>3 DEF InvRead
<1> QED
  BY <1>4, <1>5, <1>6, ReaderStep

(* The reader's step inside the mapping. *)
PieceCopied(n, s) ==
  rd' = [rd EXCEPT !.out = @ \o SubSeq(blob, s + 1, s + n),
                   !.filePos = @ + n,
                   !.remaining = @ - n]

PieceRefused == rd' = [rd EXCEPT !.st = "error", !.out = << >>]

LEMMA PieceCases ==
  ASSUME ReadPiece
  PROVE  \E n, s : /\ n = Piece(rd.remaining, rd.filePos)
                   /\ s = StartOf(rd.file, rd.filePos)
                   /\ rd.st = "busy" /\ rd.remaining > 0
                   /\ IF s + n <= mapped THEN PieceCopied(n, s)
                      ELSE PieceRefused
BY DEF ReadPiece, StartOf, PieceCopied, PieceRefused

LEMMA ReadPieceKeeps == IInv /\ ReadPiece => IInv'
<1> SUFFICES ASSUME IInv, ReadPiece PROVE IInv'
  OBVIOUS
<1>0. UNCHANGED <<source, changes, phase, bvars, mapped>>
  BY DEF ReadPiece
<1>1. rd \in ReadType
  BY DEF IInv, TypeOK, ReadType
<1>2. PICK n, s : /\ n = Piece(rd.remaining, rd.filePos)
                  /\ s = StartOf(rd.file, rd.filePos)
                  /\ rd.st = "busy" /\ rd.remaining > 0
                  /\ IF s + n <= mapped THEN PieceCopied(n, s) ELSE PieceRefused
  BY PieceCases
<1>3. /\ n \in 1 .. rd.remaining
      /\ s \in Nat
      /\ s + n <= Len(blob)
      /\ \A i \in 1 .. n : blob[s + i] = CellsOf(rd.file)[rd.filePos + i]
  BY <1>2, PieceFacts
<1>4. phase = "mounted" /\ phase' = "mounted"
  BY <1>0, <1>2 DEF IInv, InvRead
<1>5. CASE PieceRefused
  <2>1. rd' \in ReadType /\ rd'.st = "error"
    BY <1>1, <1>5, EmptySeq DEF PieceRefused, ReadType
  <2>2. InvRead'
    BY <2>1, <1>4 DEF InvRead
  <2> QED
    BY <2>1, <2>2, <1>0, ReaderStep DEF ReadType
<1>6. CASE PieceCopied(n, s)
  <2> DEFINE piece == SubSeq(blob, s + 1, s + n)
             l == Len(rd.out)
  <2>0. /\ rd.out \in Seq(Nat) /\ rd.remaining \in Nat /\ rd.filePos \in Nat
        /\ rd.off \in Nat /\ rd.file \in Files /\ n \in Nat /\ l \in Nat
        /\ Len(blob) \in Nat
    BY <1>1, <1>3, TypeFacts, LenProperties DEF ReadType, IInv
  <2>1. /\ piece \in Seq(Nat) /\ Len(piece) = n
        /\ \A i \in 1 .. n : piece[i] = blob[s + i]
    <3>1. /\ blob \in Seq(Nat) /\ s \in Nat /\ n \in Nat
          /\ s + n <= Len(blob)
      BY <2>0, <1>3, TypeFacts DEF IInv
    <3>2. IsPiece(piece, blob, s, n)
      BY ONLY <3>1, SubSeqIsPiece
    <3> HIDE DEF piece
    <3> QED
      BY <3>2 DEF IsPiece
  <2> HIDE DEF piece
  <2>2. /\ rd' \in ReadType
        /\ rd'.out = rd.out \o piece
        /\ rd'.filePos = rd.filePos + n
        /\ rd'.remaining = rd.remaining - n
        /\ rd'.file = rd.file /\ rd'.off = rd.off /\ rd'.size = rd.size
    <3>1. rd.out \o piece \in Seq(Nat)
      BY <2>0, <2>1, Concatenation
    <3>2. rd.remaining - n \in Nat /\ rd.filePos + n \in Nat
      <4>1. n <= rd.remaining
        BY <1>3
      <4> QED
        BY ONLY <4>1, <2>0
    <3>3. rd' = [rd EXCEPT !.out = rd.out \o piece,
                           !.filePos = rd.filePos + n,
                           !.remaining = rd.remaining - n]
      BY <1>1, <1>6 DEF PieceCopied, ReadType, piece
    <3> QED
      BY <3>1, <3>2, <3>3, <1>1 DEF ReadType
  <2>3. /\ Len(rd.out \o piece) = l + n
        /\ \A i \in 1 .. l + n :
             (rd.out \o piece)[i] = IF i <= l THEN rd.out[i] ELSE piece[i - l]
    BY <2>0, <2>1, Concatenation
  <2>4. /\ l + rd.remaining = Wanted(size[rd.file], rd.off, rd.size)
        /\ rd.filePos = rd.off + l
        /\ \A j \in 1 .. l : rd.out[j] = CellsOf(rd.file)[rd.off + j]
    BY <1>2 DEF IInv, InvRead
  <2> HIDE DEF l
  <2>5. /\ Len(rd'.out) + rd'.remaining
             = Wanted(size'[rd'.file], rd'.off, rd'.size)
        /\ rd'.filePos = rd'.off + Len(rd'.out)
    <3>1. size' = size
      BY <1>0 DEF bvars
    <3>2. Wanted(size'[rd'.file], rd'.off, rd'.size)
            = Wanted(size[rd.file], rd.off, rd.size)
      BY <3>1, <2>2
    <3>3. Len(rd'.out) = l + n
      BY <2>2, <2>3
    <3>4. Len(rd'.out) + rd'.remaining = l + rd.remaining
      BY <3>3, <2>0, <2>2, <1>3
    <3>5. rd'.filePos = rd'.off + Len(rd'.out)
      BY <3>3, <2>0, <2>2, <2>4, <1>3
    <3> QED
      BY <3>2, <3>4, <3>5, <2>4
  <2>6. \A j \in 1 .. Len(rd'.out) :
          rd'.out[j] = CellsOf(rd.file)[rd.off + j]
    <3> SUFFICES ASSUME NEW j \in 1 .. l + n
                 PROVE  (rd.out \o piece)[j] = CellsOf(rd.file)[rd.off + j]
      BY <2>2, <2>3
    <3>1. CASE j <= l
      <4>1. j \in 1 .. l
        BY <3>1, <2>0, <1>3
      <4> QED
        BY <4>1, <3>1, <2>3, <2>4
    <3>2. CASE ~ (j <= l)
      <4>1. j - l \in 1 .. n /\ rd.filePos + (j - l) = rd.off + j
        BY SMTT(30), <3>2, <2>0, <2>4, <1>3
      <4> QED
        <5>1. (rd.out \o piece)[j] = piece[j - l]
          BY ONLY <2>0, <2>3, <3>2
        <5>2. piece[j - l] = blob[s + (j - l)]
          BY ONLY <4>1, <2>1
        <5>3. blob[s + (j - l)] = CellsOf(rd.file)[rd.filePos + (j - l)]
          BY ONLY <4>1, <1>3
        <5> QED
          BY ONLY <5>1, <5>2, <5>3, <4>1
    <3> QED
      BY <3>1, <3>2
  <2>7. InvRead'
    <3>1. \A g : ResolvedOf(size'[g], indexes'[g], blob') = CellsOf(g)
      BY <1>0 DEF CellsOf, bvars
    <3>2. \A j \in 1 .. Len(rd'.out) :
            rd'.out[j]
              = ResolvedOf(size'[rd'.file], indexes'[rd'.file], blob')
                  [rd'.off + j]
      BY <3>1, <2>2, <2>6
    <3> QED
      BY <3>2, <2>5, <1>4 DEF InvRead, CellsOf
  <2> QED
    BY <2>2, <2>7, <1>0, ReaderStep DEF ReadType
<1> QED
  BY <1>2, <1>5, <1>6

LEMMA FinishReadKeeps == IInv /\ FinishRead => IInv'
<1> SUFFICES ASSUME IInv, FinishRead PROVE IInv'
  OBVIOUS
<1>0. /\ UNCHANGED <<source, changes, phase, bvars, mapped>>
      /\ rd.st = "busy" /\ rd' = [rd EXCEPT !.st = "ok"]
  BY DEF FinishRead
<1>1. rd \in ReadType
  BY DEF IInv, TypeOK, ReadType
<1>2. rd' \in ReadType /\ rd'.st = "ok"
  BY <1>0, <1>1 DEF ReadType
<1>3. phase' = "mounted"
  BY <1>0 DEF IInv, InvRead
<1>4. InvRead'
  BY <1>2, <1>3 DEF InvRead
<1> QED
  BY <1>0, <1>2, <1>4, ReaderStep DEF ReadType

LEMMA StutterKeeps == IInv /\ UNCHANGED vars => IInv'
<1> SUFFICES ASSUME IInv, UNCHANGED vars PROVE IInv'
  OBVIOUS
<1>0. UNCHANGED <<source, changes, phase, bvars, mapped>> /\ rd' = rd
  BY DEF vars
<1>3. InvRead'
  BY <1>0 DEF IInv, InvRead, CellsOf, bvars
<1> QED
  BY <1>0, <1>3, ReaderStep DEF IInv, TypeOK

LEMMA NextKeeps == IInv /\ [Next]_vars => IInv'
BY ModifySourceKeeps, StatFileKeeps, ReadChunkKeeps, ReuseChunkKeeps,
   WriteChunkKeeps, WriteChunkFailsKeeps, MountKeeps, StartReadKeeps,
   ReadPieceKeeps, FinishReadKeeps, StutterKeeps DEF Next

(* The inductive invariant holds of every behaviour of mkfs and the reader. *)
THEOREM Invariance == Spec => []IInv
<1>1. Init => IInv
  BY InitKeeps
<1>2. IInv /\ [Next]_vars => IInv'
  BY NextKeeps
<1> QED
  BY <1>1, <1>2, PTL DEF Spec

(* Type correctness of the blob writer and the chunk reader. *)
THEOREM BlobTypeCorrect == Spec => []TypeOK
<1>1. IInv => TypeOK
  BY DEF IInv
<1> QED
  BY <1>1, Invariance, PTL

LEMMA CopyInBlob ==
  ASSUME IInv, NEW f \in Files, NEW k \in 1 .. Len(indexes[f])
  PROVE  \E c \in DOMAIN dedup :
           /\ indexes[f][k] = dedup[c]
           /\ Len(c) = ChunkLen(f, k)
           /\ SubSeq(blob, indexes[f][k] * BlockSize + 1,
                     indexes[f][k] * BlockSize + ChunkLen(f, k)) = c
<1>1. PICK c \in DOMAIN dedup :
        Len(c) = ChunkLen(f, k) /\ indexes[f][k] = dedup[c]
  BY DEF IInv, InvIndex, ChunkLen, LenOf
<1> DEFINE u == dedup[c] * BlockSize
           n == Len(c)
           b == SubSeq(blob, u + 1, u + n)
<1>2. c \in Seq(Nat) /\ dedup[c] \in Nat /\ HoldsAt(blob, dedup[c], c)
  BY DEF IInv, InvDedup
<1>3. /\ n \in Nat /\ u \in Nat /\ Len(blob) \in Nat /\ u + n <= Len(blob)
      /\ blob \in Seq(Nat)
  BY <1>2, Sizes, NextMultiple, LenProperties, TypeFacts DEF HoldsAt, IInv
<1>4. \A j \in 1 .. n : blob[u + j] = c[j]
  BY <1>2 DEF HoldsAt
<1> HIDE DEF u, n
<1>6. IsPiece(b, blob, u, n)
  BY <1>3, SubSeqIsPiece
<1> HIDE DEF b
<1>7. /\ b \in Seq(Nat) /\ Len(b) = n
      /\ \A i \in 1 .. n : b[i] = blob[u + i]
  BY <1>6 DEF IsPiece
<1>9. b = c
  BY <1>2, <1>4, <1>7, SeqEqual DEF n
<1> QED
  BY <1>1, <1>9 DEF b, u, n

(* No content is stored twice, whatever the files, the order in which their *)
(* chunks repeat and the writes that fail.                                 *)
THEOREM NothingStoredTwice == Spec => []NoDuplicateChunk
<1>1. IInv => NoDuplicateChunk
  <2> SUFFICES ASSUME IInv, NEW f \in Files, NEW g \in Files,
                      NEW k \in 1 .. Len(indexes[f]),
                      NEW l \in 1 .. Len(indexes[g]),
                      indexes[f][k] * BlockSize # indexes[g][l] * BlockSize
               PROVE  SubSeq(blob, indexes[f][k] * BlockSize + 1,
                             indexes[f][k] * BlockSize + ChunkLen(f, k))
                        # SubSeq(blob, indexes[g][l] * BlockSize + 1,
                                 indexes[g][l] * BlockSize + ChunkLen(g, l))
    BY DEF NoDuplicateChunk
  <2>1. PICK c \in DOMAIN dedup :
          /\ indexes[f][k] = dedup[c]
          /\ SubSeq(blob, indexes[f][k] * BlockSize + 1,
                    indexes[f][k] * BlockSize + ChunkLen(f, k)) = c
    BY CopyInBlob
  <2>2. PICK d \in DOMAIN dedup :
          /\ indexes[g][l] = dedup[d]
          /\ SubSeq(blob, indexes[g][l] * BlockSize + 1,
                    indexes[g][l] * BlockSize + ChunkLen(g, l)) = d
    BY CopyInBlob
  <2>3. c # d
    BY <2>1, <2>2
  <2> QED
    BY <2>1, <2>2, <2>3
<1> QED
  BY <1>1, Invariance, PTL

-----------------------------------------------------------------------------
(* The refinement.  What FileStore sees of a state: *)

StoreStored ==
  [f \in Files |-> Resolved(f) \o (IF f = cur THEN chunkBuf ELSE << >>)]

StoreStage ==
  IF phase = "failed" THEN "failed"
  ELSE IF phase # "mounted" THEN "building"
  ELSE IF mapped = Len(blob) THEN "whole" ELSE "damaged"

StoreCall ==
  IF rd.st = "idle" THEN [st |-> "idle"]
  ELSE [st |-> rd.st, file |-> rd.file, off |-> rd.off, size |-> rd.size,
        out |-> IF rd.st = "ok" THEN rd.out ELSE << >>]

LEMMA StoreStutters ==
  ASSUME UNCHANGED <<source, StoreStored, StoreStage, StoreCall>>
  PROVE  UNCHANGED Store!vars
BY DEF Store!vars, StoreStored, StoreStage, StoreCall

LEMMA StoreChange ==
  ASSUME NEW f \in Files, NEW c \in Contents,
         source' = [source EXCEPT ![f] = c],
         UNCHANGED <<StoreStored, StoreStage, StoreCall>>
  PROVE  Store!Next
<1>1. Store!Change
  BY DEF Store!Change, StoreStored, StoreStage, StoreCall
<1> QED
  BY <1>1 DEF Store!Next

LEMMA StoreCapture ==
  ASSUME StoreStage = "building", NEW f \in Files,
         NEW n \in 1 .. Len(source[f]) - Len(StoreStored[f]),
         StoreStored' = [StoreStored EXCEPT ![f] =
           StoreStored[f] \o SubSeq(source[f], Len(StoreStored[f]) + 1,
                                    Len(StoreStored[f]) + n)],
         UNCHANGED <<source, StoreStage, StoreCall>>
  PROVE  Store!Next
<1>1. Store!Capture
  BY DEF Store!Capture, StoreStored, StoreStage, StoreCall
<1> QED
  BY <1>1 DEF Store!Next

LEMMA StoreAbandon ==
  ASSUME StoreStage = "building", StoreStage' = "failed",
         UNCHANGED <<source, StoreStored, StoreCall>>
  PROVE  Store!Next
<1>1. Store!Abandon
  BY DEF Store!Abandon, StoreStored, StoreStage, StoreCall
<1> QED
  BY <1>1 DEF Store!Next

LEMMA StoreMount ==
  ASSUME StoreStage = "building", StoreStage' \in {"whole", "damaged"},
         UNCHANGED <<source, StoreStored, StoreCall>>
  PROVE  Store!Next
<1>1. Store!Mount
  BY DEF Store!Mount, StoreStored, StoreStage, StoreCall
<1> QED
  BY <1>1 DEF Store!Next

LEMMA StoreCalled ==
  ASSUME StoreStage \in {"whole", "damaged"}, StoreCall.st # "busy",
         NEW f \in Files, NEW r \in Ranges,
         StoreCall' = [st |-> "busy", file |-> f, off |-> r.off,
                       size |-> r.size, out |-> << >>],
         UNCHANGED <<source, StoreStored, StoreStage>>
  PROVE  Store!Next
<1>1. Store!Call
  BY DEF Store!Call, StoreStored, StoreStage, StoreCall
<1> QED
  BY <1>1 DEF Store!Next

LEMMA StoreReturns ==
  ASSUME StoreCall.st = "busy",
         \/ StoreCall' = [StoreCall EXCEPT !.st = "ok",
              !.out = Store!Slice(StoreStored[StoreCall.file], StoreCall.off,
                                  StoreCall.size)]
         \/ /\ StoreStage = "damaged"
            /\ StoreCall' = [StoreCall EXCEPT !.st = "error"],
         UNCHANGED <<source, StoreStored, StoreStage>>
  PROVE  Store!Next
<1>1. Store!Return
  BY DEF Store!Return, StoreStored, StoreStage, StoreCall
<1> QED
  BY <1>1 DEF Store!Next

(* What is captured, before and after a step, as what indexes resolve to. *)
LEMMA StoredForm ==
  /\ StoreStored =
       [f \in Files |-> CellsOf(f) \o (IF f = cur THEN chunkBuf ELSE << >>)]
  /\ StoreStored' =
       [f \in Files |-> ResolvedOf(size'[f], indexes'[f], blob')
                          \o (IF f = cur' THEN chunkBuf' ELSE << >>)]
<1>1. \A f \in Files : Resolved(f) = CellsOf(f)
  BY ResolvedIs DEF CellsOf
<1>2. StoreStored' =
        [f \in Files |-> ResolvedOf(size'[f], indexes'[f], blob')
                           \o (IF f = cur' THEN chunkBuf' ELSE << >>)]
  BY DEF StoreStored, Resolved, ResolvedOf, Known, CellAt
<1> QED
  BY <1>1, <1>2 DEF StoreStored

LEMMA CellsFacts ==
  ASSUME IInv, NEW f \in Files
  PROVE  /\ Backed(size[f], indexes[f], blob)
         /\ CellsOf(f) \in Seq(Nat)
         /\ Len(CellsOf(f)) = Known(size[f], indexes[f])
         /\ CellsOf(f) \o << >> = CellsOf(f)
<1>1. Backed(size[f], indexes[f], blob)
  BY AllBacked DEF IInv
<1>2. size[f] \in Nat /\ indexes[f] \in Seq(Nat) /\ blob \in Seq(Nat)
  BY TypeFacts DEF IInv
<1>3. /\ CellsOf(f) \in Seq(Nat)
      /\ Len(CellsOf(f)) = Known(size[f], indexes[f])
  BY <1>1, <1>2, ResolvedIsSeq DEF CellsOf
<1> QED
  BY <1>1, <1>3, ConcatEmptySeq

LEMMA MapInit == Init => Store!Init
<1> SUFFICES ASSUME Init PROVE Store!Init
  OBVIOUS
<1>1. \A f \in Files : CellsOf(f) = << >>
  <2> SUFFICES ASSUME NEW f \in Files PROVE CellsOf(f) = << >>
    OBVIOUS
  <2>1. size[f] = 0 /\ indexes[f] = << >>
    BY DEF Init
  <2>2. Known(size[f], indexes[f]) = 0
    BY <2>1, Sizes DEF Known, MinOf
  <2>3. CellsOf(f) = [p \in 1 .. 0 |-> CellAt(indexes[f], blob, p)]
    BY <2>2 DEF CellsOf, ResolvedOf
  <2> QED
    BY <2>3
<1>2. chunkBuf = << >>
  BY DEF Init
<1>3. StoreStored = [f \in Files |-> << >>]
  <2>1. << >> \o << >> = << >>
    OBVIOUS
  <2> QED
    BY <1>1, <1>2, <2>1, StoredForm
<1>4. StoreStage = "building" /\ StoreCall = [st |-> "idle"]
  BY DEF Init, NoRead, StoreStage, StoreCall
<1> QED
  BY <1>3, <1>4 DEF Init, Store!Init, Store!NoCall, StoreStored, StoreStage,
                    StoreCall

(* The builder does not touch the reader's call. *)
LEMMA SameCall == ASSUME rd' = rd PROVE StoreCall' = StoreCall
BY DEF StoreCall

LEMMA SameStored ==
  ASSUME UNCHANGED bvars
  PROVE  StoreStored' = StoreStored
BY DEF bvars, StoreStored, Resolved

LEMMA ModifySourceMaps == ASSUME IInv, ModifySource PROVE Store!Next
<1>1. PICK f \in Files, c \in Contents : source' = [source EXCEPT ![f] = c]
  BY DEF ModifySource
<1>2. UNCHANGED <<StoreStored, StoreStage, StoreCall>>
  BY SameStored, SameCall DEF ModifySource, StoreStage, bvars
<1> QED
  BY <1>1, <1>2, StoreChange

LEMMA StatFileMaps == ASSUME IInv, StatFile PROVE UNCHANGED Store!vars
<1>0. /\ phase = "stat" /\ phase' \in {"stat", "read"}
      /\ cur \in Files /\ indexes[cur] = << >> /\ chunkBuf = << >>
      /\ size' = [size EXCEPT ![cur] = Len(source[cur])]
      /\ UNCHANGED <<source, indexes, blob, chunkBuf, mapped, rd>>
  BY DEF StatFile, IInv, TypeOK, Files, InvProgress
<1>1. \A f \in Files :
        ResolvedOf(size'[f], indexes'[f], blob') = CellsOf(f)
  <2> SUFFICES ASSUME NEW f \in Files
               PROVE  ResolvedOf(size'[f], indexes'[f], blob') = CellsOf(f)
    OBVIOUS
  <2>1. CASE f = cur
    <3>1. size'[f] \in Nat /\ size[f] \in Nat
      BY <1>0, TypeFacts, LenProperties DEF IInv, TypeOK
    <3>2. Len(indexes[f]) * ChunkSize = 0
      BY <1>0, <2>1, Sizes
    <3>3. Known(size'[f], indexes[f]) = 0 /\ Known(size[f], indexes[f]) = 0
      BY <3>1, <3>2 DEF Known, MinOf
    <3>4. ResolvedOf(size'[f], indexes[f], blob)
            = [p \in 1 .. 0 |-> CellAt(indexes[f], blob, p)]
      BY <3>3 DEF ResolvedOf
    <3>5. CellsOf(f) = [p \in 1 .. 0 |-> CellAt(indexes[f], blob, p)]
      BY <3>3 DEF ResolvedOf, CellsOf
    <3> QED
      BY <3>4, <3>5, <1>0
  <2>2. CASE f # cur
    <3>1. size'[f] = size[f]
      BY <1>0, <2>2 DEF IInv, TypeOK
    <3> QED
      BY <3>1, <1>0 DEF CellsOf
  <2> QED
    BY <2>1, <2>2
<1>2. StoreStored' = StoreStored
  BY <1>0, <1>1, StoredForm
<1>3. StoreStage' = StoreStage
  BY <1>0 DEF StoreStage
<1> QED
  BY <1>0, <1>2, <1>3, SameCall, StoreStutters

LEMMA ReadChunkMaps == ASSUME IInv, ReadChunk PROVE Store!Next
<1>0. /\ phase = "read" /\ cur \in Files /\ ChunkPos < size[cur]
      /\ chunkBuf = << >>
      /\ UNCHANGED <<source, cur, size, indexes, blob, mapped, rd>>
  BY DEF IInv, InvProgress, ReadChunk
<1>1. /\ ToRead \in 1 .. ChunkSize /\ ChunkPos \in Nat
      /\ Known(size[cur], indexes[cur]) = ChunkPos
  BY <1>0, NextChunk
<1>2. /\ StoreStage = "building"
      /\ StoreCall' = StoreCall
  BY <1>0, SameCall DEF StoreStage
<1>3. \A f \in Files :
        /\ StoreStored[f] = CellsOf(f)
        /\ StoreStored'[f] =
             CellsOf(f) \o (IF f = cur THEN chunkBuf' ELSE << >>)
  BY <1>0, CellsFacts, StoredForm DEF CellsOf
<1>4. /\ StoreStored = [f \in Files |-> StoreStored[f]]
      /\ StoreStored' = [f \in Files |-> StoreStored'[f]]
  BY StoredForm
<1>5. CASE ChunkPos + ToRead <= Len(source[cur])
  <2> DEFINE piece == SubSeq(source[cur], ChunkPos + 1, ChunkPos + ToRead)
  <2>1. chunkBuf' = piece /\ phase' = "place"
    BY <1>5 DEF ReadChunk
  <2>2. Len(StoreStored[cur]) = ChunkPos
    BY <1>0, <1>1, <1>3, CellsFacts
  <2>3. StoreStored' = [StoreStored EXCEPT ![cur] = StoreStored[cur] \o piece]
    <3> HIDE DEF piece
    <3>1. \A f \in Files : f # cur => StoreStored'[f] = StoreStored[f]
      BY <1>3, CellsFacts
    <3>2. StoreStored'[cur] = StoreStored[cur] \o piece
      BY <1>0, <1>3, <2>1
    <3> QED
      BY <3>1, <3>2, <1>0, <1>4
  <2>4. ToRead \in 1 .. Len(source[cur]) - Len(StoreStored[cur])
    <3>1. Len(source[cur]) \in Nat
      BY <1>0, TypeFacts, LenProperties DEF IInv
    <3> QED
      BY <3>1, <2>2, <1>1, <1>5, Sizes
  <2>5. StoreStage' = StoreStage
    BY <2>1, <1>0 DEF StoreStage
  <2>6. StoreStored' = [StoreStored EXCEPT ![cur] =
          StoreStored[cur] \o SubSeq(source[cur], Len(StoreStored[cur]) + 1,
                                     Len(StoreStored[cur]) + ToRead)]
    BY <2>2, <2>3
  <2> QED
    BY <2>4, <2>5, <2>6, <1>0, <1>2, StoreCapture
<1>6. CASE ~ (ChunkPos + ToRead <= Len(source[cur]))
  <2>1. chunkBuf' = chunkBuf /\ phase' = "failed"
    BY <1>6 DEF ReadChunk
  <2>2. StoreStage' = "failed"
    BY <2>1 DEF StoreStage
  <2>3. StoreStored' = StoreStored
    <3>1. \A f \in Files : StoreStored'[f] = StoreStored[f]
      BY <2>1, <1>0, <1>3, CellsFacts
    <3> QED
      BY <3>1, <1>4
  <2> QED
    BY <2>2, <2>3, <1>0, <1>2, StoreAbandon
<1> QED
  BY <1>5, <1>6

(* Placing the chunk in hand captures nothing new: what it appends to the   *)
(* file's indexes resolves to the chunk.                                   *)
LEMMA PushCapturesNothing ==
  ASSUME IInv, phase = "place", NEW a \in Nat, PushIndex(a), UNCHANGED size,
         blob' \in Seq(Nat), Extends(blob, blob'), HoldsAt(blob', a, chunkBuf)
  PROVE  StoreStored' = StoreStored
<1>1. /\ cur \in Files
      /\ indexes'[cur] = Append(indexes[cur], a)
      /\ \A f \in Files : f # cur => indexes'[f] = indexes[f]
      /\ chunkBuf' = << >>
  BY PushMoves
<1>2. /\ blob \in Seq(Nat) /\ chunkBuf \in Seq(Nat)
      /\ \A f \in Files : size[f] \in Nat /\ indexes[f] \in Seq(Nat)
  BY TypeFacts DEF IInv
<1>3. \A f \in Files :
        /\ Backed(size[f], indexes[f], blob')
        /\ ResolvedOf(size[f], indexes[f], blob') = CellsOf(f)
  BY <1>2, CellsFacts, ResolvedStays DEF CellsOf
<1>4. \A f \in Files :
        ResolvedOf(size'[f], indexes'[f], blob') \o << >>
          = CellsOf(f) \o (IF f = cur THEN chunkBuf ELSE << >>)
  <2> SUFFICES ASSUME NEW f \in Files
               PROVE  ResolvedOf(size[f], indexes'[f], blob') \o << >>
                        = CellsOf(f) \o (IF f = cur THEN chunkBuf ELSE << >>)
    OBVIOUS
  <2>1. CASE f = cur
    <3>1. /\ Len(indexes[cur]) * ChunkSize < size[cur]
          /\ Len(chunkBuf) = LenOf(size[cur], Len(indexes[cur]) + 1)
      BY DEF IInv, InvProgress, ChunkPos
    <3>2. ResolvedOf(size[cur], Append(indexes[cur], a), blob')
            = ResolvedOf(size[cur], indexes[cur], blob') \o chunkBuf
      <4> DEFINE sz == size[cur]
                 idx == indexes[cur]
                 bl == blob'
      <4>1. /\ sz \in Nat /\ idx \in Seq(Nat) /\ bl \in Seq(Nat)
            /\ chunkBuf \in Seq(Nat) /\ a \in Nat
            /\ NextInBlob(sz, idx, bl, chunkBuf, a)
        BY <3>1, <1>1, <1>2, <1>3 DEF NextInBlob
      <4> HIDE DEF sz, idx, bl
      <4>2. ResolvedOf(sz, Append(idx, a), bl)
              = ResolvedOf(sz, idx, bl) \o chunkBuf
        BY ONLY <4>1, ResolvedGrows
      <4> QED
        BY <4>2 DEF sz, idx, bl
    <3>3. ResolvedOf(size[cur], indexes'[cur], blob') = CellsOf(cur) \o chunkBuf
      BY <3>2, <1>1, <1>3
    <3>4. CellsOf(cur) \o chunkBuf \in Seq(Nat)
      BY <1>1, <1>2, CellsFacts, Concatenation
    <3>5. (CellsOf(cur) \o chunkBuf) \o << >> = CellsOf(cur) \o chunkBuf
      BY <3>4, ConcatEmptySeq
    <3> QED
      BY <3>3, <3>5, <2>1
  <2>2. CASE f # cur
    BY <2>2, <1>1, <1>3
  <2> QED
    BY <2>1, <2>2
<1>5. StoreStored' =
        [f \in Files |-> ResolvedOf(size'[f], indexes'[f], blob') \o << >>]
  BY <1>1, StoredForm
<1> QED
  BY <1>4, <1>5, StoredForm

LEMMA ReuseChunkMaps == ASSUME IInv, ReuseChunk PROVE UNCHANGED Store!vars
<1> DEFINE a == dedup[chunkBuf]
<1>0. /\ phase = "place" /\ chunkBuf \in DOMAIN dedup
      /\ PushIndex(a)
      /\ UNCHANGED <<source, size, blob, mapped, rd>>
  BY DEF ReuseChunk, Hash
<1>1. a \in Nat /\ HoldsAt(blob, a, chunkBuf) /\ blob \in Seq(Nat)
  BY <1>0, TypeFacts DEF IInv, InvDedup
<1> HIDE DEF a
<1>2. blob' \in Seq(Nat) /\ Extends(blob, blob') /\ HoldsAt(blob', a, chunkBuf)
  BY <1>0, <1>1, LenProperties DEF Extends
<1>3. StoreStored' = StoreStored
  BY <1>0, <1>1, <1>2, PushCapturesNothing
<1>4. phase' \in {"stat", "read"}
  BY <1>0, <1>1, PushMoves
<1>5. StoreStage' = StoreStage
  BY <1>0, <1>4 DEF StoreStage
<1> QED
  BY <1>0, <1>3, <1>5, SameCall, StoreStutters

LEMMA WriteChunkMaps == ASSUME IInv, WriteChunk PROVE UNCHANGED Store!vars
<1>0. /\ phase = "place"
      /\ PushIndex(nextBlkaddr)
      /\ UNCHANGED <<source, size, mapped, rd>>
  BY DEF WriteChunk
<1>1. /\ blob' \in Seq(Nat) /\ Extends(blob, blob')
      /\ HoldsAt(blob', nextBlkaddr, chunkBuf)
      /\ nextBlkaddr \in Nat
  BY ChunkWritten
<1>2. StoreStored' = StoreStored
  BY <1>0, <1>1, PushCapturesNothing
<1>3. phase' \in {"stat", "read"}
  BY <1>0, <1>1, PushMoves
<1>4. StoreStage' = StoreStage
  BY <1>0, <1>3 DEF StoreStage
<1> QED
  BY <1>0, <1>2, <1>4, SameCall, StoreStutters

LEMMA WriteChunkFailsMaps == ASSUME IInv, WriteChunkFails PROVE Store!Next
<1>0. /\ phase = "place" /\ phase' = "failed"
      /\ UNCHANGED <<source, cur, size, indexes, chunkBuf, mapped, rd>>
  BY DEF WriteChunkFails
<1>1. blob' \in Seq(Nat) /\ Extends(blob, blob')
  BY PartAppended
<1>2. \A f \in Files :
        ResolvedOf(size'[f], indexes'[f], blob') = CellsOf(f)
  BY <1>0, <1>1, CellsFacts, TypeFacts, ResolvedStays DEF CellsOf, IInv
<1>3. StoreStored' = StoreStored
  BY <1>0, <1>2, StoredForm
<1>4. StoreStage = "building" /\ StoreStage' = "failed"
  BY <1>0 DEF StoreStage
<1> QED
  BY <1>0, <1>3, <1>4, SameCall, StoreAbandon

LEMMA MountMaps == ASSUME IInv, Mount PROVE Store!Next
<1>0. /\ phase = "stat" /\ phase' = "mounted"
      /\ UNCHANGED <<source, bvars, rd>>
  BY DEF Mount
<1>1. StoreStage = "building" /\ StoreStage' \in {"whole", "damaged"}
  BY <1>0 DEF StoreStage
<1> QED
  BY <1>0, <1>1, SameStored, SameCall, StoreMount

-----------------------------------------------------------------------------
(* The reader's steps. *)

LEMMA ReaderKeeps ==
  ASSUME UNCHANGED <<source, changes, phase, bvars, mapped>>
  PROVE  UNCHANGED <<source, StoreStored, StoreStage>>
BY SameStored DEF bvars, StoreStage

LEMMA StartReadMaps ==
  ASSUME IInv, NEW f \in Files, NEW r \in Ranges, StartRead(f, r.off, r.size)
  PROVE  Store!Next
<1>1. /\ phase = "mounted" /\ rd.st # "busy"
      /\ UNCHANGED <<source, changes, phase, bvars, mapped>>
  BY DEF StartRead
<1>2. StoreStage \in {"whole", "damaged"} /\ StoreCall.st # "busy"
  BY <1>1 DEF StoreStage, StoreCall
<1>3. rd'.st = "busy" /\ rd'.file = f /\ rd'.off = r.off /\ rd'.size = r.size
  BY DEF StartRead
<1>4. StoreCall' = [st |-> "busy", file |-> f, off |-> r.off,
                    size |-> r.size, out |-> << >>]
  BY <1>3 DEF StoreCall
<1> QED
  BY <1>1, <1>2, <1>4, ReaderKeeps, StoreCalled

LEMMA BusyCall ==
  ASSUME rd.st = "busy"
  PROVE  StoreCall = [st |-> "busy", file |-> rd.file, off |-> rd.off,
                      size |-> rd.size, out |-> << >>]
BY DEF StoreCall

LEMMA ReadPieceMaps ==
  ASSUME IInv, ReadPiece
  PROVE  Store!Next \/ UNCHANGED Store!vars
<1>0. UNCHANGED <<source, changes, phase, bvars, mapped>>
  BY DEF ReadPiece
<1>1. rd \in ReadType
  BY DEF IInv, TypeOK, ReadType
<1>2. PICK n, s : /\ n = Piece(rd.remaining, rd.filePos)
                  /\ s = StartOf(rd.file, rd.filePos)
                  /\ rd.st = "busy" /\ rd.remaining > 0
                  /\ IF s + n <= mapped THEN PieceCopied(n, s) ELSE PieceRefused
  BY PieceCases
<1>3. n \in Nat /\ s \in Nat /\ s + n <= Len(blob)
  <2>1. /\ n \in 1 .. rd.remaining
        /\ s \in Nat
        /\ s + n <= Len(blob)
    BY <1>2, PieceFacts
  <2> QED
    BY <2>1, <1>1 DEF ReadType
<1>4. CASE s + n <= mapped
  <2>1. PieceCopied(n, s)
    BY <1>2, <1>4
  <2>2. /\ rd'.st = "busy" /\ rd'.file = rd.file
        /\ rd'.off = rd.off /\ rd'.size = rd.size
    BY <2>1, <1>1, <1>2 DEF PieceCopied, ReadType
  <2>3. StoreCall' = StoreCall
    BY <2>2, <1>2 DEF StoreCall
  <2> QED
    BY <2>3, <1>0, ReaderKeeps, StoreStutters
<1>5. CASE ~ (s + n <= mapped)
  <2>1. PieceRefused
    BY <1>2, <1>5
  <2>2. /\ rd'.st = "error" /\ rd'.file = rd.file
        /\ rd'.off = rd.off /\ rd'.size = rd.size
    BY <2>1, <1>1 DEF PieceRefused, ReadType
  <2>3. StoreCall' = [st |-> "error", file |-> rd.file, off |-> rd.off,
                      size |-> rd.size, out |-> << >>]
    BY <2>2 DEF StoreCall
  <2>4. StoreCall.st = "busy" /\ StoreCall' = [StoreCall EXCEPT !.st = "error"]
    BY <2>3, <1>2, BusyCall
  <2>5. phase = "mounted" /\ mapped # Len(blob)
    BY <1>2, <1>3, <1>5 DEF IInv, InvRead
  <2>6. StoreStage = "damaged"
    BY <2>5 DEF StoreStage
  <2> QED
    BY <2>4, <2>6, <1>0, ReaderKeeps, StoreReturns
<1> QED
  BY <1>4, <1>5

(* A slice of a file is the cells the read asked for. *)
LEMMA SliceIs ==
  ASSUME NEW s \in Seq(Nat), NEW off \in Nat, NEW n \in Nat,
         NEW out \in Seq(Nat), Len(out) = Wanted(Len(s), off, n),
         \A j \in 1 .. Len(out) : out[j] = s[off + j]
  PROVE  out = Store!Slice(s, off, n)
<1> DEFINE z == Len(s)
           top == IF off + n < z THEN off + n ELSE z
           p == SubSeq(s, off + 1, top)
<1>1. z \in Nat /\ top \in Nat /\ top <= z
  BY LenProperties
<1>2. Store!Slice(s, off, n) = p
  BY DEF Store!Slice
<1>3. Len(out) = Wanted(z, off, n)
  OBVIOUS
<1>4. Len(out) = IF off + 1 <= top THEN top - (off + 1) + 1 ELSE 0
  <2>1. z \in Nat
    BY LenProperties
  <2> DEFINE l == Len(out)
  <2>2. l = Wanted(z, off, n)
    BY <1>3
  <2> HIDE DEF z, l
  <2>3. CASE off >= z
    <3>1. l = 0 /\ ~ (off + 1 <= top)
      BY <2>1, <2>2, <2>3 DEF Wanted
    <3> QED
      BY <3>1 DEF l
  <2>4. CASE ~ (off >= z)
    <3>1. l = IF n < z - off THEN n ELSE z - off
      BY <2>2, <2>4 DEF Wanted, MinOf
    <3>2. off + l = top /\ l \in Nat
      BY <2>1, <2>4, <3>1
    <3> HIDE DEF top
    <3> QED
      BY <3>2 DEF l
  <2> QED
    BY <2>3, <2>4
<1>5. \A i \in off + 1 .. top : s[i] \in Nat
  BY <1>1, ElementOfSeq
<1>6. off + 1 \in Int /\ top \in Int
  BY <1>1
<1> HIDE DEF z, top
<1>7. /\ p \in Seq(Nat)
      /\ Len(p) = IF off + 1 <= top THEN top - (off + 1) + 1 ELSE 0
      /\ \A i \in 1 .. top - (off + 1) + 1 : p[i] = s[off + 1 + i - 1]
  BY ONLY <1>5, <1>6, SubSeqProperties
<1> HIDE DEF p
<1>8. Len(p) = Len(out)
  BY <1>4, <1>7
<1>9. \A i \in 1 .. Len(out) :
        i \in 1 .. top - (off + 1) + 1 /\ off + 1 + i - 1 = off + i
  BY <1>1, <1>4
<1>10. \A i \in 1 .. Len(out) : out[i] = p[i]
  BY <1>7, <1>9
<1> QED
  BY <1>2, <1>7, <1>8, <1>10, SeqEqual

LEMMA FinishReadMaps == ASSUME IInv, FinishRead PROVE Store!Next
<1>0. /\ UNCHANGED <<source, changes, phase, bvars, mapped>>
      /\ rd.st = "busy" /\ rd' = [rd EXCEPT !.st = "ok"]
      /\ rd.remaining = 0 \/ ~ InChunks(rd.file, rd.filePos)
  BY DEF FinishRead
<1>1. rd \in ReadType
  BY DEF IInv, TypeOK, ReadType
<1>2. /\ rd.file \in Files /\ rd.off \in Nat /\ rd.size \in Nat
      /\ rd.out \in Seq(Nat) /\ rd.remaining \in Nat
  BY <1>1 DEF ReadType
<1>3. rd.remaining = 0
  <2>1. rd.remaining > 0 => InChunks(rd.file, rd.filePos)
    BY <1>0, PieceFacts
  <2> QED
    BY <2>1, <1>0, <1>2
<1> DEFINE s == CellsOf(rd.file)
<1>4. /\ phase = "mounted"
      /\ Len(rd.out) + rd.remaining = Wanted(size[rd.file], rd.off, rd.size)
      /\ \A j \in 1 .. Len(rd.out) : rd.out[j] = s[rd.off + j]
  BY <1>0 DEF IInv, InvRead
<1>5. s \in Seq(Nat) /\ Len(s) = size[rd.file]
  BY <1>2, <1>4, MountedFile
<1>6. Len(rd.out) = Wanted(Len(s), rd.off, rd.size)
  <2>1. Len(rd.out) \in Nat
    BY <1>2, LenProperties
  <2> HIDE DEF s
  <2> QED
    BY <2>1, <1>3, <1>4, <1>5
<1>7. StoreStored[rd.file] = s
  <2>1. rd.file # cur
    BY <1>2, <1>4, TypeFacts DEF IInv, InvMounted, Files
  <2>2. StoreStored[rd.file] = s \o << >>
    BY <2>1, <1>2, StoredForm
  <2> QED
    BY <2>2, <1>2, CellsFacts
<1> HIDE DEF s
<1>8. rd.out = Store!Slice(StoreStored[rd.file], rd.off, rd.size)
  BY <1>2, <1>4, <1>5, <1>6, <1>7, SliceIs
<1>9. /\ rd'.st = "ok" /\ rd'.file = rd.file /\ rd'.off = rd.off
      /\ rd'.size = rd.size /\ rd'.out = rd.out
  BY <1>0, <1>1 DEF ReadType
<1>10. StoreCall' = [st |-> "ok", file |-> rd.file, off |-> rd.off,
                     size |-> rd.size, out |-> rd.out]
  BY <1>9 DEF StoreCall
<1>11. /\ StoreCall.st = "busy"
       /\ StoreCall.file = rd.file /\ StoreCall.off = rd.off
       /\ StoreCall.size = rd.size
  BY <1>0, BusyCall
<1>12. StoreCall' = [StoreCall EXCEPT !.st = "ok",
         !.out = Store!Slice(StoreStored[StoreCall.file], StoreCall.off,
                             StoreCall.size)]
  <2>1. StoreCall = [st |-> "busy", file |-> rd.file, off |-> rd.off,
                     size |-> rd.size, out |-> << >>]
    BY <1>0, BusyCall
  <2>2. [StoreCall EXCEPT !.st = "ok", !.out = rd.out]
          = [st |-> "ok", file |-> rd.file, off |-> rd.off,
             size |-> rd.size, out |-> rd.out]
    <3> DEFINE c == StoreCall
               f == rd.file
               off == rd.off
               n == rd.size
               out == rd.out
               d == [c EXCEPT !.st = "ok"]
    <3>1. c = [st |-> "busy", file |-> f, off |-> off, size |-> n,
               out |-> << >>]
      BY <2>1
    <3> HIDE DEF c, f, off, n, out
    <3>2. d = [st |-> "ok", file |-> f, off |-> off, size |-> n,
               out |-> << >>]
      BY <3>1
    <3>3. [c EXCEPT !.st = "ok", !.out = out] = [d EXCEPT !.out = out]
      BY <3>1
    <3> HIDE DEF d
    <3>4. [d EXCEPT !.out = out]
            = [st |-> "ok", file |-> f, off |-> off, size |-> n, out |-> out]
      BY <3>2
    <3> QED
      BY <3>3, <3>4 DEF c, f, off, n, out
  <2>3. rd.out = Store!Slice(StoreStored[StoreCall.file], StoreCall.off,
                             StoreCall.size)
    BY <1>8, <1>11
  <2> HIDE DEF s
  <2> QED
    BY ONLY <2>2, <2>3, <1>10
<1> QED
  BY <1>0, <1>11, <1>12, ReaderKeeps, StoreReturns

LEMMA NextMaps ==
  ASSUME IInv, [Next]_vars
  PROVE  Store!Next \/ UNCHANGED Store!vars
<1>1. CASE UNCHANGED vars
  <2>1. UNCHANGED <<source, changes, phase, bvars, mapped>> /\ rd' = rd
    BY <1>1 DEF vars
  <2> QED
    BY <2>1, ReaderKeeps, SameCall, StoreStutters
<1>2. CASE Next
  BY <1>2, ModifySourceMaps, StatFileMaps, ReadChunkMaps, ReuseChunkMaps,
     WriteChunkMaps, WriteChunkFailsMaps, MountMaps, StartReadMaps,
     ReadPieceMaps, FinishReadMaps DEF Next
<1> QED
  BY <1>1, <1>2

(* The safety part of ImplementsFileStore: however chunks are shared,       *)
(* padded and addressed, whatever changes in the source and wherever a write *)
(* fails, what was captured of a file is never changed, and a read of the   *)
(* mounted image returns exactly the captured cells of its range, or an     *)
(* error when the blob that is mounted is not the whole one.                *)
THEOREM BlobImplementsFileStore ==
  Spec => Store!Init /\ [][Store!Next]_(Store!vars)
<1>1. Init => Store!Init
  BY MapInit
<1>2. IInv /\ [Next]_vars => [Store!Next]_(Store!vars)
  BY NextMaps
<1> QED
  BY <1>1, <1>2, Invariance, PTL DEF Spec

-----------------------------------------------------------------------------
(* Induction over the natural numbers, for sets instead of predicates.        *)

LEMMA LeastNat ==
  ASSUME NEW T \in SUBSET Nat, T # {}
  PROVE  \E n \in T : \A m \in T : n <= m
<1>1. \E x \in T : \A y \in T : ~ (<<y, x>> \in OpToRel(<, Nat))
  BY NatLessThanWellFounded, WFMin
<1>2. PICK n \in T : \A y \in T : ~ (<<y, n>> \in OpToRel(<, Nat))
  BY <1>1
<1>3. \A m \in T : m < n => <<m, n>> \in OpToRel(<, Nat)
  BY DEF OpToRel
<1>4. \A m \in T : m \in Nat /\ n \in Nat /\ ~ (m < n)
  BY <1>2, <1>3
<1> QED
  BY <1>4

LEMMA SetInduction ==
  ASSUME NEW S, 0 \in S, \A n \in Nat : n \in S => n + 1 \in S
  PROVE  \A n \in Nat : n \in S
<1> SUFFICES ASSUME \E n \in Nat : n \notin S
             PROVE  FALSE
  OBVIOUS
<1> DEFINE T == Nat \ S
<1>1. T \in SUBSET Nat /\ T # {}
  OBVIOUS
<1>2. PICK n \in T : \A m \in T : n <= m
  BY <1>1, LeastNat
<1>3. n # 0 /\ n \in Nat
  OBVIOUS
<1>4. n - 1 \in Nat /\ n - 1 \notin T
  BY <1>2, <1>3
<1>5. n - 1 \in S /\ (n - 1) + 1 = n
  BY <1>3, <1>4
<1> QED
  BY <1>4, <1>5

-----------------------------------------------------------------------------
(* Sums, for the bytes that are accounted for.                             *)

Summable(g, n) == \A k \in 1 .. n : g[k] \in Nat

(* Whether s has the sums of the first elements of g, up to the n-th.        *)
IsSum(s, g, n) ==
  /\ s \in [0 .. n -> Nat]
  /\ s[0] = 0
  /\ \A k \in 1 .. n : s[k] = s[k - 1] + g[k]

LEMMA SumExists ==
  ASSUME NEW g, NEW n \in Nat, Summable(g, n)
  PROVE  \E s : IsSum(s, g, n)
<1> DEFINE S == {m \in Nat : m <= n => \E s : IsSum(s, g, m)}
<1>1. 0 \in S
  <2>1. IsSum([k \in 0 .. 0 |-> 0], g, 0)
    BY DEF IsSum
  <2> QED
    BY <2>1
<1>2. ASSUME NEW m \in Nat, m \in S
      PROVE  m + 1 \in S
  <2> SUFFICES ASSUME m + 1 <= n
               PROVE  \E s : IsSum(s, g, m + 1)
    OBVIOUS
  <2>1. PICK s : IsSum(s, g, m)
    BY <1>2
  <2> DEFINE t == [k \in 0 .. m + 1 |-> IF k <= m THEN s[k]
                                        ELSE s[m] + g[m + 1]]
  <2>2. g[m + 1] \in Nat
    BY DEF Summable
  <2>3. /\ s \in [0 .. m -> Nat] /\ s[0] = 0 /\ s[m] \in Nat
        /\ \A k \in 1 .. m : s[k] = s[k - 1] + g[k]
    BY <2>1 DEF IsSum
  <2>4. t \in [0 .. m + 1 -> Nat] /\ t[0] = 0
    BY <2>2, <2>3
  <2>5. \A k \in 1 .. m + 1 : t[k] = t[k - 1] + g[k]
    <3>1. ASSUME NEW k \in 1 .. m
          PROVE  t[k] = t[k - 1] + g[k]
      BY <2>3
    <3>2. t[m + 1] = t[m] + g[m + 1]
      OBVIOUS
    <3> HIDE DEF t
    <3>3. (m + 1) - 1 = m /\ \A k \in 1 .. m + 1 : k \in 1 .. m \/ k = m + 1
      OBVIOUS
    <3> QED
      BY <3>1, <3>2, <3>3
  <2>6. IsSum(t, g, m + 1)
    BY <2>4, <2>5 DEF IsSum
  <2> QED
    BY <2>6
<1> HIDE DEF S
<1>3. n \in S
  BY <1>1, <1>2, SetInduction
<1> QED
  BY <1>3 DEF S

(* Two functions with the sums of the same elements agree.                   *)
LEMMA SumUnique ==
  ASSUME NEW g, NEW n \in Nat, NEW s, NEW t, IsSum(s, g, n), IsSum(t, g, n)
  PROVE  s[n] = t[n]
<1> DEFINE S == {m \in Nat : m <= n => s[m] = t[m]}
<1>1. 0 \in S
  BY DEF IsSum
<1>2. ASSUME NEW m \in Nat, m \in S
      PROVE  m + 1 \in S
  <2> SUFFICES ASSUME m + 1 <= n
               PROVE  s[m + 1] = t[m + 1]
    OBVIOUS
  <2>1. m + 1 \in 1 .. n /\ (m + 1) - 1 = m /\ m <= n
    OBVIOUS
  <2>2. s[m + 1] = s[m] + g[m + 1] /\ t[m + 1] = t[m] + g[m + 1]
    BY <2>1 DEF IsSum
  <2> QED
    BY <2>1, <2>2, <1>2
<1> HIDE DEF S
<1>3. n \in S
  BY <1>1, <1>2, SetInduction
<1> QED
  BY <1>3 DEF S

(* The recursion of SumTo has a solution, and it is the sums.                *)
LEMMA SumIsLast ==
  ASSUME NEW g, NEW n \in Nat, NEW s, Summable(g, n), IsSum(s, g, n)
  PROVE  SumTo(g, n) = s[n]
<1> DEFINE Rec(h) == [k \in 0 .. n |-> IF k = 0 THEN 0 ELSE h[k - 1] + g[k]]
           c == CHOOSE h : h = Rec(h)
<1>1. s = Rec(s)
  <2>1. s \in [0 .. n -> Nat]
    BY DEF IsSum
  <2>2. \A k \in 0 .. n : s[k] = Rec(s)[k]
    BY DEF IsSum
  <2>3. DOMAIN Rec(s) = 0 .. n
    OBVIOUS
  <2> QED
    BY <2>1, <2>2
<1>2. c = Rec(c)
  <2> HIDE DEF Rec
  <2> QED
    BY <1>1
<1>3. SumTo(g, n) = c[n]
  BY DEF SumTo
<1> HIDE DEF c
<1>4. c[0] = 0 /\ \A k \in 1 .. n : c[k] = c[k - 1] + g[k]
  <2>1. \A k \in 0 .. n : c[k] = IF k = 0 THEN 0 ELSE c[k - 1] + g[k]
    BY <1>2
  <2> HIDE DEF Rec
  <2> QED
    BY <2>1
<1> DEFINE S == {m \in Nat : m <= n => c[m] = s[m]}
<1> HIDE DEF Rec
<1>5. 0 \in S
  BY <1>4 DEF IsSum
<1>6. ASSUME NEW m \in Nat, m \in S
      PROVE  m + 1 \in S
  <2> SUFFICES ASSUME m + 1 <= n
               PROVE  c[m + 1] = s[m + 1]
    OBVIOUS
  <2>1. m + 1 \in 1 .. n /\ (m + 1) - 1 = m /\ m <= n
    OBVIOUS
  <2>2. c[m + 1] = c[m] + g[m + 1] /\ s[m + 1] = s[m] + g[m + 1]
    BY <2>1, <1>4 DEF IsSum
  <2> QED
    BY <2>1, <2>2, <1>6
<1> HIDE DEF S
<1>7. n \in S
  BY <1>5, <1>6, SetInduction
<1> QED
  BY <1>3, <1>7 DEF S

LEMMA SumNat ==
  ASSUME NEW g, NEW n \in Nat, Summable(g, n)
  PROVE  SumTo(g, n) \in Nat
<1>1. PICK s : IsSum(s, g, n)
  BY SumExists
<1>2. s[n] \in Nat
  BY <1>1 DEF IsSum
<1> QED
  BY <1>1, <1>2, SumIsLast

LEMMA SumEmpty == ASSUME NEW g PROVE SumTo(g, 0) = 0
<1>1. Summable(g, 0)
  BY DEF Summable
<1>2. PICK s : IsSum(s, g, 0)
  BY <1>1, SumExists
<1> QED
  BY <1>1, <1>2, SumIsLast DEF IsSum

(* A sum of nothing but zeros.                                              *)
LEMMA SumOfZeros ==
  ASSUME NEW g, NEW n \in Nat, \A k \in 1 .. n : g[k] = 0
  PROVE  SumTo(g, n) = 0
<1> DEFINE s == [k \in 0 .. n |-> 0]
<1>1. IsSum(s, g, n) /\ Summable(g, n) /\ s[n] = 0
  BY DEF IsSum, Summable
<1> HIDE DEF s
<1> QED
  BY <1>1, SumIsLast

(* One more element.                                                       *)
LEMMA SumNext ==
  ASSUME NEW g, NEW h, NEW n \in Nat, Summable(g, n), Summable(h, n + 1),
         \A k \in 1 .. n : h[k] = g[k]
  PROVE  SumTo(h, n + 1) = SumTo(g, n) + h[n + 1]
<1>1. PICK s : IsSum(s, h, n + 1)
  BY SumExists
<1> DEFINE t == [k \in 0 .. n |-> s[k]]
<1>2. IsSum(t, g, n)
  <2>1. /\ s \in [0 .. n + 1 -> Nat] /\ s[0] = 0
        /\ \A k \in 1 .. n + 1 : s[k] = s[k - 1] + h[k]
    BY <1>1 DEF IsSum
  <2>2. t \in [0 .. n -> Nat] /\ t[0] = 0
    BY <2>1
  <2>3. \A k \in 1 .. n : t[k] = t[k - 1] + g[k]
    BY <2>1
  <2> QED
    BY <2>2, <2>3 DEF IsSum
<1>3. t[n] = s[n]
  OBVIOUS
<1> HIDE DEF t
<1>4. n + 1 \in 1 .. n + 1 /\ (n + 1) - 1 = n
  OBVIOUS
<1>5. s[n + 1] = s[n] + h[n + 1]
  BY <1>1, <1>4 DEF IsSum
<1> QED
  BY <1>1, <1>2, <1>3, <1>5, SumIsLast

(* One element grows by d.                                                  *)
LEMMA SumChanged ==
  ASSUME NEW g, NEW h, NEW n \in Nat, NEW j \in 1 .. n, NEW d \in Nat,
         Summable(g, n), h[j] = g[j] + d,
         \A k \in 1 .. n : k # j => h[k] = g[k]
  PROVE  SumTo(h, n) = SumTo(g, n) + d
<1>1. PICK s : IsSum(s, g, n)
  BY SumExists
<1> DEFINE t == [k \in 0 .. n |-> IF k < j THEN s[k] ELSE s[k] + d]
<1>2. /\ s \in [0 .. n -> Nat] /\ s[0] = 0
      /\ \A k \in 1 .. n : s[k] = s[k - 1] + g[k]
  BY <1>1 DEF IsSum
<1>3. Summable(h, n)
  BY DEF Summable
<1>4. t \in [0 .. n -> Nat] /\ t[0] = 0
  BY <1>2
<1>5. \A k \in 1 .. n : t[k] = t[k - 1] + h[k]
  <2> SUFFICES ASSUME NEW k \in 1 .. n
               PROVE  t[k] = t[k - 1] + h[k]
    OBVIOUS
  <2>1. k \in Nat /\ j \in Nat /\ k \in 0 .. n /\ k - 1 \in 0 .. n
    OBVIOUS
  <2>2. s[k] = s[k - 1] + g[k] /\ s[k - 1] \in Nat /\ g[k] \in Nat
    BY <1>2, <2>1 DEF Summable
  <2>3. /\ t[k] = IF k < j THEN s[k] ELSE s[k] + d
        /\ t[k - 1] = IF k - 1 < j THEN s[k - 1] ELSE s[k - 1] + d
    BY <2>1
  <2>4. h[k] = IF k = j THEN g[k] + d ELSE g[k]
    OBVIOUS
  <2> HIDE DEF t
  <2> QED
    BY ONLY <2>1, <2>2, <2>3, <2>4, d \in Nat
<1>6. t[n] = s[n] + d
  BY <1>2
<1> HIDE DEF t
<1>7. IsSum(t, h, n)
  BY <1>4, <1>5 DEF IsSum
<1> QED
  BY <1>1, <1>3, <1>6, <1>7, SumIsLast

(* The sum depends on the elements summed only.                              *)
LEMMA SumSame ==
  ASSUME NEW g, NEW h, NEW n \in Nat, Summable(g, n),
         \A k \in 1 .. n : h[k] = g[k]
  PROVE  SumTo(h, n) = SumTo(g, n)
<1>1. PICK s : IsSum(s, g, n)
  BY SumExists
<1>2. IsSum(s, h, n) /\ Summable(h, n)
  BY <1>1 DEF IsSum, Summable
<1> QED
  BY <1>1, <1>2, SumIsLast

-----------------------------------------------------------------------------
(* What the inodes refer to.                                               *)

(* Each of the first n chunks of a file of sz cells has cells.               *)
Chunks(sz, n) == \A k \in 1 .. n : (k - 1) * ChunkSize < sz

Stored(sz, n) == [k \in 1 .. n |-> WriteLen(LenOf(sz, k))]

(* The cells of the blob that n indexes of such a file refer to.             *)
RefersTo(sz, n) == SumTo(Stored(sz, n), n)

PerFile == [f \in Files |-> RefersTo(size[f], Len(indexes[f]))]

AllReferred == SumTo(PerFile, NFiles)

Accounted == phase # "failed" => savedByDedup + Len(blob) = AllReferred

LEMMA WriteLenNat ==
  ASSUME NEW n \in Nat
  PROVE  NBlocks(n) \in Nat /\ WriteLen(n) \in Nat
<1>1. NBlocks(n) \in Nat
  BY Sizes, DivCeilCounts DEF NBlocks
<1> QED
  BY <1>1, Sizes, NextMultiple DEF WriteLen

LEMMA StoredSummable ==
  ASSUME NEW sz \in Nat, NEW n \in Nat, Chunks(sz, n)
  PROVE  Summable(Stored(sz, n), n)
<1> SUFFICES ASSUME NEW k \in 1 .. n
             PROVE  WriteLen(LenOf(sz, k)) \in Nat
  BY DEF Summable, Stored
<1>1. k \in Nat \ {0} /\ (k - 1) * ChunkSize < sz
  BY DEF Chunks
<1>2. LenOf(sz, k) \in Nat
  BY <1>1, LenOfFacts, Sizes
<1> QED
  BY <1>2, WriteLenNat

LEMMA RefersToNat ==
  ASSUME NEW sz \in Nat, NEW n \in Nat, Chunks(sz, n)
  PROVE  RefersTo(sz, n) \in Nat
BY StoredSummable, SumNat DEF RefersTo

LEMMA RefersToNothing == ASSUME NEW sz PROVE RefersTo(sz, 0) = 0
BY SumEmpty DEF RefersTo

LEMMA RefersToNext ==
  ASSUME NEW sz \in Nat, NEW n \in Nat, Chunks(sz, n + 1)
  PROVE  RefersTo(sz, n + 1) = RefersTo(sz, n) + WriteLen(LenOf(sz, n + 1))
<1> DEFINE g == Stored(sz, n)
           h == Stored(sz, n + 1)
<1>1. Chunks(sz, n)
  BY DEF Chunks
<1>2. Summable(g, n) /\ Summable(h, n + 1)
  BY <1>1, StoredSummable
<1>3. /\ \A k \in 1 .. n : h[k] = g[k]
      /\ h[n + 1] = WriteLen(LenOf(sz, n + 1))
  BY DEF Stored
<1> HIDE DEF g, h
<1>4. SumTo(h, n + 1) = SumTo(g, n) + h[n + 1]
  BY <1>2, <1>3, SumNext
<1> QED
  BY <1>3, <1>4 DEF RefersTo, g, h

LEMMA IndexedChunks ==
  ASSUME IInv
  PROVE  /\ \A f \in Files : Chunks(size[f], Len(indexes[f]))
         /\ Summable(PerFile, NFiles)
<1>1. \A f \in Files : Chunks(size[f], Len(indexes[f]))
  BY DEF IInv, InvIndex, Chunks
<1>2. \A f \in Files : size[f] \in Nat /\ Len(indexes[f]) \in Nat
  BY TypeFacts DEF IInv
<1>3. \A f \in Files : RefersTo(size[f], Len(indexes[f])) \in Nat
  BY <1>1, <1>2, RefersToNat
<1> QED
  BY <1>1, <1>3 DEF Summable, PerFile, Files

-----------------------------------------------------------------------------
(* The steps of the builder.                                               *)

LEMMA InitAccounts == Init => Accounted
<1> SUFFICES ASSUME Init PROVE Accounted
  OBVIOUS
<1>1. \A f \in Files : indexes[f] = << >> /\ Len(indexes[f]) = 0
  BY DEF Init
<1>2. \A f \in 1 .. NFiles : PerFile[f] = 0
  BY <1>1, RefersToNothing DEF PerFile, Files
<1>3. AllReferred = 0
  BY <1>2, BlobAssumption, SumOfZeros DEF AllReferred
<1>4. savedByDedup = 0 /\ Len(blob) = 0
  BY DEF Init
<1> QED
  BY <1>3, <1>4 DEF Accounted

LEMMA StatFileAccounts == IInv /\ Accounted /\ StatFile => Accounted'
<1> SUFFICES ASSUME IInv, Accounted, StatFile PROVE Accounted'
  OBVIOUS
<1>0. /\ phase = "stat" /\ cur <= NFiles
      /\ UNCHANGED <<indexes, blob, savedByDedup>>
      /\ size' = [size EXCEPT ![cur] = Len(source[cur])]
  BY DEF StatFile
<1>1. cur \in Files
  <2>1. NFiles \in Nat /\ cur \in 1 .. NFiles + 1
    BY BlobAssumption DEF IInv, TypeOK
  <2> QED
    BY <1>0, <2>1 DEF Files
<1>2. Len(indexes[cur]) = 0
  BY <1>0, <1>1 DEF IInv, InvProgress
<1>3. \A f \in Files : f # cur => size'[f] = size[f]
  BY <1>0, <1>1
<1>4. \A f \in Files : RefersTo(size'[f], Len(indexes[f]))
                         = RefersTo(size[f], Len(indexes[f]))
  BY <1>2, <1>3, RefersToNothing
<1>5. PerFile' = PerFile
  BY <1>0, <1>4 DEF PerFile
<1>6. AllReferred' = AllReferred
  BY <1>5 DEF AllReferred
<1> QED
  BY <1>0, <1>6 DEF Accounted

(* An index pushed refers to the cells that its chunk takes.                 *)
LEMMA PushAccounts ==
  ASSUME IInv, phase = "place", NEW a \in Nat, PushIndex(a), UNCHANGED size,
         \A f \in Files : Chunks(size[f], Len(indexes'[f]))
  PROVE  AllReferred' = AllReferred + WriteLen(Len(chunkBuf))
<1> DEFINE n == Len(indexes[cur])
           sz == size[cur]
           d == WriteLen(Len(chunkBuf))
           g == PerFile
           h == PerFile'
<1>1. /\ cur \in Files
      /\ indexes'[cur] = Append(indexes[cur], a)
      /\ \A f \in Files : f # cur => indexes'[f] = indexes[f]
  BY PushMoves
<1>2. sz \in Nat /\ n \in Nat /\ indexes[cur] \in Seq(Nat)
  BY <1>1, TypeFacts DEF IInv
<1>3. Len(indexes'[cur]) = n + 1
  BY <1>1, <1>2
<1>4. Chunks(sz, n + 1)
  BY <1>1, <1>3
<1>5. Len(chunkBuf) = LenOf(sz, n + 1) /\ Len(chunkBuf) \in Nat
  BY TypeFacts DEF IInv, InvProgress
<1>6. d \in Nat
  BY <1>5, WriteLenNat
<1>7. RefersTo(sz, n + 1) = RefersTo(sz, n) + d
  <2> HIDE DEF n, sz
  <2> QED
    BY <1>2, <1>4, <1>5, RefersToNext
<1>8. h[cur] = g[cur] + d /\ \A f \in Files : f # cur => h[f] = g[f]
  BY <1>1, <1>3, <1>7 DEF PerFile
<1>9. Summable(g, NFiles)
  BY IndexedChunks
<1>10. NFiles \in Nat /\ cur \in 1 .. NFiles
  BY <1>1, BlobAssumption DEF Files
<1> HIDE DEF g, h, d
<1>11. SumTo(h, NFiles) = SumTo(g, NFiles) + d
  BY ONLY <1>6, <1>8, <1>9, <1>10, SumChanged DEF Files
<1> QED
  BY <1>11 DEF AllReferred, g, h, d

LEMMA ReuseChunkAccounts == IInv /\ Accounted /\ ReuseChunk => Accounted'
<1> SUFFICES ASSUME IInv, Accounted, ReuseChunk PROVE Accounted'
  OBVIOUS
<1> DEFINE a == dedup[chunkBuf]
           d == WriteLen(Len(chunkBuf))
<1>0. /\ phase = "place" /\ chunkBuf \in DOMAIN dedup
      /\ PushIndex(a) /\ UNCHANGED <<size, blob>>
      /\ savedByDedup' = savedByDedup + d
  BY DEF ReuseChunk, Hash, Saved
<1>1. a \in Nat
  BY <1>0 DEF IInv, InvDedup
<1>2. IInv'
  BY ReuseChunkKeeps
<1>3. \A f \in Files : Chunks(size[f], Len(indexes'[f]))
  BY <1>0, <1>2 DEF IInv, InvIndex, Chunks
<1> HIDE DEF a
<1>4. AllReferred' = AllReferred + d
  BY <1>0, <1>1, <1>3, PushAccounts
<1>5. savedByDedup + Len(blob) = AllReferred
  BY <1>0 DEF Accounted
<1>6. savedByDedup \in Nat /\ Len(blob) \in Nat /\ d \in Nat
  BY TypeFacts, WriteLenNat, LenProperties DEF IInv, TypeOK
<1> HIDE DEF d
<1>7. savedByDedup' + Len(blob') = AllReferred'
  BY ONLY <1>0, <1>4, <1>5, <1>6
<1> QED
  BY <1>7 DEF Accounted

LEMMA WriteChunkAccounts == IInv /\ Accounted /\ WriteChunk => Accounted'
<1> SUFFICES ASSUME IInv, Accounted, WriteChunk PROVE Accounted'
  OBVIOUS
<1> DEFINE d == WriteLen(Len(chunkBuf))
           n == NBlocks(Len(chunkBuf))
<1>0. /\ phase = "place" /\ PushIndex(nextBlkaddr)
      /\ UNCHANGED <<size, savedByDedup>>
      /\ nextBlkaddr' = nextBlkaddr + n
  BY DEF WriteChunk
<1>1. nextBlkaddr \in Nat /\ Len(blob') = nextBlkaddr' * BlockSize
  BY ChunkWritten
<1>2. IInv'
  BY WriteChunkKeeps
<1>3. \A f \in Files : Chunks(size[f], Len(indexes'[f]))
  BY <1>0, <1>2 DEF IInv, InvIndex, Chunks
<1>4. AllReferred' = AllReferred + d
  BY <1>0, <1>1, <1>3, PushAccounts
<1>5. savedByDedup + Len(blob) = AllReferred
  BY <1>0 DEF Accounted
<1>6. /\ savedByDedup \in Nat /\ n \in Nat /\ d = n * BlockSize
      /\ Len(blob) = nextBlkaddr * BlockSize
  BY <1>0, TypeFacts, WriteLenNat DEF IInv, TypeOK, WriteLen, InvBlob
<1>7. /\ nextBlkaddr * BlockSize \in Nat
      /\ n * BlockSize \in Nat
      /\ (nextBlkaddr + n) * BlockSize = nextBlkaddr * BlockSize + n * BlockSize
  BY <1>1, <1>6, Sizes
<1> HIDE DEF d, n
<1>8. Len(blob') = Len(blob) + d /\ Len(blob) \in Nat /\ d \in Nat
  BY ONLY <1>0, <1>1, <1>6, <1>7
<1>9. savedByDedup' + Len(blob') = AllReferred'
  BY ONLY <1>0, <1>4, <1>5, <1>6, <1>8
<1> QED
  BY <1>9 DEF Accounted

(* Every other step leaves all of it alone, or ends the build.               *)
LEMMA NothingCounted ==
  ASSUME Accounted,
         \/ phase' = "failed"
         \/ phase # "failed" /\ UNCHANGED <<size, indexes, blob, savedByDedup>>
         \/ UNCHANGED <<phase, size, indexes, blob, savedByDedup>>
  PROVE  Accounted'
<1>1. CASE phase' = "failed"
  BY <1>1 DEF Accounted
<1>2. CASE UNCHANGED <<size, indexes, blob, savedByDedup>>
           /\ (phase # "failed" \/ phase' = phase)
  <2>1. AllReferred' = AllReferred
    BY <1>2 DEF AllReferred, PerFile
  <2> QED
    BY <1>2, <2>1 DEF Accounted
<1> QED
  BY <1>1, <1>2

LEMMA NextAccounts == IInv /\ Accounted /\ [Next]_vars => Accounted'
<1> SUFFICES ASSUME IInv, Accounted, [Next]_vars PROVE Accounted'
  OBVIOUS
<1>1. CASE ModifySource
  BY <1>1, NothingCounted DEF ModifySource, bvars
<1>2. CASE ReadChunk
  BY <1>2, NothingCounted DEF ReadChunk
<1>3. CASE WriteChunkFails
  BY <1>3, NothingCounted DEF WriteChunkFails
<1>4. CASE Mount
  BY <1>4, NothingCounted DEF Mount, bvars
<1>5. CASE \E f \in Files, r \in Ranges : StartRead(f, r.off, r.size)
  BY <1>5, NothingCounted DEF StartRead, bvars
<1>6. CASE ReadPiece
  BY <1>6, NothingCounted DEF ReadPiece, bvars
<1>7. CASE FinishRead
  BY <1>7, NothingCounted DEF FinishRead, bvars
<1>8. CASE UNCHANGED vars
  BY <1>8, NothingCounted DEF vars, bvars
<1> QED
  BY <1>1, <1>2, <1>3, <1>4, <1>5, <1>6, <1>7, <1>8, StatFileAccounts,
     ReuseChunkAccounts, WriteChunkAccounts DEF Next

(* What mkfs reports as saved is true: with the bytes in the blob it is the  *)
(* sum, over every index of every inode, of the padded length of its chunk;  *)
(* no chunk is counted twice or forgotten, whatever is shared and whatever   *)
(* changes in the source during the build.                                  *)
THEOREM SavingsAreExact == Spec => []DedupAccounting
<1>1. Init => Accounted
  BY InitAccounts
<1>2. IInv /\ Accounted /\ [Next]_vars => Accounted'
  BY NextAccounts
<1>3. Accounted => DedupAccounting
  <2>1. \A f \in Files : Referred(f) = RefersTo(size[f], Len(indexes[f]))
    BY DEF Referred, RefersTo, Stored, ChunkLen, LenOf
  <2>2. [f \in Files |-> Referred(f)] = PerFile
    BY <2>1 DEF PerFile
  <2> QED
    BY <2>2 DEF Accounted, DedupAccounting, AllReferred
<1> QED
  BY <1>1, <1>2, <1>3, Invariance, PTL DEF Spec

=============================================================================

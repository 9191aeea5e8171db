------------------------- MODULE InodeFormatProofs -------------------------
(***************************************************************************)
(* Theorems about InodeFormat, for every width of the fields and every inode  *)
(* that the builder may have: what serialize_inode writes, the reader gets    *)
(* back, apart from what does not fit its field.                             *)
(***************************************************************************)
EXTENDS InodeFormat, SequenceTheorems, WellFoundedInduction, TLAPS

-----------------------------------------------------------------------------
(* Induction over the natural numbers, for sets instead of predicates.        *)

LEMMA LeastNat ==
  ASSUME NEW T \in SUBSET Nat, T # {}
  PROVE  \E n \in T : \A m \in T : n <= m
<1>1. \E x \in T : \A y \in T : ~ (<<y, x>> \in OpToRel(<, Nat))
  BY NatLessThanWellFounded, WFMin
<1>2. PICK n \in T : \A y \in T : ~ (<<y, n>> \in OpToRel(<, Nat))
  BY <1>1
<1>3. \A m \in T : m < n => <<m, n>> \in OpToRel(<, Nat)
  BY DEF OpToRel
<1>4. \A m \in T : m \in Nat /\ n \in Nat /\ ~ (m < n)
  BY <1>2, <1>3
<1> QED
  BY <1>4

LEMMA SetInduction ==
  ASSUME NEW S, 0 \in S, \A n \in Nat : n \in S => n + 1 \in S
  PROVE  \A n \in Nat : n \in S
<1> SUFFICES ASSUME \E n \in Nat : n \notin S
             PROVE  FALSE
  OBVIOUS
<1> DEFINE T == Nat \ S
<1>1. T \in SUBSET Nat /\ T # {}
  OBVIOUS
<1>2. PICK n \in T : \A m \in T : n <= m
  BY <1>1, LeastNat
<1>3. n # 0 /\ n \in Nat
  OBVIOUS
<1>4. n - 1 \in Nat /\ n - 1 \notin T
  BY <1>2, <1>3
<1>5. n - 1 \in S /\ (n - 1) + 1 = n
  BY <1>3, <1>4
<1> QED
  BY <1>4, <1>5

-----------------------------------------------------------------------------
(* Arithmetic.                                                             *)

LEMMA DivMod ==
  ASSUME NEW x \in Nat, NEW a \in Nat \ {0}
  PROVE  /\ x = (x \div a) * a + (x % a)
         /\ x \div a \in Nat /\ x % a \in 0 .. a - 1
         /\ (x \div a) * a \in Nat
BY SMT

LEMMA DivModUnique ==
  ASSUME NEW q \in Nat, NEW a \in Nat \ {0}, NEW r \in 0 .. a - 1
  PROVE  (q * a + r) \div a = q /\ (q * a + r) % a = r
BY SMT

LEMMA SmallMod ==
  ASSUME NEW x \in Nat, NEW a \in Nat \ {0}, x < a
  PROVE  x % a = x /\ x \div a = 0
BY SMT

(* n is a number of words.                                                 *)
Words(n) == n \in Nat /\ \E q \in Nat : n = 4 * q

LEMMA WordsAdd ==
  ASSUME NEW m, NEW n, Words(m), Words(n)
  PROVE  Words(m + n)
<1>1. PICK p \in Nat : m = 4 * p
  BY DEF Words
<1>2. PICK q \in Nat : n = 4 * q
  BY DEF Words
<1>3. m + n = 4 * (p + q) /\ p + q \in Nat
  BY <1>1, <1>2
<1> QED
  BY <1>3 DEF Words

(* Rounding up gives words, three cells further at most.                      *)
LEMMA RoundUp4Facts ==
  ASSUME NEW n \in Nat
  PROVE  Words(RoundUp4(n)) /\ n <= RoundUp4(n) /\ RoundUp4(n) <= n + 3
<1> DEFINE q == (n + 3) \div 4
           r == (n + 3) % 4
<1>1. n + 3 = q * 4 + r /\ q \in Nat /\ r \in 0 .. 3
  BY DivMod
<1>2. RoundUp4(n) = q * 4
  BY DEF RoundUp4
<1> HIDE DEF q, r
<1>3. q * 4 = 4 * q /\ q * 4 \in Nat /\ n <= q * 4 /\ q * 4 <= n + 3
  BY <1>1
<1> QED
  BY <1>1, <1>2, <1>3 DEF Words

LEMMA RoundUp4Of ==
  ASSUME NEW m, Words(m), NEW n \in Nat
  PROVE  RoundUp4(m + n) = m + RoundUp4(n)
<1>1. PICK p \in Nat : m = 4 * p
  BY DEF Words
<1>2. (4 * p + n + 3) \div 4 = p + ((n + 3) \div 4)
  BY <1>1, SMT
<1>3. m + n + 3 = 4 * p + n + 3
  BY <1>1
<1>4. RoundUp4(m + n) = (p + ((n + 3) \div 4)) * 4
  BY <1>2, <1>3 DEF RoundUp4
<1>5. (n + 3) \div 4 \in Nat
  BY DivMod
<1> QED
  BY <1>1, <1>4, <1>5 DEF RoundUp4

(* Words that end behind n cells leave room for n rounded up.                *)
LEMMA RoundUp4Below ==
  ASSUME NEW n \in Nat, NEW w, Words(w), n <= w
  PROVE  RoundUp4(n) <= w
<1>1. PICK p \in Nat : w = 4 * p
  BY DEF Words
<1>2. PICK q \in Nat : RoundUp4(n) = 4 * q
  BY RoundUp4Facts DEF Words
<1>3. RoundUp4(n) <= n + 3
  BY RoundUp4Facts
<1> QED
  BY <1>1, <1>2, <1>3

-----------------------------------------------------------------------------
(* The size of the entries.                                                 *)

IsXattr(x) == x.suffix \in Seq(Nat) /\ x.value \in Seq(Nat) /\ x.index \in Nat

AreXattrs(xs) == Len(xs) \in Nat /\ \A i \in 1 .. Len(xs) : IsXattr(xs[i])

LEMMA EntrySizeFacts ==
  ASSUME NEW x, IsXattr(x)
  PROVE  /\ Len(x.suffix) \in Nat /\ Len(x.value) \in Nat
         /\ EntrySize(x) \in Nat /\ Words(EntrySize(x))
         /\ 4 + Len(x.suffix) + Len(x.value) <= EntrySize(x)
         /\ EntrySize(x) >= 4
<1>1. Len(x.suffix) \in Nat /\ Len(x.value) \in Nat
  BY LenProperties DEF IsXattr
<1> DEFINE a == Len(x.suffix)
           b == Len(x.value)
           n == EntryHeader + a + b
<1>3. EntrySize(x) = RoundUp4(n)
  BY DEF EntrySize
<1>6. a \in Nat /\ b \in Nat
  BY <1>1
<1> HIDE DEF a, b
<1>2. n \in Nat /\ n >= 4 /\ n = 4 + a + b
  BY <1>6 DEF EntryHeader
<1> HIDE DEF n
<1>4. Words(RoundUp4(n)) /\ n <= RoundUp4(n)
  BY <1>2, RoundUp4Facts
<1>5. RoundUp4(n) \in Nat
  BY <1>4 DEF Words
<1>7. /\ EntrySize(x) \in Nat /\ Words(EntrySize(x))
      /\ 4 + a + b <= EntrySize(x) /\ EntrySize(x) >= 4
  <2> DEFINE e == EntrySize(x)
  <2>1. e = RoundUp4(n)
    BY <1>3
  <2> HIDE DEF e
  <2>2. e \in Nat /\ Words(e) /\ 4 + a + b <= e /\ e >= 4
    BY ONLY <2>1, <1>2, <1>4, <1>5
  <2> QED
    BY <2>2 DEF e
<1> QED
  BY <1>1, <1>7 DEF a, b

(* Whether s has the sizes of the first entries, up to the n-th.              *)
SizesTo(s, xs, n) ==
  /\ s \in [0 .. n -> Nat]
  /\ s[0] = 0
  /\ \A j \in 1 .. n : s[j] = s[j - 1] + EntrySize(xs[j])

LEMMA SizesExist ==
  ASSUME NEW xs, AreXattrs(xs)
  PROVE  \E s : SizesTo(s, xs, Len(xs))
<1> DEFINE S == {m \in Nat : m <= Len(xs) => \E s : SizesTo(s, xs, m)}
<1>1. 0 \in S
  <2>1. SizesTo([j \in 0 .. 0 |-> 0], xs, 0)
    BY DEF SizesTo
  <2> QED
    BY <2>1
<1>2. ASSUME NEW m \in Nat, m \in S
      PROVE  m + 1 \in S
  <2> SUFFICES ASSUME m + 1 <= Len(xs)
               PROVE  \E s : SizesTo(s, xs, m + 1)
    OBVIOUS
  <2>0. Len(xs) \in Nat
    BY DEF AreXattrs
  <2>1. PICK s : SizesTo(s, xs, m)
    BY <1>2, <2>0
  <2> DEFINE e == EntrySize(xs[m + 1])
             t == [j \in 0 .. m + 1 |-> IF j <= m THEN s[j] ELSE s[m] + e]
  <2>2. e \in Nat
    <3>1. m + 1 \in 1 .. Len(xs)
      BY <2>0
    <3>2. IsXattr(xs[m + 1])
      BY <3>1 DEF AreXattrs
    <3> QED
      BY <3>2, EntrySizeFacts
  <2> HIDE DEF e
  <2>3. /\ s \in [0 .. m -> Nat] /\ s[0] = 0 /\ s[m] \in Nat
        /\ \A j \in 1 .. m : s[j] = s[j - 1] + EntrySize(xs[j])
    BY <2>1 DEF SizesTo
  <2>4. t \in [0 .. m + 1 -> Nat] /\ t[0] = 0
    BY <2>2, <2>3
  <2>5. \A j \in 1 .. m + 1 : t[j] = t[j - 1] + EntrySize(xs[j])
    <3>1. ASSUME NEW j \in 1 .. m
          PROVE  t[j] = t[j - 1] + EntrySize(xs[j])
      BY <2>3
    <3>2. t[m + 1] = t[m] + EntrySize(xs[m + 1])
      BY DEF e
    <3> HIDE DEF t
    <3>3. (m + 1) - 1 = m /\ \A j \in 1 .. m + 1 : j \in 1 .. m \/ j = m + 1
      OBVIOUS
    <3> QED
      BY <3>1, <3>2, <3>3
  <2>6. SizesTo(t, xs, m + 1)
    BY <2>4, <2>5 DEF SizesTo
  <2> QED
    BY <2>6
<1> HIDE DEF S
<1>3. Len(xs) \in S
  BY <1>1, <1>2, SetInduction DEF AreXattrs
<1> QED
  BY <1>3 DEF S, AreXattrs

(* The recursion of EntriesSize has a solution, and it is these sizes.        *)
LEMMA SizeIsLast ==
  ASSUME NEW xs, NEW n \in Nat, NEW s, SizesTo(s, xs, n)
  PROVE  EntriesSize(xs, n) = s[n]
<1> DEFINE Rec(h) == [j \in 0 .. n |-> IF j = 0 THEN 0
                                       ELSE h[j - 1] + EntrySize(xs[j])]
           c == CHOOSE h : h = Rec(h)
<1>1. s = Rec(s)
  <2>1. s \in [0 .. n -> Nat]
    BY DEF SizesTo
  <2>2. \A j \in 0 .. n : s[j] = Rec(s)[j]
    BY DEF SizesTo
  <2>3. DOMAIN Rec(s) = 0 .. n
    OBVIOUS
  <2> QED
    BY <2>1, <2>2
<1>2. c = Rec(c)
  <2> HIDE DEF Rec
  <2> QED
    BY <1>1
<1>3. EntriesSize(xs, n) = c[n]
  BY DEF EntriesSize
<1> HIDE DEF c
<1>4. c[0] = 0 /\ \A j \in 1 .. n : c[j] = c[j - 1] + EntrySize(xs[j])
  <2>1. \A j \in 0 .. n :
          c[j] = IF j = 0 THEN 0 ELSE c[j - 1] + EntrySize(xs[j])
    BY <1>2
  <2> HIDE DEF Rec
  <2> QED
    BY <2>1
<1> DEFINE S == {m \in Nat : m <= n => c[m] = s[m]}
<1> HIDE DEF Rec
<1>5. 0 \in S
  BY <1>4 DEF SizesTo
<1>6. ASSUME NEW m \in Nat, m \in S
      PROVE  m + 1 \in S
  <2> SUFFICES ASSUME m + 1 <= n
               PROVE  c[m + 1] = s[m + 1]
    OBVIOUS
  <2>1. m + 1 \in 1 .. n /\ (m + 1) - 1 = m /\ m <= n
    OBVIOUS
  <2>2. /\ c[m + 1] = c[m] + EntrySize(xs[m + 1])
        /\ s[m + 1] = s[m] + EntrySize(xs[m + 1])
    BY <2>1, <1>4 DEF SizesTo
  <2> QED
    BY <2>1, <2>2, <1>6
<1> HIDE DEF S
<1>7. n \in S
  BY <1>5, <1>6, SetInduction
<1> QED
  BY <1>3, <1>7 DEF S

LEMMA SizesStop ==
  ASSUME NEW xs, NEW m \in Nat, NEW n \in 0 .. m, NEW s, SizesTo(s, xs, m)
  PROVE  SizesTo([j \in 0 .. n |-> s[j]], xs, n)
<1> DEFINE t == [j \in 0 .. n |-> s[j]]
<1>1. /\ s \in [0 .. m -> Nat] /\ s[0] = 0
      /\ \A j \in 1 .. m : s[j] = s[j - 1] + EntrySize(xs[j])
  BY DEF SizesTo
<1>2. t \in [0 .. n -> Nat] /\ t[0] = 0
  BY <1>1
<1>3. \A j \in 1 .. n : t[j] = t[j - 1] + EntrySize(xs[j])
  BY <1>1
<1> QED
  BY <1>2, <1>3 DEF SizesTo

LEMMA EntriesSizeFacts ==
  ASSUME NEW xs, AreXattrs(xs)
  PROVE  /\ EntriesSize(xs, 0) = 0
         /\ \A n \in 0 .. Len(xs) : EntriesSize(xs, n) \in Nat
         /\ \A n \in 1 .. Len(xs) :
              EntriesSize(xs, n) = EntriesSize(xs, n - 1) + EntrySize(xs[n])
<1>1. PICK s : SizesTo(s, xs, Len(xs))
  BY SizesExist
<1>2. Len(xs) \in Nat
  BY DEF AreXattrs
<1>3. \A n \in 0 .. Len(xs) : EntriesSize(xs, n) = s[n]
  <2> SUFFICES ASSUME NEW n \in 0 .. Len(xs)
               PROVE  EntriesSize(xs, n) = s[n]
    OBVIOUS
  <2>1. n \in Nat
    BY <1>2
  <2> DEFINE t == [j \in 0 .. n |-> s[j]]
  <2>2. SizesTo(t, xs, n)
    BY <1>1, <1>2, SizesStop
  <2>3. t[n] = s[n]
    BY <2>1
  <2> HIDE DEF t
  <2> QED
    BY <2>1, <2>2, <2>3, SizeIsLast
<1>4. /\ s \in [0 .. Len(xs) -> Nat] /\ s[0] = 0
      /\ \A j \in 1 .. Len(xs) : s[j] = s[j - 1] + EntrySize(xs[j])
  BY <1>1 DEF SizesTo
<1>5. /\ 0 \in 0 .. Len(xs)
      /\ \A n \in 1 .. Len(xs) : n \in 0 .. Len(xs) /\ n - 1 \in 0 .. Len(xs)
  BY <1>2
<1> QED
  BY <1>3, <1>4, <1>5

(* Entries take words, and later ones lie behind earlier ones.                *)
LEMMA EntriesInWords ==
  ASSUME NEW xs, AreXattrs(xs), NEW n \in 0 .. Len(xs)
  PROVE  Words(EntriesSize(xs, n))
<1> DEFINE S == {m \in Nat : m <= Len(xs) => Words(EntriesSize(xs, m))}
<1>1. 0 \in S
  <2>1. 0 = 4 * 0
    OBVIOUS
  <2>2. Words(0)
    BY <2>1 DEF Words
  <2> QED
    BY <2>2, EntriesSizeFacts
<1>2. ASSUME NEW m \in Nat, m \in S
      PROVE  m + 1 \in S
  <2> SUFFICES ASSUME m + 1 <= Len(xs)
               PROVE  Words(EntriesSize(xs, m + 1))
    OBVIOUS
  <2>1. Len(xs) \in Nat
    BY DEF AreXattrs
  <2>2. m + 1 \in 1 .. Len(xs) /\ (m + 1) - 1 = m /\ m <= Len(xs)
    BY <2>1
  <2>3. EntriesSize(xs, m + 1) = EntriesSize(xs, m) + EntrySize(xs[m + 1])
    BY <2>2, EntriesSizeFacts
  <2>4. Words(EntrySize(xs[m + 1]))
    BY <2>2, EntrySizeFacts DEF AreXattrs
  <2>5. Words(EntriesSize(xs, m))
    BY <1>2, <2>2
  <2> QED
    BY <2>3, <2>4, <2>5, WordsAdd
<1> HIDE DEF S
<1>3. n \in Nat /\ n <= Len(xs)
  BY DEF AreXattrs
<1>4. n \in S
  BY <1>1, <1>2, <1>3, SetInduction
<1> QED
  BY <1>3, <1>4 DEF S

LEMMA EntriesInOrder ==
  ASSUME NEW xs, AreXattrs(xs), NEW n \in 0 .. Len(xs), NEW m \in 0 .. n
  PROVE  EntriesSize(xs, m) <= EntriesSize(xs, n)
<1> DEFINE S == {d \in Nat : m + d <= Len(xs) =>
                               EntriesSize(xs, m) <= EntriesSize(xs, m + d)}
<1>0. Len(xs) \in Nat /\ m \in Nat /\ n \in Nat /\ m <= n /\ n <= Len(xs)
  BY DEF AreXattrs
<1>1. 0 \in S
  <2>1. m \in 0 .. Len(xs) /\ m + 0 = m
    BY <1>0
  <2>2. EntriesSize(xs, m) \in Nat
    BY <2>1, EntriesSizeFacts
  <2> QED
    BY <2>1, <2>2
<1>2. ASSUME NEW d \in Nat, d \in S
      PROVE  d + 1 \in S
  <2> SUFFICES ASSUME m + (d + 1) <= Len(xs)
               PROVE  EntriesSize(xs, m) <= EntriesSize(xs, m + (d + 1))
    OBVIOUS
  <2>1. /\ m + (d + 1) \in 1 .. Len(xs) /\ (m + (d + 1)) - 1 = m + d
        /\ m + d \in 0 .. Len(xs) /\ m \in 0 .. Len(xs) /\ m + d <= Len(xs)
    BY <1>0
  <2>2. EntriesSize(xs, m + (d + 1))
          = EntriesSize(xs, m + d) + EntrySize(xs[m + (d + 1)])
    BY <2>1, EntriesSizeFacts
  <2>3. EntrySize(xs[m + (d + 1)]) \in Nat
    BY <2>1, EntrySizeFacts DEF AreXattrs
  <2>4. EntriesSize(xs, m + d) \in Nat /\ EntriesSize(xs, m) \in Nat
    BY <2>1, EntriesSizeFacts
  <2>5. EntriesSize(xs, m) <= EntriesSize(xs, m + d)
    BY <1>2, <2>1
  <2> QED
    BY ONLY <2>2, <2>3, <2>4, <2>5
<1> HIDE DEF S
<1>3. n - m \in Nat /\ m + (n - m) = n
  BY <1>0
<1>4. n - m \in S
  BY <1>1, <1>2, <1>3, SetInduction
<1> QED
  BY <1>0, <1>3, <1>4 DEF S

(* The sizes of equal entries are equal.                                     *)
LEMMA SameEntries ==
  ASSUME NEW xs, NEW ys, AreXattrs(xs), AreXattrs(ys),
         NEW n \in Nat, n <= Len(xs), n <= Len(ys),
         \A i \in 1 .. n : xs[i] = ys[i]
  PROVE  EntriesSize(xs, n) = EntriesSize(ys, n)
<1>0. Len(xs) \in Nat /\ Len(ys) \in Nat
  BY DEF AreXattrs
<1>1. PICK s : SizesTo(s, xs, Len(xs))
  BY SizesExist
<1> DEFINE t == [j \in 0 .. n |-> s[j]]
<1>2. SizesTo(t, xs, n)
  BY <1>0, <1>1, SizesStop
<1> HIDE DEF t
<1>3. SizesTo(t, ys, n)
  BY <1>2 DEF SizesTo
<1> QED
  BY <1>2, <1>3, SizeIsLast

-----------------------------------------------------------------------------
(* The header.                                                             *)

LEMMA WidthFacts ==
  /\ U8 \in Nat \ {0} /\ U16 \in Nat \ {0} /\ U32 \in Nat \ {0}
  /\ U16 * U32 \in Nat \ {0}
  /\ BlkSzBits \in Nat /\ Epoch \in Nat
<1>1. /\ U8 \in Nat \ {0} /\ U16 \in Nat \ {0} /\ U32 \in Nat \ {0}
      /\ BlkSzBits \in Nat /\ Epoch \in Nat
  BY FormatAssumption
<1>2. U16 * U32 \in Nat \ {0}
  BY ONLY <1>1, SMT
<1> QED
  BY <1>1, <1>2

(* The reader takes the form and the layout of the header for what they are.  *)
LEMMA FormatRead ==
  ASSUME NEW i, i.kind \in {"reg", "dir", "lnk", "dev", "fifo"}
  PROVE  /\ (IFormat(i) % 2 = 1) <=> IsExtended(i)
         /\ (IFormat(i) \div 2) % 8 = Layout(i)
<1>1. Layout(i) \in {0, 2, 4}
  BY DEF Layout, ChunkBased, FlatInline, FlatPlain
<1> DEFINE l == Layout(i)
           e == IsExtended(i)
<1>2. CASE e
  <2>1. IFormat(i) = 1 + 2 * l
    BY <1>2 DEF IFormat
  <2> HIDE DEF l, e
  <2>2. (1 + 2 * l) % 2 = 1 /\ ((1 + 2 * l) \div 2) % 8 = l
    BY <1>1 DEF l
  <2> QED
    BY <1>2, <2>1, <2>2 DEF l, e
<1>3. CASE ~ e
  <2>1. IFormat(i) = 2 * l + 0 \/ IFormat(i) = 2 * l + 16
    BY <1>3 DEF IFormat
  <2> HIDE DEF l, e
  <2>2. /\ (2 * l + 0) % 2 = 0 /\ ((2 * l + 0) \div 2) % 8 = l
        /\ (2 * l + 16) % 2 = 0 /\ ((2 * l + 16) \div 2) % 8 = l
    BY <1>1 DEF l
  <2> QED
    BY <1>3, <2>1, <2>2 DEF l, e
<1> QED
  BY <1>2, <1>3

(* A start block of 48 bits is put together again from its halves.            *)
LEMMA StartblkRead ==
  ASSUME NEW s \in Nat, s < U16 * U32
  PROVE  ((s \div U32) % U16) * U32 + (s % U32) = s
<1> DEFINE q == s \div U32
           r == s % U32
<1>1. s = q * U32 + r /\ q \in Nat /\ r \in 0 .. U32 - 1 /\ q * U32 \in Nat
  BY WidthFacts, DivMod
<1> HIDE DEF q, r
<1>2. q < U16
  <2>1. ~ (U16 <= q)
    <3>1. U16 <= q => U16 * U32 <= q * U32
      BY <1>1, WidthFacts, SMT
    <3> DEFINE a == U16 * U32
               b == q * U32
    <3>2. a \in Nat /\ b \in Nat /\ s < a /\ s = b + r
      BY <1>1, WidthFacts
    <3> HIDE DEF a, b
    <3>3. ~ (a <= b)
      BY <1>1, <3>2, WidthFacts
    <3> QED
      BY <3>1, <3>3 DEF a, b
  <2> QED
    BY <1>1, <2>1, WidthFacts
<1>3. q % U16 = q
  BY <1>1, <1>2, WidthFacts, SmallMod
<1> QED
  BY <1>1, <1>3 DEF q, r

(* The chunk bits are the low bits of the chunk format.                       *)
LEMMA ChunkbitsRead ==
  ASSUME NEW c \in BlkSzBits .. BlkSzBits + 31
  PROVE  BlkSzBits + (ChunkFormat(c) % 32) = c
<1> DEFINE d == c - BlkSzBits
<1>1. d \in 0 .. 31 /\ BlkSzBits + d = c /\ ChunkFormat(c) = 32 + d
  BY WidthFacts DEF ChunkFormat
<1> HIDE DEF d
<1>2. (1 * 32 + d) % 32 = d
  BY <1>1, DivModUnique
<1> QED
  BY <1>1, <1>2

(* The time of a compact inode: the difference is taken modulo 2^32 by the    *)
(* writer and added as it is by the reader.                                  *)
LEMMA MtimeRead ==
  ASSUME NEW t \in Nat, t \in Epoch - U32 .. Epoch + U32 - 1
  PROVE  Epoch + MtimeDelta(t) = t + (IF t >= Epoch THEN 0 ELSE U32)
<1> DEFINE d == t - Epoch
<1>1. d \in Int /\ d >= - U32 /\ d < U32 /\ MtimeDelta(t) = d % U32
  BY WidthFacts DEF MtimeDelta
<1>2. CASE t >= Epoch
  <2>1. d \in Nat /\ d < U32 /\ Epoch + d = t
    BY <1>1, <1>2, WidthFacts
  <2> HIDE DEF d
  <2>2. d % U32 = d
    BY <2>1, WidthFacts, SmallMod
  <2> QED
    BY <1>1, <1>2, <2>1, <2>2
<1>3. CASE ~ (t >= Epoch)
  <2>1. d + U32 \in Nat /\ d + U32 < U32 /\ Epoch + d = t
    BY <1>1, <1>3, WidthFacts
  <2>2. d % U32 = (d + U32) % U32
    <3> HIDE DEF d
    <3> QED
      BY ONLY <1>1, WidthFacts, SMT
  <2> HIDE DEF d
  <2>3. (d + U32) % U32 = d + U32
    BY <2>1, WidthFacts, SmallMod
  <2>4. Epoch + (d + U32) = t + U32
    BY <1>1, <2>1, WidthFacts
  <2> QED
    BY <1>1, <1>3, <2>2, <2>3, <2>4
<1> QED
  BY <1>2, <1>3

(* What the narrow fields can hold beyond what the choice of the header       *)
(* covers: the data of a directory is shorter than 2^32 bytes and starts below *)
(* block 2^48, and a time in a compact inode is within 2^32 seconds of the     *)
(* build's.  serialize_inode takes all of it for granted.                     *)
Representable(i) ==
  /\ i.kind = "dir" => (IsExtended(i) \/ i.size < U32) /\ i.startblk < U16 * U32
  /\ IsExtended(i) \/ i.mtime \in Epoch - U32 .. Epoch + U32 - 1

LEMMA CompactFits ==
  ASSUME NEW i, InodeOK(i), Representable(i), ~ IsExtended(i)
  PROVE  /\ i.size % U32 = i.size /\ i.uid % U16 = i.uid
         /\ i.gid % U16 = i.gid /\ i.nlink = 1
<1>1. /\ i.uid \in Nat /\ i.gid \in Nat /\ i.nlink \in Nat \ {0}
      /\ i.size \in Nat /\ i.statSize \in Nat
      /\ i.kind \in {"reg", "dir", "lnk", "dev", "fifo"}
      /\ i.kind = "reg" => i.statSize = i.size
      /\ i.kind = "lnk" => i.size < U32
      /\ i.kind \in {"dev", "fifo"} => i.size = 0
  BY DEF InodeOK
<1>2. /\ ~ (i.statSize >= U32) /\ ~ (i.uid >= U16) /\ ~ (i.gid >= U16)
      /\ ~ (i.nlink > 1)
  BY DEF IsExtended, Above
<1>3. i.kind = "dir" => i.size < U32
  BY DEF Representable
<1> DEFINE size == i.size
           uid == i.uid
           gid == i.gid
           nlink == i.nlink
           stat == i.statSize
<1>4. /\ size \in Nat /\ uid \in Nat /\ gid \in Nat /\ nlink \in Nat \ {0}
      /\ stat \in Nat /\ ~ (stat >= U32) /\ ~ (uid >= U16) /\ ~ (gid >= U16)
      /\ ~ (nlink > 1)
      /\ size = stat \/ size < U32 \/ size = 0
  BY <1>1, <1>2, <1>3
<1> HIDE DEF size, uid, gid, nlink, stat
<1>5. size < U32 /\ uid < U16 /\ gid < U16 /\ nlink = 1
  BY <1>4, WidthFacts
<1>6. size % U32 = size /\ uid % U16 = uid /\ gid % U16 = gid
  BY <1>4, <1>5, WidthFacts, SmallMod
<1> QED
  BY <1>5, <1>6 DEF size, uid, gid, nlink

LEMMA SizeFieldIs ==
  ASSUME NEW i, InodeOK(i)
  PROVE  SizeField(i) = i.size
BY DEF InodeOK, SizeField

(* The fields of the header that the reader finds.                            *)
LEMMA HeaderFields ==
  ASSUME hdr = Header(inode)
  PROVE  /\ hdr.fmt = IFormat(inode)
         /\ hdr.icount = Icount(IbodySize(inode.xattrs))
         /\ hdr.mode = inode.kind /\ hdr.nb = INb(inode) /\ hdr.iu = IU(inode)
         /\ IsExtended(inode) =>
              /\ hdr.size = SizeField(inode)
              /\ hdr.uid = inode.uid /\ hdr.gid = inode.gid
              /\ hdr.mtime = inode.mtime /\ hdr.nsec = inode.nsec
              /\ hdr.nlink = inode.nlink
         /\ ~ IsExtended(inode) =>
              /\ hdr.size = SizeField(inode) % U32
              /\ hdr.uid = inode.uid % U16 /\ hdr.gid = inode.gid % U16
              /\ hdr.mtime = MtimeDelta(inode.mtime)
<1>1. CASE IsExtended(inode)
  BY <1>1 DEF Header
<1>2. CASE ~ IsExtended(inode)
  BY <1>2 DEF Header
<1> QED
  BY <1>1, <1>2

LEMMA FormRead ==
  ASSUME InodeOK(inode), hdr = Header(inode)
  PROVE  /\ RdExtended <=> IsExtended(inode)
         /\ RdLayout = Layout(inode)
<1>1. hdr.fmt = IFormat(inode)
  BY HeaderFields
<1>2. inode.kind \in {"reg", "dir", "lnk", "dev", "fifo"}
  BY DEF InodeOK
<1> QED
  BY <1>1, <1>2, FormatRead DEF RdExtended, RdLayout

LEMMA AttributesRead ==
  ASSUME InodeOK(inode), Representable(inode), hdr = Header(inode)
  PROVE  AttributesPreserved
<1>1. RdExtended <=> IsExtended(inode)
  BY FormRead
<1>2. View.kind = inode.kind
  BY HeaderFields DEF View
<1>3. /\ View.size = hdr.size /\ View.uid = hdr.uid /\ View.gid = hdr.gid
      /\ View.nlink = IF RdExtended THEN hdr.nlink ELSE 1
      /\ View.mtime = IF RdExtended THEN hdr.mtime ELSE Epoch + hdr.mtime
      /\ View.nsec = IF RdExtended THEN hdr.nsec ELSE 0
      /\ View.startblk = hdr.nb * U32 + hdr.iu
      /\ View.rdev = hdr.iu
      /\ View.chunkbits = BlkSzBits + (hdr.iu % 32)
  BY DEF View
<1>4. /\ View.size = inode.size /\ View.uid = inode.uid /\ View.gid = inode.gid
      /\ View.nlink = inode.nlink
  <2>1. CASE IsExtended(inode)
    BY <1>1, <1>3, <2>1, HeaderFields, SizeFieldIs
  <2>2. CASE ~ IsExtended(inode)
    BY <1>1, <1>3, <2>2, HeaderFields, SizeFieldIs, CompactFits
  <2> QED
    BY <2>1, <2>2
<1>5. inode.kind = "reg" => View.chunkbits = inode.chunkbits
  <2> SUFFICES ASSUME inode.kind = "reg"
               PROVE  View.chunkbits = inode.chunkbits
    OBVIOUS
  <2>1. hdr.iu = ChunkFormat(inode.chunkbits)
    BY HeaderFields DEF IU
  <2>2. inode.chunkbits \in BlkSzBits .. BlkSzBits + 31
    BY DEF InodeOK
  <2> QED
    BY <1>3, <2>1, <2>2, ChunkbitsRead
<1>6. inode.kind = "dir" => View.startblk = inode.startblk
  <2> SUFFICES ASSUME inode.kind = "dir"
               PROVE  View.startblk = inode.startblk
    OBVIOUS
  <2>1. /\ hdr.iu = inode.startblk % U32
        /\ hdr.nb = (inode.startblk \div U32) % U16
    BY HeaderFields DEF IU, INb
  <2>2. inode.startblk \in Nat /\ inode.startblk < U16 * U32
    BY DEF InodeOK, Representable
  <2> QED
    BY <1>3, <2>1, <2>2, StartblkRead
<1>7. inode.kind = "dev" => View.rdev = inode.rdev
  <2> SUFFICES ASSUME inode.kind = "dev"
               PROVE  View.rdev = inode.rdev
    OBVIOUS
  <2>1. hdr.iu = inode.rdev % U32
    BY HeaderFields DEF IU
  <2>2. inode.rdev \in Nat /\ inode.rdev < U32
    <3>1. inode.rdev \in 0 .. U32 - 1
      BY DEF InodeOK
    <3> QED
      BY ONLY <3>1, WidthFacts
  <2> QED
    BY <1>3, <2>1, <2>2, SmallMod, WidthFacts
<1>8. View.mtime = inode.mtime + (IF RdExtended \/ inode.mtime >= Epoch THEN 0
                                  ELSE U32)
  <2>0. inode.mtime \in Nat
    BY DEF InodeOK
  <2>1. CASE IsExtended(inode)
    <3>1. View.mtime = inode.mtime
      BY <1>1, <1>3, <2>1, HeaderFields
    <3> QED
      BY <1>1, <2>0, <2>1, <3>1
  <2>2. CASE ~ IsExtended(inode)
    <3>1. View.mtime = Epoch + MtimeDelta(inode.mtime)
      BY <1>1, <1>3, <2>2, HeaderFields
    <3>2. inode.mtime \in Epoch - U32 .. Epoch + U32 - 1
      BY <2>2 DEF Representable
    <3> QED
      BY <1>1, <2>0, <2>2, <3>1, <3>2, MtimeRead
  <2> QED
    BY <2>1, <2>2
<1>9. RdExtended => View.nsec = inode.nsec
  BY <1>1, <1>3, HeaderFields
<1> QED
  BY <1>2, <1>4, <1>5, <1>6, <1>7, <1>8, <1>9 DEF AttributesPreserved

-----------------------------------------------------------------------------
(* The cells of an inode's metadata.                                         *)

(* A sequence is in the cells behind the first b.                            *)
At(cells, b, data) == \A c \in 1 .. Len(data) : cells[b + c] = data[c]

LEMMA PutFacts ==
  ASSUME NEW m \in Nat, NEW cells \in [1 .. m -> Nat], NEW b \in Nat,
         NEW data \in Seq(Nat), b + Len(data) <= m
  PROVE  /\ Put(cells, b, data) \in [1 .. m -> Nat]
         /\ At(Put(cells, b, data), b, data)
         /\ \A c \in 1 .. m : c <= b \/ c > b + Len(data) =>
              Put(cells, b, data)[c] = cells[c]
<1> DEFINE n == Len(data)
           p == Put(cells, b, data)
<1>1. n \in Nat /\ \A c \in 1 .. n : data[c] \in Nat
  BY LenProperties, ElementOfSeq
<1>2. p = [c \in 1 .. m |-> IF c \in b + 1 .. b + n THEN data[c - b] ELSE cells[c]]
  BY DEF Put
<1> HIDE DEF p
<1>3. p \in [1 .. m -> Nat]
  BY <1>1, <1>2
<1>4. ASSUME NEW c \in 1 .. n
      PROVE  p[b + c] = data[c]
  <2>1. b + c \in 1 .. m /\ b + c \in b + 1 .. b + n /\ (b + c) - b = c
    BY <1>1
  <2> QED
    BY <1>2, <2>1
<1>5. ASSUME NEW c \in 1 .. m, c <= b \/ c > b + n
      PROVE  p[c] = cells[c]
  BY <1>1, <1>2, <1>5
<1> QED
  BY <1>3, <1>4, <1>5 DEF At, p

(* What is behind b and not touched stays.                                   *)
LEMMA AtStays ==
  ASSUME NEW m \in Nat, NEW cells \in [1 .. m -> Nat], NEW b \in Nat,
         NEW data \in Seq(Nat), b + Len(data) <= m,
         NEW a \in Nat, NEW old \in Seq(Nat), a + Len(old) <= b,
         At(cells, a, old)
  PROVE  At(Put(cells, b, data), a, old)
<1> SUFFICES ASSUME NEW c \in 1 .. Len(old)
             PROVE  Put(cells, b, data)[a + c] = old[c]
  BY DEF At
<1>1. Len(old) \in Nat /\ Len(data) \in Nat
  BY LenProperties
<1>2. a + c \in 1 .. m /\ a + c <= b
  BY <1>1
<1>3. cells[a + c] = old[c]
  BY DEF At
<1>4. Put(cells, b, data)[a + c] = cells[a + c]
  BY ONLY <1>1, <1>2, m \in Nat, cells \in [1 .. m -> Nat], b \in Nat DEF Put
<1> QED
  BY ONLY <1>3, <1>4

-----------------------------------------------------------------------------
(* What is written.                                                        *)

LEMMA ConcatNat ==
  ASSUME NEW s \in Seq(Nat), NEW t \in Seq(Nat), NEW m, NEW n,
         Len(s) = m, Len(t) = n
  PROVE  /\ s \o t \in Seq(Nat) /\ Len(s \o t) = m + n
         /\ \A c \in 1 .. m + n :
              (s \o t)[c] = IF c <= m THEN s[c] ELSE t[c - m]
BY ConcatProperties

(* The entry of an xattr.                                                   *)
LEMMA EntryCellsFacts ==
  ASSUME NEW x, IsXattr(x)
  PROVE  /\ EntryCells(x) \in Seq(Nat)
         /\ Len(EntryCells(x)) = 4 + Len(x.suffix) + Len(x.value)
         /\ EntryCells(x)[1] = Len(x.suffix) % U8
         /\ EntryCells(x)[2] = x.index
         /\ EntryCells(x)[3] = Len(x.value) % U16
         /\ \A c \in 1 .. Len(x.suffix) : EntryCells(x)[4 + c] = x.suffix[c]
         /\ \A c \in 1 .. Len(x.value) :
              EntryCells(x)[4 + Len(x.suffix) + c] = x.value[c]
<1> DEFINE s == x.suffix
           v == x.value
           h == <<Len(s) % U8, x.index, Len(v) % U16, 0>>
           hs == h \o s
           e == hs \o v
<1>1. s \in Seq(Nat) /\ v \in Seq(Nat) /\ x.index \in Nat
  BY DEF IsXattr
<1>2. EntryCells(x) = e
  BY DEF EntryCells
<1> HIDE DEF s, v
<1>3. Len(s) \in Nat /\ Len(v) \in Nat
  BY <1>1, LenProperties
<1>4. Len(s) % U8 \in Nat /\ Len(v) % U16 \in Nat
  BY <1>3, WidthFacts, DivMod
<1>5. /\ h \in Seq(Nat) /\ Len(h) = 4
      /\ h[1] = Len(s) % U8 /\ h[2] = x.index /\ h[3] = Len(v) % U16
  BY <1>1, <1>4
<1> HIDE DEF h
<1>6. /\ hs \in Seq(Nat) /\ Len(hs) = 4 + Len(s)
      /\ \A c \in 1 .. 4 + Len(s) : hs[c] = IF c <= 4 THEN h[c] ELSE s[c - 4]
  <2> DEFINE a == Len(s)
             b == 4
  <2>1. Len(s) = a /\ h \in Seq(Nat) /\ s \in Seq(Nat) /\ Len(h) = b
    BY ONLY <1>1, <1>5
  <2> HIDE DEF a, b
  <2>2. /\ h \o s \in Seq(Nat) /\ Len(h \o s) = b + a
        /\ \A c \in 1 .. b + a :
             (h \o s)[c] = IF c <= b THEN h[c] ELSE s[c - b]
    BY ONLY SMTT(30), <2>1, ConcatNat
  <2> QED
    BY ONLY <2>2, Zenon DEF hs, a, b
<1> HIDE DEF hs
<1>7. /\ e \in Seq(Nat) /\ Len(e) = 4 + Len(s) + Len(v)
      /\ \A c \in 1 .. 4 + Len(s) + Len(v) :
           e[c] = IF c <= 4 + Len(s) THEN hs[c] ELSE v[c - (4 + Len(s))]
  <2> DEFINE a == 4 + Len(s)
             b == Len(v)
  <2>1. Len(v) = b /\ hs \in Seq(Nat) /\ v \in Seq(Nat) /\ Len(hs) = a
    BY ONLY <1>1, <1>6
  <2> HIDE DEF a, b
  <2>2. /\ hs \o v \in Seq(Nat) /\ Len(hs \o v) = a + b
        /\ \A c \in 1 .. a + b :
             (hs \o v)[c] = IF c <= a THEN hs[c] ELSE v[c - a]
    BY ONLY SMTT(30), <2>1, ConcatNat
  <2> QED
    BY ONLY <2>2, Zenon DEF e, a, b
<1> HIDE DEF e
<1>8. ASSUME NEW c \in 1 .. 4
      PROVE  e[c] = h[c]
  <2>1. c \in 1 .. 4 + Len(s) /\ c \in 1 .. 4 + Len(s) + Len(v)
        /\ c <= 4 /\ c <= 4 + Len(s)
    BY ONLY <1>3, <1>8
  <2>2. e[c] = hs[c]
    BY ONLY <1>7, <2>1
  <2>3. hs[c] = h[c]
    BY ONLY <1>6, <2>1
  <2> QED
    BY ONLY <2>2, <2>3
<1>9. ASSUME NEW c \in 1 .. Len(s)
      PROVE  e[4 + c] = s[c]
  <2>1. 4 + c \in 1 .. 4 + Len(s) /\ 4 + c \in 1 .. 4 + Len(s) + Len(v)
        /\ ~ (4 + c <= 4) /\ 4 + c <= 4 + Len(s) /\ (4 + c) - 4 = c
    BY <1>3
  <2> QED
    BY <1>6, <1>7, <2>1
<1>10. ASSUME NEW c \in 1 .. Len(v)
       PROVE  e[4 + Len(s) + c] = v[c]
  <2>1. /\ 4 + Len(s) + c \in 1 .. 4 + Len(s) + Len(v)
        /\ ~ (4 + Len(s) + c <= 4 + Len(s))
        /\ (4 + Len(s) + c) - (4 + Len(s)) = c
    BY <1>3
  <2> QED
    BY <1>7, <2>1
<1>11. e[1] = h[1] /\ e[2] = h[2] /\ e[3] = h[3]
  BY <1>8
<1> QED
  BY <1>2, <1>5, <1>7, <1>9, <1>10, <1>11 DEF s, v

LEMMA InodeXattrs ==
  ASSUME NEW i, InodeOK(i)
  PROVE  /\ AreXattrs(i.xattrs)
         /\ i.xattrs \in Seq([index : Nat, suffix : Seq(Nat), value : Seq(Nat)])
         /\ \A x \in 1 .. Len(i.xattrs) : Len(i.xattrs[x].suffix) < U8
         /\ i.xattrs = << >> <=> Len(i.xattrs) = 0
<1> DEFINE xs == i.xattrs
           X == [index : Nat, suffix : Seq(Nat), value : Seq(Nat)]
<1>1. xs \in Seq(X) /\ \A x \in DOMAIN xs : Len(xs[x].suffix) < U8
  BY DEF InodeOK
<1> HIDE DEF xs
<1>2. Len(xs) \in Nat /\ DOMAIN xs = 1 .. Len(xs)
  BY <1>1, LenProperties
<1>3. \A x \in 1 .. Len(xs) : xs[x] \in X
  BY <1>1, ElementOfSeq
<1>4. AreXattrs(xs)
  BY <1>2, <1>3 DEF AreXattrs, IsXattr
<1>5. xs = << >> <=> Len(xs) = 0
  BY <1>1, EmptySeq
<1> QED
  BY <1>1, <1>2, <1>4, <1>5 DEF xs

LEMMA IbodyFacts ==
  ASSUME NEW i, InodeOK(i)
  PROVE  /\ IbodySize(i.xattrs) \in Nat /\ Words(IbodySize(i.xattrs))
         /\ Len(i.xattrs) = 0 => IbodySize(i.xattrs) = 0
         /\ Len(i.xattrs) # 0 =>
              /\ IbodySize(i.xattrs) = 12 + EntriesSize(i.xattrs, Len(i.xattrs))
              /\ IbodySize(i.xattrs) >= 16
<1> DEFINE xs == i.xattrs
           n == Len(xs)
           t == EntriesSize(xs, n)
           s == IbodySize(xs)
<1>1. AreXattrs(xs) /\ n \in Nat /\ (xs = << >> <=> n = 0)
  BY InodeXattrs DEF AreXattrs
<1> HIDE DEF xs
<1>2. n \in 0 .. n
  BY <1>1
<1>3. t \in Nat /\ Words(t)
  BY <1>1, <1>2, EntriesSizeFacts, EntriesInWords
<1>4. CASE n = 0
  <2>1. s = 0
    BY <1>1, <1>4 DEF IbodySize
  <2>2. 0 = 4 * 0
    OBVIOUS
  <2> QED
    BY <1>4, <2>1, <2>2 DEF xs, Words
<1>5. CASE n # 0
  <2>1. s = 12 + t
    BY <1>1, <1>5 DEF IbodySize, IbodyHeader
  <2>2. 12 = 4 * 3
    OBVIOUS
  <2>3. Words(12)
    BY <2>2 DEF Words
  <2>4. Words(s)
    BY <1>3, <2>1, <2>3, WordsAdd
  <2>5. t >= 4
    <3>1. n \in 1 .. n /\ n - 1 \in 0 .. n
      BY <1>1, <1>5
    <3>2. t = EntriesSize(xs, n - 1) + EntrySize(xs[n])
      BY <1>1, <3>1, EntriesSizeFacts
    <3>3. EntriesSize(xs, n - 1) \in Nat
      BY <1>1, <3>1, EntriesSizeFacts
    <3>4. IsXattr(xs[n])
      BY <1>1, <3>1 DEF AreXattrs
    <3>5. EntrySize(xs[n]) \in Nat /\ EntrySize(xs[n]) >= 4
      BY <3>4, EntrySizeFacts
    <3> HIDE DEF n, t
    <3> QED
      BY <3>2, <3>3, <3>5
  <2>6. s >= 16 /\ s \in Nat
    <3> HIDE DEF s, t
    <3> QED
      BY <1>3, <2>1, <2>5
  <2> QED
    BY <1>5, <2>1, <2>4, <2>6 DEF xs
<1> QED
  BY <1>4, <1>5

LEMMA HeaderSizeFacts ==
  ASSUME NEW e
  PROVE  HeaderSize(e) \in Nat
BY DEF HeaderSize, ExtendedSize, CompactSize

LEMMA NullAddrNat == NullAddr \in Nat
<1>1. U16 * U16 * U32 \in Nat \ {0}
  BY WidthFacts, SMT
<1> QED
  BY <1>1 DEF NullAddr

LEMMA ChunkIndexFacts ==
  ASSUME NEW a \in 0 .. NullAddr
  PROVE  /\ ChunkIndex(a) \in Seq(Nat) /\ Len(ChunkIndex(a)) = 8
         /\ ChunkIndex(a)[1] = IF a = NullAddr THEN U16 - 1
                               ELSE (a \div U32) % U16
         /\ ChunkIndex(a)[3] = IF a = NullAddr THEN U32 - 1 ELSE a % U32
<1>1. a \in Nat
  BY NullAddrNat
<1>2. U16 - 1 \in Nat /\ U32 - 1 \in Nat
  BY WidthFacts
<1>3. a \div U32 \in Nat /\ a % U32 \in Nat
  <2>1. U32 \in Nat \ {0}
    BY WidthFacts
  <2>2. a \div U32 \in Nat /\ a % U32 \in 0 .. U32 - 1
    BY ONLY <1>1, <2>1, DivMod
  <2> QED
    BY ONLY <2>1, <2>2
<1>4. (a \div U32) % U16 \in Nat
  <2>1. U16 \in Nat \ {0}
    BY WidthFacts
  <2>2. (a \div U32) % U16 \in 0 .. U16 - 1
    BY ONLY <1>3, <2>1, DivMod
  <2> QED
    BY ONLY <2>1, <2>2
<1> DEFINE q == (a \div U32) % U16
           r == a % U32
<1>5. q \in Nat /\ r \in Nat
  BY <1>3, <1>4
<1>6. ChunkIndex(a) = IF a = NullAddr
        THEN <<U16 - 1, U16 - 1, U32 - 1, 0, 0, 0, 0, 0>>
        ELSE <<q, 1, r, 0, 0, 0, 0, 0>>
  BY DEF ChunkIndex
<1> HIDE DEF q, r
<1>7. CASE a = NullAddr
  BY <1>2, <1>6, <1>7
<1>8. CASE a # NullAddr
  BY <1>5, <1>6, <1>8 DEF q, r
<1> QED
  BY <1>7, <1>8

(* The cells of the c-th chunk index among those of all.                      *)
LEMMA ChunkIndexesFacts ==
  ASSUME NEW cs \in Seq(0 .. NullAddr)
  PROVE  /\ ChunkIndexes(cs) \in Seq(Nat)
         /\ Len(ChunkIndexes(cs)) = Len(cs) * 8 /\ Len(cs) * 8 \in Nat
         /\ \A c \in 1 .. Len(cs) : \A j \in 1 .. 8 :
              ChunkIndexes(cs)[(c - 1) * 8 + j] = ChunkIndex(cs[c])[j]
<1> DEFINE n == Len(cs)
           m == n * 8
           t == ChunkIndexes(cs)
<1>1. n \in Nat /\ m \in Nat /\ \A c \in 1 .. n : cs[c] \in 0 .. NullAddr
  <2>1. n \in Nat /\ \A c \in 1 .. n : cs[c] \in 0 .. NullAddr
    BY LenProperties, ElementOfSeq
  <2> HIDE DEF n
  <2>2. n * 8 \in Nat
    BY ONLY <2>1
  <2> QED
    BY <2>1, <2>2 DEF n
<1>2. t = [p \in 1 .. m |-> ChunkIndex(cs[((p - 1) \div 8) + 1])
                              [((p - 1) % 8) + 1]]
  BY DEF ChunkIndexes, ChunkIndexSize
<1> HIDE DEF n, m, t
<1>3. ASSUME NEW p \in 1 .. m
      PROVE  t[p] \in Nat
  <2> DEFINE q == (p - 1) \div 8
             r == (p - 1) % 8
  <2>1. p - 1 \in Nat
    BY <1>1
  <2>2. p - 1 = q * 8 + r /\ q \in Nat /\ r \in 0 .. 7
    <3>1. 8 \in Nat \ {0}
      OBVIOUS
    <3>2. p - 1 = q * 8 + r /\ q \in Nat /\ r \in 0 .. 8 - 1
      BY ONLY <2>1, <3>1, DivMod
    <3> QED
      BY <3>2
  <2>3. t[p] = ChunkIndex(cs[q + 1])[r + 1]
    BY <1>2
  <2> HIDE DEF q, r
  <2>4. q + 1 \in 1 .. n /\ r + 1 \in 1 .. 8
    BY <1>1, <2>2 DEF m
  <2>5. /\ ChunkIndex(cs[q + 1]) \in Seq(Nat)
        /\ Len(ChunkIndex(cs[q + 1])) = 8
    BY <1>1, <2>4, ChunkIndexFacts
  <2>6. ChunkIndex(cs[q + 1])[r + 1] \in Nat
    BY <2>4, <2>5, ElementOfSeq
  <2> QED
    BY <2>3, <2>6
<1>4. t \in Seq(Nat) /\ Len(t) = m
  <2>1. t \in [1 .. m -> Nat]
    BY <1>2, <1>3
  <2> QED
    BY <1>1, <2>1
<1>5. ASSUME NEW c \in 1 .. n, NEW j \in 1 .. 8
      PROVE  t[(c - 1) * 8 + j] = ChunkIndex(cs[c])[j]
  <2> DEFINE p == (c - 1) * 8 + j
             q == c - 1
             r == j - 1
  <2>1. /\ p \in 1 .. m /\ p - 1 = q * 8 + r /\ q \in Nat /\ r \in 0 .. 7
        /\ q + 1 = c /\ r + 1 = j
    BY <1>1 DEF m
  <2>2. (p - 1) \div 8 = q /\ (p - 1) % 8 = r
    <3> HIDE DEF p, q, r
    <3> QED
      BY <2>1, DivModUnique
  <2>3. t[p] = ChunkIndex(cs[((p - 1) \div 8) + 1])[((p - 1) % 8) + 1]
    <3> HIDE DEF p
    <3> QED
      BY <1>2, <2>1
  <2> HIDE DEF p, q, r
  <2>4. t[p] = ChunkIndex(cs[c])[j]
    BY <2>1, <2>2, <2>3
  <2> QED
    BY <2>4 DEF p
<1> QED
  BY <1>1, <1>4, <1>5 DEF n, m, t

LEMMA TailFacts ==
  ASSUME NEW i, InodeOK(i)
  PROVE  /\ TailCells(i) \in Seq(Nat)
         /\ TailSize(i) \in Nat /\ Len(TailCells(i)) = TailSize(i)
<1>1. i.chunks \in Seq(0 .. NullAddr) /\ i.target \in Seq(Nat)
      /\ i.kind \in {"reg", "dir", "lnk", "dev", "fifo"}
  BY DEF InodeOK
<1>2. CASE i.kind = "reg"
  BY <1>1, <1>2, ChunkIndexesFacts DEF TailCells, TailSize, ChunkIndexSize
<1>3. CASE i.kind = "lnk"
  BY <1>1, <1>3, LenProperties DEF TailCells, TailSize
<1>4. CASE i.kind \notin {"reg", "lnk"}
  <2>1. TailCells(i) = << >> /\ TailSize(i) = 0
    BY <1>4 DEF TailCells, TailSize
  <2>2. << >> \in Seq(Nat) /\ Len(<< >>) = 0
    BY EmptySeq
  <2> QED
    BY <2>1, <2>2
<1> QED
  BY <1>2, <1>3, <1>4


-----------------------------------------------------------------------------
(* What the reader computes from the header.                                 *)

(* The number of words in the header is right as long as 16 bits hold it; if    *)
(* not, the reader stops too early.                                          *)
LEMMA IcountRead ==
  ASSUME NEW s, Words(s), s = 0 \/ s >= 16,
         NEW size, size = (IF Icount(s) = 0 THEN 0 ELSE Icount(s) * 4 + 8)
  PROVE  /\ Words(size)
         /\ s < 4 * U16 + 8 => size = s
         /\ ~ (s < 4 * U16 + 8) => size < s
<1>0. U16 \in Nat \ {0}
  BY WidthFacts
<1>1. CASE s = 0
  <2>1. Icount(s) = 0
    BY <1>1 DEF Icount
  <2>2. size = 0
    BY <2>1
  <2> QED
    BY <1>0, <1>1, <2>2
<1>2. CASE s # 0
  <2>1. PICK q \in Nat : s = 4 * q
    BY DEF Words
  <2>2. q - 2 \in Nat /\ q - 2 >= 2 /\ (s - 8) \div 4 = q - 2
    BY <1>2, <2>1
  <2> DEFINE w == q - 2
             c == w % U16
  <2>3. Icount(s) = c
    BY <1>2, <2>2 DEF Icount
  <2>4. w \in Nat /\ w >= 2 /\ s = 4 * w + 8
    BY <2>1, <2>2
  <2> HIDE DEF w
  <2>5. c \in 0 .. U16 - 1
    BY ONLY <1>0, <2>4, DivMod
  <2>6. w < U16 => c = w
    BY ONLY <1>0, <2>4, SmallMod
  <2> HIDE DEF c
  <2>7. c \in Nat /\ c < U16
    BY ONLY <1>0, <2>5
  <2>8. size = IF c = 0 THEN 0 ELSE c * 4 + 8
    BY <2>3
  <2>9. Words(size)
    <3>1. CASE c = 0
      BY <2>8, <3>1 DEF Words
    <3>2. CASE c # 0
      <4>1. size = 4 * (c + 2) /\ c + 2 \in Nat
        BY <2>7, <2>8, <3>2
      <4> QED
        BY <4>1 DEF Words
    <3> QED
      BY <3>1, <3>2
  <2>10. s < 4 * U16 + 8 => size = s
    <3> SUFFICES ASSUME s < 4 * U16 + 8
                 PROVE  size = s
      OBVIOUS
    <3>1. w < U16
      BY ONLY <1>0, <2>4, s < 4 * U16 + 8
    <3> QED
      BY ONLY <2>4, <2>6, <2>8, <3>1
  <2>11. ~ (s < 4 * U16 + 8) => size < s
    <3> SUFFICES ASSUME ~ (s < 4 * U16 + 8)
                 PROVE  size < s
      OBVIOUS
    <3>1. w >= U16
      BY ONLY <1>0, <2>4, ~ (s < 4 * U16 + 8)
    <3> QED
      BY ONLY <1>0, <2>4, <2>7, <2>8, <3>1
  <2> QED
    BY <2>9, <2>10, <2>11
<1> QED
  BY <1>1, <1>2

(* How long the reader takes the ibody to be.                                *)
LEMMA XattrSizeRead ==
  ASSUME InodeOK(inode), hdr = Header(inode)
  PROVE  /\ Words(RdXattrSize) /\ RdXattrSize \in Nat
         /\ IcountFits => RdXattrSize = IbodySize(inode.xattrs)
         /\ ~ IcountFits => RdXattrSize < IbodySize(inode.xattrs)
<1> DEFINE s == IbodySize(inode.xattrs)
<1>1. Words(s) /\ (s = 0 \/ s >= 16)
  BY IbodyFacts, InodeXattrs DEF AreXattrs
<1>2. RdXattrSize = IF Icount(s) = 0 THEN 0 ELSE Icount(s) * 4 + 8
  BY HeaderFields DEF RdXattrSize
<1>3. IcountFits <=> s < 4 * U16 + 8
  BY DEF IcountFits
<1> HIDE DEF s
<1>4. /\ Words(RdXattrSize)
      /\ s < 4 * U16 + 8 => RdXattrSize = s
      /\ ~ (s < 4 * U16 + 8) => RdXattrSize < s
  BY ONLY <1>1, <1>2, IcountRead
<1> QED
  BY <1>3, <1>4 DEF s, Words

LEMMA DataOffsetRead ==
  ASSUME InodeOK(inode), hdr = Header(inode), IcountFits
  PROVE  RdDataOffset = TailOffset
<1>1. HeaderSize(RdExtended) = HeaderSize(IsExtended(inode))
  BY FormRead DEF HeaderSize
<1> QED
  BY <1>1, XattrSizeRead DEF RdDataOffset, TailOffset

LEMMA SizeRead ==
  ASSUME InodeOK(inode), hdr = Header(inode), inode.kind \in {"reg", "lnk"}
  PROVE  View.size = inode.size
<1>1. View.size = hdr.size /\ inode.size \in Nat
  BY DEF View, InodeOK
<1>2. CASE IsExtended(inode)
  BY <1>1, <1>2, HeaderFields, SizeFieldIs
<1>3. CASE ~ IsExtended(inode)
  <2>1. ~ (inode.statSize >= U32) /\ inode.statSize \in Nat
    BY <1>3 DEF IsExtended, Above, InodeOK
  <2>2. inode.size = inode.statSize \/ inode.size < U32
    BY DEF InodeOK
  <2> DEFINE a == inode.size
             b == inode.statSize
  <2>3. a \in Nat /\ b \in Nat /\ ~ (b >= U32) /\ (a = b \/ a < U32)
    BY <1>1, <2>1, <2>2
  <2> HIDE DEF a, b
  <2>4. a < U32
    BY <2>3, WidthFacts
  <2>5. a % U32 = a
    BY <2>3, <2>4, WidthFacts, SmallMod
  <2> QED
    BY <1>1, <1>3, <2>5, HeaderFields, SizeFieldIs DEF a
<1> QED
  BY <1>2, <1>3

LEMMA ChunksRead ==
  ASSUME InodeOK(inode), hdr = Header(inode), inode.kind = "reg"
  PROVE  RdChunks = Len(inode.chunks)
<1>1. hdr.iu = ChunkFormat(inode.chunkbits)
  BY HeaderFields DEF IU
<1>2. inode.chunkbits \in BlkSzBits .. BlkSzBits + 31
  BY DEF InodeOK
<1>3. View.chunkbits = BlkSzBits + (hdr.iu % 32)
  BY DEF View
<1>4. View.chunkbits = inode.chunkbits
  BY <1>1, <1>2, <1>3, ChunkbitsRead
<1>5. View.size = inode.size
  BY SizeRead
<1> QED
  BY <1>4, <1>5 DEF RdChunks, InodeOK

(* The 48 bits of an address that a chunk index keeps.                        *)
LEMMA AddressRead ==
  ASSUME NEW a \in 0 .. NullAddr, NEW cells,
         cells[1] = ChunkIndex(a)[1], cells[3] = ChunkIndex(a)[3]
  PROVE  BlkAddr(cells) = a % (U16 * U32)
<1> DEFINE w == U16 * U32
<1>0. /\ U16 \in Nat \ {0} /\ U32 \in Nat \ {0} /\ w \in Nat \ {0} /\ a \in Nat
      /\ w = U16 * U32
  BY WidthFacts, NullAddrNat
<1>1. CASE a = NullAddr
  <2>1. BlkAddr(cells) = (U16 - 1) * U32 + (U32 - 1)
    BY <1>1, ChunkIndexFacts DEF BlkAddr
  <2>2. (U16 - 1) * U32 + (U32 - 1) = w - 1
    BY ONLY <1>0, SMT
  <2>3. NullAddr = (U16 * w) - 1
    <3>1. U16 * U16 * U32 = U16 * (U16 * U32)
      BY ONLY <1>0, SMT
    <3> QED
      BY <3>1 DEF NullAddr
  <2> HIDE DEF w
  <2>4. (U16 * w) - 1 = (U16 - 1) * w + (w - 1)
    BY ONLY <1>0, SMT
  <2>5. U16 - 1 \in Nat /\ w - 1 \in 0 .. w - 1
    BY ONLY <1>0
  <2>6. ((U16 - 1) * w + (w - 1)) % w = w - 1
    BY ONLY <1>0, <2>5, DivModUnique
  <2> QED
    BY <1>1, <2>1, <2>2, <2>3, <2>4, <2>6 DEF w
<1>2. CASE a # NullAddr
  <2> DEFINE q == a \div U32
             r == a % U32
             s == q \div U16
             t == q % U16
  <2>1. a = q * U32 + r /\ q \in Nat /\ r \in 0 .. U32 - 1
    BY ONLY <1>0, DivMod
  <2>2. BlkAddr(cells) = t * U32 + r
    BY <1>2, ChunkIndexFacts DEF BlkAddr
  <2> HIDE DEF q, r
  <2>3. q = s * U16 + t /\ s \in Nat /\ t \in 0 .. U16 - 1
    BY ONLY <1>0, <2>1, DivMod
  <2> HIDE DEF s, t
  <2>4. a = s * w + (t * U32 + r)
    <3>1. (s * U16 + t) * U32 = s * (U16 * U32) + t * U32
      BY ONLY <1>0, <2>3, SMT
    <3> DEFINE x == s * (U16 * U32)
               y == t * U32
    <3>2. x \in Nat /\ y \in Nat
      BY ONLY <1>0, <2>3, SMT
    <3>3. q * U32 = x + y
      BY <2>3, <3>1
    <3> HIDE DEF x, y
    <3>4. a = x + (y + r)
      BY ONLY <1>0, <2>1, <3>2, <3>3
    <3> QED
      BY <3>4 DEF x, y
  <2>5. t * U32 + r \in 0 .. w - 1
    <3>1. t * U32 \in Nat /\ (t + 1) * U32 <= U16 * U32
          /\ (t + 1) * U32 = t * U32 + U32
      BY ONLY <1>0, <2>3, SMT
    <3> DEFINE x == t * U32
               y == (t + 1) * U32
    <3> HIDE DEF x, y, w
    <3>2. x \in Nat /\ y <= w /\ y = x + U32
      BY <3>1, <1>0 DEF x, y
    <3>3. x + r \in 0 .. w - 1
      BY ONLY <1>0, <2>1, <3>2
    <3> QED
      BY <3>3 DEF x
  <2> DEFINE u == t * U32 + r
  <2> HIDE DEF u, w
  <2>6. u \in 0 .. w - 1
    BY <2>5 DEF u
  <2>7. (s * w + u) % w = u
    BY ONLY <1>0, <2>3, <2>6, DivModUnique
  <2> QED
    BY <2>2, <2>4, <2>7 DEF u, w
<1> QED
  BY <1>1, <1>2

-----------------------------------------------------------------------------
(* Where things lie.                                                        *)

(* Where the n-th entry goes: behind the header, the ibody's header and the     *)
(* entries before it.                                                       *)
Base(n) ==
  HeaderSize(IsExtended(inode)) + IbodyHeader + EntriesSize(inode.xattrs, n - 1)

LEMMA BaseFacts ==
  ASSUME InodeOK(inode), NEW n \in 1 .. Len(inode.xattrs)
  PROVE  /\ IsXattr(inode.xattrs[n])
         /\ Base(n) \in Nat /\ EntrySize(inode.xattrs[n]) \in Nat
         /\ EntryCells(inode.xattrs[n]) \in Seq(Nat)
         /\ Len(EntryCells(inode.xattrs[n])) \in Nat
         /\ Len(EntryCells(inode.xattrs[n])) <= EntrySize(inode.xattrs[n])
         /\ Base(n + 1) = Base(n) + EntrySize(inode.xattrs[n])
         /\ Base(n + 1) <= TailOffset
         /\ TailOffset \in Nat /\ Base(n + 1) \in Nat
<1> DEFINE xs == inode.xattrs
           x == xs[n]
           h == HeaderSize(IsExtended(inode))
           m == Len(xs)
<1>1. AreXattrs(xs) /\ m \in Nat
  BY InodeXattrs DEF AreXattrs
<1>2. h \in Nat
  BY HeaderSizeFacts
<1>3. IsXattr(x)
  BY <1>1 DEF AreXattrs
<1>4. EntrySize(x) \in Nat /\ 4 + Len(x.suffix) + Len(x.value) <= EntrySize(x)
  BY <1>3, EntrySizeFacts
<1>5. /\ EntryCells(x) \in Seq(Nat)
      /\ Len(EntryCells(x)) = 4 + Len(x.suffix) + Len(x.value)
  BY <1>3, EntryCellsFacts
<1>6. Len(EntryCells(x)) \in Nat
  BY <1>5, LenProperties
<1>7. /\ n \in Nat /\ n - 1 \in 0 .. m /\ n \in 0 .. m /\ (n + 1) - 1 = n
      /\ m # 0 /\ m \in 0 .. m
  BY <1>1
<1>8. EntriesSize(xs, n) = EntriesSize(xs, n - 1) + EntrySize(x)
  BY <1>1, EntriesSizeFacts
<1>9. /\ EntriesSize(xs, n - 1) \in Nat /\ EntriesSize(xs, n) \in Nat
      /\ EntriesSize(xs, m) \in Nat
  BY <1>1, <1>7, EntriesSizeFacts
<1>10. EntriesSize(xs, n) <= EntriesSize(xs, m)
  BY <1>1, <1>7, EntriesInOrder
<1>11. /\ Base(n) = h + 12 + EntriesSize(xs, n - 1)
       /\ Base(n + 1) = h + 12 + EntriesSize(xs, n)
  BY <1>7 DEF Base, IbodyHeader
<1>12. TailOffset = h + (12 + EntriesSize(xs, m))
  BY <1>7, IbodyFacts DEF TailOffset
<1> DEFINE a == EntriesSize(xs, n - 1)
           b == EntriesSize(xs, n)
           c == EntriesSize(xs, m)
           e == EntrySize(x)
           l == Len(EntryCells(x))
<1>13. /\ a \in Nat /\ b \in Nat /\ c \in Nat /\ e \in Nat /\ b = a + e
       /\ b <= c /\ Base(n) = h + 12 + a /\ Base(n + 1) = h + 12 + b
       /\ TailOffset = h + (12 + c)
  BY <1>4, <1>8, <1>9, <1>10, <1>11, <1>12
<1>14. l \in Nat /\ l <= e
  BY <1>4, <1>5, <1>6
<1> HIDE DEF a, b, c, e, l, h
<1>15. /\ Base(n) \in Nat /\ Base(n + 1) = Base(n) + e
       /\ Base(n + 1) <= TailOffset /\ TailOffset \in Nat /\ Base(n + 1) \in Nat
  BY ONLY <1>2, <1>13
<1> QED
  BY <1>3, <1>5, <1>13, <1>14, <1>15 DEF e, l

(* Entries do not overlap.                                                   *)
LEMMA EntryBefore ==
  ASSUME InodeOK(inode), NEW n \in 1 .. Len(inode.xattrs) + 1,
         NEW m \in 1 .. n - 1
  PROVE  /\ m \in 1 .. Len(inode.xattrs)
         /\ Base(n) \in Nat
         /\ Base(m) + Len(EntryCells(inode.xattrs[m])) <= Base(n)
<1> DEFINE xs == inode.xattrs
           h == HeaderSize(IsExtended(inode))
<1>1. AreXattrs(xs) /\ Len(xs) \in Nat
  BY InodeXattrs DEF AreXattrs
<1>2. h \in Nat
  BY HeaderSizeFacts
<1>3. /\ m \in 1 .. Len(xs) /\ n - 1 \in 0 .. Len(xs) /\ m \in 0 .. n - 1
      /\ (m + 1) - 1 = m
  BY <1>1
<1>4. EntriesSize(xs, m) <= EntriesSize(xs, n - 1)
  BY <1>1, <1>3, EntriesInOrder
<1>5. EntriesSize(xs, n - 1) \in Nat
  BY <1>1, <1>3, EntriesSizeFacts
<1>6. /\ Base(n) = h + 12 + EntriesSize(xs, n - 1)
      /\ Base(m + 1) = h + 12 + EntriesSize(xs, m)
  BY <1>3 DEF Base, IbodyHeader
<1>7. /\ Base(m) \in Nat /\ EntrySize(xs[m]) \in Nat /\ Base(m + 1) \in Nat
      /\ Len(EntryCells(xs[m])) \in Nat
      /\ Len(EntryCells(xs[m])) <= EntrySize(xs[m])
      /\ Base(m + 1) = Base(m) + EntrySize(xs[m])
  BY <1>3, BaseFacts
<1> DEFINE a == EntriesSize(xs, m)
           b == EntriesSize(xs, n - 1)
           l == Len(EntryCells(xs[m]))
           e == EntrySize(xs[m])
<1>8. a <= b /\ b \in Nat /\ Base(n) = h + 12 + b /\ Base(m + 1) = h + 12 + a
  BY <1>4, <1>5, <1>6
<1>9. /\ Base(m) \in Nat /\ e \in Nat /\ Base(m + 1) \in Nat /\ l \in Nat
      /\ l <= e /\ Base(m + 1) = Base(m) + e
  BY <1>7
<1> HIDE DEF a, b, l, e, h
<1>10. h + 12 + a <= h + 12 + b
  <2>1. a \in Int
    <3>1. EntriesSize(xs, m) \in Nat
      BY <1>1, <1>3, EntriesSizeFacts
    <3> QED
      BY <3>1 DEF a
  <2> QED
    BY ONLY <1>2, <1>8, <2>1
<1>11. Base(n) \in Nat /\ Base(m) + l <= Base(n)
  BY ONLY <1>2, <1>8, <1>9, <1>10
<1> QED
  BY <1>3, <1>11 DEF l

LEMMA SizeFacts ==
  ASSUME InodeOK(inode)
  PROVE  /\ TailOffset \in Nat /\ MetaSize(inode) \in Nat
         /\ TailOffset <= MetaSize(inode)
         /\ TailCells(inode) \in Seq(Nat)
         /\ TailOffset + Len(TailCells(inode)) = MetaSize(inode)
<1>1. /\ HeaderSize(IsExtended(inode)) \in Nat
      /\ IbodySize(inode.xattrs) \in Nat /\ TailSize(inode) \in Nat
      /\ Len(TailCells(inode)) = TailSize(inode)
      /\ TailCells(inode) \in Seq(Nat)
  BY HeaderSizeFacts, IbodyFacts, TailFacts
<1>2. /\ TailOffset = HeaderSize(IsExtended(inode)) + IbodySize(inode.xattrs)
      /\ MetaSize(inode) = TailOffset + TailSize(inode)
  BY DEF TailOffset, MetaSize
<1> DEFINE a == HeaderSize(IsExtended(inode))
           b == IbodySize(inode.xattrs)
           c == TailSize(inode)
<1>3. /\ a \in Nat /\ b \in Nat /\ c \in Nat /\ TailOffset = a + b
      /\ MetaSize(inode) = TailOffset + c
  BY <1>1, <1>2
<1> HIDE DEF a, b, c
<1>4. /\ TailOffset \in Nat /\ MetaSize(inode) \in Nat
      /\ TailOffset <= MetaSize(inode)
  BY ONLY <1>3
<1> QED
  BY <1>1, <1>3, <1>4 DEF c

-----------------------------------------------------------------------------
(* The invariant.                                                          *)

Reader == {"cast", "parse", "data", "done"}

Typed ==
  /\ inode \in Inodes
  /\ phase \in {"header", "xattrs"} \cup Reader
  /\ k \in 1 .. Len(inode.xattrs) + 1 /\ pos \in Nat
  /\ phase # "header" =>
       hdr = Header(inode) /\ buf \in [1 .. MetaSize(inode) -> Nat]

(* The first n entries are in place.                                         *)
Written(n) ==
  \A m \in 1 .. n : At(buf, Base(m), EntryCells(inode.xattrs[m]))

(* The writer has its first entries in place, the reader all of them and what  *)
(* follows.                                                                 *)
Writing ==
  /\ phase = "header" => k = 1
  /\ phase = "xattrs" => pos = Base(k) /\ Written(k - 1)
  /\ phase \in Reader => /\ Written(Len(inode.xattrs))
                         /\ At(buf, TailOffset, TailCells(inode))

(* The first n xattrs that were read are those of the inode.                   *)
Agree(n) ==
  n <= Len(inode.xattrs) /\ \A m \in 1 .. n : seen[m] = inode.xattrs[m]

Short(n) == Len(inode.xattrs[n].value) < U16

Fits == IcountFits /\ \A n \in 1 .. Len(inode.xattrs) : Short(n)

XattrSet == [index : Nat, suffix : Seq(Nat), value : Seq(Nat)]

(* The reader stays within what it takes the ibody for.  It agrees with the    *)
(* writer as long as everything fits, and what it has agreed upon did fit.     *)
Reading ==
  /\ seen \in Seq(XattrSet)
  /\ phase \in {"header", "xattrs", "cast"} => seen = << >>
  /\ phase = "parse" => /\ RdXattrSize # 0
                        /\ pos = IbodyHeader + EntriesSize(seen, Len(seen))
  /\ Len(seen) # 0 => IbodyHeader + EntriesSize(seen, Len(seen)) <= RdXattrSize
  /\ \A n \in 1 .. Len(seen) : Agree(n) => Short(n)
  /\ Fits => Agree(Len(seen))
  /\ Fits /\ phase \in {"data", "done"} => Len(seen) = Len(inode.xattrs)

IInv == Typed /\ Writing /\ Reading /\ DataFound

LEMMA InodeIsOK ==
  ASSUME inode \in Inodes
  PROVE  InodeOK(inode) /\ Len(inode.xattrs) \in Nat
<1>1. InodeOK(inode)
  BY FormatAssumption
<1> QED
  BY <1>1, InodeXattrs DEF AreXattrs

LEMMA SeenFacts ==
  ASSUME NEW s \in Seq(XattrSet)
  PROVE  /\ AreXattrs(s) /\ Len(s) \in Nat
         /\ EntriesSize(s, Len(s)) \in Nat
         /\ Words(EntriesSize(s, Len(s)))
<1>1. Len(s) \in Nat /\ \A n \in 1 .. Len(s) : s[n] \in XattrSet
  BY LenProperties, ElementOfSeq
<1>2. AreXattrs(s)
  BY <1>1 DEF AreXattrs, IsXattr, XattrSet
<1>3. Len(s) \in 0 .. Len(s)
  BY <1>1
<1> QED
  BY <1>1, <1>2, <1>3, EntriesSizeFacts, EntriesInWords

LEMMA InitIInv == Init => IInv
<1> SUFFICES ASSUME Init
             PROVE  IInv
  OBVIOUS
<1>1. /\ inode \in Inodes /\ phase = "header" /\ k = 1 /\ pos = 0
      /\ seen = << >>
  BY DEF Init
<1>2. Len(inode.xattrs) \in Nat
  BY <1>1, InodeIsOK
<1>3. Typed
  BY <1>1, <1>2 DEF Typed
<1>4. Writing
  BY <1>1 DEF Writing, Reader
<1>5. seen \in Seq(XattrSet) /\ Len(seen) = 0
  BY <1>1, EmptySeq
<1>6. Reading
  <2>1. \A n \in 1 .. 0 : FALSE
    OBVIOUS
  <2>2. Agree(0)
    BY <1>2, <2>1 DEF Agree
  <2> QED
    BY <1>1, <1>5, <2>1, <2>2 DEF Reading
<1>7. DataFound
  BY <1>1 DEF DataFound
<1> QED
  BY <1>3, <1>4, <1>6, <1>7 DEF IInv

(* As long as nothing is read.                                               *)
LEMMA NothingRead ==
  ASSUME Typed, Reading, inode' = inode, seen' = seen,
         phase \in {"header", "xattrs"},
         phase' \in {"xattrs", "cast"}
  PROVE  Reading' /\ DataFound'
<1>1. seen = << >> /\ seen' = << >>
  BY DEF Reading
<1>2. seen' \in Seq(XattrSet) /\ Len(seen') = 0 /\ Len(seen) = 0
  BY <1>1, EmptySeq
<1>3. \A n \in 1 .. 0 : FALSE
  OBVIOUS
<1>4. Agree(0)'
  <2>1. 0 <= Len(inode.xattrs)
    BY InodeIsOK DEF Typed
  <2> QED
    BY <1>3, <2>1 DEF Agree
<1>5. Reading'
  BY <1>1, <1>2, <1>3, <1>4 DEF Reading
<1>6. DataFound'
  BY DEF DataFound
<1> QED
  BY <1>5, <1>6

LEMMA WriteHeaderKeeps ==
  ASSUME IInv, WriteHeader
  PROVE  IInv'
<1>1. /\ phase = "header" /\ phase' = "xattrs" /\ hdr' = Header(inode)
      /\ buf' = Zeros(MetaSize(inode)) /\ inode' = inode /\ k' = k
      /\ pos' = HeaderSize(IsExtended(inode)) + IbodyHeader
      /\ seen' = seen
  BY DEF WriteHeader
<1>2. InodeOK(inode) /\ inode \in Inodes /\ Len(inode.xattrs) \in Nat
  BY InodeIsOK DEF IInv, Typed
<1>3. k = 1
  BY <1>1 DEF IInv, Writing
<1>4. pos' = Base(1)
  <2>1. EntriesSize(inode.xattrs, 0) = 0
    BY <1>2, InodeXattrs, EntriesSizeFacts
  <2>2. 1 - 1 = 0 /\ HeaderSize(IsExtended(inode)) \in Nat
    BY HeaderSizeFacts
  <2> QED
    BY <1>1, <2>1, <2>2 DEF Base, IbodyHeader
<1>5. pos' \in Nat
  BY <1>1, HeaderSizeFacts DEF IbodyHeader
<1>6. Typed'
  <2>1. MetaSize(inode) \in Nat
    BY <1>2, SizeFacts
  <2>2. buf' \in [1 .. MetaSize(inode) -> Nat]
    BY <1>1 DEF Zeros
  <2> QED
    BY <1>1, <1>2, <1>3, <1>5, <2>2 DEF Typed
<1>7. Writing'
  <2>1. \A m \in 1 .. 1 - 1 : FALSE
    OBVIOUS
  <2>2. Written(0)'
    BY <2>1 DEF Written
  <2>3. Base(1)' = Base(1)
    BY <1>1 DEF Base
  <2> QED
    BY <1>1, <1>3, <1>4, <2>2, <2>3 DEF Writing, Reader
<1>8. Reading' /\ DataFound'
  BY <1>1, NothingRead DEF IInv
<1> QED
  BY <1>6, <1>7, <1>8 DEF IInv

(* Writing behind what is written.                                           *)
LEMMA WriteBehind ==
  ASSUME InodeOK(inode), inode' = inode, NEW m \in Nat,
         buf \in [1 .. m -> Nat],
         NEW n \in 1 .. Len(inode.xattrs) + 1, Written(n - 1),
         NEW b \in Nat, n = 1 \/ Base(n) <= b, NEW data \in Seq(Nat),
         b + Len(data) <= m, buf' = Put(buf, b, data)
  PROVE  /\ buf' \in [1 .. m -> Nat]
         /\ \A j \in 1 .. n - 1 :
              At(buf', Base(j), EntryCells(inode.xattrs[j]))
         /\ At(buf', b, data)
<1>1. ASSUME NEW j \in 1 .. n - 1
      PROVE  At(buf', Base(j), EntryCells(inode.xattrs[j]))
  <2>1. j \in 1 .. Len(inode.xattrs)
    BY EntryBefore
  <2> DEFINE e == EntryCells(inode.xattrs[j])
             a == Base(j)
  <2>2. e \in Seq(Nat) /\ a \in Nat /\ Len(e) \in Nat
    BY <2>1, BaseFacts
  <2>3. Base(n) \in Nat /\ a + Len(e) <= Base(n)
    BY EntryBefore
  <2>4. At(buf, a, e)
    BY DEF Written
  <2> HIDE DEF a, e
  <2>5. a + Len(e) <= b
    <3>1. n # 1
      OBVIOUS
    <3> QED
      BY <2>2, <2>3, <3>1
  <2> QED
    BY <2>2, <2>4, <2>5, AtStays DEF a, e
<1> QED
  BY <1>1, PutFacts

LEMMA WriteXattrKeeps ==
  ASSUME IInv, WriteXattr
  PROVE  IInv'
<1> DEFINE xs == inode.xattrs
           x == xs[k]
           e == EntryCells(x)
<1>1. /\ phase = "xattrs" /\ k <= Len(xs) /\ PutOrPanic(pos, e, "xattrs")
      /\ pos' = pos + EntrySize(x) /\ k' = k + 1
      /\ inode' = inode /\ hdr' = hdr /\ seen' = seen
  BY DEF WriteXattr
<1>2. /\ InodeOK(inode) /\ inode \in Inodes /\ Len(xs) \in Nat
      /\ k \in 1 .. Len(xs) + 1 /\ hdr = Header(inode)
      /\ buf \in [1 .. MetaSize(inode) -> Nat]
  BY <1>1, InodeIsOK DEF IInv, Typed
<1>3. k \in 1 .. Len(xs) /\ k \in Nat /\ (k + 1) - 1 = k
      /\ k + 1 \in 1 .. Len(xs) + 1
  BY <1>1, <1>2
<1>4. /\ Base(k) \in Nat /\ EntrySize(x) \in Nat /\ e \in Seq(Nat)
      /\ Len(e) \in Nat /\ Len(e) <= EntrySize(x)
      /\ Base(k + 1) = Base(k) + EntrySize(x)
      /\ Base(k + 1) <= TailOffset /\ Base(k + 1) \in Nat
  BY <1>2, <1>3, BaseFacts
<1>5. /\ TailOffset \in Nat /\ MetaSize(inode) \in Nat
      /\ TailOffset <= MetaSize(inode)
  BY <1>2, SizeFacts
<1>6. pos = Base(k) /\ Written(k - 1)
  BY <1>1 DEF IInv, Writing
<1>7. Base(k) + Len(e) <= MetaSize(inode)
  <2> DEFINE a == Base(k)
             l == Len(e)
             s == EntrySize(x)
  <2>1. /\ a \in Nat /\ l \in Nat /\ s \in Nat /\ l <= s
        /\ Base(k + 1) = a + s /\ Base(k + 1) <= TailOffset
    BY <1>4
  <2> HIDE DEF a, l, s
  <2>2. a + l <= MetaSize(inode)
    BY ONLY <1>5, <2>1
  <2> QED
    BY <2>2 DEF a, l
<1>8. Len(buf) = MetaSize(inode)
  BY <1>2, <1>5
<1>9. buf' = Put(buf, Base(k), e) /\ phase' = "xattrs"
  BY <1>1, <1>6, <1>7, <1>8 DEF PutOrPanic
<1> HIDE DEF e
<1>10. Base(k) <= Base(k)
  BY <1>4
<1>11. /\ buf' \in [1 .. MetaSize(inode) -> Nat]
       /\ \A j \in 1 .. k - 1 : At(buf', Base(j), EntryCells(xs[j]))
       /\ At(buf', Base(k), e)
  BY <1>1, <1>2, <1>3, <1>4, <1>5, <1>6, <1>7, <1>9, <1>10, WriteBehind
<1>12. Typed'
  BY <1>1, <1>2, <1>3, <1>4, <1>6, <1>9, <1>11 DEF Typed
<1>13. Writing'
  <2>1. \A j \in 1 .. k : j \in 1 .. k - 1 \/ j = k
    BY <1>3
  <2>2. \A j \in 1 .. k : At(buf', Base(j), EntryCells(xs[j]))
    BY <1>11, <2>1 DEF e
  <2>3. \A j : Base(j)' = Base(j)
    BY <1>1 DEF Base
  <2>4. \A j \in 1 .. k' - 1 : At(buf, Base(j), EntryCells(inode.xattrs[j]))'
    BY <1>1, <1>3, <2>2, <2>3 DEF At
  <2>5. (k - 1 \in Nat)' /\ Written(k - 1)'
    BY <1>1, <1>3, <2>4 DEF Written
  <2>6. (pos = Base(k))'
    <3>1. pos' = Base(k + 1)
      BY <1>1, <1>4, <1>6
    <3> QED
      BY <1>1, <3>1 DEF Base
  <2> QED
    BY <1>9, <2>5, <2>6 DEF Writing, Reader
<1>14. Reading' /\ DataFound'
  BY <1>1, <1>9, NothingRead DEF IInv
<1> QED
  BY <1>12, <1>13, <1>14 DEF IInv

LEMMA WriteTailKeeps ==
  ASSUME IInv, WriteTail
  PROVE  IInv'
<1> DEFINE xs == inode.xattrs
           t == TailCells(inode)
<1>1. /\ phase = "xattrs" /\ k > Len(xs) /\ PutOrPanic(TailOffset, t, "cast")
      /\ inode' = inode /\ hdr' = hdr /\ seen' = seen /\ k' = k /\ pos' = pos
  BY DEF WriteTail
<1>2. /\ InodeOK(inode) /\ inode \in Inodes /\ Len(xs) \in Nat
      /\ k \in 1 .. Len(xs) + 1 /\ hdr = Header(inode) /\ pos \in Nat
      /\ buf \in [1 .. MetaSize(inode) -> Nat]
  BY <1>1, InodeIsOK DEF IInv, Typed
<1>3. k = Len(xs) + 1 /\ k - 1 = Len(xs)
  BY <1>1, <1>2
<1>4. /\ TailOffset \in Nat /\ MetaSize(inode) \in Nat
      /\ t \in Seq(Nat) /\ TailOffset + Len(t) = MetaSize(inode)
  BY <1>2, SizeFacts
<1>5. Written(k - 1)
  BY <1>1 DEF IInv, Writing
<1>6. k = 1 \/ Base(k) <= TailOffset
  <2> SUFFICES ASSUME k # 1
               PROVE  Base(k) <= TailOffset
    OBVIOUS
  <2>1. Len(xs) \in 1 .. Len(xs)
    BY <1>2, <1>3
  <2> QED
    BY <1>2, <1>3, <2>1, BaseFacts
<1>7. TailOffset + Len(t) <= Len(buf)
  BY <1>2, <1>4
<1>8. buf' = Put(buf, TailOffset, t) /\ phase' = "cast"
  BY <1>1, <1>7 DEF PutOrPanic
<1>9. TailOffset + Len(t) <= MetaSize(inode)
  BY <1>4
<1> HIDE DEF t
<1>10. /\ buf' \in [1 .. MetaSize(inode) -> Nat]
       /\ \A j \in 1 .. k - 1 : At(buf', Base(j), EntryCells(xs[j]))
       /\ At(buf', TailOffset, t)
  BY <1>1, <1>2, <1>4, <1>5, <1>6, <1>8, <1>9, WriteBehind
<1>11. Typed'
  BY <1>1, <1>2, <1>8, <1>10 DEF Typed, Reader
<1>12. Writing'
  <2>1. \A j : Base(j)' = Base(j)
    BY <1>1 DEF Base
  <2>2. TailOffset' = TailOffset /\ TailCells(inode)' = t
    BY <1>1 DEF TailOffset, t
  <2>3. At(buf, TailOffset, TailCells(inode))'
    BY <1>10, <2>2 DEF At
  <2>4. Written(Len(xs))'
    BY <1>1, <1>3, <1>10, <2>1 DEF Written, At
  <2> QED
    BY <1>8, <2>3, <2>4 DEF Writing
<1>13. Reading' /\ DataFound'
  BY <1>1, <1>8, NothingRead DEF IInv
<1> QED
  BY <1>11, <1>12, <1>13 DEF IInv

-----------------------------------------------------------------------------
(* The reader.                                                             *)

(* What the reader finds in the cells.                                        *)
LEMMA ReaderFacts ==
  ASSUME IInv, phase \in Reader
  PROVE  /\ InodeOK(inode) /\ hdr = Header(inode)
         /\ inode \in Inodes /\ Len(inode.xattrs) \in Nat
         /\ buf \in [1 .. MetaSize(inode) -> Nat]
         /\ MetaSize(inode) \in Nat /\ Len(buf) = MetaSize(inode)
         /\ TailOffset <= MetaSize(inode)
         /\ HeaderSize(RdExtended) = HeaderSize(IsExtended(inode))
         /\ HeaderSize(IsExtended(inode)) \in Nat
         /\ Written(Len(inode.xattrs))
         /\ At(buf, TailOffset, TailCells(inode))
         /\ RdXattrSize \in Nat /\ Words(RdXattrSize)
<1>1. /\ InodeOK(inode) /\ hdr = Header(inode)
      /\ inode \in Inodes /\ Len(inode.xattrs) \in Nat
      /\ buf \in [1 .. MetaSize(inode) -> Nat]
  BY InodeIsOK DEF IInv, Typed, Reader
<1>2. MetaSize(inode) \in Nat /\ TailOffset <= MetaSize(inode)
  BY <1>1, SizeFacts
<1>3. Len(buf) = MetaSize(inode)
  BY <1>1, <1>2
<1>4. HeaderSize(RdExtended) = HeaderSize(IsExtended(inode))
  BY <1>1, FormRead DEF HeaderSize
<1>5. Written(Len(inode.xattrs)) /\ At(buf, TailOffset, TailCells(inode))
  BY DEF IInv, Writing
<1> QED
  BY <1>1, <1>2, <1>3, <1>4, <1>5, HeaderSizeFacts, XattrSizeRead

LEMMA XattrNat ==
  ASSUME IInv, phase \in Reader, NEW p \in Nat
  PROVE  Xattr(p) \in Nat
<1> DEFINE c == HeaderSize(RdExtended) + p + 1
<1>1. c \in Nat \ {0}
  BY ReaderFacts
<1>2. Xattr(p) = IF c <= Len(buf) THEN buf[c] ELSE 0
  BY DEF Xattr
<1> HIDE DEF c
<1>3. c <= Len(buf) => c \in 1 .. MetaSize(inode)
  BY <1>1, ReaderFacts
<1> QED
  BY <1>2, <1>3, ReaderFacts

LEMMA CellRead ==
  ASSUME IInv, phase \in Reader, NEW n \in 1 .. Len(inode.xattrs),
         NEW p, p = IbodyHeader + EntriesSize(inode.xattrs, n - 1),
         NEW c \in 1 .. Len(EntryCells(inode.xattrs[n]))
  PROVE  /\ Xattr(p + (c - 1)) = EntryCells(inode.xattrs[n])[c]
         /\ p \in Nat
<1> DEFINE h == HeaderSize(IsExtended(inode))
           l == Len(EntryCells(inode.xattrs[n]))
           e == EntrySize(inode.xattrs[n])
<1>1. /\ Base(n) \in Nat /\ l \in Nat /\ e \in Nat /\ l <= e
      /\ Base(n + 1) = Base(n) + e /\ Base(n + 1) <= TailOffset
      /\ TailOffset \in Nat
  BY ReaderFacts, BaseFacts
<1>2. /\ TailOffset <= MetaSize(inode) /\ MetaSize(inode) \in Nat
      /\ Len(buf) = MetaSize(inode) /\ HeaderSize(RdExtended) = h /\ h \in Nat
  BY ReaderFacts
<1>3. EntriesSize(inode.xattrs, n - 1) \in Nat
  <2>1. n - 1 \in 0 .. Len(inode.xattrs)
    BY ReaderFacts
  <2> QED
    BY <2>1, ReaderFacts, InodeXattrs, EntriesSizeFacts
<1>4. p \in Nat
  BY <1>3 DEF IbodyHeader
<1>5. Base(n) = h + p
  BY <1>2, <1>3 DEF Base, IbodyHeader
<1> HIDE DEF h, l, e
<1>6. c \in 1 .. l
  BY DEF l
<1>7. /\ h + (p + (c - 1)) + 1 = Base(n) + c
      /\ Base(n) + c <= MetaSize(inode)
  BY ONLY <1>1, <1>2, <1>4, <1>5, <1>6
<1>8. Xattr(p + (c - 1)) = buf[Base(n) + c]
  BY <1>2, <1>7 DEF Xattr
<1>9. At(buf, Base(n), EntryCells(inode.xattrs[n]))
  BY ReaderFacts DEF Written
<1> QED
  BY <1>4, <1>8, <1>9 DEF At

LEMMA SeqIs ==
  ASSUME NEW S, NEW s \in Seq(S), NEW m, m = Len(s), NEW f,
         f = [c \in 1 .. m |-> f[c]], \A c \in 1 .. m : f[c] = s[c]
  PROVE  f = s
<1>1. s = [c \in 1 .. m |-> s[c]]
  BY LenProperties
<1> QED
  BY <1>1

(* Reading where an entry begins finds the entry, but for the length of its    *)
(* value, which is cut.                                                     *)
LEMMA EntryRead ==
  ASSUME IInv, phase \in Reader, NEW n \in 1 .. Len(inode.xattrs),
         pos = IbodyHeader + EntriesSize(inode.xattrs, n - 1)
  PROVE  /\ Xattr(pos) = Len(inode.xattrs[n].suffix)
         /\ Xattr(pos + 1) = inode.xattrs[n].index
         /\ Xattr(pos + 2) = Len(inode.xattrs[n].value) % U16
         /\ Xattrs(pos + EntryHeader, NameEnd) = inode.xattrs[n].suffix
         /\ Short(n) => /\ Xattr(pos + 2) = Len(inode.xattrs[n].value)
                        /\ Xattrs(NameEnd, ValueEnd) = inode.xattrs[n].value
<1> DEFINE x == inode.xattrs[n]
           e == EntryCells(x)
           a == Len(x.suffix)
           b == Len(x.value)
<1>1. IsXattr(x) /\ a < U8
  BY ReaderFacts, InodeXattrs DEF AreXattrs
<1>2. /\ a \in Nat /\ b \in Nat /\ x.suffix \in Seq(Nat) /\ x.value \in Seq(Nat)
  BY <1>1, EntrySizeFacts DEF IsXattr
<1>3. /\ Len(e) = 4 + a + b /\ e[1] = a % U8 /\ e[2] = x.index
      /\ e[3] = b % U16
      /\ \A c \in 1 .. a : e[4 + c] = x.suffix[c]
      /\ \A c \in 1 .. b : e[4 + a + c] = x.value[c]
  BY <1>1, EntryCellsFacts
<1>4. ASSUME NEW c \in 1 .. 4 + a + b
      PROVE  Xattr(pos + (c - 1)) = e[c]
  <2>1. c \in 1 .. Len(EntryCells(inode.xattrs[n]))
    BY <1>3
  <2> HIDE DEF e
  <2>2. Xattr(pos + (c - 1)) = EntryCells(inode.xattrs[n])[c]
    BY <2>1, CellRead
  <2> QED
    BY <2>2 DEF e
<1>5. pos \in Nat
  BY DEF IInv, Typed
<1>6. a % U8 = a
  <2> HIDE DEF a
  <2> QED
    BY <1>1, <1>2, SmallMod, WidthFacts DEF a
<1>7. Short(n) => b % U16 = b
  <2> SUFFICES ASSUME b < U16
               PROVE  b % U16 = b
    BY DEF Short
  <2> HIDE DEF b
  <2> QED
    BY <1>2, SmallMod, WidthFacts DEF b
<1> HIDE DEF x, e, a, b
<1>8. /\ 1 \in 1 .. 4 + a + b /\ 2 \in 1 .. 4 + a + b /\ 3 \in 1 .. 4 + a + b
      /\ pos + (1 - 1) = pos /\ pos + (2 - 1) = pos + 1 /\ pos + (3 - 1) = pos + 2
  BY ONLY <1>2, <1>5
<1>9. Xattr(pos) = a /\ Xattr(pos + 1) = x.index /\ Xattr(pos + 2) = b % U16
  BY ONLY <1>3, <1>4, <1>6, <1>8
<1>10. NameEnd = pos + 4 + a
  BY <1>9 DEF NameEnd, EntryHeader
<1>11. Xattrs(pos + EntryHeader, NameEnd) = x.suffix
  <2> DEFINE f == Xattrs(pos + 4, pos + 4 + a)
  <2>1. (pos + 4 + a) - (pos + 4) = a
    BY ONLY <1>2, <1>5
  <2>2. f = [c \in 1 .. a |-> Xattr(pos + 4 + c - 1)]
    BY <2>1 DEF Xattrs
  <2>3. ASSUME NEW c \in 1 .. a
        PROVE  Xattr(pos + 4 + c - 1) = x.suffix[c]
    <3>1. 4 + c \in 1 .. 4 + a + b /\ pos + ((4 + c) - 1) = pos + 4 + c - 1
      BY ONLY <1>2, <1>5
    <3> QED
      BY ONLY <1>3, <1>4, <3>1
  <2> HIDE DEF f
  <2>4. /\ DOMAIN f = 1 .. a /\ f = [c \in 1 .. a |-> f[c]]
        /\ \A c \in 1 .. a : f[c] = x.suffix[c]
    BY ONLY <2>2, <2>3
  <2>5. f = x.suffix
    <3> DEFINE s == x.suffix
    <3>1. s \in Seq(Nat) /\ a = Len(s) /\ \A c \in 1 .. a : f[c] = s[c]
      BY <1>2, <2>4 DEF a
    <3> HIDE DEF s, a
    <3>2. f = s
      BY ONLY <3>1, <2>4, SeqIs
    <3> QED
      BY <3>2 DEF s
  <2> QED
    BY <1>10, <2>5 DEF f, EntryHeader
<1>12. ASSUME Short(n)
       PROVE  /\ Xattr(pos + 2) = b
              /\ Xattrs(NameEnd, ValueEnd) = x.value
  <2>1. Xattr(pos + 2) = b
    BY <1>7, <1>9, <1>12
  <2>2. ValueEnd = pos + 4 + a + b
    BY <1>10, <2>1 DEF ValueEnd
  <2> DEFINE f == Xattrs(pos + 4 + a, pos + 4 + a + b)
  <2>3. (pos + 4 + a + b) - (pos + 4 + a) = b
    BY ONLY <1>2, <1>5
  <2>4. f = [c \in 1 .. b |-> Xattr(pos + 4 + a + c - 1)]
    BY <2>3 DEF Xattrs
  <2>5. ASSUME NEW c \in 1 .. b
        PROVE  Xattr(pos + 4 + a + c - 1) = x.value[c]
    <3>1. /\ 4 + a + c \in 1 .. 4 + a + b
          /\ pos + ((4 + a + c) - 1) = pos + 4 + a + c - 1
      BY ONLY <1>2, <1>5
    <3> QED
      BY ONLY <1>3, <1>4, <3>1
  <2> HIDE DEF f
  <2>6. /\ DOMAIN f = 1 .. b /\ f = [c \in 1 .. b |-> f[c]]
        /\ \A c \in 1 .. b : f[c] = x.value[c]
    BY ONLY <2>4, <2>5
  <2>7. f = x.value
    <3> DEFINE s == x.value
    <3>1. s \in Seq(Nat) /\ b = Len(s) /\ \A c \in 1 .. b : f[c] = s[c]
      BY <1>2, <2>6 DEF b
    <3> HIDE DEF s, b
    <3>2. f = s
      BY ONLY <3>1, <2>6, SeqIs
    <3> QED
      BY <3>2 DEF s
  <2> QED
    BY <1>10, <2>1, <2>2, <2>7 DEF f
<1> QED
  BY <1>9, <1>11, <1>12 DEF x, a, b

(* Agreed entries take the same place.                                       *)
LEMMA AgreedSize ==
  ASSUME IInv, NEW n \in 0 .. Len(seen), Agree(n)
  PROVE  /\ EntriesSize(seen, n) = EntriesSize(inode.xattrs, n)
         /\ n \in 0 .. Len(inode.xattrs)
<1>1. seen \in Seq(XattrSet) /\ inode \in Inodes
  BY DEF IInv, Reading, Typed
<1>2. AreXattrs(seen) /\ Len(seen) \in Nat
  BY <1>1, SeenFacts
<1>3. AreXattrs(inode.xattrs) /\ Len(inode.xattrs) \in Nat
  BY <1>1, InodeIsOK, InodeXattrs
<1>4. /\ n \in Nat /\ n <= Len(seen) /\ n <= Len(inode.xattrs)
      /\ \A m \in 1 .. n : seen[m] = inode.xattrs[m]
  BY <1>2 DEF Agree
<1> QED
  BY <1>2, <1>3, <1>4, SameEntries

(* Steps of the reader leave the inode and the cells as they are.              *)
LEMMA ReaderKeeps ==
  ASSUME IInv, phase \in Reader, phase' \in Reader,
         UNCHANGED <<inode, hdr, buf, k>>, pos' \in Nat
  PROVE  /\ Typed' /\ Writing'
         /\ RdXattrSize' = RdXattrSize /\ (Fits' <=> Fits)
         /\ \A n : Short(n)' <=> Short(n)
<1>1. Typed'
  BY DEF IInv, Typed, Reader
<1>2. Writing'
  <2>1. \A j : Base(j)' = Base(j)
    BY DEF Base
  <2>2. Written(Len(inode.xattrs))' /\ At(buf, TailOffset, TailCells(inode))'
    <3>1. \A m \in 1 .. Len(inode.xattrs) :
            At(buf, Base(m), EntryCells(inode.xattrs[m]))'
      BY ReaderFacts, <2>1 DEF Written, At
    <3>2. Written(Len(inode.xattrs))'
      BY <3>1 DEF Written
    <3>3. TailOffset' = TailOffset
      BY DEF TailOffset
    <3>4. At(buf, TailOffset, TailCells(inode))'
      BY <3>3, ReaderFacts DEF At
    <3> QED
      BY <3>2, <3>4
  <2> QED
    BY <2>2 DEF Writing, Reader
<1>3. RdXattrSize' = RdXattrSize
  BY DEF RdXattrSize
<1>4. \A n : Short(n)' <=> Short(n)
  BY DEF Short
<1>5. Fits' <=> Fits
  <2>1. IcountFits' <=> IcountFits
    BY DEF IcountFits
  <2> QED
    BY <1>4, <2>1 DEF Fits
<1> QED
  BY <1>1, <1>2, <1>3, <1>4, <1>5

LEMMA CastKeeps ==
  ASSUME IInv, Cast
  PROVE  IInv'
<1>1. /\ phase = "cast" /\ pos' = IbodyHeader /\ seen' = seen
      /\ phase' = (IF RdXattrSize = 0 THEN "data" ELSE "parse")
      /\ UNCHANGED <<inode, hdr, buf, k>>
  BY DEF Cast
<1>2. phase \in Reader /\ phase' \in Reader /\ pos' \in Nat
  BY <1>1 DEF Reader, IbodyHeader
<1>3. /\ Typed' /\ Writing' /\ RdXattrSize' = RdXattrSize
      /\ (Fits' <=> Fits) /\ \A n : Short(n)' <=> Short(n)
  BY <1>1, <1>2, ReaderKeeps
<1>4. seen' = << >> /\ Len(seen') = 0 /\ seen' \in Seq(XattrSet)
  BY <1>1, EmptySeq DEF IInv, Reading
<1>5. EntriesSize(seen', 0) = 0
  BY <1>4, SeenFacts, EntriesSizeFacts
<1>6. Len(inode.xattrs) \in Nat /\ InodeOK(inode) /\ hdr = Header(inode)
  BY <1>2, ReaderFacts
<1>7. Reading'
  <2>1. \A n \in 1 .. 0 : FALSE
    OBVIOUS
  <2>2. Agree(Len(seen))'
    BY <1>1, <1>4, <1>6, <2>1 DEF Agree
  <2>3. phase' = "parse" => RdXattrSize # 0
    BY <1>1
  <2>4. pos' = IbodyHeader + EntriesSize(seen', Len(seen'))
    BY <1>1, <1>4, <1>5 DEF IbodyHeader
  <2>5. ASSUME Fits, phase' \in {"data", "done"}
        PROVE  Len(seen') = Len(inode.xattrs)
    <3>1. RdXattrSize = 0
      BY <1>1, <2>5
    <3>2. IbodySize(inode.xattrs) = 0
      BY <1>6, <2>5, <3>1, XattrSizeRead DEF Fits
    <3> QED
      BY <1>4, <1>6, <3>2, IbodyFacts
  <2> QED
    BY <1>1, <1>2, <1>3, <1>4, <2>1, <2>2, <2>3, <2>4, <2>5 DEF Reading
<1>8. DataFound'
  BY <1>1 DEF DataFound
<1> QED
  BY <1>3, <1>7, <1>8 DEF IInv

(* The next entry, when all that was read agrees and everything fits.          *)
LEMMA NextEntry ==
  ASSUME IInv, phase = "parse", Fits, Len(seen) < Len(inode.xattrs)
  PROVE  /\ Len(seen) + 1 \in 1 .. Len(inode.xattrs)
         /\ pos = IbodyHeader + EntriesSize(inode.xattrs, Len(seen))
         /\ HasEntry
<1> DEFINE m == Len(seen)
           n == m + 1
           xs == inode.xattrs
           x == xs[n]
<1>1. phase \in Reader
  BY DEF Reader
<1>2. /\ seen \in Seq(XattrSet) /\ Agree(m)
      /\ pos = IbodyHeader + EntriesSize(seen, m)
  BY DEF IInv, Reading
<1>3. m \in Nat /\ Len(xs) \in Nat /\ InodeOK(inode) /\ hdr = Header(inode)
  BY <1>1, <1>2, SeenFacts, ReaderFacts
<1>4. n \in 1 .. Len(xs) /\ n - 1 = m /\ m \in 0 .. Len(xs) /\ Len(xs) # 0
      /\ n \in 0 .. Len(xs) /\ m \in 0 .. m /\ Len(xs) \in 0 .. Len(xs)
      /\ n \in 0 .. Len(xs)
  BY <1>3
<1>5. pos = IbodyHeader + EntriesSize(xs, n - 1)
  BY <1>2, <1>4, AgreedSize
<1>6. AreXattrs(xs) /\ IsXattr(x)
  BY <1>3, <1>4, InodeXattrs DEF AreXattrs
<1>7. /\ Xattr(pos) = Len(x.suffix) /\ Xattr(pos + 2) = Len(x.value)
  BY <1>1, <1>4, <1>5, EntryRead DEF Fits
<1>8. /\ ValueEnd = pos + 4 + Len(x.suffix) + Len(x.value)
      /\ HasEntry <=> pos + 4 <= RdXattrSize /\ ValueEnd <= RdXattrSize
  BY <1>7 DEF NameEnd, ValueEnd, HasEntry, EntryHeader
<1>9. /\ Len(x.suffix) \in Nat /\ Len(x.value) \in Nat
      /\ EntrySize(x) \in Nat
      /\ 4 + Len(x.suffix) + Len(x.value) <= EntrySize(x)
  BY <1>6, EntrySizeFacts
<1>10. /\ EntriesSize(xs, n) = EntriesSize(xs, n - 1) + EntrySize(x)
       /\ EntriesSize(xs, n - 1) \in Nat /\ EntriesSize(xs, n) \in Nat
       /\ EntriesSize(xs, Len(xs)) \in Nat
       /\ EntriesSize(xs, n) <= EntriesSize(xs, Len(xs))
  <2>1. n - 1 \in 0 .. Len(xs) /\ n \in 0 .. Len(xs)
    BY <1>4
  <2>2. EntriesSize(xs, n) <= EntriesSize(xs, Len(xs))
    BY <1>4, <1>6, <2>1, EntriesInOrder
  <2> QED
    BY <1>4, <1>6, <2>1, <2>2, EntriesSizeFacts
<1>11. RdXattrSize = 12 + EntriesSize(xs, Len(xs))
  BY <1>3, <1>4, IbodyFacts, XattrSizeRead DEF Fits
<1> DEFINE a == Len(x.suffix)
           b == Len(x.value)
           e == EntrySize(x)
           s == EntriesSize(xs, n - 1)
           t == EntriesSize(xs, n)
           u == EntriesSize(xs, Len(xs))
<1>12. /\ a \in Nat /\ b \in Nat /\ e \in Nat /\ s \in Nat /\ t \in Nat
       /\ u \in Nat /\ 4 + a + b <= e /\ t = s + e /\ t <= u
       /\ RdXattrSize = 12 + u /\ pos = 12 + s /\ ValueEnd = pos + 4 + a + b
  BY <1>5, <1>8, <1>9, <1>10, <1>11 DEF IbodyHeader
<1> HIDE DEF a, b, e, s, t, u
<1>13. pos + 4 <= RdXattrSize /\ ValueEnd <= RdXattrSize
  BY ONLY <1>12
<1> QED
  BY <1>4, <1>5, <1>8, <1>13

LEMMA EndXattrsKeeps ==
  ASSUME IInv, EndXattrs
  PROVE  IInv'
<1>1. /\ phase = "parse" /\ phase' = "data" /\ ~ HasEntry
      /\ pos' = pos /\ seen' = seen /\ UNCHANGED <<inode, hdr, buf, k>>
  BY DEF EndXattrs
<1>2. phase \in Reader /\ phase' \in Reader /\ pos' \in Nat
  BY <1>1 DEF Reader, IInv, Typed
<1>3. /\ Typed' /\ Writing' /\ RdXattrSize' = RdXattrSize
      /\ (Fits' <=> Fits) /\ \A n : Short(n)' <=> Short(n)
  BY <1>1, <1>2, ReaderKeeps
<1>4. Fits => Len(seen) = Len(inode.xattrs)
  <2> SUFFICES ASSUME Fits
               PROVE  Len(seen) = Len(inode.xattrs)
    OBVIOUS
  <2>1. ~ (Len(seen) < Len(inode.xattrs))
    BY <1>1, NextEntry
  <2>2. Len(seen) <= Len(inode.xattrs)
    BY DEF IInv, Reading, Agree
  <2>3. Len(seen) \in Nat /\ Len(inode.xattrs) \in Nat
    BY <1>2, ReaderFacts, SeenFacts DEF IInv, Reading
  <2> QED
    BY ONLY <2>1, <2>2, <2>3
<1>5. Reading'
  <2>1. \A n : Agree(n)' <=> Agree(n)
    BY <1>1 DEF Agree
  <2>2. Agree(Len(seen))' <=> Agree(Len(seen))
    BY <1>1 DEF Agree
  <2> QED
    BY <1>1, <1>3, <1>4, <2>1, <2>2 DEF IInv, Reading
<1>6. DataFound'
  BY <1>1 DEF DataFound
<1> QED
  BY <1>3, <1>5, <1>6 DEF IInv

(* An entry that is read, whatever the cells hold.                            *)
Entry ==
  [index  |-> Xattr(pos + 1),
   suffix |-> Xattrs(pos + EntryHeader, NameEnd),
   value  |-> Xattrs(NameEnd, ValueEnd)]

LEMMA EntryFacts ==
  ASSUME IInv, phase \in Reader
  PROVE  /\ Entry \in XattrSet
         /\ Len(Entry.suffix) = Xattr(pos) /\ Len(Entry.value) = Xattr(pos + 2)
         /\ ValueEnd = pos + (4 + Xattr(pos) + Xattr(pos + 2))
         /\ Xattr(pos) \in Nat /\ Xattr(pos + 2) \in Nat
         /\ EntrySize(Entry) = RoundUp4(4 + Xattr(pos) + Xattr(pos + 2))
<1> DEFINE a == Xattr(pos)
           b == Xattr(pos + 2)
<1>1. pos \in Nat /\ pos + 1 \in Nat /\ pos + 2 \in Nat
  BY DEF IInv, Typed
<1>2. a \in Nat /\ b \in Nat /\ Xattr(pos + 1) \in Nat
  BY <1>1, XattrNat
<1>3. NameEnd = pos + 4 + a /\ ValueEnd = pos + 4 + a + b
  BY DEF NameEnd, ValueEnd, EntryHeader
<1> HIDE DEF a, b
<1>4. /\ (pos + 4 + a) - (pos + 4) = a
      /\ (pos + 4 + a + b) - (pos + 4 + a) = b
      /\ pos + 4 + a + b = pos + (4 + a + b)
  BY ONLY <1>1, <1>2
<1>5. /\ Entry.suffix = [c \in 1 .. a |-> Xattr(pos + 4 + c - 1)]
      /\ Entry.value = [c \in 1 .. b |-> Xattr(pos + 4 + a + c - 1)]
      /\ Entry = [index |-> Xattr(pos + 1), suffix |-> Entry.suffix,
                  value |-> Entry.value]
  BY <1>3, <1>4 DEF Entry, Xattrs, EntryHeader
<1>6. \A c \in 1 .. a : Xattr(pos + 4 + c - 1) \in Nat
  <2> SUFFICES ASSUME NEW c \in 1 .. a
               PROVE  Xattr(pos + 4 + c - 1) \in Nat
    OBVIOUS
  <2>1. pos + 4 + c - 1 \in Nat
    BY ONLY <1>1, <1>2
  <2> QED
    BY <2>1, XattrNat
<1>7. \A c \in 1 .. b : Xattr(pos + 4 + a + c - 1) \in Nat
  <2> SUFFICES ASSUME NEW c \in 1 .. b
               PROVE  Xattr(pos + 4 + a + c - 1) \in Nat
    OBVIOUS
  <2>1. pos + 4 + a + c - 1 \in Nat
    BY ONLY <1>1, <1>2
  <2> QED
    BY <2>1, XattrNat
<1>8. Entry.suffix \in Seq(Nat) /\ Len(Entry.suffix) = a
  <2> DEFINE f == Entry.suffix
  <2>1. f \in [1 .. a -> Nat]
    BY <1>5, <1>6
  <2> HIDE DEF f
  <2>2. f \in Seq(Nat) /\ Len(f) = a
    BY ONLY <1>2, <2>1
  <2> QED
    BY <2>2 DEF f
<1>9. Entry.value \in Seq(Nat) /\ Len(Entry.value) = b
  <2> DEFINE f == Entry.value
  <2>1. f \in [1 .. b -> Nat]
    BY <1>5, <1>7
  <2> HIDE DEF f
  <2>2. f \in Seq(Nat) /\ Len(f) = b
    BY ONLY <1>2, <2>1
  <2> QED
    BY <2>2 DEF f
<1>10. Entry \in XattrSet
  <2> DEFINE i == Xattr(pos + 1)
             s == Entry.suffix
             v == Entry.value
  <2>1. /\ i \in Nat /\ s \in Seq(Nat) /\ v \in Seq(Nat)
        /\ Entry = [index |-> i, suffix |-> s, value |-> v]
    BY <1>2, <1>5, <1>8, <1>9
  <2> HIDE DEF i, s, v
  <2>2. [index |-> i, suffix |-> s, value |-> v] \in XattrSet
    BY ONLY <2>1 DEF XattrSet
  <2> QED
    BY ONLY <2>1, <2>2
<1>11. EntrySize(Entry) = RoundUp4(4 + a + b)
  BY <1>8, <1>9 DEF EntrySize, EntryHeader
<1> QED
  BY <1>2, <1>3, <1>4, <1>8, <1>9, <1>10, <1>11 DEF a, b

LEMMA ParseXattrKeeps ==
  ASSUME IInv, ParseXattr
  PROVE  IInv'
<1> DEFINE m == Len(seen)
           n == m + 1
           xs == inode.xattrs
<1>1. /\ phase = "parse" /\ phase' = "parse" /\ HasEntry
      /\ seen' = Append(seen, Entry) /\ pos' = RoundUp4(ValueEnd)
      /\ UNCHANGED <<inode, hdr, buf, k>>
  BY DEF ParseXattr, Entry
<1>2. phase \in Reader /\ phase' \in Reader
  BY <1>1 DEF Reader
<1>3. /\ seen \in Seq(XattrSet) /\ RdXattrSize # 0
      /\ pos = IbodyHeader + EntriesSize(seen, m)
      /\ \A j \in 1 .. m : Agree(j) => Short(j)
      /\ Fits => Agree(m)
  BY <1>1 DEF IInv, Reading
<1>4. m \in Nat /\ AreXattrs(seen) /\ EntriesSize(seen, m) \in Nat
      /\ Words(EntriesSize(seen, m))
  BY <1>3, SeenFacts
<1>5. /\ Entry \in XattrSet
      /\ ValueEnd = pos + (4 + Xattr(pos) + Xattr(pos + 2))
      /\ Xattr(pos) \in Nat /\ Xattr(pos + 2) \in Nat
      /\ EntrySize(Entry) = RoundUp4(4 + Xattr(pos) + Xattr(pos + 2))
      /\ Len(Entry.value) = Xattr(pos + 2)
  BY <1>2, EntryFacts
<1>6. /\ seen' \in Seq(XattrSet) /\ Len(seen') = n
      /\ seen'[n] = Entry /\ \A j \in 1 .. m : seen'[j] = seen[j]
  BY <1>1, <1>3, <1>5, AppendProperties
<1>7. /\ n \in Nat /\ n \in 1 .. n /\ n - 1 = m /\ m \in 0 .. n
      /\ \A j \in 1 .. n : j \in 1 .. m \/ j = n
      /\ m <= m /\ m <= n
  BY <1>4
<1>8. AreXattrs(seen')
  BY <1>6, SeenFacts
<1>9. EntriesSize(seen', n) = EntriesSize(seen, m) + EntrySize(Entry)
  <2>1. EntriesSize(seen', n) = EntriesSize(seen', n - 1) + EntrySize(seen'[n])
    BY <1>6, <1>7, <1>8, EntriesSizeFacts
  <2>2. EntriesSize(seen', m) = EntriesSize(seen, m)
    BY <1>4, <1>6, <1>7, <1>8, SameEntries
  <2> QED
    BY <1>6, <1>7, <2>1, <2>2
<1>10. pos' = pos + EntrySize(Entry) /\ EntrySize(Entry) \in Nat
  <2> DEFINE d == 4 + Xattr(pos) + Xattr(pos + 2)
  <2>1. Words(pos)
    <3>1. 12 = 4 * 3
      OBVIOUS
    <3>2. Words(12)
      BY <3>1 DEF Words
    <3> QED
      BY <1>3, <1>4, <3>2, WordsAdd DEF IbodyHeader
  <2>2. d \in Nat
    BY <1>5
  <2>3. ValueEnd = pos + d /\ EntrySize(Entry) = RoundUp4(d)
    BY <1>5
  <2> HIDE DEF d
  <2>4. RoundUp4(pos + d) = pos + RoundUp4(d)
    BY <2>1, <2>2, RoundUp4Of
  <2>5. RoundUp4(d) \in Nat
    BY <2>2, RoundUp4Facts DEF Words
  <2> QED
    BY <1>1, <2>3, <2>4, <2>5
<1>11. pos' = IbodyHeader + EntriesSize(seen', Len(seen'))
  <2> DEFINE s == EntriesSize(seen, m)
             e == EntrySize(Entry)
  <2>1. s \in Nat /\ e \in Nat /\ pos = 12 + s /\ pos' = pos + e
        /\ EntriesSize(seen', n) = s + e
    BY <1>3, <1>4, <1>9, <1>10 DEF IbodyHeader
  <2> HIDE DEF s, e
  <2>2. pos' = 12 + (s + e)
    BY ONLY <2>1
  <2> QED
    BY <1>6, <2>1, <2>2 DEF IbodyHeader
<1>12. pos' \in Nat
  BY <1>10 DEF IInv, Typed
<1>13. pos' <= RdXattrSize
  <2>1. ValueEnd <= RdXattrSize /\ Words(RdXattrSize)
    BY <1>1, <1>2, ReaderFacts DEF HasEntry
  <2>2. ValueEnd \in Nat
    BY <1>5 DEF IInv, Typed
  <2> QED
    BY <1>1, <2>1, <2>2, RoundUp4Below
<1>14. /\ Typed' /\ Writing' /\ RdXattrSize' = RdXattrSize
       /\ (Fits' <=> Fits) /\ \A j : Short(j)' <=> Short(j)
  BY <1>1, <1>2, <1>12, ReaderKeeps
<1>15. \A j \in 0 .. m : Agree(j)' <=> Agree(j)
  <2> SUFFICES ASSUME NEW j \in 0 .. m
               PROVE  Agree(j)' <=> Agree(j)
    OBVIOUS
  <2>1. \A i \in 1 .. j : i \in 1 .. m
    BY <1>4
  <2> QED
    BY <1>1, <1>6, <2>1 DEF Agree
<1>16. Len(xs) \in Nat /\ InodeOK(inode) /\ hdr = Header(inode)
  BY <1>2, ReaderFacts
<1>17. ASSUME n <= Len(xs), Agree(m)
       PROVE  pos = IbodyHeader + EntriesSize(xs, n - 1) /\ n \in 1 .. Len(xs)
  <2>1. m \in 0 .. m /\ n \in 1 .. Len(xs)
    BY <1>4, <1>16, <1>17
  <2>2. EntriesSize(seen, m) = EntriesSize(xs, m)
    BY <1>17, <2>1, AgreedSize
  <2> QED
    BY <1>3, <1>7, <2>1, <2>2
<1>18. ASSUME NEW j, j = n, Agree(j)'
       PROVE  Short(j)
  <2>1. n <= Len(xs) /\ \A i \in 1 .. n : seen'[i] = xs[i]
    BY <1>1, <1>18 DEF Agree
  <2>2. Agree(m)
    <3>1. m <= Len(xs)
      BY <1>4, <1>16, <2>1
    <3> QED
      BY <1>6, <1>7, <2>1, <3>1 DEF Agree
  <2>3. pos = IbodyHeader + EntriesSize(xs, n - 1) /\ n \in 1 .. Len(xs)
    BY <1>17, <2>1, <2>2
  <2>4. Xattr(pos + 2) = Len(xs[n].value) % U16
    BY <1>2, <2>3, EntryRead
  <2>5. Entry = xs[n]
    BY <1>6, <1>7, <2>1
  <2> DEFINE b == Len(xs[n].value)
  <2>6. b = b % U16 /\ b \in Nat
    BY <1>5, <2>4, <2>5
  <2> HIDE DEF b
  <2>7. b % U16 \in 0 .. U16 - 1
    BY <2>6, DivMod, WidthFacts
  <2>8. b < U16
    BY ONLY <2>6, <2>7, WidthFacts
  <2> QED
    BY <1>18, <2>8 DEF b, Short
<1>19. ASSUME Fits
       PROVE  Agree(Len(seen))'
  <2>1. Agree(m)
    BY <1>3, <1>19
  <2>2. m < Len(xs)
    <3>1. m <= Len(xs)
      BY <2>1 DEF Agree
    <3>2. RdXattrSize = IbodySize(xs)
      BY <1>16, <1>19, XattrSizeRead DEF Fits
    <3>3. m # Len(xs)
      <4> SUFFICES ASSUME m = Len(xs)
                   PROVE  FALSE
        OBVIOUS
      <4>1. Len(xs) # 0
        BY <1>3, <1>16, <3>2, IbodyFacts
      <4>2. RdXattrSize = 12 + EntriesSize(xs, m)
        BY <1>16, <3>2, <4>1, IbodyFacts
      <4>3. EntriesSize(seen, m) = EntriesSize(xs, m)
        <5>1. m \in 0 .. m
          BY <1>4
        <5> QED
          BY <2>1, <5>1, AgreedSize
      <4>4. pos = RdXattrSize
        BY <1>3, <4>2, <4>3 DEF IbodyHeader
      <4>5. pos + 4 <= RdXattrSize /\ pos \in Nat
        BY <1>1 DEF HasEntry, EntryHeader, IInv, Typed
      <4> QED
        BY ONLY <4>4, <4>5
    <3> QED
      BY ONLY <1>4, <1>16, <3>1, <3>3
  <2>3. n <= Len(xs)
    BY ONLY <1>4, <1>16, <2>2
  <2>4. pos = IbodyHeader + EntriesSize(xs, n - 1) /\ n \in 1 .. Len(xs)
    BY <1>17, <2>1, <2>3
  <2>5. Short(n)
    BY <1>19, <2>4 DEF Fits
  <2>6. /\ Entry.index = xs[n].index /\ Entry.suffix = xs[n].suffix
        /\ Entry.value = xs[n].value
    BY <1>2, <2>4, <2>5, EntryRead DEF Entry
  <2>7. Entry = xs[n]
    <3> DEFINE x == xs[n]
    <3>1. x \in XattrSet
      BY <1>16, <2>4, InodeXattrs, ElementOfSeq DEF XattrSet
    <3>2. /\ Entry \in XattrSet /\ Entry.index = x.index
          /\ Entry.suffix = x.suffix /\ Entry.value = x.value
      BY <1>5, <2>6
    <3> HIDE DEF x
    <3>3. /\ Entry = [index |-> Entry.index, suffix |-> Entry.suffix,
                      value |-> Entry.value]
          /\ x = [index |-> x.index, suffix |-> x.suffix, value |-> x.value]
      BY ONLY <3>1, <3>2 DEF XattrSet
    <3>4. Entry = x
      BY ONLY <3>2, <3>3
    <3> QED
      BY <3>4 DEF x
  <2>8. \A i \in 1 .. n : seen'[i] = xs[i]
    BY <1>6, <1>7, <2>1, <2>7 DEF Agree
  <2> QED
    BY <1>1, <1>6, <2>3, <2>8 DEF Agree
<1>20. Reading'
  <2>1. \A j \in 1 .. Len(seen') : Agree(j)' => Short(j)
    <3> SUFFICES ASSUME NEW j \in 1 .. n, Agree(j)'
                 PROVE  Short(j)
      BY <1>6
    <3>1. CASE j \in 1 .. m
      <4>1. j \in 0 .. m
        BY <1>4, <3>1
      <4> QED
        BY <1>3, <1>15, <3>1, <4>1
    <3>2. CASE j = n
      BY <1>18, <3>2
    <3> QED
      BY <1>7, <3>1, <3>2
  <2>2. phase' = "parse" /\ RdXattrSize' # 0
    BY <1>1, <1>3, <1>14
  <2>3. IbodyHeader + EntriesSize(seen', Len(seen')) <= RdXattrSize'
    BY <1>11, <1>13, <1>14
  <2> QED
    BY <1>6, <1>11, <1>14, <1>19, <2>1, <2>2, <2>3 DEF Reading
<1>21. DataFound'
  BY <1>1 DEF DataFound
<1> QED
  BY <1>14, <1>20, <1>21 DEF IInv

(* What lies behind the ibody is read from where it was written.              *)
LEMMA TailRead ==
  ASSUME IInv, phase \in Reader, IcountFits,
         NEW c \in 1 .. Len(TailCells(inode))
  PROVE  /\ RdDataOffset \in Nat
         /\ RdDataOffset + c <= Len(buf)
         /\ buf[RdDataOffset + c] = TailCells(inode)[c]
<1>1. RdDataOffset = TailOffset
  BY ReaderFacts, DataOffsetRead
<1>2. /\ TailOffset \in Nat /\ MetaSize(inode) \in Nat
      /\ TailCells(inode) \in Seq(Nat)
      /\ TailOffset + Len(TailCells(inode)) = MetaSize(inode)
      /\ Len(buf) = MetaSize(inode)
  BY ReaderFacts, SizeFacts
<1>3. TailOffset + c <= MetaSize(inode)
  <2> DEFINE l == Len(TailCells(inode))
  <2>1. l \in Nat /\ TailOffset + l = MetaSize(inode) /\ c \in 1 .. l
    BY <1>2, LenProperties
  <2> HIDE DEF l
  <2> QED
    BY ONLY <1>2, <2>1
<1>4. buf[TailOffset + c] = TailCells(inode)[c]
  BY ReaderFacts DEF At
<1> QED
  BY <1>1, <1>2, <1>3, <1>4

LEMMA ChunkRead ==
  ASSUME IInv, phase \in Reader, IcountFits, inode.kind = "reg",
         NEW c \in 1 .. Len(inode.chunks)
  PROVE  BlkAddr(Cells(RdDataOffset + (c - 1) * ChunkIndexSize,
                       RdDataOffset + c * ChunkIndexSize))
           = inode.chunks[c] % (U16 * U32)
<1> DEFINE cs == inode.chunks
           o == RdDataOffset
           a == cs[c]
           f == o + (c - 1) * 8
           t == o + c * 8
           cells == Cells(f, t)
<1>1. cs \in Seq(0 .. NullAddr) /\ TailCells(inode) = ChunkIndexes(cs)
  BY ReaderFacts DEF InodeOK, TailCells
<1>2. /\ Len(cs) \in Nat /\ a \in 0 .. NullAddr /\ c \in Nat
      /\ (c - 1) * 8 \in Nat /\ c * 8 = (c - 1) * 8 + 8
  <2>1. Len(cs) \in Nat /\ a \in 0 .. NullAddr
    BY <1>1, LenProperties, ElementOfSeq
  <2>2. c \in Nat /\ c >= 1
    BY <2>1
  <2>3. (c - 1) * 8 \in Nat /\ c * 8 = (c - 1) * 8 + 8
    BY ONLY <2>2
  <2> QED
    BY <2>1, <2>2, <2>3
<1>3. /\ Len(ChunkIndexes(cs)) = Len(cs) * 8
      /\ \A j \in 1 .. 8 : ChunkIndexes(cs)[(c - 1) * 8 + j] = ChunkIndex(a)[j]
  BY <1>1, ChunkIndexesFacts
<1> HIDE DEF cs, a
<1>4. ASSUME NEW j \in 1 .. 8
      PROVE  /\ o \in Nat
             /\ o + ((c - 1) * 8 + j) <= Len(buf)
             /\ buf[o + ((c - 1) * 8 + j)] = ChunkIndex(a)[j]
  <2>1. (c - 1) * 8 + j \in 1 .. Len(cs) * 8
    <3>1. c \in 1 .. Len(cs)
      BY DEF cs
    <3>2. (c - 1) * 8 + j \in 1 .. Len(cs) * 8
      BY ONLY <1>2, <3>1, j \in 1 .. 8
    <3> QED
      BY <3>2
  <2>2. (c - 1) * 8 + j \in 1 .. Len(TailCells(inode))
    BY <1>1, <1>3, <2>1
  <2>3. /\ RdDataOffset \in Nat
        /\ RdDataOffset + ((c - 1) * 8 + j) <= Len(buf)
        /\ buf[RdDataOffset + ((c - 1) * 8 + j)]
             = TailCells(inode)[(c - 1) * 8 + j]
    BY <2>2, TailRead
  <2> QED
    BY <1>1, <1>3, <2>3
<1>5. o \in Nat
  <2>1. 1 \in 1 .. 8
    OBVIOUS
  <2> QED
    BY <1>4, <2>1
<1>6. t - f = 8 /\ f \in Nat
  <2> HIDE DEF o
  <2> QED
    BY ONLY <1>2, <1>5 DEF t, f
<1>7. ASSUME NEW j \in 1 .. 8
      PROVE  cells[j] = ChunkIndex(a)[j]
  <2>1. cells[j] = IF f + j <= Len(buf) THEN buf[f + j] ELSE 0
    BY <1>6, <1>7 DEF Cells
  <2>2. f + j = o + ((c - 1) * 8 + j)
    <3> HIDE DEF o
    <3> QED
      BY ONLY <1>2, <1>5, j \in 1 .. 8 DEF f
  <2> HIDE DEF f, o, cells
  <2>3. /\ o + ((c - 1) * 8 + j) <= Len(buf)
        /\ buf[o + ((c - 1) * 8 + j)] = ChunkIndex(a)[j]
    BY <1>4
  <2> QED
    BY ONLY <2>1, <2>2, <2>3
<1>8. cells[1] = ChunkIndex(a)[1] /\ cells[3] = ChunkIndex(a)[3]
  BY <1>7
<1> HIDE DEF cells
<1>9. BlkAddr(cells) = a % (U16 * U32)
  BY <1>2, <1>8, AddressRead
<1> QED
  BY <1>9 DEF cells, f, t, o, a, cs, ChunkIndexSize

LEMMA ReadDataKeeps ==
  ASSUME IInv, ReadData
  PROVE  IInv'
<1>1. /\ phase = "data" /\ phase' = "done"
      /\ pos' = pos /\ seen' = seen /\ UNCHANGED <<inode, hdr, buf, k>>
      /\ RdLayout = ChunkBased =>
           tail' = [c \in 1 .. RdChunks |->
                      BlkAddr(Cells(RdDataOffset + (c - 1) * ChunkIndexSize,
                                    RdDataOffset + c * ChunkIndexSize))]
      /\ RdLayout = FlatInline =>
           tail' = Cells(RdDataOffset, RdDataOffset + View.size)
  <2>1. ChunkBased # FlatInline
    BY DEF ChunkBased, FlatInline
  <2> QED
    BY <2>1 DEF ReadData
<1>2. phase \in Reader /\ phase' \in Reader /\ pos' \in Nat
  BY <1>1 DEF Reader, IInv, Typed
<1>3. /\ Typed' /\ Writing' /\ RdXattrSize' = RdXattrSize
      /\ (Fits' <=> Fits) /\ \A n : Short(n)' <=> Short(n)
  BY <1>1, <1>2, ReaderKeeps
<1>4. Reading'
  <2>1. \A n : Agree(n)' <=> Agree(n)
    BY <1>1 DEF Agree
  <2>2. Agree(Len(seen))' <=> Agree(Len(seen))
    BY <1>1 DEF Agree
  <2> QED
    BY <1>1, <1>3, <2>1, <2>2 DEF IInv, Reading
<1>5. RdLayout = Layout(inode) /\ InodeOK(inode) /\ hdr = Header(inode)
  BY <1>2, ReaderFacts, FormRead
<1>6. ASSUME IcountFits, inode.kind = "reg"
      PROVE  tail' = [c \in 1 .. Len(inode.chunks) |->
                        inode.chunks[c] % (U16 * U32)]
  <2>1. RdLayout = ChunkBased
    BY <1>5, <1>6 DEF Layout
  <2>2. RdChunks = Len(inode.chunks)
    BY <1>5, <1>6, ChunksRead
  <2>3. \A c \in 1 .. Len(inode.chunks) :
          BlkAddr(Cells(RdDataOffset + (c - 1) * ChunkIndexSize,
                        RdDataOffset + c * ChunkIndexSize))
            = inode.chunks[c] % (U16 * U32)
    BY <1>2, <1>6, ChunkRead
  <2> QED
    BY <1>1, <2>1, <2>2, <2>3
<1>7. ASSUME IcountFits, inode.kind = "lnk"
      PROVE  tail' = inode.target
  <2> DEFINE s == inode.target
             n == Len(s)
             o == RdDataOffset
             f == Cells(o, o + n)
  <2>1. RdLayout = FlatInline
    BY <1>5, <1>7 DEF Layout, ChunkBased, FlatInline
  <2>2. View.size = n /\ s \in Seq(Nat) /\ n \in Nat
    BY <1>5, <1>7, SizeRead, LenProperties DEF InodeOK
  <2>3. TailCells(inode) = s
    BY <1>7 DEF TailCells
  <2>4. \A c \in 1 .. n : o + c <= Len(buf) /\ buf[o + c] = s[c]
    BY <1>2, <1>7, <2>3, TailRead
  <2>5. o \in Nat
    BY <1>2, ReaderFacts DEF RdDataOffset
  <2> HIDE DEF o
  <2>6. (o + n) - o = n
    BY ONLY <2>2, <2>5
  <2>7. f = [c \in 1 .. n |-> IF o + c <= Len(buf) THEN buf[o + c] ELSE 0]
    BY <2>6 DEF Cells
  <2> HIDE DEF f, s, n
  <2>8. f = [c \in 1 .. n |-> f[c]] /\ \A c \in 1 .. n : f[c] = s[c]
    BY ONLY <2>4, <2>7
  <2>9. n = Len(s) /\ s \in Seq(Nat)
    BY <2>2 DEF n
  <2>10. f = s
    BY ONLY <2>8, <2>9, SeqIs
  <2>11. tail' = f
    BY <1>1, <2>1, <2>2 DEF f, o
  <2> QED
    BY <2>10, <2>11 DEF s
<1>8. DataFound'
  <2>1. IcountFits' <=> IcountFits
    BY <1>1 DEF IcountFits
  <2> QED
    BY <1>1, <1>6, <1>7, <2>1 DEF DataFound
<1> QED
  BY <1>3, <1>4, <1>8 DEF IInv

LEMMA NextIInv == IInv /\ [Next]_vars => IInv'
<1> SUFFICES ASSUME IInv, [Next]_vars
             PROVE  IInv'
  OBVIOUS
<1>1. CASE WriteHeader
  BY <1>1, WriteHeaderKeeps
<1>2. CASE WriteXattr
  BY <1>2, WriteXattrKeeps
<1>3. CASE WriteTail
  BY <1>3, WriteTailKeeps
<1>4. CASE Cast
  BY <1>4, CastKeeps
<1>5. CASE ParseXattr
  BY <1>5, ParseXattrKeeps
<1>6. CASE EndXattrs
  BY <1>6, EndXattrsKeeps
<1>7. CASE ReadData
  BY <1>7, ReadDataKeeps
<1>8. CASE UNCHANGED vars
  <2>1. UNCHANGED <<inode, phase, hdr, buf, k, pos, seen, tail>>
    BY <1>8 DEF vars
  <2>2. Typed'
    BY <2>1 DEF IInv, Typed
  <2>3. Writing'
    <3>1. \A j : Base(j)' = Base(j)
      BY <2>1 DEF Base
    <3>2. \A j : (k = j => Base(k)' = Base(j)) /\ (Written(j)' <=> Written(j))
      BY <2>1, <3>1 DEF Base, Written, At
    <3>3. (pos = Base(k))' <=> pos = Base(k)
      BY <2>1 DEF Base
    <3>4. Written(k - 1)' <=> Written(k - 1)
      BY <2>1, <3>1 DEF Written, At
    <3>5. Written(Len(inode.xattrs))' <=> Written(Len(inode.xattrs))
      BY <2>1, <3>1 DEF Written, At
    <3>6. At(buf, TailOffset, TailCells(inode))'
            <=> At(buf, TailOffset, TailCells(inode))
      BY <2>1 DEF At, TailOffset
    <3> QED
      BY <2>1, <3>3, <3>4, <3>5, <3>6 DEF IInv, Writing
  <2>4. Reading'
    <3>1. \A n : (Agree(n)' <=> Agree(n)) /\ (Short(n)' <=> Short(n))
      BY <2>1 DEF Agree, Short
    <3>2. Agree(Len(seen))' <=> Agree(Len(seen))
      BY <2>1 DEF Agree
    <3>3. (Fits' <=> Fits) /\ RdXattrSize' = RdXattrSize
      BY <2>1, <3>1 DEF Fits, IcountFits, RdXattrSize
    <3> QED
      BY <2>1, <3>1, <3>2, <3>3 DEF IInv, Reading
  <2>5. DataFound'
    BY <2>1 DEF IInv, DataFound, IcountFits
  <2> QED
    BY <2>2, <2>3, <2>4, <2>5 DEF IInv
<1> QED
  BY <1>1, <1>2, <1>3, <1>4, <1>5, <1>6, <1>7, <1>8 DEF Next

LEMMA Invariance == Spec => []IInv
BY InitIInv, NextIInv, PTL DEF Spec

-----------------------------------------------------------------------------
(* The theorems.                                                           *)

(* serialize_inode never writes outside the buffer that inode_meta_size gave   *)
(* the inode: the sum over the xattrs that sizes it and the steps of the loop   *)
(* that fills it agree, whatever the xattrs are.                             *)
THEOREM InodeTypeCorrect == Spec => []TypeOK
<1>1. IInv => TypeOK
  <2> SUFFICES ASSUME IInv
               PROVE  TypeOK
    OBVIOUS
  <2>1. /\ inode \in Inodes /\ k \in 1 .. Len(inode.xattrs) + 1 /\ pos \in Nat
        /\ phase \in {"header", "xattrs", "cast", "parse", "data", "done"}
    BY DEF IInv, Typed, Reader
  <2>2. ASSUME phase # "header"
        PROVE  Len(buf) = MetaSize(inode)
    <3>1. buf \in [1 .. MetaSize(inode) -> Nat]
      BY <2>2 DEF IInv, Typed
    <3>2. MetaSize(inode) \in Nat
      BY <2>1, InodeIsOK, SizeFacts
    <3> QED
      BY ONLY <3>1, <3>2
  <2>3. \A i \in 1 .. Len(seen) : seen[i].index \in Nat
    <3>1. seen \in Seq(XattrSet)
      BY DEF IInv, Reading
    <3> QED
      BY <3>1, SeenFacts DEF AreXattrs, IsXattr
  <2> QED
    BY <2>1, <2>2, <2>3 DEF TypeOK
<1> QED
  BY <1>1, Invariance, PTL

(* What is listed and got from the mounted file is what was read from the       *)
(* source file if, and only if, 16 bits hold the length of each value and the   *)
(* number of words of them all.                                              *)
THEOREM XattrsArePreserved == Spec => []XattrsPreserved
<1>1. IInv => XattrsPreserved
  <2> SUFFICES ASSUME IInv, phase = "done"
               PROVE  seen = inode.xattrs <=> Fits
    BY DEF XattrsPreserved, Fits, Short
  <2> DEFINE xs == inode.xattrs
  <2>1. /\ seen \in Seq(XattrSet) /\ Len(seen) \in Nat
        /\ AreXattrs(seen)
    BY SeenFacts DEF IInv, Reading
  <2>2. /\ InodeOK(inode) /\ hdr = Header(inode) /\ Len(xs) \in Nat
        /\ phase \in Reader
    BY ReaderFacts DEF Reader
  <2>3. xs \in Seq(XattrSet)
    BY <2>2, InodeXattrs DEF XattrSet
  <2>4. ASSUME Fits
        PROVE  seen = xs
    <3>1. Agree(Len(seen)) /\ Len(seen) = Len(xs)
      BY <2>4 DEF IInv, Reading
    <3>2. \A i \in 1 .. Len(seen) : seen[i] = xs[i]
      BY <3>1 DEF Agree
    <3> HIDE DEF xs
    <3> QED
      BY ONLY <2>1, <2>3, <3>1, <3>2, SeqEqual
  <2>5. ASSUME seen = xs
        PROVE  Fits
    <3>1. \A n \in 1 .. Len(xs) : Agree(n)
      BY <2>2, <2>5 DEF Agree
    <3>2. \A n \in 1 .. Len(xs) : Short(n)
      BY <2>5, <3>1 DEF IInv, Reading
    <3>3. IcountFits
      <4>1. CASE Len(xs) = 0
        <5>1. IbodySize(xs) = 0
          BY <2>2, <4>1, IbodyFacts
        <5> QED
          BY <5>1, WidthFacts DEF IcountFits
      <4>2. CASE Len(xs) # 0
        <5>1. 12 + EntriesSize(xs, Len(xs)) <= RdXattrSize
          BY <2>5, <4>2 DEF IInv, Reading, IbodyHeader
        <5>2. IbodySize(xs) = 12 + EntriesSize(xs, Len(xs))
              /\ IbodySize(xs) \in Nat
          BY <2>2, <4>2, IbodyFacts
        <5>3. ~ (RdXattrSize < IbodySize(xs))
          <6>1. RdXattrSize \in Nat
            BY <2>2, ReaderFacts
          <6> QED
            BY ONLY <5>1, <5>2, <6>1
        <5> QED
          BY <2>2, <5>3, XattrSizeRead
      <4> QED
        BY <4>1, <4>2
    <3> QED
      BY <3>2, <3>3 DEF Fits
  <2> QED
    BY <2>4, <2>5
<1> QED
  BY <1>1, Invariance, PTL

(* The chunk addresses and the target of a link are found where they were       *)
(* written, and come back whole but for the bits of an address above the 48th.  *)
THEOREM DataIsFound == Spec => []DataFound
BY Invariance, PTL DEF IInv

(* All attributes of an inode come back as they were, unless the data of a       *)
(* directory or a time is too large for its field.                           *)
THEOREM AttributesArePreserved ==
  Spec => [](Representable(inode) => AttributesPreserved)
<1>1. IInv => (Representable(inode) => AttributesPreserved)
  <2> SUFFICES ASSUME IInv, phase = "cast", Representable(inode)
               PROVE  AttributesPreserved
    BY DEF AttributesPreserved
  <2>1. InodeOK(inode) /\ hdr = Header(inode)
    BY ReaderFacts DEF Reader
  <2> QED
    BY <2>1, AttributesRead
<1> QED
  BY <1>1, Invariance, PTL
=============================================================================

-------------------------- MODULE DirBlocksProofs --------------------------
(***************************************************************************)
(* Theorems about DirBlocks, for every block and dirent size and every list   *)
(* of children: a listing gives every entry once and in order, and a lookup   *)
(* the first entry of its name, whatever the way the entries fall into       *)
(* blocks.                                                                 *)
(*                                                                         *)
(* The induction theorems of the library have operators for parameters; the   *)
(* few inductions over the entries rest on the well-foundedness of < on Nat.  *)
(***************************************************************************)
EXTENDS DirBlocks, Integers, SequenceTheorems, WellFoundedInduction, TLAPS

Names(es) == \A i \in 1 .. Len(es) : Len(es[i].name) \in Nat \ {0}

EntriesOK(es) ==
  /\ es \in Seq(Entry)
  /\ \A i \in 1 .. Len(es) : Len(es[i].name) \in 1 .. BlockSize - DirentSize

-----------------------------------------------------------------------------
(* Induction over the natural numbers, for sets instead of predicates.        *)

LEMMA LeastNat ==
  ASSUME NEW T \in SUBSET Nat, T # {}
  PROVE  \E n \in T : \A m \in T : n <= m
<1>1. \E x \in T : \A y \in T : ~ (<<y, x>> \in OpToRel(<, Nat))
  BY NatLessThanWellFounded, WFMin
<1>2. PICK n \in T : \A y \in T : ~ (<<y, n>> \in OpToRel(<, Nat))
  BY <1>1
<1>3. \A m \in T : m < n => <<m, n>> \in OpToRel(<, Nat)
  BY DEF OpToRel
<1>4. \A m \in T : m \in Nat /\ n \in Nat /\ ~ (m < n)
  BY <1>2, <1>3
<1> QED
  BY <1>4

LEMMA SetInduction ==
  ASSUME NEW S, 0 \in S, \A n \in Nat : n \in S => n + 1 \in S
  PROVE  \A n \in Nat : n \in S
<1> SUFFICES ASSUME \E n \in Nat : n \notin S
             PROVE  FALSE
  OBVIOUS
<1> DEFINE T == Nat \ S
<1>1. T \in SUBSET Nat /\ T # {}
  OBVIOUS
<1>2. PICK n \in T : \A m \in T : n <= m
  BY <1>1, LeastNat
<1>3. n # 0 /\ n \in Nat
  OBVIOUS
<1>4. n - 1 \in Nat /\ n - 1 \notin T
  BY <1>2, <1>3
<1>5. n - 1 \in S /\ (n - 1) + 1 = n
  BY <1>3, <1>4
<1> QED
  BY <1>4, <1>5

-----------------------------------------------------------------------------
(* The cells that the names of the first entries take.                       *)

(* Whether f has the sums of the first m.                                    *)
SumsTo(f, es, m) ==
  /\ f \in [0 .. m -> Nat]
  /\ f[0] = 0
  /\ \A i \in 1 .. m : f[i] = f[i - 1] + Len(es[i].name)

Before(es) == CHOOSE f : SumsTo(f, es, Len(es))

LEMMA SumsExist ==
  ASSUME NEW es, Len(es) \in Nat, Names(es)
  PROVE  \E f : SumsTo(f, es, Len(es))
<1> DEFINE S == {m \in Nat : m <= Len(es) => \E f : SumsTo(f, es, m)}
<1>1. 0 \in S
  <2> DEFINE f == [i \in 0 .. 0 |-> 0]
  <2>1. SumsTo(f, es, 0)
    BY DEF SumsTo
  <2> QED
    BY <2>1
<1>2. ASSUME NEW m \in Nat, m \in S
      PROVE  m + 1 \in S
  <2> SUFFICES ASSUME m + 1 <= Len(es)
               PROVE  \E f : SumsTo(f, es, m + 1)
    OBVIOUS
  <2>1. PICK f : SumsTo(f, es, m)
    BY <1>2
  <2> DEFINE g == [i \in 0 .. m + 1 |-> IF i <= m THEN f[i]
                                        ELSE f[m] + Len(es[m + 1].name)]
  <2>2. Len(es[m + 1].name) \in Nat
    BY DEF Names
  <2>3. /\ f \in [0 .. m -> Nat] /\ f[0] = 0 /\ f[m] \in Nat
        /\ \A i \in 1 .. m : f[i] = f[i - 1] + Len(es[i].name)
    BY <2>1 DEF SumsTo
  <2>4. g \in [0 .. m + 1 -> Nat] /\ g[0] = 0
    BY <2>2, <2>3
  <2>5. \A i \in 1 .. m + 1 : g[i] = g[i - 1] + Len(es[i].name)
    <3>1. ASSUME NEW i \in 1 .. m
          PROVE  g[i] = g[i - 1] + Len(es[i].name)
      BY <2>3
    <3>2. g[m + 1] = g[m] + Len(es[m + 1].name)
      OBVIOUS
    <3> HIDE DEF g
    <3>3. (m + 1) - 1 = m /\ \A i \in 1 .. m + 1 : i \in 1 .. m \/ i = m + 1
      OBVIOUS
    <3> QED
      BY <3>1, <3>2, <3>3
  <2>6. SumsTo(g, es, m + 1)
    BY <2>4, <2>5 DEF SumsTo
  <2> QED
    BY <2>6
<1> HIDE DEF S
<1>3. Len(es) \in S
  BY <1>1, <1>2, SetInduction
<1> QED
  BY <1>3 DEF S

LEMMA BeforeFacts ==
  ASSUME NEW es, Len(es) \in Nat, Names(es)
  PROVE  SumsTo(Before(es), es, Len(es))
BY SumsExist DEF Before

LEMMA BeforeGrows ==
  ASSUME NEW es, Len(es) \in Nat, Names(es),
         NEW j \in 0 .. Len(es), NEW i \in 0 .. j
  PROVE  Before(es)[i] <= Before(es)[j]
<1> DEFINE b == Before(es)
           S == {m \in Nat : i + m <= Len(es) => b[i] <= b[i + m]}
<1>1. /\ b \in [0 .. Len(es) -> Nat]
      /\ \A k \in 1 .. Len(es) : b[k] = b[k - 1] + Len(es[k].name)
  BY BeforeFacts DEF SumsTo
<1> HIDE DEF b
<1>2. 0 \in S
  <2>1. i \in 0 .. Len(es) /\ i + 0 = i
    OBVIOUS
  <2>2. b[i] \in Nat
    BY ONLY <1>1, <2>1
  <2> QED
    BY <2>1, <2>2
<1>3. ASSUME NEW m \in Nat, m \in S
      PROVE  m + 1 \in S
  <2> SUFFICES ASSUME i + (m + 1) <= Len(es)
               PROVE  b[i] <= b[i + (m + 1)]
    OBVIOUS
  <2>1. i \in Nat /\ i + m \in 0 .. Len(es) /\ i \in 0 .. Len(es)
        /\ i + m + 1 \in 1 .. Len(es) /\ (i + m + 1) - 1 = i + m
    OBVIOUS
  <2>5. b[i] <= b[i + m]
    BY <1>3, <2>1
  <2>4. b[i] <= b[i + m] /\ b[i] \in Nat /\ b[i + m] \in Nat
    BY <1>1, <2>1, <2>5
  <2>2. b[i + m + 1] = b[i + m] + Len(es[i + m + 1].name)
    BY <1>1, <2>1
  <2>3. Len(es[i + m + 1].name) \in Nat
    BY DEF Names
  <2> QED
    BY <2>2, <2>3, <2>4
<1> HIDE DEF S
<1>4. j - i \in Nat
  OBVIOUS
<1>5. j - i \in S
  BY <1>2, <1>3, <1>4, SetInduction
<1> QED
  BY <1>5 DEF S, b

-----------------------------------------------------------------------------
(* What a block holds.                                                     *)

(* The cells that n dirents take.                                            *)
Dirents(n) == n * DirentSize

(* Where the name of the i-th entry starts in a block of entries first + 1 .. *)
(* last; Off(last - first) is the end of the last name.                      *)
Off(es, first, last, i) ==
  Dirents(last - first) + (Before(es)[first + i] - Before(es)[first])

Cells == [1 .. BlockSize -> Nat]

(* The i-th entry is in the block.                                           *)
HoldsEntry(cells, es, first, last, i) ==
  LET e == es[first + i + 1]
  IN /\ cells[Dirents(i) + 1] = e.nid
     /\ cells[Dirents(i) + 2] = Off(es, first, last, i)
     /\ cells[Dirents(i) + 3] = e.ft
     /\ \A c \in 1 .. Len(e.name) :
          cells[Off(es, first, last, i) + c] = e.name[c]

(* The first n entries are, and nothing follows their names.                  *)
Holds(cells, es, first, last, n) ==
  /\ \A i \in 0 .. n - 1 : HoldsEntry(cells, es, first, last, i)
  /\ \A c \in 1 .. BlockSize : c > Off(es, first, last, n) => cells[c] = 0

FullBlock(cells, es, first, last) ==
  /\ first < last /\ last <= Len(es)
  /\ Off(es, first, last, last - first) <= BlockSize
  /\ Holds(cells, es, first, last, last - first)

LEMMA Sizes ==
  /\ DirentSize \in Nat /\ DirentSize >= 3
  /\ BlockSize \in Nat /\ BlockSize >= DirentSize + 2
BY DirAssumption

LEMMA EntriesFacts ==
  ASSUME NEW es, EntriesOK(es)
  PROVE  /\ Len(es) \in Nat /\ Names(es)
         /\ \A i \in 1 .. Len(es) :
              /\ es[i] \in Entry
              /\ es[i].nid \in Nat /\ es[i].ft \in Nat
              /\ es[i].name \in Seq(Nat \ {0}) /\ es[i].name \in Seq(Nat)
              /\ Len(es[i].name) \in 1 .. BlockSize - DirentSize
              /\ Len(es[i].name) \in Nat
<1>1. Len(es) \in Nat /\ \A i \in 1 .. Len(es) : es[i] \in Entry
  BY LenProperties, ElementOfSeq DEF EntriesOK
<1>2. \A i \in 1 .. Len(es) : /\ es[i].nid \in Nat /\ es[i].ft \in Nat
                             /\ es[i].name \in Seq(Nat \ {0})
  BY <1>1 DEF Entry
<1>3. ASSUME NEW s \in Seq(Nat \ {0})
      PROVE  s \in Seq(Nat)
  <2>1. Len(s) \in Nat /\ s \in [1 .. Len(s) -> Nat \ {0}]
    BY LenProperties
  <2>2. s \in [1 .. Len(s) -> Nat]
    BY <2>1
  <2> QED
    BY <2>1, <2>2, IsASeq
<1>4. \A i \in 1 .. Len(es) : Len(es[i].name) \in 1 .. BlockSize - DirentSize
  BY DEF EntriesOK
<1>5. Names(es)
  BY <1>4, Sizes DEF Names
<1>6. \A i \in 1 .. Len(es) : Len(es[i].name) \in Nat
  BY <1>4, Sizes
<1> QED
  BY <1>1, <1>2, <1>3, <1>4, <1>5, <1>6

LEMMA DirentsFacts ==
  ASSUME NEW i \in Nat, NEW k \in Nat, i <= k
  PROVE  /\ Dirents(i) \in Nat /\ Dirents(k) \in Nat /\ Dirents(0) = 0
         /\ Dirents(i) <= Dirents(k)
         /\ i < k => Dirents(i) + DirentSize <= Dirents(k)
<1>1. i * DirentSize \in Nat /\ k * DirentSize \in Nat
      /\ i * DirentSize <= k * DirentSize /\ 0 * DirentSize = 0
  BY Sizes
<1>2. i < k => (i + 1) * DirentSize <= k * DirentSize
  BY Sizes
<1>3. (i + 1) * DirentSize = i * DirentSize + DirentSize
  BY Sizes
<1> QED
  BY <1>1, <1>2, <1>3 DEF Dirents

LEMMA Area ==
  ASSUME NEW n \in Nat
  PROVE  Dirents(n) \in Nat
BY DirentsFacts

(* An offset as the sum that it is.                                          *)
IsOff(es, first, last, i) ==
  /\ Off(es, first, last, i) =
       Dirents(last - first) + (Before(es)[first + i] - Before(es)[first])
  /\ Before(es)[first + i] \in Nat /\ Before(es)[first] \in Nat
  /\ Before(es)[first] <= Before(es)[first + i]
  /\ Dirents(last - first) \in Nat

LEMMA OffIs ==
  ASSUME NEW es, EntriesOK(es),
         NEW first \in Nat, NEW last \in Nat, first <= last, last <= Len(es),
         NEW i \in Nat, i <= last - first
  PROVE  IsOff(es, first, last, i)
<1>1. Len(es) \in Nat /\ Names(es)
  BY EntriesFacts
<1>2. Before(es) \in [0 .. Len(es) -> Nat]
  BY <1>1, BeforeFacts DEF SumsTo
<1>3. /\ first + i \in 0 .. Len(es) /\ first \in 0 .. Len(es)
      /\ first \in 0 .. first + i /\ last - first \in Nat
  BY <1>1
<1>4. Before(es)[first] <= Before(es)[first + i]
  BY ONLY <1>1, <1>3, BeforeGrows
<1>5. Before(es)[first + i] \in Nat /\ Before(es)[first] \in Nat
  BY ONLY <1>2, <1>3
<1>6. Dirents(last - first) \in Nat
  BY <1>3, Area
<1> QED
  BY <1>4, <1>5, <1>6 DEF Off, IsOff

LEMMA OffStart ==
  ASSUME NEW es, EntriesOK(es),
         NEW first \in Nat, NEW last \in Nat, first <= last, last <= Len(es)
  PROVE  Off(es, first, last, 0) = Dirents(last - first)
<1>1. 0 \in Nat /\ 0 <= last - first /\ first + 0 = first
  OBVIOUS
<1>2. /\ Off(es, first, last, 0) =
           Dirents(last - first) + (Before(es)[first + 0] - Before(es)[first])
      /\ Before(es)[first] \in Nat /\ Dirents(last - first) \in Nat
  BY <1>1, OffIs DEF IsOff
<1> QED
  BY ONLY <1>1, <1>2

LEMMA SumShift ==
  ASSUME NEW d \in Nat, NEW x \in Nat, NEW f \in Nat, NEW n \in Nat
  PROVE  d + ((x + n) - f) = (d + (x - f)) + n
OBVIOUS

LEMMA OffNext ==
  ASSUME NEW es, EntriesOK(es),
         NEW first \in Nat, NEW last \in Nat, first <= last, last <= Len(es),
         NEW j \in Nat, j + 1 <= last - first
  PROVE  Off(es, first, last, j + 1)
           = Off(es, first, last, j) + Len(es[first + j + 1].name)
<1>1. /\ Len(es) \in Nat /\ Names(es) /\ EntriesOK(es)
      /\ first <= last /\ last <= Len(es)
  BY EntriesFacts
<1>2. /\ first + j + 1 \in 1 .. Len(es) /\ (first + j + 1) - 1 = first + j
      /\ first + (j + 1) = first + j + 1
      /\ j + 1 \in Nat /\ j <= last - first
  BY <1>1
<1>3. Before(es)[first + j + 1] = Before(es)[first + j] + Len(es[first + j + 1].name)
  <2>1. \A k \in 1 .. Len(es) : Before(es)[k] = Before(es)[k - 1] + Len(es[k].name)
    BY <1>1, BeforeFacts DEF SumsTo
  <2> QED
    BY ONLY <1>2, <2>1
<1>4. Len(es[first + j + 1].name) \in Nat
  BY <1>1, <1>2 DEF Names
<1>5. /\ Off(es, first, last, j) =
           Dirents(last - first) + (Before(es)[first + j] - Before(es)[first])
      /\ Before(es)[first + j] \in Nat /\ Before(es)[first] \in Nat
      /\ Dirents(last - first) \in Nat
  <2>1. IsOff(es, first, last, j)
    BY ONLY <1>1, <1>2, OffIs
  <2> QED
    BY ONLY <2>1, Zenon DEF IsOff
<1>6. Off(es, first, last, j + 1)
        = Dirents(last - first) + (Before(es)[first + j + 1] - Before(es)[first])
  <2>1. first + (j + 1) = first + j + 1
    BY ONLY <1>2
  <2> QED
    BY ONLY <2>1, Zenon DEF Off
<1> DEFINE d == Dirents(last - first)
           x == Before(es)[first + j]
           f == Before(es)[first]
           n == Len(es[first + j + 1].name)
<1>7. Off(es, first, last, j + 1) = d + ((x + n) - f)
  BY ONLY <1>3, <1>6, Zenon
<1>8. Off(es, first, last, j) = d + (x - f)
  BY ONLY <1>5, Zenon
<1>9. d \in Nat /\ x \in Nat /\ f \in Nat /\ n \in Nat
  BY ONLY <1>4, <1>5, Zenon
<1> HIDE DEF d, x, f, n
<1>10. d + ((x + n) - f) = (d + (x - f)) + n
  BY ONLY <1>9, SumShift
<1> QED
  BY ONLY <1>7, <1>8, <1>10, Zenon DEF n

LEMMA OffInOrder ==
  ASSUME NEW es, EntriesOK(es),
         NEW first \in Nat, NEW last \in Nat, first <= last, last <= Len(es),
         NEW i \in Nat, i <= last - first, NEW j \in Nat, j <= i
  PROVE  Off(es, first, last, j) <= Off(es, first, last, i)
<1>1. /\ Len(es) \in Nat /\ Names(es) /\ EntriesOK(es)
      /\ first <= last /\ last <= Len(es) /\ i <= last - first
  BY EntriesFacts
<1>2. /\ first + i \in 0 .. Len(es) /\ first + j \in 0 .. first + i
      /\ j <= last - first
  BY <1>1
<1>3. Before(es)[first + j] <= Before(es)[first + i]
  BY ONLY <1>1, <1>2, BeforeGrows
<1>4. /\ Off(es, first, last, j) =
           Dirents(last - first) + (Before(es)[first + j] - Before(es)[first])
      /\ Before(es)[first + j] \in Nat /\ Before(es)[first] \in Nat
      /\ Dirents(last - first) \in Nat
  <2>1. IsOff(es, first, last, j)
    BY ONLY <1>1, <1>2, OffIs
  <2> QED
    BY ONLY <2>1, Zenon DEF IsOff
<1>5. /\ Off(es, first, last, i) =
           Dirents(last - first) + (Before(es)[first + i] - Before(es)[first])
      /\ Before(es)[first + i] \in Nat
  <2>1. IsOff(es, first, last, i)
    BY ONLY <1>1, <1>2, OffIs
  <2> QED
    BY ONLY <2>1, Zenon DEF IsOff
<1> QED
  BY ONLY <1>3, <1>4, <1>5

LEMMA OffBounds ==
  ASSUME NEW es, EntriesOK(es),
         NEW first \in Nat, NEW last \in Nat, first <= last, last <= Len(es),
         NEW i \in Nat, i <= last - first
  PROVE  /\ Off(es, first, last, i) \in Nat
         /\ Dirents(last - first) <= Off(es, first, last, i)
<1> HIDE DEF EntriesOK
<1>1. /\ Off(es, first, last, i) =
           Dirents(last - first) + (Before(es)[first + i] - Before(es)[first])
      /\ Before(es)[first + i] \in Nat /\ Before(es)[first] \in Nat
      /\ Before(es)[first] <= Before(es)[first + i]
      /\ Dirents(last - first) \in Nat
  BY OffIs DEF IsOff
<1> QED
  BY ONLY <1>1

-----------------------------------------------------------------------------
(* The builder.                                                            *)

LEMMA PutFacts ==
  ASSUME NEW cells \in Cells, NEW data \in Seq(Nat), NEW off \in Nat,
         off + Len(data) <= BlockSize
  PROVE  /\ Put(cells, off, data) \in Cells
         /\ \A c \in 1 .. Len(data) : Put(cells, off, data)[off + c] = data[c]
         /\ \A c \in 1 .. BlockSize :
              c <= off \/ c > off + Len(data) => Put(cells, off, data)[c] = cells[c]
<1>1. Len(data) \in Nat /\ \A c \in 1 .. Len(data) : data[c] \in Nat
  BY LenProperties, ElementOfSeq
<1>2. DOMAIN cells = 1 .. BlockSize /\ \A c \in 1 .. BlockSize : cells[c] \in Nat
  BY DEF Cells
<1>3. Put(cells, off, data) =
        [c \in 1 .. BlockSize |->
           IF c \in off + 1 .. off + Len(data) THEN data[c - off] ELSE cells[c]]
  BY <1>2 DEF Put
<1>4. ASSUME NEW c \in 1 .. BlockSize
      PROVE  (IF c \in off + 1 .. off + Len(data) THEN data[c - off]
              ELSE cells[c]) \in Nat
  <2>1. c \in off + 1 .. off + Len(data) => c - off \in 1 .. Len(data)
    BY <1>1, Sizes
  <2> QED
    BY <1>1, <1>2, <2>1
<1>5. Put(cells, off, data) \in Cells
  BY <1>3, <1>4 DEF Cells
<1>6. ASSUME NEW c \in 1 .. Len(data)
      PROVE  Put(cells, off, data)[off + c] = data[c]
  <2>1. /\ off + c \in 1 .. BlockSize /\ off + c \in off + 1 .. off + Len(data)
        /\ (off + c) - off = c
    BY <1>1, Sizes
  <2> QED
    BY <1>3, <2>1
<1>7. ASSUME NEW c \in 1 .. BlockSize, c <= off \/ c > off + Len(data)
      PROVE  Put(cells, off, data)[c] = cells[c]
  <2>1. c \notin off + 1 .. off + Len(data)
    BY <1>1, <1>7, Sizes
  <2> QED
    BY <1>3, <2>1
<1> QED
  BY <1>5, <1>6, <1>7

IsPut(new, cells, off, data) ==
  /\ new \in Cells
  /\ \A c \in 1 .. Len(data) : new[off + c] = data[c]
  /\ \A c \in 1 .. BlockSize :
       c <= off \/ c > off + Len(data) => new[c] = cells[c]

LEMMA PutIs ==
  ASSUME NEW cells \in Cells, NEW data \in Seq(Nat), NEW off \in Nat,
         off + Len(data) <= BlockSize
  PROVE  IsPut(Put(cells, off, data), cells, off, data)
<1> HIDE DEF Cells
<1>1. off + Len(data) <= BlockSize
  OBVIOUS
<1> QED
  BY ONLY <1>1, PutFacts DEF IsPut

(* The i-th dirent lies before the later ones.                               *)
LEMMA DirentFits ==
  ASSUME NEW i \in Nat, NEW k \in Nat, i < k
  PROVE  /\ Dirents(i) \in Nat /\ Dirents(k) \in Nat
         /\ Dirents(i) + 3 <= Dirents(k)
BY DirentsFacts, Sizes

LEMMA WroteEntry ==
  ASSUME NEW es, EntriesOK(es),
         NEW first \in Nat, NEW last \in Nat, first <= last, last <= Len(es),
         NEW n \in Nat, n < last - first,
         Off(es, first, last, last - first) <= BlockSize,
         NEW cells \in Cells, Holds(cells, es, first, last, n),
         NEW new,
         new = Put(Put(cells, Dirents(n),
                       <<es[first + n + 1].nid, Off(es, first, last, n),
                         es[first + n + 1].ft>>),
                   Off(es, first, last, n), es[first + n + 1].name)
  PROVE  new \in Cells /\ Holds(new, es, first, last, n + 1)
<1> DEFINE e == es[first + n + 1]
           O(i) == Off(es, first, last, i)
           off == O(n)
           at == Dirents(n)
           area == Dirents(last - first)
           data == <<e.nid, off, e.ft>>
           mid == Put(cells, at, data)
<1>1. /\ first + n + 1 \in 1 .. Len(es) /\ n + 1 <= last - first /\ n + 1 \in Nat
      /\ n <= last - first /\ n < last - first /\ last - first \in Nat
      /\ n \in Nat /\ first \in Nat /\ last \in Nat /\ last <= Len(es)
      /\ Len(es) \in Nat /\ first <= last /\ EntriesOK(es)
  <2>1. Len(es) \in Nat
    BY EntriesFacts
  <2> QED
    BY <2>1
<1>2. /\ e.nid \in Nat /\ e.ft \in Nat /\ e.name \in Seq(Nat)
      /\ Len(e.name) \in Nat
  BY <1>1, EntriesFacts, Sizes
<1>3. /\ off \in Nat /\ area <= off /\ O(n + 1) = off + Len(e.name)
  <2> HIDE DEF e, O, off, at, area, data, mid
  <2>1. /\ Off(es, first, last, n) \in Nat
        /\ Dirents(last - first) <= Off(es, first, last, n)
    BY ONLY <1>1, OffBounds
  <2>2. Off(es, first, last, n + 1)
          = Off(es, first, last, n) + Len(es[first + n + 1].name)
    BY ONLY <1>1, OffNext
  <2> QED
    BY ONLY <2>1, <2>2 DEF e, O, off, area
<1>4. O(n + 1) <= BlockSize
  <2>1. O(n + 1) <= O(last - first) /\ O(n + 1) \in Nat /\ O(last - first) \in Nat
    BY <1>1, OffBounds, OffInOrder
  <2> QED
    BY <2>1, Sizes
<1>16. off + Len(e.name) <= BlockSize
  BY <1>3, <1>4
<1>5. at \in Nat /\ area \in Nat /\ at + 3 <= area
  BY <1>1, DirentFits
<1>6. ASSUME NEW i \in 0 .. n - 1
      PROVE  /\ Dirents(i) \in Nat /\ Dirents(i) + 3 <= at
             /\ O(i) \in Nat /\ area <= O(i)
             /\ O(i) + Len(es[first + i + 1].name) <= off
             /\ Len(es[first + i + 1].name) \in Nat
  <2>1. i \in Nat /\ i < n /\ i <= last - first /\ i < last - first
        /\ i + 1 \in 0 .. n /\ first + i + 1 \in 1 .. Len(es)
    BY ONLY <1>1
  <2>2. O(i) \in Nat /\ area <= O(i)
    BY ONLY <1>1, <2>1, OffBounds
  <2>5. O(i + 1) = O(i) + Len(es[first + i + 1].name)
    BY ONLY <1>1, <2>1, OffNext
  <2>3. O(i + 1) <= off
    BY ONLY <1>1, <2>1, OffInOrder
  <2>4. Len(es[first + i + 1].name) \in Nat
    BY <2>1, EntriesFacts
  <2>6. O(i) + Len(es[first + i + 1].name) <= off
    BY ONLY <2>3, <2>5
  <2>7. Dirents(i) \in Nat /\ Dirents(i) + 3 <= at
    BY ONLY <1>1, <2>1, DirentFits
  <2> QED
    BY ONLY <2>2, <2>4, <2>6, <2>7
<1>7. /\ data \in Seq(Nat) /\ Len(data) = 3
      /\ data[1] = e.nid /\ data[2] = off /\ data[3] = e.ft
  BY <1>2, <1>3
<1>8. new = Put(mid, off, e.name)
  OBVIOUS
<1>9. /\ \A i \in 0 .. n - 1 : HoldsEntry(cells, es, first, last, i)
      /\ \A c \in 1 .. BlockSize : c > off => cells[c] = 0
  BY DEF Holds
<1> HIDE DEF e, at, area, data
<1>10. /\ mid \in Cells
       /\ mid[at + 1] = e.nid /\ mid[at + 2] = off /\ mid[at + 3] = e.ft
       /\ \A c \in 1 .. BlockSize : c <= at \/ c > at + 3 => mid[c] = cells[c]
  <2>1. at + Len(data) <= BlockSize /\ at + Len(data) = at + 3
    BY ONLY SMTT(30), <1>2, <1>3, <1>16, <1>5, <1>7, Sizes
  <2>4. IsPut(mid, cells, at, data)
    BY <1>5, <1>7, <2>1, PutIs
  <2> HIDE DEF mid
  <2>2. /\ mid \in Cells
        /\ \A c \in 1 .. Len(data) : mid[at + c] = data[c]
        /\ \A c \in 1 .. BlockSize :
             c <= at \/ c > at + Len(data) => mid[c] = cells[c]
    BY ONLY <2>4 DEF IsPut
  <2>3. 1 \in 1 .. Len(data) /\ 2 \in 1 .. Len(data) /\ 3 \in 1 .. Len(data)
    BY <1>7
  <2> QED
    BY <1>7, <2>1, <2>2, <2>3
<1> HIDE DEF mid, off, O
<1>11. /\ new \in Cells
       /\ \A c \in 1 .. Len(e.name) : new[off + c] = e.name[c]
       /\ \A c \in 1 .. BlockSize :
            c <= off \/ c > off + Len(e.name) => new[c] = mid[c]
  <2>1. IsPut(new, mid, off, e.name)
    BY ONLY <1>2, <1>3, <1>16, <1>8, <1>10, PutIs
  <2> QED
    BY ONLY <2>1 DEF IsPut
<1>12. ASSUME NEW i \in 0 .. n - 1
       PROVE  HoldsEntry(new, es, first, last, i)
  <2> DEFINE d == Dirents(i)
             x == es[first + i + 1]
  <2>1. /\ d \in Nat /\ d + 3 <= at
        /\ O(i) \in Nat /\ area <= O(i)
        /\ O(i) + Len(x.name) <= off
        /\ Len(x.name) \in Nat
    BY <1>6
  <2>2. /\ cells[d + 1] = x.nid
        /\ cells[d + 2] = O(i)
        /\ cells[d + 3] = x.ft
        /\ \A c \in 1 .. Len(x.name) : cells[O(i) + c] = x.name[c]
    BY ONLY <1>9 DEF HoldsEntry, O
  <2> HIDE DEF d, x
  <2>3. ASSUME NEW c \in 1 .. 3
        PROVE  new[d + c] = cells[d + c]
    <3>1. d + c \in 1 .. BlockSize /\ d + c <= at /\ d + c <= off
      BY ONLY <1>2, <1>3, <1>16, <1>5, <2>1, Sizes
    <3> QED
      BY <1>10, <1>11, <3>1
  <2>4. ASSUME NEW c \in 1 .. Len(x.name)
        PROVE  new[O(i) + c] = cells[O(i) + c]
    <3>1. c \in Nat /\ c >= 1 /\ c <= Len(x.name)
      BY ONLY <2>1
    <3>2. off <= BlockSize
      BY ONLY <1>2, <1>3, <1>16, Sizes
    <3>3. O(i) + c > at + 3 /\ O(i) + c <= off /\ O(i) + c \in Nat
      BY ONLY <1>3, <1>5, <2>1, <3>1
    <3>4. O(i) + c \in 1 .. BlockSize
      BY ONLY <1>5, <3>2, <3>3, <1>3, Sizes
    <3> QED
      BY ONLY <1>10, <1>11, <3>3, <3>4
  <2>5. /\ new[d + 1] = x.nid /\ new[d + 2] = O(i) /\ new[d + 3] = x.ft
    BY <2>2, <2>3
  <2>6. \A c \in 1 .. Len(x.name) : new[O(i) + c] = x.name[c]
    BY <2>2, <2>4
  <2> QED
    BY <2>5, <2>6 DEF HoldsEntry, d, x, O
<1>13. HoldsEntry(new, es, first, last, n)
  <2>1. ASSUME NEW c \in 1 .. 3
        PROVE  new[at + c] = mid[at + c]
    <3>1. at + c \in 1 .. BlockSize /\ at + c <= off
      BY SMTT(30), <1>2, <1>3, <1>16, <1>5, Sizes
    <3> QED
      BY <1>11, <3>1
  <2>2. new[at + 1] = e.nid /\ new[at + 2] = off /\ new[at + 3] = e.ft
    BY <1>10, <2>1
  <2> QED
    BY <1>11, <2>2 DEF HoldsEntry, at, off, e, O
<1>14. ASSUME NEW c \in 1 .. BlockSize, c > O(n + 1)
       PROVE  new[c] = 0
  <2>1. c > off + Len(e.name) /\ c > off /\ c > at + 3
    BY <1>2, <1>3, <1>5, <1>14
  <2> QED
    BY <1>9, <1>10, <1>11, <2>1
<1>15. \A i \in 0 .. (n + 1) - 1 : i \in 0 .. n - 1 \/ i = n
  OBVIOUS
<1> QED
  BY <1>11, <1>12, <1>13, <1>14, <1>15 DEF Holds, O

LEMMA OffPacked ==
  ASSUME NEW es, EntriesOK(es),
         NEW first \in Nat, NEW last \in Nat, first <= last, last + 1 <= Len(es),
         NEW area \in Nat,
         Off(es, first, last, last - first) = Dirents(last - first) + area
  PROVE  Off(es, first, last + 1, (last + 1) - first)
           = Dirents((last + 1) - first) + (area + Len(es[last + 1].name))
<1>1. /\ EntriesOK(es) /\ first <= last /\ last <= Len(es) /\ Len(es) \in Nat
      /\ last + 1 \in Nat /\ first <= last + 1 /\ last + 1 <= Len(es)
      /\ last - first \in Nat /\ (last + 1) - first \in Nat
      /\ last - first <= last - first /\ (last + 1) - first <= (last + 1) - first
      /\ first + (last - first) = last /\ first + ((last + 1) - first) = last + 1
      /\ last + 1 \in 1 .. Len(es) /\ (last + 1) - 1 = last
      /\ Names(es)
      /\ Off(es, first, last, last - first) = Dirents(last - first) + area
  BY EntriesFacts
<1> DEFINE x == Before(es)[last]
           y == Before(es)[last + 1]
           f == Before(es)[first]
           n == Len(es[last + 1].name)
           d == Dirents(last - first)
           e == Dirents((last + 1) - first)
<1>2. IsOff(es, first, last, last - first)
  BY ONLY <1>1, OffIs
<1>3. IsOff(es, first, last + 1, (last + 1) - first)
  BY ONLY <1>1, OffIs
<1>4. /\ d + area = d + (x - f) /\ x \in Nat /\ f \in Nat /\ d \in Nat
  BY ONLY <1>1, <1>2, Zenon DEF IsOff
<1>5. /\ Off(es, first, last + 1, (last + 1) - first) = e + (y - f)
      /\ y \in Nat /\ e \in Nat
  BY ONLY <1>1, <1>3, Zenon DEF IsOff
<1>6. y = x + n
  <2>1. \A k \in 1 .. Len(es) : Before(es)[k] = Before(es)[k - 1] + Len(es[k].name)
    BY <1>1, BeforeFacts DEF SumsTo
  <2> QED
    BY ONLY <1>1, <2>1
<1>7. n \in Nat
  BY ONLY <1>1 DEF Names
<1> HIDE DEF x, y, f, n, d, e
<1>8. e + (y - f) = e + (area + n)
  BY ONLY <1>4, <1>5, <1>6, <1>7
<1> QED
  BY ONLY <1>5, <1>8, Zenon DEF e, n

-----------------------------------------------------------------------------
(* The blocks of the result.                                               *)

Blocks(n) == n * BlockSize

BlockAt(cells, at) == [c \in 1 .. BlockSize |-> cells[at + c]]

(* cells are n blocks; b[j] entries are in those before block j.               *)
Chain(cells, es, n, b, packed) ==
  /\ b[0] = 0 /\ b[n] = packed
  /\ Len(cells) = Blocks(n)
  /\ \A j \in 0 .. n - 1 : FullBlock(BlockAt(cells, Blocks(j)), es, b[j], b[j + 1])

(* The reader is at block j, having visited what is before it and, within it, *)
(* the first de entries.                                                    *)
AtBlock(j, n, b) ==
  /\ pos = Blocks(j)
  /\ phase \in {"pack", "write", "walk"} => Len(out) = b[j]
  /\ phase = "block" =>
       j < n /\ de <= b[j + 1] - b[j] /\ Len(out) = b[j] + de

Position(n, b) == \E j \in 0 .. n : AtBlock(j, n, b)

Linked ==
  \E n \in Nat : \E b \in [0 .. n -> Nat] :
    Chain(result, entries, n, b, blockStart) /\ Position(n, b)

(* What no step changes.                                                    *)
Given ==
  /\ \E l \in ChildLists : entries = DotEntries \o l
  /\ EntriesOK(entries)
  /\ target \in Targets \cup {NoName}

BuilderTypes ==
  /\ blockStart \in Nat /\ idx \in Nat
  /\ blockStart <= idx /\ idx <= Len(entries)
  /\ nameArea \in Nat /\ nameOffset \in Nat /\ nameOffset <= BlockSize
  /\ wr \in Nat /\ wr <= Len(entries)
  /\ block \in Cells /\ result \in Seq(Nat)

ReaderTypes ==
  /\ pos \in Nat /\ de \in Nat /\ de <= Len(entries)
  /\ out \in Seq(Entry)

Typed ==
  /\ Given /\ BuilderTypes /\ ReaderTypes
  /\ phase \in {"pack", "write", "walk", "block", "done"}

Packed ==
  /\ Off(entries, blockStart, idx, idx - blockStart)
       = Dirents(idx - blockStart) + nameArea
  /\ Dirents(idx - blockStart) + nameArea <= BlockSize

Written ==
  phase = "write" =>
    /\ blockStart < idx /\ wr <= idx - blockStart
    /\ nameOffset = Off(entries, blockStart, idx, wr)
    /\ Holds(block, entries, blockStart, idx, wr)

(* The reader starts when everything is packed.                              *)
Turns ==
  /\ phase \in {"pack", "write"} => pos = 0 /\ de = 0 /\ out = << >>
  /\ phase \in {"walk", "block", "done"} => blockStart = Len(entries)

Collected ==
  /\ Len(out) <= Len(entries)
  /\ \A i \in 1 .. Len(out) : out[i] = entries[i]

(* The first entry of the name ends the walk.                                *)
Missed(n) == \A i \in 1 .. n : entries[i].name # target

Searched ==
  IF phase # "done" THEN found = {} /\ Missed(Len(out))
  ELSE \/ found = {} /\ Len(out) = Len(entries) /\ Missed(Len(entries))
       \/ /\ Len(out) >= 1 /\ found = {entries[Len(out)].nid}
          /\ entries[Len(out)].name = target /\ Missed(Len(out) - 1)

IInv == Typed /\ Linked /\ Packed /\ Written /\ Turns /\ Collected /\ Searched

-----------------------------------------------------------------------------
(* The initial state.                                                      *)

LEMMA Concatenation ==
  ASSUME NEW S, NEW s \in Seq(S), NEW t \in Seq(S)
  PROVE  /\ s \o t \in Seq(S) /\ Len(s \o t) = Len(s) + Len(t)
         /\ Len(s) \in Nat /\ Len(t) \in Nat
         /\ \A i \in 1 .. Len(s) : (s \o t)[i] = s[i]
         /\ \A i \in 1 .. Len(t) : (s \o t)[Len(s) + i] = t[i]
BY ConcatProperties, LenProperties

LEMMA DotsOK == EntriesOK(DotEntries)
<1> DEFINE one == [nid |-> 0, name |-> <<Dot>>, ft |-> FtDir]
           two == [nid |-> 1, name |-> <<Dot, Dot>>, ft |-> FtDir]
<1>1. Dot \in Nat \ {0} /\ FtDir \in Nat
  BY DirAssumption
<1>2. /\ <<Dot>> \in Seq(Nat \ {0}) /\ Len(<<Dot>>) = 1
      /\ <<Dot, Dot>> \in Seq(Nat \ {0}) /\ Len(<<Dot, Dot>>) = 2
  BY <1>1
<1>3. one \in Entry /\ two \in Entry
  BY <1>1, <1>2 DEF Entry
<1>4. one.name = <<Dot>> /\ two.name = <<Dot, Dot>>
  OBVIOUS
<1> HIDE DEF one, two
<1>5. /\ <<one, two>> \in Seq(Entry) /\ Len(<<one, two>>) = 2
      /\ <<one, two>>[1] = one /\ <<one, two>>[2] = two
  BY <1>3
<1>6. /\ Len(one.name) \in 1 .. BlockSize - DirentSize
      /\ Len(two.name) \in 1 .. BlockSize - DirentSize
  BY <1>2, <1>4, Sizes
<1>7. \A i \in 1 .. 2 : Len(<<one, two>>[i].name) \in 1 .. BlockSize - DirentSize
  <2>1. \A i \in 1 .. 2 : i = 1 \/ i = 2
    OBVIOUS
  <2> QED
    BY <1>5, <1>6, <2>1
<1>8. EntriesOK(<<one, two>>)
  BY <1>5, <1>7 DEF EntriesOK
<1> QED
  BY <1>8 DEF DotEntries, one, two

LEMMA ListsOK ==
  ASSUME NEW l \in ChildLists
  PROVE  EntriesOK(DotEntries \o l)
<1> DEFINE es == DotEntries \o l
<1>1. /\ l \in Seq(Entry)
      /\ \A i \in 1 .. Len(l) : Len(l[i].name) \in 1 .. BlockSize - DirentSize
  BY DirAssumption
<1>2. /\ DotEntries \in Seq(Entry)
      /\ \A i \in 1 .. Len(DotEntries) :
           Len(DotEntries[i].name) \in 1 .. BlockSize - DirentSize
  BY DotsOK DEF EntriesOK
<1>3. /\ es \in Seq(Entry) /\ Len(es) = Len(DotEntries) + Len(l)
      /\ Len(DotEntries) \in Nat /\ Len(l) \in Nat
      /\ \A i \in 1 .. Len(DotEntries) : es[i] = DotEntries[i]
      /\ \A i \in 1 .. Len(l) : es[Len(DotEntries) + i] = l[i]
  BY <1>1, <1>2, Concatenation
<1> HIDE DEF es
<1>4. ASSUME NEW i \in 1 .. Len(es)
      PROVE  Len(es[i].name) \in 1 .. BlockSize - DirentSize
  <2>1. CASE i <= Len(DotEntries)
    BY <1>2, <1>3, <2>1
  <2>2. CASE i > Len(DotEntries)
    <3>1. /\ i - Len(DotEntries) \in 1 .. Len(l)
          /\ Len(DotEntries) + (i - Len(DotEntries)) = i
      BY <1>3, <2>2
    <3>2. es[i] = l[i - Len(DotEntries)]
      BY <1>3, <3>1
    <3> QED
      BY <1>1, <3>1, <3>2
  <2> QED
    BY <1>3, <2>1, <2>2
<1> QED
  BY <1>3, <1>4 DEF EntriesOK, es

LEMMA ZeroCells == ZeroBlock \in Cells /\ \A c \in 1 .. BlockSize : ZeroBlock[c] = 0
BY DEF ZeroBlock, Cells

LEMMA NoBlocks ==
  ASSUME NEW n \in Nat
  PROVE  /\ Blocks(n) \in Nat /\ Blocks(0) = 0
         /\ Blocks(n + 1) = Blocks(n) + BlockSize
BY Sizes DEF Blocks

LEMMA InitInv == Init => IInv
<1> SUFFICES ASSUME Init
             PROVE  IInv
  OBVIOUS
<1> USE DEF Init
<1>1. /\ EntriesOK(entries) /\ \E l \in ChildLists : entries = DotEntries \o l
      /\ Len(entries) \in Nat
  BY ListsOK, EntriesFacts
<1>2. << >> \in Seq(Nat) /\ << >> \in Seq(Entry) /\ Len(<< >>) = 0
  BY EmptySeq
<1>3. Typed
  BY <1>1, <1>2, ZeroCells, Sizes DEF Typed, Given, BuilderTypes, ReaderTypes
<1>4. Linked
  <2> DEFINE b == [j \in 0 .. 0 |-> 0]
  <2>1. b \in [0 .. 0 -> Nat] /\ b[0] = 0
    OBVIOUS
  <2> HIDE DEF b
  <2>2. Chain(result, entries, 0, b, blockStart)
    BY <1>2, <2>1, NoBlocks DEF Chain
  <2>3. Position(0, b)
    BY <1>2, <2>1, NoBlocks DEF Position, AtBlock
  <2> QED
    BY <2>1, <2>2, <2>3 DEF Linked
<1>5. Packed
  <2>1. Off(entries, 0, 0, 0) = Dirents(0 - 0)
    BY <1>1, OffStart
  <2>2. Dirents(0) = 0
    BY ONLY Sizes DEF Dirents
  <2> QED
    BY <2>1, <2>2, Sizes DEF Packed
<1>6. Collected /\ Searched
  BY <1>1, <1>2 DEF Collected, Searched, Missed
<1> QED
  BY <1>3, <1>4, <1>5, <1>6 DEF IInv, Written, Turns

-----------------------------------------------------------------------------
(* The steps of the builder.                                               *)

LEMMA TypedFacts ==
  ASSUME IInv
  PROVE  /\ Given /\ BuilderTypes /\ ReaderTypes
         /\ Linked /\ Packed /\ Written /\ Turns /\ Collected /\ Searched
         /\ EntriesOK(entries) /\ Len(entries) \in Nat
         /\ idx \in Nat /\ blockStart \in Nat /\ blockStart <= idx
         /\ idx <= Len(entries) /\ blockStart <= Len(entries)
         /\ idx - blockStart \in Nat /\ idx - blockStart <= idx - blockStart
         /\ nameArea \in Nat /\ wr \in Nat
<1>1. /\ Given /\ BuilderTypes /\ ReaderTypes
      /\ Linked /\ Packed /\ Written /\ Turns /\ Collected /\ Searched
  BY DEF IInv, Typed
<1>2. EntriesOK(entries) /\ Len(entries) \in Nat
  BY <1>1, EntriesFacts DEF Given
<1>3. /\ idx \in Nat /\ blockStart \in Nat /\ blockStart <= idx
      /\ idx <= Len(entries) /\ nameArea \in Nat /\ wr \in Nat
  BY <1>1 DEF BuilderTypes
<1>4. /\ idx - blockStart \in Nat /\ idx - blockStart <= idx - blockStart
      /\ blockStart <= Len(entries)
  BY ONLY <1>2, <1>3
<1> QED
  BY <1>1, <1>2, <1>3, <1>4

(* What the reader's parts need of a builder's step.                          *)
LEMMA ReaderWaits ==
  ASSUME IInv, phase \in {"pack", "write"}, phase' # "done",
         UNCHANGED <<entries, rvars>>
  PROVE  Collected' /\ Searched'
BY DEF IInv, Collected, Searched, Missed, rvars

LEMMA SameBlocks ==
  ASSUME Linked, UNCHANGED <<entries, result, blockStart, pos, de, out>>,
         \/ phase' = phase
         \/ phase \in {"pack", "write"} /\ phase' \in {"pack", "write", "walk"}
  PROVE  Linked'
<1>1. PICK n \in Nat : \E b \in [0 .. n -> Nat] :
        Chain(result, entries, n, b, blockStart) /\ Position(n, b)
  BY DEF Linked
<1>2. PICK b \in [0 .. n -> Nat] :
        Chain(result, entries, n, b, blockStart) /\ Position(n, b)
  BY <1>1
<1>3. Chain(result', entries', n, b, blockStart')
  BY <1>2
<1>4. Position(n, b)'
  BY <1>2 DEF Position, AtBlock
<1> QED
  BY <1>3, <1>4 DEF Linked

LEMMA PackEntryKeeps == IInv /\ PackEntry => IInv'
<1> SUFFICES ASSUME IInv, PackEntry
             PROVE  IInv'
  OBVIOUS
<1> DEFINE len == Len(entries[idx + 1].name)
<1>1. /\ phase = "pack" /\ phase' = phase
      /\ nameArea' = nameArea + len /\ idx' = idx + 1
      /\ idx < Len(entries)
      /\ (idx - blockStart + 1) * DirentSize + (nameArea + len) <= BlockSize
      /\ UNCHANGED <<entries, blockStart, nameOffset, wr, block, result, rvars>>
  BY DEF PackEntry, NextFits, Fits
<1>2. /\ Given /\ BuilderTypes /\ ReaderTypes
      /\ Packed /\ Linked /\ EntriesOK(entries) /\ Turns
      /\ idx \in Nat /\ blockStart \in Nat /\ blockStart <= idx
      /\ Len(entries) \in Nat /\ nameArea \in Nat
  BY TypedFacts
<1>3. /\ idx + 1 \in 1 .. Len(entries) /\ idx + 1 <= Len(entries)
      /\ (idx + 1) - blockStart \in Nat
      /\ (idx + 1) - blockStart = idx - blockStart + 1
  BY <1>1, <1>2
<1>4. len \in Nat
  BY <1>2, <1>3, EntriesFacts
<1>5. Off(entries, blockStart, idx + 1, (idx + 1) - blockStart)
        = Dirents((idx + 1) - blockStart) + (nameArea + len)
  BY <1>2, <1>3, OffPacked DEF Packed
<1>6. Dirents((idx + 1) - blockStart) + (nameArea + len) <= BlockSize
  BY ONLY <1>1, <1>3 DEF Dirents
<1> HIDE DEF len
<1>7. Packed'
  BY ONLY <1>1, <1>5, <1>6 DEF Packed
<1>8. Typed'
  <2>1. idx' \in Nat /\ blockStart <= idx' /\ idx' <= Len(entries)
        /\ nameArea' \in Nat
    BY ONLY <1>1, <1>2, <1>3, <1>4
  <2>2. BuilderTypes'
    BY ONLY <1>1, <1>2, <2>1 DEF BuilderTypes
  <2>3. Given' /\ ReaderTypes'
    BY ONLY <1>1, <1>2 DEF Given, ReaderTypes, rvars
  <2> QED
    BY ONLY <1>1, <2>2, <2>3 DEF Typed
<1>9. Linked'
  BY <1>1, <1>2, SameBlocks DEF rvars
<1>10. Turns' /\ Written'
  BY <1>1, <1>2 DEF Turns, Written, rvars
<1>11. Collected' /\ Searched'
  BY <1>1, ReaderWaits
<1> QED
  BY <1>7, <1>8, <1>9, <1>10, <1>11 DEF IInv

LEMMA EndPackingKeeps == IInv /\ EndPacking => IInv'
<1> SUFFICES ASSUME IInv, EndPacking
             PROVE  IInv'
  OBVIOUS
<1>1. /\ phase = "pack" /\ ~ NextFits /\ blockStart < Len(entries)
      /\ phase' = IF idx > blockStart THEN "write" ELSE "panic"
      /\ wr' = 0 /\ block' = ZeroBlock
      /\ nameOffset' = (idx - blockStart) * DirentSize
      /\ UNCHANGED <<entries, idx, blockStart, nameArea, result, rvars>>
  BY DEF EndPacking
<1>2. /\ Given /\ BuilderTypes /\ ReaderTypes
      /\ Packed /\ Linked /\ EntriesOK(entries) /\ Turns
      /\ idx \in Nat /\ blockStart \in Nat /\ blockStart <= idx
      /\ idx <= Len(entries) /\ idx - blockStart \in Nat
      /\ Len(entries) \in Nat /\ nameArea \in Nat
  BY TypedFacts
<1>3. blockStart < idx
  <2> SUFFICES ASSUME idx = blockStart
               PROVE  FALSE
    BY <1>2
  <2>1. nameArea = 0
    <3>1. Off(entries, blockStart, blockStart, 0) = Dirents(blockStart - blockStart)
      BY <1>2, OffStart
    <3>2. Off(entries, blockStart, blockStart, blockStart - blockStart)
            = Dirents(blockStart - blockStart) + nameArea
      BY <1>2 DEF Packed
    <3>3. blockStart - blockStart = 0 /\ Dirents(0) \in Nat
      BY <1>2, Area
    <3> QED
      BY ONLY <1>2, <3>1, <3>2, <3>3
  <2>2. /\ idx + 1 \in 1 .. Len(entries) /\ idx < Len(entries)
        /\ idx - blockStart + 1 = 1
    BY <1>1, <1>2
  <2>3. Len(entries[idx + 1].name) \in 1 .. BlockSize - DirentSize
    BY <1>2, <2>2, EntriesFacts
  <2>4. 1 * DirentSize + (nameArea + Len(entries[idx + 1].name)) <= BlockSize
    <3> DEFINE n == Len(entries[idx + 1].name)
    <3>1. n \in Nat /\ DirentSize + n <= BlockSize
      BY ONLY <2>3, Sizes
    <3> HIDE DEF n
    <3>2. 1 * DirentSize + (nameArea + n) <= BlockSize
      BY ONLY <2>1, <3>1, Sizes
    <3> QED
      BY ONLY <3>2 DEF n
  <2>5. (idx - blockStart + 1) * DirentSize
          + (nameArea + Len(entries[idx + 1].name)) <= BlockSize
    BY ONLY <2>2, <2>4
  <2> QED
    BY ONLY <1>1, <2>2, <2>5 DEF NextFits, Fits
<1>4. phase' = "write"
  BY <1>1, <1>2, <1>3
<1>5. /\ nameOffset' = Off(entries, blockStart, idx, 0)
      /\ nameOffset' \in Nat /\ nameOffset' <= BlockSize
  <2>1. nameOffset' = Dirents(idx - blockStart)
    BY <1>1 DEF Dirents
  <2>2. Off(entries, blockStart, idx, 0) = Dirents(idx - blockStart)
    BY <1>2, OffStart
  <2>3. Dirents(idx - blockStart) \in Nat
    BY <1>2, Area
  <2>4. Dirents(idx - blockStart) <= BlockSize
    BY <1>2, <2>3, Sizes DEF Packed
  <2> QED
    BY <2>1, <2>2, <2>3, <2>4
<1>6. Written'
  <2>1. Holds(ZeroBlock, entries, blockStart, idx, 0)
    BY ZeroCells DEF Holds
  <2> QED
    BY <1>1, <1>2, <1>3, <1>5, <2>1 DEF Written
<1>7. Typed'
  <2>2. BuilderTypes'
    BY ONLY <1>1, <1>2, <1>5, ZeroCells DEF BuilderTypes
  <2>3. Given' /\ ReaderTypes'
    BY ONLY <1>1, <1>2 DEF Given, ReaderTypes, rvars
  <2> QED
    BY ONLY <1>4, <2>2, <2>3 DEF Typed
<1>8. Packed'
  BY <1>1, <1>2 DEF Packed
<1>9. Linked'
  BY <1>1, <1>2, <1>4, SameBlocks DEF rvars
<1>10. Turns'
  BY <1>1, <1>2, <1>4 DEF Turns, rvars
<1>11. Collected' /\ Searched'
  BY <1>1, <1>4, ReaderWaits
<1> QED
  BY <1>6, <1>7, <1>8, <1>9, <1>10, <1>11 DEF IInv

LEMMA WriteDirentKeeps == IInv /\ WriteDirent => IInv'
<1> SUFFICES ASSUME IInv, WriteDirent
             PROVE  IInv'
  OBVIOUS
<1> DEFINE e == entries[blockStart + wr + 1]
           end == nameOffset + Len(e.name)
           new == Put(Put(block, wr * DirentSize, <<e.nid, nameOffset, e.ft>>),
                      nameOffset, e.name)
<1>1. /\ phase = "write" /\ wr < idx - blockStart /\ wr' = wr + 1
      /\ IF end <= BlockSize
           THEN block' = new /\ nameOffset' = end /\ phase' = phase
           ELSE phase' = "panic" /\ UNCHANGED <<block, nameOffset>>
      /\ UNCHANGED <<entries, idx, blockStart, nameArea, result, rvars>>
  BY DEF WriteDirent
<1>2. /\ Given /\ BuilderTypes /\ ReaderTypes
      /\ Packed /\ Linked /\ EntriesOK(entries) /\ Turns /\ Written
      /\ idx \in Nat /\ blockStart \in Nat /\ blockStart <= idx
      /\ idx <= Len(entries) /\ idx - blockStart \in Nat
      /\ idx - blockStart <= idx - blockStart
      /\ Len(entries) \in Nat /\ wr \in Nat
  BY TypedFacts
<1>3. /\ blockStart < idx /\ nameOffset = Off(entries, blockStart, idx, wr)
      /\ Holds(block, entries, blockStart, idx, wr)
  BY <1>1, <1>2 DEF Written
<1>4. /\ wr + 1 \in Nat /\ wr + 1 <= idx - blockStart /\ wr + 1 <= Len(entries)
      /\ blockStart + wr + 1 \in 1 .. Len(entries)
  <2>1. /\ wr \in Nat /\ wr < idx - blockStart /\ idx \in Nat /\ blockStart \in Nat
        /\ idx <= Len(entries) /\ Len(entries) \in Nat
    BY ONLY <1>1, <1>2
  <2> QED
    BY ONLY <2>1
<1>5. Off(entries, blockStart, idx, idx - blockStart) <= BlockSize
  BY ONLY <1>2 DEF Packed
<1>6. end = Off(entries, blockStart, idx, wr + 1)
  BY ONLY <1>2, <1>3, <1>4, OffNext
<1>7. end \in Nat /\ end <= BlockSize
  <2>1. /\ Off(entries, blockStart, idx, wr + 1) \in Nat
        /\ Off(entries, blockStart, idx, idx - blockStart) \in Nat
    BY ONLY <1>2, <1>4, OffBounds
  <2>2. Off(entries, blockStart, idx, wr + 1)
          <= Off(entries, blockStart, idx, idx - blockStart)
    BY ONLY <1>2, <1>4, OffInOrder
  <2> HIDE DEF end
  <2> QED
    BY ONLY <1>5, <1>6, <2>1, <2>2, Sizes
<1>8. block' = new /\ nameOffset' = end /\ phase' = "write"
  BY ONLY <1>1, <1>7
<1>9. block' \in Cells /\ Holds(block', entries, blockStart, idx, wr + 1)
  <2>1. block \in Cells
    BY <1>2 DEF BuilderTypes
  <2>2. block' = Put(Put(block, Dirents(wr),
                         <<e.nid, Off(entries, blockStart, idx, wr), e.ft>>),
                     Off(entries, blockStart, idx, wr), e.name)
    BY ONLY <1>3, <1>8 DEF Dirents
  <2> QED
    BY ONLY <1>1, <1>2, <1>3, <1>5, <2>1, <2>2, WroteEntry
<1> HIDE DEF end, new, e
<1>10. Written'
  BY ONLY <1>1, <1>3, <1>4, <1>6, <1>8, <1>9 DEF Written
<1>11. Typed'
  <2>1. BuilderTypes'
    BY ONLY <1>1, <1>2, <1>4, <1>7, <1>8, <1>9 DEF BuilderTypes
  <2>2. Given' /\ ReaderTypes'
    BY ONLY <1>1, <1>2 DEF Given, ReaderTypes, rvars
  <2> QED
    BY ONLY <1>8, <2>1, <2>2 DEF Typed
<1>12. Packed'
  BY ONLY <1>1, <1>2 DEF Packed
<1>13. Linked'
  BY <1>1, <1>2, <1>8, SameBlocks DEF rvars
<1>14. Turns'
  BY ONLY <1>1, <1>2, <1>8 DEF Turns, rvars
<1>15. Collected' /\ Searched'
  BY <1>1, <1>8, ReaderWaits
<1> QED
  BY <1>10, <1>11, <1>12, <1>13, <1>14, <1>15 DEF IInv

LEMMA BlocksInOrder ==
  ASSUME NEW j \in Nat, NEW n \in Nat, j < n
  PROVE  Blocks(j) + BlockSize <= Blocks(n) /\ Blocks(j) \in Nat /\ Blocks(n) \in Nat
<1>1. (j + 1) * BlockSize <= n * BlockSize
  BY Sizes
<1>2. (j + 1) * BlockSize = j * BlockSize + BlockSize
  BY Sizes
<1> QED
  BY <1>1, <1>2, NoBlocks DEF Blocks

LEMMA CellsAreSeq ==
  ASSUME NEW cells \in Cells
  PROVE  cells \in Seq(Nat) /\ Len(cells) = BlockSize
BY Sizes DEF Cells

LEMMA NatConcatenation ==
  ASSUME NEW s \in Seq(Nat), NEW t \in Seq(Nat)
  PROVE  /\ s \o t \in Seq(Nat) /\ Len(s \o t) = Len(s) + Len(t)
         /\ \A i \in 1 .. Len(s) : (s \o t)[i] = s[i]
         /\ \A i \in 1 .. Len(t) : (s \o t)[Len(s) + i] = t[i]
BY Concatenation

LEMMA BlockAdded ==
  ASSUME NEW res \in Seq(Nat), NEW cells \in Cells, NEW es,
         NEW n \in Nat, NEW b \in [0 .. n -> Nat], NEW start, NEW end \in Nat,
         Chain(res, es, n, b, start), FullBlock(cells, es, start, end)
  PROVE  \E c \in [0 .. n + 1 -> Nat] : Chain(res \o cells, es, n + 1, c, end)
<1> DEFINE new == res \o cells
           c == [j \in 0 .. n + 1 |-> IF j <= n THEN b[j] ELSE end]
<1>1. /\ b[0] = 0 /\ b[n] = start /\ Len(res) = Blocks(n)
      /\ \A j \in 0 .. n - 1 :
           FullBlock(BlockAt(res, Blocks(j)), es, b[j], b[j + 1])
  BY DEF Chain
<1>2. /\ new \in Seq(Nat) /\ Len(new) = Blocks(n) + BlockSize
      /\ \A i \in 1 .. Blocks(n) : new[i] = res[i]
      /\ \A i \in 1 .. BlockSize : new[Blocks(n) + i] = cells[i]
  <2>1. cells \in Seq(Nat) /\ Len(cells) = BlockSize
    BY CellsAreSeq
  <2>2. res \in Seq(Nat) /\ Len(res) = Blocks(n)
    BY <1>1
  <2>3. /\ new \in Seq(Nat) /\ Len(new) = Len(res) + Len(cells)
        /\ \A i \in 1 .. Len(res) : new[i] = res[i]
        /\ \A i \in 1 .. Len(cells) : new[Len(res) + i] = cells[i]
    BY ONLY <2>1, <2>2, NatConcatenation
  <2> QED
    BY ONLY <2>1, <2>2, <2>3
<1>3. /\ c \in [0 .. n + 1 -> Nat] /\ c[0] = 0 /\ c[n + 1] = end
      /\ \A j \in 0 .. n : c[j] = b[j]
  BY <1>1
<1> HIDE DEF c, new
<1>4. Len(new) = Blocks(n + 1)
  BY <1>2, NoBlocks
<1>5. BlockAt(new, Blocks(n)) = cells
  <2>1. BlockAt(new, Blocks(n)) = [i \in 1 .. BlockSize |-> cells[i]]
    BY <1>2 DEF BlockAt
  <2>2. cells = [i \in 1 .. BlockSize |-> cells[i]]
    BY DEF Cells
  <2> QED
    BY ONLY <2>1, <2>2
<1>6. ASSUME NEW j \in 0 .. n - 1
      PROVE  BlockAt(new, Blocks(j)) = BlockAt(res, Blocks(j))
  <2>1. Blocks(j) + BlockSize <= Blocks(n) /\ Blocks(j) \in Nat /\ Blocks(n) \in Nat
    BY BlocksInOrder
  <2>2. \A i \in 1 .. BlockSize : Blocks(j) + i \in 1 .. Blocks(n)
    BY ONLY <2>1, Sizes
  <2>3. \A i \in 1 .. BlockSize : new[Blocks(j) + i] = res[Blocks(j) + i]
    BY ONLY <1>2, <2>2
  <2> QED
    BY ONLY <2>3 DEF BlockAt
<1>7. ASSUME NEW j \in 0 .. (n + 1) - 1
      PROVE  FullBlock(BlockAt(new, Blocks(j)), es, c[j], c[j + 1])
  <2>1. CASE j \in 0 .. n - 1
    <3>1. c[j] = b[j] /\ c[j + 1] = b[j + 1]
      BY <1>3, <2>1
    <3> QED
      BY <1>1, <1>6, <2>1, <3>1
  <2>2. CASE j = n
    <3>1. c[j] = start /\ c[j + 1] = end
      BY <1>1, <1>3, <2>2
    <3> QED
      BY <1>5, <2>2, <3>1
  <2> QED
    BY <2>1, <2>2
<1>8. Chain(new, es, n + 1, c, end)
  BY <1>3, <1>4, <1>7 DEF Chain
<1> QED
  BY <1>3, <1>8 DEF new

LEMMA AppendBlockKeeps == IInv /\ AppendBlock => IInv'
<1> SUFFICES ASSUME IInv, AppendBlock
             PROVE  IInv'
  OBVIOUS
<1>1. /\ phase = "write" /\ wr = idx - blockStart
      /\ result' = result \o block /\ blockStart' = idx
      /\ nameArea' = 0 /\ phase' = "pack"
      /\ UNCHANGED <<entries, idx, nameOffset, wr, block, rvars>>
  BY DEF AppendBlock
<1>2. /\ Given /\ BuilderTypes /\ ReaderTypes
      /\ Packed /\ Linked /\ EntriesOK(entries) /\ Turns /\ Written
      /\ idx \in Nat /\ blockStart \in Nat /\ blockStart <= idx
      /\ idx <= Len(entries) /\ idx - blockStart \in Nat
      /\ Len(entries) \in Nat /\ wr \in Nat
  BY TypedFacts
<1>3. block \in Cells /\ result \in Seq(Nat)
  BY <1>2 DEF BuilderTypes
<1>4. FullBlock(block, entries, blockStart, idx)
  <2>1. /\ blockStart < idx
        /\ Holds(block, entries, blockStart, idx, idx - blockStart)
    BY <1>1, <1>2 DEF Written
  <2>2. Off(entries, blockStart, idx, idx - blockStart) <= BlockSize
    BY ONLY <1>2 DEF Packed
  <2> QED
    BY ONLY <1>2, <2>1, <2>2 DEF FullBlock
<1>5. Linked'
  <2>1. PICK n \in Nat : \E b \in [0 .. n -> Nat] :
          Chain(result, entries, n, b, blockStart)
    BY <1>2 DEF Linked
  <2>2. PICK b \in [0 .. n -> Nat] : Chain(result, entries, n, b, blockStart)
    BY <2>1
  <2>3. PICK c \in [0 .. n + 1 -> Nat] :
          Chain(result \o block, entries, n + 1, c, idx)
    BY ONLY <1>2, <1>3, <1>4, <2>2, BlockAdded
  <2>4. Chain(result', entries', n + 1, c, blockStart')
    BY <1>1, <2>3
  <2>5. c[0] = 0
    BY <2>3 DEF Chain
  <2>6. pos' = 0 /\ out' = << >> /\ phase' = "pack"
    BY <1>1, <1>2 DEF Turns, rvars
  <2>7. Position(n + 1, c)'
    <3>1. 0 \in 0 .. n + 1 /\ Blocks(0) = 0 /\ Len(<< >>) = 0
      BY ONLY NoBlocks, EmptySeq
    <3> QED
      BY ONLY <2>5, <2>6, <3>1 DEF Position, AtBlock
  <2>8. n + 1 \in Nat
    OBVIOUS
  <2> QED
    BY ONLY <2>4, <2>7, <2>8 DEF Linked
<1>6. Packed'
  <2>1. Off(entries, idx, idx, 0) = Dirents(idx - idx)
    BY <1>2, OffStart
  <2>2. idx - idx = 0 /\ Dirents(0) = 0
    BY ONLY <1>2, Sizes DEF Dirents
  <2> QED
    BY ONLY <1>1, <2>1, <2>2, Sizes DEF Packed
<1>7. Typed'
  <2>1. result' \in Seq(Nat)
    BY <1>1, <1>3, CellsAreSeq, Concatenation
  <2>2. BuilderTypes'
    BY ONLY <1>1, <1>2, <2>1 DEF BuilderTypes
  <2>3. Given' /\ ReaderTypes'
    BY ONLY <1>1, <1>2 DEF Given, ReaderTypes, rvars
  <2> QED
    BY ONLY <1>1, <2>2, <2>3 DEF Typed
<1>8. Turns' /\ Written'
  BY ONLY <1>1, <1>2 DEF Turns, Written, rvars
<1>9. Collected' /\ Searched'
  BY <1>1, ReaderWaits
<1> QED
  BY <1>5, <1>6, <1>7, <1>8, <1>9 DEF IInv

LEMMA StartWalkKeeps == IInv /\ StartWalk => IInv'
<1> SUFFICES ASSUME IInv, StartWalk
             PROVE  IInv'
  OBVIOUS
<1>1. /\ phase = "pack" /\ blockStart = Len(entries) /\ phase' = "walk"
      /\ UNCHANGED <<entries, bvars, rvars>>
  BY DEF StartWalk
<1>2. /\ Given /\ BuilderTypes /\ ReaderTypes
      /\ Packed /\ Linked /\ Turns
  BY TypedFacts
<1>3. Typed'
  BY ONLY <1>1, <1>2 DEF Typed, Given, BuilderTypes, ReaderTypes, bvars, rvars
<1>4. Linked'
  BY <1>1, <1>2, SameBlocks DEF bvars, rvars
<1>5. Packed' /\ Turns' /\ Written'
  BY ONLY <1>1, <1>2 DEF Packed, Turns, Written, bvars, rvars
<1>6. Collected' /\ Searched'
  BY <1>1, ReaderWaits
<1> QED
  BY <1>3, <1>4, <1>5, <1>6 DEF IInv

-----------------------------------------------------------------------------
(* The steps of the reader.                                                *)

LEMMA ExactQuotient ==
  ASSUME NEW q \in Nat, NEW a \in Nat \ {0}
  PROVE  (q * a) \div a = q
BY SMT

LEMMA DirentsCounted ==
  ASSUME NEW q \in Nat
  PROVE  Dirents(q) \div DirentSize = q
BY ONLY Sizes, ExactQuotient DEF Dirents

(* Where the scan for the end of the last name stops.                         *)
LEMMA ScanStops ==
  ASSUME NEW from \in Nat, NEW end \in from .. BlockSize,
         Ends(end), \A l \in from .. end - 1 : ~ Ends(l)
  PROVE  (CHOOSE k \in from .. BlockSize : Ends(k) /\ \A l \in from .. k - 1 : ~ Ends(l))
           = end
<1> DEFINE Q(k) == Ends(k) /\ \A l \in from .. k - 1 : ~ Ends(l)
<1>1. Q(end)
  OBVIOUS
<1>2. ASSUME NEW k \in from .. BlockSize, Q(k)
      PROVE  k = end
  <2>1. ~ (k < end)
    <3> SUFFICES ASSUME k < end
                 PROVE  FALSE
      OBVIOUS
    <3>1. k \in from .. end - 1
      BY Sizes
    <3> QED
      BY <1>2, <3>1
  <2>2. ~ (end < k)
    <3> SUFFICES ASSUME end < k
                 PROVE  FALSE
      OBVIOUS
    <3>1. end \in from .. k - 1
      BY Sizes
    <3> QED
      BY <1>2, <3>1
  <2> QED
    BY <2>1, <2>2, Sizes
<1> HIDE DEF Q
<1>3. (CHOOSE k \in from .. BlockSize : Q(k)) = end
  BY <1>1, <1>2
<1> QED
  BY <1>3 DEF Q

(* What the reader finds in a full block at pos.                              *)
BlockIs(first, last) ==
  /\ BlockLen = BlockSize
  /\ DirentCount = last - first
  /\ \A i \in 0 .. last - first - 1 :
       /\ InBounds(i)
       /\ Cell(i * DirentSize) = entries[first + i + 1].nid
       /\ Cell(i * DirentSize + 2) = entries[first + i + 1].ft
       /\ SubSeq(result, pos + NameOff(i) + 1, pos + NameEnd(i))
            = entries[first + i + 1].name

LEMMA CellIs ==
  ASSUME pos \in Nat, NEW k \in 0 .. BlockSize - 1
  PROVE  Cell(k) = BlockAt(result, pos)[k + 1]
<1>1. k + 1 \in 1 .. BlockSize /\ pos + (k + 1) = pos + k + 1
  BY Sizes
<1>2. BlockAt(result, pos)[k + 1] = result[pos + (k + 1)]
  BY <1>1 DEF BlockAt
<1> QED
  BY ONLY <1>1, <1>2 DEF Cell

LEMMA SubSeqIs ==
  ASSUME NEW s \in Seq(Nat), NEW t \in Seq(Nat), NEW at \in Nat,
         at + Len(t) <= Len(s), \A c \in 1 .. Len(t) : s[at + c] = t[c]
  PROVE  SubSeq(s, at + 1, at + Len(t)) = t
<1> DEFINE from == at + 1
           to == at + Len(t)
           sub == SubSeq(s, from, to)
<1>1. /\ Len(s) \in Nat /\ Len(t) \in Nat
      /\ from \in Int /\ to \in Int /\ to - from + 1 = Len(t)
      /\ (IF from <= to THEN to - from + 1 ELSE 0) = Len(t)
      /\ \A i \in from .. to : i \in 1 .. Len(s)
      /\ \A i \in 1 .. Len(t) : from + i - 1 = at + i
  <2> DEFINE m == Len(s)
             k == Len(t)
  <2>1. m \in Nat /\ k \in Nat /\ at \in Nat /\ at + k <= m
    BY LenProperties
  <2> HIDE DEF m, k
  <2>2. /\ at + 1 \in Int /\ at + k \in Int
        /\ (at + k) - (at + 1) + 1 = k
    BY ONLY <2>1
  <2>3. (IF at + 1 <= at + k THEN (at + k) - (at + 1) + 1 ELSE 0) = k
    BY ONLY <2>1
  <2>4. \A i \in at + 1 .. at + k : i \in 1 .. m
    BY ONLY <2>1
  <2>5. \A i \in 1 .. k : (at + 1) + i - 1 = at + i
    BY ONLY <2>1
  <2> QED
    BY ONLY <2>1, <2>2, <2>3, <2>4, <2>5 DEF m, k
<1>2. \A i \in from .. to : s[i] \in Nat
  BY <1>1, ElementOfSeq
<1> HIDE DEF from, to
<1>3. /\ sub \in Seq(Nat) /\ Len(sub) = Len(t)
      /\ \A i \in 1 .. Len(t) : sub[i] = s[from + i - 1]
  BY ONLY <1>1, <1>2, SubSeqProperties
<1> HIDE DEF sub
<1>4. \A i \in 1 .. Len(t) : sub[i] = t[i]
  BY <1>1, <1>3
<1>5. sub = t
  BY ONLY <1>3, <1>4, SeqEqual
<1> QED
  BY ONLY <1>5 DEF sub, from, to

LEMMA BlockRead ==
  ASSUME Given, result \in Seq(Nat), pos \in Nat,
         NEW first \in Nat, NEW last \in Nat,
         FullBlock(BlockAt(result, pos), entries, first, last),
         pos + BlockSize <= Len(result)
  PROVE  BlockIs(first, last)
<1> DEFINE cells == BlockAt(result, pos)
           n == last - first
           O(i) == Off(entries, first, last, i)
<1>1. /\ EntriesOK(entries) /\ Len(entries) \in Nat
      /\ first < last /\ first <= last /\ last <= Len(entries)
      /\ n \in Nat /\ n <= last - first /\ n >= 1
      /\ O(n) <= BlockSize /\ Holds(cells, entries, first, last, n)
      /\ Len(result) \in Nat /\ pos \in Nat /\ pos + BlockSize <= Len(result)
  BY EntriesFacts, LenProperties DEF FullBlock, Given
<1>2. BlockEnd = pos + BlockSize /\ BlockLen = BlockSize
  BY ONLY <1>1, Sizes DEF BlockEnd, BlockLen
<1>3. \A k \in 0 .. BlockSize - 1 : Cell(k) = cells[k + 1]
  BY <1>1, CellIs
<1> HIDE DEF cells, O
<1>4. /\ \A i \in 0 .. n - 1 : HoldsEntry(cells, entries, first, last, i)
      /\ \A c \in 1 .. BlockSize : c > O(n) => cells[c] = 0
  BY ONLY <1>1 DEF Holds, O
<1>5. /\ O(n) \in Nat /\ Dirents(n) <= O(n) /\ O(0) = Dirents(n)
  BY ONLY <1>1, OffBounds, OffStart DEF O
<1>12. /\ O(n) \in Nat /\ O(n) <= BlockSize
       /\ Dirents(n) \in Nat /\ Dirents(n) <= BlockSize
       /\ BlockSize \in Nat /\ DirentSize \in Nat /\ DirentSize >= 3
       /\ pos \in Nat /\ Len(result) \in Nat /\ pos + BlockSize <= Len(result)
  <2>1. Dirents(n) \in Nat
    BY ONLY <1>1, Area
  <2> QED
    BY ONLY <1>1, <1>5, <2>1, Sizes
<1>6. ASSUME NEW i \in 0 .. n - 1
      PROVE  /\ i \in Nat /\ i < n
             /\ O(i) \in Nat /\ O(i + 1) \in Nat
             /\ O(i + 1) = O(i) + Len(entries[first + i + 1].name)
             /\ O(i + 1) <= O(n)
             /\ first + i + 1 \in 1 .. Len(entries)
             /\ Dirents(i) \in Nat /\ Dirents(i) + DirentSize <= Dirents(n)
  <2>1. /\ i \in Nat /\ i + 1 \in Nat /\ i < n /\ i + 1 <= n
        /\ i <= n /\ first + i + 1 \in 1 .. Len(entries)
    BY ONLY <1>1
  <2>2. O(i) \in Nat /\ O(i + 1) \in Nat
    BY ONLY <1>1, <2>1, OffBounds DEF O
  <2>3. O(i + 1) = O(i) + Len(entries[first + i + 1].name)
    BY ONLY <1>1, <2>1, OffNext DEF O
  <2>4. O(i + 1) <= O(n)
    BY ONLY <1>1, <2>1, OffInOrder DEF O
  <2>5. Dirents(i) \in Nat /\ Dirents(i) + DirentSize <= Dirents(n)
    BY ONLY <1>1, <2>1, DirentsFacts
  <2> QED
    BY ONLY <2>1, <2>2, <2>3, <2>4, <2>5
<1>7. ASSUME NEW i \in 0 .. n - 1
      PROVE  /\ Cell(Dirents(i)) = entries[first + i + 1].nid
             /\ NameOff(i) = O(i)
             /\ Cell(Dirents(i) + 2) = entries[first + i + 1].ft
             /\ \A c \in 1 .. Len(entries[first + i + 1].name) :
                  cells[O(i) + c] = entries[first + i + 1].name[c]
  <2> DEFINE d == Dirents(i)
  <2>1. /\ cells[d + 1] = entries[first + i + 1].nid
        /\ cells[d + 2] = O(i)
        /\ cells[d + 3] = entries[first + i + 1].ft
        /\ \A c \in 1 .. Len(entries[first + i + 1].name) :
             cells[O(i) + c] = entries[first + i + 1].name[c]
    BY ONLY <1>4 DEF HoldsEntry, O
  <2>2. d \in Nat /\ d + 3 <= BlockSize
    <3>1. Dirents(i) \in Nat /\ Dirents(i) + DirentSize <= Dirents(n)
      BY ONLY <1>6
    <3> QED
      BY ONLY <1>12, <3>1
  <2> HIDE DEF d
  <2>3. /\ d \in 0 .. BlockSize - 1 /\ d + 1 \in 0 .. BlockSize - 1
        /\ d + 2 \in 0 .. BlockSize - 1
        /\ (d + 1) + 1 = d + 2 /\ (d + 2) + 1 = d + 3
    BY ONLY <2>2, Sizes
  <2>4. Cell(d) = cells[d + 1] /\ Cell(d + 1) = cells[d + 2]
        /\ Cell(d + 2) = cells[d + 3]
    BY ONLY <1>3, <2>3
  <2>5. NameOff(i) = Cell(d + 1)
    BY DEF NameOff, d, Dirents
  <2> QED
    BY ONLY <2>1, <2>4, <2>5 DEF d
<1>8. DirentCount = n
  <2>1. 0 \in 0 .. n - 1
    BY ONLY <1>1
  <2>2. NameOff(0) = Dirents(n)
    BY ONLY <1>5, <1>7, <2>1
  <2> QED
    BY ONLY <1>1, <2>2, DirentsCounted DEF DirentCount
<1>9. ASSUME NEW i \in 0 .. n - 1
      PROVE  NameEnd(i) = O(i + 1)
  <2>1. CASE i + 1 < n
    <3>1. i + 1 \in 0 .. n - 1
      BY ONLY <1>1, <2>1
    <3> QED
      BY ONLY <1>7, <1>8, <2>1, <3>1 DEF NameEnd
  <2>2. CASE ~ (i + 1 < n)
    <3>1. i + 1 = n /\ O(n) = O(i + 1)
      BY ONLY <1>1, <2>2
    <3>2. /\ O(i) \in Nat /\ O(n) \in O(i) .. BlockSize
          /\ O(n) = O(i) + Len(entries[first + i + 1].name)
          /\ Len(entries[first + i + 1].name) \in Nat
      <4>1. Len(entries[first + i + 1].name) \in Nat
        BY ONLY <1>1, <1>6, EntriesFacts
      <4>2. /\ O(i) \in Nat /\ O(i + 1) = O(i) + Len(entries[first + i + 1].name)
        BY ONLY <1>6
      <4> DEFINE x == O(i)
                 y == O(n)
                 m == Len(entries[first + i + 1].name)
      <4>3. /\ x \in Nat /\ y \in Nat /\ m \in Nat /\ y = x + m
            /\ y <= BlockSize /\ BlockSize \in Nat
        BY ONLY <1>12, <3>1, <4>1, <4>2
      <4> HIDE DEF x, y, m
      <4>4. y \in x .. BlockSize
        BY ONLY <4>3
      <4> QED
        BY ONLY <4>3, <4>4 DEF x, y, m
    <3>3. Ends(O(n))
      <4>1. CASE O(n) < BlockSize
        <5>1. O(n) \in 0 .. BlockSize - 1 /\ O(n) + 1 \in 1 .. BlockSize
              /\ O(n) + 1 > O(n)
          BY ONLY <1>5, <4>1, Sizes
        <5>2. Cell(O(n)) = 0
          BY ONLY <1>3, <1>4, <5>1
        <5> QED
          BY ONLY <5>2 DEF Ends
      <4>2. CASE O(n) = BlockSize
        BY ONLY <1>2, <4>2, Sizes DEF Ends
      <4> QED
        BY ONLY <1>1, <1>5, <4>1, <4>2, Sizes
    <3>4. ASSUME NEW l \in O(i) .. O(n) - 1
          PROVE  ~ Ends(l)
      <4>1. /\ l \in 0 .. BlockSize - 1 /\ l < BlockSize
            /\ (l + 1) - O(i) \in 1 .. Len(entries[first + i + 1].name)
            /\ O(i) + ((l + 1) - O(i)) = l + 1
        <5> DEFINE m == Len(entries[first + i + 1].name)
                   x == O(i)
                   y == O(n)
        <5>1. /\ x \in Nat /\ m \in Nat /\ y \in Nat /\ y = x + m /\ y <= BlockSize
              /\ l \in x .. y - 1
          BY ONLY <1>12, <3>2
        <5> HIDE DEF m, x, y
        <5>2. /\ l \in 0 .. BlockSize - 1 /\ l < BlockSize
              /\ (l + 1) - x \in 1 .. m /\ x + ((l + 1) - x) = l + 1
          BY ONLY <1>12, <5>1
        <5> QED
          BY ONLY <5>2 DEF m, x
      <4>2. Cell(l) = entries[first + i + 1].name[(l + 1) - O(i)]
        BY ONLY <1>3, <1>7, <4>1
      <4>3. entries[first + i + 1].name \in Seq(Nat \ {0})
        BY ONLY <1>1, <1>6, EntriesFacts
      <4>4. Cell(l) # 0
        BY ONLY <4>1, <4>2, <4>3, ElementOfSeq
      <4>5. ~ (l >= BlockLen)
        BY ONLY <1>2, <4>1, Sizes
      <4> QED
        BY ONLY <4>4, <4>5 DEF Ends
    <3>5. (CHOOSE k \in O(i) .. BlockSize :
             Ends(k) /\ \A l \in O(i) .. k - 1 : ~ Ends(l)) = O(n)
      BY ONLY <3>2, <3>3, <3>4, ScanStops
    <3>6. NameOff(i) = O(i)
      BY ONLY <1>7
    <3>7. NameEnd(i) = CHOOSE k \in O(i) .. BlockSize :
             Ends(k) /\ \A l \in O(i) .. k - 1 : ~ Ends(l)
      BY ONLY <1>8, <2>2, <3>6 DEF NameEnd
    <3> QED
      BY ONLY <3>1, <3>5, <3>7
  <2> QED
    BY ONLY <2>1, <2>2
<1>10. ASSUME NEW i \in 0 .. n - 1
       PROVE  SubSeq(result, pos + NameOff(i) + 1, pos + NameEnd(i))
                = entries[first + i + 1].name
  <2> DEFINE name == entries[first + i + 1].name
             sub == SubSeq(result, pos + O(i) + 1, pos + O(i + 1))
  <2>1. name \in Seq(Nat) /\ Len(name) \in Nat
    BY ONLY <1>1, <1>6, EntriesFacts
  <2>2. /\ O(i) \in Nat /\ O(i + 1) = O(i) + Len(name)
        /\ pos + O(i + 1) <= Len(result) /\ O(i) + Len(name) <= BlockSize
    <3>1. /\ O(i) \in Nat /\ O(i + 1) = O(i) + Len(name) /\ O(i + 1) <= O(n)
      BY ONLY <1>6
    <3> HIDE DEF name, n
    <3> QED
      BY ONLY <1>12, <2>1, <3>1
  <2>3. \A c \in 1 .. Len(name) : cells[O(i) + c] = name[c]
    BY ONLY <1>7
  <2>4. ASSUME NEW c \in 1 .. Len(name)
        PROVE  result[(pos + O(i)) + c] = name[c]
    <3>1. /\ O(i) + c - 1 \in 0 .. BlockSize - 1
          /\ (O(i) + c - 1) + 1 = O(i) + c
          /\ pos + (O(i) + c - 1) + 1 = (pos + O(i)) + c
      <4> DEFINE x == O(i)
                 m == Len(name)
      <4>1. /\ x \in Nat /\ m \in Nat /\ x + m <= BlockSize /\ c \in 1 .. m
        BY ONLY <2>1, <2>2
      <4> HIDE DEF x, m
      <4>2. /\ x + c - 1 \in 0 .. BlockSize - 1
            /\ (x + c - 1) + 1 = x + c
            /\ pos + (x + c - 1) + 1 = (pos + x) + c
        BY ONLY <1>12, <4>1
      <4> QED
        BY ONLY <4>2 DEF x
    <3>2. Cell(O(i) + c - 1) = name[c]
      BY ONLY <1>3, <2>3, <3>1
    <3> QED
      BY ONLY <3>1, <3>2 DEF Cell
  <2> HIDE DEF name
  <2>5. sub = name
    <3>1. /\ pos + O(i) \in Nat /\ (pos + O(i)) + Len(name) = pos + O(i + 1)
          /\ (pos + O(i)) + Len(name) <= Len(result)
      BY ONLY <1>12, <2>1, <2>2
    <3>2. result \in Seq(Nat)
      OBVIOUS
    <3>3. SubSeq(result, (pos + O(i)) + 1, (pos + O(i)) + Len(name)) = name
      BY ONLY <2>1, <2>4, <3>1, <3>2, SubSeqIs
    <3> QED
      BY ONLY <3>1, <3>3
  <2>6. NameOff(i) = O(i) /\ NameEnd(i) = O(i + 1)
    BY ONLY <1>7, <1>9
  <2> QED
    BY ONLY <2>5, <2>6 DEF name
<1>11. ASSUME NEW i \in 0 .. n - 1
       PROVE  InBounds(i)
  <2>1. i * DirentSize + DirentSize <= BlockSize
    <3>1. Dirents(i) \in Nat /\ Dirents(i) + DirentSize <= Dirents(n)
      BY ONLY <1>6
    <3>2. Dirents(i) + DirentSize <= BlockSize
      BY ONLY <1>12, <3>1
    <3> QED
      BY ONLY <3>2 DEF Dirents
  <2>2. NameOff(i) < BlockSize /\ NameEnd(i) <= BlockSize
    <3>1. Len(entries[first + i + 1].name) \in Nat
          /\ Len(entries[first + i + 1].name) >= 1
      <4>1. Len(entries[first + i + 1].name) \in 1 .. BlockSize - DirentSize
        BY ONLY <1>1, <1>6, EntriesFacts
      <4> QED
        BY ONLY <4>1, Sizes
    <3>2. /\ O(i) \in Nat /\ O(i + 1) = O(i) + Len(entries[first + i + 1].name)
          /\ O(i + 1) <= O(n)
      BY ONLY <1>6
    <3>3. NameOff(i) = O(i) /\ NameEnd(i) = O(i + 1)
      BY ONLY <1>7, <1>9
    <3> DEFINE x == O(i)
               y == O(i + 1)
               m == Len(entries[first + i + 1].name)
    <3>4. /\ x \in Nat /\ m \in Nat /\ m >= 1 /\ y = x + m
          /\ y <= O(n) /\ O(n) \in Nat /\ O(n) <= BlockSize /\ BlockSize \in Nat
      BY ONLY <1>12, <3>1, <3>2
    <3> HIDE DEF n, x, y, m
    <3>5. x < BlockSize /\ y <= BlockSize
      BY ONLY <3>4
    <3> QED
      BY ONLY <3>3, <3>5 DEF x, y
  <2> QED
    BY ONLY <1>2, <2>1, <2>2 DEF InBounds
<1>13. ASSUME NEW i \in 0 .. n - 1
       PROVE  /\ Cell(i * DirentSize) = entries[first + i + 1].nid
              /\ Cell(i * DirentSize + 2) = entries[first + i + 1].ft
  BY ONLY <1>7 DEF Dirents
<1> QED
  BY ONLY <1>2, <1>8, <1>10, <1>11, <1>13 DEF BlockIs

LEMMA BlockBounds ==
  ASSUME NEW n \in Nat, NEW b \in [0 .. n -> Nat], NEW j \in 0 .. n,
         result \in Seq(Nat), Len(entries) \in Nat,
         Chain(result, entries, n, b, blockStart)
  PROVE  /\ Blocks(j) \in Nat /\ Blocks(j) <= Len(result)
         /\ b[j] \in Nat
         /\ j < n => /\ Blocks(j) + BlockSize <= Len(result)
                     /\ FullBlock(BlockAt(result, Blocks(j)), entries, b[j], b[j + 1])
                     /\ b[j + 1] \in Nat /\ b[j] < b[j + 1]
                     /\ b[j + 1] <= Len(entries)
         /\ ~ (j < n) => /\ Blocks(j) = Len(result)
                         /\ b[j] = blockStart
<1>1. /\ b[n] = blockStart /\ Len(result) = Blocks(n)
      /\ \A k \in 0 .. n - 1 :
           FullBlock(BlockAt(result, Blocks(k)), entries, b[k], b[k + 1])
  BY DEF Chain
<1>2. b[j] \in Nat /\ Blocks(j) \in Nat
  <2>1. j \in Nat
    OBVIOUS
  <2> QED
    BY <2>1, NoBlocks
<1>3. CASE j < n
  <2>1. j \in 0 .. n - 1 /\ j + 1 \in 0 .. n
    BY <1>3
  <2>2. FullBlock(BlockAt(result, Blocks(j)), entries, b[j], b[j + 1])
    BY ONLY <1>1, <2>1
  <2>3. b[j] < b[j + 1] /\ b[j + 1] <= Len(entries)
    BY ONLY <2>2 DEF FullBlock
  <2>4. b[j + 1] \in Nat
    BY <2>1
  <2>5. Blocks(j) + BlockSize <= Len(result)
    BY ONLY <1>1, <1>3, BlocksInOrder, n \in Nat, j \in 0 .. n
  <2>6. Blocks(j) <= Len(result)
    BY <1>2, <2>5, Sizes, LenProperties
  <2> QED
    BY ONLY <1>2, <1>3, <2>2, <2>3, <2>4, <2>5, <2>6
<1>4. CASE ~ (j < n)
  <2>1. j = n
    BY <1>4
  <2> QED
    BY ONLY <1>1, <1>2, <1>4, <2>1, n \in Nat
<1> QED
  BY ONLY <1>3, <1>4

(* What a step of the reader keeps of the builder's parts.                    *)
LEMMA BuilderRests ==
  ASSUME IInv, phase \in {"walk", "block"}, phase' \in {"walk", "block", "done"},
         UNCHANGED <<entries, bvars, target>>, ReaderTypes'
  PROVE  Typed' /\ Packed' /\ Written' /\ Turns'
<1>1. /\ Given /\ BuilderTypes /\ Packed /\ Turns
  BY TypedFacts
<1>2. Given' /\ BuilderTypes'
  BY ONLY <1>1, UNCHANGED <<entries, bvars, target>> DEF Given, BuilderTypes, bvars
<1>3. Typed'
  BY ONLY <1>2, ReaderTypes', phase' \in {"walk", "block", "done"} DEF Typed
<1>4. Packed'
  BY ONLY <1>1, UNCHANGED <<entries, bvars, target>> DEF Packed, bvars
<1>5. blockStart = Len(entries) /\ UNCHANGED <<blockStart, entries>>
  BY ONLY <1>1, phase \in {"walk", "block"}, UNCHANGED <<entries, bvars, target>>
  DEF Turns, bvars
<1>6. Turns' /\ Written'
  BY ONLY <1>5, phase' \in {"walk", "block", "done"} DEF Turns, Written
<1> QED
  BY ONLY <1>3, <1>4, <1>6

(* Where the reader is, with its block and the blocks' entries.               *)
LEMMA ReaderAt ==
  ASSUME IInv
  PROVE  \E n \in Nat : \E b \in [0 .. n -> Nat] : \E j \in 0 .. n :
           Chain(result, entries, n, b, blockStart) /\ AtBlock(j, n, b)
BY TypedFacts DEF Linked, Position

LEMMA StaysLinked ==
  ASSUME UNCHANGED <<entries, bvars, target>>,
         NEW n \in Nat, NEW b \in [0 .. n -> Nat], NEW j \in 0 .. n,
         Chain(result, entries, n, b, blockStart), AtBlock(j, n, b)'
  PROVE  Linked'
<1>1. Chain(result', entries', n, b, blockStart')
  BY DEF bvars
<1>2. Position(n, b)'
  BY DEF Position
<1> QED
  BY <1>1, <1>2 DEF Linked

LEMMA NextBlockKeeps == IInv /\ NextBlock => IInv'
<1> SUFFICES ASSUME IInv, NextBlock
             PROVE  IInv'
  OBVIOUS
<1>1. /\ phase = "walk"
      /\ phase' = IF pos < Len(result) /\ BlockLen >= DirentSize THEN "block"
                  ELSE "done"
      /\ de' = 0
      /\ UNCHANGED <<entries, bvars, target, pos, out, found>>
  BY DEF NextBlock
<1>2. /\ ReaderTypes /\ BuilderTypes /\ Turns /\ Collected /\ Searched
      /\ Len(entries) \in Nat
  BY TypedFacts
<1>3. PICK n \in Nat : \E b \in [0 .. n -> Nat] : \E j \in 0 .. n :
        Chain(result, entries, n, b, blockStart) /\ AtBlock(j, n, b)
  BY ReaderAt
<1>4. PICK b \in [0 .. n -> Nat] : \E j \in 0 .. n :
        Chain(result, entries, n, b, blockStart) /\ AtBlock(j, n, b)
  BY <1>3
<1>5. PICK j \in 0 .. n :
        Chain(result, entries, n, b, blockStart) /\ AtBlock(j, n, b)
  BY <1>4
<1>6. /\ pos = Blocks(j) /\ Len(out) = b[j]
      /\ result \in Seq(Nat) /\ Len(result) \in Nat
      /\ blockStart = Len(entries)
  BY <1>1, <1>2, <1>5, LenProperties DEF AtBlock, BuilderTypes, Turns
<1>7. /\ Blocks(j) \in Nat /\ b[j] \in Nat
      /\ j < n => Blocks(j) + BlockSize <= Len(result)
                  /\ b[j + 1] \in Nat /\ b[j] < b[j + 1]
      /\ ~ (j < n) => Blocks(j) = Len(result) /\ b[j] = blockStart
  BY <1>2, <1>5, <1>6, BlockBounds
<1>8. ReaderTypes'
  BY ONLY <1>1, <1>2 DEF ReaderTypes
<1>9. CASE j < n
  <2>1. pos < Len(result) /\ BlockLen >= DirentSize
    <3>1. /\ pos \in Nat /\ Len(result) \in Nat /\ pos + BlockSize <= Len(result)
      BY ONLY <1>6, <1>7, <1>9
    <3>2. pos < Len(result) /\ pos + BlockSize - pos = BlockSize
      BY ONLY <3>1, Sizes
    <3>3. BlockEnd = pos + BlockSize
      BY ONLY <3>1, Sizes DEF BlockEnd
    <3>4. BlockLen = BlockSize
      BY ONLY <3>2, <3>3 DEF BlockLen
    <3> QED
      BY ONLY <3>2, <3>4, Sizes
  <2>2. phase' = "block"
    BY ONLY <1>1, <2>1
  <2>3. AtBlock(j, n, b)'
    BY ONLY <1>1, <1>6, <1>7, <1>9, <2>2 DEF AtBlock
  <2>4. Linked'
    BY ONLY <1>1, <1>5, <2>3, StaysLinked
  <2>5. Collected' /\ Searched'
    BY ONLY <1>1, <1>2, <2>2 DEF Collected, Searched, Missed
  <2>6. Typed' /\ Packed' /\ Written' /\ Turns'
    BY <1>1, <1>8, <2>2, BuilderRests
  <2> QED
    BY ONLY <2>4, <2>5, <2>6 DEF IInv
<1>10. CASE ~ (j < n)
  <2>1. ~ (pos < Len(result)) /\ Len(out) = Len(entries)
    BY ONLY <1>6, <1>7, <1>10
  <2>2. phase' = "done"
    BY ONLY <1>1, <2>1
  <2>3. AtBlock(j, n, b)'
    BY ONLY <1>1, <1>6, <2>2 DEF AtBlock
  <2>4. Linked'
    BY ONLY <1>1, <1>5, <2>3, StaysLinked
  <2>5. Collected' /\ Searched'
    BY ONLY <1>1, <1>2, <2>1, <2>2 DEF Collected, Searched, Missed
  <2>6. Typed' /\ Packed' /\ Written' /\ Turns'
    BY <1>1, <1>8, <2>2, BuilderRests
  <2> QED
    BY ONLY <2>4, <2>5, <2>6 DEF IInv
<1> QED
  BY ONLY <1>9, <1>10

LEMMA EntryIs ==
  ASSUME NEW e \in Entry
  PROVE  [nid |-> e.nid, name |-> e.name, ft |-> e.ft] = e
BY DEF Entry

(* The block that the reader is in.                                         *)
LEMMA InBlock ==
  ASSUME IInv, phase = "block",
         NEW n \in Nat, NEW b \in [0 .. n -> Nat], NEW j \in 0 .. n,
         Chain(result, entries, n, b, blockStart), AtBlock(j, n, b)
  PROVE  /\ j < n /\ b[j] \in Nat /\ b[j + 1] \in Nat /\ b[j + 1] <= Len(entries)
         /\ Blocks(j + 1) = pos + BlockSize
         /\ de \in Nat /\ de <= b[j + 1] - b[j] /\ Len(out) = b[j] + de
         /\ BlockIs(b[j], b[j + 1])
<1>1. /\ Given /\ ReaderTypes /\ BuilderTypes /\ Len(entries) \in Nat
  BY TypedFacts
<1>2. /\ pos = Blocks(j) /\ j < n /\ de <= b[j + 1] - b[j]
      /\ Len(out) = b[j] + de
      /\ result \in Seq(Nat) /\ pos \in Nat /\ de \in Nat
  BY <1>1 DEF AtBlock, BuilderTypes, ReaderTypes
<1>3. /\ Blocks(j) + BlockSize <= Len(result)
      /\ FullBlock(BlockAt(result, Blocks(j)), entries, b[j], b[j + 1])
      /\ b[j] \in Nat /\ b[j + 1] \in Nat /\ b[j + 1] <= Len(entries)
  BY <1>1, <1>2, BlockBounds
<1>4. BlockIs(b[j], b[j + 1])
  BY ONLY <1>1, <1>2, <1>3, BlockRead
<1>5. j \in Nat
  OBVIOUS
<1>6. Blocks(j + 1) = pos + BlockSize
  BY ONLY <1>2, <1>5, NoBlocks
<1> QED
  BY ONLY <1>2, <1>3, <1>4, <1>6

LEMMA VisitEntryKeeps == IInv /\ VisitEntry => IInv'
<1> SUFFICES ASSUME IInv, VisitEntry
             PROVE  IInv'
  OBVIOUS
<1> DEFINE name == SubSeq(result, pos + NameOff(de) + 1, pos + NameEnd(de))
           nid == Cell(de * DirentSize)
           ft == Cell(de * DirentSize + 2)
           k == Len(out)
           e == entries[k + 1]
<1>1. /\ phase = "block" /\ de < DirentCount
      /\ out' = Append(out, [nid |-> nid, name |-> name, ft |-> ft])
      /\ IF name = target THEN phase' = "done" /\ found' = {nid}
         ELSE phase' = phase /\ found' = found
      /\ de' = de + 1
      /\ UNCHANGED <<entries, bvars, target, pos>>
  BY DEF VisitEntry, Matches
<1>2. /\ ReaderTypes /\ Collected /\ Searched /\ EntriesOK(entries)
      /\ Len(entries) \in Nat
  BY TypedFacts
<1>3. PICK n \in Nat : \E b \in [0 .. n -> Nat] : \E j \in 0 .. n :
        Chain(result, entries, n, b, blockStart) /\ AtBlock(j, n, b)
  BY ReaderAt
<1>4. PICK b \in [0 .. n -> Nat] : \E j \in 0 .. n :
        Chain(result, entries, n, b, blockStart) /\ AtBlock(j, n, b)
  BY <1>3
<1>5. PICK j \in 0 .. n :
        Chain(result, entries, n, b, blockStart) /\ AtBlock(j, n, b)
  BY <1>4
<1> HIDE DEF name, nid, ft
<1>6. /\ j < n /\ b[j] \in Nat /\ b[j + 1] \in Nat /\ b[j + 1] <= Len(entries)
      /\ de \in Nat /\ Len(out) = b[j] + de
      /\ BlockIs(b[j], b[j + 1])
  BY <1>1, <1>5, InBlock
<1>7. DirentCount = b[j + 1] - b[j]
  BY ONLY <1>6 DEF BlockIs
<1>8. /\ de \in 0 .. b[j + 1] - b[j] - 1 /\ de + 1 <= b[j + 1] - b[j]
      /\ k \in Nat /\ k + 1 \in 1 .. Len(entries) /\ k + 1 <= Len(entries)
      /\ b[j] + de + 1 = k + 1 /\ k + 1 = b[j] + (de + 1)
      /\ de + 1 \in Nat /\ de + 1 <= Len(entries)
  <2> DEFINE x == b[j]
             y == b[j + 1]
             m == Len(entries)
  <2>1. /\ x \in Nat /\ y \in Nat /\ y <= m /\ m \in Nat
        /\ de \in Nat /\ de < y - x /\ k = x + de
    BY ONLY <1>1, <1>2, <1>6, <1>7
  <2> HIDE DEF k, x, y, m
  <2>2. /\ de \in 0 .. y - x - 1 /\ de + 1 <= y - x
        /\ k \in Nat /\ k + 1 \in 1 .. m /\ k + 1 <= m
    BY ONLY <2>1
  <2>3. /\ x + de + 1 = k + 1 /\ k + 1 = x + (de + 1)
        /\ de + 1 \in Nat /\ de + 1 <= m
    BY ONLY <2>1
  <2> QED
    BY ONLY <2>2, <2>3 DEF x, y, m
<1>9. nid = e.nid /\ name = e.name /\ ft = e.ft
  <2>1. /\ nid = entries[b[j] + de + 1].nid
        /\ ft = entries[b[j] + de + 1].ft
        /\ name = entries[b[j] + de + 1].name
    BY ONLY <1>6, <1>8 DEF BlockIs, nid, ft, name
  <2> QED
    BY ONLY <1>8, <2>1
<1>10. e \in Entry
  BY ONLY <1>2, <1>8, EntriesFacts
<1>11. out' = Append(out, e)
  BY ONLY <1>1, <1>9, <1>10, EntryIs
<1> HIDE DEF e
<1>12. /\ out \in Seq(Entry) /\ out' \in Seq(Entry) /\ Len(out') = k + 1
       /\ \A i \in 1 .. k : out'[i] = out[i]
       /\ out'[k + 1] = e
  <2>1. out \in Seq(Entry)
    BY ONLY <1>2 DEF ReaderTypes
  <2> QED
    BY ONLY <1>10, <1>11, <2>1, AppendProperties
<1> HIDE DEF k
<1>13. ReaderTypes'
  BY ONLY <1>1, <1>2, <1>8, <1>12 DEF ReaderTypes
<1>14. AtBlock(j, n, b)'
  BY ONLY <1>1, <1>5, <1>6, <1>8, <1>12 DEF AtBlock
<1>15. Linked'
  BY ONLY <1>1, <1>5, <1>14, StaysLinked
<1>16. Typed' /\ Packed' /\ Written' /\ Turns'
  BY <1>1, <1>13, BuilderRests
<1>17. Collected'
  <2>1. \A i \in 1 .. k : out[i] = entries[i]
    BY ONLY <1>2 DEF Collected, k
  <2>2. \A i \in 1 .. k + 1 : i \in 1 .. k \/ i = k + 1
    BY ONLY <1>8
  <2>3. \A i \in 1 .. k + 1 : out'[i] = entries[i]
    BY ONLY <1>12, <2>1, <2>2 DEF e
  <2> QED
    BY ONLY <1>1, <1>8, <1>12, <2>3 DEF Collected
<1>18. Searched'
  <2>1. found = {} /\ Missed(k)
    BY ONLY <1>1, <1>2 DEF Searched, k
  <2>2. CASE e.name = target
    <3>1. phase' = "done" /\ found' = {e.nid}
      BY ONLY <1>1, <1>9, <2>2
    <3>3. Len(out') >= 1 /\ Len(out') - 1 = k
      BY ONLY <1>8, <1>12
    <3>4. entries'[Len(out')] = e /\ e.name = target'
      BY ONLY <1>1, <1>12, <2>2 DEF e
    <3>5. \A i \in 1 .. k : entries'[i].name # target'
      BY ONLY <1>1, <2>1 DEF Missed
    <3>6. \A i \in 1 .. Len(out') - 1 : entries'[i].name # target'
      BY ONLY <3>3, <3>5
    <3> QED
      BY ONLY <3>1, <3>3, <3>4, <3>6 DEF Searched, Missed
  <2>3. CASE e.name # target
    <3>1. phase' = "block" /\ found' = {}
      BY ONLY <1>1, <1>9, <2>1, <2>3
    <3>2. \A i \in 1 .. k + 1 : i \in 1 .. k \/ i = k + 1
      BY ONLY <1>8
    <3>3. \A i \in 1 .. k + 1 : entries'[i].name # target'
      BY ONLY <1>1, <2>1, <2>3, <3>2 DEF Missed, e
    <3>4. \A i \in 1 .. Len(out') : entries'[i].name # target'
      BY ONLY <1>12, <3>3
    <3> QED
      BY ONLY <3>1, <3>4 DEF Searched, Missed
  <2> QED
    BY ONLY <2>2, <2>3
<1> QED
  BY ONLY <1>15, <1>16, <1>17, <1>18 DEF IInv

(* No dirent that the builder wrote is out of bounds: a block is left when    *)
(* all of it is visited.                                                    *)
LEMMA LeaveBlockKeeps == IInv /\ LeaveBlock => IInv'
<1> SUFFICES ASSUME IInv, LeaveBlock
             PROVE  IInv'
  OBVIOUS
<1>1. /\ phase = "block" /\ (de < DirentCount => ~ InBounds(de))
      /\ pos' = pos + BlockSize /\ phase' = "walk"
      /\ UNCHANGED <<entries, bvars, target, de, out, found>>
  BY DEF LeaveBlock
<1>2. /\ ReaderTypes /\ Collected /\ Searched
  BY TypedFacts
<1>3. PICK n \in Nat : \E b \in [0 .. n -> Nat] : \E j \in 0 .. n :
        Chain(result, entries, n, b, blockStart) /\ AtBlock(j, n, b)
  BY ReaderAt
<1>4. PICK b \in [0 .. n -> Nat] : \E j \in 0 .. n :
        Chain(result, entries, n, b, blockStart) /\ AtBlock(j, n, b)
  BY <1>3
<1>5. PICK j \in 0 .. n :
        Chain(result, entries, n, b, blockStart) /\ AtBlock(j, n, b)
  BY <1>4
<1>6. /\ j < n /\ b[j] \in Nat /\ b[j + 1] \in Nat
      /\ Blocks(j + 1) = pos + BlockSize
      /\ de \in Nat /\ de <= b[j + 1] - b[j] /\ Len(out) = b[j] + de
      /\ BlockIs(b[j], b[j + 1])
  BY <1>1, <1>5, InBlock
<1>7. ~ (de < b[j + 1] - b[j])
  <2> SUFFICES ASSUME de < b[j + 1] - b[j]
               PROVE  FALSE
    OBVIOUS
  <2>1. de \in 0 .. b[j + 1] - b[j] - 1
    BY ONLY <1>6, de < b[j + 1] - b[j]
  <2>2. DirentCount = b[j + 1] - b[j] /\ InBounds(de)
    BY ONLY <1>6, <2>1 DEF BlockIs
  <2> QED
    BY ONLY <1>1, <2>2, de < b[j + 1] - b[j]
<1>8. Len(out) = b[j + 1] /\ j + 1 \in 0 .. n
  BY ONLY <1>6, <1>7, n \in Nat, j \in 0 .. n
<1>9. AtBlock(j + 1, n, b)'
  BY ONLY <1>1, <1>6, <1>8 DEF AtBlock
<1>10. Linked'
  BY ONLY <1>1, <1>5, <1>8, <1>9, StaysLinked
<1>11. ReaderTypes'
  <2>1. pos' \in Nat
    BY ONLY <1>1, <1>2, Sizes DEF ReaderTypes
  <2> QED
    BY ONLY <1>1, <1>2, <2>1 DEF ReaderTypes
<1>12. Typed' /\ Packed' /\ Written' /\ Turns'
  BY <1>1, <1>11, BuilderRests
<1>13. Collected' /\ Searched'
  BY ONLY <1>1, <1>2 DEF Collected, Searched, Missed
<1> QED
  BY ONLY <1>10, <1>12, <1>13 DEF IInv

LEMMA StutterKeeps == IInv /\ UNCHANGED vars => IInv'
<1> SUFFICES ASSUME IInv, UNCHANGED vars
             PROVE  IInv'
  OBVIOUS
<1>1. UNCHANGED <<entries, phase, bvars, rvars>>
  BY DEF vars
<1>2. Linked'
  BY <1>1, TypedFacts, SameBlocks DEF bvars, rvars
<1> QED
  BY <1>1, <1>2 DEF IInv, Typed, Given, BuilderTypes, ReaderTypes, Packed,
                    Written, Turns, Collected, Searched, Missed, bvars, rvars

(* The invariant holds in every state: each block written is one that the     *)
(* packing of the entries demands, and the reader has gone through a part of   *)
(* them.                                                                   *)
THEOREM Invariant == Spec => []IInv
<1>1. IInv /\ [Next]_vars => IInv'
  BY PackEntryKeeps, EndPackingKeeps, WriteDirentKeeps, AppendBlockKeeps,
     StartWalkKeeps, NextBlockKeeps, VisitEntryKeeps, LeaveBlockKeeps,
     StutterKeeps DEF Next
<1> QED
  BY <1>1, InitInv, PTL DEF Spec

-----------------------------------------------------------------------------
(* What the invariant says of a directory and its reader.                     *)

LEMMA ExactMultiple ==
  ASSUME NEW q \in Nat, NEW a \in Nat \ {0}
  PROVE  (q * a) % a = 0
BY SMT

LEMMA WholeBlocks ==
  ASSUME IInv
  PROVE  Len(result) % BlockSize = 0 /\ pos \in 0 .. Len(result)
<1>1. PICK n \in Nat : \E b \in [0 .. n -> Nat] : \E j \in 0 .. n :
        Chain(result, entries, n, b, blockStart) /\ AtBlock(j, n, b)
  BY ReaderAt
<1>2. PICK b \in [0 .. n -> Nat] : \E j \in 0 .. n :
        Chain(result, entries, n, b, blockStart) /\ AtBlock(j, n, b)
  BY <1>1
<1>3. PICK j \in 0 .. n :
        Chain(result, entries, n, b, blockStart) /\ AtBlock(j, n, b)
  BY <1>2
<1>4. /\ Len(entries) \in Nat /\ result \in Seq(Nat)
  BY TypedFacts DEF BuilderTypes
<1>5. Len(result) = n * BlockSize
  BY <1>3 DEF Chain, Blocks
<1>6. Len(result) % BlockSize = 0
  BY ONLY <1>5, ExactMultiple, Sizes, n \in Nat
<1>7. pos = Blocks(j)
  BY <1>3 DEF AtBlock
<1>8. Blocks(j) \in Nat /\ Blocks(j) <= Len(result)
  BY <1>3, <1>4, BlockBounds
<1>9. Len(result) \in Nat
  BY <1>4, LenProperties
<1> QED
  BY ONLY <1>6, <1>7, <1>8, <1>9

LEMMA Types == IInv => TypeOK
<1> SUFFICES ASSUME IInv
             PROVE  TypeOK
  OBVIOUS
<1>1. /\ Given /\ BuilderTypes /\ ReaderTypes /\ Packed /\ Collected /\ Searched
      /\ EntriesOK(entries) /\ Len(entries) \in Nat
      /\ idx \in Nat /\ blockStart \in Nat /\ blockStart <= idx
      /\ idx <= Len(entries) /\ idx - blockStart \in Nat /\ nameArea \in Nat
      /\ wr \in Nat
  BY TypedFacts
<1>2. phase \in {"pack", "write", "walk", "block", "done"}
  BY DEF IInv, Typed
<1>3. EntryIn(entries)
  BY ONLY <1>1, EntriesFacts DEF EntryIn
<1>4. EntryIn(out)
  <2>1. Len(out) <= Len(entries) /\ Len(out) \in Nat
        /\ \A i \in 1 .. Len(out) : out[i] = entries[i]
    BY <1>1, LenProperties DEF Collected, ReaderTypes
  <2>2. \A i \in 1 .. Len(out) : i \in 1 .. Len(entries)
    BY ONLY <1>1, <2>1
  <2> QED
    BY ONLY <1>3, <2>1, <2>2 DEF EntryIn
<1>5. nameArea \in 0 .. BlockSize - (idx - blockStart) * DirentSize
  <2> DEFINE d == Dirents(idx - blockStart)
  <2>1. d \in Nat
    BY ONLY <1>1, Area
  <2>2. d + nameArea <= BlockSize
    BY ONLY <1>1 DEF Packed
  <2> HIDE DEF d
  <2>3. nameArea \in 0 .. BlockSize - d
    BY ONLY <1>1, <2>1, <2>2, Sizes
  <2> QED
    BY ONLY <2>3 DEF d, Dirents
<1>6. /\ blockStart \in 0 .. Len(entries) /\ idx \in blockStart .. Len(entries)
      /\ nameOffset \in 0 .. BlockSize /\ wr \in 0 .. Len(entries)
      /\ de \in 0 .. Len(entries)
  BY ONLY <1>1, Sizes DEF BuilderTypes, ReaderTypes
<1>7. DOMAIN block = 1 .. BlockSize
  BY ONLY <1>1 DEF BuilderTypes, Cells
<1>8. target \in Targets \cup {NoName}
  BY ONLY <1>1 DEF Given
<1>9. found \subseteq { entries[i].nid : i \in 1 .. Len(entries) }
  <2>1. CASE found = {}
    BY ONLY <2>1
  <2>2. CASE Len(out) >= 1 /\ found = {entries[Len(out)].nid}
    <3>1. Len(out) \in 1 .. Len(entries)
      BY <1>1, <2>2, LenProperties DEF Collected, ReaderTypes
    <3> QED
      BY ONLY <2>2, <3>1
  <2> QED
    BY ONLY <1>1, <2>1, <2>2 DEF Searched
<1> QED
  BY ONLY <1>2, <1>3, <1>4, <1>5, <1>6, <1>7, <1>8, <1>9, WholeBlocks, IInv
  DEF TypeOK

(* The types of a directory and its reader: the names of a block never need   *)
(* more than its dirents leave, the data is whole blocks, and the reader      *)
(* stays in it.                                                            *)
THEOREM DirTypeCorrect == Spec => []TypeOK
BY Invariant, Types, PTL

BuilderSafe == phase # "panic"

(* serialize_directory neither fails its assertion count > 0 nor slices a     *)
(* block out of bounds, for every list of names that fit in a block.          *)
THEOREM BuilderNeverPanics == Spec => []BuilderSafe
<1>1. IInv => BuilderSafe
  BY DEF IInv, Typed, BuilderSafe
<1> QED
  BY <1>1, Invariant, PTL

LEMMA OutIsPrefix ==
  ASSUME NEW s \in Seq(Entry), NEW t \in Seq(Entry), Len(s) <= Len(t),
         \A i \in 1 .. Len(s) : s[i] = t[i]
  PROVE  IsPrefix(s, t)
<1> DEFINE n == Len(s)
           a == SubSeq(s, 1, n)
           b == SubSeq(t, 1, n)
<1>1. n \in Nat /\ Len(t) \in Nat /\ n <= Len(t) /\ n <= Len(s) /\ Len(s) \in Nat
  BY LenProperties
<1> HIDE DEF n
<1>2. /\ 1 \in Int /\ n \in Int
      /\ \A i \in 1 .. n : i \in 1 .. Len(s) /\ i \in 1 .. Len(t)
      /\ \A i \in 1 .. n : 1 + i - 1 = i
      /\ (IF 1 <= n THEN n - 1 + 1 ELSE 0) = n
  BY ONLY <1>1
<1>3. \A i \in 1 .. n : s[i] \in Entry /\ t[i] \in Entry
  BY <1>2, ElementOfSeq
<1>4. a \in Seq(Entry) /\ Len(a) = n /\ \A i \in 1 .. n : a[i] = s[i]
  BY <1>2, <1>3, SubSeqProperties
<1>5. b \in Seq(Entry) /\ Len(b) = n /\ \A i \in 1 .. n : b[i] = t[i]
  BY <1>2, <1>3, SubSeqProperties
<1> HIDE DEF a, b
<1>6. \A i \in 1 .. n : a[i] = b[i]
  BY <1>2, <1>4, <1>5 DEF n
<1>7. a = b
  BY ONLY <1>4, <1>5, <1>6, SeqEqual
<1> QED
  BY <1>7 DEF IsPrefix, a, b, n

(* A listing gives every entry of serialize_directory once, in its order: at  *)
(* every step a prefix of them, at the end all.                              *)
THEOREM ListingsAreExact == Spec => []ListingExact
<1>1. ASSUME IInv, target = NoName
      PROVE  IsPrefix(out, entries) /\ (phase = "done" => out = entries)
  <2>1. /\ Collected /\ Searched /\ ReaderTypes /\ EntriesOK(entries)
    BY <1>1, TypedFacts
  <2>2. /\ out \in Seq(Entry) /\ entries \in Seq(Entry)
        /\ Len(out) <= Len(entries) /\ \A i \in 1 .. Len(out) : out[i] = entries[i]
    BY <2>1 DEF ReaderTypes, EntriesOK, Collected
  <2>3. IsPrefix(out, entries)
    BY ONLY <2>2, OutIsPrefix
  <2>4. ASSUME Len(out) >= 1, entries[Len(out)].name = target
        PROVE  FALSE
    <3>1. Len(out) \in Nat /\ Len(entries) \in Nat
      BY ONLY <2>2, LenProperties
    <3>2. Len(out) \in 1 .. Len(entries)
      BY ONLY <2>2, <2>4, <3>1
    <3>3. entries[Len(out)].name \in Seq(Nat)
      BY ONLY <2>1, <3>2, EntriesFacts
    <3> QED
      BY <1>1, <2>4, <3>3, DirAssumption
  <2>5. ASSUME phase = "done"
        PROVE  out = entries
    <3>1. Len(out) = Len(entries)
      BY ONLY <2>1, <2>4, <2>5 DEF Searched
    <3> QED
      BY ONLY <2>2, <3>1, SeqEqual
  <2> QED
    BY <2>3, <2>5
<1>2. IInv => ListingExact
  BY <1>1 DEF ListingExact
<1> QED
  BY <1>2, Invariant, PTL

(* A lookup that ends has the NID of the first entry of its name, or none when *)
(* no entry has it.                                                         *)
FirstOfName ==
  { n \in 1 .. Len(entries) :
      entries[n].name = target /\ \A m \in 1 .. n - 1 : entries[m].name # target }

LookupFirst == phase = "done" => found = { entries[i].nid : i \in FirstOfName }

LEMMA FoundIsFirst == IInv => LookupFirst
<1> SUFFICES ASSUME IInv, phase = "done"
             PROVE  found = { entries[i].nid : i \in FirstOfName }
  BY DEF LookupFirst
<1> DEFINE k == Len(out)
<1>1. /\ Collected /\ Searched /\ ReaderTypes /\ Len(entries) \in Nat
  BY TypedFacts
<1>2. k \in Nat /\ k <= Len(entries)
  BY <1>1, LenProperties DEF Collected, ReaderTypes
<1>3. CASE found = {} /\ Missed(Len(entries))
  <2>1. FirstOfName = {}
    BY ONLY <1>3 DEF FirstOfName, Missed
  <2> QED
    BY ONLY <1>3, <2>1
<1>4. CASE k >= 1 /\ found = {entries[k].nid} /\ entries[k].name = target
           /\ Missed(k - 1)
  <2> HIDE DEF k
  <2>1. k \in FirstOfName
    BY ONLY <1>1, <1>2, <1>4 DEF FirstOfName, Missed
  <2>2. ASSUME NEW n \in FirstOfName
        PROVE  n = k
    <3>1. n \in 1 .. Len(entries) /\ entries[n].name = target
          /\ \A m \in 1 .. n - 1 : entries[m].name # target
      BY ONLY <2>2 DEF FirstOfName
    <3>2. ~ (n < k)
      <4>1. n < k => n \in 1 .. k - 1
        BY ONLY <1>2, <3>1
      <4> QED
        BY ONLY <1>4, <3>1, <4>1 DEF Missed
    <3>3. ~ (k < n)
      <4>1. k < n => k \in 1 .. n - 1
        BY ONLY <1>1, <1>2, <1>4, <3>1
      <4> QED
        BY ONLY <1>4, <3>1, <4>1
    <3> QED
      BY ONLY <1>1, <1>2, <3>1, <3>2, <3>3
  <2> QED
    BY ONLY <1>4, <2>1, <2>2
<1> QED
  BY ONLY <1>1, <1>3, <1>4, phase = "done" DEF Searched, k

(* A lookup has the first entry of the name that is asked for, whatever the    *)
(* order of the names and however they repeat.                              *)
THEOREM LookupsFindTheFirst == Spec => []LookupFirst
BY Invariant, FoundIsFirst, PTL

(* Names that differ in the source stay different in the entries:            *)
(* to_string_lossy may make two that are not UTF-8 equal, "." and ".." are    *)
(* never names of a source entry.                                           *)
DistinctNames ==
  \A l \in ChildLists : \A i, j \in 1 .. Len(DotEntries \o l) :
    (DotEntries \o l)[i].name = (DotEntries \o l)[j].name => i = j

(* Where the names of every directory differ, a lookup has the NID of the     *)
(* entry of its name, or nothing: it never takes one name for another.         *)
THEOREM LookupsAreExact ==
  ASSUME DistinctNames
  PROVE  Spec => []LookupExact
<1>1. ASSUME IInv
      PROVE  FirstOfName = { n \in 1 .. Len(entries) : entries[n].name = target }
  <2>1. /\ Len(entries) \in Nat /\ \E l \in ChildLists : entries = DotEntries \o l
    BY <1>1, TypedFacts DEF Given
  <2>2. \A i, j \in 1 .. Len(entries) : entries[i].name = entries[j].name => i = j
    BY ONLY <2>1, DistinctNames DEF DistinctNames
  <2>3. ASSUME NEW n \in 1 .. Len(entries), entries[n].name = target,
               NEW m \in 1 .. n - 1
        PROVE  entries[m].name # target
    <3>1. m \in 1 .. Len(entries) /\ m # n
      BY ONLY <2>1, <2>3
    <3> QED
      BY ONLY <2>2, <2>3, <3>1
  <2> QED
    BY ONLY <2>3 DEF FirstOfName
<1>2. IInv => LookupExact
  BY <1>1, FoundIsFirst DEF LookupFirst, LookupExact
<1> QED
  BY <1>2, Invariant, PTL

=============================================================================

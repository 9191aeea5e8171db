-------------------------- MODULE TreeBuildProofs --------------------------
(***************************************************************************)
(* Theorems about TreeBuild.                                               *)
(*                                                                         *)
(* For every source and every way in which other programs change it while it  *)
(* is read: the inode list that a finished build leaves is a tree apart from   *)
(* hard links, and ".." leads to the directory that holds the entry.  Nothing  *)
(* that a system call returns matters to that: the argument (IInv) is about    *)
(* the calls that are active and the entries that they have made so far.      *)
(*                                                                         *)
(* For a source that nobody changes: the list is the source, and the builder   *)
(* a walk of it.  The argument (CopyInv, the second part) is about what is     *)
(* read: where a call stands among the names of its directory, and which       *)
(* files are known to have an inode.                                        *)
(***************************************************************************)
EXTENDS TreeBuild, SequenceTheorems, FiniteSetTheorems, WellFoundedInduction,
        TLAPS

(* A sequence, of whatever elements.                                         *)
IsSeq(s) == s \in Seq({s[i] : i \in 1 .. Len(s)})

IsFrame(fr) ==
  /\ fr = [idx |-> fr.idx, path |-> fr.path, todo |-> fr.todo,
           children |-> fr.children, meta |-> fr.meta]
  /\ IsSeq(fr.children)
  /\ fr.meta = NoMeta \/ fr.meta.id \in FileIds

IsInode(r) ==
  /\ r = [src |-> r.src, kind |-> r.kind, children |-> r.children,
          parent |-> r.parent, xattrs |-> r.xattrs]
  /\ r.src \in FileIds /\ r.kind \in Kinds
  /\ IsSeq(r.children)

(* The indexes that a list of entries leads to are those of n inodes.         *)
LeadsWithin(s, n) == \A c \in 1 .. Len(s) : s[c].idx \in 1 .. n

InodesTyped ==
  /\ IsSeq(inodes)
  /\ \A i \in 1 .. Len(inodes) :
       /\ IsInode(inodes[i])
       /\ inodes[i].parent \in 1 .. Len(inodes)
       /\ LeadsWithin(inodes[i].children, Len(inodes))

(* The active calls stk, in a list of len inodes                              *)
CallsTyped(stk, len) ==
  /\ IsSeq(stk)
  /\ \A n \in 1 .. Len(stk) :
       /\ IsFrame(stk[n])
       /\ stk[n].idx \in 1 .. len
       /\ LeadsWithin(stk[n].children, len)

StackTyped == CallsTyped(stack, Len(inodes))

LinksTyped ==
  /\ DOMAIN links \subseteq FileIds
  /\ \A f \in DOMAIN links : links[f] \in Nat \ {0}

MetaTyped ==
  /\ meta = NoMeta \/ (meta.id \in FileIds /\ meta.kind \in Kinds)
  /\ phase \in {"content", "attrs"} => meta # NoMeta

WorldTyped ==
  /\ source \in Sources /\ argument \in {"dir", "link", "file"}
  /\ changes \in 0 .. MaxChanges /\ errors \in 0 .. MaxErrors
  /\ phase \in {"check", "visit", "content", "attrs", "readdir", "loop",
                "wire", "done", "failed"}

Typed == WorldTyped /\ MetaTyped /\ InodesTyped /\ StackTyped /\ LinksTyped

-----------------------------------------------------------------------------
(* The calls that are active form a path from the root downwards.             *)
IsNested(stk) ==
  /\ \A n, k \in 1 .. Len(stk) : n < k => stk[n].idx < stk[k].idx
  /\ Len(stk) >= 1 => stk[1].idx = 1

Nested == IsNested(stack)

InStep ==
  /\ phase = "check" => Len(stack) = 0
  /\ phase \in {"check", "visit", "content", "attrs"} /\ Len(stack) = 0 =>
       Len(inodes) = 0
  /\ phase = "readdir" =>
       /\ Len(inodes) >= 1
       /\ Len(stack) = 0 => Len(inodes) = 1
       /\ \A n \in 1 .. Len(stack) : stack[n].idx < Len(inodes)
  /\ phase = "loop" => Len(stack) >= 1
  /\ phase \in {"wire", "done"} => Len(stack) = 0 /\ Len(inodes) >= 1

(* The directories that are not complete: those of the active calls and the   *)
(* one that is about to be read.                                            *)
IsOpen(i) ==
  \/ \E n \in 1 .. Len(stack) : stack[n].idx = i
  \/ phase = "readdir" /\ i = Len(inodes)

Closed == {i \in 1 .. Len(inodes) : ~ IsOpen(i)}

(* The entries of directory d, also those its call has not stored yet.        *)
Among(s, e) == \E c \in 1 .. Len(s) : s[c] = e
OnCalls(stk, d, e) ==
  \E n \in 1 .. Len(stk) : stk[n].idx = d /\ Among(stk[n].children, e)
Has(d, e) == Among(inodes[d].children, e) \/ OnCalls(stack, d, e)

OpenAreEmpty ==
  \A d \in 1 .. Len(inodes) : IsOpen(d) => Len(inodes[d].children) = 0

(* Entries lead to what is complete, and not to the root.                     *)
EntriesLead ==
  \A d \in 1 .. Len(inodes) : \A e : Has(d, e) => e.idx \in Closed /\ e.idx # 1

(* An inode is in one directory as a directory.                               *)
OneParent ==
  \A d, b \in 1 .. Len(inodes) : \A e, g :
    Has(d, e) /\ Has(b, g) /\ e.type = "dir" /\ g.type = "dir" /\ e.idx = g.idx
      => d = b

(* What is complete has an entry.                                            *)
Reached ==
  \A i \in Closed \ {1} : \E d \in 1 .. Len(inodes) : \E e :
    Has(d, e) /\ e.idx = i

(* A set of complete inodes has one that no entry of the set leads to: the    *)
(* one completed last.                                                      *)
NoCycle ==
  \A S \in SUBSET Closed : S # {} =>
    \E i \in S : \A d \in S : \A e : Has(d, e) => e.idx # i

LinksLead == \A f \in DOMAIN links : links[f] \in Closed /\ links[f] # 1

Tree == /\ OpenAreEmpty /\ EntriesLead /\ OneParent /\ Reached /\ NoCycle
        /\ LinksLead

(* Until set_parent_nids, ".." of every inode is the root.                    *)
Unwired == phase # "done" => \A i \in 1 .. Len(inodes) : inodes[i].parent = 1

IInv ==
  /\ Typed
  /\ phase # "failed" => Nested /\ InStep /\ Tree /\ Unwired
  /\ ParentHoldsChild

-----------------------------------------------------------------------------
(* Sequences of whatever elements.                                         *)

LEMMA SeqFacts ==
  ASSUME NEW s, IsSeq(s)
  PROVE  Len(s) \in Nat /\ DOMAIN s = 1 .. Len(s)
BY LenProperties DEF IsSeq

LEMMA NoElements == IsSeq(<< >>) /\ Len(<< >>) = 0
BY EmptySeq DEF IsSeq

(* A function on 1 .. n is a sequence.                                       *)
LEMMA FunctionIs ==
  ASSUME NEW n \in Nat, NEW s, s = [i \in 1 .. n |-> s[i]]
  PROVE  IsSeq(s) /\ Len(s) = n
<1> DEFINE S == {s[i] : i \in 1 .. n}
<1>1. s \in [1 .. n -> S]
  OBVIOUS
<1> HIDE DEF S
<1>2. s \in Seq(S) /\ Len(s) = n
  BY <1>1
<1> QED
  BY <1>2 DEF IsSeq, S

LEMMA AppendIs ==
  ASSUME NEW s, IsSeq(s), NEW x
  PROVE  /\ IsSeq(Append(s, x)) /\ Len(Append(s, x)) = Len(s) + 1
         /\ \A i \in 1 .. Len(s) : Append(s, x)[i] = s[i]
         /\ Append(s, x)[Len(s) + 1] = x
<1> DEFINE S == {s[i] : i \in 1 .. Len(s)} \cup {x}
           t == Append(s, x)
<1>1. s \in Seq({s[i] : i \in 1 .. Len(s)}) /\ Len(s) \in Nat
  BY SeqFacts DEF IsSeq
<1>2. s \in [1 .. Len(s) -> S]
  <2>1. s \in [1 .. Len(s) -> {s[i] : i \in 1 .. Len(s)}]
    BY ONLY <1>1, LenProperties
  <2> QED
    BY <2>1
<1>3. s \in Seq(S) /\ x \in S
  BY <1>1, <1>2
<1> HIDE DEF S
<1>4. /\ t \in Seq(S) /\ Len(t) = Len(s) + 1
      /\ \A i \in 1 .. Len(s) : t[i] = s[i]
      /\ t[Len(s) + 1] = x
  BY ONLY <1>3, AppendProperties
<1>5. Len(t) \in Nat /\ t = [i \in 1 .. Len(t) |-> t[i]]
  BY ONLY <1>4, LenProperties
<1>6. IsSeq(t)
  BY ONLY <1>5, FunctionIs
<1> QED
  BY ONLY <1>4, <1>6 DEF t

LEMMA ExceptIs ==
  ASSUME NEW s, IsSeq(s), NEW k \in 1 .. Len(s), NEW x
  PROVE  /\ IsSeq([s EXCEPT ![k] = x]) /\ Len([s EXCEPT ![k] = x]) = Len(s)
         /\ [s EXCEPT ![k] = x][k] = x
         /\ \A i \in 1 .. Len(s) : i # k => [s EXCEPT ![k] = x][i] = s[i]
<1> DEFINE t == [s EXCEPT ![k] = x]
<1>1. Len(s) \in Nat /\ DOMAIN s = 1 .. Len(s)
  BY SeqFacts
<1>2. /\ t = [i \in 1 .. Len(s) |-> IF i = k THEN x ELSE s[i]]
  BY ONLY <1>1
<1>3. /\ t = [i \in 1 .. Len(s) |-> t[i]] /\ t[k] = x
      /\ \A i \in 1 .. Len(s) : i # k => t[i] = s[i]
  BY ONLY <1>2, k \in 1 .. Len(s)
<1> HIDE DEF t
<1>4. IsSeq(t) /\ Len(t) = Len(s)
  BY ONLY <1>1, <1>3, FunctionIs
<1> QED
  BY ONLY <1>3, <1>4 DEF t

LEMMA FrontIs ==
  ASSUME NEW s, IsSeq(s), Len(s) >= 1
  PROVE  /\ IsSeq(Front(s)) /\ Len(Front(s)) = Len(s) - 1
         /\ \A i \in 1 .. Len(s) - 1 : Front(s)[i] = s[i]
<1> DEFINE n == Len(s) - 1
           S == {s[i] : i \in 1 .. Len(s)}
           t == SubSeq(s, 1, n)
<1>1. /\ s \in Seq(S) /\ Len(s) \in Nat /\ n \in Nat /\ n <= Len(s)
      /\ n + 1 = Len(s) /\ (Len(s) - 1) = n
  BY SeqFacts DEF IsSeq
<1>2. \A i \in 1 .. n : s[i] \in S
  BY <1>1
<1> HIDE DEF n, S
<1>3. /\ 1 \in Int /\ n \in Int /\ (IF 1 <= n THEN n - 1 + 1 ELSE 0) = n
      /\ \A i \in 1 .. n : 1 + i - 1 = i
  BY ONLY <1>1
<1>4. /\ t \in Seq(S) /\ Len(t) = n /\ \A i \in 1 .. n : t[i] = s[1 + i - 1]
  BY ONLY <1>1, <1>2, <1>3, SubSeqProperties
<1>5. t \in [1 .. n -> S]
  BY ONLY <1>4, LenProperties
<1> HIDE DEF t
<1>6. t = [i \in 1 .. n |-> t[i]]
  BY ONLY <1>5
<1>7. IsSeq(t)
  BY ONLY <1>1, <1>6, FunctionIs
<1>8. Front(s) = t
  BY ONLY <1>1 DEF Front, t
<1> QED
  BY ONLY <1>1, <1>3, <1>4, <1>7, <1>8

-----------------------------------------------------------------------------
(* The records.                                                            *)

LEMMA FrameWithMeta ==
  ASSUME NEW fr, IsFrame(fr), NEW m, m = NoMeta \/ m.id \in FileIds
  PROVE  /\ IsFrame([fr EXCEPT !.meta = m])
         /\ [fr EXCEPT !.meta = m].idx = fr.idx
         /\ [fr EXCEPT !.meta = m].children = fr.children
         /\ [fr EXCEPT !.meta = m].path = fr.path
         /\ [fr EXCEPT !.meta = m].todo = fr.todo
         /\ [fr EXCEPT !.meta = m].meta = m
<1> DEFINE new == [fr EXCEPT !.meta = m]
<1>1. new = [idx |-> fr.idx, path |-> fr.path, todo |-> fr.todo,
             children |-> fr.children, meta |-> m]
  BY DEF IsFrame
<1> HIDE DEF new
<1>2. new.idx = fr.idx /\ new.path = fr.path /\ new.todo = fr.todo
      /\ new.children = fr.children /\ new.meta = m
  BY ONLY <1>1
<1>3. IsFrame(new)
  BY <1>1, <1>2 DEF IsFrame
<1> QED
  BY ONLY <1>2, <1>3 DEF new

LEMMA FrameWithEntry ==
  ASSUME NEW fr, IsFrame(fr), NEW idx, NEW m
  PROVE  /\ IsFrame(AddEntry(fr, idx, m))
         /\ AddEntry(fr, idx, m).idx = fr.idx
         /\ AddEntry(fr, idx, m).children
              = Append(fr.children, Entry(Head(fr.todo), m, idx))
         /\ AddEntry(fr, idx, m).path = fr.path
         /\ AddEntry(fr, idx, m).todo = Tail(fr.todo)
         /\ AddEntry(fr, idx, m).meta = fr.meta
<1> DEFINE new == AddEntry(fr, idx, m)
           e == Entry(Head(fr.todo), m, idx)
<1> HIDE DEF e
<1>1. new = [fr EXCEPT !.children = Append(@, e), !.todo = Tail(@)]
  BY ONLY Zenon DEF AddEntry, e
<1>2. new = [idx |-> fr.idx, path |-> fr.path, todo |-> Tail(fr.todo),
             children |-> Append(fr.children, e), meta |-> fr.meta]
  BY ONLY <1>1, IsFrame(fr) DEF IsFrame
<1> HIDE DEF new
<1>3. /\ new.idx = fr.idx /\ new.path = fr.path /\ new.todo = Tail(fr.todo)
      /\ new.children = Append(fr.children, e) /\ new.meta = fr.meta
  BY ONLY <1>2
<1>4. IsSeq(new.children)
  BY ONLY <1>3, AppendIs, IsFrame(fr) DEF IsFrame
<1>5. new = [idx |-> new.idx, path |-> new.path, todo |-> new.todo,
             children |-> new.children, meta |-> new.meta]
  BY ONLY <1>2, <1>3
<1>6. new.meta = NoMeta \/ new.meta.id \in FileIds
  BY ONLY <1>3, IsFrame(fr) DEF IsFrame
<1>7. IsFrame(new)
  BY ONLY <1>4, <1>5, <1>6 DEF IsFrame
<1> QED
  BY ONLY <1>3, <1>7 DEF new, e

LEMMA InodeWithChildren ==
  ASSUME NEW r, IsInode(r), NEW s, IsSeq(s)
  PROVE  /\ IsInode([r EXCEPT !.children = s])
         /\ [r EXCEPT !.children = s].children = s
         /\ [r EXCEPT !.children = s].parent = r.parent
         /\ [r EXCEPT !.children = s].kind = r.kind
         /\ [r EXCEPT !.children = s].src = r.src
         /\ [r EXCEPT !.children = s].xattrs = r.xattrs
<1> DEFINE new == [r EXCEPT !.children = s]
<1>1. new = [src |-> r.src, kind |-> r.kind, children |-> s,
             parent |-> r.parent, xattrs |-> r.xattrs]
  BY DEF IsInode
<1> HIDE DEF new
<1>2. /\ new.src = r.src /\ new.kind = r.kind /\ new.children = s
      /\ new.parent = r.parent /\ new.xattrs = r.xattrs
  BY ONLY <1>1
<1>3. IsInode(new)
  BY <1>1, <1>2 DEF IsInode
<1> QED
  BY ONLY <1>2, <1>3 DEF new

LEMMA InodeWithParent ==
  ASSUME NEW r, IsInode(r), NEW d
  PROVE  /\ IsInode([r EXCEPT !.parent = d])
         /\ [r EXCEPT !.parent = d].children = r.children
         /\ [r EXCEPT !.parent = d].parent = d
         /\ [r EXCEPT !.parent = d].kind = r.kind
         /\ [r EXCEPT !.parent = d].src = r.src
         /\ [r EXCEPT !.parent = d].xattrs = r.xattrs
<1> DEFINE new == [r EXCEPT !.parent = d]
<1>1. new = [src |-> r.src, kind |-> r.kind, children |-> r.children,
             parent |-> d, xattrs |-> r.xattrs]
  BY DEF IsInode
<1> HIDE DEF new
<1>2. /\ new.src = r.src /\ new.kind = r.kind /\ new.children = r.children
      /\ new.parent = d /\ new.xattrs = r.xattrs
  BY ONLY <1>1
<1>3. IsInode(new)
  BY <1>1, <1>2 DEF IsInode
<1> QED
  BY ONLY <1>2, <1>3 DEF new

-----------------------------------------------------------------------------
(* What the steps do to the active calls.                                    *)

LEMMA AmongAppended ==
  ASSUME NEW s, IsSeq(s), NEW x, NEW e
  PROVE  Among(Append(s, x), e) <=> Among(s, e) \/ e = x
<1> DEFINE t == Append(s, x)
           n == Len(s)
<1>1. /\ Len(t) = n + 1 /\ \A i \in 1 .. n : t[i] = s[i]
      /\ t[n + 1] = x /\ n \in Nat
  BY AppendIs, SeqFacts
<1> HIDE DEF t
<1>2. Among(t, e) <=> \E c \in 1 .. n + 1 : t[c] = e
  BY ONLY <1>1 DEF Among
<1>3. Among(s, e) <=> \E c \in 1 .. n : t[c] = e
  BY ONLY <1>1 DEF Among
<1> HIDE DEF n
<1>4. \A c \in 1 .. n + 1 : c \in 1 .. n \/ c = n + 1
  BY ONLY <1>1
<1>5. \A c \in 1 .. n : c \in 1 .. n + 1
  BY ONLY <1>1
<1>6. n + 1 \in 1 .. n + 1
  BY ONLY <1>1
<1> QED
  BY ONLY <1>1, <1>2, <1>3, <1>4, <1>5, <1>6 DEF t

LEMMA AmongNone ==
  ASSUME NEW s, Len(s) = 0, NEW e
  PROVE  ~ Among(s, e)
BY DEF Among

LEMMA LeadsAppended ==
  ASSUME NEW s, IsSeq(s), NEW len \in Nat, LeadsWithin(s, len),
         NEW x, x.idx \in 1 .. len
  PROVE  LeadsWithin(Append(s, x), len)
<1> DEFINE t == Append(s, x)
           n == Len(s)
<1>1. /\ Len(t) = n + 1 /\ \A i \in 1 .. n : t[i] = s[i]
      /\ t[n + 1] = x /\ n \in Nat
  BY AppendIs, SeqFacts
<1>2. \A c \in 1 .. n : s[c].idx \in 1 .. len
  BY DEF LeadsWithin
<1> HIDE DEF t, n
<1>3. \A c \in 1 .. n + 1 : c \in 1 .. n \/ c = n + 1
  BY ONLY <1>1
<1>4. \A c \in 1 .. n + 1 : t[c].idx \in 1 .. len
  BY ONLY <1>1, <1>2, <1>3, x.idx \in 1 .. len
<1> QED
  BY ONLY <1>1, <1>4 DEF LeadsWithin, t

LEMMA LeadsFurther ==
  ASSUME NEW s, NEW n \in Nat, NEW k \in Nat, n <= k, LeadsWithin(s, n)
  PROVE  LeadsWithin(s, k)
BY DEF LeadsWithin

LEMMA CallsFurther ==
  ASSUME NEW stk, NEW n \in Nat, NEW k \in Nat, n <= k, CallsTyped(stk, n)
  PROVE  CallsTyped(stk, k)
<1>1. ASSUME NEW i \in 1 .. Len(stk)
      PROVE  stk[i].idx \in 1 .. k /\ LeadsWithin(stk[i].children, k)
  <2>1. stk[i].idx \in 1 .. n /\ LeadsWithin(stk[i].children, n)
    BY DEF CallsTyped
  <2> QED
    BY <2>1, LeadsFurther
<1> QED
  BY <1>1 DEF CallsTyped

(* The index of a child is added to the last of the calls.                    *)
EntryAdded(new, stk, idx, e) ==
  /\ Len(new) = Len(stk)
  /\ \A n \in 1 .. Len(stk) : new[n].idx = stk[n].idx
  /\ \A d, g : OnCalls(new, d, g) <=>
                 OnCalls(stk, d, g) \/ (d = stk[Len(stk)].idx /\ g = e)

LEMMA AddsEntry ==
  ASSUME NEW stk, NEW len \in Nat, CallsTyped(stk, len), Len(stk) >= 1,
         NEW idx \in 1 .. len, NEW m
  PROVE  LET new == [stk EXCEPT ![Len(stk)] = AddEntry(@, idx, m)]
             e   == Entry(Head(stk[Len(stk)].todo), m, idx)
         IN CallsTyped(new, len) /\ EntryAdded(new, stk, idx, e)
<1> DEFINE k == Len(stk)
           top == stk[k]
           x == AddEntry(top, idx, m)
           e == Entry(Head(top.todo), m, idx)
           new == [stk EXCEPT ![k] = x]
<1>1. /\ IsSeq(stk) /\ k \in Nat /\ k \in 1 .. k
      /\ \A n \in 1 .. k : /\ IsFrame(stk[n]) /\ stk[n].idx \in 1 .. len
                           /\ LeadsWithin(stk[n].children, len)
  BY SeqFacts DEF CallsTyped
<1>2. /\ IsFrame(x) /\ x.idx = top.idx
      /\ x.children = Append(top.children, e)
  <2>1. IsFrame(top)
    BY ONLY <1>1
  <2> HIDE DEF top
  <2> QED
    BY ONLY <2>1, FrameWithEntry
<1>3. e.idx = idx
  BY ONLY Entry(Head(top.todo), m, idx)
            = [name |-> Lossy[Head(top.todo)], type |-> m.kind, idx |-> idx]
  DEF Entry
<1>4. IsSeq(top.children)
  BY ONLY <1>1 DEF IsFrame
<1>5. LeadsWithin(x.children, len)
  BY ONLY <1>1, <1>2, <1>3, <1>4, LeadsAppended, len \in Nat, idx \in 1 .. len
<1>6. \A g : Among(x.children, g) <=> Among(top.children, g) \/ g = e
  BY ONLY <1>2, <1>4, AmongAppended
<1> HIDE DEF x, e
<1>7. /\ IsSeq(new) /\ Len(new) = k /\ new[k] = x
      /\ \A i \in 1 .. k : i # k => new[i] = stk[i]
  <2>1. IsSeq(stk) /\ Len(stk) \in 1 .. Len(stk)
    BY ONLY <1>1
  <2> QED
    BY ONLY <2>1, ExceptIs
<1> HIDE DEF new, k
<1>8. CallsTyped(new, len)
  <2>1. ASSUME NEW n \in 1 .. k
        PROVE  /\ IsFrame(new[n]) /\ new[n].idx \in 1 .. len
               /\ LeadsWithin(new[n].children, len)
    BY ONLY <1>1, <1>2, <1>5, <1>7
  <2> QED
    BY ONLY <1>7, <2>1 DEF CallsTyped
<1>9. \A n \in 1 .. k : new[n].idx = stk[n].idx
  BY ONLY <1>2, <1>7
<1>10. ASSUME NEW d, NEW g
       PROVE  OnCalls(new, d, g) <=> OnCalls(stk, d, g) \/ (d = top.idx /\ g = e)
  <2>1. ASSUME NEW n \in 1 .. k
        PROVE  (new[n].idx = d /\ Among(new[n].children, g))
                 <=> \/ stk[n].idx = d /\ Among(stk[n].children, g)
                     \/ n = k /\ d = top.idx /\ g = e
    <3>1. CASE n = k
      BY ONLY <1>2, <1>6, <1>7, <3>1
    <3>2. CASE n # k
      BY ONLY <1>7, <3>2
    <3> QED
      BY ONLY <3>1, <3>2
  <2> QED
    BY ONLY <1>1, <1>7, <2>1 DEF OnCalls, k
<1>11. EntryAdded(new, stk, idx, e)
  BY ONLY <1>7, <1>9, <1>10 DEF EntryAdded, k
<1>12. new = [stk EXCEPT ![Len(stk)] = AddEntry(@, idx, m)]
  BY ONLY Zenon DEF new, x, k
<1> QED
  BY ONLY <1>8, <1>11, <1>12 DEF e, k

(* The loop's lstat of a child is kept in its frame.                          *)
SameEntries(new, stk) ==
  /\ Len(new) = Len(stk)
  /\ \A n \in 1 .. Len(stk) : new[n].idx = stk[n].idx
  /\ \A d, g : OnCalls(new, d, g) <=> OnCalls(stk, d, g)

LEMMA KeepsMeta ==
  ASSUME NEW stk, NEW len, CallsTyped(stk, len), Len(stk) >= 1,
         NEW m, m = NoMeta \/ m.id \in FileIds
  PROVE  LET new == [stk EXCEPT ![Len(stk)].meta = m]
         IN CallsTyped(new, len) /\ SameEntries(new, stk)
<1> DEFINE k == Len(stk)
           x == [stk[k] EXCEPT !.meta = m]
           new == [stk EXCEPT ![k] = x]
<1>1. /\ IsSeq(stk) /\ k \in Nat /\ k \in 1 .. k /\ Len(stk) \in 1 .. Len(stk)
      /\ \A n \in 1 .. k : /\ IsFrame(stk[n]) /\ stk[n].idx \in 1 .. len
                           /\ LeadsWithin(stk[n].children, len)
  BY SeqFacts DEF CallsTyped
<1>2. IsFrame(x) /\ x.idx = stk[k].idx /\ x.children = stk[k].children
  BY ONLY <1>1, FrameWithMeta, m = NoMeta \/ m.id \in FileIds
<1> HIDE DEF x
<1>3. /\ IsSeq(new) /\ Len(new) = k /\ new[k] = x
      /\ \A i \in 1 .. k : i # k => new[i] = stk[i]
  <2>1. IsSeq(stk) /\ Len(stk) \in 1 .. Len(stk)
    BY ONLY <1>1
  <2> QED
    BY ONLY <2>1, ExceptIs
<1> HIDE DEF new, k
<1>4. \A n \in 1 .. k : /\ new[n].idx = stk[n].idx
                        /\ new[n].children = stk[n].children
                        /\ IsFrame(new[n])
  BY ONLY <1>1, <1>2, <1>3
<1>5. CallsTyped(new, len)
  BY ONLY <1>1, <1>3, <1>4 DEF CallsTyped
<1>6. SameEntries(new, stk)
  BY ONLY <1>3, <1>4 DEF SameEntries, OnCalls, k
<1>7. new = [stk EXCEPT ![Len(stk)].meta = m]
  BY ONLY DEF new, x, k
<1> QED
  BY ONLY <1>5, <1>6, <1>7

(* A call starts, with no entry yet.                                         *)
LEMMA StartsCall ==
  ASSUME NEW stk, NEW len \in Nat, CallsTyped(stk, len),
         NEW fr, IsFrame(fr), fr.idx \in 1 .. len, Len(fr.children) = 0
  PROVE  LET new == Append(stk, fr)
         IN /\ CallsTyped(new, len) /\ Len(new) = Len(stk) + 1
            /\ \A n \in 1 .. Len(stk) : new[n].idx = stk[n].idx
            /\ new[Len(stk) + 1].idx = fr.idx
            /\ \A d, g : OnCalls(new, d, g) <=> OnCalls(stk, d, g)
<1> DEFINE k == Len(stk)
           new == Append(stk, fr)
<1>1. /\ IsSeq(stk) /\ k \in Nat
      /\ \A n \in 1 .. k : /\ IsFrame(stk[n]) /\ stk[n].idx \in 1 .. len
                           /\ LeadsWithin(stk[n].children, len)
  BY SeqFacts DEF CallsTyped
<1>2. /\ IsSeq(new) /\ Len(new) = k + 1 /\ \A i \in 1 .. k : new[i] = stk[i]
      /\ new[k + 1] = fr
  BY ONLY <1>1, AppendIs
<1>3. LeadsWithin(fr.children, len) /\ \A g : ~ Among(fr.children, g)
  BY AmongNone DEF LeadsWithin
<1> HIDE DEF new, k
<1>4. \A n \in 1 .. k + 1 : n \in 1 .. k \/ n = k + 1
  BY ONLY <1>1
<1>5. \A n \in 1 .. k : n \in 1 .. k + 1
  BY ONLY <1>1
<1>6. CallsTyped(new, len)
  <2>1. ASSUME NEW n \in 1 .. k + 1
        PROVE  /\ IsFrame(new[n]) /\ new[n].idx \in 1 .. len
               /\ LeadsWithin(new[n].children, len)
    <3>1. CASE n \in 1 .. k
      BY ONLY <1>1, <1>2, <3>1
    <3>2. CASE n = k + 1
      BY ONLY <1>2, <1>3, <3>2, IsFrame(fr), fr.idx \in 1 .. len
    <3> QED
      BY ONLY <1>4, <3>1, <3>2
  <2> QED
    BY ONLY <1>2, <2>1 DEF CallsTyped
<1>7. ASSUME NEW d, NEW g
      PROVE  OnCalls(new, d, g) <=> OnCalls(stk, d, g)
  <2>1. \A n \in 1 .. k + 1 : new[n].idx = d /\ Among(new[n].children, g) =>
           n \in 1 .. k
    BY ONLY <1>2, <1>3, <1>4
  <2> QED
    BY ONLY <1>2, <1>5, <2>1 DEF OnCalls, k
<1> QED
  BY ONLY <1>2, <1>6, <1>7 DEF new, k

(* The last call ends.                                                     *)
LEMMA EndsCall ==
  ASSUME NEW stk, NEW len \in Nat, CallsTyped(stk, len), Len(stk) >= 1
  PROVE  LET new == Front(stk)
             top == stk[Len(stk)]
         IN /\ CallsTyped(new, len) /\ Len(new) = Len(stk) - 1
            /\ \A n \in 1 .. Len(new) : new[n].idx = stk[n].idx
            /\ \A d, g : OnCalls(stk, d, g) <=>
                 OnCalls(new, d, g) \/ (d = top.idx /\ Among(top.children, g))
<1> DEFINE k == Len(stk)
           new == Front(stk)
           top == stk[k]
<1>1. /\ IsSeq(stk) /\ k \in Nat /\ k >= 1
      /\ \A n \in 1 .. k : /\ IsFrame(stk[n]) /\ stk[n].idx \in 1 .. len
                           /\ LeadsWithin(stk[n].children, len)
  BY SeqFacts DEF CallsTyped
<1>2. IsSeq(new) /\ Len(new) = k - 1 /\ \A i \in 1 .. k - 1 : new[i] = stk[i]
  BY ONLY <1>1, FrontIs
<1> HIDE DEF new, k
<1>3. \A n \in 1 .. k : n \in 1 .. k - 1 \/ n = k
  BY ONLY <1>1
<1>4. k \in 1 .. k /\ \A n \in 1 .. k - 1 : n \in 1 .. k
  BY ONLY <1>1
<1>5. CallsTyped(new, len)
  BY ONLY <1>1, <1>2, <1>4 DEF CallsTyped
<1>6. ASSUME NEW d, NEW g
      PROVE  OnCalls(stk, d, g) <=>
               OnCalls(new, d, g) \/ (d = top.idx /\ Among(top.children, g))
  BY ONLY <1>2, <1>3, <1>4 DEF OnCalls, k, top
<1> QED
  BY ONLY <1>2, <1>5, <1>6 DEF new, k, top

(* Back in the loop of the caller, or in build_tree.                          *)
LEMMA ReturnIs ==
  ASSUME NEW callers, NEW len \in Nat, CallsTyped(callers, len),
         NEW idx \in 1 .. len, LinksTyped, Return(idx, callers)
  PROVE  /\ CallsTyped(stack', len) /\ LinksTyped'
         /\ Len(callers) = 0 =>
              phase' = "wire" /\ stack' = callers /\ links' = links
         /\ Len(callers) >= 1 =>
              /\ phase' = "loop"
              /\ \E e : e.idx = idx /\ EntryAdded(stack', callers, idx, e)
         /\ \A f \in DOMAIN links' :
              \/ Len(callers) >= 1 /\ links'[f] = idx
              \/ f \in DOMAIN links /\ links'[f] = links[f]
<1> DEFINE n == Len(callers)
<1>1. IsSeq(callers) /\ n \in Nat
  BY SeqFacts DEF CallsTyped
<1>2. CASE callers = << >>
  <2>1. phase' = "wire" /\ stack' = callers /\ links' = links /\ n = 0
    BY <1>2, EmptySeq DEF Return
  <2> QED
    BY <2>1 DEF LinksTyped
<1>3. CASE callers # << >>
  <2> DEFINE m == callers[n].meta
             e == Entry(Head(callers[n].todo), m, idx)
  <2>1. n >= 1
    BY <1>1, <1>3, EmptySeq DEF IsSeq
  <2>2. /\ phase' = "loop"
        /\ stack' = [callers EXCEPT ![n] = AddEntry(@, idx, m)]
        /\ links' = IF MayBeLinked(m) THEN Remember(m.id, idx) ELSE links
    BY <1>3 DEF Return
  <2>3. e.idx = idx
    BY ONLY e = [name |-> Lossy[Head(callers[n].todo)], type |-> m.kind,
                 idx |-> idx] DEF Entry
  <2>4. CallsTyped(stack', len) /\ EntryAdded(stack', callers, idx, e)
    BY ONLY <2>1, <2>2, AddsEntry, len \in Nat, CallsTyped(callers, len),
            idx \in 1 .. len
  <2>5. m = NoMeta \/ m.id \in FileIds
    <3>1. n \in 1 .. Len(callers)
      BY ONLY <1>1, <2>1
    <3>2. IsFrame(callers[n])
      BY ONLY <3>1, CallsTyped(callers, len) DEF CallsTyped
    <3> QED
      BY ONLY <3>2 DEF IsFrame
  <2>6. MayBeLinked(m) => m.id \in FileIds
    BY <2>5 DEF MayBeLinked, NoMeta
  <2> HIDE DEF e, m
  <2>7. /\ LinksTyped'
        /\ \A f \in DOMAIN links' :
             links'[f] = idx \/ (f \in DOMAIN links /\ links'[f] = links[f])
    <3>1. CASE MayBeLinked(m)
      <4>1. links' = [g \in DOMAIN links \cup {m.id} |->
                        IF g = m.id THEN idx ELSE links[g]]
        BY ONLY <2>2, <3>1 DEF Remember
      <4>2. idx \in Nat \ {0}
        OBVIOUS
      <4> QED
        BY ONLY <2>6, <3>1, <4>1, <4>2, LinksTyped DEF LinksTyped
    <3>2. CASE ~ MayBeLinked(m)
      BY ONLY <2>2, <3>2, LinksTyped DEF LinksTyped
    <3> QED
      BY ONLY <3>1, <3>2
  <2> HIDE DEF n
  <2> QED
    BY ONLY <2>1, <2>2, <2>3, <2>4, <2>7, n >= 1 => n # 0 DEF n
<1> QED
  BY <1>2, <1>3

-----------------------------------------------------------------------------
(* A step that adds at most the entry new to one directory, that of P, and    *)
(* completes at most one inode, that of X.                                   *)
Grows(P, new, X) ==
  /\ \A d \in 1 .. Len(inodes) : d \in 1 .. Len(inodes')
  /\ Closed' = Closed \cup X
  /\ \A d \in 1 .. Len(inodes') : \A e :
       Has(d, e)' <=> \/ d \in 1 .. Len(inodes) /\ Has(d, e)
                      \/ d \in P /\ e = new
  /\ \A p \in P : /\ p \in 1 .. Len(inodes') /\ p \notin Closed'
                  /\ new.idx \in Closed' /\ new.idx # 1
                  /\ new.type = "dir" => new.idx \in X
  /\ \A p, q \in P : p = q
  /\ \A x \in X : x \notin Closed /\ (x # 1 => P # {} /\ new.idx = x)

LEMMA TreeGrows ==
  ASSUME Tree, OpenAreEmpty', LinksLead', NEW P, NEW new, NEW X,
         Grows(P, new, X)
  PROVE  Tree'
<1> USE DEF Grows
<1>1. EntriesLead /\ OneParent /\ Reached /\ NoCycle
  BY DEF Tree
<1>2. \A i \in Closed : i \in Closed' /\ i \in 1 .. Len(inodes)
  BY DEF Closed
<1>3. \A d \in 1 .. Len(inodes) : \A e : Has(d, e) => e.idx \in Closed /\ e.idx # 1
  BY ONLY <1>1 DEF EntriesLead
<1>4. EntriesLead'
  BY <1>2, <1>3 DEF EntriesLead
<1>5. OneParent'
  <2> SUFFICES ASSUME NEW d \in 1 .. Len(inodes'), NEW b \in 1 .. Len(inodes'),
                      NEW e, NEW g, Has(d, e)', Has(b, g)',
                      e.type = "dir", g.type = "dir", e.idx = g.idx
               PROVE  d = b
    BY DEF OneParent
  <2>1. \/ d \in 1 .. Len(inodes) /\ Has(d, e)
        \/ d \in P /\ e = new
    OBVIOUS
  <2>2. \/ b \in 1 .. Len(inodes) /\ Has(b, g)
        \/ b \in P /\ g = new
    OBVIOUS
  <2>3. ASSUME d \in 1 .. Len(inodes), Has(d, e), b \in 1 .. Len(inodes), Has(b, g)
        PROVE  d = b
    BY <1>1, <2>3 DEF OneParent
  <2>4. ASSUME NEW p \in P, new.type = "dir"
        PROVE  new.idx \notin Closed
    BY <2>4
  <2> QED
    BY <1>3, <2>1, <2>2, <2>3, <2>4
<1>6. Reached'
  <2> SUFFICES ASSUME NEW i \in Closed', i # 1
               PROVE  \E d \in 1 .. Len(inodes') : \E e : Has(d, e)' /\ e.idx = i
    BY DEF Reached
  <2>1. CASE i \in Closed
    <3>1. PICK d \in 1 .. Len(inodes) : \E e : Has(d, e) /\ e.idx = i
      BY <1>1, <2>1 DEF Reached
    <3>2. PICK e : Has(d, e) /\ e.idx = i
      BY <3>1
    <3> QED
      BY <3>2
  <2>2. CASE i \notin Closed
    <3>1. i \in X
      BY <2>2
    <3>2. PICK p \in P : new.idx = i
      BY <3>1
    <3>3. p \in 1 .. Len(inodes') /\ Has(p, new)'
      BY <3>2
    <3> QED
      BY <3>2, <3>3
  <2> QED
    BY <2>1, <2>2
<1>7. NoCycle'
  <2> SUFFICES ASSUME NEW S \in SUBSET Closed', S # {}
               PROVE  \E i \in S : \A d \in S : \A e : Has(d, e)' => e.idx # i
    BY DEF NoCycle
  <2>1. ASSUME NEW d \in S, NEW e, Has(d, e)'
        PROVE  d \in 1 .. Len(inodes) /\ Has(d, e)
    <3>1. d \in Closed' /\ d \in 1 .. Len(inodes')
      BY DEF Closed
    <3> QED
      BY <2>1, <3>1
  <2>2. CASE \E x \in X : x \in S
    <3>1. PICK x \in X : x \in S
      BY <2>2
    <3>2. \A d \in S : \A e : Has(d, e)' => e.idx # x
      BY <1>3, <2>1
    <3> QED
      BY <3>1, <3>2
  <2>3. CASE ~ \E x \in X : x \in S
    <3>1. S \in SUBSET Closed
      BY <2>3
    <3>2. PICK i \in S : \A d \in S : \A e : Has(d, e) => e.idx # i
      BY <1>1, <3>1 DEF NoCycle
    <3> QED
      BY <2>1, <3>2
  <2> QED
    BY <2>2, <2>3
<1> QED
  BY <1>4, <1>5, <1>6, <1>7 DEF Tree

(* A step that adds no entry and completes nothing.                           *)
LEMMA TreeStays ==
  ASSUME Tree, OpenAreEmpty', links' = links, Closed' = Closed,
         \A d \in 1 .. Len(inodes) : d \in 1 .. Len(inodes'),
         \A d \in 1 .. Len(inodes') : \A e :
           Has(d, e)' <=> d \in 1 .. Len(inodes) /\ Has(d, e)
  PROVE  Tree'
<1>1. LinksLead'
  BY DEF Tree, LinksLead
<1>2. Grows({}, 0, {})
  BY DEF Grows
<1> QED
  BY ONLY Tree, OpenAreEmpty', <1>1, <1>2, TreeGrows

LEMMA CallsStay ==
  ASSUME Tree, Nested, StackTyped, SameEntries(stack', stack), UNCHANGED <<inodes, links>>,
         phase = "readdir" <=> phase' = "readdir"
  PROVE  Tree' /\ Nested'
<1>1. /\ Len(stack') = Len(stack)
      /\ \A n \in 1 .. Len(stack) : stack'[n].idx = stack[n].idx
      /\ \A d, g : OnCalls(stack', d, g) <=> OnCalls(stack, d, g)
  BY DEF SameEntries
<1>2. \A i : IsOpen(i)' <=> IsOpen(i)
  BY <1>1 DEF IsOpen
<1>3. Closed' = Closed
  BY <1>2 DEF Closed
<1>4. OpenAreEmpty'
  BY <1>2 DEF Tree, OpenAreEmpty
<1>5. \A d, e : Has(d, e)' <=> Has(d, e)
  BY <1>1 DEF Has
<1>6. Tree'
  BY <1>3, <1>4, <1>5, TreeStays
<1>7. Nested'
  BY <1>1 DEF Nested, IsNested
<1> QED
  BY <1>6, <1>7

-----------------------------------------------------------------------------
(* What the system calls return, as far as it matters.                        *)

LEMMA LstatTyped ==
  ASSUME source \in Sources, NEW path
  PROVE  Lstat(path) = NoMeta
           \/ (Lstat(path).id \in FileIds /\ Lstat(path).kind \in Kinds)
<1> DEFINE f == Resolve(source, path)
<1>1. source.kind \in [Files -> Kinds]
  BY TreeAssumption
<1> HIDE DEF f
<1>2. CASE f \in Files /\ ~ (path = << >> /\ argument = "link")
  <2>1. Lstat(path) = [id |-> f, kind |-> source.kind[f], nlink |-> Nlink(source, f)]
    BY <1>2 DEF Lstat, f
  <2>2. source.kind[f] \in Kinds
    BY <1>1, <1>2
  <2> QED
    BY ONLY <1>2, <2>1, <2>2 DEF FileIds
<1>3. CASE f \notin Files /\ ~ (path = << >> /\ argument = "link")
  BY <1>3 DEF Lstat, f
<1>4. CASE path = << >> /\ argument = "link"
  <2>1. Lstat(path) = [id |-> LinkFile, kind |-> "lnk", nlink |-> 1]
    BY <1>4 DEF Lstat
  <2> QED
    BY ONLY <2>1 DEF FileIds, Kinds
<1> QED
  BY ONLY <1>2, <1>3, <1>4

LEMMA ReadsTyped ==
  ASSUME source \in Sources, NEW f, NEW read \in XattrReads(f)
  PROVE  read.failed \in Nat
<1>1. Supported(f) \in SUBSET DOMAIN XattrIndex
  BY TreeAssumption DEF Supported
<1>2. IsFiniteSet(DOMAIN XattrIndex)
  BY TreeAssumption
<1>3. IsFiniteSet(Supported(f))
  BY ONLY <1>1, <1>2, FS_Subset
<1>4. \A U \in SUBSET Supported(f) : Cardinality(U) \in Nat
  BY ONLY <1>3, FS_Subset, FS_CardinalityType
<1> QED
  BY ONLY <1>4, read \in XattrReads(f) DEF XattrReads

-----------------------------------------------------------------------------
(* The initial state, and the steps that leave the list alone.                *)

LEMMA InitInv == Init => IInv
<1> SUFFICES ASSUME Init
             PROVE  IInv
  OBVIOUS
<1> USE DEF Init
<1>1. /\ IsSeq(inodes) /\ IsSeq(stack) /\ Len(inodes) = 0 /\ Len(stack) = 0
      /\ phase = "check"
  BY NoElements
<1>2. Typed
  <2>1. WorldTyped
    BY TreeAssumption DEF WorldTyped
  <2>2. MetaTyped /\ LinksTyped
    BY DEF MetaTyped, LinksTyped
  <2>3. InodesTyped /\ StackTyped
    BY ONLY <1>1 DEF InodesTyped, StackTyped, CallsTyped
  <2> QED
    BY <2>1, <2>2, <2>3 DEF Typed
<1>3. Nested /\ InStep /\ Unwired
  BY ONLY <1>1 DEF Nested, IsNested, InStep, Unwired
<1>4. Tree
  <2>1. Closed = {} /\ \A d : d \notin 1 .. Len(inodes)
    BY ONLY <1>1 DEF Closed
  <2>2. LinksLead
    BY DEF LinksLead
  <2> QED
    BY ONLY <2>1, <2>2
    DEF Tree, OpenAreEmpty, EntriesLead, OneParent, Reached, NoCycle
<1>5. ParentHoldsChild
  BY DEF ParentHoldsChild
<1> QED
  BY <1>2, <1>3, <1>4, <1>5 DEF IInv

LEMMA IInvFacts ==
  ASSUME IInv
  PROVE  /\ WorldTyped /\ MetaTyped /\ InodesTyped /\ StackTyped /\ LinksTyped
         /\ source \in Sources /\ Len(inodes) \in Nat /\ Len(stack) \in Nat
         /\ errors \in 0 .. MaxErrors /\ changes \in 0 .. MaxChanges
         /\ phase # "failed" => Nested /\ InStep /\ Tree /\ Unwired
BY SeqFacts DEF IInv, Typed, InodesTyped, StackTyped, CallsTyped, WorldTyped

(* The steps change phase' and what the lemma names; this puts the rest of    *)
(* the types together.                                                     *)
LEMMA TypesTogether ==
  ASSUME IInv, UNCHANGED <<source, argument, changes>>,
         errors' \in 0 .. MaxErrors,
         phase' \in {"check", "visit", "content", "attrs", "readdir", "loop",
                     "wire", "done", "failed"},
         MetaTyped', InodesTyped', StackTyped', LinksTyped'
  PROVE  Typed'
BY DEF IInv, Typed, WorldTyped

LEMMA FailKeeps ==
  ASSUME IInv, Fail, errors' \in 0 .. MaxErrors
  PROVE  IInv'
<1>1. /\ phase' = "failed" /\ UNCHANGED <<stack, meta, inodes, links>>
      /\ UNCHANGED <<source, argument, changes>>
  BY DEF Fail, world
<1>2. MetaTyped /\ InodesTyped /\ StackTyped /\ LinksTyped
  BY IInvFacts
<1>3. MetaTyped' /\ InodesTyped' /\ StackTyped' /\ LinksTyped'
  BY ONLY <1>1, <1>2 DEF MetaTyped, InodesTyped, StackTyped, CallsTyped, LinksTyped
<1>4. Typed'
  BY <1>1, <1>3, TypesTogether
<1> QED
  BY ONLY <1>1, <1>4 DEF IInv, ParentHoldsChild

LEMMA MoveKeeps ==
  ASSUME IInv, phase \in {"check", "visit", "content"},
         phase' \in {"visit", "content", "attrs"}, MetaTyped',
         UNCHANGED <<source, argument, changes, errors, stack, inodes, links>>
  PROVE  IInv'
<1>1. /\ InodesTyped /\ StackTyped /\ LinksTyped /\ Nested /\ InStep
      /\ Tree /\ Unwired /\ errors \in 0 .. MaxErrors
  BY IInvFacts
<1>2. InodesTyped' /\ StackTyped' /\ LinksTyped'
  BY ONLY <1>1, UNCHANGED <<stack, inodes, links>>
  DEF InodesTyped, StackTyped, CallsTyped, LinksTyped
<1>3. Typed'
  BY <1>1, <1>2, TypesTogether
<1>4. SameEntries(stack', stack)
  BY DEF SameEntries
<1>5. Tree' /\ Nested'
  BY <1>1, <1>4, CallsStay
<1>6. InStep' /\ Unwired'
  BY <1>1 DEF InStep, Unwired
<1> QED
  BY <1>3, <1>5, <1>6 DEF IInv, ParentHoldsChild

LEMMA CheckSourceKeeps == IInv /\ CheckSource => IInv'
<1> SUFFICES ASSUME IInv, CheckSource
             PROVE  IInv'
  OBVIOUS
<1>1. errors \in 0 .. MaxErrors /\ MetaTyped
  BY IInvFacts
<1>2. CASE argument = "file"
  BY <1>1, <1>2, FailKeeps DEF CheckSource
<1>3. CASE argument # "file"
  <2>1. /\ phase = "check" /\ phase' = "visit"
        /\ UNCHANGED <<stack, meta, inodes, links, errors>>
        /\ UNCHANGED <<source, argument, changes>>
    BY <1>3 DEF CheckSource, world
  <2>2. MetaTyped'
    BY ONLY <1>1, <2>1 DEF MetaTyped
  <2> QED
    BY <2>1, <2>2, MoveKeeps
<1> QED
  BY <1>2, <1>3

LEMMA StatKeeps == IInv /\ Stat => IInv'
<1> SUFFICES ASSUME IInv, Stat
             PROVE  IInv'
  OBVIOUS
<1> DEFINE m == Lstat(CallPath)
<1>1. errors \in 0 .. MaxErrors /\ source \in Sources
  BY IInvFacts
<1>2. m = NoMeta \/ (m.id \in FileIds /\ m.kind \in Kinds)
  BY <1>1, LstatTyped
<1>3. CASE m = NoMeta
  BY <1>1, <1>3, FailKeeps DEF Stat
<1>4. CASE m # NoMeta
  <2>1. /\ phase = "visit" /\ meta' = m /\ phase' \in {"content", "attrs"}
        /\ UNCHANGED <<stack, inodes, links, errors>>
        /\ UNCHANGED <<source, argument, changes>>
    BY <1>4 DEF Stat, world
  <2> HIDE DEF m
  <2>2. MetaTyped'
    BY ONLY <1>2, <1>4, <2>1 DEF MetaTyped
  <2> QED
    BY <2>1, <2>2, MoveKeeps
<1> QED
  BY <1>3, <1>4

LEMMA ReadContentKeeps == IInv /\ ReadContent => IInv'
<1> SUFFICES ASSUME IInv, ReadContent
             PROVE  IInv'
  OBVIOUS
<1>1. errors \in 0 .. MaxErrors /\ MetaTyped /\ phase = "content"
  BY IInvFacts DEF ReadContent
<1>2. CASE Fail
  BY <1>1, <1>2, FailKeeps DEF ReadContent
<1>3. CASE ~ Fail
  <2>1. /\ phase' = "attrs" /\ UNCHANGED <<stack, meta, inodes, links, errors>>
        /\ UNCHANGED <<source, argument, changes>>
    BY <1>3 DEF ReadContent, world
  <2>2. MetaTyped'
    BY ONLY <1>1, <2>1 DEF MetaTyped
  <2> QED
    BY <1>1, <2>1, <2>2, MoveKeeps
<1> QED
  BY <1>2, <1>3

LEMMA CallFailsKeeps == IInv /\ CallFails => IInv'
<1> SUFFICES ASSUME IInv, CallFails
             PROVE  IInv'
  OBVIOUS
<1>1. errors \in 0 .. MaxErrors /\ errors < MaxErrors /\ errors' = errors + 1
      /\ MaxErrors \in Nat /\ Fail
  BY IInvFacts, TreeAssumption DEF CallFails
<1>2. errors' \in 0 .. MaxErrors
  BY ONLY <1>1
<1> QED
  BY <1>1, <1>2, FailKeeps

LEMMA RestKeeps ==
  ASSUME IInv, source' \in Sources, changes' \in 0 .. MaxChanges,
         UNCHANGED <<argument, errors, phase, stack, meta, inodes, links>>
  PROVE  IInv'
<1>1. /\ WorldTyped /\ MetaTyped /\ InodesTyped /\ StackTyped /\ LinksTyped
      /\ phase # "failed" => Nested /\ InStep /\ Tree /\ Unwired
      /\ ParentHoldsChild
  BY IInvFacts DEF IInv
<1>2. /\ MetaTyped' /\ InodesTyped' /\ StackTyped' /\ LinksTyped'
  BY ONLY <1>1, UNCHANGED <<phase, stack, meta, inodes, links>>
  DEF MetaTyped, InodesTyped, StackTyped, CallsTyped, LinksTyped
<1>3. WorldTyped'
  BY <1>1 DEF WorldTyped
<1>4. phase' # "failed" => Nested' /\ InStep' /\ Unwired'
  BY <1>1 DEF Nested, InStep, Unwired
<1>5. phase' # "failed" => Tree'
  <2>1. SameEntries(stack', stack)
    BY DEF SameEntries
  <2> QED
    BY <1>1, <2>1, CallsStay
<1>6. ParentHoldsChild'
  BY <1>1 DEF ParentHoldsChild, InodeList
<1> QED
  BY <1>2, <1>3, <1>4, <1>5, <1>6 DEF IInv, Typed

LEMMA ChangeSourceKeeps == IInv /\ ChangeSource => IInv'
<1> SUFFICES ASSUME IInv, ChangeSource
             PROVE  IInv'
  OBVIOUS
<1>1. /\ changes \in 0 .. MaxChanges /\ changes < MaxChanges
      /\ changes' = changes + 1 /\ MaxChanges \in Nat
      /\ source' \in Sources
      /\ UNCHANGED <<argument, errors, phase, stack, meta, inodes, links>>
  BY IInvFacts, TreeAssumption DEF ChangeSource
<1>2. changes' \in 0 .. MaxChanges
  BY ONLY <1>1
<1> QED
  BY <1>1, <1>2, RestKeeps

LEMMA StutterKeeps == IInv /\ UNCHANGED vars => IInv'
<1>1. ASSUME IInv, UNCHANGED vars
      PROVE  IInv'
  <2>1. source \in Sources /\ changes \in 0 .. MaxChanges
    BY <1>1, IInvFacts
  <2> QED
    BY <1>1, <2>1, RestKeeps DEF vars
<1> QED
  BY <1>1

-----------------------------------------------------------------------------
(* A call that ends: its inode is complete, and its caller has the entry.      *)

(* Before the caller gets its entry, only x is open besides the callers, and  *)
(* the entries are those of before.                                         *)
EndsWith(callers, x) ==
  /\ \A d \in 1 .. Len(inodes) : d \in 1 .. Len(inodes')
  /\ x \notin Closed
  /\ \A i \in 1 .. Len(inodes') : i \in Closed \/ i = x <=>
       ~ \E n \in 1 .. Len(callers) : callers[n].idx = i
  /\ \A d \in 1 .. Len(inodes') : \A e :
       Among(inodes'[d].children, e) \/ OnCalls(callers, d, e) <=>
         d \in 1 .. Len(inodes) /\ Has(d, e)
  /\ \A n \in 1 .. Len(callers) : Len(inodes'[callers[n].idx].children) = 0
  /\ Len(callers) = 0 <=> x = 1

LEMMA CallEnds ==
  ASSUME Tree, LinksTyped, Len(inodes') \in Nat,
         NEW callers, CallsTyped(callers, Len(inodes')),
         NEW x \in 1 .. Len(inodes'), Return(x, callers), EndsWith(callers, x)
  PROVE  Tree'
<1> USE DEF EndsWith
<1> DEFINE k == Len(callers)
<1>1. k \in Nat
  BY SeqFacts DEF CallsTyped
<1>2. /\ CallsTyped(stack', Len(inodes'))
      /\ k = 0 => phase' = "wire" /\ stack' = callers /\ links' = links
      /\ k >= 1 => /\ phase' = "loop"
                   /\ \E e : e.idx = x /\ EntryAdded(stack', callers, x, e)
      /\ \A f \in DOMAIN links' :
           \/ k >= 1 /\ links'[f] = x
           \/ f \in DOMAIN links /\ links'[f] = links[f]
  BY ReturnIs
<1> HIDE DEF k
<1>3. /\ phase' # "readdir" /\ Len(stack') = k
      /\ \A n \in 1 .. k : stack'[n].idx = callers[n].idx
  <2>1. CASE k = 0
    BY ONLY <1>2, <2>1 DEF k
  <2>2. CASE k >= 1
    BY ONLY <1>2, <2>2 DEF EntryAdded, k
  <2> QED
    BY ONLY <1>1, <2>1, <2>2
<1>4. \A i : IsOpen(i)' <=> \E n \in 1 .. k : callers[n].idx = i
  BY ONLY <1>3 DEF IsOpen
<1>5. \A i \in 1 .. Len(inodes') : i \in Closed \/ i = x <=> ~ IsOpen(i)'
  BY ONLY <1>4, EndsWith(callers, x) DEF EndsWith, k
<1>6. Closed' = Closed \cup {x}
  <2>1. \A i \in Closed : i \in 1 .. Len(inodes')
    BY DEF Closed
  <2>2. \A i : i \in Closed' <=> i \in 1 .. Len(inodes') /\ ~ IsOpen(i)'
    BY ONLY DEF Closed
  <2>3. \A i : i \in Closed' <=> i \in Closed \/ i = x
    BY ONLY <1>5, <2>1, <2>2, x \in 1 .. Len(inodes')
  <2> QED
    BY ONLY <2>3
<1>7. OpenAreEmpty'
  BY <1>4 DEF OpenAreEmpty, k
<1>8. LinksLead'
  <2>1. \A f \in DOMAIN links : links[f] \in Closed /\ links[f] # 1
    BY DEF Tree, LinksLead
  <2>2. k >= 1 => x # 1
    BY DEF k
  <2>3. \A f \in DOMAIN links' : links'[f] \in Closed' /\ links'[f] # 1
    BY ONLY <1>2, <1>6, <2>1, <2>2
  <2> QED
    BY ONLY <2>3 DEF LinksLead
<1>9. CASE k = 0
  <2>1. stack' = callers
    BY <1>2, <1>9
  <2>2. \A d \in 1 .. Len(inodes') : \A g :
          Has(d, g)' <=> d \in 1 .. Len(inodes) /\ Has(d, g)
    BY <2>1 DEF Has
  <2>3. x = 1 /\ x \notin Closed
    BY <1>9 DEF k
  <2>4. \A d \in 1 .. Len(inodes) : d \in 1 .. Len(inodes')
    OBVIOUS
  <2>5. Grows({}, 0, {x})
    BY ONLY <1>6, <2>2, <2>3, <2>4 DEF Grows
  <2> QED
    BY ONLY Tree, <1>7, <1>8, <2>5, TreeGrows
<1>10. CASE k >= 1
  <2> DEFINE p == callers[k].idx
  <2>2. PICK e : e.idx = x /\ EntryAdded(stack', callers, x, e)
    BY <1>2, <1>10
  <2>3. \A d, g : OnCalls(stack', d, g) <=>
                    OnCalls(callers, d, g) \/ (d = p /\ g = e)
    BY ONLY <2>2 DEF EntryAdded, k
  <2>4. k \in 1 .. k /\ p \in 1 .. Len(inodes')
    BY <1>1, <1>10 DEF CallsTyped, k
  <2>5. p \notin Closed'
    BY ONLY <1>4, <2>4 DEF Closed
  <2> HIDE DEF p
  <2>6. \A d \in 1 .. Len(inodes') : \A g :
          Has(d, g)' <=> \/ d \in 1 .. Len(inodes) /\ Has(d, g)
                         \/ d \in {p} /\ g = e
    BY <2>3 DEF Has
  <2>7. x # 1 /\ x \in Closed' /\ x \notin Closed
    BY <1>6, <1>10 DEF k
  <2>8. \A d \in 1 .. Len(inodes) : d \in 1 .. Len(inodes')
    OBVIOUS
  <2>9. Grows({p}, e, {x})
    BY ONLY <1>6, <2>2, <2>4, <2>5, <2>6, <2>7, <2>8 DEF Grows
  <2> QED
    BY ONLY Tree, <1>7, <1>8, <2>9, TreeGrows
<1> QED
  BY ONLY <1>1, <1>9, <1>10

-----------------------------------------------------------------------------
(* A new inode.                                                            *)

NewInode(r, xattrs) ==
  r = [src |-> meta.id, kind |-> meta.kind, children |-> << >>, parent |-> 1,
       xattrs |-> xattrs]

LEMMA ListGrows ==
  ASSUME MetaTyped, meta # NoMeta, InodesTyped,
         NEW xattrs, NEW r, NewInode(r, xattrs), inodes' = Append(inodes, r)
  PROVE  /\ InodesTyped' /\ Len(inodes') = Len(inodes) + 1
         /\ Len(inodes) \in Nat
         /\ \A i \in 1 .. Len(inodes) : inodes'[i] = inodes[i]
         /\ inodes'[Len(inodes) + 1] = r
         /\ Len(r.children) = 0 /\ r.parent = 1
<1> DEFINE n == Len(inodes)
<1>1. /\ IsSeq(inodes) /\ n \in Nat
      /\ \A i \in 1 .. n : /\ IsInode(inodes[i]) /\ inodes[i].parent \in 1 .. n
                           /\ LeadsWithin(inodes[i].children, n)
  BY SeqFacts DEF InodesTyped
<1>2. /\ IsSeq(inodes') /\ Len(inodes') = n + 1
      /\ \A i \in 1 .. n : inodes'[i] = inodes[i]
      /\ inodes'[n + 1] = r
  BY ONLY <1>1, inodes' = Append(inodes, r), AppendIs
<1>3. /\ r.src = meta.id /\ r.kind = meta.kind /\ r.children = << >>
      /\ r.parent = 1 /\ r.xattrs = xattrs
  BY DEF NewInode
<1>4. IsInode(r) /\ Len(r.children) = 0
  <2>1. meta.id \in FileIds /\ meta.kind \in Kinds
    BY DEF MetaTyped
  <2>2. r = [src |-> r.src, kind |-> r.kind, children |-> r.children,
             parent |-> r.parent, xattrs |-> r.xattrs]
    BY ONLY <1>3, NewInode(r, xattrs) DEF NewInode
  <2> QED
    BY ONLY <1>3, <2>1, <2>2, NoElements DEF IsInode
<1> HIDE DEF n
<1>5. ASSUME NEW i \in 1 .. n + 1
      PROVE  /\ IsInode(inodes'[i]) /\ inodes'[i].parent \in 1 .. n + 1
             /\ LeadsWithin(inodes'[i].children, n + 1)
  <2>1. CASE i \in 1 .. n
    <3>1. n + 1 \in Nat /\ n <= n + 1
      BY ONLY <1>1
    <3>2. LeadsWithin(inodes[i].children, n + 1)
      BY ONLY <1>1, <2>1, <3>1, LeadsFurther
    <3>3. inodes[i].parent \in 1 .. n + 1
      BY ONLY <1>1, <2>1
    <3> QED
      BY ONLY <1>1, <1>2, <2>1, <3>2, <3>3
  <2>2. CASE i = n + 1
    <3>1. LeadsWithin(r.children, n + 1)
      BY ONLY <1>4 DEF LeadsWithin
    <3>2. r.parent \in 1 .. n + 1
      BY ONLY <1>1, <1>3
    <3> QED
      BY ONLY <1>2, <1>4, <2>2, <3>1, <3>2
  <2> QED
    BY ONLY <1>1, <2>1, <2>2
<1>6. InodesTyped'
  BY ONLY <1>2, <1>5 DEF InodesTyped
<1> QED
  BY ONLY <1>1, <1>2, <1>3, <1>4, <1>6 DEF n

LEMMA ReadAttrsKeeps == IInv /\ ReadAttrs => IInv'
<1> SUFFICES ASSUME IInv, ReadAttrs
             PROVE  IInv'
  OBVIOUS
<1> DEFINE n == Len(inodes)
<1>1. /\ MetaTyped /\ InodesTyped /\ StackTyped /\ LinksTyped
      /\ source \in Sources /\ n \in Nat /\ Len(stack) \in Nat
      /\ errors \in 0 .. MaxErrors /\ MaxErrors \in Nat
      /\ phase = "attrs" /\ meta # NoMeta
      /\ Nested /\ InStep /\ Tree /\ Unwired
  BY IInvFacts, TreeAssumption DEF ReadAttrs, MetaTyped
<1>2. PICK read \in XattrReads(Lstat(CallPath).id) :
        /\ errors' = errors + read.failed /\ errors' <= MaxErrors
        /\ inodes' = Append(inodes,
             [src |-> meta.id, kind |-> meta.kind, children |-> << >>,
              parent |-> 1, xattrs |-> read.xattrs])
  BY DEF ReadAttrs
<1>3. /\ UNCHANGED <<meta, source, argument, changes>>
      /\ IF meta.kind = "dir"
           THEN phase' = "readdir" /\ UNCHANGED <<stack, links>>
           ELSE Return(n + 1, stack)
  BY DEF ReadAttrs, world
<1>4. errors' \in 0 .. MaxErrors
  <2>1. read.failed \in Nat
    BY <1>1, ReadsTyped
  <2> QED
    BY ONLY <1>1, <1>2, <2>1
<1> DEFINE r == [src |-> meta.id, kind |-> meta.kind, children |-> << >>,
                 parent |-> 1, xattrs |-> read.xattrs]
<1>5. NewInode(r, read.xattrs) /\ inodes' = Append(inodes, r)
  BY ONLY <1>2 DEF NewInode
<1> HIDE DEF r
<1>6. /\ InodesTyped' /\ Len(inodes') = n + 1
      /\ \A i \in 1 .. n : inodes'[i] = inodes[i]
      /\ inodes'[n + 1] = r /\ Len(r.children) = 0 /\ r.parent = 1
  BY ONLY <1>1, <1>5, ListGrows
<1>7. \A i \in 1 .. n + 1 : i \in 1 .. n \/ i = n + 1
  BY ONLY <1>1
<1>8. \A i \in 1 .. n : i \in 1 .. n + 1 /\ i # n + 1
  BY ONLY <1>1
<1>9. \A k \in 1 .. Len(stack) : stack[k].idx \in 1 .. n
  BY <1>1 DEF StackTyped, CallsTyped
<1>10. \A i \in 1 .. n : IsOpen(i) <=> \E k \in 1 .. Len(stack) : stack[k].idx = i
  BY ONLY <1>1 DEF IsOpen
<1>11. CallsTyped(stack, n + 1)
  <2>1. n + 1 \in Nat /\ n <= n + 1
    BY ONLY <1>1
  <2> QED
    BY ONLY <1>1, <2>1, CallsFurther DEF StackTyped
<1>12. \A e : ~ Among(r.children, e)
  BY ONLY <1>6, AmongNone
<1>13. ASSUME NEW d \in 1 .. n + 1, NEW e
       PROVE  Among(inodes'[d].children, e) \/ OnCalls(stack, d, e) <=>
                d \in 1 .. n /\ Has(d, e)
  <2>1. CASE d \in 1 .. n
    BY ONLY <1>6, <2>1 DEF Has
  <2>2. CASE d = n + 1
    BY ONLY <1>6, <1>8, <1>9, <1>12, <2>2 DEF OnCalls
  <2> QED
    BY ONLY <1>7, <2>1, <2>2
<1>14. Unwired'
  BY ONLY <1>1, <1>6, <1>7 DEF Unwired
<1>15. MetaTyped' /\ phase' \in {"readdir", "loop", "wire"}
  <2>1. phase' \in {"readdir", "loop", "wire"}
    BY ONLY <1>3 DEF Return
  <2> QED
    BY ONLY <1>1, <1>3, <2>1 DEF MetaTyped
<1>16. ParentHoldsChild'
  BY ONLY <1>15 DEF ParentHoldsChild
<1>17. CASE meta.kind = "dir"
  <2>1. phase' = "readdir" /\ stack' = stack /\ links' = links
    BY ONLY <1>3, <1>17
  <2>2. StackTyped' /\ LinksTyped' /\ Nested'
    BY ONLY <1>1, <1>6, <1>11, <2>1 DEF StackTyped, CallsTyped, LinksTyped, Nested
  <2>3. \A i : IsOpen(i)' <=> (\E k \in 1 .. Len(stack) : stack[k].idx = i) \/ i = n + 1
    BY ONLY <1>6, <2>1 DEF IsOpen
  <2>4. Closed' = Closed
    BY ONLY <1>6, <1>7, <1>8, <1>10, <2>3 DEF Closed, n
  <2>5. OpenAreEmpty'
    BY <1>1, <1>6, <1>7, <1>10, <2>3 DEF Tree, OpenAreEmpty
  <2>6. \A d \in 1 .. Len(inodes') : \A e :
          Has(d, e)' <=> d \in 1 .. Len(inodes) /\ Has(d, e)
    BY ONLY <1>6, <1>13, <2>1 DEF Has
  <2>7. Tree'
    BY <1>1, <1>6, <1>8, <2>1, <2>4, <2>5, <2>6, TreeStays
  <2>8. InStep'
    <3>1. Len(stack) = 0 => n = 0
      BY ONLY <1>1 DEF InStep
    <3>2. \A k \in 1 .. Len(stack) : stack[k].idx < n + 1
      BY ONLY <1>1, <1>9
    <3>3. n + 1 >= 1 /\ (Len(stack) = 0 => n + 1 = 1)
      BY ONLY <1>1, <3>1
    <3> QED
      BY ONLY <1>6, <2>1, <3>2, <3>3 DEF InStep
  <2>9. Typed'
    BY <1>3, <1>4, <1>6, <1>15, <2>2, TypesTogether
  <2> QED
    BY ONLY <1>14, <1>16, <2>2, <2>7, <2>8, <2>9 DEF IInv
<1>18. CASE meta.kind # "dir"
  <2>1. Return(n + 1, stack)
    BY ONLY <1>3, <1>18
  <2>2. n + 1 \in 1 .. Len(inodes') /\ Len(inodes') \in Nat /\ n + 1 \in Nat
        /\ n + 1 \in 1 .. n + 1
    BY ONLY <1>1, <1>6
  <2>3. /\ CallsTyped(stack', n + 1) /\ LinksTyped'
        /\ Len(stack) = 0 => phase' = "wire" /\ stack' = stack
        /\ Len(stack) >= 1 =>
              /\ phase' = "loop"
              /\ \E e : e.idx = n + 1 /\ EntryAdded(stack', stack, n + 1, e)
    BY ONLY <1>1, <1>11, <2>1, <2>2, ReturnIs
  <2>4. EndsWith(stack, n + 1)
    <3>1. n + 1 \notin Closed
      BY ONLY <1>8 DEF Closed, n
    <3>2. \A i \in 1 .. n + 1 : i \in Closed \/ i = n + 1 <=>
            ~ \E k \in 1 .. Len(stack) : stack[k].idx = i
      BY ONLY <1>7, <1>8, <1>9, <1>10 DEF Closed, n
    <3>3. \A k \in 1 .. Len(stack) : Len(inodes'[stack[k].idx].children) = 0
      BY <1>1, <1>6, <1>9, <1>10 DEF Tree, OpenAreEmpty
    <3>4. Len(stack) = 0 <=> n + 1 = 1
      <4>1. Len(stack) = 0 => n = 0
        BY ONLY <1>1 DEF InStep
      <4>2. Len(stack) # 0 => n # 0
        <5>1. Len(stack) # 0 => 1 \in 1 .. Len(stack)
          BY ONLY <1>1
        <5> QED
          BY ONLY <1>1, <1>9, <5>1
      <4> QED
        BY ONLY <1>1, <4>1, <4>2
    <3> QED
      BY ONLY <1>6, <1>8, <1>13, <3>1, <3>2, <3>3, <3>4 DEF EndsWith, n
  <2>5. Tree'
    BY ONLY <1>1, <1>6, <1>11, <2>1, <2>2, <2>4, CallEnds
  <2>6. StackTyped'
    BY ONLY <1>6, <2>3 DEF StackTyped
  <2>7. /\ Len(stack') = Len(stack)
        /\ \A k \in 1 .. Len(stack) : stack'[k].idx = stack[k].idx
    BY ONLY <1>1, <2>3 DEF EntryAdded
  <2>8. Nested'
    BY ONLY <1>1, <2>7 DEF Nested, IsNested
  <2>9. InStep'
    BY ONLY <1>1, <1>6, <2>2, <2>3, <2>7 DEF InStep
  <2>10. Typed'
    BY <1>3, <1>4, <1>6, <1>15, <2>3, <2>6, TypesTogether
  <2> QED
    BY ONLY <1>14, <1>16, <2>5, <2>8, <2>9, <2>10 DEF IInv
<1> QED
  BY ONLY <1>17, <1>18

-----------------------------------------------------------------------------
(* The steps of the loop over the entries.                                    *)

LEMMA ReadDirKeeps == IInv /\ ReadDir => IInv'
<1> SUFFICES ASSUME IInv, ReadDir
             PROVE  IInv'
  OBVIOUS
<1> DEFINE n == Len(inodes)
           k == Len(stack)
           fr == [idx |-> n, path |-> CallPath,
                  todo |-> SortedNames(Lstat(CallPath).id), children |-> << >>,
                  meta |-> NoMeta]
<1>1. /\ MetaTyped /\ InodesTyped /\ StackTyped /\ LinksTyped
      /\ n \in Nat /\ k \in Nat /\ errors \in 0 .. MaxErrors
      /\ phase = "readdir" /\ Nested /\ InStep /\ Tree /\ Unwired
  BY IInvFacts DEF ReadDir
<1>2. CASE Fail
  BY <1>1, <1>2, FailKeeps DEF ReadDir
<1>3. CASE ~ Fail
  <2>1. /\ phase' = "loop" /\ stack' = Append(stack, fr)
        /\ UNCHANGED <<meta, inodes, links, errors>>
        /\ UNCHANGED <<source, argument, changes>>
    BY <1>3 DEF ReadDir, world
  <2>2. /\ fr.idx = n /\ fr.path = CallPath
        /\ fr.todo = SortedNames(Lstat(CallPath).id)
        /\ fr.children = << >> /\ fr.meta = NoMeta
    OBVIOUS
  <2>3. IsFrame(fr) /\ Len(fr.children) = 0
    BY ONLY <2>2, NoElements DEF IsFrame
  <2> HIDE DEF fr
  <2>4. /\ n >= 1 /\ (k = 0 => n = 1)
        /\ \A j \in 1 .. k : stack[j].idx < n
    BY ONLY <1>1 DEF InStep
  <2>5. /\ CallsTyped(stack', n) /\ Len(stack') = k + 1
        /\ \A j \in 1 .. k : stack'[j].idx = stack[j].idx
        /\ stack'[k + 1].idx = n
        /\ \A d, g : OnCalls(stack', d, g) <=> OnCalls(stack, d, g)
    <3>1. fr.idx \in 1 .. n
      BY ONLY <1>1, <2>2, <2>4
    <3>2. n \in Nat /\ CallsTyped(stack, n)
      BY ONLY <1>1 DEF StackTyped
    <3> HIDE DEF n
    <3> QED
      BY ONLY <2>1, <2>2, <2>3, <3>1, <3>2, StartsCall
  <2>6. MetaTyped' /\ InodesTyped' /\ StackTyped' /\ LinksTyped'
    BY ONLY <1>1, <2>1, <2>5 DEF MetaTyped, InodesTyped, StackTyped, LinksTyped
  <2>7. \A j \in 1 .. k + 1 : j \in 1 .. k \/ j = k + 1
    BY ONLY <1>1
  <2>8. k + 1 \in 1 .. k + 1 /\ \A j \in 1 .. k : j \in 1 .. k + 1
    BY ONLY <1>1
  <2>9. \A i : IsOpen(i)' <=> IsOpen(i)
    BY ONLY <1>1, <2>1, <2>5, <2>7, <2>8 DEF IsOpen
  <2>10. Closed' = Closed
    BY ONLY <2>1, <2>9 DEF Closed
  <2>11. OpenAreEmpty'
    BY <1>1, <2>1, <2>9 DEF Tree, OpenAreEmpty
  <2>12. \A d, e : Has(d, e)' <=> Has(d, e)
    BY ONLY <2>1, <2>5 DEF Has
  <2>13. Tree'
    BY <1>1, <2>1, <2>10, <2>11, <2>12, TreeStays
  <2>14. Nested'
    <3>1. \A i, j \in 1 .. k : i < j => stack[i].idx < stack[j].idx
      BY ONLY <1>1 DEF Nested, IsNested
    <3>2. \A j \in 1 .. k : ~ (k + 1 < j)
      BY ONLY <1>1
    <3>3. ~ (k + 1 < k + 1)
      BY ONLY <1>1
    <3>4. \A i, j \in 1 .. k + 1 : i < j => stack'[i].idx < stack'[j].idx
      BY ONLY <2>4, <2>5, <2>7, <3>1, <3>2, <3>3
    <3>5. stack'[1].idx = 1
      <4>1. CASE k = 0
        BY ONLY <2>4, <2>5, <4>1
      <4>2. CASE k >= 1
        <5>1. 1 \in 1 .. k /\ stack[1].idx = 1
          BY ONLY <1>1, <4>2 DEF Nested, IsNested
        <5> QED
          BY ONLY <2>5, <5>1
      <4> QED
        BY ONLY <1>1, <4>1, <4>2
    <3> QED
      BY ONLY <2>5, <3>4, <3>5 DEF Nested, IsNested
  <2>15. InStep'
    BY ONLY <1>1, <2>1, <2>5 DEF InStep
  <2>16. Unwired'
    BY ONLY <1>1, <2>1 DEF Unwired
  <2>17. Typed'
    BY <1>1, <2>1, <2>6, TypesTogether
  <2> QED
    BY ONLY <2>1, <2>13, <2>14, <2>15, <2>16, <2>17 DEF IInv, ParentHoldsChild
<1> QED
  BY <1>2, <1>3

(* A link to a file that is known: its index is that of a complete inode, and  *)
(* the entry is not one of a directory.                                      *)
LEMMA LinkKeeps ==
  ASSUME IInv, phase = "loop", NEW m, MayBeLinked(m), m.id \in DOMAIN links,
         stack' = [stack EXCEPT ![Len(stack)] = AddEntry(@, links[m.id], m)],
         UNCHANGED <<phase, meta, inodes, links, source, argument, changes, errors>>
  PROVE  IInv'
<1> DEFINE n == Len(inodes)
           k == Len(stack)
           x == links[m.id]
           p == stack[k].idx
           e == Entry(Head(stack[k].todo), m, x)
<1>1. /\ MetaTyped /\ InodesTyped /\ StackTyped /\ LinksTyped
      /\ n \in Nat /\ k \in Nat /\ errors \in 0 .. MaxErrors
      /\ Nested /\ InStep /\ Tree /\ Unwired
  BY IInvFacts
<1>2. k >= 1 /\ k \in 1 .. k
  BY ONLY <1>1, phase = "loop" DEF InStep
<1>3. x \in Closed /\ x # 1 /\ x \in 1 .. n
  BY ONLY <1>1, m.id \in DOMAIN links DEF Tree, LinksLead, Closed
<1>4. e.idx = x /\ e.type = m.kind
  BY ONLY e = [name |-> Lossy[Head(stack[k].todo)], type |-> m.kind, idx |-> x]
  DEF Entry
<1>5. m.kind # "dir"
  BY DEF MayBeLinked
<1> HIDE DEF e, x
<1>6. CallsTyped(stack', n) /\ EntryAdded(stack', stack, x, e)
  <2>1. n \in Nat /\ CallsTyped(stack, n) /\ Len(stack) >= 1 /\ x \in 1 .. n
    BY ONLY <1>1, <1>2, <1>3 DEF StackTyped
  <2>2. stack' = [stack EXCEPT ![Len(stack)] = AddEntry(@, x, m)]
    BY DEF x
  <2> HIDE DEF n
  <2> QED
    BY ONLY <2>1, <2>2, AddsEntry DEF e
<1>7. /\ Len(stack') = k
      /\ \A j \in 1 .. k : stack'[j].idx = stack[j].idx
      /\ \A d, g : OnCalls(stack', d, g) <=>
                     OnCalls(stack, d, g) \/ (d = p /\ g = e)
  BY ONLY <1>6 DEF EntryAdded
<1>8. \A i : IsOpen(i)' <=> IsOpen(i)
  BY ONLY <1>7, UNCHANGED <<phase, inodes>> DEF IsOpen
<1>9. Closed' = Closed
  BY ONLY <1>8, UNCHANGED inodes DEF Closed
<1>10. OpenAreEmpty'
  BY ONLY <1>1, <1>8, UNCHANGED inodes DEF Tree, OpenAreEmpty
<1>11. LinksLead'
  BY ONLY <1>1, <1>9, UNCHANGED links DEF Tree, LinksLead
<1>12. \A d, g : Has(d, g)' <=> Has(d, g) \/ (d = p /\ g = e)
  BY ONLY <1>7, UNCHANGED inodes DEF Has
<1>13. p \in 1 .. n /\ p \notin Closed
  <2>1. p \in 1 .. n
    BY ONLY <1>1, <1>2 DEF StackTyped, CallsTyped
  <2>2. IsOpen(p)
    BY ONLY <1>2 DEF IsOpen
  <2> QED
    BY ONLY <2>1, <2>2 DEF Closed
<1> HIDE DEF p
<1>14. Grows({p}, e, {})
  BY ONLY <1>3, <1>4, <1>5, <1>9, <1>12, <1>13, UNCHANGED inodes DEF Grows
<1>15. Tree'
  BY ONLY <1>1, <1>10, <1>11, <1>14, TreeGrows
<1>16. Nested' /\ InStep' /\ Unwired'
  BY ONLY <1>1, <1>2, <1>7, phase = "loop", UNCHANGED <<phase, inodes>>
  DEF Nested, IsNested, InStep, Unwired
<1>17. MetaTyped' /\ InodesTyped' /\ StackTyped' /\ LinksTyped'
  BY ONLY <1>1, <1>6, UNCHANGED <<phase, meta, inodes, links>>
  DEF MetaTyped, InodesTyped, StackTyped, LinksTyped
<1>18. Typed'
  BY <1>1, <1>17, TypesTogether
<1> QED
  BY ONLY <1>15, <1>16, <1>18, phase = "loop", UNCHANGED phase
  DEF IInv, ParentHoldsChild

LEMMA DescendKeeps ==
  ASSUME IInv, phase = "loop", NEW m, Descend(m), m.id \in FileIds,
         UNCHANGED errors
  PROVE  IInv'
<1>1. /\ MetaTyped /\ InodesTyped /\ StackTyped /\ LinksTyped
      /\ Len(inodes) \in Nat /\ Len(stack) \in Nat /\ errors \in 0 .. MaxErrors
      /\ Nested /\ InStep /\ Tree /\ Unwired
  BY IInvFacts
<1>2. /\ stack' = [stack EXCEPT ![Len(stack)].meta = m]
      /\ phase' = "visit" /\ UNCHANGED <<meta, inodes, links, errors>>
      /\ UNCHANGED <<source, argument, changes>>
  BY DEF Descend, world
<1>3. Len(stack) >= 1
  BY ONLY <1>1, phase = "loop" DEF InStep
<1>4. CallsTyped(stack', Len(inodes)) /\ SameEntries(stack', stack)
  BY ONLY <1>1, <1>2, <1>3, KeepsMeta, m.id \in FileIds DEF StackTyped
<1>5. Tree' /\ Nested'
  BY <1>1, <1>2, <1>4, CallsStay
<1>6. InStep' /\ Unwired'
  <2>1. Len(stack') = Len(stack)
    BY ONLY <1>4 DEF SameEntries
  <2> QED
    BY ONLY <1>1, <1>2, <1>3, <2>1, phase = "loop" DEF InStep, Unwired
<1>7. MetaTyped' /\ InodesTyped' /\ StackTyped' /\ LinksTyped'
  BY ONLY <1>1, <1>2, <1>4 DEF MetaTyped, InodesTyped, StackTyped, LinksTyped
<1>8. Typed'
  BY <1>1, <1>2, <1>7, TypesTogether
<1> QED
  BY ONLY <1>2, <1>5, <1>6, <1>8 DEF IInv, ParentHoldsChild

LEMMA NextChildKeeps == IInv /\ NextChild => IInv'
<1> SUFFICES ASSUME IInv, NextChild
             PROVE  IInv'
  OBVIOUS
<1> DEFINE m == Lstat(CallPath)
<1>1. errors \in 0 .. MaxErrors /\ source \in Sources
  BY IInvFacts
<1>2. m = NoMeta \/ (m.id \in FileIds /\ m.kind \in Kinds)
  BY <1>1, LstatTyped
<1>3. /\ phase = "loop" /\ UNCHANGED errors
      /\ \/ Fail
         \/ /\ MayBeLinked(m) /\ m.id \in DOMAIN links
            /\ stack' = [stack EXCEPT ![Len(stack)] = AddEntry(@, links[m.id], m)]
            /\ UNCHANGED <<phase, meta, inodes, links, source, argument, changes>>
         \/ m # NoMeta /\ Descend(m)
  BY Zenon DEF NextChild, world
<1> HIDE DEF m
<1>4. CASE Fail
  BY <1>1, <1>3, <1>4, FailKeeps
<1>5. CASE /\ MayBeLinked(m) /\ m.id \in DOMAIN links
           /\ stack' = [stack EXCEPT ![Len(stack)] = AddEntry(@, links[m.id], m)]
           /\ UNCHANGED <<phase, meta, inodes, links, source, argument, changes>>
  BY <1>3, <1>5, LinkKeeps
<1>6. CASE m # NoMeta /\ Descend(m)
  BY <1>2, <1>3, <1>6, DescendKeeps
<1> QED
  BY ONLY <1>3, <1>4, <1>5, <1>6

(* A directory is complete: its inode takes the entries of its call.          *)
LEMMA ChildrenStored ==
  ASSUME InodesTyped, NEW x \in 1 .. Len(inodes), NEW s, IsSeq(s),
         LeadsWithin(s, Len(inodes)),
         inodes' = [inodes EXCEPT ![x].children = s]
  PROVE  /\ InodesTyped' /\ Len(inodes') = Len(inodes)
         /\ \A i \in 1 .. Len(inodes) : /\ i # x => inodes'[i] = inodes[i]
                                        /\ inodes'[i].parent = inodes[i].parent
                                        /\ inodes'[i].src = inodes[i].src
                                        /\ inodes'[i].kind = inodes[i].kind
                                        /\ inodes'[i].xattrs = inodes[i].xattrs
         /\ inodes'[x].children = s
<1> DEFINE n == Len(inodes)
           r == [inodes[x] EXCEPT !.children = s]
<1>1. /\ IsSeq(inodes)
      /\ \A i \in 1 .. n : /\ IsInode(inodes[i]) /\ inodes[i].parent \in 1 .. n
                           /\ LeadsWithin(inodes[i].children, n)
  BY DEF InodesTyped
<1>2. /\ IsInode(r) /\ r.children = s /\ r.parent = inodes[x].parent
      /\ r.src = inodes[x].src /\ r.kind = inodes[x].kind
      /\ r.xattrs = inodes[x].xattrs
  BY ONLY <1>1, InodeWithChildren, IsSeq(s), x \in 1 .. Len(inodes)
<1>3. inodes' = [inodes EXCEPT ![x] = r]
  OBVIOUS
<1> HIDE DEF r
<1>4. /\ IsSeq(inodes') /\ Len(inodes') = n /\ inodes'[x] = r
      /\ \A i \in 1 .. n : i # x => inodes'[i] = inodes[i]
  <2>1. IsSeq(inodes)
    BY ONLY <1>1
  <2> HIDE DEF n
  <2>2. /\ IsSeq([inodes EXCEPT ![x] = r])
        /\ Len([inodes EXCEPT ![x] = r]) = Len(inodes)
        /\ [inodes EXCEPT ![x] = r][x] = r
        /\ \A i \in 1 .. Len(inodes) :
             i # x => [inodes EXCEPT ![x] = r][i] = inodes[i]
    BY ONLY <2>1, ExceptIs, x \in 1 .. Len(inodes)
  <2> QED
    BY ONLY <1>3, <2>2 DEF n
<1>5. ASSUME NEW i \in 1 .. n
      PROVE  /\ IsInode(inodes'[i]) /\ inodes'[i].parent = inodes[i].parent
             /\ LeadsWithin(inodes'[i].children, n)
             /\ inodes'[i].src = inodes[i].src
             /\ inodes'[i].kind = inodes[i].kind
             /\ inodes'[i].xattrs = inodes[i].xattrs
  BY ONLY <1>1, <1>2, <1>4, LeadsWithin(s, Len(inodes))
<1>6. InodesTyped'
  BY ONLY <1>1, <1>4, <1>5 DEF InodesTyped
<1> QED
  BY ONLY <1>2, <1>4, <1>5, <1>6

LEMMA FinishDirKeeps == IInv /\ FinishDir => IInv'
<1> SUFFICES ASSUME IInv, FinishDir
             PROVE  IInv'
  OBVIOUS
<1> DEFINE n == Len(inodes)
           k == Len(stack)
           x == stack[k].idx
           s == stack[k].children
           callers == Front(stack)
<1>1. /\ MetaTyped /\ InodesTyped /\ StackTyped /\ LinksTyped
      /\ n \in Nat /\ k \in Nat /\ errors \in 0 .. MaxErrors
      /\ phase = "loop" /\ Nested /\ InStep /\ Tree /\ Unwired
  BY IInvFacts DEF FinishDir
<1>2. /\ inodes' = [inodes EXCEPT ![x].children = s]
      /\ Return(x, callers)
      /\ UNCHANGED <<errors, meta, source, argument, changes>>
  BY Zenon DEF FinishDir, Top, world
<1>3. k >= 1 /\ k \in 1 .. k
  BY ONLY <1>1 DEF InStep
<1>4. x \in 1 .. n /\ IsSeq(s) /\ LeadsWithin(s, n)
  BY ONLY <1>1, <1>3 DEF StackTyped, CallsTyped, IsFrame
<1>5. /\ CallsTyped(callers, n) /\ Len(callers) = k - 1
      /\ \A j \in 1 .. Len(callers) : callers[j].idx = stack[j].idx
      /\ \A d, g : OnCalls(stack, d, g) <=>
           OnCalls(callers, d, g) \/ (d = x /\ Among(s, g))
  <2>1. n \in Nat /\ CallsTyped(stack, n) /\ Len(stack) >= 1
    BY ONLY <1>1, <1>3 DEF StackTyped
  <2> HIDE DEF n
  <2> QED
    BY ONLY <2>1, EndsCall
<1> HIDE DEF x, s, callers
<1>6. /\ InodesTyped' /\ Len(inodes') = n
      /\ \A i \in 1 .. n : /\ i # x => inodes'[i] = inodes[i]
                           /\ inodes'[i].parent = inodes[i].parent
      /\ inodes'[x].children = s
  BY ONLY <1>1, <1>2, <1>4, ChildrenStored
<1>7. /\ CallsTyped(stack', n) /\ LinksTyped'
      /\ Len(callers) = 0 => phase' = "wire" /\ stack' = callers
      /\ Len(callers) >= 1 =>
            /\ phase' = "loop"
            /\ \E e : e.idx = x /\ EntryAdded(stack', callers, x, e)
  BY ONLY <1>1, <1>2, <1>4, <1>5, ReturnIs
<1>8. \A j \in 1 .. k : j \in 1 .. k - 1 \/ j = k
  BY ONLY <1>1
<1>9. \A j \in 1 .. k - 1 : j \in 1 .. k /\ j < k
  BY ONLY <1>1
<1>10. \A j \in 1 .. k - 1 : stack[j].idx < x /\ stack[j].idx \in 1 .. n
  <2>1. \A j \in 1 .. k - 1 : stack[j].idx < stack[k].idx
    BY ONLY <1>1, <1>3, <1>9 DEF Nested, IsNested
  <2>2. \A j \in 1 .. k - 1 : stack[j].idx \in 1 .. n
    BY ONLY <1>1, <1>9 DEF StackTyped, CallsTyped
  <2> QED
    BY ONLY <2>1, <2>2 DEF x
<1>11. \A j \in 1 .. k - 1 : stack[j].idx # x
  BY ONLY <1>1, <1>4, <1>10
<1>12. \A i : IsOpen(i) <=> i = x \/ \E j \in 1 .. k - 1 : stack[j].idx = i
  BY ONLY <1>1, <1>3, <1>8, <1>9 DEF IsOpen, x
<1>13. \A d \in 1 .. n : IsOpen(d) => Len(inodes[d].children) = 0
  BY ONLY <1>1 DEF Tree, OpenAreEmpty
<1>14. \A e : ~ Among(inodes[x].children, e)
  BY ONLY <1>4, <1>12, <1>13, AmongNone
<1>15. EndsWith(callers, x)
  <2>1. x \notin Closed
    BY ONLY <1>12 DEF Closed
  <2>2. \A i \in 1 .. n : i \in Closed \/ i = x <=>
          ~ \E j \in 1 .. Len(callers) : callers[j].idx = i
    BY ONLY <1>5, <1>11, <1>12 DEF Closed, n
  <2>3. \A d \in 1 .. n : \A e :
          Among(inodes'[d].children, e) \/ OnCalls(callers, d, e) <=> Has(d, e)
    <3>1. \A e : Among(inodes'[x].children, e) \/ OnCalls(callers, x, e)
                   <=> Has(x, e)
      BY ONLY <1>5, <1>6, <1>14 DEF Has
    <3>2. \A d \in 1 .. n : d # x => \A e :
            Among(inodes'[d].children, e) \/ OnCalls(callers, d, e) <=> Has(d, e)
      BY ONLY <1>5, <1>6 DEF Has
    <3> QED
      BY ONLY <3>1, <3>2
  <2>4. \A j \in 1 .. Len(callers) : Len(inodes'[callers[j].idx].children) = 0
    BY ONLY <1>5, <1>6, <1>10, <1>11, <1>12, <1>13
  <2>5. Len(callers) = 0 <=> x = 1
    <3>1. stack[1].idx = 1
      BY ONLY <1>1, <1>3 DEF Nested, IsNested
    <3>2. CASE k = 1
      BY ONLY <1>5, <3>1, <3>2 DEF x
    <3>3. CASE k # 1
      <4>1. k \in Nat /\ k >= 1
        BY ONLY <1>1, <1>3
      <4> HIDE DEF k
      <4>2. k - 1 \in Nat /\ k - 1 >= 1
        BY ONLY <3>3, <4>1
      <4>3. 1 \in 1 .. k - 1 /\ k - 1 # 0
        BY ONLY <4>2
      <4> QED
        BY ONLY <1>5, <1>11, <3>1, <4>3 DEF k
    <3> QED
      BY ONLY <3>2, <3>3
  <2> QED
    BY ONLY <1>6, <2>1, <2>2, <2>3, <2>4, <2>5 DEF EndsWith, n
<1>16. Tree'
  BY ONLY <1>1, <1>2, <1>4, <1>5, <1>6, <1>15, CallEnds
<1>17. /\ Len(stack') = k - 1
       /\ \A j \in 1 .. k - 1 : stack'[j].idx = stack[j].idx
  <2>1. CASE Len(callers) = 0
    BY ONLY <1>5, <1>7, <2>1
  <2>2. CASE Len(callers) >= 1
    BY ONLY <1>5, <1>7, <2>2 DEF EntryAdded
  <2> QED
    BY ONLY <1>1, <1>3, <1>5, <2>1, <2>2
<1>18. Nested'
  <2>1. k - 1 >= 1 => 1 \in 1 .. k - 1
    BY ONLY <1>1
  <2>2. Len(stack') >= 1 => stack'[1].idx = 1
    BY ONLY <1>1, <1>3, <1>17, <2>1 DEF Nested, IsNested
  <2>3. \A i, j \in 1 .. k - 1 : i < j => stack[i].idx < stack[j].idx
    BY ONLY <1>1, <1>9 DEF Nested, IsNested
  <2> QED
    BY ONLY <1>17, <2>2, <2>3 DEF Nested, IsNested
<1>19. InStep'
  <2>1. n >= 1
    BY ONLY <1>1, <1>4
  <2>2. k - 1 = 0 \/ k - 1 >= 1
    BY ONLY <1>1, <1>3
  <2>3. (phase' = "wire" /\ Len(stack') = 0) \/ (phase' = "loop" /\ Len(stack') >= 1)
    BY ONLY <1>5, <1>7, <1>17, <2>2
  <2> QED
    BY ONLY <1>6, <2>1, <2>3 DEF InStep
<1>20. phase' \in {"loop", "wire"}
  BY ONLY <1>2 DEF Return
<1>21. MetaTyped' /\ StackTyped' /\ Unwired'
  BY ONLY <1>1, <1>2, <1>6, <1>7, <1>20 DEF MetaTyped, StackTyped, Unwired
<1>22. Typed'
  BY <1>1, <1>2, <1>6, <1>7, <1>20, <1>21, TypesTogether
<1> QED
  BY ONLY <1>16, <1>18, <1>19, <1>20, <1>21, <1>22 DEF IInv, ParentHoldsChild

-----------------------------------------------------------------------------
(* set_parent_nids.                                                        *)

LEMMA HasIs ==
  ASSUME Len(stack) = 0, NEW d, NEW e
  PROVE  Has(d, e) <=> Among(inodes[d].children, e)
BY DEF Has, OnCalls

LEMMA ParentsAre ==
  ASSUME InodesTyped, Len(stack) = 0, NEW i
  PROVE  \A d : d \in Parents(i) <=>
           /\ d \in 1 .. Len(inodes)
           /\ \E e : Has(d, e) /\ e.type = "dir" /\ e.idx = i
<1>1. DOMAIN inodes = 1 .. Len(inodes)
  BY SeqFacts DEF InodesTyped
<1>2. \A d \in 1 .. Len(inodes) :
        DOMAIN inodes[d].children = 1 .. Len(inodes[d].children)
  BY SeqFacts DEF InodesTyped, IsInode
<1>3. \A d, e : Has(d, e) <=> \E c \in 1 .. Len(inodes[d].children) :
                                inodes[d].children[c] = e
  BY HasIs DEF Among
<1> QED
  BY ONLY <1>1, <1>2, <1>3 DEF Parents

(* No inode has two parents, so that the last is the only one.                *)
LEMMA WiredIs ==
  ASSUME InodesTyped, Len(stack) = 0, OneParent, NEW i \in 1 .. Len(inodes)
  PROVE  /\ Wired(i) \in 1 .. Len(inodes)
         /\ \A d \in Parents(i) : Wired(i) = d
<1>1. inodes[i].parent \in 1 .. Len(inodes) /\ Len(inodes) \in Nat
  BY SeqFacts DEF InodesTyped
<1>2. \A d, b \in Parents(i) : d = b
  BY ParentsAre DEF OneParent
<1>3. \A d \in Parents(i) : d \in 1 .. Len(inodes)
  BY ParentsAre
<1>4. ASSUME NEW d \in Parents(i)
      PROVE  Wired(i) = d
  <2>1. \A e \in Parents(i) : e <= d
    BY ONLY <1>1, <1>2, <1>3, <1>4
  <2>2. \E b \in Parents(i) : \A e \in Parents(i) : e <= b
    BY ONLY <1>4, <2>1
  <2>3. Wired(i) = CHOOSE b \in Parents(i) : \A e \in Parents(i) : e <= b
    BY <1>4 DEF Wired
  <2>4. Wired(i) \in Parents(i)
    BY ONLY <2>2, <2>3
  <2> QED
    BY ONLY <1>2, <1>4, <2>4
<1>5. Parents(i) = {} => Wired(i) \in 1 .. Len(inodes)
  BY <1>1 DEF Wired
<1> QED
  BY ONLY <1>3, <1>4, <1>5

LEMMA SetParentNidsKeeps == IInv /\ SetParentNids => IInv'
<1> SUFFICES ASSUME IInv, SetParentNids
             PROVE  IInv'
  OBVIOUS
<1> DEFINE n == Len(inodes)
           r(i) == IF inodes[i].kind = "dir"
                     THEN [inodes[i] EXCEPT !.parent = Wired(i)]
                     ELSE inodes[i]
<1>1. /\ MetaTyped /\ InodesTyped /\ StackTyped /\ LinksTyped
      /\ n \in Nat /\ Len(stack) \in Nat /\ errors \in 0 .. MaxErrors
      /\ phase = "wire" /\ Nested /\ InStep /\ Tree /\ Unwired
      /\ DOMAIN inodes = 1 .. n
  BY IInvFacts, SeqFacts DEF SetParentNids, InodesTyped
<1>2. /\ phase' = "done"
      /\ inodes' = [i \in 1 .. n |-> r(i)]
      /\ UNCHANGED <<stack, meta, links, errors, source, argument, changes>>
  BY <1>1 DEF SetParentNids, world
<1>3. Len(stack) = 0 /\ n >= 1 /\ OneParent
  BY ONLY <1>1 DEF InStep, Tree
<1>4. ASSUME NEW i \in 1 .. n
      PROVE  /\ IsInode(r(i)) /\ r(i).children = inodes[i].children
             /\ r(i).kind = inodes[i].kind /\ r(i).parent \in 1 .. n
             /\ r(i).kind = "dir" => r(i).parent = Wired(i)
             /\ r(i).kind # "dir" => r(i).parent = inodes[i].parent
  <2>1. IsInode(inodes[i]) /\ inodes[i].parent \in 1 .. n
    BY ONLY <1>1 DEF InodesTyped
  <2>2. Wired(i) \in 1 .. n
    BY ONLY <1>1, <1>3, WiredIs
  <2>3. CASE inodes[i].kind = "dir"
    <3> DEFINE d == Wired(i)
               new == [inodes[i] EXCEPT !.parent = d]
    <3>1. r(i) = new
      BY ONLY <2>3
    <3>2. d \in 1 .. n
      BY ONLY <2>2
    <3> HIDE DEF d, r
    <3>3. /\ IsInode(new) /\ new.children = inodes[i].children
          /\ new.parent = d /\ new.kind = inodes[i].kind
      BY ONLY <2>1, InodeWithParent
    <3> QED
      BY ONLY <2>3, <3>1, <3>2, <3>3 DEF d
  <2>4. CASE inodes[i].kind # "dir"
    BY ONLY <2>1, <2>4
  <2> QED
    BY ONLY <2>3, <2>4
<1> HIDE DEF r
<1>5. IsSeq(inodes') /\ Len(inodes') = n /\ \A i \in 1 .. n : inodes'[i] = r(i)
  <2>1. \A i \in 1 .. n : inodes'[i] = r(i)
    BY ONLY <1>2
  <2>2. inodes' = [i \in 1 .. n |-> inodes'[i]]
    BY ONLY <1>2
  <2>3. n \in Nat
    BY ONLY <1>1
  <2> HIDE DEF n
  <2> QED
    BY ONLY <2>1, <2>2, <2>3, FunctionIs
<1>6. InodesTyped'
  <2>1. \A i \in 1 .. n : LeadsWithin(inodes[i].children, n)
    BY ONLY <1>1 DEF InodesTyped
  <2> QED
    BY ONLY <1>4, <1>5, <2>1 DEF InodesTyped
<1>7. MetaTyped' /\ StackTyped' /\ LinksTyped' /\ Nested' /\ InStep' /\ Unwired'
  BY ONLY <1>1, <1>2, <1>3, <1>5
  DEF MetaTyped, StackTyped, CallsTyped, LinksTyped, Nested, IsNested, InStep,
      Unwired
<1>8. \A i : IsOpen(i)' <=> IsOpen(i)
  BY ONLY <1>1, <1>2, <1>3 DEF IsOpen
<1>9. Closed' = Closed
  BY ONLY <1>5, <1>8 DEF Closed
<1>10. OpenAreEmpty'
  BY ONLY <1>2, <1>3 DEF OpenAreEmpty, IsOpen
<1>11. \A d \in 1 .. n : \A e : Has(d, e)' <=> Has(d, e)
  BY ONLY <1>2, <1>4, <1>5 DEF Has
<1>12. Tree'
  BY <1>1, <1>2, <1>5, <1>9, <1>10, <1>11, TreeStays
<1>13. 1 \in 1 .. n
  BY ONLY <1>1, <1>3
<1>14. inodes'[1].parent = 1
  <2>1. inodes[1].parent = 1
    BY ONLY <1>1, <1>13 DEF Unwired
  <2>2. Parents(1) = {}
    <3>1. \A d \in 1 .. n : \A e : Has(d, e) => e.idx # 1
      BY ONLY <1>1 DEF Tree, EntriesLead
    <3> QED
      BY ONLY <1>1, <1>3, <3>1, ParentsAre
  <2>3. Wired(1) = 1
    BY ONLY <2>1, <2>2 DEF Wired
  <2> QED
    BY ONLY <1>4, <1>5, <1>13, <2>1, <2>3
<1>15. ASSUME NEW d \in 1 .. n, NEW c \in 1 .. Len(inodes[d].children),
              inodes[d].children[c].type = "dir",
              inodes[inodes[d].children[c].idx].kind = "dir"
       PROVE  inodes'[inodes[d].children[c].idx].parent = d
  <2> DEFINE e == inodes[d].children[c]
  <2>1. e.idx \in 1 .. n
    BY ONLY <1>1, d \in 1 .. n, c \in 1 .. Len(inodes[d].children)
    DEF InodesTyped, LeadsWithin
  <2>2. Has(d, e)
    BY DEF Has, Among
  <2>3. d \in Parents(e.idx)
    BY ONLY <1>1, <1>3, <1>15, <2>2, ParentsAre
  <2>4. Wired(e.idx) = d
    BY ONLY <1>1, <1>3, <2>1, <2>3, WiredIs
  <2> QED
    BY ONLY <1>4, <1>5, <1>15, <2>1, <2>4
<1>16. ParentHoldsChild'
  <2>1. DOMAIN inodes' = 1 .. n
    BY ONLY <1>2
  <2>2. \A d \in 1 .. n : /\ inodes'[d].children = inodes[d].children
                          /\ inodes'[d].kind = inodes[d].kind
    BY ONLY <1>4, <1>5
  <2>3. \A d \in 1 .. n :
          /\ DOMAIN inodes[d].children = 1 .. Len(inodes[d].children)
          /\ \A c \in 1 .. Len(inodes[d].children) :
               inodes[d].children[c].idx \in 1 .. n
    <3>1. \A d \in 1 .. n : IsSeq(inodes[d].children)
      BY ONLY <1>1 DEF InodesTyped, IsInode
    <3> QED
      BY ONLY <1>1, <3>1, SeqFacts DEF InodesTyped, LeadsWithin
  <2>4. ASSUME NEW d \in DOMAIN inodes', NEW c \in DOMAIN inodes'[d].children,
               inodes'[d].children[c].type = "dir",
               inodes'[inodes'[d].children[c].idx].kind = "dir"
        PROVE  inodes'[inodes'[d].children[c].idx].parent = d
    <3> DEFINE x == inodes[d].children[c].idx
    <3>1. /\ d \in 1 .. n /\ c \in 1 .. Len(inodes[d].children)
          /\ inodes'[d].children = inodes[d].children
      BY ONLY <2>1, <2>2, <2>3
    <3>2. x \in 1 .. n
      BY ONLY <2>3, <3>1
    <3>3. inodes[x].kind = "dir" /\ inodes[d].children[c].type = "dir"
      BY ONLY <2>2, <2>4, <3>1, <3>2
    <3>4. inodes'[x].parent = d
      BY ONLY <1>15, <3>1, <3>3
    <3> QED
      BY ONLY <3>1, <3>4
  <2> QED
    BY ONLY <1>14, <2>4 DEF ParentHoldsChild, InodeList
<1>17. Typed'
  BY <1>1, <1>2, <1>6, <1>7, TypesTogether
<1> QED
  BY ONLY <1>7, <1>12, <1>16, <1>17 DEF IInv

-----------------------------------------------------------------------------
(* The invariant, and the theorems.                                          *)

(* Whatever happens to the source, every step keeps what has been built a     *)
(* tree, up to the calls that are still active.                               *)
THEOREM Invariant == Spec => []IInv
<1>1. ASSUME IInv, [Next]_vars
      PROVE  IInv'
  <2>1. CASE Build
    BY <1>1, <2>1, CheckSourceKeeps, StatKeeps, ReadContentKeeps,
       ReadAttrsKeeps, ReadDirKeeps, NextChildKeeps, FinishDirKeeps,
       SetParentNidsKeeps, CallFailsKeeps DEF Build
  <2>2. CASE ChangeSource
    BY <1>1, <2>2, ChangeSourceKeeps
  <2>3. CASE UNCHANGED vars
    BY <1>1, <2>3, StutterKeeps
  <2> QED
    BY <1>1, <2>1, <2>2, <2>3 DEF Next
<1> QED
  BY <1>1, InitInv, PTL DEF Spec

(* The variables of build_tree have their types: every index in an entry, in  *)
(* an active call or in ".." is that of an inode of the list.                  *)
THEOREM TreeTypeCorrect == Spec => []TypeOK
<1>1. ASSUME IInv
      PROVE  TypeOK
  <2>1. /\ WorldTyped /\ MetaTyped /\ InodesTyped /\ StackTyped /\ LinksTyped
    BY <1>1, IInvFacts
  <2>2. /\ DOMAIN inodes = 1 .. Len(inodes) /\ DOMAIN stack = 1 .. Len(stack)
    BY <2>1, SeqFacts DEF InodesTyped, StackTyped, CallsTyped
  <2>3. \A i \in 1 .. Len(inodes) :
          DOMAIN inodes[i].children = 1 .. Len(inodes[i].children)
    BY <2>1, SeqFacts DEF InodesTyped, IsInode
  <2>4. \A i \in InodeList :
          /\ inodes[i].src \in FileIds /\ inodes[i].kind \in Kinds
          /\ inodes[i].parent \in InodeList
          /\ \A c \in DOMAIN inodes[i].children :
               inodes[i].children[c].idx \in InodeList
    BY ONLY <2>1, <2>2, <2>3 DEF InodeList, InodesTyped, IsInode, LeadsWithin
  <2>5. \A n \in DOMAIN stack : stack[n].idx \in InodeList
    BY ONLY <2>1, <2>2 DEF InodeList, StackTyped, CallsTyped
  <2> QED
    BY ONLY <2>1, <2>4, <2>5 DEF TypeOK, WorldTyped, MetaTyped, LinksTyped
<1> QED
  BY <1>1, Invariant, PTL

(* set_parent_nids: in the list of a finished build ".." of a directory leads *)
(* to the directory that holds it, and of the root to the root, however the    *)
(* source was changed while it was read.                                    *)
THEOREM ParentsHoldTheirChildren == Spec => []ParentHoldsChild
<1>1. IInv => ParentHoldsChild
  BY DEF IInv
<1> QED
  BY <1>1, Invariant, PTL

(* build_tree: the list of a finished build is a tree apart from hard links.   *)
(* No set of directories holds all the entries that lead to them, and every    *)
(* inode but the root is in some directory, however the source was changed     *)
(* while it was read.                                                       *)
THEOREM BuildsATree == Spec => []FormsATree
<1>1. ASSUME IInv, phase = "done"
      PROVE  FormsATree
  <2>1. /\ InodesTyped /\ InStep /\ Reached /\ NoCycle
    BY <1>1, IInvFacts DEF Tree
  <2>2. Len(stack) = 0 /\ DOMAIN inodes = 1 .. Len(inodes)
    BY <1>1, <2>1, SeqFacts DEF InStep, InodesTyped
  <2>3. Closed = 1 .. Len(inodes)
    BY ONLY <1>1, <2>2 DEF Closed, IsOpen
  <2>4. \A d \in 1 .. Len(inodes) : \A e : Has(d, e) <=>
          \E c \in DOMAIN inodes[d].children : inodes[d].children[c] = e
    <3>1. \A d \in 1 .. Len(inodes) :
            DOMAIN inodes[d].children = 1 .. Len(inodes[d].children)
      BY ONLY <2>1, SeqFacts DEF InodesTyped, IsInode
    <3> QED
      BY ONLY <2>2, <3>1, HasIs DEF Among
  <2>5. ASSUME NEW S \in SUBSET {i \in InodeList : inodes[i].kind = "dir"},
               S # {}
        PROVE  \E i \in S : \A d \in S : \A c \in DOMAIN inodes[d].children :
                 inodes[d].children[c].idx # i
    <3>1. S \in SUBSET Closed
      BY ONLY <2>2, <2>3, <2>5 DEF InodeList
    <3>2. PICK i \in S : \A d \in S : \A e : Has(d, e) => e.idx # i
      BY ONLY <2>1, <2>5, <3>1 DEF NoCycle
    <3>3. \A d \in S : d \in 1 .. Len(inodes)
      BY ONLY <2>3, <3>1
    <3> QED
      BY ONLY <2>4, <3>2, <3>3
  <2>6. ASSUME NEW i \in InodeList, i # 1
        PROVE  \E d \in InodeList : \E c \in DOMAIN inodes[d].children :
                 inodes[d].children[c].idx = i
    <3>1. i \in Closed \ {1}
      BY ONLY <2>2, <2>3, <2>6 DEF InodeList
    <3>2. PICK d \in 1 .. Len(inodes) : \E e : Has(d, e) /\ e.idx = i
      BY ONLY <2>1, <3>1 DEF Reached
    <3>3. \E c \in DOMAIN inodes[d].children : inodes[d].children[c].idx = i
      BY ONLY <2>4, <3>2
    <3> QED
      BY ONLY <2>2, <3>3 DEF InodeList
  <2> QED
    BY ONLY <2>5, <2>6 DEF FormsATree
<1>2. IInv => FormsATree
  BY <1>1 DEF FormsATree
<1> QED
  BY <1>2, Invariant, PTL

-----------------------------------------------------------------------------
(* A source that nobody changes.                                           *)

(* The names in directory F of source s in order, and the file of the c-th.    *)
NamesOf(s, F) == {n \in Names : s.ents[F][n] # NoFile}
Listed(s, F) == InOrder(NamesOf(s, F))
Nth(s, F, c) == s.ents[F][Listed(s, F)[c]]

(* What lstat and the calls for xattrs say of file f.                        *)
Stated(s, f) == [id |-> f, kind |-> s.kind[f], nlink |-> Nlink(s, f)]
Indexed(s, f) == IF f \in Files THEN {x \in s.xattrs[f] : XattrIndex[x] # 0} ELSE {}
AllXattrs(s, f) == [x \in Indexed(s, f) |-> "value"]

(* The first entries of a directory are those for its first names.            *)
EntryOf(s, list, F, c, e) ==
  /\ e = [name |-> Lossy[Listed(s, F)[c]], type |-> s.kind[Nth(s, F, c)],
          idx |-> e.idx]
  /\ list[e.idx].src = Nth(s, F, c)
EntriesOf(s, list, F, ents) ==
  \A c \in 1 .. Len(ents) : EntryOf(s, list, F, c, ents[c])

(* A call on a directory: what it has done and what it has still to do.        *)
CallCopies(s, list, fr) ==
  LET F == list[fr.idx].src
  IN /\ F \in Files /\ s.kind[F] = "dir"
     /\ fr.path \in Seq(Names) /\ Resolve(s, fr.path) = F
     /\ IsSeq(fr.todo)
     /\ Len(fr.children) + Len(fr.todo) = Cardinality(NamesOf(s, F))
     /\ \A j \in 1 .. Len(fr.todo) :
          fr.todo[j] = Listed(s, F)[Len(fr.children) + j]
     /\ EntriesOf(s, list, F, fr.children)

(* The file of the entry that the call makes next, when it is visiting it.     *)
Child(s, list, fr) == Nth(s, list[fr.idx].src, Len(fr.children) + 1)
Visits(s, list, fr) ==
  Len(fr.todo) >= 1 /\ fr.meta = Stated(s, Child(s, list, fr))

CallsCopy(s, list, stk) ==
  /\ \A n \in 1 .. Len(stk) : CallCopies(s, list, stk[n])
  /\ \A n \in 1 .. Len(stk) : n + 1 \in 1 .. Len(stk) =>
       /\ Visits(s, list, stk[n])
       /\ list[stk[n + 1].idx].src = Child(s, list, stk[n])

(* The file that the call in progress is for.                                *)
Current(s, list, stk) ==
  IF Len(stk) = 0 THEN Root ELSE Child(s, list, stk[Len(stk)])

Visiting == {"visit", "content", "attrs", "readdir"}
InVisit(s, ph, stk, m, list, lks) ==
  LET f == Current(s, list, stk)
  IN /\ ph \in Visiting /\ Len(stk) >= 1 => Visits(s, list, stk[Len(stk)])
     /\ ph \in {"content", "attrs"} => m = Stated(s, f)
     /\ ph = "readdir" => list[Len(list)].src = f /\ s.kind[f] = "dir"
     /\ ph \in {"visit", "content", "attrs"} /\ Len(stk) >= 1 =>
          ~ (MayBeLinked(Stated(s, f)) /\ f \in DOMAIN lks)

(* Every inode is that of a file, and no other is that of the same file.       *)
FilesCopied(s, list) ==
  /\ \A i \in 1 .. Len(list) : list[i].src \in Files
                               /\ list[i].kind = s.kind[list[i].src]
  /\ \A i, k \in 1 .. Len(list) : list[i].src = list[k].src => i = k
  /\ Len(list) >= 1 => list[1].src = Root

(* The inodes that are complete.                                           *)
Complete(ph, stk, list) ==
  {i \in 1 .. Len(list) : /\ ~ \E n \in 1 .. Len(stk) : stk[n].idx = i
                          /\ ~ (ph = "readdir" /\ i = Len(list))}

DirCopied(s, list, i) ==
  /\ Len(list[i].children) = IF list[i].kind = "dir"
                               THEN Cardinality(NamesOf(s, list[i].src)) ELSE 0
  /\ EntriesOf(s, list, list[i].src, list[i].children)
DirsCopied(s, list, done) == \A i \in done : DirCopied(s, list, i)

LinksKnown(s, list, lks, done) ==
  /\ \A f \in DOMAIN lks : list[lks[f]].src = f
  /\ \A i \in done \ {1} :
       MayBeLinked(Stated(s, list[i].src)) => list[i].src \in DOMAIN lks

Defective(s, list) ==
  {i \in 1 .. Len(list) : list[i].xattrs # AllXattrs(s, list[i].src)}

Copies(s, ph, stk, m, list, lks, errs) ==
  /\ FilesCopied(s, list)
  /\ CallsCopy(s, list, stk)
  /\ InVisit(s, ph, stk, m, list, lks)
  /\ DirsCopied(s, list, Complete(ph, stk, list))
  /\ LinksKnown(s, list, lks, Complete(ph, stk, list))
  /\ Cardinality(Defective(s, list)) <= errs

CopyInv ==
  argument = "dir" /\ changes = 0 /\ phase # "failed" =>
    Copies(source, phase, stack, meta, inodes, links, errors)

(* The argument is a symbolic link.                                          *)
LinkStated == [id |-> LinkFile, kind |-> "lnk", nlink |-> 1]
LinkAlone ==
  argument = "link" /\ phase # "failed" =>
    /\ Len(stack) = 0 /\ Len(inodes) <= 1 /\ phase \notin {"readdir", "loop"}
    /\ phase \in {"content", "attrs"} => meta = LinkStated
    /\ Len(inodes) = 1 => inodes[1].src = LinkFile

-----------------------------------------------------------------------------
(* Induction over the natural numbers, for sets instead of predicates.        *)

LEMMA LeastNat ==
  ASSUME NEW T \in SUBSET Nat, T # {}
  PROVE  \E n \in T : \A m \in T : n <= m
<1>1. \E x \in T : \A y \in T : ~ (<<y, x>> \in OpToRel(<, Nat))
  BY NatLessThanWellFounded, WFMin
<1>2. PICK n \in T : \A y \in T : ~ (<<y, n>> \in OpToRel(<, Nat))
  BY <1>1
<1>3. \A m \in T : m < n => <<m, n>> \in OpToRel(<, Nat)
  BY DEF OpToRel
<1>4. \A m \in T : m \in Nat /\ n \in Nat /\ ~ (m < n)
  BY <1>2, <1>3
<1> QED
  BY <1>4

LEMMA SetInduction ==
  ASSUME NEW S, 0 \in S, \A n \in Nat : n \in S => n + 1 \in S
  PROVE  \A n \in Nat : n \in S
<1> SUFFICES ASSUME \E n \in Nat : n \notin S
             PROVE  FALSE
  OBVIOUS
<1> DEFINE T == Nat \ S
<1>1. T \in SUBSET Nat /\ T # {}
  OBVIOUS
<1>2. PICK n \in T : \A m \in T : n <= m
  BY <1>1, LeastNat
<1>3. n # 0 /\ n \in Nat
  OBVIOUS
<1>4. n - 1 \in Nat /\ n - 1 \notin T
  BY <1>2, <1>3
<1>5. n - 1 \in S /\ (n - 1) + 1 = n
  BY <1>3, <1>4
<1> QED
  BY <1>4, <1>5

-----------------------------------------------------------------------------
(* Names in order: the number of smaller names is the place of a name.        *)

Smaller(names, n) == {o \in names : o < n}

LEMMA Ranks ==
  ASSUME NEW names \in SUBSET Nat, IsFiniteSet(names)
  PROVE  /\ Cardinality(names) \in Nat
         /\ \A n \in names :
              Cardinality(Smaller(names, n)) \in 0 .. Cardinality(names) - 1
         /\ \A n, o \in names :
              Cardinality(Smaller(names, n)) = Cardinality(Smaller(names, o))
                => n = o
<1>1. Cardinality(names) \in Nat
  BY FS_CardinalityType
<1>2. \A n \in names : Smaller(names, n) \in SUBSET names
  BY DEF Smaller
<1>3. \A n \in names : /\ IsFiniteSet(Smaller(names, n))
                       /\ Cardinality(Smaller(names, n)) \in Nat
  BY ONLY <1>2, IsFiniteSet(names), FS_Subset, FS_CardinalityType
<1>4. ASSUME NEW T \in SUBSET names, NEW n \in names, Smaller(names, n) \in SUBSET T,
             n \in T
      PROVE  Cardinality(Smaller(names, n)) + 1 <= Cardinality(T)
  <2> DEFINE S == Smaller(names, n)
  <2>1. n \notin S
    BY DEF Smaller
  <2>2. Cardinality(S \cup {n}) = Cardinality(S) + 1
    BY ONLY <2>1, <1>3, FS_AddElement
  <2>3. IsFiniteSet(T) /\ S \cup {n} \in SUBSET T
    BY ONLY <1>4, IsFiniteSet(names), FS_Subset
  <2>4. Cardinality(S \cup {n}) <= Cardinality(T)
    BY ONLY <2>3, FS_Subset
  <2> QED
    BY ONLY <2>2, <2>4
<1>5. ASSUME NEW n \in names
      PROVE  Cardinality(Smaller(names, n)) \in 0 .. Cardinality(names) - 1
  <2>1. Cardinality(Smaller(names, n)) + 1 <= Cardinality(names)
    BY ONLY <1>2, <1>4
  <2> QED
    BY ONLY <2>1, <1>1, <1>3
<1>6. ASSUME NEW n \in names, NEW o \in names, n < o
      PROVE  Cardinality(Smaller(names, n)) # Cardinality(Smaller(names, o))
  <2>1. /\ Smaller(names, o) \in SUBSET names
        /\ Smaller(names, n) \in SUBSET Smaller(names, o)
        /\ n \in Smaller(names, o)
    <3>1. \A p \in names : p < n => p < o
      <4>1. \A p \in Nat : n \in Nat /\ o \in Nat /\ n < o /\ p < n => p < o
        OBVIOUS
      <4>2. \A p \in names : p \in Nat
        OBVIOUS
      <4> QED
        BY ONLY <1>6, <4>1, <4>2
    <3> QED
      BY ONLY <1>6, <3>1 DEF Smaller
  <2>2. Cardinality(Smaller(names, n)) + 1 <= Cardinality(Smaller(names, o))
    BY ONLY <2>1, <1>4
  <2> QED
    BY ONLY <2>2, <1>3
<1>7. \A n, o \in names : n < o \/ o < n \/ n = o
  OBVIOUS
<1> QED
  BY ONLY <1>1, <1>5, <1>6, <1>7

LEMMA InOrderLists ==
  ASSUME NEW names \in SUBSET Nat, IsFiniteSet(names)
  PROVE  LET s == InOrder(names)
             n == Cardinality(names)
         IN /\ n \in Nat /\ IsSeq(s) /\ Len(s) = n
            /\ \A k \in 1 .. n : s[k] \in names
            /\ \A k, j \in 1 .. n : s[k] = s[j] => k = j
<1> DEFINE n == Cardinality(names)
           s == InOrder(names)
           rank == [o \in names |-> Cardinality(Smaller(names, o))]
<1>1. /\ n \in Nat
      /\ \A o \in names : Cardinality(Smaller(names, o)) \in 0 .. n - 1
      /\ \A o, p \in names :
           Cardinality(Smaller(names, o)) = Cardinality(Smaller(names, p)) => o = p
  BY Ranks
<1>2. IsFiniteSet(0 .. n - 1) /\ Cardinality(0 .. n - 1) = n
  <2>1. 0 \in Int /\ n - 1 \in Int /\ (IF 0 > n - 1 THEN 0 ELSE (n - 1) - 0 + 1) = n
    BY ONLY <1>1
  <2> HIDE DEF n
  <2> QED
    BY ONLY <2>1, FS_Interval
<1>3. rank \in Injection(names, 0 .. n - 1)
  BY ONLY <1>1 DEF Injection, IsInjective
<1>4. rank \in Surjection(names, 0 .. n - 1)
  <2> HIDE DEF rank
  <2> QED
    BY ONLY <1>2, <1>3, FS_Injection DEF n
<1>5. ASSUME NEW k \in 1 .. n
      PROVE  \E o \in names : Cardinality(Smaller(names, o)) = k - 1
  <2>1. k - 1 \in 0 .. n - 1
    BY ONLY <1>1
  <2>2. \E o \in names : rank[o] = k - 1
    BY ONLY <1>4, <2>1 DEF Surjection
  <2> QED
    BY ONLY <2>2
<1>6. s = [k \in 1 .. n |->
             CHOOSE o \in names : Cardinality(Smaller(names, o)) = k - 1]
  BY DEF InOrder, Smaller
<1> HIDE DEF s
<1>7. \A k \in 1 .. n : /\ s[k] \in names
                        /\ Cardinality(Smaller(names, s[k])) = k - 1
  BY ONLY <1>5, <1>6
<1>8. \A k, j \in 1 .. n : s[k] = s[j] => k = j
  <2>1. \A k, j \in 1 .. n : k - 1 = j - 1 => k = j
    BY ONLY <1>1
  <2> QED
    BY ONLY <1>7, <2>1
<1>9. s = [k \in 1 .. n |-> s[k]]
  BY ONLY <1>6
<1>10. IsSeq(s) /\ Len(s) = n
  <2> HIDE DEF n
  <2> QED
    BY ONLY <1>1, <1>9, FunctionIs
<1> QED
  BY ONLY <1>1, <1>7, <1>8, <1>10 DEF s, n

-----------------------------------------------------------------------------
(* The recursion of Resolve has a solution: the files along the path.         *)

Follow(s, f, n) ==
  IF f # NoFile /\ s.kind[f] = "dir" THEN s.ents[f][n] ELSE NoFile
IsRoute(s, path, n, r) ==
  r[0] = Root /\ \A i \in 1 .. n : r[i] = Follow(s, r[i - 1], path[i])

LEMMA RouteExists ==
  ASSUME NEW s, NEW path, NEW n \in Nat
  PROVE  \E r : r = [i \in 0 .. n |-> r[i]] /\ IsRoute(s, path, n, r)
<1> DEFINE S == {m \in Nat : \E r : /\ r = [i \in 0 .. m |-> r[i]]
                                    /\ IsRoute(s, path, m, r)}
<1>1. 0 \in S
  <2> DEFINE r == [i \in 0 .. 0 |-> Root]
  <2>1. r = [i \in 0 .. 0 |-> r[i]] /\ r[0] = Root
    OBVIOUS
  <2>2. IsRoute(s, path, 0, r)
    BY ONLY <2>1 DEF IsRoute
  <2> QED
    BY <2>1, <2>2
<1>2. ASSUME NEW m \in Nat, m \in S
      PROVE  m + 1 \in S
  <2>1. PICK r : r = [i \in 0 .. m |-> r[i]] /\ IsRoute(s, path, m, r)
    BY <1>2
  <2> DEFINE x == Follow(s, r[m], path[m + 1])
             t == [i \in 0 .. m + 1 |-> IF i <= m THEN r[i] ELSE x]
  <2>2. /\ t = [i \in 0 .. m + 1 |-> t[i]] /\ t[m + 1] = x
        /\ \A i \in 0 .. m : t[i] = r[i]
    OBVIOUS
  <2> HIDE DEF t
  <2>3. /\ 0 \in 0 .. m /\ m \in 0 .. m /\ (m + 1) - 1 = m
        /\ \A i \in 1 .. m : i \in 0 .. m /\ i - 1 \in 0 .. m
        /\ \A i \in 1 .. m + 1 : i \in 1 .. m \/ i = m + 1
    BY ONLY m \in Nat
  <2>4. r[0] = Root /\ \A i \in 1 .. m : r[i] = Follow(s, r[i - 1], path[i])
    BY ONLY <2>1 DEF IsRoute
  <2>5. \A i \in 1 .. m : t[i] = Follow(s, t[i - 1], path[i])
    BY ONLY <2>2, <2>3, <2>4
  <2>6. t[m + 1] = Follow(s, t[(m + 1) - 1], path[m + 1])
    BY ONLY <2>2, <2>3
  <2>7. IsRoute(s, path, m + 1, t)
    BY ONLY <2>2, <2>3, <2>4, <2>5, <2>6 DEF IsRoute
  <2> QED
    BY <2>2, <2>7
<1> HIDE DEF S
<1>3. n \in S
  BY ONLY <1>1, <1>2, SetInduction, n \in Nat
<1> QED
  BY <1>3 DEF S

LEMMA RouteUnique ==
  ASSUME NEW s, NEW path, NEW n \in Nat, NEW r, NEW t,
         IsRoute(s, path, n, r), IsRoute(s, path, n, t)
  PROVE  r[n] = t[n]
<1> DEFINE S == {m \in Nat : m <= n => r[m] = t[m]}
<1>1. 0 \in S
  BY DEF IsRoute
<1>2. ASSUME NEW m \in Nat, m \in S
      PROVE  m + 1 \in S
  <2> SUFFICES ASSUME m + 1 <= n
               PROVE  r[m + 1] = t[m + 1]
    OBVIOUS
  <2>1. m + 1 \in 1 .. n /\ (m + 1) - 1 = m /\ m <= n
    OBVIOUS
  <2>2. /\ r[m + 1] = Follow(s, r[(m + 1) - 1], path[m + 1])
        /\ t[m + 1] = Follow(s, t[(m + 1) - 1], path[m + 1])
    BY ONLY <2>1, IsRoute(s, path, n, r), IsRoute(s, path, n, t) DEF IsRoute
  <2>3. r[m] = t[m]
    BY <2>1, <1>2
  <2> QED
    BY ONLY <2>1, <2>2, <2>3
<1> HIDE DEF S
<1>3. n \in S
  BY ONLY <1>1, <1>2, SetInduction, n \in Nat
<1> QED
  BY <1>3 DEF S

LEMMA ResolveIs ==
  ASSUME NEW s, NEW path, NEW n \in Nat, Len(path) = n, NEW r,
         IsRoute(s, path, n, r)
  PROVE  Resolve(s, path) = r[n]
<1> DEFINE Rec(h) == [i \in 0 .. n |-> IF i = 0 THEN Root
                                       ELSE Follow(s, h[i - 1], path[i])]
           c == CHOOSE h : h = Rec(h)
<1>1. PICK t : t = [i \in 0 .. n |-> t[i]] /\ IsRoute(s, path, n, t)
  BY RouteExists
<1>2. t = Rec(t)
  <2>1. \A i \in 0 .. n : i = 0 \/ i \in 1 .. n
    OBVIOUS
  <2>2. t[0] = Root /\ \A i \in 1 .. n : t[i] = Follow(s, t[i - 1], path[i])
    BY ONLY <1>1 DEF IsRoute
  <2>3. \A i \in 0 .. n :
          t[i] = IF i = 0 THEN Root ELSE Follow(s, t[i - 1], path[i])
    BY ONLY <2>1, <2>2
  <2> QED
    BY ONLY <1>1, <2>3
<1>3. c = Rec(c)
  <2> HIDE DEF Rec
  <2> QED
    BY ONLY <1>2
<1>4. Resolve(s, path) = c[n]
  BY Len(path) = n DEF Resolve, Follow
<1> HIDE DEF c
<1>5. IsRoute(s, path, n, c)
  <2>1. \A i \in 0 .. n : c[i] = Rec(c)[i]
    BY ONLY <1>3
  <2>2. \A i \in 0 .. n :
          c[i] = IF i = 0 THEN Root ELSE Follow(s, c[i - 1], path[i])
    BY ONLY <2>1
  <2> HIDE DEF Rec
  <2>3. 0 \in 0 .. n /\ \A i \in 1 .. n : i \in 0 .. n /\ i # 0
    OBVIOUS
  <2> QED
    BY ONLY <2>2, <2>3 DEF IsRoute
<1>6. c[n] = r[n]
  BY ONLY <1>5, IsRoute(s, path, n, r), RouteUnique, n \in Nat
<1> QED
  BY ONLY <1>4, <1>6

LEMMA ResolveNone ==
  ASSUME NEW s
  PROVE  Resolve(s, << >>) = Root
<1>1. PICK r : IsRoute(s, << >>, 0, r)
  BY RouteExists
<1>2. Len(<< >>) = 0
  BY NoElements
<1>3. Resolve(s, << >>) = r[0]
  BY ONLY <1>1, <1>2, ResolveIs, 0 \in Nat
<1> QED
  BY ONLY <1>1, <1>3 DEF IsRoute

LEMMA ResolveAppend ==
  ASSUME NEW s, NEW path, IsSeq(path), NEW x
  PROVE  Resolve(s, Append(path, x)) = Follow(s, Resolve(s, path), x)
<1> DEFINE n == Len(path)
           longer == Append(path, x)
<1>1. /\ n \in Nat /\ Len(longer) = n + 1 /\ longer[n + 1] = x
      /\ \A i \in 1 .. n : longer[i] = path[i]
  BY AppendIs, SeqFacts
<1> HIDE DEF n, longer
<1>2. PICK r : IsRoute(s, longer, n + 1, r)
  BY ONLY <1>1, RouteExists, n + 1 \in Nat
<1>3. /\ n + 1 \in 1 .. n + 1 /\ (n + 1) - 1 = n /\ n + 1 \in Nat
      /\ \A i \in 1 .. n : i \in 1 .. n + 1
  BY ONLY <1>1
<1>4. /\ r[0] = Root
      /\ \A i \in 1 .. n + 1 : r[i] = Follow(s, r[i - 1], longer[i])
  BY ONLY <1>2 DEF IsRoute
<1>5. IsRoute(s, path, n, r)
  BY ONLY <1>1, <1>3, <1>4 DEF IsRoute
<1>6. Resolve(s, path) = r[n]
  BY ONLY <1>1, <1>5, ResolveIs DEF n
<1>7. Resolve(s, longer) = r[n + 1]
  BY ONLY <1>1, <1>2, <1>3, ResolveIs
<1>8. r[n + 1] = Follow(s, r[n], x)
  BY ONLY <1>1, <1>3, <1>4
<1> QED
  BY ONLY <1>6, <1>7, <1>8 DEF longer

-----------------------------------------------------------------------------
(* Sources.                                                                *)

LEMMA SourceFacts ==
  ASSUME NEW s \in Sources
  PROVE  /\ IsFileSystem(s) /\ s.kind \in [Files -> Kinds] /\ s.kind[Root] = "dir"
         /\ IsFiniteSet(Files) /\ IsFiniteSet(Names) /\ Names \in SUBSET Nat
         /\ Root \in Files /\ NoFile \notin Files
BY SourceAssumption, TreeAssumption

LEMMA ListedFacts ==
  ASSUME NEW s \in Sources, NEW F \in Files
  PROVE  LET l == Listed(s, F)
             n == Cardinality(NamesOf(s, F))
         IN /\ n \in Nat /\ IsSeq(l) /\ Len(l) = n
            /\ \A c \in 1 .. n : /\ l[c] \in Names
                                 /\ Nth(s, F, c) \in Files
                                 /\ Nth(s, F, c) # Root
            /\ \A c, d \in 1 .. n : l[c] = l[d] => c = d
<1> DEFINE names == NamesOf(s, F)
           l == Listed(s, F)
           n == Cardinality(names)
<1>1. names \in SUBSET Names /\ names \in SUBSET Nat
  BY SourceFacts DEF NamesOf
<1>2. IsFiniteSet(names)
  BY ONLY <1>1, SourceFacts, FS_Subset, s \in Sources
<1> HIDE DEF names
<1>3. /\ n \in Nat /\ IsSeq(InOrder(names)) /\ Len(InOrder(names)) = n
      /\ \A k \in 1 .. n : InOrder(names)[k] \in names
      /\ \A k, j \in 1 .. n : InOrder(names)[k] = InOrder(names)[j] => k = j
  BY ONLY <1>1, <1>2, InOrderLists
<1>4. l = InOrder(names)
  BY DEF Listed, names
<1> HIDE DEF l, n
<1>5. ASSUME NEW c \in 1 .. n
      PROVE  /\ l[c] \in Names
             /\ Nth(s, F, c) \in Files
             /\ Nth(s, F, c) # Root
  <2>1. l[c] \in Names /\ l[c] \in names
    BY ONLY <1>1, <1>3, <1>4, c \in 1 .. n
  <2>2. s.ents[F][l[c]] # NoFile
    BY ONLY <2>1 DEF names, NamesOf
  <2>3. /\ s.ents[F][l[c]] \in Files \cup {NoFile}
        /\ s.ents[F][l[c]] # Root
    <3>1. IsFileSystem(s)
      BY SourceFacts
    <3> QED
      BY ONLY <2>1, <3>1, F \in Files DEF IsFileSystem
  <2> QED
    BY ONLY <2>1, <2>2, <2>3 DEF Nth, l
<1> QED
  BY ONLY <1>3, <1>4, <1>5 DEF l, n, names

(* A file with two names is no directory, and its link count says so.          *)
LEMMA OneName ==
  ASSUME NEW s \in Sources, NEW d \in Files, NEW e \in Files,
         NEW n \in Names, NEW o \in Names,
         s.ents[d][n] \in Files, s.ents[d][n] = s.ents[e][o],
         ~ MayBeLinked(Stated(s, s.ents[d][n]))
  PROVE  d = e /\ n = o
<1> DEFINE f == s.ents[d][n]
           held == {p \in Files \X Names : s.ents[p[1]][p[2]] = f}
<1>1. IsFileSystem(s) /\ NoFile \notin Files
  BY SourceFacts
<1>2. CASE s.kind[f] = "dir"
  BY ONLY <1>1, <1>2, d \in Files, e \in Files, n \in Names, o \in Names,
          f \in Files, s.ents[d][n] = s.ents[e][o] DEF IsFileSystem
<1>3. CASE s.kind[f] # "dir"
  <2>1. ~ (Nlink(s, f) > 1)
    <3>1. Stated(s, f).kind = s.kind[f] /\ Stated(s, f).nlink = Nlink(s, f)
      BY DEF Stated
    <3> QED
      BY ONLY <1>3, <3>1, ~ MayBeLinked(Stated(s, f)) DEF MayBeLinked
  <2>2. IsFiniteSet(held) /\ Cardinality(held) \in Nat
    <3>1. IsFiniteSet(Files \X Names)
      BY SourceFacts, FS_Product
    <3>2. held \in SUBSET (Files \X Names)
      OBVIOUS
    <3> QED
      BY ONLY <3>1, <3>2, FS_Subset, FS_CardinalityType
  <2>3. s.other[f] \in Nat
    BY ONLY <1>1, f \in Files DEF IsFileSystem
  <2>4. Nlink(s, f) = Cardinality(held) + s.other[f]
    BY DEF Nlink
  <2>5. <<d, n>> \in held /\ <<e, o>> \in held
    OBVIOUS
  <2> HIDE DEF held, f
  <2>6. Cardinality(held) <= 1
    BY ONLY <2>1, <2>2, <2>3, <2>4
  <2>7. <<d, n>> = <<e, o>>
    <3> SUFFICES ASSUME <<d, n>> # <<e, o>>
                 PROVE  FALSE
      OBVIOUS
    <3> DEFINE a == <<d, n>>
               b == <<e, o>>
    <3>1. a # b /\ {a} \cup {b} \in SUBSET held /\ b \notin {a}
      BY <2>5
    <3> HIDE DEF a, b
    <3>2. IsFiniteSet({a}) /\ Cardinality({a}) = 1
      BY ONLY FS_Singleton
    <3>3. Cardinality({a} \cup {b}) = 2
      <4>1. b \notin {a} /\ IsFiniteSet({a})
        BY ONLY <3>1, <3>2
      <4> DEFINE S == {a}
      <4> HIDE DEF S
      <4>2. b \notin S /\ IsFiniteSet(S)
        BY ONLY <4>1 DEF S
      <4>3. Cardinality(S \cup {b}) = Cardinality(S) + 1
        BY ONLY <4>2, FS_AddElement
      <4>4. Cardinality(S) = 1
        BY ONLY <3>2 DEF S
      <4>5. Cardinality(S \cup {b}) = 2
        BY ONLY <4>3, <4>4
      <4> QED
        BY ONLY <4>5 DEF S
    <3>4. Cardinality({a} \cup {b}) <= Cardinality(held)
      BY ONLY <2>2, <3>1, FS_Subset
    <3> QED
      BY ONLY <2>2, <2>6, <3>3, <3>4
  <2> QED
    BY ONLY <2>7
<1> QED
  BY ONLY <1>2, <1>3

-----------------------------------------------------------------------------
(* A call on a directory.                                                  *)

LEMMA PathIs ==
  ASSUME NEW path \in Seq(Names), NEW n \in Names
  PROVE  IsSeq(path) /\ Append(path, n) \in Seq(Names)
<1>1. Len(path) \in Nat /\ path = [i \in 1 .. Len(path) |-> path[i]]
  BY LenProperties
<1>2. IsSeq(path)
  BY ONLY <1>1, FunctionIs
<1>3. Append(path, n) \in Seq(Names)
  BY AppendProperties
<1> QED
  BY ONLY <1>2, <1>3

LEMMA HeadTail ==
  ASSUME NEW s, IsSeq(s), Len(s) >= 1
  PROVE  /\ Head(s) = s[1] /\ IsSeq(Tail(s)) /\ Len(Tail(s)) = Len(s) - 1
         /\ \A i \in 1 .. Len(s) - 1 : Tail(s)[i] = s[i + 1]
<1> DEFINE S == {s[i] : i \in 1 .. Len(s)}
           t == Tail(s)
<1>1. s \in Seq(S) /\ s # << >> /\ Len(s) \in Nat
  BY SeqFacts, NoElements DEF IsSeq
<1> HIDE DEF S
<1>2. /\ t \in Seq(S) /\ Len(t) = Len(s) - 1
      /\ \A i \in 1 .. Len(t) : t[i] = s[i + 1]
  BY ONLY <1>1, HeadTailProperties
<1>3. Head(s) = s[1]
  BY ONLY <1>1
<1> HIDE DEF t
<1>4. Len(t) \in Nat /\ t = [i \in 1 .. Len(t) |-> t[i]]
  BY ONLY <1>2, LenProperties
<1>5. IsSeq(t)
  BY ONLY <1>4, FunctionIs
<1> QED
  BY ONLY <1>2, <1>3, <1>5 DEF t

(* The next name of a call leads to the next file.                            *)
LEMMA CallLooks ==
  ASSUME NEW s \in Sources, NEW list, NEW fr, IsFrame(fr),
         CallCopies(s, list, fr), Len(fr.todo) >= 1
  PROVE  LET F    == list[fr.idx].src
             c    == Len(fr.children) + 1
             name == Head(fr.todo)
             f    == Child(s, list, fr)
         IN /\ F \in Files /\ c \in 1 .. Cardinality(NamesOf(s, F))
            /\ name \in Names /\ name = Listed(s, F)[c]
            /\ f \in Files /\ f # Root /\ s.ents[F][name] = f
            /\ Append(fr.path, name) \in Seq(Names)
            /\ Resolve(s, Append(fr.path, name)) = f
<1> DEFINE F == list[fr.idx].src
           k == Len(fr.children)
           c == k + 1
           N == Cardinality(NamesOf(s, F))
           name == Head(fr.todo)
           f == Child(s, list, fr)
<1>1. /\ F \in Files /\ s.kind[F] = "dir"
      /\ fr.path \in Seq(Names) /\ Resolve(s, fr.path) = F
      /\ IsSeq(fr.todo) /\ k + Len(fr.todo) = N
      /\ \A j \in 1 .. Len(fr.todo) : fr.todo[j] = Listed(s, F)[k + j]
  BY ONLY CallCopies(s, list, fr) DEF CallCopies
<1>2. k \in Nat /\ Len(fr.todo) \in Nat
  BY ONLY <1>1, SeqFacts, IsFrame(fr) DEF IsFrame
<1>3. f = Nth(s, F, c)
  BY ONLY DEF Child
<1> HIDE DEF F, k, f
<1>4. c \in 1 .. N
  BY ONLY <1>1, <1>2, Len(fr.todo) >= 1
<1>5. name = Listed(s, F)[c]
  <2>1. name = fr.todo[1] /\ 1 \in 1 .. Len(fr.todo)
    BY ONLY <1>1, <1>2, HeadTail, Len(fr.todo) >= 1
  <2> QED
    BY ONLY <1>1, <2>1
<1>6. name \in Names /\ f \in Files /\ f # Root
  BY ONLY <1>1, <1>3, <1>4, <1>5, ListedFacts, s \in Sources
<1>7. s.ents[F][name] = f
  BY ONLY <1>3, <1>5 DEF Nth
<1>8. IsSeq(fr.path) /\ Append(fr.path, name) \in Seq(Names)
  BY ONLY <1>1, <1>6, PathIs
<1>9. F # NoFile
  BY ONLY <1>1, SourceFacts, s \in Sources
<1>10. Resolve(s, Append(fr.path, name)) = f
  BY ONLY <1>1, <1>7, <1>8, <1>9, ResolveAppend DEF Follow
<1> QED
  BY ONLY <1>1, <1>4, <1>5, <1>6, <1>7, <1>8, <1>10 DEF F, k, f

(* Nothing of it depends on more of the list than the files of its inodes.     *)
LEMMA EntriesStay ==
  ASSUME NEW s, NEW list, NEW new, NEW F, NEW ents,
         LeadsWithin(ents, Len(list)),
         \A i \in 1 .. Len(list) : new[i].src = list[i].src,
         EntriesOf(s, list, F, ents)
  PROVE  EntriesOf(s, new, F, ents)
<1>1. ASSUME NEW c \in 1 .. Len(ents)
      PROVE  EntryOf(s, new, F, c, ents[c])
  <2>1. EntryOf(s, list, F, c, ents[c])
    BY ONLY EntriesOf(s, list, F, ents), c \in 1 .. Len(ents) DEF EntriesOf
  <2>2. new[ents[c].idx].src = list[ents[c].idx].src
    BY DEF LeadsWithin
  <2> QED
    BY ONLY <2>1, <2>2 DEF EntryOf
<1> QED
  BY ONLY <1>1 DEF EntriesOf

LEMMA CallStays ==
  ASSUME NEW s, NEW list, NEW new, NEW fr, fr.idx \in 1 .. Len(list),
         LeadsWithin(fr.children, Len(list)),
         \A i \in 1 .. Len(list) : new[i].src = list[i].src
  PROVE  /\ CallCopies(s, list, fr) => CallCopies(s, new, fr)
         /\ Child(s, new, fr) = Child(s, list, fr)
         /\ Visits(s, new, fr) <=> Visits(s, list, fr)
<1>1. new[fr.idx].src = list[fr.idx].src
  OBVIOUS
<1>2. Child(s, new, fr) = Child(s, list, fr)
  BY ONLY <1>1 DEF Child
<1>3. Visits(s, new, fr) <=> Visits(s, list, fr)
  BY ONLY <1>2 DEF Visits
<1>4. ASSUME CallCopies(s, list, fr)
      PROVE  CallCopies(s, new, fr)
  <2>1. EntriesOf(s, list, list[fr.idx].src, fr.children)
    BY ONLY <1>4 DEF CallCopies
  <2>2. EntriesOf(s, new, list[fr.idx].src, fr.children)
    BY ONLY <2>1, EntriesStay, LeadsWithin(fr.children, Len(list)),
            \A i \in 1 .. Len(list) : new[i].src = list[i].src
  <2> QED
    BY ONLY <1>1, <1>4, <2>2 DEF CallCopies
<1> QED
  BY ONLY <1>2, <1>3, <1>4

LEMMA CallsCopyStays ==
  ASSUME NEW s, NEW list, NEW new, NEW stk, CallsTyped(stk, Len(list)),
         \A i \in 1 .. Len(list) : new[i].src = list[i].src,
         CallsCopy(s, list, stk)
  PROVE  /\ CallsCopy(s, new, stk)
         /\ Len(stk) >= 1 =>
              /\ Child(s, new, stk[Len(stk)]) = Child(s, list, stk[Len(stk)])
              /\ Visits(s, new, stk[Len(stk)]) <=> Visits(s, list, stk[Len(stk)])
         /\ Current(s, new, stk) = Current(s, list, stk)
<1>1. Len(stk) \in Nat
  BY SeqFacts DEF CallsTyped
<1>2. ASSUME NEW n \in 1 .. Len(stk)
      PROVE  /\ CallCopies(s, new, stk[n])
             /\ Child(s, new, stk[n]) = Child(s, list, stk[n])
             /\ Visits(s, new, stk[n]) <=> Visits(s, list, stk[n])
             /\ new[stk[n].idx].src = list[stk[n].idx].src
  <2>1. stk[n].idx \in 1 .. Len(list) /\ LeadsWithin(stk[n].children, Len(list))
    BY ONLY CallsTyped(stk, Len(list)), n \in 1 .. Len(stk) DEF CallsTyped
  <2>2. CallCopies(s, list, stk[n])
    BY ONLY CallsCopy(s, list, stk), n \in 1 .. Len(stk) DEF CallsCopy
  <2> DEFINE fr == stk[n]
  <2> HIDE DEF fr
  <2>3. /\ CallCopies(s, new, fr) /\ Child(s, new, fr) = Child(s, list, fr)
        /\ Visits(s, new, fr) <=> Visits(s, list, fr)
    <3>1. fr.idx \in 1 .. Len(list) /\ LeadsWithin(fr.children, Len(list))
          /\ CallCopies(s, list, fr)
      BY ONLY <2>1, <2>2 DEF fr
    <3> QED
      BY ONLY <3>1, CallStays, \A i \in 1 .. Len(list) : new[i].src = list[i].src
  <2> QED
    BY ONLY <2>1, <2>3, \A i \in 1 .. Len(list) : new[i].src = list[i].src DEF fr
<1>3. CallsCopy(s, new, stk)
  BY ONLY <1>2, CallsCopy(s, list, stk) DEF CallsCopy
<1>4. Len(stk) >= 1 => Len(stk) \in 1 .. Len(stk)
  BY ONLY <1>1
<1>5. Len(stk) = 0 \/ Len(stk) >= 1
  BY ONLY <1>1
<1> QED
  BY ONLY <1>2, <1>3, <1>4, <1>5 DEF Current

LEMMA OneMoves == \A i, j \in Nat : (i + 1) + (j - 1) = i + j
OBVIOUS

(* A call takes the entry for its next file.                                  *)
LEMMA CallAdds ==
  ASSUME NEW s \in Sources, NEW list, NEW fr, IsFrame(fr),
         CallCopies(s, list, fr), Len(fr.todo) >= 1,
         NEW x, list[x].src = Child(s, list, fr),
         NEW m, m.kind = s.kind[Child(s, list, fr)]
  PROVE  CallCopies(s, list, AddEntry(fr, x, m))
<1> DEFINE F == list[fr.idx].src
           k == Len(fr.children)
           f == Child(s, list, fr)
           e == Entry(Head(fr.todo), m, x)
           new == AddEntry(fr, x, m)
           N == Cardinality(NamesOf(s, F))
<1>1. /\ F \in Files /\ s.kind[F] = "dir"
      /\ fr.path \in Seq(Names) /\ Resolve(s, fr.path) = F
      /\ IsSeq(fr.todo) /\ k + Len(fr.todo) = N
      /\ \A j \in 1 .. Len(fr.todo) : fr.todo[j] = Listed(s, F)[k + j]
      /\ EntriesOf(s, list, F, fr.children)
  BY ONLY CallCopies(s, list, fr) DEF CallCopies
<1>2. k \in Nat /\ Len(fr.todo) \in Nat /\ IsSeq(fr.children)
  BY ONLY <1>1, SeqFacts, IsFrame(fr) DEF IsFrame
<1>3. /\ new.idx = fr.idx /\ new.path = fr.path /\ new.todo = Tail(fr.todo)
      /\ new.children = Append(fr.children, e)
  BY ONLY FrameWithEntry, IsFrame(fr)
<1>4. e = [name |-> Lossy[Listed(s, F)[k + 1]], type |-> s.kind[Nth(s, F, k + 1)],
           idx |-> e.idx] /\ e.idx = x
  <2>1. Head(fr.todo) = Listed(s, F)[k + 1]
    BY ONLY CallLooks, s \in Sources, IsFrame(fr), CallCopies(s, list, fr),
            Len(fr.todo) >= 1
  <2>2. f = Nth(s, F, k + 1)
    BY ONLY DEF Child
  <2>3. e = [name |-> Lossy[Head(fr.todo)], type |-> m.kind, idx |-> x]
    BY ONLY DEF Entry
  <2> HIDE DEF e, f, F, k
  <2>4. m.kind = s.kind[f]
    BY DEF f
  <2> QED
    BY ONLY <2>1, <2>2, <2>3, <2>4
<1>5. list[x].src = Nth(s, F, k + 1)
  BY ONLY list[x].src = Child(s, list, fr) DEF Child
<1> HIDE DEF F, k, e, new
<1>6. EntryOf(s, list, F, k + 1, e)
  BY ONLY <1>4, <1>5 DEF EntryOf
<1>7. /\ Len(new.children) = k + 1 /\ new.children[k + 1] = e
      /\ \A c \in 1 .. k : new.children[c] = fr.children[c]
  BY ONLY <1>2, <1>3, AppendIs DEF k
<1>8. EntriesOf(s, list, F, new.children)
  <2>1. \A c \in 1 .. k : EntryOf(s, list, F, c, fr.children[c])
    BY ONLY <1>1 DEF EntriesOf, k
  <2>2. \A c \in 1 .. k + 1 : c \in 1 .. k \/ c = k + 1
    BY ONLY <1>2
  <2> QED
    BY ONLY <1>6, <1>7, <2>1, <2>2 DEF EntriesOf
<1>9. /\ IsSeq(new.todo) /\ Len(new.todo) = Len(fr.todo) - 1
      /\ \A j \in 1 .. Len(fr.todo) - 1 : new.todo[j] = fr.todo[j + 1]
  BY ONLY <1>1, <1>3, HeadTail, Len(fr.todo) >= 1
<1>10. Len(new.children) + Len(new.todo) = N
  <2>1. (k + 1) + (Len(fr.todo) - 1) = k + Len(fr.todo)
    BY ONLY Zenon, <1>2, OneMoves
  <2> QED
    BY ONLY <1>1, <1>7, <1>9, <2>1
<1>11. \A j \in 1 .. Len(new.todo) :
         new.todo[j] = Listed(s, F)[Len(new.children) + j]
  <2>1. ASSUME NEW j \in 1 .. Len(fr.todo) - 1
        PROVE  /\ j + 1 \in 1 .. Len(fr.todo) /\ k + (j + 1) = (k + 1) + j
    BY ONLY <1>2, j \in 1 .. Len(fr.todo) - 1
  <2>2. \A j \in 1 .. Len(fr.todo) - 1 : new.todo[j] = Listed(s, F)[(k + 1) + j]
    BY ONLY <1>1, <1>9, <2>1
  <2> QED
    BY ONLY <1>7, <1>9, <2>2
<1>12. list[new.idx].src = F
  BY ONLY <1>3 DEF F
<1> QED
  BY ONLY <1>1, <1>3, <1>8, <1>9, <1>10, <1>11, <1>12 DEF CallCopies, new

(* A call starts on the directory that was looked at.                         *)
LEMMA CallStarts ==
  ASSUME NEW s \in Sources, NEW list, NEW fr, NEW F \in Files,
         list[fr.idx].src = F, s.kind[F] = "dir",
         fr.path \in Seq(Names), Resolve(s, fr.path) = F,
         fr.todo = Listed(s, F), fr.children = << >>
  PROVE  CallCopies(s, list, fr)
<1> DEFINE N == Cardinality(NamesOf(s, F))
<1>1. N \in Nat /\ IsSeq(Listed(s, F)) /\ Len(Listed(s, F)) = N
  BY ONLY ListedFacts, s \in Sources, F \in Files
<1>2. Len(fr.children) = 0
  BY ONLY NoElements, fr.children = << >>
<1> HIDE DEF N
<1>3. 0 + N = N /\ \A j \in 1 .. N : 0 + j = j
  BY ONLY <1>1
<1>4. EntriesOf(s, list, F, fr.children)
  BY ONLY <1>2 DEF EntriesOf
<1> QED
  BY <1>1, <1>2, <1>3, <1>4 DEF CallCopies, N

-----------------------------------------------------------------------------
(* No file is copied twice.                                                  *)

LEMMA CompleteIs == Complete(phase, stack, inodes) = Closed
BY DEF Complete, Closed, IsOpen

Copying ==
  Copies(source, phase, stack, meta, inodes, links, errors)

(* An entry that is there is that for a name which its call has passed.        *)
LEMMA HasIsEntry ==
  ASSUME IInv, phase # "failed", Copying,
         NEW d \in 1 .. Len(inodes), NEW e, Has(d, e)
  PROVE  \E c \in 1 .. Cardinality(NamesOf(source, inodes[d].src)) :
           /\ EntryOf(source, inodes, inodes[d].src, c, e)
           /\ \A n \in 1 .. Len(stack) :
                stack[n].idx = d => c <= Len(stack[n].children)
<1> DEFINE F == inodes[d].src
           N == Cardinality(NamesOf(source, F))
<1>1. /\ InodesTyped /\ StackTyped /\ Nested /\ Tree
      /\ Len(stack) \in Nat /\ Len(inodes) \in Nat
  BY IInvFacts
<1>2. /\ CallsCopy(source, inodes, stack)
      /\ DirsCopied(source, inodes, Closed)
  BY CompleteIs DEF Copying, Copies
<1>3. CASE Among(inodes[d].children, e)
  <2>1. PICK c \in 1 .. Len(inodes[d].children) : inodes[d].children[c] = e
    BY ONLY <1>3 DEF Among
  <2>2. Len(inodes[d].children) # 0
    BY ONLY <2>1
  <2>3. ~ IsOpen(d)
    BY ONLY <1>1, <2>2, d \in 1 .. Len(inodes) DEF Tree, OpenAreEmpty
  <2>4. d \in Closed
    BY ONLY <2>3, d \in 1 .. Len(inodes) DEF Closed
  <2>5. /\ Len(inodes[d].children) = N
        /\ EntriesOf(source, inodes, F, inodes[d].children)
    BY ONLY <1>2, <2>2, <2>4 DEF DirsCopied, DirCopied
  <2>6. EntryOf(source, inodes, F, c, e) /\ c \in 1 .. N
    BY ONLY <2>1, <2>5 DEF EntriesOf
  <2>7. \A n \in 1 .. Len(stack) : stack[n].idx # d
    BY ONLY <2>3 DEF IsOpen
  <2> QED
    BY ONLY <2>6, <2>7
<1>4. CASE OnCalls(stack, d, e)
  <2>1. PICK n \in 1 .. Len(stack) :
          stack[n].idx = d /\ Among(stack[n].children, e)
    BY ONLY <1>4 DEF OnCalls
  <2> DEFINE fr == stack[n]
             k == Len(fr.children)
  <2>2. PICK c \in 1 .. k : fr.children[c] = e
    BY ONLY <2>1 DEF Among
  <2>3. CallCopies(source, inodes, fr)
    BY ONLY <1>2 DEF CallsCopy
  <2>4. IsFrame(fr)
    BY ONLY <1>1 DEF StackTyped, CallsTyped
  <2>5. /\ k + Len(fr.todo) = N /\ IsSeq(fr.todo)
        /\ EntriesOf(source, inodes, F, fr.children)
    BY ONLY <2>1, <2>3 DEF CallCopies
  <2>6. EntryOf(source, inodes, F, c, e)
    BY ONLY <2>2, <2>5 DEF EntriesOf
  <2>7. k \in Nat /\ Len(fr.todo) \in Nat
    BY ONLY <2>4, <2>5, SeqFacts DEF IsFrame
  <2> HIDE DEF k, N
  <2>8. c \in 1 .. N
    BY ONLY <2>5, <2>7
  <2>9. ASSUME NEW j \in 1 .. Len(stack), stack[j].idx = d
        PROVE  c <= Len(stack[j].children)
    <3>1. ~ (j < n) /\ ~ (n < j)
      <4>1. stack[n].idx \in Nat
        BY ONLY <1>1, <2>1
      <4>2. ~ (stack[n].idx < stack[j].idx) /\ ~ (stack[j].idx < stack[n].idx)
        BY ONLY <4>1, <2>1, <2>9
      <4> QED
        BY ONLY <1>1, <4>2 DEF Nested, IsNested
    <3>2. j = n
      BY ONLY <1>1, <3>1
    <3>3. c <= k
      BY ONLY <2>7
    <3> QED
      BY ONLY <3>2, <3>3 DEF k, fr
  <2> QED
    BY ONLY <2>6, <2>8, <2>9 DEF N
<1> QED
  BY ONLY <1>3, <1>4, Has(d, e) DEF Has

(* What the call in progress looks at.                                       *)
LEMMA TopLooks ==
  ASSUME IInv, CallsCopy(source, inodes, stack), Len(stack) >= 1,
         Len(Top.todo) >= 1
  PROVE  LET F    == inodes[Top.idx].src
             c    == Len(Top.children) + 1
             name == Head(Top.todo)
             f    == Child(source, inodes, Top)
         IN /\ F \in Files /\ c \in 1 .. Cardinality(NamesOf(source, F))
            /\ name \in Names /\ name = Listed(source, F)[c]
            /\ f \in Files /\ f # Root /\ source.ents[F][name] = f
            /\ CallPath \in Seq(Names) /\ CallPath # << >>
            /\ Resolve(source, CallPath) = f
<1>1. /\ StackTyped /\ Len(stack) \in Nat /\ source \in Sources
  BY IInvFacts
<1>2. Len(stack) \in 1 .. Len(stack)
  BY ONLY <1>1, Len(stack) >= 1
<1>3. IsFrame(Top)
  BY ONLY <1>1, <1>2 DEF StackTyped, CallsTyped, Top
<1>4. CallCopies(source, inodes, Top)
  BY ONLY <1>2, CallsCopy(source, inodes, stack) DEF CallsCopy, Top
<1>5. CallPath = Append(Top.path, Head(Top.todo))
  <2>1. stack # << >>
    BY ONLY NoElements, Len(stack) >= 1
  <2> QED
    BY ONLY <2>1 DEF CallPath
<1>6. CallPath # << >>
  <2>1. Top.path \in Seq(Names) /\ Head(Top.todo) \in Names
    BY ONLY <1>1, <1>3, <1>4, CallLooks, Len(Top.todo) >= 1 DEF CallCopies
  <2>2. IsSeq(Top.path)
    BY ONLY <2>1, PathIs
  <2>3. Len(CallPath) = Len(Top.path) + 1 /\ Len(Top.path) \in Nat
    BY ONLY <1>5, <2>2, AppendIs, SeqFacts
  <2> QED
    BY ONLY <2>3, NoElements
<1> QED
  BY ONLY <1>1, <1>3, <1>4, <1>5, <1>6, CallLooks, Len(Top.todo) >= 1

(* lstat, of a source that is a directory.                                    *)
LEMMA LstatIs ==
  ASSUME argument = "dir", NEW path, Resolve(source, path) \in Files
  PROVE  Lstat(path) = Stated(source, Resolve(source, path))
BY DEF Lstat, Stated

LEMMA CurrentIs ==
  ASSUME IInv, argument = "dir", CallsCopy(source, inodes, stack),
         Len(stack) >= 1 => Len(Top.todo) >= 1
  PROVE  /\ Current(source, inodes, stack) \in Files
         /\ CallPath \in Seq(Names)
         /\ Resolve(source, CallPath) = Current(source, inodes, stack)
         /\ Lstat(CallPath) = Stated(source, Current(source, inodes, stack))
         /\ Len(stack) >= 1 => Current(source, inodes, stack) # Root
<1>1. /\ StackTyped /\ Len(stack) \in Nat /\ source \in Sources
  BY IInvFacts
<1> DEFINE f == Current(source, inodes, stack)
<1>2. CASE Len(stack) = 0
  <2>1. f = Root
    BY ONLY <1>2 DEF Current
  <2>2. stack = << >>
    BY ONLY <1>1, <1>2, EmptySeq DEF StackTyped, CallsTyped, IsSeq
  <2>3. CallPath = << >>
    BY ONLY <2>2 DEF CallPath
  <2>4. CallPath \in Seq(Names) /\ Resolve(source, CallPath) = Root
    BY ONLY <2>3, ResolveNone, EmptySeq
  <2>5. Root \in Files
    BY ONLY <1>1, SourceFacts
  <2> HIDE DEF f
  <2>6. Lstat(CallPath) = Stated(source, Root)
    BY ONLY <2>4, <2>5, LstatIs, argument = "dir"
  <2> QED
    BY ONLY <1>2, <2>1, <2>4, <2>5, <2>6 DEF f
<1>3. CASE Len(stack) >= 1
  <2>1. f = Child(source, inodes, Top)
    BY ONLY <1>3 DEF Current, Top
  <2>2. /\ f \in Files /\ f # Root
        /\ CallPath \in Seq(Names) /\ Resolve(source, CallPath) = f
    BY ONLY <1>3, <2>1, TopLooks, IInv, CallsCopy(source, inodes, stack),
            Len(stack) >= 1 => Len(Top.todo) >= 1
  <2> HIDE DEF f
  <2>3. Lstat(CallPath) = Stated(source, f)
    BY ONLY <2>2, LstatIs, argument = "dir"
  <2> QED
    BY ONLY <2>2, <2>3 DEF f
<1> QED
  BY ONLY <1>1, <1>2, <1>3

LEMMA NotYetCopied ==
  ASSUME IInv, Copying, phase = "attrs", NEW i \in 1 .. Len(inodes)
  PROVE  inodes[i].src # Current(source, inodes, stack)
<1> DEFINE k == Len(stack)
           F == inodes[Top.idx].src
           c == Len(Top.children) + 1
           name == Head(Top.todo)
           f == Current(source, inodes, stack)
<1>1. /\ InodesTyped /\ StackTyped /\ Nested /\ InStep /\ Tree
      /\ k \in Nat /\ Len(inodes) \in Nat /\ source \in Sources
  BY IInvFacts
<1>2. /\ CallsCopy(source, inodes, stack)
      /\ FilesCopied(source, inodes)
      /\ InVisit(source, phase, stack, meta, inodes, links)
      /\ LinksKnown(source, inodes, links, Closed)
  BY CompleteIs DEF Copying, Copies
<1>3. k >= 1 /\ k \in 1 .. k
  BY ONLY <1>1, phase = "attrs" DEF InStep
<1>4. /\ Len(Top.todo) >= 1
      /\ ~ (MayBeLinked(Stated(source, f)) /\ f \in DOMAIN links)
  BY ONLY <1>2, <1>3, phase = "attrs" DEF InVisit, Visiting, Visits, Top
<1>5. /\ F \in Files /\ c \in 1 .. Cardinality(NamesOf(source, F))
      /\ name \in Names /\ name = Listed(source, F)[c]
      /\ f \in Files /\ f # Root /\ source.ents[F][name] = f
  <2>1. f = Child(source, inodes, Top)
    BY ONLY <1>3 DEF Current, Top
  <2> HIDE DEF f
  <2> QED
    BY ONLY <1>2, <1>3, <1>4, <2>1, TopLooks, IInv
<1>6. Top.idx \in 1 .. Len(inodes) /\ Len(Top.children) \in Nat
  BY ONLY <1>1, <1>3, SeqFacts DEF StackTyped, CallsTyped, Top, IsFrame
<1> HIDE DEF f
<1> SUFFICES ASSUME inodes[i].src = f
             PROVE  FALSE
  BY DEF f
<1>7. i # 1
  BY ONLY <1>1, <1>2, <1>5, inodes[i].src = f, i \in 1 .. Len(inodes)
  DEF FilesCopied
<1>8. CASE i \in Closed
  <2>1. ~ MayBeLinked(Stated(source, f))
    BY ONLY <1>2, <1>4, <1>7, <1>8, inodes[i].src = f DEF LinksKnown
  <2>2. PICK d \in 1 .. Len(inodes) : \E e : Has(d, e) /\ e.idx = i
    BY ONLY <1>1, <1>7, <1>8 DEF Tree, Reached
  <2>3. PICK e : Has(d, e) /\ e.idx = i
    BY <2>2
  <2> DEFINE G == inodes[d].src
  <2>4. PICK b \in 1 .. Cardinality(NamesOf(source, G)) :
          /\ EntryOf(source, inodes, G, b, e)
          /\ \A n \in 1 .. Len(stack) :
               stack[n].idx = d => b <= Len(stack[n].children)
    BY <2>3, HasIsEntry, phase = "attrs"
  <2>5. f = source.ents[G][Listed(source, G)[b]]
    BY ONLY <2>3, <2>4, inodes[i].src = f DEF EntryOf, Nth
  <2>6. G \in Files
    BY ONLY <1>2 DEF FilesCopied
  <2>7. Listed(source, G)[b] \in Names
    BY ONLY <1>1, <2>4, <2>6, ListedFacts
  <2>8. F = G /\ name = Listed(source, G)[b]
    <3> DEFINE o == Listed(source, G)[b]
    <3>1. /\ F \in Files /\ G \in Files /\ name \in Names /\ o \in Names
          /\ source.ents[F][name] \in Files
          /\ source.ents[F][name] = source.ents[G][o]
          /\ ~ MayBeLinked(Stated(source, source.ents[F][name]))
      BY ONLY <1>5, <2>1, <2>5, <2>6, <2>7
    <3>2. source \in Sources
      BY ONLY <1>1
    <3> HIDE DEF F, G, name, o
    <3>3. F = G /\ name = o
      BY ONLY <3>1, <3>2, OneName
    <3> QED
      BY ONLY <3>3 DEF o
  <2>9. d = Top.idx
    BY ONLY <1>2, <1>6, <2>8, d \in 1 .. Len(inodes) DEF FilesCopied
  <2>10. b <= Len(Top.children)
    BY ONLY <1>3, <2>4, <2>9 DEF Top
  <2>11. b = c
    BY ONLY <1>1, <1>5, <2>4, <2>8, ListedFacts
  <2> QED
    BY ONLY <1>6, <2>10, <2>11
<1>9. CASE i \notin Closed
  <2>1. PICK n \in 1 .. k : stack[n].idx = i
    BY ONLY <1>9, phase = "attrs", i \in 1 .. Len(inodes) DEF Closed, IsOpen
  <2>2. n # 1
    BY ONLY <1>1, <1>3, <1>7, <2>1 DEF Nested, IsNested
  <2>3. n - 1 \in 1 .. k /\ (n - 1) + 1 = n /\ n - 1 < k
    BY ONLY <1>1, <2>2
  <2> DEFINE fr == stack[n - 1]
             G == inodes[fr.idx].src
             other == Head(fr.todo)
  <2>4. /\ CallCopies(source, inodes, fr)
        /\ CallCopies(source, inodes, stack[n])
        /\ Visits(source, inodes, fr)
        /\ inodes[i].src = Child(source, inodes, fr)
    BY ONLY <1>2, <2>1, <2>3 DEF CallsCopy
  <2>5. IsFrame(fr) /\ fr.idx \in 1 .. Len(inodes)
    BY ONLY <1>1, <2>3 DEF StackTyped, CallsTyped
  <2>6. /\ G \in Files /\ other \in Names
        /\ source.ents[G][other] = Child(source, inodes, fr)
    <3>1. /\ source \in Sources /\ IsFrame(fr) /\ CallCopies(source, inodes, fr)
          /\ Len(fr.todo) >= 1
      BY ONLY <1>1, <2>4, <2>5 DEF Visits
    <3> HIDE DEF fr
    <3> QED
      BY ONLY <3>1, CallLooks
  <2>7. source.kind[f] = "dir"
    BY ONLY <2>1, <2>4, inodes[i].src = f DEF CallCopies
  <2>8. ~ MayBeLinked(Stated(source, f))
    <3>1. Stated(source, f).kind = source.kind[f]
      BY ONLY DEF Stated
    <3> QED
      BY ONLY <2>7, <3>1 DEF MayBeLinked
  <2>9. F = G
    <3>1. /\ F \in Files /\ G \in Files /\ name \in Names /\ other \in Names
          /\ source.ents[F][name] \in Files
          /\ source.ents[F][name] = source.ents[G][other]
          /\ ~ MayBeLinked(Stated(source, source.ents[F][name]))
      BY ONLY <1>5, <2>4, <2>6, <2>8, inodes[i].src = f
    <3>2. source \in Sources
      BY ONLY <1>1
    <3> HIDE DEF F, G, name, other
    <3> QED
      BY ONLY <3>1, <3>2, OneName
  <2>10. fr.idx = Top.idx
    BY ONLY <1>2, <1>6, <2>5, <2>9 DEF FilesCopied
  <2>11. fr.idx < Top.idx
    BY ONLY <1>1, <1>3, <2>3 DEF Nested, IsNested, Top
  <2> QED
    BY ONLY <1>6, <2>10, <2>11
<1> QED
  BY ONLY <1>8, <1>9

-----------------------------------------------------------------------------
(* The call that runs changes, and those below it do not.                     *)

LEMMA CallsExcept ==
  ASSUME NEW s, NEW list, NEW stk, IsSeq(stk), Len(stk) >= 1,
         CallsCopy(s, list, stk),
         NEW fr, CallCopies(s, list, fr), fr.idx = stk[Len(stk)].idx
  PROVE  LET new == [stk EXCEPT ![Len(stk)] = fr]
         IN /\ CallsCopy(s, list, new) /\ IsSeq(new) /\ Len(new) = Len(stk)
            /\ new[Len(stk)] = fr
            /\ \A n \in 1 .. Len(stk) : new[n].idx = stk[n].idx
<1> DEFINE k == Len(stk)
           new == [stk EXCEPT ![k] = fr]
<1>1. k \in Nat /\ k \in 1 .. k
  BY SeqFacts
<1>2. /\ IsSeq(new) /\ Len(new) = k /\ new[k] = fr
      /\ \A n \in 1 .. k : n # k => new[n] = stk[n]
  BY ONLY <1>1, ExceptIs, IsSeq(stk)
<1> HIDE DEF new
<1>3. \A n \in 1 .. k : new[n].idx = stk[n].idx
  BY ONLY <1>2, fr.idx = stk[Len(stk)].idx
<1>4. \A n \in 1 .. k : CallCopies(s, list, new[n])
  BY ONLY <1>2, CallsCopy(s, list, stk), CallCopies(s, list, fr) DEF CallsCopy
<1>5. ASSUME NEW n \in 1 .. k, n + 1 \in 1 .. k
      PROVE  /\ Visits(s, list, new[n])
             /\ list[new[n + 1].idx].src = Child(s, list, new[n])
  <2>1. n # k
    BY ONLY <1>1, <1>5
  <2>2. /\ Visits(s, list, stk[n])
        /\ list[stk[n + 1].idx].src = Child(s, list, stk[n])
    BY ONLY <1>5, CallsCopy(s, list, stk) DEF CallsCopy
  <2> QED
    BY ONLY <1>2, <1>3, <1>5, <2>1, <2>2
<1>6. CallsCopy(s, list, new)
  BY ONLY <1>2, <1>4, <1>5 DEF CallsCopy
<1> QED
  BY ONLY <1>2, <1>3, <1>6 DEF new

(* A call returns: its caller has the entry for the file it was for.           *)
LEMMA ReturnCopies ==
  ASSUME NEW s \in Sources, NEW list, NEW callers,
         CallsTyped(callers, Len(list)), CallsCopy(s, list, callers),
         Len(callers) >= 1 => Visits(s, list, callers[Len(callers)]),
         NEW x, list[x].src = Current(s, list, callers), Return(x, callers)
  PROVE  /\ CallsCopy(s, list, stack') /\ Len(stack') = Len(callers)
         /\ \A n \in 1 .. Len(callers) : stack'[n].idx = callers[n].idx
         /\ phase' \in {"wire", "loop"}
         /\ links' = IF Len(callers) >= 1 /\ MayBeLinked(Stated(s, list[x].src))
                       THEN Remember(list[x].src, x) ELSE links
<1> DEFINE k == Len(callers)
<1>1. IsSeq(callers) /\ k \in Nat
  BY SeqFacts DEF CallsTyped
<1>2. CASE callers = << >>
  <2>1. phase' = "wire" /\ stack' = callers /\ links' = links
    BY ONLY <1>2, Return(x, callers) DEF Return
  <2>2. ~ (k >= 1)
    BY ONLY <1>2, NoElements
  <2> QED
    BY ONLY <2>1, <2>2, CallsCopy(s, list, callers)
<1>3. CASE callers # << >>
  <2> DEFINE fr == callers[k]
             m == fr.meta
             new == AddEntry(fr, x, m)
  <2>1. k >= 1 /\ k \in 1 .. k
    BY ONLY <1>1, <1>3, EmptySeq DEF IsSeq
  <2>2. /\ phase' = "loop" /\ stack' = [callers EXCEPT ![k] = new]
        /\ links' = IF MayBeLinked(m) THEN Remember(m.id, x) ELSE links
    BY ONLY <1>3, Return(x, callers) DEF Return
  <2>3. IsFrame(fr)
    BY ONLY <2>1, CallsTyped(callers, Len(list)) DEF CallsTyped
  <2>4. CallCopies(s, list, fr)
    BY ONLY <2>1, CallsCopy(s, list, callers) DEF CallsCopy
  <2>5. list[x].src = Child(s, list, fr)
    BY ONLY <2>1, list[x].src = Current(s, list, callers) DEF Current
  <2>6. Len(fr.todo) >= 1 /\ m = Stated(s, list[x].src)
    BY ONLY <2>1, <2>5, Len(callers) >= 1 => Visits(s, list, callers[Len(callers)])
    DEF Visits
  <2>7. m.kind = s.kind[list[x].src] /\ m.id = list[x].src
    BY ONLY <2>6 DEF Stated
  <2> HIDE DEF m
  <2>8. CallCopies(s, list, new)
    BY ONLY <2>3, <2>4, <2>5, <2>6, <2>7, CallAdds, s \in Sources
  <2>9. new.idx = fr.idx
    BY ONLY <2>3, FrameWithEntry
  <2> HIDE DEF new
  <2>10. /\ CallsCopy(s, list, stack') /\ Len(stack') = k
         /\ \A n \in 1 .. k : stack'[n].idx = callers[n].idx
    <3>1. stack' = [callers EXCEPT ![Len(callers)] = new]
      BY ONLY <2>2
    <3>2. new.idx = callers[Len(callers)].idx /\ Len(callers) >= 1
      BY ONLY <2>1, <2>9
    <3> HIDE DEF k, fr
    <3> DEFINE t == [callers EXCEPT ![Len(callers)] = new]
    <3>3. /\ CallsCopy(s, list, t) /\ Len(t) = Len(callers)
          /\ \A n \in 1 .. Len(callers) : t[n].idx = callers[n].idx
      BY ONLY <1>1, <2>8, <3>2, CallsExcept, CallsCopy(s, list, callers)
    <3> HIDE DEF t
    <3> QED
      BY ONLY <3>1, <3>3 DEF k, t
  <2> QED
    BY ONLY <2>1, <2>2, <2>6, <2>7, <2>10
<1> QED
  BY ONLY <1>2, <1>3

(* What is known of links afterwards.                                         *)
LEMMA LinksReturned ==
  ASSUME NEW s, NEW list, NEW done, LinksKnown(s, list, links, done),
         NEW more, NEW x, NEW inside \in BOOLEAN,
         \A i \in more : i \in done \/ i = x \/ i = 1,
         ~ inside => x = 1,
         links' = IF inside /\ MayBeLinked(Stated(s, list[x].src))
                    THEN Remember(list[x].src, x) ELSE links
  PROVE  LinksKnown(s, list, links', more)
<1> DEFINE f == list[x].src
<1>1. /\ \A g \in DOMAIN links : list[links[g]].src = g
      /\ \A i \in done \ {1} :
           MayBeLinked(Stated(s, list[i].src)) => list[i].src \in DOMAIN links
  BY ONLY LinksKnown(s, list, links, done) DEF LinksKnown
<1>2. CASE inside /\ MayBeLinked(Stated(s, f))
  <2>1. links' = [g \in DOMAIN links \cup {f} |-> IF g = f THEN x ELSE links[g]]
    BY ONLY <1>2, links' = IF inside /\ MayBeLinked(Stated(s, list[x].src))
                              THEN Remember(list[x].src, x) ELSE links
    DEF Remember
  <2>2. /\ DOMAIN links' = DOMAIN links \cup {f} /\ links'[f] = x
        /\ \A g \in DOMAIN links : g # f => links'[g] = links[g]
    BY ONLY <2>1
  <2>3. \A g \in DOMAIN links' : list[links'[g]].src = g
    BY ONLY <1>1, <2>2
  <2>4. \A i \in more \ {1} :
          MayBeLinked(Stated(s, list[i].src)) => list[i].src \in DOMAIN links'
    BY ONLY <1>1, <2>2, \A i \in more : i \in done \/ i = x \/ i = 1
  <2> QED
    BY ONLY <2>3, <2>4 DEF LinksKnown
<1>3. CASE ~ (inside /\ MayBeLinked(Stated(s, f)))
  <2>1. links' = links
    BY ONLY <1>3, links' = IF inside /\ MayBeLinked(Stated(s, list[x].src))
                              THEN Remember(list[x].src, x) ELSE links
  <2>2. \A i \in more \ {1} : i \in done \/ ~ MayBeLinked(Stated(s, list[i].src))
    BY ONLY <1>3, ~ inside => x = 1, \A i \in more : i \in done \/ i = x \/ i = 1
  <2> QED
    BY ONLY <1>1, <2>1, <2>2 DEF LinksKnown
<1> QED
  BY ONLY <1>2, <1>3

-----------------------------------------------------------------------------
(* The list grows and its directories are completed.                          *)

LEMMA FilesAppended ==
  ASSUME NEW s, NEW list, NEW new, NEW n \in Nat, Len(list) = n,
         Len(new) = n + 1, \A i \in 1 .. n : new[i] = list[i],
         FilesCopied(s, list), NEW f \in Files,
         new[n + 1].src = f, new[n + 1].kind = s.kind[f],
         \A i \in 1 .. n : list[i].src # f, n = 0 => f = Root
  PROVE  FilesCopied(s, new)
<1>1. \A i \in 1 .. n + 1 : i \in 1 .. n \/ i = n + 1
  OBVIOUS
<1>2. \A i \in 1 .. n + 1 : new[i].src \in Files /\ new[i].kind = s.kind[new[i].src]
  BY ONLY <1>1, FilesCopied(s, list), \A i \in 1 .. n : new[i] = list[i], f \in Files,
          Len(list) = n, new[n + 1].src = f, new[n + 1].kind = s.kind[f]
  DEF FilesCopied
<1>3. \A i, k \in 1 .. n + 1 : new[i].src = new[k].src => i = k
  <2>1. \A i, k \in 1 .. n : new[i].src = new[k].src => i = k
    BY ONLY FilesCopied(s, list), \A i \in 1 .. n : new[i] = list[i], Len(list) = n
    DEF FilesCopied
  <2>2. \A i \in 1 .. n : new[i].src # new[n + 1].src
    BY ONLY \A i \in 1 .. n : new[i] = list[i], \A i \in 1 .. n : list[i].src # f,
            new[n + 1].src = f
  <2> QED
    BY ONLY <1>1, <2>1, <2>2
<1>4. new[1].src = Root
  <2>1. CASE n = 0
    BY ONLY <2>1, new[n + 1].src = f, n = 0 => f = Root
  <2>2. CASE n # 0
    <3>1. n >= 1 /\ 1 \in 1 .. n
      BY <2>2
    <3> QED
      BY ONLY <3>1, FilesCopied(s, list), \A i \in 1 .. n : new[i] = list[i],
              Len(list) = n DEF FilesCopied
  <2> QED
    BY ONLY <2>1, <2>2
<1> QED
  BY ONLY <1>2, <1>3, <1>4, Len(new) = n + 1 DEF FilesCopied

LEMMA DirsReturned ==
  ASSUME NEW s, NEW list, NEW new, NEW done, NEW more, NEW x,
         \A i \in 1 .. Len(list) : new[i].src = list[i].src
                                   /\ new[i].kind = list[i].kind,
         \A i \in done : /\ i \in 1 .. Len(list)
                         /\ LeadsWithin(list[i].children, Len(list))
                         /\ i # x => new[i].children = list[i].children,
         \A i \in more : i \in done \/ i = x,
         DirsCopied(s, list, done),
         x \in more => DirCopied(s, new, x)
  PROVE  DirsCopied(s, new, more)
<1>1. ASSUME NEW i \in more, i # x
      PROVE  DirCopied(s, new, i)
  <2>1. i \in done
    BY <1>1
  <2>2. /\ i \in 1 .. Len(list) /\ LeadsWithin(list[i].children, Len(list))
        /\ new[i].children = list[i].children
        /\ new[i].src = list[i].src /\ new[i].kind = list[i].kind
    BY <1>1, <2>1
  <2>3. /\ Len(list[i].children) = IF list[i].kind = "dir"
             THEN Cardinality(NamesOf(s, list[i].src)) ELSE 0
        /\ EntriesOf(s, list, list[i].src, list[i].children)
    BY ONLY <2>1, DirsCopied(s, list, done) DEF DirsCopied, DirCopied
  <2>4. \A j \in 1 .. Len(list) : new[j].src = list[j].src
    OBVIOUS
  <2>5. EntriesOf(s, new, list[i].src, list[i].children)
    BY ONLY <2>2, <2>3, <2>4, EntriesStay
  <2> QED
    BY ONLY <2>2, <2>3, <2>5 DEF DirCopied
<1>2. x \in more => DirCopied(s, new, x)
  OBVIOUS
<1> QED
  BY ONLY <1>1, <1>2 DEF DirsCopied

LEMMA DefectsStay ==
  ASSUME NEW s, NEW list, NEW new, Len(new) = Len(list),
         \A i \in 1 .. Len(list) : new[i].src = list[i].src
                                   /\ new[i].xattrs = list[i].xattrs
  PROVE  Defective(s, new) = Defective(s, list)
<1>1. \A i \in 1 .. Len(list) :
        new[i].xattrs # AllXattrs(s, new[i].src) <=>
        list[i].xattrs # AllXattrs(s, list[i].src)
  OBVIOUS
<1> QED
  BY ONLY <1>1, Len(new) = Len(list) DEF Defective

LEMMA DefectAdded ==
  ASSUME NEW s, NEW list, NEW new, NEW n \in Nat, Len(list) = n,
         Len(new) = n + 1, \A i \in 1 .. n : new[i] = list[i],
         NEW errs \in Nat, Cardinality(Defective(s, list)) <= errs,
         NEW failed \in Nat,
         failed = 0 => new[n + 1].xattrs = AllXattrs(s, new[n + 1].src)
  PROVE  Cardinality(Defective(s, new)) <= errs + failed
<1> DEFINE old == Defective(s, list)
           now == Defective(s, new)
<1>1. old \in SUBSET (1 .. n) /\ IsFiniteSet(1 .. n)
  BY FS_Interval DEF Defective
<1>2. IsFiniteSet(old) /\ Cardinality(old) \in Nat
  BY ONLY <1>1, FS_Subset, FS_CardinalityType
<1>3. \A i \in 1 .. n + 1 : i \in 1 .. n \/ i = n + 1
  OBVIOUS
<1>4. \A i \in 1 .. n : i \in 1 .. n + 1 /\ i # n + 1
  OBVIOUS
<1>5. \A i \in 1 .. n : i \in now <=> i \in old
  BY ONLY <1>4, Len(list) = n, Len(new) = n + 1,
          \A i \in 1 .. n : new[i] = list[i] DEF Defective
<1>6. \A i \in now : i \in 1 .. n + 1
  BY ONLY Len(new) = n + 1 DEF Defective
<1>7. CASE failed = 0
  <2>1. n + 1 \notin now
    BY <1>7 DEF Defective
  <2>2. now = old
    BY ONLY <1>1, <1>3, <1>5, <1>6, <2>1
  <2> HIDE DEF now, old
  <2> QED
    BY ONLY <1>2, <1>7, <2>2, Cardinality(Defective(s, list)) <= errs,
            errs \in Nat DEF now, old
<1>8. CASE failed # 0
  <2>1. now \in SUBSET (old \cup {n + 1})
    BY ONLY <1>3, <1>5, <1>6
  <2>2. n + 1 \notin old
    BY ONLY <1>1, <1>4
  <2> HIDE DEF now, old
  <2>3. /\ IsFiniteSet(old \cup {n + 1})
        /\ Cardinality(old \cup {n + 1}) = Cardinality(old) + 1
    BY ONLY <1>2, <2>2, FS_AddElement
  <2>4. Cardinality(now) <= Cardinality(old \cup {n + 1}) /\ Cardinality(now) \in Nat
    BY ONLY <2>1, <2>3, FS_Subset, FS_CardinalityType
  <2>5. Cardinality(old) <= errs
    BY DEF old
  <2> DEFINE a == Cardinality(now)
             b == Cardinality(old)
             c == Cardinality(old \cup {n + 1})
  <2>6. a <= c /\ a \in Nat /\ c = b + 1 /\ b \in Nat /\ b <= errs
    BY ONLY <1>2, <2>3, <2>4, <2>5
  <2>7. failed \in Nat /\ failed # 0 /\ errs \in Nat
    BY <1>8
  <2> HIDE DEF a, b, c
  <2>8. a <= errs + failed
    BY ONLY <2>6, <2>7
  <2> QED
    BY ONLY <2>8 DEF a, now
<1> QED
  BY ONLY <1>7, <1>8

-----------------------------------------------------------------------------
(* The steps.                                                              *)

Continues ==
  phase' = "failed"
    \/ Copies(source, phase', stack', meta', inodes', links', errors')

LEMMA MoveCopies ==
  ASSUME Copying, phase # "readdir", phase' # "readdir",
         UNCHANGED <<stack, inodes, links, errors>>,
         InVisit(source, phase', stack, meta', inodes, links)
  PROVE  Continues
<1>1. Complete(phase', stack, inodes) = Complete(phase, stack, inodes)
  BY DEF Complete
<1>2. Copies(source, phase', stack, meta', inodes, links, errors)
  BY ONLY <1>1, Copying, InVisit(source, phase', stack, meta', inodes, links)
  DEF Copying, Copies
<1>3. stack' = stack /\ inodes' = inodes /\ links' = links /\ errors' = errors
  OBVIOUS
<1> QED
  BY ONLY <1>2, <1>3 DEF Continues

LEMMA CheckSourceCopies == IInv /\ Copying /\ CheckSource => Continues
<1> SUFFICES ASSUME IInv, Copying, CheckSource
             PROVE  Continues
  OBVIOUS
<1>1. phase = "check" /\ Len(stack) = 0
  BY IInvFacts DEF CheckSource, InStep
<1>2. CASE phase' = "failed"
  BY <1>2 DEF Continues
<1>3. CASE phase' # "failed"
  <2>1. phase' = "visit" /\ UNCHANGED <<stack, inodes, links, errors>>
    BY <1>3 DEF CheckSource, Fail
  <2>2. InVisit(source, phase', stack, meta', inodes, links)
    BY ONLY <1>1, <2>1 DEF InVisit
  <2> QED
    BY ONLY <1>1, <2>1, <2>2, Copying, MoveCopies
<1> QED
  BY <1>2, <1>3

LEMMA StatCopies == IInv /\ argument = "dir" /\ Copying /\ Stat => Continues
<1> SUFFICES ASSUME IInv, argument = "dir", Copying, Stat
             PROVE  Continues
  OBVIOUS
<1> DEFINE f == Current(source, inodes, stack)
<1>1. /\ phase = "visit"
      /\ CallsCopy(source, inodes, stack)
      /\ InVisit(source, phase, stack, meta, inodes, links)
  BY DEF Stat, Copying, Copies
<1>2. CASE phase' = "failed"
  BY <1>2 DEF Continues
<1>3. CASE phase' # "failed"
  <2>1. /\ phase' \in {"content", "attrs"} /\ meta' = Lstat(CallPath)
        /\ UNCHANGED <<stack, inodes, links, errors>>
    BY <1>3 DEF Stat, Fail
  <2>2. Len(stack) >= 1 => Visits(source, inodes, stack[Len(stack)])
    BY ONLY <1>1 DEF InVisit, Visiting
  <2>3. Len(stack) >= 1 => Len(Top.todo) >= 1
    BY ONLY <2>2 DEF Visits, Top
  <2>4. meta' = Stated(source, f)
    BY ONLY <1>1, <2>1, <2>3, CurrentIs, IInv, argument = "dir"
  <2>5. InVisit(source, phase', stack, meta', inodes, links)
    BY ONLY <1>1, <2>1, <2>2, <2>4 DEF InVisit
  <2> QED
    BY ONLY <1>1, <2>1, <2>5, Copying, MoveCopies
<1> QED
  BY <1>2, <1>3

LEMMA ReadContentCopies == IInv /\ Copying /\ ReadContent => Continues
<1> SUFFICES ASSUME IInv, Copying, ReadContent
             PROVE  Continues
  OBVIOUS
<1>1. phase = "content" /\ InVisit(source, phase, stack, meta, inodes, links)
  BY DEF ReadContent, Copying, Copies
<1>2. CASE phase' = "failed"
  BY <1>2 DEF Continues
<1>3. CASE phase' # "failed"
  <2>1. phase' = "attrs" /\ UNCHANGED <<stack, meta, inodes, links, errors>>
    BY <1>3 DEF ReadContent, Fail
  <2>2. InVisit(source, phase', stack, meta', inodes, links)
    BY ONLY <1>1, <2>1 DEF InVisit, Visiting
  <2> QED
    BY ONLY <1>1, <2>1, <2>2, Copying, MoveCopies
<1> QED
  BY <1>2, <1>3

(* A step that changes the calls alone.                                       *)
LEMMA CallsChange ==
  ASSUME Copying, UNCHANGED <<inodes, links, errors>>,
         CallsCopy(source, inodes, stack'),
         InVisit(source, phase', stack', meta', inodes, links),
         Complete(phase', stack', inodes) \in SUBSET Complete(phase, stack, inodes)
  PROVE  Continues
<1> DEFINE done == Complete(phase, stack, inodes)
           more == Complete(phase', stack', inodes)
<1>1. /\ FilesCopied(source, inodes)
      /\ DirsCopied(source, inodes, done)
      /\ LinksKnown(source, inodes, links, done)
      /\ Cardinality(Defective(source, inodes)) <= errors
  BY DEF Copying, Copies
<1>2. more \in SUBSET done
  OBVIOUS
<1> HIDE DEF done, more
<1>3. DirsCopied(source, inodes, more)
  BY ONLY <1>1, <1>2 DEF DirsCopied
<1>4. LinksKnown(source, inodes, links, more)
  BY ONLY <1>1, <1>2 DEF LinksKnown
<1>5. Copies(source, phase', stack', meta', inodes, links, errors)
  BY ONLY <1>1, <1>3, <1>4, CallsCopy(source, inodes, stack'),
          InVisit(source, phase', stack', meta', inodes, links)
  DEF Copies, more
<1>6. inodes' = inodes /\ links' = links /\ errors' = errors
  OBVIOUS
<1> QED
  BY ONLY <1>5, <1>6 DEF Continues

LEMMA ReadDirCopies == IInv /\ argument = "dir" /\ Copying /\ ReadDir => Continues
<1> SUFFICES ASSUME IInv, argument = "dir", Copying, ReadDir
             PROVE  Continues
  OBVIOUS
<1> DEFINE f == Current(source, inodes, stack)
           n == Len(inodes)
           k == Len(stack)
           fr == [idx |-> n, path |-> CallPath,
                  todo |-> SortedNames(Lstat(CallPath).id), children |-> << >>,
                  meta |-> NoMeta]
<1>1. /\ phase = "readdir" /\ source \in Sources /\ k \in Nat /\ n \in Nat
      /\ StackTyped
      /\ CallsCopy(source, inodes, stack)
      /\ InVisit(source, phase, stack, meta, inodes, links)
  BY IInvFacts DEF ReadDir, Copying, Copies
<1>2. CASE phase' = "failed"
  BY <1>2 DEF Continues
<1>3. CASE phase' # "failed"
  <2>1. /\ phase' = "loop" /\ stack' = Append(stack, fr)
        /\ UNCHANGED <<inodes, links, errors>>
    BY <1>3 DEF ReadDir, Fail
  <2>2. /\ k >= 1 => Visits(source, inodes, stack[k])
        /\ inodes[n].src = f /\ source.kind[f] = "dir"
    BY ONLY <1>1 DEF InVisit, Visiting
  <2>3. k >= 1 => Len(Top.todo) >= 1
    BY ONLY <2>2 DEF Visits, Top
  <2>4. /\ f \in Files /\ CallPath \in Seq(Names)
        /\ Resolve(source, CallPath) = f
        /\ Lstat(CallPath) = Stated(source, f)
    BY ONLY <1>1, <2>3, CurrentIs, IInv, argument = "dir"
  <2>5. SortedNames(Lstat(CallPath).id) = Listed(source, f)
    <3>1. Lstat(CallPath).id = f
      BY ONLY <2>4 DEF Stated
    <3>2. NamesIn(f) = NamesOf(source, f)
      BY DEF NamesIn, NamesOf
    <3> QED
      BY ONLY <3>1, <3>2 DEF SortedNames, Listed
  <2>6. /\ fr.idx = n /\ fr.path = CallPath /\ fr.children = << >>
        /\ fr.todo = Listed(source, f)
    BY ONLY <2>5
  <2> HIDE DEF fr, f
  <2>7. CallCopies(source, inodes, fr)
    BY ONLY <1>1, <2>2, <2>4, <2>6, CallStarts
  <2>8. IsSeq(stack)
    BY ONLY <1>1 DEF StackTyped, CallsTyped
  <2>9. /\ Len(stack') = k + 1 /\ stack'[k + 1] = fr
        /\ \A j \in 1 .. k : stack'[j] = stack[j]
    BY ONLY <2>1, <2>8, AppendIs
  <2>10. \A j \in 1 .. k + 1 : j \in 1 .. k \/ j = k + 1
    BY ONLY <1>1
  <2>11. \A j \in 1 .. k + 1 : CallCopies(source, inodes, stack'[j])
    BY ONLY <1>1, <2>7, <2>9, <2>10 DEF CallsCopy
  <2>12. ASSUME NEW j \in 1 .. k + 1, j + 1 \in 1 .. k + 1
         PROVE  /\ Visits(source, inodes, stack'[j])
                /\ inodes[stack'[j + 1].idx].src = Child(source, inodes, stack'[j])
    <3>1. CASE j + 1 \in 1 .. k
      <4>1. j \in 1 .. k
        BY ONLY <1>1, <2>12, <3>1
      <4>2. /\ Visits(source, inodes, stack[j])
            /\ inodes[stack[j + 1].idx].src = Child(source, inodes, stack[j])
        BY ONLY <1>1, <3>1, <4>1 DEF CallsCopy
      <4> QED
        BY ONLY <2>9, <3>1, <4>1, <4>2
    <3>2. CASE j + 1 \notin 1 .. k
      <4>1. j = k /\ k \in 1 .. k /\ k >= 1
        BY ONLY <1>1, <2>12, <3>2
      <4>2. f = Child(source, inodes, stack[k])
        BY ONLY <4>1 DEF Current, f
      <4> QED
        BY ONLY <2>2, <2>6, <2>9, <4>1, <4>2
    <3> QED
      BY ONLY <3>1, <3>2
  <2>13. CallsCopy(source, inodes, stack')
    BY ONLY <2>9, <2>11, <2>12 DEF CallsCopy
  <2>14. InVisit(source, phase', stack', meta', inodes, links)
    BY ONLY <2>1 DEF InVisit, Visiting
  <2>15. Complete(phase', stack', inodes) \in SUBSET Complete(phase, stack, inodes)
    <3>1. \A j \in 1 .. k : j \in 1 .. k + 1
      BY ONLY <1>1
    <3>2. k + 1 \in 1 .. k + 1
      BY ONLY <1>1
    <3> QED
      BY ONLY <2>6, <2>9, <3>1, <3>2 DEF Complete, n
  <2> QED
    BY ONLY <2>1, <2>13, <2>14, <2>15, Copying, CallsChange
<1> QED
  BY <1>2, <1>3

(* The loop takes the link to a known file or starts a visit of the child.     *)
LEMMA NextChildCopies ==
  IInv /\ argument = "dir" /\ Copying /\ NextChild => Continues
<1> SUFFICES ASSUME IInv, argument = "dir", Copying, NextChild
             PROVE  Continues
  OBVIOUS
<1> DEFINE m == Lstat(CallPath)
           k == Len(stack)
           f == Child(source, inodes, Top)
<1>1. /\ phase = "loop" /\ Top.todo # << >> /\ source \in Sources /\ k \in Nat
      /\ StackTyped /\ k >= 1
      /\ CallsCopy(source, inodes, stack)
      /\ LinksKnown(source, inodes, links, Complete(phase, stack, inodes))
  BY IInvFacts DEF NextChild, Copying, Copies, InStep
<1>2. IsSeq(stack) /\ k \in 1 .. k /\ IsFrame(Top) /\ CallCopies(source, inodes, Top)
  BY ONLY <1>1 DEF StackTyped, CallsTyped, CallsCopy, Top
<1>3. Len(Top.todo) >= 1
  <2>1. IsSeq(Top.todo)
    BY ONLY <1>2 DEF CallCopies
  <2> DEFINE t == Top.todo
  <2>2. t \in Seq({t[i] : i \in 1 .. Len(t)}) /\ t # << >> /\ Len(t) \in Nat
    BY ONLY <1>1, <2>1, SeqFacts DEF IsSeq
  <2>3. Len(t) # 0
    BY ONLY <2>2, EmptySeq
  <2> HIDE DEF t
  <2>4. Len(t) >= 1
    BY ONLY <2>2, <2>3
  <2> QED
    BY ONLY <2>4 DEF t
<1>4. m = Stated(source, f)
  <2>1. f = Current(source, inodes, stack)
    BY ONLY <1>1 DEF Current, Top
  <2> QED
    BY ONLY <1>1, <1>3, <2>1, CurrentIs, IInv, argument = "dir"
<1>5. m.id = f /\ m.kind = source.kind[f]
  BY ONLY <1>4 DEF Stated
<1>6. \/ phase' = "failed"
      \/ /\ MayBeLinked(m) /\ m.id \in DOMAIN links
         /\ stack' = [stack EXCEPT ![k] = AddEntry(@, links[m.id], m)]
         /\ UNCHANGED <<phase, meta, inodes, links, errors>>
      \/ /\ ~ (MayBeLinked(m) /\ m.id \in DOMAIN links)
         /\ stack' = [stack EXCEPT ![k].meta = m] /\ phase' = "visit"
         /\ UNCHANGED <<meta, inodes, links, errors>>
  BY Zenon DEF NextChild, Fail, Descend
<1>7. \A fr : fr.idx = Top.idx /\ stack' = [stack EXCEPT ![k] = fr] /\ phase' # "readdir"
               /\ CallCopies(source, inodes, fr) =>
        /\ CallsCopy(source, inodes, stack') /\ Len(stack') = k
        /\ stack'[k] = fr
        /\ Complete(phase', stack', inodes) \in SUBSET Complete(phase, stack, inodes)
  <2> SUFFICES ASSUME NEW fr, fr.idx = Top.idx, stack' = [stack EXCEPT ![k] = fr],
                      phase' # "readdir", CallCopies(source, inodes, fr)
               PROVE  /\ CallsCopy(source, inodes, stack') /\ Len(stack') = k
                      /\ stack'[k] = fr
                      /\ Complete(phase', stack', inodes)
                           \in SUBSET Complete(phase, stack, inodes)
    OBVIOUS
  <2> DEFINE t == [stack EXCEPT ![Len(stack)] = fr]
  <2>1. /\ CallsCopy(source, inodes, t) /\ Len(t) = Len(stack)
        /\ t[Len(stack)] = fr
        /\ \A n \in 1 .. Len(stack) : t[n].idx = stack[n].idx
    BY ONLY <1>1, <1>2, fr.idx = Top.idx, CallCopies(source, inodes, fr), CallsExcept
    DEF Top
  <2>2. stack' = t
    OBVIOUS
  <2> HIDE DEF t
  <2>3. Complete(phase', stack', inodes) \in SUBSET Complete(phase, stack, inodes)
    BY ONLY <1>1, <2>1, <2>2 DEF Complete
  <2> QED
    BY ONLY <2>1, <2>2, <2>3
<1> HIDE DEF m, f
<1>8. CASE phase' = "failed"
  BY ONLY <1>8 DEF Continues
<1>9. CASE /\ MayBeLinked(m) /\ m.id \in DOMAIN links
           /\ stack' = [stack EXCEPT ![k] = AddEntry(@, links[m.id], m)]
           /\ UNCHANGED <<phase, meta, inodes, links, errors>>
  <2> DEFINE x == links[m.id]
             fr == AddEntry(Top, x, m)
  <2>1. inodes[x].src = f
    BY ONLY <1>1, <1>5, <1>9 DEF LinksKnown
  <2>2. stack' = [stack EXCEPT ![k] = fr]
    BY ONLY <1>9 DEF Top
  <2> HIDE DEF x
  <2>3. CallCopies(source, inodes, fr)
    BY ONLY <1>1, <1>2, <1>3, <1>5, <2>1, CallAdds DEF f
  <2>4. fr.idx = Top.idx
    BY ONLY <1>2, FrameWithEntry
  <2> HIDE DEF fr
  <2>5. phase' = "loop" /\ UNCHANGED <<inodes, links, errors>>
    BY ONLY <1>1, <1>9
  <2>6. /\ CallsCopy(source, inodes, stack')
        /\ Complete(phase', stack', inodes) \in SUBSET Complete(phase, stack, inodes)
    BY ONLY <1>7, <2>2, <2>3, <2>4, <2>5
  <2>7. InVisit(source, phase', stack', meta', inodes, links)
    BY ONLY <2>5 DEF InVisit, Visiting
  <2> QED
    BY ONLY <2>5, <2>6, <2>7, Copying, CallsChange
<1>10. CASE /\ ~ (MayBeLinked(m) /\ m.id \in DOMAIN links)
            /\ stack' = [stack EXCEPT ![k].meta = m] /\ phase' = "visit"
            /\ UNCHANGED <<meta, inodes, links, errors>>
  <2> DEFINE fr == [Top EXCEPT !.meta = m]
  <2>1. m = NoMeta \/ m.id \in FileIds
    <3>1. f \in Files
      BY ONLY <1>1, <1>3, TopLooks, IInv DEF f
    <3> QED
      BY ONLY <1>5, <3>1 DEF FileIds
  <2>2. /\ fr.idx = Top.idx /\ fr.children = Top.children /\ fr.path = Top.path
        /\ fr.todo = Top.todo /\ fr.meta = m
    BY ONLY <1>2, <2>1, FrameWithMeta
  <2>3. stack' = [stack EXCEPT ![k] = fr]
    BY ONLY <1>10 DEF Top
  <2> HIDE DEF fr
  <2>4. CallCopies(source, inodes, fr)
    BY ONLY <1>2, <2>2 DEF CallCopies
  <2>5. /\ CallsCopy(source, inodes, stack') /\ Len(stack') = k /\ stack'[k] = fr
        /\ Complete(phase', stack', inodes) \in SUBSET Complete(phase, stack, inodes)
    BY ONLY <1>7, <1>10, <2>2, <2>3, <2>4
  <2>6. Child(source, inodes, fr) = f
    BY ONLY <2>2 DEF Child, f
  <2>7. Visits(source, inodes, stack'[Len(stack')])
    BY ONLY <1>3, <1>4, <2>2, <2>5, <2>6 DEF Visits
  <2>8. Current(source, inodes, stack') = f
    BY ONLY <1>1, <2>5, <2>6 DEF Current
  <2>9. InVisit(source, phase', stack', meta', inodes, links)
    BY ONLY <1>4, <1>5, <1>10, <2>7, <2>8 DEF InVisit
  <2> QED
    BY ONLY <1>10, <2>5, <2>9, Copying, CallsChange
<1> QED
  BY ONLY <1>6, <1>8, <1>9, <1>10

LEMMA LinksStay ==
  ASSUME NEW s, NEW list, NEW new, NEW lks, NEW done,
         \A i \in 1 .. Len(list) : new[i].src = list[i].src,
         \A f \in DOMAIN lks : lks[f] \in 1 .. Len(list),
         \A i \in done : i \in 1 .. Len(list),
         LinksKnown(s, list, lks, done)
  PROVE  LinksKnown(s, new, lks, done)
<1>1. \A f \in DOMAIN lks : new[lks[f]].src = f
  BY DEF LinksKnown
<1>2. \A i \in done \ {1} :
        MayBeLinked(Stated(s, new[i].src)) => new[i].src \in DOMAIN lks
  BY DEF LinksKnown
<1> QED
  BY ONLY <1>1, <1>2 DEF LinksKnown

(* A call ends, in a list that has its inode x completed.                      *)
LEMMA CallReturns ==
  ASSUME IInv, Copying, phase \in {"attrs", "loop"},
         NEW callers, CallsTyped(callers, Len(inodes)),
         CallsCopy(source, inodes, callers),
         Len(callers) >= 1 => Visits(source, inodes, callers[Len(callers)]),
         Len(inodes') \in Nat, Len(inodes) <= Len(inodes'),
         \A i \in 1 .. Len(inodes) : inodes'[i].src = inodes[i].src
                                     /\ inodes'[i].kind = inodes[i].kind,
         NEW x, Return(x, callers), Len(callers) = 0 => x = 1,
         inodes'[x].src = Current(source, inodes, callers),
         \A i \in 1 .. Len(inodes') :
           i = x \/ i \in Closed \/ \E n \in 1 .. Len(callers) : callers[n].idx = i,
         \A i \in Closed : i # x => inodes'[i].children = inodes[i].children,
         DirCopied(source, inodes', x),
         FilesCopied(source, inodes'),
         Cardinality(Defective(source, inodes')) <= errors'
  PROVE  Continues
<1> DEFINE k == Len(callers)
           more == Complete(phase', stack', inodes')
<1>1. /\ InodesTyped /\ Tree /\ source \in Sources /\ Len(inodes) \in Nat
  BY IInvFacts
<1>2. /\ DirsCopied(source, inodes, Closed)
      /\ LinksKnown(source, inodes, links, Closed)
  BY CompleteIs DEF Copying, Copies
<1>3. k \in Nat
  BY SeqFacts DEF CallsTyped
<1>4. /\ CallsCopy(source, inodes', callers)
      /\ k >= 1 => Visits(source, inodes', callers[k])
      /\ Current(source, inodes', callers) = Current(source, inodes, callers)
  BY ONLY CallsCopyStays, CallsTyped(callers, Len(inodes)),
          CallsCopy(source, inodes, callers),
          Len(callers) >= 1 => Visits(source, inodes, callers[Len(callers)]),
          \A i \in 1 .. Len(inodes) : inodes'[i].src = inodes[i].src
                                      /\ inodes'[i].kind = inodes[i].kind
<1>5. CallsTyped(callers, Len(inodes'))
  BY ONLY <1>1, CallsFurther, CallsTyped(callers, Len(inodes)),
          Len(inodes') \in Nat, Len(inodes) <= Len(inodes')
<1>6. /\ CallsCopy(source, inodes', stack') /\ Len(stack') = k
      /\ \A n \in 1 .. k : stack'[n].idx = callers[n].idx
      /\ phase' \in {"wire", "loop"}
      /\ links' = IF k >= 1 /\ MayBeLinked(Stated(source, inodes'[x].src))
                    THEN Remember(inodes'[x].src, x) ELSE links
  <2>1. inodes'[x].src = Current(source, inodes', callers)
    BY ONLY <1>4, inodes'[x].src = Current(source, inodes, callers)
  <2> HIDE DEF k
  <2> QED
    BY ONLY <1>1, <1>4, <1>5, <2>1, ReturnCopies, Return(x, callers) DEF k
<1>7. \A i \in more : i \in Closed \/ i = x
  BY ONLY <1>6, \A i \in 1 .. Len(inodes') :
            i = x \/ i \in Closed \/ \E n \in 1 .. Len(callers) : callers[n].idx = i
  DEF Complete
<1>8. \A i \in Closed : i \in 1 .. Len(inodes)
  BY DEF Closed
<1> HIDE DEF more, k
<1>9. DirsCopied(source, inodes', more)
  <2>1. \A i \in Closed : /\ i \in 1 .. Len(inodes)
                          /\ LeadsWithin(inodes[i].children, Len(inodes))
                          /\ i # x => inodes'[i].children = inodes[i].children
    BY ONLY <1>1, <1>8,
            \A i \in Closed : i # x => inodes'[i].children = inodes[i].children
    DEF InodesTyped
  <2> QED
    BY ONLY <1>2, <1>7, <2>1, DirsReturned,
            \A i \in 1 .. Len(inodes) : inodes'[i].src = inodes[i].src
                                        /\ inodes'[i].kind = inodes[i].kind,
            DirCopied(source, inodes', x)
<1>10. LinksKnown(source, inodes', links', more)
  <2>1. \A f \in DOMAIN links : links[f] \in 1 .. Len(inodes)
    BY ONLY <1>1, <1>8 DEF Tree, LinksLead
  <2>2. LinksKnown(source, inodes', links, Closed)
    BY ONLY <1>2, <1>8, <2>1, LinksStay,
            \A i \in 1 .. Len(inodes) : inodes'[i].src = inodes[i].src
                                        /\ inodes'[i].kind = inodes[i].kind
  <2> DEFINE inside == k >= 1
  <2>3. inside \in BOOLEAN /\ (~ inside => x = 1)
    BY ONLY <1>3, Len(callers) = 0 => x = 1 DEF k
  <2>4. links' = IF inside /\ MayBeLinked(Stated(source, inodes'[x].src))
                   THEN Remember(inodes'[x].src, x) ELSE links
    BY ONLY <1>6
  <2>5. \A i \in more : i \in Closed \/ i = x \/ i = 1
    BY ONLY <1>7
  <2> HIDE DEF inside
  <2> QED
    BY ONLY <2>2, <2>3, <2>4, <2>5, LinksReturned
<1>11. InVisit(source, phase', stack', meta', inodes', links')
  BY ONLY <1>6 DEF InVisit, Visiting
<1> QED
  BY ONLY <1>6, <1>9, <1>10, <1>11, FilesCopied(source, inodes'),
          Cardinality(Defective(source, inodes')) <= errors'
  DEF Continues, Copies, more

LEMMA FilesStay ==
  ASSUME NEW s, NEW list, NEW new, Len(new) = Len(list),
         \A i \in 1 .. Len(list) : new[i].src = list[i].src
                                   /\ new[i].kind = list[i].kind,
         Len(list) \in Nat, FilesCopied(s, list)
  PROVE  FilesCopied(s, new)
<1>1. Len(list) >= 1 => 1 \in 1 .. Len(list)
  OBVIOUS
<1> QED
  BY <1>1 DEF FilesCopied

(* set_parent_nids changes ".." alone.                                       *)
LEMMA WiringStores ==
  ASSUME InodesTyped, SetParentNids
  PROVE  /\ IsSeq(inodes') /\ Len(inodes') = Len(inodes)
         /\ \A i \in 1 .. Len(inodes) :
              /\ inodes'[i].src = inodes[i].src
              /\ inodes'[i].kind = inodes[i].kind
              /\ inodes'[i].children = inodes[i].children
              /\ inodes'[i].xattrs = inodes[i].xattrs
<1> DEFINE n == Len(inodes)
           r(i) == IF inodes[i].kind = "dir"
                     THEN [inodes[i] EXCEPT !.parent = Wired(i)]
                     ELSE inodes[i]
<1>1. n \in Nat /\ DOMAIN inodes = 1 .. n
  BY SeqFacts DEF InodesTyped
<1>2. inodes' = [i \in 1 .. n |-> r(i)]
  BY <1>1 DEF SetParentNids
<1>3. ASSUME NEW i \in 1 .. n
      PROVE  /\ r(i).src = inodes[i].src /\ r(i).kind = inodes[i].kind
             /\ r(i).children = inodes[i].children /\ r(i).xattrs = inodes[i].xattrs
  <2>1. IsInode(inodes[i])
    BY ONLY InodesTyped, i \in 1 .. n DEF InodesTyped
  <2>2. CASE inodes[i].kind = "dir"
    <3> DEFINE new == [inodes[i] EXCEPT !.parent = Wired(i)]
    <3>1. r(i) = new
      BY ONLY <2>2
    <3> HIDE DEF r
    <3>2. /\ new.src = inodes[i].src /\ new.kind = inodes[i].kind
          /\ new.children = inodes[i].children /\ new.xattrs = inodes[i].xattrs
      BY ONLY <2>1, InodeWithParent
    <3> QED
      BY ONLY <3>1, <3>2
  <2>3. CASE inodes[i].kind # "dir"
    BY ONLY <2>3
  <2> QED
    BY ONLY <2>2, <2>3
<1> HIDE DEF r
<1>4. /\ IsSeq(inodes') /\ Len(inodes') = n /\ \A i \in 1 .. n : inodes'[i] = r(i)
  <2>1. \A i \in 1 .. n : inodes'[i] = r(i)
    BY ONLY <1>2
  <2>2. inodes' = [i \in 1 .. n |-> inodes'[i]]
    BY ONLY <1>2
  <2>3. n \in Nat
    BY ONLY <1>1
  <2> HIDE DEF n
  <2> QED
    BY ONLY <2>1, <2>2, <2>3, FunctionIs
<1>5. \A i \in 1 .. n :
        /\ inodes'[i].src = inodes[i].src /\ inodes'[i].kind = inodes[i].kind
        /\ inodes'[i].children = inodes[i].children
        /\ inodes'[i].xattrs = inodes[i].xattrs
  BY ONLY <1>3, <1>4
<1> QED
  BY ONLY <1>4, <1>5

LEMMA SetParentNidsCopies == IInv /\ Copying /\ SetParentNids => Continues
<1> SUFFICES ASSUME IInv, Copying, SetParentNids
             PROVE  Continues
  OBVIOUS
<1> DEFINE n == Len(inodes)
           more == Complete(phase', stack, inodes')
<1>1. /\ InodesTyped /\ StackTyped /\ Tree /\ n \in Nat
      /\ phase = "wire" /\ Len(stack) = 0
  BY IInvFacts DEF SetParentNids, InStep
<1>2. /\ FilesCopied(source, inodes) /\ CallsCopy(source, inodes, stack)
      /\ DirsCopied(source, inodes, Closed)
      /\ LinksKnown(source, inodes, links, Closed)
      /\ Cardinality(Defective(source, inodes)) <= errors
  BY CompleteIs DEF Copying, Copies
<1>3. phase' = "done" /\ UNCHANGED <<stack, meta, links, errors>>
  BY DEF SetParentNids
<1>4. /\ Len(inodes') = n
      /\ \A i \in 1 .. n :
           /\ inodes'[i].src = inodes[i].src /\ inodes'[i].kind = inodes[i].kind
           /\ inodes'[i].children = inodes[i].children
           /\ inodes'[i].xattrs = inodes[i].xattrs
  BY <1>1, WiringStores
<1>5. FilesCopied(source, inodes')
  BY ONLY <1>1, <1>2, <1>4, FilesStay
<1>6. CallsCopy(source, inodes', stack)
  BY ONLY <1>1, <1>2, <1>4, CallsCopyStays DEF StackTyped
<1>7. \A i \in more : i \in Closed
  BY ONLY <1>1, <1>4 DEF Complete, Closed, IsOpen
<1>8. \A i \in Closed : i \in 1 .. n
  BY ONLY DEF Closed
<1> HIDE DEF more
<1>9. DirsCopied(source, inodes', more)
  <2>1. 0 \notin more
    BY ONLY <1>1, <1>7, <1>8
  <2>2. \A i \in Closed : /\ i \in 1 .. Len(inodes)
                          /\ LeadsWithin(inodes[i].children, Len(inodes))
                          /\ i # 0 => inodes'[i].children = inodes[i].children
    BY ONLY <1>1, <1>4, <1>8 DEF InodesTyped
  <2>3. \A i \in more : i \in Closed \/ i = 0
    BY ONLY <1>7
  <2>4. 0 \in more => DirCopied(source, inodes', 0)
    BY ONLY <2>1
  <2> QED
    <3>1. \A i \in 1 .. Len(inodes) : inodes'[i].src = inodes[i].src
                                        /\ inodes'[i].kind = inodes[i].kind
      BY ONLY <1>4
    <3>2. DirsCopied(source, inodes, Closed)
      BY ONLY <1>2
    <3> HIDE DEF n
    <3> QED
      BY ONLY <3>1, <3>2, <2>2, <2>3, <2>4, DirsReturned
<1>10. LinksKnown(source, inodes', links, more)
  <2>1. \A f \in DOMAIN links : links[f] \in 1 .. Len(inodes)
    BY ONLY <1>1, <1>8 DEF Tree, LinksLead
  <2>2. \A i \in 1 .. Len(inodes) : inodes'[i].src = inodes[i].src
    BY ONLY <1>4
  <2>3. LinksKnown(source, inodes', links, Closed)
    BY ONLY <1>2, <1>8, <2>1, <2>2, LinksStay
  <2> QED
    BY ONLY <1>7, <2>3 DEF LinksKnown
<1>11. Cardinality(Defective(source, inodes')) <= errors
  <2>1. Defective(source, inodes') = Defective(source, inodes)
    BY ONLY <1>4, DefectsStay
  <2> QED
    BY ONLY <1>2, <2>1
<1>12. InVisit(source, phase', stack, meta', inodes', links)
  BY ONLY <1>3 DEF InVisit, Visiting
<1>13. Copies(source, phase', stack, meta', inodes', links, errors)
  BY ONLY <1>5, <1>6, <1>9, <1>10, <1>11, <1>12 DEF Copies, more
<1> QED
  BY ONLY <1>3, <1>13 DEF Continues

(* What the calls for xattrs return.                                          *)
LEMMA ReadDefects ==
  ASSUME source \in Sources, NEW f, NEW read \in XattrReads(f)
  PROVE  /\ read.failed \in Nat
         /\ read.failed = 0 => read.xattrs = AllXattrs(source, f)
<1>1. Supported(f) = Indexed(source, f)
  BY DEF Supported, Indexed
<1>2. Supported(f) \in SUBSET DOMAIN XattrIndex
  BY TreeAssumption DEF Supported
<1>3. IsFiniteSet(Supported(f))
  BY ONLY <1>2, TreeAssumption, FS_Subset
<1>4. read.failed \in Nat
  BY ReadsTyped
<1>5. ASSUME read.failed = 0
      PROVE  read.xattrs = AllXattrs(source, f)
  <2>1. read # [xattrs |-> [x \in {} |-> "value"], failed |-> 1]
    BY ONLY <1>5
  <2>2. PICK unread \in SUBSET Supported(f) :
          read = [xattrs |-> [x \in Supported(f) |->
                                IF x \in unread THEN "empty" ELSE "value"],
                  failed |-> Cardinality(unread)]
    BY ONLY <2>1, read \in XattrReads(f) DEF XattrReads
  <2>3. Cardinality(unread) = 0
    BY ONLY <1>5, <2>2
  <2>4. unread = {}
    BY ONLY <1>3, <2>3, FS_Subset, FS_EmptySet, unread \in SUBSET Supported(f)
  <2> QED
    BY ONLY <1>1, <2>2, <2>4 DEF AllXattrs
<1> QED
  BY ONLY <1>4, <1>5

(* A new inode: that of a file that has none yet.                              *)
LEMMA ReadAttrsCopies ==
  IInv /\ argument = "dir" /\ Copying /\ ReadAttrs => Continues
<1> SUFFICES ASSUME IInv, argument = "dir", Copying, ReadAttrs
             PROVE  Continues
  OBVIOUS
<1> DEFINE n == Len(inodes)
           k == Len(stack)
           f == Current(source, inodes, stack)
<1>1. /\ MetaTyped /\ InodesTyped /\ StackTyped /\ Tree /\ InStep
      /\ source \in Sources /\ n \in Nat /\ k \in Nat /\ errors \in Nat
      /\ phase = "attrs" /\ meta # NoMeta
  BY IInvFacts DEF ReadAttrs, MetaTyped
<1>2. /\ FilesCopied(source, inodes) /\ CallsCopy(source, inodes, stack)
      /\ InVisit(source, phase, stack, meta, inodes, links)
      /\ DirsCopied(source, inodes, Closed)
      /\ LinksKnown(source, inodes, links, Closed)
      /\ Cardinality(Defective(source, inodes)) <= errors
  BY CompleteIs DEF Copying, Copies
<1>3. /\ meta = Stated(source, f)
      /\ k >= 1 => Visits(source, inodes, stack[k])
      /\ k >= 1 => Len(Top.todo) >= 1
  BY ONLY <1>1, <1>2 DEF InVisit, Visiting, Visits, Top
<1>4. meta.id = f /\ meta.kind = source.kind[f]
  BY ONLY <1>3 DEF Stated
<1>5. f \in Files /\ Lstat(CallPath) = Stated(source, f)
  BY ONLY <1>2, <1>3, CurrentIs, IInv, argument = "dir"
<1>6. Lstat(CallPath).id = f
  BY ONLY <1>5 DEF Stated
<1>7. PICK read \in XattrReads(f) :
        /\ errors' = errors + read.failed
        /\ inodes' = Append(inodes,
             [src |-> meta.id, kind |-> meta.kind, children |-> << >>,
              parent |-> 1, xattrs |-> read.xattrs])
  BY <1>6 DEF ReadAttrs
<1>8. /\ meta' = meta
      /\ IF meta.kind = "dir"
           THEN phase' = "readdir" /\ UNCHANGED <<stack, links>>
           ELSE Return(n + 1, stack)
  BY DEF ReadAttrs
<1> DEFINE r == [src |-> meta.id, kind |-> meta.kind, children |-> << >>,
                 parent |-> 1, xattrs |-> read.xattrs]
<1>9. NewInode(r, read.xattrs) /\ inodes' = Append(inodes, r)
  BY ONLY <1>7 DEF NewInode
<1>10. r.src = f /\ r.kind = source.kind[f] /\ r.xattrs = read.xattrs
  BY ONLY <1>4
<1> HIDE DEF r
<1>11. /\ InodesTyped' /\ Len(inodes') = n + 1
       /\ \A i \in 1 .. n : inodes'[i] = inodes[i]
       /\ inodes'[n + 1] = r /\ Len(r.children) = 0
  BY ONLY <1>1, <1>9, ListGrows
<1>12. \A i \in 1 .. n + 1 : i \in 1 .. n \/ i = n + 1
  BY ONLY <1>1
<1>13. \A i \in 1 .. n : i \in 1 .. n + 1 /\ i # n + 1
  BY ONLY <1>1
<1>14. n = 0 <=> k = 0
  <2>1. k = 0 => n = 0
    BY ONLY <1>1 DEF InStep
  <2>2. k # 0 => 1 \in 1 .. k
    BY ONLY <1>1
  <2>3. k # 0 => stack[1].idx \in 1 .. n
    BY ONLY <1>1, <2>2 DEF StackTyped, CallsTyped
  <2> QED
    BY ONLY <1>1, <2>1, <2>3
<1>15. n = 0 => f = Root
  BY ONLY <1>14 DEF Current
<1>16. \A i \in 1 .. n : inodes[i].src # f
  BY ONLY <1>1, NotYetCopied, IInv, Copying
<1> HIDE DEF f
<1>17. FilesCopied(source, inodes')
  <2>1. inodes'[n + 1].src = f /\ inodes'[n + 1].kind = source.kind[f]
    BY ONLY <1>10, <1>11
  <2>2. Len(inodes) = n /\ n \in Nat /\ Len(inodes') = n + 1
        /\ \A i \in 1 .. n : inodes'[i] = inodes[i]
    BY ONLY <1>1, <1>11
  <2>3. FilesCopied(source, inodes)
    BY ONLY <1>2
  <2> HIDE DEF n
  <2> QED
    BY ONLY <1>5, <1>15, <1>16, <2>1, <2>2, <2>3, FilesAppended
<1>18. Cardinality(Defective(source, inodes')) <= errors'
  <2>1. /\ read.failed \in Nat
        /\ read.failed = 0 => read.xattrs = AllXattrs(source, f)
    BY ONLY <1>1, ReadDefects
  <2>2. read.failed = 0 =>
          inodes'[n + 1].xattrs = AllXattrs(source, inodes'[n + 1].src)
    BY ONLY <1>10, <1>11, <2>1
  <2>3. Len(inodes) = n /\ n \in Nat /\ Len(inodes') = n + 1
        /\ \A i \in 1 .. n : inodes'[i] = inodes[i]
    BY ONLY <1>1, <1>11
  <2>4. Cardinality(Defective(source, inodes)) <= errors /\ errors \in Nat
    BY ONLY <1>1, <1>2
  <2> HIDE DEF n
  <2>5. Cardinality(Defective(source, inodes')) <= errors + read.failed
    BY ONLY <2>1, <2>2, <2>3, <2>4, DefectAdded
  <2> QED
    BY ONLY <1>7, <2>5
<1>19. \A i \in 1 .. Len(inodes) : inodes'[i].src = inodes[i].src
                                   /\ inodes'[i].kind = inodes[i].kind
  BY ONLY <1>11
<1>20. \A i \in Closed : i \in 1 .. Len(inodes) /\ inodes'[i].children = inodes[i].children
  BY ONLY <1>11 DEF Closed
<1>21. CASE meta.kind = "dir"
  <2> DEFINE more == Complete("readdir", stack, inodes')
  <2>1. phase' = "readdir" /\ stack' = stack /\ links' = links
    BY ONLY <1>8, <1>21
  <2>2. /\ CallsCopy(source, inodes', stack)
        /\ k >= 1 => Visits(source, inodes', stack[k])
        /\ Current(source, inodes', stack) = f
    BY ONLY <1>1, <1>2, <1>3, <1>19, CallsCopyStays DEF StackTyped, f
  <2>3. InVisit(source, "readdir", stack, meta, inodes', links)
    <3>1. inodes'[Len(inodes')].src = f /\ source.kind[f] = "dir"
      BY ONLY <1>4, <1>10, <1>11, <1>21
    <3> QED
      BY ONLY <2>2, <3>1 DEF InVisit
  <2>4. \A i \in more : i \in Closed /\ i # n + 1
    BY ONLY <1>1, <1>11, <1>12 DEF Complete, Closed, IsOpen
  <2> HIDE DEF more
  <2>5. DirsCopied(source, inodes', more)
    <3>1. \A i \in Closed : /\ i \in 1 .. Len(inodes)
                            /\ LeadsWithin(inodes[i].children, Len(inodes))
                            /\ i # n + 1 => inodes'[i].children = inodes[i].children
      BY ONLY <1>1, <1>20 DEF InodesTyped
    <3>2. \A i \in more : i \in Closed \/ i = n + 1
      BY ONLY <2>4
    <3>3. n + 1 \in more => DirCopied(source, inodes', n + 1)
      BY ONLY <2>4
    <3>4. DirsCopied(source, inodes, Closed)
      BY ONLY <1>2
    <3> HIDE DEF n
    <3> QED
      BY ONLY <1>19, <3>1, <3>2, <3>3, <3>4, DirsReturned
  <2>6. LinksKnown(source, inodes', links, more)
    <3>1. \A g \in DOMAIN links : links[g] \in 1 .. Len(inodes)
      BY ONLY <1>1, <1>20 DEF Tree, LinksLead
    <3>2. \A i \in 1 .. Len(inodes) : inodes'[i].src = inodes[i].src
      BY ONLY <1>19
    <3>3. LinksKnown(source, inodes, links, Closed)
      BY ONLY <1>2
    <3>4. LinksKnown(source, inodes', links, Closed)
      BY ONLY <1>20, <3>1, <3>2, <3>3, LinksStay
    <3> QED
      BY ONLY <2>4, <3>4 DEF LinksKnown
  <2>7. Copies(source, "readdir", stack, meta, inodes', links, errors')
    BY ONLY <1>17, <1>18, <2>2, <2>3, <2>5, <2>6 DEF Copies, more
  <2> QED
    BY ONLY <1>8, <2>1, <2>7 DEF Continues
<1>22. CASE meta.kind # "dir"
  <2>1. Return(n + 1, stack)
    BY ONLY <1>8, <1>22
  <2>2. DirCopied(source, inodes', n + 1)
    <3>1. inodes'[n + 1].kind # "dir" /\ Len(inodes'[n + 1].children) = 0
      BY ONLY <1>4, <1>10, <1>11, <1>22
    <3> QED
      BY ONLY <3>1 DEF DirCopied, EntriesOf
  <2>3. \A i \in 1 .. Len(inodes') :
          i = n + 1 \/ i \in Closed \/ \E j \in 1 .. Len(stack) : stack[j].idx = i
    BY ONLY <1>1, <1>11, <1>12 DEF Closed, IsOpen
  <2>4. Len(stack) = 0 => n + 1 = 1
    BY ONLY <1>14
  <2>5. inodes'[n + 1].src = Current(source, inodes, stack)
    BY ONLY <1>10, <1>11 DEF f
  <2>6. Len(inodes') \in Nat /\ Len(inodes) <= Len(inodes')
    BY ONLY <1>1, <1>11
  <2>7. \A i \in Closed : i # n + 1 => inodes'[i].children = inodes[i].children
    BY ONLY <1>20
  <2>8. /\ CallsTyped(stack, Len(inodes)) /\ CallsCopy(source, inodes, stack)
        /\ Len(stack) >= 1 => Visits(source, inodes, stack[Len(stack)])
        /\ phase \in {"attrs", "loop"}
    BY ONLY <1>1, <1>2, <1>3 DEF StackTyped
  <2> DEFINE x == n + 1
  <2> HIDE DEF x, n, k
  <2> QED
    BY ONLY <1>17, <1>18, <1>19, <2>1, <2>2, <2>3, <2>4, <2>5, <2>6, <2>7, <2>8,
            IInv, Copying, CallReturns
<1> QED
  BY ONLY <1>21, <1>22

(* A directory is complete when its call has no name left.                     *)
LEMMA FinishDirCopies == IInv /\ Copying /\ FinishDir => Continues
<1> SUFFICES ASSUME IInv, Copying, FinishDir
             PROVE  Continues
  OBVIOUS
<1> DEFINE n == Len(inodes)
           k == Len(stack)
           x == stack[k].idx
           s == stack[k].children
           callers == Front(stack)
<1>1. /\ InodesTyped /\ StackTyped /\ Tree /\ Nested /\ InStep
      /\ source \in Sources /\ n \in Nat /\ k \in Nat
      /\ phase = "loop" /\ Top.todo = << >>
  BY IInvFacts DEF FinishDir
<1>2. /\ FilesCopied(source, inodes) /\ CallsCopy(source, inodes, stack)
      /\ Cardinality(Defective(source, inodes)) <= errors
  BY DEF Copying, Copies
<1>3. /\ inodes' = [inodes EXCEPT ![x].children = s]
      /\ Return(x, callers) /\ errors' = errors
  BY Zenon DEF FinishDir, Top
<1>4. k >= 1 /\ k \in 1 .. k
  BY ONLY <1>1 DEF InStep
<1>5. x \in 1 .. n /\ IsSeq(s) /\ LeadsWithin(s, n)
  BY ONLY <1>1, <1>4 DEF StackTyped, CallsTyped, IsFrame
<1>6. CallsTyped(callers, n) /\ Len(callers) = k - 1
  <2>1. n \in Nat /\ CallsTyped(stack, n) /\ Len(stack) >= 1
    BY ONLY <1>1, <1>4 DEF StackTyped
  <2> HIDE DEF n
  <2> QED
    BY ONLY <2>1, EndsCall
<1>7. \A j \in 1 .. k - 1 : callers[j] = stack[j]
  BY ONLY <1>1, <1>4, FrontIs DEF StackTyped, CallsTyped
<1>8. \A j \in 1 .. k - 1 : j \in 1 .. k /\ j + 1 \in 1 .. k
  BY ONLY <1>1
<1>9. CallsCopy(source, inodes, callers)
  BY ONLY <1>2, <1>6, <1>7, <1>8 DEF CallsCopy
<1>10. /\ Len(callers) >= 1 => Visits(source, inodes, callers[Len(callers)])
       /\ Len(callers) = 0 => x = 1
       /\ inodes[x].src = Current(source, inodes, callers)
  <2>1. CASE k = 1
    <3>1. Len(callers) = 0 /\ x = 1
      BY ONLY <1>1, <1>4, <1>6, <2>1 DEF Nested, IsNested
    <3>2. n >= 1
      BY ONLY <1>1, <1>5
    <3> QED
      BY ONLY <1>2, <3>1, <3>2 DEF FilesCopied, Current
  <2>2. CASE k # 1
    <3>1. k - 1 \in 1 .. k - 1 /\ k - 1 >= 1 /\ (k - 1) + 1 = k
      <4>1. k \in Nat /\ k >= 1 /\ k # 1
        BY ONLY <1>1, <1>4, <2>2
      <4> HIDE DEF k
      <4> QED
        BY ONLY <4>1
    <3>2. /\ Visits(source, inodes, stack[k - 1])
          /\ inodes[x].src = Child(source, inodes, stack[k - 1])
      BY ONLY <1>2, <1>8, <3>1 DEF CallsCopy
    <3>3. callers[k - 1] = stack[k - 1]
      BY ONLY <1>7, <3>1
    <3> QED
      BY ONLY <1>6, <3>1, <3>2, <3>3 DEF Current
  <2> QED
    BY ONLY <2>1, <2>2
<1>11. CallCopies(source, inodes, stack[k]) /\ IsFrame(stack[k])
  BY ONLY <1>1, <1>2, <1>4 DEF CallsCopy, StackTyped, CallsTyped
<1>12. /\ Len(s) = Cardinality(NamesOf(source, inodes[x].src))
       /\ EntriesOf(source, inodes, inodes[x].src, s)
       /\ source.kind[inodes[x].src] = "dir"
  <2>1. Len(stack[k].todo) = 0
    BY ONLY <1>1, NoElements DEF Top
  <2>2. Len(s) \in Nat
    BY ONLY <1>5, SeqFacts
  <2> HIDE DEF s
  <2>3. Len(s) + 0 = Len(s)
    BY ONLY <2>2
  <2> QED
    BY ONLY <1>11, <2>1, <2>3 DEF CallCopies, s
<1> HIDE DEF x, s, callers
<1>13. /\ InodesTyped' /\ Len(inodes') = n
       /\ \A i \in 1 .. n : /\ i # x => inodes'[i] = inodes[i]
                            /\ inodes'[i].src = inodes[i].src
                            /\ inodes'[i].kind = inodes[i].kind
                            /\ inodes'[i].xattrs = inodes[i].xattrs
       /\ inodes'[x].children = s
  BY ONLY <1>1, <1>3, <1>5, ChildrenStored
<1>14. /\ FilesCopied(source, inodes')
       /\ Cardinality(Defective(source, inodes')) <= errors'
  <2>1. FilesCopied(source, inodes')
    BY ONLY <1>1, <1>2, <1>13, FilesStay
  <2>2. Defective(source, inodes') = Defective(source, inodes)
    BY ONLY <1>13, DefectsStay
  <2> QED
    BY ONLY <1>2, <1>3, <2>1, <2>2
<1>15. DirCopied(source, inodes', x)
  <2>1. \A i \in 1 .. Len(inodes) : inodes'[i].src = inodes[i].src
    BY ONLY <1>13
  <2>2. EntriesOf(source, inodes', inodes[x].src, s)
    BY ONLY <1>5, <1>12, <2>1, EntriesStay
  <2>3. inodes'[x].src = inodes[x].src /\ inodes'[x].kind = "dir"
    BY ONLY <1>2, <1>5, <1>12, <1>13 DEF FilesCopied
  <2> QED
    BY ONLY <1>12, <1>13, <2>2, <2>3 DEF DirCopied
<1>16. \A i \in 1 .. Len(inodes') :
         i = x \/ i \in Closed \/ \E j \in 1 .. Len(callers) : callers[j].idx = i
  <2>1. \A j \in 1 .. k : j \in 1 .. k - 1 \/ j = k
    BY ONLY <1>1
  <2> QED
    BY ONLY <1>1, <1>6, <1>7, <1>13, <2>1 DEF Closed, IsOpen, x
<1>17. \A i \in Closed : i # x => inodes'[i].children = inodes[i].children
  BY ONLY <1>13 DEF Closed
<1>18. \A i \in 1 .. Len(inodes) : inodes'[i].src = inodes[i].src
                                   /\ inodes'[i].kind = inodes[i].kind
  BY ONLY <1>13
<1>19. inodes'[x].src = Current(source, inodes, callers)
  BY ONLY <1>5, <1>10, <1>13
<1>20. /\ Len(inodes') \in Nat /\ Len(inodes) <= Len(inodes')
       /\ phase \in {"attrs", "loop"} /\ CallsTyped(callers, Len(inodes))
  BY ONLY <1>1, <1>6, <1>13
<1>21. Return(x, callers)
  BY ONLY <1>3
<1> QED
  BY ONLY <1>9, <1>10, <1>14, <1>15, <1>16, <1>17, <1>18, <1>19, <1>20, <1>21,
          IInv, Copying, CallReturns

-----------------------------------------------------------------------------
(* The copy as an invariant.                                               *)

LEMMA InitCopies == Init => CopyInv
<1> SUFFICES ASSUME Init
             PROVE  Copies(source, phase, stack, meta, inodes, links, errors)
  BY DEF CopyInv
<1>1. /\ Len(inodes) = 0 /\ Len(stack) = 0 /\ phase = "check" /\ errors = 0
      /\ DOMAIN links = {}
  BY NoElements DEF Init
<1>2. Complete(phase, stack, inodes) = {} /\ Defective(source, inodes) = {}
  BY ONLY <1>1 DEF Complete, Defective
<1>3. Cardinality(Defective(source, inodes)) <= errors
  BY ONLY <1>1, <1>2, FS_EmptySet
<1>4. FilesCopied(source, inodes) /\ CallsCopy(source, inodes, stack)
  BY ONLY <1>1 DEF FilesCopied, CallsCopy
<1>5. InVisit(source, phase, stack, meta, inodes, links)
  BY ONLY <1>1 DEF InVisit, Visiting
<1>6. /\ DirsCopied(source, inodes, Complete(phase, stack, inodes))
      /\ LinksKnown(source, inodes, links, Complete(phase, stack, inodes))
  BY ONLY <1>1, <1>2 DEF DirsCopied, LinksKnown
<1> QED
  BY ONLY <1>3, <1>4, <1>5, <1>6 DEF Copies

(* What a step of the builder leaves alone.                                   *)
LEMMA BuildLeaves ==
  ASSUME Build
  PROVE  UNCHANGED <<source, argument, changes>> /\ phase # "failed"
<1>1. CASE CheckSource
  BY <1>1 DEF CheckSource, Fail, world
<1>2. CASE Stat
  BY <1>2 DEF Stat, Fail, world
<1>3. CASE ReadContent
  BY <1>3 DEF ReadContent, Fail, world
<1>4. CASE ReadAttrs
  BY <1>4 DEF ReadAttrs, world
<1>5. CASE ReadDir
  BY <1>5 DEF ReadDir, Fail, world
<1>6. CASE NextChild
  BY <1>6 DEF NextChild, Descend, Fail, world
<1>7. CASE FinishDir
  BY <1>7 DEF FinishDir, world
<1>8. CASE SetParentNids
  BY <1>8 DEF SetParentNids, world
<1>9. CASE CallFails
  BY <1>9 DEF CallFails, Fail, world
<1> QED
  BY <1>1, <1>2, <1>3, <1>4, <1>5, <1>6, <1>7, <1>8, <1>9 DEF Build

LEMMA BuildCopies == IInv /\ argument = "dir" /\ Copying /\ Build => Continues
<1>1. CallFails => Continues
  BY DEF CallFails, Fail, Continues
<1> QED
  BY <1>1, CheckSourceCopies, StatCopies, ReadContentCopies, ReadAttrsCopies,
     ReadDirCopies, NextChildCopies, FinishDirCopies, SetParentNidsCopies DEF Build

LEMMA NextCopies == IInv /\ CopyInv /\ [Next]_vars => CopyInv'
<1> SUFFICES ASSUME IInv, CopyInv, [Next]_vars, argument' = "dir", changes' = 0,
                    phase' # "failed"
             PROVE  Copies(source', phase', stack', meta', inodes', links', errors')
  BY DEF CopyInv
<1>1. CASE Build
  <2>1. UNCHANGED <<source, argument, changes>> /\ phase # "failed"
    BY <1>1, BuildLeaves
  <2>2. Copying
    BY <2>1 DEF CopyInv, Copying
  <2>3. Copies(source, phase', stack', meta', inodes', links', errors')
    BY <1>1, <2>1, <2>2, BuildCopies DEF Continues
  <2> QED
    BY ONLY <2>1, <2>3
<1>2. CASE ChangeSource
  <2>1. changes' = changes + 1 /\ changes \in Nat
    BY <1>2, IInvFacts DEF ChangeSource
  <2> QED
    BY <2>1
<1>3. CASE UNCHANGED vars
  <2>1. Copies(source, phase, stack, meta, inodes, links, errors)
    BY <1>3 DEF CopyInv, vars
  <2>2. UNCHANGED <<source, phase, stack, meta, inodes, links, errors>>
    BY <1>3 DEF vars
  <2> QED
    BY ONLY <2>1, <2>2
<1> QED
  BY <1>1, <1>2, <1>3 DEF Next

(* An argument that is a link gives one inode.                                *)
LEMMA NextAlone == IInv /\ LinkAlone /\ [Next]_vars => LinkAlone'
<1> SUFFICES ASSUME IInv, LinkAlone, [Next]_vars, argument' = "link",
                    phase' # "failed"
             PROVE  /\ Len(stack') = 0 /\ Len(inodes') <= 1
                    /\ phase' \notin {"readdir", "loop"}
                    /\ phase' \in {"content", "attrs"} => meta' = LinkStated
                    /\ Len(inodes') = 1 => inodes'[1].src = LinkFile
  BY DEF LinkAlone
<1>1. CASE ChangeSource \/ UNCHANGED vars
  <2>1. UNCHANGED <<argument, phase, stack, meta, inodes>>
    BY <1>1 DEF ChangeSource, vars
  <2> QED
    BY <2>1 DEF LinkAlone
<1>2. CASE Build
  <2>1. argument = "link" /\ phase # "failed"
    BY <1>2, BuildLeaves
  <2>2. /\ Len(stack) = 0 /\ Len(inodes) <= 1 /\ phase \notin {"readdir", "loop"}
        /\ phase \in {"content", "attrs"} => meta = LinkStated
        /\ Len(inodes) = 1 => inodes[1].src = LinkFile
    BY <2>1 DEF LinkAlone
  <2>3. /\ InodesTyped /\ StackTyped /\ MetaTyped /\ InStep /\ Len(inodes) \in Nat
    BY <2>1, IInvFacts
  <2>4. stack = << >>
    BY ONLY <2>2, <2>3, EmptySeq DEF StackTyped, CallsTyped, IsSeq
  <2>5. Lstat(CallPath) = LinkStated
    BY <2>1, <2>4 DEF CallPath, Lstat, LinkStated
  <2>6. LinkStated.kind = "lnk" /\ LinkStated.id = LinkFile
    BY DEF LinkStated
  <2>7. CASE CheckSource
    BY <2>2, <2>7 DEF CheckSource, Fail
  <2>8. CASE Stat
    <3>1. /\ phase' \in {"content", "attrs"} /\ meta' = LinkStated
          /\ UNCHANGED <<stack, inodes>>
      BY <2>5, <2>8 DEF Stat, Fail
    <3> QED
      BY ONLY <2>2, <3>1
  <2>9. CASE ReadContent
    <3>1. phase = "content" /\ phase' = "attrs" /\ UNCHANGED <<stack, meta, inodes>>
      BY <2>9 DEF ReadContent, Fail
    <3> QED
      BY ONLY <2>2, <3>1
  <2>10. CASE ReadAttrs
    <3>1. /\ phase = "attrs" /\ meta = LinkStated /\ Len(inodes) = 0
      BY <2>2, <2>3, <2>10 DEF ReadAttrs, InStep
    <3>2. phase' = "wire" /\ stack' = << >>
      BY <2>4, <2>6, <2>10, <3>1 DEF ReadAttrs, Return
    <3>3. PICK xattrs : inodes' = Append(inodes,
            [src |-> meta.id, kind |-> meta.kind, children |-> << >>,
             parent |-> 1, xattrs |-> xattrs])
      BY <2>10 DEF ReadAttrs
    <3> DEFINE r == [src |-> meta.id, kind |-> meta.kind, children |-> << >>,
                     parent |-> 1, xattrs |-> xattrs]
    <3>4. r.src = LinkFile
      BY ONLY <2>6, <3>1
    <3> HIDE DEF r
    <3>5. IsSeq(inodes)
      BY ONLY <2>3 DEF InodesTyped
    <3>6. Len(inodes') = 0 + 1 /\ inodes'[0 + 1] = r
      BY ONLY <3>1, <3>3, <3>5, AppendIs DEF r
    <3> QED
      BY ONLY <3>2, <3>4, <3>6, NoElements
  <2>11. CASE SetParentNids
    <3>1. phase' = "done" /\ UNCHANGED stack
      BY <2>11 DEF SetParentNids
    <3>2. /\ Len(inodes') = Len(inodes)
          /\ \A i \in 1 .. Len(inodes) : inodes'[i].src = inodes[i].src
      BY <2>3, <2>11, WiringStores
    <3>3. Len(inodes) = 1 => 1 \in 1 .. Len(inodes)
      OBVIOUS
    <3> QED
      BY ONLY <2>2, <3>1, <3>2, <3>3
  <2>12. ~ ReadDir /\ ~ NextChild /\ ~ FinishDir /\ ~ CallFails
    BY <2>2 DEF ReadDir, NextChild, FinishDir, CallFails, Fail
  <2> QED
    BY <1>2, <2>7, <2>8, <2>9, <2>10, <2>11, <2>12 DEF Build
<1> QED
  BY <1>1, <1>2 DEF Next

LEMMA InitAlone == Init => LinkAlone
BY NoElements DEF Init, LinkAlone

CopyInvs == IInv /\ CopyInv /\ LinkAlone

LEMMA Copied == Spec => []CopyInvs
<1> DEFINE C == CopyInv /\ LinkAlone
<1>1. Init => C
  BY InitCopies, InitAlone
<1>2. IInv /\ C /\ [Next]_vars => C'
  BY NextCopies, NextAlone
<1>3. IInv /\ C => CopyInvs
  BY DEF CopyInvs
<1> HIDE DEF C
<1> QED
  BY <1>1, <1>2, <1>3, Invariant, PTL DEF Spec

LEMMA DoneCopied ==
  ASSUME IInv, CopyInv, phase = "done", changes = 0, argument = "dir"
  PROVE  /\ inodes[1].src = Root
         /\ \A i, k \in InodeList : inodes[i].src = inodes[k].src => i = k
         /\ \A i \in InodeList :
              LET f == inodes[i].src
              IN /\ inodes[i].kind = source.kind[f]
                 /\ inodes[i].kind = "dir" =>
                      inodes[i].children = [c \in DOMAIN SortedNames(f) |->
                        LET name == SortedNames(f)[c]
                            held == source.ents[f][name]
                        IN [name |-> Lossy[name], type |-> source.kind[held],
                            idx  |-> CHOOSE k \in InodeList : inodes[k].src = held]]
         /\ Cardinality({i \in InodeList :
              inodes[i].xattrs # [x \in Supported(inodes[i].src) |-> "value"]})
              <= errors
<1> DEFINE n == Len(inodes)
<1>1. /\ InodesTyped /\ Tree /\ source \in Sources /\ n \in Nat
      /\ Len(stack) = 0 /\ n >= 1
  BY IInvFacts DEF InStep
<1>2. InodeList = 1 .. n
  BY <1>1, SeqFacts DEF InodesTyped, InodeList
<1>3. Copying
  BY DEF CopyInv, Copying
<1>4. /\ FilesCopied(source, inodes) /\ DirsCopied(source, inodes, Closed)
      /\ Cardinality(Defective(source, inodes)) <= errors
  BY <1>3, CompleteIs DEF Copying, Copies
<1>5. Closed = 1 .. n
  BY ONLY <1>1, phase = "done" DEF Closed, IsOpen
<1>6. ASSUME NEW i \in 1 .. n, inodes[i].kind = "dir"
      PROVE  inodes[i].children =
               [c \in DOMAIN SortedNames(inodes[i].src) |->
                  LET name == SortedNames(inodes[i].src)[c]
                      held == source.ents[inodes[i].src][name]
                  IN [name |-> Lossy[name], type |-> source.kind[held],
                      idx  |-> CHOOSE k \in InodeList : inodes[k].src = held]]
  <2> DEFINE F == inodes[i].src
             s == inodes[i].children
             N == Cardinality(NamesOf(source, F))
  <2>1. F \in Files
    BY ONLY <1>4, i \in 1 .. n DEF FilesCopied
  <2>2. SortedNames(F) = Listed(source, F)
    <3>1. NamesIn(F) = NamesOf(source, F)
      BY DEF NamesIn, NamesOf
    <3> QED
      BY ONLY <3>1 DEF SortedNames, Listed
  <2>3. DOMAIN Listed(source, F) = 1 .. N
    BY ONLY <1>1, <2>1, ListedFacts, SeqFacts
  <2>4. Len(s) = N /\ EntriesOf(source, inodes, F, s)
    BY ONLY <1>4, <1>5, <1>6, i \in 1 .. n DEF DirsCopied, DirCopied
  <2>5. IsSeq(s) /\ LeadsWithin(s, n)
    BY ONLY <1>1, i \in 1 .. n DEF InodesTyped, IsInode
  <2> HIDE DEF F, s, N
  <2>6. s = [c \in 1 .. N |-> s[c]]
    <3>1. s \in [1 .. Len(s) -> {s[c] : c \in 1 .. Len(s)}]
      BY ONLY <2>5, LenProperties DEF IsSeq
    <3> QED
      BY ONLY <2>4, <3>1
  <2>7. ASSUME NEW c \in 1 .. N
        PROVE  s[c] = [name |-> Lossy[Listed(source, F)[c]],
                       type |-> source.kind[source.ents[F][Listed(source, F)[c]]],
                       idx  |-> CHOOSE k \in InodeList : inodes[k].src =
                                  source.ents[F][Listed(source, F)[c]]]
    <3> DEFINE held == source.ents[F][Listed(source, F)[c]]
               x == s[c].idx
    <3>1. EntryOf(source, inodes, F, c, s[c]) /\ x \in 1 .. n
      BY ONLY <2>4, <2>5, c \in 1 .. N DEF EntriesOf, LeadsWithin
    <3>2. /\ s[c] = [name |-> Lossy[Listed(source, F)[c]],
                     type |-> source.kind[held], idx |-> x]
          /\ inodes[x].src = held
      BY ONLY <3>1 DEF EntryOf, Nth
    <3>3. \A k \in 1 .. n : inodes[k].src = inodes[x].src => k = x
      BY ONLY <1>4, <3>1 DEF FilesCopied
    <3> HIDE DEF held, x
    <3>4. (CHOOSE k \in InodeList : inodes[k].src = held) = x
      BY ONLY <1>2, <3>1, <3>2, <3>3
    <3> QED
      BY ONLY <3>2, <3>4 DEF held
  <2>8. s = [c \in 1 .. N |->
               [name |-> Lossy[Listed(source, F)[c]],
                type |-> source.kind[source.ents[F][Listed(source, F)[c]]],
                idx  |-> CHOOSE k \in InodeList : inodes[k].src =
                           source.ents[F][Listed(source, F)[c]]]]
    BY ONLY <2>6, <2>7
  <2>9. s = [c \in DOMAIN SortedNames(F) |->
               [name |-> Lossy[SortedNames(F)[c]],
                type |-> source.kind[source.ents[F][SortedNames(F)[c]]],
                idx  |-> CHOOSE k \in InodeList : inodes[k].src =
                           source.ents[F][SortedNames(F)[c]]]]
    BY ONLY Zenon, <2>2, <2>3, <2>8
  <2> QED
    BY ONLY Zenon, <2>9 DEF F, s
<1>7. Cardinality({i \in InodeList :
        inodes[i].xattrs # [x \in Supported(inodes[i].src) |-> "value"]}) <= errors
  <2>1. \A f : [x \in Supported(f) |-> "value"] = AllXattrs(source, f)
    BY DEF Supported, Indexed, AllXattrs
  <2>2. {i \in InodeList :
           inodes[i].xattrs # [x \in Supported(inodes[i].src) |-> "value"]}
          = Defective(source, inodes)
    BY ONLY <1>2, <2>1 DEF Defective
  <2> QED
    BY ONLY <1>4, <2>2
<1>8. /\ inodes[1].src = Root
      /\ \A i, k \in 1 .. n : inodes[i].src = inodes[k].src => i = k
      /\ \A i \in 1 .. n : inodes[i].kind = source.kind[inodes[i].src]
  BY ONLY <1>1, <1>4 DEF FilesCopied
<1> HIDE DEF n
<1> QED
  BY ONLY <1>2, <1>6, <1>7, <1>8

(* build_tree on a source that nobody changes while it is read: the list of a *)
(* finished build is the source.  Every directory has the entries of its file *)
(* in the order of their names, each with the type of its file and the one    *)
(* inode that was made of it, links to the same file included; and every xattr *)
(* is there, apart from one inode for each call that failed.                  *)
THEOREM TreeIsCopied == Spec => []TreeCopied
<1>1. ASSUME CopyInvs
      PROVE  TreeCopied
  <2> SUFFICES ASSUME phase = "done", changes = 0
               PROVE  TreeCopied
    BY DEF TreeCopied
  <2>1. IInv /\ CopyInv /\ LinkAlone
    BY <1>1 DEF CopyInvs
  <2>2. argument = "link" => Len(inodes) = 1 /\ inodes[1].src = LinkFile
    <3>1. Len(inodes) \in Nat /\ Len(inodes) >= 1
      BY <2>1, IInvFacts DEF InStep
    <3>2. argument = "link" =>
            Len(inodes) <= 1 /\ (Len(inodes) = 1 => inodes[1].src = LinkFile)
      BY <2>1 DEF LinkAlone
    <3>3. \A n \in Nat : n >= 1 /\ n <= 1 => n = 1
      BY ONLY TRUE
    <3> QED
      BY ONLY <3>1, <3>2, <3>3
  <2> QED
    BY <2>1, <2>2, DoneCopied DEF TreeCopied
<1> QED
  BY <1>1, Copied, PTL

-----------------------------------------------------------------------------
(* The builder as a walk of the source.                                      *)

Made == {inodes[i].src : i \in InodeList}
Held == [f \in Files |-> {source.ents[f][n] : n \in Names} \ {NoFile}]

LEMMA MadeIs == InodesTyped => Made = {inodes[i].src : i \in 1 .. Len(inodes)}
BY SeqFacts DEF InodesTyped, Made, InodeList

LEMMA HeldIs ==
  ASSUME source \in Sources
  PROVE  /\ Held \in [Files -> SUBSET Files]
         /\ \A d \in Files : \A n \in Names :
              source.ents[d][n] \in Files => source.ents[d][n] \in Held[d]
<1>1. IsFileSystem(source) /\ NoFile \notin Files
  BY SourceFacts
<1>2. \A d \in Files : \A n \in Names : source.ents[d][n] \in Files \cup {NoFile}
  BY ONLY <1>1 DEF IsFileSystem
<1>3. \A d \in Files : {source.ents[d][n] : n \in Names} \ {NoFile} \in SUBSET Files
  BY ONLY <1>2
<1> QED
  BY ONLY <1>1, <1>3 DEF Held

LEMMA SameSources ==
  ASSUME InodesTyped, InodesTyped', Len(inodes') = Len(inodes),
         \A i \in 1 .. Len(inodes) : inodes'[i].src = inodes[i].src
  PROVE  Made' = Made
<1>1. Made = {inodes[i].src : i \in 1 .. Len(inodes)}
  BY MadeIs
<1>2. Made' = {inodes'[i].src : i \in 1 .. Len(inodes')}
  BY ONLY InodesTyped', SeqFacts DEF InodesTyped, Made, InodeList
<1> QED
  BY ONLY <1>1, <1>2, Len(inodes') = Len(inodes),
          \A i \in 1 .. Len(inodes) : inodes'[i].src = inodes[i].src

LEMMA FinishMakes ==
  ASSUME IInv, IInv', FinishDir
  PROVE  Made' = Made
<1> DEFINE n == Len(inodes)
           k == Len(stack)
           x == stack[k].idx
           s == stack[k].children
<1>1. /\ InodesTyped /\ StackTyped /\ InStep /\ k \in Nat /\ phase = "loop"
  BY IInvFacts DEF FinishDir
<1>2. inodes' = [inodes EXCEPT ![x].children = s]
  BY Zenon DEF FinishDir, Top
<1>3. k \in 1 .. k
  BY ONLY <1>1 DEF InStep
<1>4. x \in 1 .. n /\ IsSeq(s) /\ LeadsWithin(s, n)
  BY ONLY <1>1, <1>3 DEF StackTyped, CallsTyped, IsFrame
<1> HIDE DEF x, s
<1>5. /\ InodesTyped' /\ Len(inodes') = n
      /\ \A i \in 1 .. n : inodes'[i].src = inodes[i].src
  BY ONLY <1>1, <1>2, <1>4, ChildrenStored
<1> QED
  BY ONLY <1>1, <1>5, SameSources

LEMMA WiringMakes ==
  ASSUME IInv, IInv', SetParentNids
  PROVE  Made' = Made
<1>1. InodesTyped /\ InodesTyped'
  BY DEF IInv, Typed
<1>2. /\ Len(inodes') = Len(inodes)
      /\ \A i \in 1 .. Len(inodes) : inodes'[i].src = inodes[i].src
  BY <1>1, WiringStores
<1> QED
  BY ONLY <1>1, <1>2, SameSources

(* A new inode is that of the root, or of a file that an inode before holds.   *)
LEMMA ReadAttrsMakes ==
  ASSUME IInv, IInv', argument = "dir", Copying, ReadAttrs
  PROVE  \/ Made = {} /\ Made' = {Root}
         \/ \E d \in Made : \E f \in Held[d] \ Made : Made' = Made \cup {f}
<1> DEFINE n == Len(inodes)
           k == Len(stack)
           f == Current(source, inodes, stack)
<1>1. /\ InodesTyped /\ StackTyped /\ InStep /\ InodesTyped'
      /\ source \in Sources /\ n \in Nat /\ k \in Nat /\ phase = "attrs"
  BY IInvFacts DEF ReadAttrs, IInv, Typed
<1>2. /\ CallsCopy(source, inodes, stack)
      /\ InVisit(source, phase, stack, meta, inodes, links)
  BY DEF Copying, Copies
<1>3. meta = Stated(source, f) /\ (k >= 1 => Len(Top.todo) >= 1)
  BY ONLY <1>1, <1>2 DEF InVisit, Visiting, Visits, Top
<1>4. meta.id = f
  BY ONLY <1>3 DEF Stated
<1>5. PICK xattrs : inodes' = Append(inodes,
        [src |-> meta.id, kind |-> meta.kind, children |-> << >>,
         parent |-> 1, xattrs |-> xattrs])
  BY DEF ReadAttrs
<1> DEFINE r == [src |-> meta.id, kind |-> meta.kind, children |-> << >>,
                 parent |-> 1, xattrs |-> xattrs]
<1>6. r.src = f /\ inodes' = Append(inodes, r)
  BY ONLY <1>4, <1>5
<1> HIDE DEF r
<1>7. IsSeq(inodes)
  BY ONLY <1>1 DEF InodesTyped
<1>8. /\ Len(inodes') = n + 1 /\ inodes'[n + 1] = r
      /\ \A i \in 1 .. n : inodes'[i] = inodes[i]
  BY ONLY <1>6, <1>7, AppendIs
<1>9. Made = {inodes[i].src : i \in 1 .. n}
  BY ONLY <1>1, MadeIs
<1>10. Made' = Made \cup {f}
  <2>1. \A i \in 1 .. n + 1 : i \in 1 .. n \/ i = n + 1
    BY ONLY <1>1
  <2>2. n + 1 \in 1 .. n + 1 /\ \A i \in 1 .. n : i \in 1 .. n + 1
    BY ONLY <1>1
  <2>3. Made' = {inodes'[i].src : i \in 1 .. Len(inodes')}
    BY ONLY <1>1, SeqFacts DEF InodesTyped, Made, InodeList
  <2>4. Made' = {inodes'[i].src : i \in 1 .. n + 1}
    BY ONLY <1>8, <2>3
  <2> HIDE DEF f, n
  <2> QED
    BY ONLY <1>6, <1>8, <1>9, <2>1, <2>2, <2>4
<1>11. f \notin Made
  <2>1. \A i \in 1 .. n : inodes[i].src # f
    BY ONLY <1>1, NotYetCopied, IInv, Copying
  <2> QED
    BY ONLY <1>9, <2>1
<1>12. CASE k = 0
  <2>1. n = 0 /\ f = Root
    BY ONLY <1>1, <1>12 DEF InStep, Current
  <2>2. Made = {}
    BY ONLY <1>9, <2>1
  <2> QED
    BY ONLY <1>10, <2>1, <2>2
<1>13. CASE k # 0
  <2> DEFINE F == inodes[Top.idx].src
             name == Head(Top.todo)
  <2>1. k >= 1 /\ k \in 1 .. k
    BY ONLY <1>1, <1>13
  <2>2. f = Child(source, inodes, Top)
    BY ONLY <2>1 DEF Current, Top
  <2>3. F \in Files /\ name \in Names /\ f \in Files /\ source.ents[F][name] = f
    BY ONLY <1>2, <1>3, <2>1, <2>2, TopLooks, IInv
  <2>4. f \in Held[F]
    BY ONLY <1>1, <2>3, HeldIs
  <2>5. Top.idx \in 1 .. n
    BY ONLY <1>1, <2>1 DEF StackTyped, CallsTyped, Top
  <2>6. F \in Made
    BY ONLY <1>9, <2>5
  <2> HIDE DEF F, f
  <2> QED
    BY ONLY <1>10, <1>11, <2>4, <2>6
<1> QED
  BY ONLY <1>12, <1>13

LEMMA BuildMakes ==
  ASSUME IInv, IInv', argument = "dir", Copying, Build
  PROVE  \/ Made' = Made
         \/ Made = {} /\ Made' = {Root}
         \/ \E d \in Made : \E f \in Held[d] \ Made : Made' = Made \cup {f}
<1>1. CASE ReadAttrs
  BY <1>1, ReadAttrsMakes
<1>2. CASE FinishDir
  BY <1>2, FinishMakes
<1>3. CASE SetParentNids
  BY <1>3, WiringMakes
<1>4. CASE CheckSource \/ Stat \/ ReadContent \/ ReadDir \/ NextChild \/ CallFails
  <2>1. inodes' = inodes
    BY <1>4 DEF CheckSource, Stat, ReadContent, ReadDir, NextChild, Descend,
                CallFails, Fail
  <2> QED
    BY ONLY <2>1 DEF Made, InodeList
<1> QED
  BY <1>1, <1>2, <1>3, <1>4 DEF Build

LEMMA ErrorsGrow ==
  ASSUME IInv, Build
  PROVE  errors' \in Nat /\ errors <= errors'
<1>1. errors \in Nat /\ source \in Sources
  BY IInvFacts
<1>2. CASE ReadAttrs
  <2>1. PICK read \in XattrReads(Lstat(CallPath).id) : errors' = errors + read.failed
    BY <1>2 DEF ReadAttrs
  <2>2. read.failed \in Nat
    BY <1>1, ReadsTyped
  <2> QED
    BY ONLY <1>1, <2>1, <2>2
<1>3. CASE ~ ReadAttrs
  <2>1. errors' = errors \/ errors' = errors + 1
    BY <1>3 DEF Build, CheckSource, Stat, ReadContent, ReadDir, NextChild,
                FinishDir, SetParentNids, CallFails
  <2> QED
    BY ONLY <1>1, <2>1
<1> QED
  BY <1>2, <1>3

Calm == Quiet /\ argument = "dir"

LEMMA NextWalks ==
  ASSUME CopyInvs, CopyInvs', [Next]_vars
  PROVE  \/ ~ Calm'
         \/ /\ Calm' <=> Calm
            /\ Held' = Held
            /\ \/ Made' = Made
               \/ /\ Calm
                  /\ \/ Made = {} /\ Made' = {Root}
                     \/ \E d \in Made : \E f \in Held[d] \ Made :
                          Made' = Made \cup {f}
<1>1. IInv /\ CopyInv /\ IInv'
  BY DEF CopyInvs
<1>2. errors \in Nat /\ changes \in Nat
  BY <1>1, IInvFacts
<1> SUFFICES ASSUME argument' = "dir", changes' = 0, errors' = 0
             PROVE  /\ Calm
                    /\ Held' = Held
                    /\ \/ Made' = Made
                       \/ Made = {} /\ Made' = {Root}
                       \/ \E d \in Made : \E f \in Held[d] \ Made :
                            Made' = Made \cup {f}
  BY DEF Calm, Quiet
<1>3. CASE Build
  <2>1. UNCHANGED <<source, argument, changes>> /\ phase # "failed"
    BY <1>3, BuildLeaves
  <2>2. errors = 0
    <3>1. errors <= errors'
      BY <1>1, <1>3, ErrorsGrow
    <3> QED
      BY ONLY <1>2, <3>1, errors' = 0
  <2>3. Calm
    BY ONLY <2>1, <2>2, argument' = "dir", changes' = 0 DEF Calm, Quiet
  <2>4. Held' = Held
    BY ONLY <2>1 DEF Held
  <2>5. Copying /\ argument = "dir"
    BY <1>1, <2>1, <2>3 DEF CopyInv, Copying
  <2>6. \/ Made' = Made
        \/ Made = {} /\ Made' = {Root}
        \/ \E d \in Made : \E f \in Held[d] \ Made : Made' = Made \cup {f}
    BY ONLY <1>1, <1>3, <2>5, BuildMakes
  <2> QED
    BY ONLY <2>3, <2>4, <2>6
<1>4. CASE ChangeSource
  BY ONLY <1>2, <1>4, changes' = 0 DEF ChangeSource
<1>5. CASE UNCHANGED vars
  BY ONLY <1>5, argument' = "dir", changes' = 0, errors' = 0
  DEF vars, Calm, Quiet, Held, Made, InodeList
<1> QED
  BY <1>3, <1>4, <1>5 DEF Next

(* Up to the first interference the builder is a walk of the source: it starts *)
(* with the root, and every further inode is that of a file which a directory  *)
(* that has one holds and which has none yet.                                  *)
THEOREM BuilderWalksTheSource ==
  Spec => Walk!Init /\ [][Walk!Walk \/ Walk!Interfere]_(Walk!vars)
<1>1. Init => Walk!Init
  <2> SUFFICES ASSUME Init
               PROVE  Walk!Init
    OBVIOUS
  <2>1. Held \in [Files -> SUBSET Files]
    BY HeldIs DEF Init
  <2>2. InodeList = {}
    BY DEF Init, InodeList
  <2>3. Made = {}
    BY ONLY <2>2 DEF Made
  <2>4. Calm \in BOOLEAN
    BY ONLY DEF Calm
  <2> QED
    BY ONLY <2>1, <2>3, <2>4 DEF Walk!Init, Held, Made, Calm
<1>2. CopyInvs /\ CopyInvs' /\ [Next]_vars
        => [Walk!Walk \/ Walk!Interfere]_(Walk!vars)
  <2> SUFFICES ASSUME CopyInvs, CopyInvs', [Next]_vars
               PROVE  [Walk!Walk \/ Walk!Interfere]_(Walk!vars)
    OBVIOUS
  <2>1. \/ ~ Calm'
        \/ /\ Calm' <=> Calm
           /\ Held' = Held
           /\ \/ Made' = Made
              \/ /\ Calm
                 /\ \/ Made = {} /\ Made' = {Root}
                    \/ \E d \in Made : \E f \in Held[d] \ Made :
                         Made' = Made \cup {f}
    BY ONLY NextWalks, CopyInvs, CopyInvs', [Next]_vars
  <2>2. CASE ~ Calm'
    BY ONLY <2>2 DEF Walk!Interfere, Calm
  <2>3. CASE Calm' /\ Made' = Made
    BY ONLY <2>1, <2>3 DEF Walk!vars, Calm, Made, Held
  <2>4. CASE Calm' /\ Made' # Made
    BY ONLY <2>1, <2>4
    DEF Walk!Walk, Walk!CopyRoot, Walk!CopyHeld, Calm, Made, Held
  <2> QED
    BY ONLY <2>2, <2>3, <2>4
<1> QED
  BY <1>1, <1>2, Copied, PTL DEF Spec
=============================================================================

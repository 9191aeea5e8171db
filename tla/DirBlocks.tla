----------------------------- MODULE DirBlocks -----------------------------
(***************************************************************************)
(* A directory from its list of children to the answer of a lookup or a     *)
(* listing: serialize_directory (build/dir.rs) packs the entries into        *)
(* blocks, parse_dir_entries (fs/meta.rs) walks the blocks and calls back    *)
(* with every entry.  One action is one iteration of one of their loops.    *)
(*                                                                         *)
(* The unit is the cell.  A dirent is DirentSize cells, of which the first   *)
(* three are the NID, the name offset and the file type; a name is a         *)
(* sequence of cells that are not 0, and 0 fills the rest of a block.        *)
(***************************************************************************)
EXTENDS Naturals, Sequences, SequencesExt

CONSTANTS
  BlockSize,    (* EROFS_BLOCK_SIZE                                         *)
  DirentSize,   (* EROFS_DIRENT_SIZE                                        *)
  Dot,          (* the cell of the character '.'                            *)
  FtDir,        (* EROFS_FT_DIR                                             *)
  ChildLists,   (* the lists of children, sorted by name, that may be given *)
  Targets,      (* the names looked up                                      *)
  NoName        (* the target of a listing: no name stops the walk          *)

DotEntries == << [nid |-> 0, name |-> <<Dot>>, ft |-> FtDir],
                 [nid |-> 1, name |-> <<Dot, Dot>>, ft |-> FtDir] >>

Entry == [nid : Nat, name : Seq(Nat \ {0}), ft : Nat]

ASSUME DirAssumption ==
  /\ DirentSize \in Nat /\ DirentSize >= 3
  /\ BlockSize \in Nat /\ BlockSize >= DirentSize + 2
  /\ Dot \in Nat \ {0} /\ FtDir \in Nat
  /\ \A l \in ChildLists :
       /\ l \in Seq(Entry)
       /\ \A i \in 1 .. Len(l) : Len(l[i].name) \in 1 .. BlockSize - DirentSize
  /\ NoName \notin Seq(Nat)

VARIABLES
  entries,      (* `entries`: ".", "..", then the children                  *)
  phase,        (* "pack", "write", "panic": the builder; "walk", "block",   *)
                (* "done": the reader                                       *)
  idx,          (* entries packed so far                                    *)
  blockStart,   (* the first of them in this block                          *)
  nameArea,     (* name_area                                                *)
  nameOffset,   (* name_offset                                              *)
  wr,           (* loop index of the writing loop                           *)
  block,        (* the block being written                                  *)
  result,       (* the directory data                                       *)
  target,       (* the name looked up, or NoName for a listing              *)
  pos,          (* parse_dir_entries: start of the current block            *)
  de,           (* loop index over its dirents                              *)
  out,          (* the entries the callback was given                       *)
  found         (* lookup: the NID found, a set of at most one              *)

bvars == <<idx, blockStart, nameArea, nameOffset, wr, block, result>>
rvars == <<target, pos, de, out, found>>
vars == <<entries, phase, bvars, rvars>>

ZeroBlock == [c \in 1 .. BlockSize |-> 0]

(* cells[offset + 1 .. offset + Len(data)] := data *)
Put(cells, offset, data) ==
  [c \in DOMAIN cells |->
     IF c \in offset + 1 .. offset + Len(data) THEN data[c - offset]
     ELSE cells[c]]

Init ==
  /\ \E l \in ChildLists : entries = DotEntries \o l
  /\ phase = "pack"
  /\ idx = 0
  /\ blockStart = 0
  /\ nameArea = 0
  /\ nameOffset = 0
  /\ wr = 0
  /\ block = ZeroBlock
  /\ result = << >>
  /\ target \in Targets \cup {NoName}
  /\ pos = 0
  /\ de = 0
  /\ out = << >>
  /\ found = {}

-----------------------------------------------------------------------------
(* serialize_directory.                                                    *)

(* Faulty variants, for mutation: an entry that fills the block exactly is   *)
(* refused; the room that the dirents take is forgotten.                   *)
FitsLoosely(direntArea, names) == direntArea + names < BlockSize
FitsNamesOnly(direntArea, names) == names <= BlockSize

Fits(direntArea, names) == direntArea + names <= BlockSize

NextFits ==
  /\ idx < Len(entries)
  /\ Fits((idx - blockStart + 1) * DirentSize,
          nameArea + Len(entries[idx + 1].name))

PackEntry ==
  /\ phase = "pack"
  /\ NextFits
  /\ nameArea' = nameArea + Len(entries[idx + 1].name)
  /\ idx' = idx + 1
  /\ UNCHANGED <<entries, phase, blockStart, nameOffset, wr, block, result,
                 rvars>>

(* The inner loop ends; the entries counted are written.  assert!(count > 0) *)
EndPacking ==
  /\ phase = "pack"
  /\ ~ NextFits
  /\ blockStart < Len(entries)
  /\ phase' = IF idx > blockStart THEN "write" ELSE "panic"
  /\ wr' = 0
  /\ block' = ZeroBlock
  /\ nameOffset' = (idx - blockStart) * DirentSize
  /\ UNCHANGED <<entries, idx, blockStart, nameArea, result, rvars>>

WriteDirent ==
  /\ phase = "write"
  /\ wr < idx - blockStart
  /\ LET e   == entries[blockStart + wr + 1]
         end == nameOffset + Len(e.name)
     IN IF end <= BlockSize
          THEN /\ block' = Put(Put(block, wr * DirentSize,
                                   <<e.nid, nameOffset, e.ft>>),
                               nameOffset, e.name)
               /\ nameOffset' = end
               /\ phase' = phase
          ELSE /\ phase' = "panic"   (* the slice is out of bounds *)
               /\ UNCHANGED <<block, nameOffset>>
  /\ wr' = wr + 1
  /\ UNCHANGED <<entries, idx, blockStart, nameArea, result, rvars>>

AppendBlock ==
  /\ phase = "write"
  /\ wr = idx - blockStart
  /\ result' = result \o block
  /\ blockStart' = idx
  /\ nameArea' = 0
  /\ phase' = "pack"
  /\ UNCHANGED <<entries, idx, nameOffset, wr, block, rvars>>

(* Every entry is in a block; the image is written and mounted. *)
StartWalk ==
  /\ phase = "pack"
  /\ blockStart = Len(entries)
  /\ phase' = "walk"
  /\ UNCHANGED <<entries, bvars, rvars>>

-----------------------------------------------------------------------------
(* parse_dir_entries.                                                      *)

BlockEnd == IF pos + BlockSize < Len(result) THEN pos + BlockSize
            ELSE Len(result)
BlockLen == BlockEnd - pos
Cell(k) == result[pos + k + 1]          (* block_data[k] *)

NameOff(i) == Cell(i * DirentSize + 1)  (* nameoff() of the i-th dirent *)
DirentCount == NameOff(0) \div DirentSize

(* Faulty variants, for mutation: the scan for the NUL stops one cell early; *)
(* a lookup matches a name of which the target is a prefix.                 *)
EndsEarly(k) == k >= BlockLen - 1 \/ Cell(k) = 0
IsPrefixOf(name, t) == t # NoName /\ IsPrefix(t, name)

Ends(k) == k >= BlockLen \/ Cell(k) = 0
Matches(name, t) == name = t

(* The name ends where the next one starts; the last one ends at the first  *)
(* NUL or at the end of the block.                                         *)
NameEnd(i) ==
  IF i + 1 < DirentCount THEN NameOff(i + 1)
  ELSE CHOOSE k \in NameOff(i) .. BlockSize :
         Ends(k) /\ \A l \in NameOff(i) .. k - 1 : ~ Ends(l)

(* A block shorter than a dirent ends the walk. *)
NextBlock ==
  /\ phase = "walk"
  /\ IF pos < Len(result) /\ BlockLen >= DirentSize
       THEN phase' = "block"
       ELSE phase' = "done"
  /\ de' = 0
  /\ UNCHANGED <<entries, bvars, target, pos, out, found>>

InBounds(i) ==
  /\ i * DirentSize + DirentSize <= BlockLen
  /\ NameOff(i) < BlockLen
  /\ NameEnd(i) <= BlockLen

(* The callback gets one entry; that of a lookup stops the walk at the name  *)
(* it looks for.                                                           *)
VisitEntry ==
  /\ phase = "block"
  /\ de < DirentCount
  /\ InBounds(de)
  /\ LET name == SubSeq(result, pos + NameOff(de) + 1, pos + NameEnd(de))
     IN /\ out' = Append(out, [nid |-> Cell(de * DirentSize), name |-> name,
                               ft |-> Cell(de * DirentSize + 2)])
        /\ IF Matches(name, target)
             THEN phase' = "done" /\ found' = {Cell(de * DirentSize)}
             ELSE UNCHANGED <<phase, found>>
  /\ de' = de + 1
  /\ UNCHANGED <<entries, bvars, target, pos>>

(* The dirents of the block are all visited, or one is out of bounds. *)
LeaveBlock ==
  /\ phase = "block"
  /\ de < DirentCount => ~ InBounds(de)
  /\ pos' = pos + BlockSize
  /\ phase' = "walk"
  /\ UNCHANGED <<entries, bvars, target, de, out, found>>

Next ==
  \/ PackEntry \/ EndPacking \/ WriteDirent \/ AppendBlock
  \/ StartWalk \/ NextBlock \/ VisitEntry \/ LeaveBlock

(* One thread builds the directory and one worker thread walks it; neither  *)
(* waits for anything.                                                     *)
Spec == Init /\ [][Next]_vars /\ WF_vars(Next)

-----------------------------------------------------------------------------
(* Properties.                                                             *)

EntryIn(s) == \A i \in 1 .. Len(s) : s[i].nid \in Nat /\ s[i].ft \in Nat

TypeOK ==
  /\ EntryIn(entries) /\ EntryIn(out)
  /\ phase \in {"pack", "write", "panic", "walk", "block", "done"}
  /\ blockStart \in 0 .. Len(entries)
  /\ idx \in blockStart .. Len(entries)
  /\ nameArea \in 0 .. BlockSize - (idx - blockStart) * DirentSize
  /\ nameOffset \in 0 .. BlockSize
  /\ wr \in 0 .. Len(entries)
  /\ DOMAIN block = 1 .. BlockSize
  /\ Len(result) % BlockSize = 0
  /\ target \in Targets \cup {NoName}
  /\ pos \in 0 .. Len(result)
  /\ de \in 0 .. Len(entries)
  /\ found \subseteq { entries[i].nid : i \in 1 .. Len(entries) }

(* A listing gives every entry once, in the order of the builder, whatever  *)
(* the way the entries fall into blocks.                                    *)
ListingExact ==
  target = NoName =>
    /\ IsPrefix(out, entries)
    /\ phase = "done" => out = entries

(* A lookup yields the NID of the entry of that name, or nothing when the    *)
(* directory has none; it never takes one name for another.                 *)
LookupExact ==
  phase = "done" =>
    found = { entries[i].nid :
              i \in { n \in 1 .. Len(entries) : entries[n].name = target } }

(* Every directory whose names fit in a block is built and walked to the    *)
(* end: the builder neither loops nor fails its assertion.                  *)
Completes == <>(phase = "done")

(* The lexicographic order of names. *)
Less(s, t) ==
  \/ Len(s) < Len(t) /\ SubSeq(t, 1, Len(s)) = s
  \/ \E k \in 1 .. Len(s) : k <= Len(t) /\ s[k] < t[k]
                            /\ SubSeq(s, 1, k - 1) = SubSeq(t, 1, k - 1)

(* "Sorted alphabetically: entries in each block are in strict              *)
(* lexicographic order", which the kernel's binary search relies on         *)
(* (docs/erofs-technical-internals.md).                                    *)
BlocksSorted ==
  phase = "write" =>
    \A i, j \in blockStart + 1 .. idx :
      i < j => Less(entries[i].name, entries[j].name)

=============================================================================

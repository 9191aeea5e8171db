----------------------------- MODULE TreeBuild -----------------------------
(***************************************************************************)
(* Phase 1 of erofs-mkfs: build_tree (build/inode.rs) walks the source in    *)
(* depth-first order and fills the inode list, and set_parent_nids           *)
(* (bin/erofs-mkfs.rs) wires the ".." entries.  Between two system calls of  *)
(* the builder other programs may change the source; a call may fail.        *)
(*                                                                         *)
(* A file is its (st_dev, st_ino), a name its rank among the names as bytes; *)
(* Lossy gives the rank, as text, of what to_string_lossy makes of it.       *)
(***************************************************************************)
EXTENDS Integers, Sequences, FiniteSets, SequencesExt

CONSTANTS
  Files, Root,    (* the inode numbers of the source file system            *)
  NoFile,         (* a path that leads nowhere                              *)
  LinkFile,       (* the symbolic link, when the argument is one            *)
  Names, Lossy,
  XattrIndex,     (* xattr names to index, 0 for a namespace without one    *)
  Sources,        (* what the source may be                                 *)
  Moving,         (* those that other programs turn into one another         *)
  Arguments,      (* what the source argument names: "dir", "link", "file"  *)
  MaxChanges,     (* bound on the changes of the source                     *)
  MaxErrors       (* bound on the system calls that fail                    *)

Kinds == {"dir", "reg", "lnk", "other"}

ASSUME TreeAssumption ==
  /\ Root \in Files /\ NoFile \notin Files /\ LinkFile \notin Files
  /\ Names \subseteq Nat /\ Lossy \in [Names -> Nat]
  /\ IsFiniteSet(DOMAIN XattrIndex)
  /\ Moving \subseteq Sources
  /\ \A s \in Sources : /\ s.kind \in [Files -> Kinds] /\ s.kind[Root] = "dir"
                       /\ s.xattrs \in [Files -> SUBSET DOMAIN XattrIndex]
  /\ Arguments \subseteq {"dir", "link", "file"}
  /\ MaxChanges \in Nat /\ MaxErrors \in Nat

(* Every source is a file system: a name of a directory leads to one file or   *)
(* nowhere, no directory has two names, and nothing in the source leads back   *)
(* to its root.                                                            *)
IsFileSystem(s) ==
  /\ s.ents \in [Files -> [Names -> Files \cup {NoFile}]]
  /\ s.other \in [Files -> Nat]
  /\ \A d, e \in Files : \A n, o \in Names :
       LET f == s.ents[d][n]
       IN /\ f # Root
          /\ f # NoFile /\ s.kind[f] = "dir" /\ s.ents[e][o] = f => d = e /\ n = o

ASSUME SourceAssumption ==
  /\ IsFiniteSet(Files) /\ IsFiniteSet(Names)
  /\ \A s \in Sources : IsFileSystem(s)

VARIABLES
  source,     (* [kind, ents, other, xattrs]: the kind of each file, the     *)
              (* entries of each directory, links from outside the source,   *)
              (* and the names of the extended attributes                    *)
  argument,
  changes, errors,
  phase,      (* "check"; "visit", "content", "attrs", "readdir": where      *)
              (* build_tree_recursive is; "loop": its loop over entries;     *)
              (* "wire": set_parent_nids; "done", "failed"                   *)
  stack,      (* the active calls on directories                            *)
  meta,       (* the lstat of the call in progress                          *)
  inodes,     (* the inode list                                             *)
  links       (* hardlink_map                                               *)

vars == <<source, argument, changes, errors, phase, stack, meta, inodes, links>>
world == <<source, argument, changes>>

-----------------------------------------------------------------------------
(* System calls on the source.                                             *)

Nlink(s, f) ==
  Cardinality({e \in Files \X Names : s.ents[e[1]][e[2]] = f}) + s.other[f]

(* The file that a path leads to, name by name from the root.                 *)
Resolve(s, path) ==
  LET at[i \in 0 .. Len(path)] ==
        IF i = 0 THEN Root
        ELSE IF at[i - 1] # NoFile /\ s.kind[at[i - 1]] = "dir"
          THEN s.ents[at[i - 1]][path[i]]
        ELSE NoFile
  IN at[Len(path)]

NoMeta == [id |-> NoFile, kind |-> "none", nlink |-> 0]

(* symlink_metadata *)
Lstat(path) ==
  LET f == Resolve(source, path)
  IN IF path = << >> /\ argument = "link"
       THEN [id |-> LinkFile, kind |-> "lnk", nlink |-> 1]
     ELSE IF f \notin Files THEN NoMeta
       ELSE [id |-> f, kind |-> source.kind[f], nlink |-> Nlink(source, f)]

NamesIn(d) == {n \in Names : source.ents[d][n] # NoFile}

(* The order of sort_by_key(file_name): the names as bytes.                *)
InOrder(names) ==
  [k \in 1 .. Cardinality(names) |->
     CHOOSE n \in names : Cardinality({o \in names : o < n}) = k - 1]

(* Faulty variant, for mutation: the last name is left out.                  *)
AllButLast(d) == InOrder({n \in NamesIn(d) : \E o \in NamesIn(d) : o > n})

SortedNames(d) == InOrder(NamesIn(d))

(* read_xattrs_from_path: names without an index are passed over, a value    *)
(* that cannot be read is empty, and a list that cannot be read is too.      *)
Supported(f) ==
  IF f \in Files THEN {x \in source.xattrs[f] : XattrIndex[x] # 0} ELSE {}
XattrReads(f) ==
  {[xattrs |-> [x \in Supported(f) |-> IF x \in unread THEN "empty" ELSE "value"],
    failed |-> Cardinality(unread)] : unread \in SUBSET Supported(f)}
  \cup {[xattrs |-> [x \in {} |-> "value"], failed |-> 1]}

(* Faulty variant, for mutation: the call is made again.                     *)
TryAgain == /\ phase' = phase
            /\ UNCHANGED <<stack, meta, inodes, links>>
            /\ UNCHANGED world

Fail == /\ phase' = "failed"
        /\ UNCHANGED <<stack, meta, inodes, links>>
        /\ UNCHANGED world

-----------------------------------------------------------------------------
(* build_tree_recursive.                                                   *)

Top == stack[Len(stack)]
CallPath == IF stack = << >> THEN << >> ELSE Append(Top.path, Head(Top.todo))

(* What the loop pushes for a child: the type is that of the loop's lstat.   *)
Entry(name, m, idx) == [name |-> Lossy[name], type |-> m.kind, idx |-> idx]

(* Faulty variants, for mutation: every link gets an inode; an index off by   *)
(* one.                                                                    *)
NeverLinked(m) == FALSE
AddNextEntry(frame, idx, m) ==
  [frame EXCEPT !.children = Append(@, Entry(Head(frame.todo), m, idx + 1)),
                !.todo = Tail(@)]

MayBeLinked(m) == m.kind # "dir" /\ m.nlink > 1

AddEntry(frame, idx, m) ==
  [frame EXCEPT !.children = Append(@, Entry(Head(frame.todo), m, idx)),
                !.todo = Tail(@)]

(* hardlink_map.insert *)
Remember(f, idx) ==
  [g \in DOMAIN links \cup {f} |-> IF g = f THEN idx ELSE links[g]]

(* Back in the caller's loop with the index of a child, or in build_tree.   *)
Return(idx, callers) ==
  IF callers = << >>
    THEN /\ phase' = "wire" /\ stack' = callers
         /\ UNCHANGED links
    ELSE LET n == Len(callers)
             m == callers[n].meta
         IN /\ phase' = "loop"
            /\ stack' = [callers EXCEPT ![n] = AddEntry(@, idx, m)]
            /\ links' = IF MayBeLinked(m) THEN Remember(m.id, idx) ELSE links

(* main: the argument must be a directory; is_dir follows a symbolic link.   *)
CheckSource ==
  /\ phase = "check"
  /\ IF argument = "file" THEN Fail
     ELSE /\ phase' = "visit"
          /\ UNCHANGED <<stack, meta, inodes, links>>
          /\ UNCHANGED world
  /\ UNCHANGED errors

(* The lstat at the head of the call.                                      *)
Stat ==
  /\ phase = "visit"
  /\ LET m == Lstat(CallPath)
     IN IF m = NoMeta THEN Fail
        ELSE /\ meta' = m
             /\ phase' = IF m.kind \in {"reg", "lnk"} THEN "content" ELSE "attrs"
             /\ UNCHANGED <<stack, inodes, links>>
             /\ UNCHANGED world
  /\ UNCHANGED errors

(* write_file_chunks and read_link go by the path again.  What has become of *)
(* a regular file may be an error or be read instead, and does not matter if *)
(* the file was empty and is not opened; read_link reads links only.         *)
ReadContent ==
  /\ phase = "content"
  /\ LET now == Lstat(CallPath)
     IN \/ /\ meta.kind = "reg" \/ now.kind = "lnk"
           /\ phase' = "attrs"
           /\ UNCHANGED <<stack, meta, inodes, links>>
           /\ UNCHANGED world
        \/ now.kind # meta.kind /\ Fail
  /\ UNCHANGED errors

(* The xattrs, again by the path, and the new inode.  A directory is pushed   *)
(* before its children; its parent NID is 0, the root's, until it is wired.  *)
ReadAttrs ==
  /\ phase = "attrs"
  /\ \E read \in XattrReads(Lstat(CallPath).id) :
       /\ errors' = errors + read.failed /\ errors' <= MaxErrors
       /\ inodes' = Append(inodes,
            [src |-> meta.id, kind |-> meta.kind, children |-> << >>,
             parent |-> 1, xattrs |-> read.xattrs])
  /\ IF meta.kind = "dir"
       THEN phase' = "readdir" /\ UNCHANGED <<stack, links>>
       ELSE Return(Len(inodes) + 1, stack)
  /\ UNCHANGED meta
  /\ UNCHANGED world

(* read_dir of the path, collected and sorted.                             *)
ReadDir ==
  /\ phase = "readdir"
  /\ LET now == Lstat(CallPath)
     IN IF now.kind # "dir" THEN Fail
        ELSE /\ phase' = "loop"
             /\ stack' = Append(stack,
                  [idx |-> Len(inodes), path |-> CallPath,
                   todo |-> SortedNames(now.id), children |-> << >>,
                   meta |-> NoMeta])
             /\ UNCHANGED <<meta, inodes, links>>
             /\ UNCHANGED world
  /\ UNCHANGED errors

(* Faulty variant, for mutation: a file is remembered before it has an index. *)
DescendAndRemember(m) ==
  /\ stack' = [stack EXCEPT ![Len(stack)].meta = m]
  /\ phase' = "visit"
  /\ links' = IF MayBeLinked(m) THEN Remember(m.id, Len(inodes) + 1) ELSE links
  /\ UNCHANGED <<meta, inodes>>
  /\ UNCHANGED world

Descend(m) ==
  /\ stack' = [stack EXCEPT ![Len(stack)].meta = m]
  /\ phase' = "visit"
  /\ UNCHANGED <<meta, inodes, links>>
  /\ UNCHANGED world

(* The loop's own lstat of the child: a link to a file that is known becomes *)
(* an entry at once, anything else is visited.                              *)
NextChild ==
  /\ phase = "loop" /\ Top.todo # << >>
  /\ LET m == Lstat(CallPath)
         n == Len(stack)
     IN \/ m = NoMeta /\ Fail
        \/ /\ m # NoMeta /\ MayBeLinked(m) /\ m.id \in DOMAIN links
           /\ stack' = [stack EXCEPT ![n] = AddEntry(@, links[m.id], m)]
           /\ UNCHANGED <<phase, meta, inodes, links>>
           /\ UNCHANGED world
        \/ m # NoMeta /\ ~ (MayBeLinked(m) /\ m.id \in DOMAIN links) /\ Descend(m)
  /\ UNCHANGED errors

(* The directory is complete.                                              *)
FinishDir ==
  /\ phase = "loop" /\ Top.todo = << >>
  /\ inodes' = [inodes EXCEPT ![Top.idx].children = Top.children]
  /\ Return(Top.idx, Front(stack))
  /\ UNCHANGED <<errors, meta>>
  /\ UNCHANGED world

-----------------------------------------------------------------------------
(* set_parent_nids: directories take the NID of the last directory with an   *)
(* entry for them of type directory.                                       *)

(* Faulty variant, for mutation: every directory of the list is taken for    *)
(* the parent of what follows it.                                          *)
WiredToPrevious(i) == IF i = 1 THEN 1 ELSE i - 1

Parents(i) ==
  {d \in DOMAIN inodes :
     \E c \in DOMAIN inodes[d].children :
       inodes[d].children[c].type = "dir" /\ inodes[d].children[c].idx = i}
Wired(i) == IF Parents(i) = {} THEN inodes[i].parent
            ELSE CHOOSE d \in Parents(i) : \A e \in Parents(i) : e <= d

SetParentNids ==
  /\ phase = "wire" /\ phase' = "done"
  /\ inodes' = [i \in DOMAIN inodes |->
                  IF inodes[i].kind = "dir"
                    THEN [inodes[i] EXCEPT !.parent = Wired(i)]
                    ELSE inodes[i]]
  /\ UNCHANGED <<errors, stack, meta, links>>
  /\ UNCHANGED world

Init ==
  /\ source \in Sources /\ argument \in Arguments
  /\ changes = 0 /\ errors = 0
  /\ phase = "check"
  /\ stack = << >> /\ inodes = << >>
  /\ meta = NoMeta
  /\ links = [f \in {} |-> 0]

(* A system call that fails, and with it the build; xattr calls do not.      *)
CallFails ==
  /\ phase \in {"visit", "content", "readdir", "loop"}
  /\ phase = "loop" => Top.todo # << >>
  /\ errors < MaxErrors /\ errors' = errors + 1
  /\ Fail

(* Other programs rename, link, unlink and create between two of our calls.  *)
ChangeSource ==
  /\ phase \notin {"wire", "done", "failed"}
  /\ changes < MaxChanges /\ changes' = changes + 1
  /\ source \in Moving /\ source' \in Moving \ {source}
  /\ UNCHANGED <<argument, errors, phase, stack, meta, inodes, links>>

Build ==
  \/ CheckSource \/ Stat \/ ReadContent \/ ReadAttrs \/ ReadDir \/ NextChild
  \/ FinishDir \/ SetParentNids \/ CallFails

Next == Build \/ ChangeSource

(* The builder waits for nobody.                                           *)
Spec == Init /\ [][Next]_vars /\ WF_vars(Build)

-----------------------------------------------------------------------------
(* Properties.                                                             *)

InodeList == DOMAIN inodes
FileIds == Files \cup {LinkFile}

(* The variables have the types that the code gives them; indexes are        *)
(* indexes of the list.                                                     *)
TypeOK ==
  /\ argument \in {"dir", "link", "file"}
  /\ changes \in 0 .. MaxChanges /\ errors \in 0 .. MaxErrors
  /\ phase \in {"check", "visit", "content", "attrs", "readdir", "loop",
                "wire", "done", "failed"}
  /\ meta = NoMeta \/ (meta.id \in FileIds /\ meta.kind \in Kinds)
  /\ \A i \in InodeList :
       /\ inodes[i].src \in FileIds /\ inodes[i].kind \in Kinds
       /\ inodes[i].parent \in InodeList
       /\ \A c \in DOMAIN inodes[i].children :
            inodes[i].children[c].idx \in InodeList
  /\ \A n \in DOMAIN stack : stack[n].idx \in InodeList
  /\ DOMAIN links \subseteq FileIds
  /\ \A f \in DOMAIN links : links[f] \in Nat \ {0}

Quiet == changes = 0 /\ errors = 0

(* build_tree on a source that nobody changes: the list is the source.  Each *)
(* directory has the entries of its file, in the order of the names as bytes, *)
(* with the type of the file and the index of the inode made of it; no file   *)
(* has two inodes however many names it has.  A call for an xattr that fails  *)
(* costs one inode an xattr or its xattrs, and nothing else.  An argument     *)
(* that is a link to a directory gives the link alone.                       *)
TreeCopied ==
  phase = "done" /\ changes = 0 =>
    /\ argument = "link" => Len(inodes) = 1 /\ inodes[1].src = LinkFile
    /\ argument = "dir" =>
       /\ inodes[1].src = Root
       /\ \A i, k \in InodeList : inodes[i].src = inodes[k].src => i = k
       /\ \A i \in InodeList :
            LET f == inodes[i].src
            IN /\ inodes[i].kind = source.kind[f]
               /\ inodes[i].kind = "dir" =>
                    inodes[i].children = [c \in DOMAIN SortedNames(f) |->
                      LET name == SortedNames(f)[c]
                          held == source.ents[f][name]
                      IN [name |-> Lossy[name], type |-> source.kind[held],
                          idx  |-> CHOOSE k \in InodeList : inodes[k].src = held]]
       /\ Cardinality({i \in InodeList :
            inodes[i].xattrs # [x \in Supported(inodes[i].src) |-> "value"]}) <= errors

(* set_parent_nids: whatever happens to the source meanwhile, ".." leads to   *)
(* the one directory that holds the entry, and from the root to the root, as   *)
(* long as the entry has the type of the inode, that is, the two lstats of    *)
(* the child agreed.                                                        *)
ParentHoldsChild ==
  phase = "done" =>
    /\ inodes[1].parent = 1
    /\ \A d \in InodeList : \A c \in DOMAIN inodes[d].children :
         LET e == inodes[d].children[c]
         IN e.type = "dir" /\ inodes[e.idx].kind = "dir" =>
              inodes[e.idx].parent = d

(* Whatever happens to the source meanwhile, the image is a tree apart from    *)
(* hard links: no set of directories holds all the directories that lead to    *)
(* them, so that a walk ends, and an entry leads to every inode but the first. *)
FormsATree ==
  phase = "done" =>
    /\ \A S \in (SUBSET {i \in InodeList : inodes[i].kind = "dir"}) \ {{}} :
         \E i \in S : \A d \in S : \A c \in DOMAIN inodes[d].children :
           inodes[d].children[c].idx # i
    /\ \A i \in InodeList \ {1} :
         \E d \in InodeList : \E c \in DOMAIN inodes[d].children :
           inodes[d].children[c].idx = i

(* The builder ends, also when the source changes under it.                  *)
Terminates == <>(phase \in {"done", "failed"})

(* As long as nobody changes the source and no call fails, it is a walk of    *)
(* the source.                                                             *)
Walk == INSTANCE SourceWalk WITH
  holds  <- [f \in Files |-> {source.ents[f][n] : n \in Names} \ {NoFile}],
  copied <- {inodes[i].src : i \in InodeList},
  calm   <- Quiet /\ argument = "dir"
WalksSource == Walk!Spec

(* docs/erofs-technical-internals.md:688: "For every other directory:        *)
(* parent_nid = its parent directory's NID".  An entry has the type of the   *)
(* loop's lstat, and the inode the kind of the call's.                      *)
ParentsWired ==
  phase = "done" =>
    \A d \in InodeList : \A c \in DOMAIN inodes[d].children :
      LET i == inodes[d].children[c].idx
      IN inodes[i].kind = "dir" => inodes[i].parent = d
=============================================================================

------------------------------ MODULE FuseOps ------------------------------
(***************************************************************************)
(* The handlers of ErofsFs (fs/fuse.rs) that only read the image, and the     *)
(* kernel in front of them, which remembers for as long as the mount lasts    *)
(* which inode number it was told for which file: all timeouts are ten years, *)
(* and forget does nothing.  Handlers see numbers, NIDs and names; the        *)
(* kernel's caller means a file of the tree.  FuseServer runs the handlers    *)
(* concurrently; these share nothing that changes, so each is one step here.  *)
(* Names that each specification has begin with Ops here, so that one module  *)
(* of proofs can extend both.                                               *)
(***************************************************************************)
EXTENDS Naturals, Sequences, SequencesExt

CONSTANTS
  Nodes,      (* the files of all trees                                     *)
  Names,      (* of directory entries, "." and ".." among them               *)
  Attrs,      (* names of extended attributes                               *)
  AttrLen,    (* their lengths                                              *)
  Images,     (* what may be mounted                                        *)
  MaxBuf      (* bound on the buffers of getxattr and listxattr              *)

(* The NIDs of an image tell its files apart.  NID 0 is the root or nothing:   *)
(* mkfs puts the root there, other builders the superblock.                  *)
ImageOK(im) ==
  /\ im.root \in Nodes /\ im.nid \in [Nodes -> Nat]
  /\ \A m, n \in Nodes : im.nid[m] = im.nid[n] => m = n
  /\ \A n \in Nodes : im.nid[n] = 0 => n = im.root
  /\ \A n \in Nodes : im.kind[n] \in {"dir", "reg", "lnk"}
  /\ \A n \in Nodes : \A name \in DOMAIN im.entries[n] :
       name \in Names /\ im.entries[n][name] \in Nodes
  /\ im.xattrs \in [Nodes -> Seq([name : Attrs, value : Seq(Nat)])]

(* "list" is what the calls of listxattr are recorded under.                  *)
ASSUME OpsAssumption ==
  /\ \A im \in Images : ImageOK(im)
  /\ "list" \notin Attrs
  /\ AttrLen \in [Attrs -> Nat] /\ MaxBuf \in Nat \ {0}

VARIABLES
  image,      (* [root, nid, kind, entries, xattrs]: the mounted tree         *)
  known,      (* what the kernel was told: [ino, node]                      *)
  sizes,      (* what callers were told of the size of xattrs and lists       *)
  last        (* the last call, the file it meant, and the reply             *)

opsVars == <<image, known, sizes, last>>

FUSE_ROOT_ID == 1

-----------------------------------------------------------------------------
(* Inode numbers.                                                          *)

(* Faulty variants, for mutation: the root is not told apart; a NID is given  *)
(* out as it is.                                                            *)
NextIno(nid) == nid + FUSE_ROOT_ID
NidItself(nid) == nid

ToNid(ino) ==
  IF ino = FUSE_ROOT_ID THEN image.nid[image.root] ELSE ino - FUSE_ROOT_ID
ToIno(nid) ==
  IF nid = image.nid[image.root] THEN FUSE_ROOT_ID ELSE nid + FUSE_ROOT_ID

(* ErofsReader::inode                                                       *)
NodesAt(nid) == {n \in Nodes : image.nid[n] = nid}

(* make_stat                                                               *)
StatIno(nid) == ToIno(nid)

Called(op, k, ino, node, errno, size, got) ==
  [op |-> op, at |-> k, ino |-> ino, node |-> node, errno |-> errno,
   size |-> size, got |-> got]

Replied(op, k, ino, node) ==
  /\ last' = Called(op, k, ino, node, "none", 0, << >>)
  /\ UNCHANGED <<image, sizes>>

Error(op, k, errno) ==
  /\ last' = Called(op, k, k.ino, k.node, errno, 0, << >>)
  /\ UNCHANGED <<image, known, sizes>>

-----------------------------------------------------------------------------
(* lookup, readdirplus, getattr, open with read, readlink, of a file k that    *)
(* the kernel knows.  `meant` is what the caller means by an entry's name.     *)

LookupIn(k, n, name) ==
  IF name \in DOMAIN image.entries[n]
    THEN LET child == image.nid[image.entries[n][name]]
             meant == image.entries[k.node][name]
             pair  == [ino |-> ToIno(child), node |-> meant]
         IN /\ known' = known \cup {pair}
            /\ \E found \in NodesAt(child) :
                 Replied("lookup", pair, StatIno(child), found)
    ELSE Error("lookup", k, "ENOENT")

Lookup(k, name) ==
  /\ image.kind[k.node] = "dir"
  /\ \E n \in NodesAt(ToNid(k.ino)) : LookupIn(k, n, name)

(* Each entry comes with its attributes, as if it were looked up.             *)
Readdirplus(k) ==
  \E n \in NodesAt(ToNid(k.ino)) :
    IF image.kind[n] = "dir"
      THEN /\ known' = known \cup
                {[ino  |-> ToIno(image.nid[image.entries[n][name]]),
                  node |-> image.entries[k.node][name]] :
                   name \in DOMAIN image.entries[n]}
           /\ Replied("readdirplus", k, k.ino, n)
      ELSE Error("opendir", k, "ENOTDIR")

Getattr(k) ==
  /\ \E n \in NodesAt(ToNid(k.ino)) :
       Replied("getattr", k, StatIno(ToNid(k.ino)), n)
  /\ UNCHANGED known

(* FileRead has the ranges that are read.                                    *)
OpenAndRead(k, forWrite) ==
  \E n \in NodesAt(ToNid(k.ino)) :
    CASE forWrite -> Error("open", k, "EROFS")
      [] ~ forWrite /\ image.kind[n] = "reg" ->
           Replied("read", k, k.ino, n) /\ UNCHANGED known
      [] OTHER -> Error("open", k, "EISDIR")

Readlink(k) ==
  /\ image.kind[k.node] = "lnk"
  /\ \E n \in NodesAt(ToNid(k.ino)) : Replied("readlink", k, k.ino, n)
  /\ UNCHANGED known

-----------------------------------------------------------------------------
(* getxattr and listxattr: with size 0 the reply is the size only.            *)

(* Faulty variant, for mutation: a buffer that is filled is too small.         *)
NoRoom(size, length) == size <= length

TooSmall(size, length) == size < length

(* The names, each with a NUL behind it.                                     *)
ListLen(xattrs) ==
  FoldLeft(LAMBDA length, x : length + AttrLen[x.name] + 1, 0, xattrs)

Answer(op, k, n, size, length, got) ==
  /\ IF size = 0
       THEN /\ sizes' = sizes \cup {[op |-> op, node |-> k.node, length |-> length]}
            /\ last' = Called(op, k, k.ino, n, "none", size, << >>)
       ELSE /\ sizes' = sizes
            /\ last' = IF TooSmall(size, length)
                         THEN Called(op, k, k.ino, n, "ERANGE", size, << >>)
                         ELSE Called(op, k, k.ino, n, "none", size, got)
  /\ UNCHANGED <<image, known>>

(* The entries of the name; TreeBuild and InodeFormat say what is stored.      *)
Named(n, name) ==
  {i \in DOMAIN image.xattrs[n] : image.xattrs[n][i].name = name}

Getxattr(k, name, size) ==
  \E n \in NodesAt(ToNid(k.ino)) :
    IF Named(n, name) = {} THEN Error(name, k, "ENODATA")
    ELSE LET value == image.xattrs[n][Min(Named(n, name))].value
         IN Answer(name, k, n, size, Len(value), value)

Listxattr(k, size) ==
  \E n \in NodesAt(ToNid(k.ino)) :
    Answer("list", k, n, size, ListLen(image.xattrs[n]),
           [i \in DOMAIN image.xattrs[n] |-> image.xattrs[n][i].name])

-----------------------------------------------------------------------------

(* The kernel knows the root from the start.                                 *)
OpsInit ==
  /\ image \in Images
  /\ known = {[ino |-> FUSE_ROOT_ID, node |-> image.root]}
  /\ sizes = {}
  /\ last = Called("mount", [ino |-> FUSE_ROOT_ID, node |-> image.root],
                   FUSE_ROOT_ID, image.root, "none", 0, << >>)

OpsNext ==
  \E k \in known :
    \/ \E name \in Names : Lookup(k, name)
    \/ Readdirplus(k) \/ Getattr(k) \/ Readlink(k)
    \/ \E forWrite \in BOOLEAN : OpenAndRead(k, forWrite)
    \/ \E name \in Attrs, size \in 0 .. MaxBuf : Getxattr(k, name, size)
    \/ \E size \in 0 .. MaxBuf : Listxattr(k, size)

OpsSpec == OpsInit /\ [][OpsNext]_opsVars

-----------------------------------------------------------------------------
(* Properties.                                                             *)

(* What the kernel is told are inode numbers, of files of the tree.            *)
OpsTypeOK ==
  /\ image \in Images
  /\ known \subseteq [ino : Nat \ {0}, node : Nodes]
  /\ last.at \in known /\ last.node \in Nodes /\ last.ino \in Nat
  /\ last.size \in 0 .. MaxBuf

(* Over the whole mount a number stands for one file and a file has one number, *)
(* by whatever call the kernel learns of it: through each of its links, by      *)
(* lookup or readdirplus, and the root through the ".." of its directories.     *)
InoNamesOneFile ==
  \A j, k \in known : j.ino = k.ino <=> j.node = k.node

(* A reply is about the file that the caller meant, and its attributes carry    *)
(* the number that the kernel asked for, without which it takes the inode for   *)
(* a bad one.                                                               *)
RepliesAboutAskedFile == last.ino = last.at.ino /\ last.node = last.at.node

(* A buffer of the size that an earlier call gave is never too small, and what  *)
(* is returned is never cut.                                                *)
SizeIsEnough ==
  /\ last.errno = "ERANGE" =>
       \A s \in sizes : s.op = last.op /\ s.node = last.node => last.size < s.length
  /\ last.op \in Attrs /\ last.errno = "none" /\ last.size > 0 =>
       \E i \in DOMAIN image.xattrs[last.node] :
         image.xattrs[last.node][i] = [name |-> last.op, value |-> last.got]
=============================================================================

# A verification project for erofs-utils-rust

TLA+ modules, TLC runs and TLAPS proofs for the two programs of this
repository: `erofs-mkfs`, which turns a directory tree into a metadata image
and a blob of deduplicated chunks, and `erofs-fuse`, which maps both files and
serves them through FUSE. Paths below are those of the repository, without the
leading `src/` of `PROJECT.json`.

## The system

| Component | Code | State | Operations |
|---|---|---|---|
| mkfs driver | `src/bin/erofs-mkfs.rs` | the inode list, the build time | check arguments; phase 1 tree, 2a NIDs, parent NIDs, 2b directory data, 2c inodes, 3 image |
| Tree builder | `src/build/inode.rs:94-297` | inode list, inode counter, hard link map | lstat, xattrs, recursion in name order, sharing of hard links |
| Blob writer | `src/build/blobchunk.rs` | blob file, next block, hash table, bytes saved | `write_file_chunks` |
| Metadata layout | `src/metadata/layout.rs` | buffer, cursor | `alloc_inode`, `pad_to_block`, `alloc_dir_data`, `write_at` |
| Directory serializer | `src/build/dir.rs` | - | pack entries into blocks |
| Inode serializer | `src/build/inode.rs:318-540` | - | size and bytes of one inode with xattrs and tail |
| Image writer, superblock | `src/build/image.rs`, `src/metadata/superblock.rs` | image file | block 0, metadata, padding |
| On-disk structures | `src/metadata/*.rs` | - | fields of fixed width, casts |
| Reader | `src/fs/mod.rs`, `meta.rs`, `data.rs` | two read-only mappings | open, inode, directory walk, xattrs, symlink, chunked read |
| FUSE handlers | `src/fs/fuse.rs` | table of directory handles (mutex), handle counter (atomic) | lookup, getattr, open, read, readlink, opendir, readdir(plus), releasedir, xattrs |
| FUSE daemon | `src/bin/erofs-fuse.rs` | worker threads, session | worker loop; signal, unmount, wake, return |

**How they interact.** mkfs is one thread that calls the components in a fixed
order. Each stage keeps numbers that a later stage, or the reader in another
process, uses without any check: offsets reserved in phase 2a are written in
2c, block addresses of phase 1 are resolved at mount time, the sizes of phase 2a
are recomputed by the serializer. The daemon's workers share the handlers, which
share the read-only mappings; their only mutable state is the handle table and
its counter. The kernel queues requests for all workers.

**What is hard.** Arithmetic that must agree between programs that never meet;
exact fits, last blocks, widths of fields; source files that change during the
build; failures that leave one of two files new; workers that interleave on the
handle table, end for good on an error, and are not joined. `PROJECT.json`
lists each hazard at its line with the property that would catch it.

**What makes each part correct.**
* Layout: extents never overlap or move, no write is out of the buffer, the
  reader computes the same addresses.
* Blob: a read returns the bytes captured at build time or an error, whatever is
  shared; nothing is stored twice; the bytes saved account for what is missing.
* Directories: a listing is exact, a lookup finds the entry or none, every
  directory is built.
* Inodes: every attribute, xattr, chunk index and target survives the narrowing.
* Tree: the inode list is the source, hard links share an inode, `..` is the
  parent; whatever other programs do meanwhile, the image is a finite tree.
* Output files: no file mixes two runs, the image never gets ahead of the blob,
  exit code 0 means that both are complete.
* Reads: the bytes of the file or an error, in every layout and on every path.
* Daemon: streams stay valid and exact under concurrency, handles do not leak,
  an inode number stands for one file, calls are answered, a signal frees every
  caller.

## Modules

| Module | Models | Runs |
|---|---|---|
| `MetadataLayout` | phases 2 and 3 of mkfs on the allocator, and the reader's address arithmetic | `layout` |
| `ExtentAllocator` | abstract: extents that never move and never overlap | refined by `MetadataLayout` |
| `MetadataLayoutProofs` | theorems about `MetadataLayout` | - |
| `BlobStore` | lstat, chunking, dedup, failing writes, changing sources, the read loop | `blob` |
| `FileStore` | abstract: captured bytes never change, a read returns them or an error | refined by `BlobStore` |
| `BlobStoreProofs` | theorems about `BlobStore` | - |
| `DirBlocks` | `serialize_directory` and `parse_dir_entries`, a loop iteration per action | `dirs`, `dir_order` |
| `DirBlocksProofs` | theorems about `DirBlocks` | - |
| `InodeFormat` | `serialize_inode` and what `ErofsInode`, `read_xattrs`, `chunk_indexes` read back | `inodes`, `mtime` |
| `InodeFormatProofs` | theorems about `InodeFormat` | - |
| `TreeBuild` | `build_tree`, a system call per action, in a changing source; `set_parent_nids` | `tree`, `tree_parents` |
| `SourceWalk` | abstract: a walk of the source that reaches every file once | refined by `TreeBuild` |
| `TreeBuildProofs` | theorems about `TreeBuild` | - |
| `MkfsRun` | whole runs of mkfs over the two output files, killed or failing, and `open` | `mkfs_run` |
| `MkfsRunProofs` | theorems about `MkfsRun` | - |
| `FileRead` | the three read paths over the three data layouts and cut mappings | `file_read` |
| `FileReadProofs` | theorems about `FileRead` | - |
| `FuseServer` | handlers with state, worker loops, main thread, kernel and clients | `server` |
| `FuseServerProofs` | theorems about `FuseServer` and `FuseOps` | - |
| `FuseOps` | inode numbers, stateless handlers, the kernel's cache of what it was told | `fuse_ops` |
| `MC*` | instances for TLC | |

The modules meet in numbers, as the components do: `TreeBuild` yields the list
that `MetadataLayout` lays out and whose files `BlobStore` stores; `MkfsRun` takes
what they yield as cells; `FileRead` has the read paths for every layout, and
`BlobStore` again the one that its own files take, from the bytes captured to the
bytes read; `FuseServer` runs concurrently what `FuseOps` has as one step each.

### MetadataLayout

`tree` is the inode list with, for each inode, its metadata size and the length
of its directory data (0 for other kinds). `phase` and `next` are the position
of `main`; `cursor` and `bufLen` are the allocator's fields. Bytes are left
out: `meta` and `dirs` hold the numbers the builder stores, `image` the length
and the superblock fields. One action is one loop iteration. A slice out of
the buffer leads to the phase `"panic"`. `Trees` admits every inode list that
the tree builder can return, including the single non-directory inode that
results when the source argument is a symbolic link to a directory.

### BlobStore

`source` is the tree as other programs see it, and they may rewrite it between
any two steps (`ModifySource`). `StatFile` is the `lstat` whose size bounds all
later reads; `ReadChunk` is `read_exact`; `ReuseChunk` and `WriteChunk` are the
branches on the hash; `WriteChunkFails` is a `write_all` that stops anywhere.
`Mount` maps any prefix of the blob. `ReadPiece` is one iteration of the loop
that the three read paths of `data.rs` share. BLAKE3 is taken as injective, and
one `read_exact` as atomic. The refinement maps `stored` to what the chunk
indexes resolve to *in the blob of that moment*, so a step that moved, shared or
overwrote a chunk wrongly is a step that `FileStore` does not have.

### DirBlocks

Names are sequences of cells, a dirent is three cells, a block a few more than
that; the proportions are such that names fill blocks exactly, leave one cell,
or need a block of their own. The reader walks the cells that the writer left,
with its own bounds checks.

### InodeFormat

A header is a record whose integers are cut to their width; xattrs and what
follows are cells, one per byte, except that an integer field is one cell. `U8`,
`U16`, `U32` scale the widths, so that both sides of every limit are small
inputs. The xattr prefix is its index (the table of prefixes is injective), and
the reader sees the cells of this inode only. `InodeOK` says what an `InodeInfo`
can be when it is serialized; the instance and the proofs assume no more of
`Inodes`.

### FuseServer

`client` is a process with at most one call in the kernel; `queue` is
`/dev/fuse`; `worker` has a program counter for every point where another thread
can get in between (after the counter is advanced, before the mutex, after the
table is consulted, before the reply). Handlers without state are one step.
`ReplyFails` and `GetRequestFails` are the two ways out of the worker loop
other than a wake. `ProcessEnds` is what the return of `main` does to everybody.

`WakeFails` and `UmountFails` are the `?` of `se.wake()` and `se.umount()`.

### TreeBuild

`source` is the file system: the kind of every file, the entries of every
directory, links from outside, names of xattrs. A file is its device and inode
number. `stack` holds the active calls of `build_tree_recursive` with their
loops; `phase` says where the innermost is; each system call is an action, and
between any two of them `ChangeSource` may put another source in place. All calls
go by path, as in the code, so each sees whatever is at the path then. `Lossy`
is `to_string_lossy`, which may map two names to one. `CallFails` is any call
that fails with `?`; xattr calls that fail do not end the build. A symbolic link
that takes the place of a directory between `lstat` and `read_dir`, which the
latter would follow, is taken as a failing `read_dir`. The refinement maps the
inode list to the set of files that have an inode.

`SourceAssumption` says what a file system guarantees of `source`: finitely many
files and names, at most one entry for a directory, none for the root. It excludes
hard-linked directories and bind mounts of one directory in two places of the
source, on which the builder need not end.

### MkfsRun

A file is a sequence of cells of half a block that remember the run that wrote
them. `Start` begins a run, `bufw` is the contents of the `BufWriter` with its
rule for slices that are at least as large as the buffer, `Exit` is the drop of
the writer at the end of `main`, which swallows an error. Every write may stop at
any cell; `Kill` is a signal at any point. The daemon opens and maps the files at
any time.

### FileRead

A byte is its device and address, so that a read of the wrong place is seen
whatever is stored there. `Home` is the definition of the format, stated apart
from the code: where byte `b` of a file is. Requests follow one another on the
same mappings.

### FuseOps

`known` is what the kernel has been told, for ever, since all timeouts are ten
years. A call gives the number that the kernel has and the handlers see nothing
else; `last` records which file they took it for. `sizes` is what callers were
told by `getxattr` and `listxattr` with size 0.

## Runs, bounds and what they show

| Run | Instance | Shows |
|---|---|---|
| `layout` | 1-4 inodes; slots of 2, blocks of 8, four metadata sizes, directories of 1 or 2 blocks | no panic; the refinement of `ExtentAllocator`; the reader finds everything |
| `blob` | 2 files, 1 rewrite, chunks of two 2-cell blocks | refinement of `FileStore` with its liveness; dedup accounting; no duplicate |
| `dirs` | all 128 subsets of 7 names, 9 lookups or a listing | exact listing and lookup, termination without the assertion failing |
| `inodes` | 4144 inodes: 5 kinds and a hole, both sides of the limits of uid, gid, nlink, size; 7 xattr lists up to the largest that the count can hold and beyond, and beyond the length of a value; times of the build and before | all attributes, xattrs and tails come back, apart from exactly the losses listed below |
| `server` | 2 clients, 2 workers, 3 directories (one unreadable), 2 opens, 2 failures | streams, handles, listings; both liveness properties |
| `tree` | 231 sources: every tree of 4 files under 3 names, kinds and links of 3 of them free, one name lossy; six more that turn into one another, 2 changes; 1 failing call; all three kinds of argument | an undisturbed source is copied exactly; a changing one gives a tree; parents; refinement of `SourceWalk` with its liveness; termination |
| `mkfs_run` | 3 runs of three shapes, one of which stays in the write buffer, 2 failures or kills, a daemon | what the files can be at any point |
| `file_read` | flat and inline files of 0 to 5 cells in blocks of 2, chunked files of 3 chunks, 15 pairs of mapping lengths, every range | exact reads, errors only for what is cut |
| `fuse_ops` | a tree of 4 files with a hard link, 4 placements of the NIDs, buffers to 6 bytes | numbers, replies, sizes |

Why these bounds: `tree` has files with two links inside, links
inside and outside, directories at three depths and empty ones. Two changes let
a file with two links become a directory and a link to it appear where it closes
a cycle, if the map were filled earlier (its mutant does). Three runs of mkfs
give a failed one between two others. A file of two blocks and a half has ranges
on both sides of, across and up to the boundary of the tail. The root's NID is
0 in two of the placements, as mkfs has it, and behind others in two.

Four inodes suffice in `layout` for two directories between two other inodes,
and for inode areas that end at, before and behind a block boundary. The blob
instance has equal chunks within a file and across files, equal bytes with and
without padding, empty files, and reads of every alignment. Two workers and two
clients give every race on the table; two failures let the pool die; two opens
let one client reopen, or both hold a stream. `CHECK_DEADLOCK FALSE` is stated
where the programs end.

### Disagreements

Three runs each exhibit one; they are listed under `findings`.

* `mtime`: a compact inode of a file older than the build reads back 2^32
  seconds late: the writer subtracts modulo 2^32, the reader adds without.
* `dir_order`: `.` and `..` precede names such as `-x`, so a block is not in
  strict order, which the kernel driver's bisection assumes.
* `tree_parents`: a file replaced by a directory between the two `lstat`s of the
  builder becomes a directory whose `..` is the root.

Further losses are known, and passing properties say exactly when they happen and
that nothing else is lost:

* `AttributesPreserved`: the time of an old compact inode is late by exactly 2^32.
* `DataFound`: a hole's index, all ones, decodes to 2^48 - 1, which the reader
  (`fs/data.rs:138`) compares with 2^64 - 1 and so does not take for a hole. No
  image of this mkfs has a hole. Chunk indexes are found also where they follow
  xattrs of an odd number of words, on a 4-byte boundary; the document
  (`docs/erofs-technical-internals.md:337`) says 8.
* `XattrsPreserved`: the xattrs come back if and only if each value is shorter than
  65536 bytes, which Linux allows as a length, and all of them have at most 65535
  words: both numbers are cut to 16 bits.
* `TreeCopied`: names are sorted as bytes and stored as lossy text, so stored names
  may be equal or out of order; a symbolic link to a directory passes the
  argument check and becomes the root of the image itself; an xattr whose call
  fails is empty or missing, in that inode only.
* `ExitZeroComplete`: the write buffer is never flushed explicitly. Metadata of two
  blocks or more, which any directory gives, bypasses it; the one block of a
  link as root does not, and a failing write of it goes unnoticed.
* `OpenedAnImage`: what a daemon has mapped as "never modified" stays until a later
  run of mkfs truncates it.

Statements of the README about `pread` and `spawn_blocking` describe code that is
no longer there (`data.rs` reads the mapping); they are not properties.

## Fairness

`BlobStore` assumes weak fairness of the read loop, and `DirBlocks` of its only
thread, `TreeBuild` of the builder: none of them waits for anything (a changing
source only takes finitely many steps, by the bound on changes; a tree that
others extend for ever ahead of the builder would keep it going for ever).
`SourceWalk` states that a walk that nobody disturbs does not stop early; once
somebody does, it promises nothing. `FuseServer` assumes it for each worker's
progress and for the main thread after a signal, that is, that the operating
system runs runnable threads and delivers a queued request to a waiting worker.
No fairness is assumed of clients, signals or failures. Accordingly
`AnsweredWhileAWorkerLives` has the escape that all workers are gone, which is
what the code allows.

## Proofs

`MetadataLayoutProofs` proves, for every block, slot and inode size that
satisfies `LayoutAssumption` and for lists of any length:

* `TypeCorrect`: `Spec => []TypeOK`
* `NeverPanics`: `Spec => []NoPanic`
* `ReaderFindsEverything`: `Spec => []ReaderFindsWhatWasWritten`
* `LayoutImplementsAllocator`: `Spec => ImplementsAllocator`

`TypeOK` is not inductive for panics or addresses. `IInv` adds that the buffer is
as long as the cursor, that the inodes lie in increasing order without overlap at
multiples of the slot size, each named by its NID, that everything allocated
ends at or before the cursor, that directory data lies behind the inode area on
block boundaries, and that a list of several inodes has directory data at all,
which keeps the 64-byte window of its last inode inside the image. There is one lemma per action; the lemmas at the head of the
module give what rounding does. The assumptions are those of the module: sizes
are positive, a block is a multiple of a slot, an inode window fits in a block,
directory data is whole blocks (`serialize_directory` returns whole blocks).
TLC evaluates them in `layout`.

`FuseServerProofs` proves, for any sets of clients, workers and directories, with
any listings, `TypeOK` (`ServerTypeCorrect`), `StreamHasHandle`
(`StreamsKeepTheirHandle`), `HandleHasOneOwner` (`HandlesHaveOneOwner`) and
`ListingExact` (`ListingsExact`). None is inductive. `IInv` adds: the queue has
each client at most once, and only clients that wait and that no worker serves; two
workers never serve the same client; a worker past the lookup of a handle has
the directory of its client; all handles in the table, in flight, held by a
client or lost are below the counter and, where the code relies on it, pairwise
different; a reply about to be sent continues what the client has seen. There is
a lemma for each kind of step that says what it leaves alone, and one for each
part of the invariant.

The second part of `FuseServerProofs` is about `FuseOps`: `OpsTypeOK`
(`OpsTypeCorrect`), `InoNamesOneFile` (`InosNameOneFile`), `RepliesAboutAskedFile`
(`RepliesAreRight`) and `SizeIsEnough` (`SizesAreEnough`), for every image in which
NIDs tell files apart and NID 0 is the root's if it is anyone's (`OpsAssumption`). The
invariant `OpsInv` is that every number the kernel knows is the one that `to_ino`
gives to the NID of its file, from which `to_nid` leads back. `Sized` adds for the
sizes that every length told is that of the value or the list, and that only a
smaller buffer was refused.

`MkfsRunProofs` proves all five invariants of `mkfs_run` (`RunTypeCorrect`,
`FilesNeverMix`, `BlobComesFirst`, `OkMeansComplete`, `OnlyImagesAreOpened`) for runs
of any shapes in any number, any capacity of the write buffer and any number of
failures. `IInv` adds where a run is: before it creates the image, nothing is in its
buffer and the image is an earlier run's; from then on the file, the buffer and
the slice in hand are, one after the other, what the run writes, and the blob
is complete. That is what makes a drop of the writer after an error harmless: it
continues the file where the failing write stopped.

`BlobStoreProofs` proves of `BlobStore`, for any number of files with any contents
rewritten at any time, any block size and any multiple of it as chunk size,
`TypeOK` (`BlobTypeCorrect`), `NoDuplicateChunk` (`NothingStoredTwice`) and the safety
part of the refinement (`BlobImplementsFileStore`: `Store!Init` and
`[][Store!Next]_Store!vars`; the fairness of `Store!Spec` is left to the run). `IInv`
says that every content in the dedup table is in the blob at its address, that
every index is the address of a content as long as its chunk, that the next
address is the end of the blob unless the build failed, that files behind the
builder are complete and those ahead have no index, and that a read has collected
the cells of its file so far. What a file resolves to is an operator of its size,
its indexes and the blob (`ResolvedOf`); two lemmas carry the argument: appending to
the blob leaves it alone (`ResolvedStays`), pushing the address of the next chunk
appends exactly that chunk (`ResolvedGrows`). Of the read loop, `PieceFacts` shows
that an index exists as long as anything remains, and that the piece lies in the
blob; so only a cut mapping makes a read fail.

`SavingsAreExact` proves `DedupAccounting` in the same module. `Accounted`, its
invariant, says that unless the build failed what was saved and what the blob holds are
together the padded lengths of all chunks referred to so far; the sums are recursive
functions, and lemmas by induction say how they grow by one chunk or one file.

`FileReadProofs` proves, for any block, chunk and index sizes, any files that satisfy
`FileOK` and any lengths of the mappings, `TypeOK` (`ReadTypeCorrect`), `ReadExact`
(`ReadsAreExact`) and `FailsOnlyWhenCut` (`OnlyCutsFail`). `IInv` says how far each path
is: a flat read and the reading of the chunk table have put out nothing yet, the
chunk loop has put out the bytes of the range up to its position, each that of its
`Home`, and how long the output is on each path; a call that has succeeded has them
all; an error needed a byte of the range, or of the table, behind the end of a
mapping. `FlatHome` and `ChunkConsecutive` say where the divisions of the code land.

`DirBlocksProofs` proves, for any sizes of blocks and dirents and any list of children
whose names fit in a block, `TypeOK` (`DirTypeCorrect`), `ListingExact`
(`ListingsAreExact`), that the assertion and the slices of `serialize_directory`
never panic (`BuilderNeverPanics`), that a lookup returns the first entry of its
name (`LookupsFindTheFirst`) and, if the names of each directory are distinct,
`LookupExact` (`LookupsAreExact`). The hypothesis is needed because `to_string_lossy`
can make two names equal; every directory whose names are UTF-8 satisfies it, as
every one in `dirs` does. `IInv` says what the packing loop has counted
(a sum over the entries of the block), that each finished block `Holds` its entries,
dirents first and names behind them without a gap, and that the reader has
gone through all entries before the one it is at. The reader, which gets the
ends of names from the next dirent or from the zeros behind the last name, is
shown to read those entries back.

`InodeFormatProofs` proves, for any widths of the integers and every inode that
satisfies `InodeOK`, `TypeOK` (`InodeTypeCorrect`: no slice of `serialize_inode` is out
of the buffer that `inode_meta_size` sized), `XattrsPreserved` (`XattrsArePreserved`),
`DataFound` (`DataIsFound`) and, for a `Representable` inode, `AttributesPreserved`
(`AttributesArePreserved`). Representable means that an inode that stays compact has
less than 2^32 bytes of directory data and a time not 2^32 seconds from the
build, and that a block address has 48 bits: beyond these the code loses values
that no choice of header covers. In `IInv`, `Writing` says that the entries written
so far are at the sums of the sizes before them and later that the tail is behind
them; `Reading` that the reader stays within what it takes the xattrs for, that it
agrees with the writer as long as everything fits, and that whatever it has agreed
upon did fit, which gives the other direction of `XattrsPreserved`.

`TreeBuildProofs` proves, for any source and any changes of it, `TypeOK`
(`TreeTypeCorrect`), `ParentHoldsChild` (`ParentsHoldTheirChildren`) and `FormsATree`
(`BuildsATree`). `IInv` adds: the active calls are nested, each on a directory that
has its inode already, while its entries are still with the call; every entry, stored
or not, leads to an inode that is complete and not the root; no two directories have a
directory entry for the same inode; every complete inode but the root has an entry; in
every set of complete inodes there is one that no entry of the set leads to, the one
completed last; the hard link map leads to complete inodes, other than the root.
Nothing that a system call returns matters to that argument, so a source that
changes at any time changes nothing about it, and these three theorems do not use
`SourceAssumption`.

For a source that nobody changes it proves, from `SourceAssumption`, `TreeCopied`
(`TreeIsCopied`) and the safety part of the refinement of `SourceWalk`
(`BuilderWalksTheSource`: the initial states are initial states of the walk, every
step is a step of it or a stutter). Their inductive invariant is `IInv` with `CopyInv`
and `LinkAlone`. `CopyInv` says what has been read: the path of every active call leads
to the file of its inode; the entries that the call has made are those for the first
names of the directory, in order, and its loop holds the others; the next active call
is for the file of the next name; every inode is that of a file, no two of the same;
every complete directory has all its entries; the hard link map knows every complete
inode that may be linked, under its file; and no more inodes lack an xattr than calls
have failed. The hard part is that a file about to get an inode has none yet
(`NotYetCopied`). If it had one, an entry would lead to that inode already, so the file
would have two names. Two names exclude a directory, and make the link count at least
two, so the file would be in the hard link map and the loop would not have called for
it. `LinkAlone` is the case of an argument that is a symbolic link.

Induction over numbers is by the well-foundedness of `<` on `Nat`
(`NatLessThanWellFounded`, `WFMin`), for sets in place of the predicates that the
library's induction theorems take.

Model-checked only: liveness and ENABLED, which are out of the prover's reach,
and so `ImplementsFileStore` and `WalksSource` as wholes: their safety parts are
proved, and that the fairness of the code implies theirs is left to TLC. Every
invariant that a passing run checks is a theorem, under the hypotheses named above.

## Not modelled

* `statfs`, `access`, `init`, `fsync`, and the calls that a read-only file system
  refuses: they return constants or fields of the superblock and change nothing.
* Feature flags, UUID and epoch in the superblock, byte order, alignment of casts:
  no code of this repository depends on their values.
* Prefixes of xattr names beyond their index: the table is injective.
* An output file inside the source tree, which is read while it is written.
* The kernel, `fuse-backend-rs`, BLAKE3, the `BufWriter` of the standard library:
  external, modelled by how they are used.
* The integration tests and scripts: they exercise the tools.

## Plan

1. `MetadataLayout` with its proofs; `BlobStore`, `DirBlocks`, `InodeFormat`,
   `FuseServer` with their runs. *Done.*
2. `TreeBuild` with `SourceWalk`; `MkfsRun`; `FileRead`; `FuseOps`. *Done.*
3. Proofs: handles, streams and listings of `FuseServer`; inode numbers of
   `FuseOps`; the output files of `MkfsRun`; the safety part of `BlobStore`'s
   refinement. *Done.*
4. Proofs: reads of `FileRead`, directories of `DirBlocks`, inodes of `InodeFormat`,
   the tree of `TreeBuild`, sizes of `FuseOps`, accounting of `BlobStore`. *Done.*
5. Proofs: copies of `TreeBuild` and the safety part of its refinement. *Done.*

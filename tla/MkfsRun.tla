------------------------------ MODULE MkfsRun ------------------------------
(***************************************************************************)
(* Runs of erofs-mkfs over the same two output files, one after the other,    *)
(* each of which may fail or be killed at any point, and a daemon that opens   *)
(* and maps the files meanwhile.  A file is a sequence of cells, half a block  *)
(* each; a cell remembers the run that wrote it and its place.  The first cell *)
(* of an image holds the whole superblock.  MetadataLayout, BlobStore and      *)
(* TreeBuild say what the cells contain.                                     *)
(***************************************************************************)
EXTENDS Integers, Sequences, SequencesExt

CONSTANTS
  Cap,        (* capacity of BufWriter in cells: 8 KiB, two blocks           *)
  Shapes,     (* [blob, meta, inos]: what phase 1 and 2 of a run come to      *)
  ArgsValid,  (* whether the arguments pass the checks of main               *)
  MaxRuns,    (* bound on the runs                                          *)
  MaxFaults   (* bound on failing calls and kills                           *)

CellsPerBlock == 2

ASSUME RunAssumption ==
  /\ Cap \in Nat \ {0} /\ MaxRuns \in Nat \ {0} /\ MaxFaults \in Nat
  /\ \A s \in Shapes : s.blob \in Nat /\ s.meta \in Nat \ {0}
  /\ ArgsValid \subseteq BOOLEAN

VARIABLES
  blob, blobOwner,   (* the blob file, and the run that truncated it last     *)
  image, imageOwner,
  run, shapes,       (* the current or last run; what the runs come to       *)
  pc,                (* where it is; "exit": dropping the writer            *)
  bufw,              (* what is in BufWriter                                *)
  slice,             (* the argument of the write_all in progress            *)
  code,              (* the exit code, or "killed"; "none" while it runs     *)
  faults,
  reader             (* the daemon: what it has opened and found             *)

files == <<blob, blobOwner, image, imageOwner>>
mkfs == <<run, shapes, pc, bufw, slice, code>>
vars == <<files, mkfs, faults, reader>>

-----------------------------------------------------------------------------
(* What a run writes.                                                      *)

Cells(kind, r, first, n) ==
  [i \in 1 .. n |-> [kind |-> kind, run |-> r, at |-> first + i]]

(* Block 0: ErofsSuperblock::new and the device slot.                        *)
Superblock(r) ==
  [kind |-> "super", run |-> r, at |-> 1, inos |-> shapes[r].inos,
   blocks |-> 1 + shapes[r].meta,
   blobBlocks |-> shapes[r].blob \div CellsPerBlock]
Block0(r) == <<Superblock(r)>> \o Cells("zero", r, 1, CellsPerBlock - 1)
Metadata(r) == Cells("meta", r, CellsPerBlock, shapes[r].meta * CellsPerBlock)

WholeBlob(r) == Cells("chunk", r, 0, shapes[r].blob)
WholeImage(r) == Block0(r) \o Metadata(r)

Fault == faults < MaxFaults /\ faults' = faults + 1
NoFault == UNCHANGED faults

Goto(next) == pc' = next /\ UNCHANGED <<run, shapes, code>>

(* Faulty variant, for mutation: an error of the build is passed over.        *)
CarryOn ==
  IF pc = "build" THEN Goto("create_image")
  ELSE pc' = "exit" /\ code' = "error" /\ UNCHANGED <<run, shapes>>

(* An error: main returns Err and drops what it holds.                       *)
GiveUp == pc' = "exit" /\ code' = "error" /\ UNCHANGED <<run, shapes>>

-----------------------------------------------------------------------------
(* main.                                                                   *)

Start ==
  /\ pc = "idle" /\ run < MaxRuns
  /\ run' = run + 1 /\ \E s \in Shapes : shapes' = Append(shapes, s)
  /\ pc' = "args" /\ code' = "none"
  /\ bufw' = << >> /\ slice' = << >>
  /\ NoFault /\ UNCHANGED <<files, reader>>

(* The checks of the chunk size and of the source.                          *)
CheckArgs ==
  /\ pc = "args"
  /\ \E valid \in ArgsValid : IF valid THEN Goto("create_blob") ELSE GiveUp
  /\ NoFault /\ UNCHANGED <<bufw, slice, files, reader>>

(* BlobWriter::new: File::create truncates.                                  *)
CreateBlob ==
  /\ pc = "create_blob"
  /\ \/ /\ blob' = << >> /\ blobOwner' = run
        /\ Goto("build") /\ NoFault
     \/ GiveUp /\ Fault /\ UNCHANGED <<blob, blobOwner>>
  /\ UNCHANGED <<bufw, slice, image, imageOwner, reader>>

(* build_tree writes the chunks in place; it may stop after any of them with  *)
(* an error of the source or of the blob.                                    *)
BuildTree ==
  /\ pc = "build"
  /\ \/ /\ Len(blob) < shapes[run].blob
        /\ blob' = Append(blob, WholeBlob(run)[Len(blob) + 1])
        /\ NoFault /\ UNCHANGED <<pc, code, run, shapes>>
     \/ /\ Len(blob) = shapes[run].blob
        /\ Goto("create_image") /\ NoFault /\ UNCHANGED blob
     \/ GiveUp /\ Fault /\ UNCHANGED blob
  /\ UNCHANGED <<bufw, slice, blobOwner, image, imageOwner, reader>>

(* Phase 2 touches memory only; then File::create of the image.              *)

(* Faulty variant, for mutation: the image is opened without O_TRUNC.         *)
OpenImage ==
  /\ pc = "create_image"
  /\ \/ /\ imageOwner' = run /\ image' = image
        /\ slice' = Block0(run) /\ Goto("block0") /\ NoFault
     \/ GiveUp /\ Fault /\ UNCHANGED <<slice, image, imageOwner>>
  /\ UNCHANGED <<bufw, blob, blobOwner, reader>>

CreateImage ==
  /\ pc = "create_image"
  /\ \/ /\ image' = << >> /\ imageOwner' = run
        /\ slice' = Block0(run) /\ Goto("block0") /\ NoFault
     \/ GiveUp /\ Fault /\ UNCHANGED <<slice, image, imageOwner>>
  /\ UNCHANGED <<bufw, blob, blobOwner, reader>>

-----------------------------------------------------------------------------
(* write_image into a BufWriter, one call after the other.  The metadata is   *)
(* whole blocks (MetadataLayout), so there is nothing to pad.                 *)

Writing == pc \in {"block0", "meta"}
Spare == Cap - Len(bufw)

(* Faulty variant, for mutation: nothing follows block 0.                     *)
NothingFollows ==
  /\ slice' = << >> /\ pc' = "exit" /\ code' = "ok"
  /\ UNCHANGED <<run, shapes>>

(* The call is complete: the next one, or the end of main.                   *)
WriteDone ==
  IF pc = "block0" THEN slice' = Metadata(run) /\ Goto("meta")
  ELSE /\ slice' = << >> /\ pc' = "exit" /\ code' = "ok"
       /\ UNCHANGED <<run, shapes>>

(* write_all: a slice that does not fit flushes what is there first.          *)
Fits == Len(slice) <= Spare

WriteBuffered ==
  /\ Writing /\ Fits /\ Len(slice) < Cap
  /\ bufw' = bufw \o slice /\ WriteDone
  /\ NoFault /\ UNCHANGED <<files, reader>>

(* The file takes a prefix of the data and then fails, or takes it all.       *)
FlushBuffer ==
  /\ Writing /\ ~ Fits /\ bufw # << >>
  /\ \/ /\ image' = image \o bufw /\ bufw' = << >>
        /\ NoFault /\ UNCHANGED <<pc, run, shapes, code, slice>>
     \/ \E n \in 0 .. Len(bufw) - 1 :
          /\ image' = image \o SubSeq(bufw, 1, n)
          /\ bufw' = SubSeq(bufw, n + 1, Len(bufw))
          /\ GiveUp /\ Fault /\ UNCHANGED slice
  /\ UNCHANGED <<blob, blobOwner, imageOwner, reader>>

(* A slice as large as the buffer goes to the file directly.                  *)
WriteDirect ==
  /\ Writing /\ Len(slice) >= Cap /\ (Fits \/ bufw = << >>)
  /\ \/ image' = image \o slice /\ WriteDone /\ NoFault
     \/ \E n \in 0 .. Len(slice) - 1 :
          /\ image' = image \o SubSeq(slice, 1, n)
          /\ GiveUp /\ Fault /\ UNCHANGED slice
  /\ UNCHANGED <<bufw, blob, blobOwner, imageOwner, reader>>

(* The end of main drops the writer, which writes what is left in it and      *)
(* ignores an error.                                                        *)
Exit ==
  /\ pc = "exit" /\ pc' = "idle"
  /\ \E n \in 0 .. Len(bufw) :
       /\ image' = image \o SubSeq(bufw, 1, n)
       /\ IF n = Len(bufw) THEN NoFault ELSE Fault
  /\ bufw' = << >>
  /\ UNCHANGED <<run, shapes, slice, code, blob, blobOwner, imageOwner, reader>>

(* A signal ends the process; what BufWriter holds is lost.                  *)
Kill ==
  /\ pc # "idle" /\ Fault
  /\ pc' = "idle" /\ code' = "killed"
  /\ UNCHANGED <<run, shapes, bufw, slice, files, reader>>

-----------------------------------------------------------------------------
(* ErofsReader::open and a read through the mapping.                         *)

(* Faulty variants, for mutation: the magic is not looked at; the length is   *)
(* not looked at.                                                           *)
LongEnough(file) == file # << >>
AnyFile(file) == TRUE

(* superblock_from and the magic                                           *)
HasSuperblock(file) == file # << >> /\ file[1].kind = "super"

Closed == [state |-> "closed", image |-> "none", len |-> 0, run |-> 0,
           blobRun |-> 0]

(* The image argument may be either file.                                   *)
OpenAndMap ==
  /\ reader.state = "closed"
  /\ \E arg \in {"image", "blob"} :
       LET file == IF arg = "image" THEN image ELSE blob
       IN reader' =
            IF HasSuperblock(file)
              THEN [state |-> "mapped", image |-> arg, len |-> Len(file),
                    run |-> imageOwner, blobRun |-> 0]
              ELSE [Closed EXCEPT !.state = "refused"]
  /\ NoFault /\ UNCHANGED <<files, mkfs>>

MapBlob ==
  /\ reader.state = "mapped"
  /\ reader' = [reader EXCEPT !.state = "mounted", !.blobRun = blobOwner]
  /\ NoFault /\ UNCHANGED <<files, mkfs>>

(* A page behind the end of a file that was cut after it was mapped is not    *)
(* there: the process gets SIGBUS.                                           *)
ReadImage ==
  /\ reader.state = "mounted"
  /\ \E at \in 1 .. reader.len :
       /\ (at - 1) \div CellsPerBlock > (Len(image) - 1) \div CellsPerBlock
       /\ reader' = [reader EXCEPT !.state = "killed"]
  /\ NoFault /\ UNCHANGED <<files, mkfs>>

Reopen ==
  /\ reader.state \in {"refused", "mounted", "killed"}
  /\ reader' = Closed
  /\ NoFault /\ UNCHANGED <<files, mkfs>>

Init ==
  /\ blob = << >> /\ blobOwner = 0 /\ image = << >> /\ imageOwner = 0
  /\ run = 0 /\ shapes = << >> /\ pc = "idle"
  /\ bufw = << >> /\ slice = << >> /\ code = "none"
  /\ faults = 0
  /\ reader = Closed

Mkfs == \/ CheckArgs \/ CreateBlob \/ BuildTree \/ CreateImage \/ WriteBuffered
        \/ FlushBuffer \/ WriteDirect \/ Exit
Daemon == OpenAndMap \/ MapBlob \/ ReadImage \/ Reopen

Next == Start \/ Mkfs \/ Kill \/ Daemon

Spec == Init /\ [][Next]_vars

-----------------------------------------------------------------------------
(* Properties.                                                             *)

(* The variables have the types that the code gives them, and a mapping was   *)
(* made of a file that has something to map.                                 *)
TypeOK ==
  /\ run \in 0 .. MaxRuns /\ shapes \in Seq(Shapes) /\ Len(shapes) = run
  /\ blobOwner \in 0 .. run /\ imageOwner \in 0 .. run
  /\ pc \in {"idle", "args", "create_blob", "build", "create_image", "block0",
            "meta", "exit"}
  /\ code \in {"none", "ok", "error", "killed"}
  /\ faults \in 0 .. MaxFaults
  /\ Len(bufw) <= Cap
  /\ reader.state \in {"closed", "refused", "mapped", "mounted", "killed"}
  /\ reader.run \in 0 .. MaxRuns /\ reader.blobRun \in 0 .. MaxRuns
  /\ reader.state \in {"mapped", "mounted"} => reader.len > 0

(* Wherever a run fails or is killed, the image never gets ahead of the blob:  *)
(* an image of which anything is written belongs to the run of the blob, which *)
(* is complete then, or to an earlier run.  Since open maps the image first,    *)
(* nor does a daemon hold an image that is newer than the blob it holds.        *)
ImageAfterBlob ==
  /\ imageOwner <= blobOwner
  /\ image # << >> /\ imageOwner = blobOwner => blob = WholeBlob(blobOwner)
  /\ reader.state = "mounted" => reader.run <= reader.blobRun

(* Neither file ever mixes two runs, or has a gap: each is a prefix of what    *)
(* its last run writes, also when the writer is dropped after an error.        *)
OneRunPerFile ==
  /\ IF imageOwner = 0 THEN image = << >> ELSE IsPrefix(image, WholeImage(imageOwner))
  /\ IF blobOwner = 0 THEN blob = << >> ELSE IsPrefix(blob, WholeBlob(blobOwner))

(* build/image.rs:7: "Write the complete EROFS image file."  mkfs that ends     *)
(* with exit code 0 has left the blob complete, and the image too unless all   *)
(* the metadata was still in BufWriter, whose last write nobody looks at.       *)
ExitZeroComplete ==
  pc = "idle" /\ code = "ok" =>
    /\ blobOwner = run /\ blob = WholeBlob(run)
    /\ imageOwner = run
    /\ shapes[run].meta * CellsPerBlock >= Cap => image = WholeImage(run)

(* ErofsReader::open lets nothing through but an image whose superblock was    *)
(* written as a whole, whatever argument it is given and whatever state a run  *)
(* has left the file in.  What it maps stays there, as fs/mod.rs:42 says ("file  *)
(* opened read-only, never modified"), until a later run truncates the image.   *)
OpenedAnImage ==
  reader.state \in {"mapped", "mounted"} /\ reader.run = imageOwner =>
    /\ reader.image = "image"
    /\ reader.len <= Len(image)
    /\ image[1] = Superblock(reader.run)
=============================================================================

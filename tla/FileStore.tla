----------------------------- MODULE FileStore -----------------------------
(***************************************************************************)
(* What erofs-mkfs and erofs-fuse together promise about the contents of    *)
(* regular files.  While the image is built, the bytes of the source files, *)
(* which may change under the builder, are captured piece by piece; a piece *)
(* captured never changes.  Once sealed, a read returns exactly the captured *)
(* bytes of its range, or an error when the blob device that is mounted is  *)
(* not the whole one.                                                      *)
(***************************************************************************)
EXTENDS Naturals, Sequences

CONSTANTS
  Files,     (* the regular files of the source tree                       *)
  Contents,  (* the contents a source file may have, sequences of cells    *)
  Ranges     (* the reads asked for, records [off, size]                   *)

VARIABLES
  source,    (* the contents of the source files now                       *)
  stored,    (* what has been captured of each file                        *)
  stage,     (* "building", "failed", "whole" or "damaged"                 *)
  call       (* the read in progress, or the last one and its result       *)

vars == <<source, stored, stage, call>>

NoCall == [st |-> "idle"]

(* The range [off, off + size) of a sequence, cut at its end. *)
Slice(s, off, size) ==
  SubSeq(s, off + 1, IF off + size < Len(s) THEN off + size ELSE Len(s))

Init ==
  /\ source \in [Files -> Contents]
  /\ stored = [f \in Files |-> << >>]
  /\ stage = "building"
  /\ call = NoCall

(* A program other than the builder rewrites a source file. *)
Change ==
  /\ \E f \in Files, c \in Contents : source' = [source EXCEPT ![f] = c]
  /\ UNCHANGED <<stored, stage, call>>

(* The next piece of a file is captured as it is at this moment. *)
Capture ==
  /\ stage = "building"
  /\ \E f \in Files : \E n \in 1 .. Len(source[f]) - Len(stored[f]) :
       stored' = [stored EXCEPT ![f] =
                    @ \o SubSeq(source[f], Len(@) + 1, Len(@) + n)]
  /\ UNCHANGED <<source, stage, call>>

Abandon ==
  /\ stage = "building"
  /\ stage' = "failed"
  /\ UNCHANGED <<source, stored, call>>

Mount ==
  /\ stage = "building"
  /\ stage' \in {"whole", "damaged"}
  /\ UNCHANGED <<source, stored, call>>

Call ==
  /\ stage \in {"whole", "damaged"}
  /\ call.st # "busy"
  /\ \E f \in Files, r \in Ranges :
       call' = [st |-> "busy", file |-> f, off |-> r.off, size |-> r.size,
                out |-> << >>]
  /\ UNCHANGED <<source, stored, stage>>

Return ==
  /\ call.st = "busy"
  /\ \/ call' = [call EXCEPT
          !.st = "ok", !.out = Slice(stored[call.file], call.off, call.size)]
     \/ /\ stage = "damaged"
        /\ call' = [call EXCEPT !.st = "error"]
  /\ UNCHANGED <<source, stored, stage>>

Next == Change \/ Capture \/ Abandon \/ Mount \/ Call \/ Return

Spec == Init /\ [][Next]_vars /\ WF_vars(Return)

=============================================================================

----------------------------- MODULE SourceWalk -----------------------------
(***************************************************************************)
(* What the tree builder promises of a source: as long as nobody interferes, *)
(* every file that can be reached gets an inode, one only, and after an       *)
(* inode of a directory that holds it.                                      *)
(***************************************************************************)
CONSTANTS Files, Root

VARIABLES
  holds,    (* the source: for each file, the files it holds as a directory *)
  copied,   (* the files that have an inode                                *)
  calm      (* the source has not changed and no call has failed            *)

vars == <<holds, copied, calm>>

Init ==
  /\ holds \in [Files -> SUBSET Files]
  /\ copied = {}
  /\ calm \in BOOLEAN

CopyRoot == copied = {} /\ copied' = {Root}

CopyHeld ==
  \E d \in copied : \E f \in holds[d] \ copied : copied' = copied \cup {f}

Walk == calm /\ (CopyRoot \/ CopyHeld) /\ UNCHANGED <<holds, calm>>

(* After an interference nothing is promised.                               *)
Interfere == ~ calm'

(* The walk does not stop before everything that can be reached is copied.  *)
Spec == Init /\ [][Walk \/ Interfere]_vars /\ WF_vars(Walk)
=============================================================================

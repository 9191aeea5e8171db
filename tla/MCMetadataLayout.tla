-------------------------- MODULE MCMetadataLayout --------------------------
(***************************************************************************)
(* Instance of MetadataLayout for TLC.  One unit is 16 bytes: a slot is 2   *)
(* units (32 bytes), an extended inode 4 (64 bytes), and a block is shrunk  *)
(* to 8 units so that a few inodes fill it exactly.                         *)
(***************************************************************************)
EXTENDS MetadataLayout

=============================================================================

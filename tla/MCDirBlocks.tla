---------------------------- MODULE MCDirBlocks ----------------------------
(***************************************************************************)
(* Instance of DirBlocks for TLC.  Cells 1, 2, 3, 4 stand for '-', '.', 'a' *)
(* and 'b', in the order of their character codes.  With dirents of 3 cells *)
(* and blocks of 14, "." and ".." leave 5 cells: a name of 2 fills the      *)
(* first block exactly, and a name of 11 fills a block alone.               *)
(***************************************************************************)
EXTENDS DirBlocks

Long == <<4, 4, 4, 4, 4, 4, 4, 4, 4, 4, 4>>

Names == { <<1>>, <<2, 1>>, <<3>>, <<3, 3>>, <<3, 3, 4, 4>>, <<4, 3, 3>>, Long }

(* sort_by_key(file_name), then the type and the NID of each child *)
Children(s) ==
  LET sorted == SetToSortSeq(s, Less)
  IN [i \in 1 .. Len(sorted) |->
        [nid |-> 10 * i, name |-> sorted[i], ft |-> 1 + (i % 2)]]

MCChildLists == { Children(s) : s \in SUBSET Names }

MCTargets == Names \cup { <<3, 3, 4>>, <<2, 2>> }

=============================================================================

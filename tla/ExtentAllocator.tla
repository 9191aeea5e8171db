-------------------------- MODULE ExtentAllocator --------------------------
(***************************************************************************)
(* What an append-only allocator of a byte area promises: it hands out one  *)
(* extent at a time, an extent once handed out is never moved, resized or   *)
(* taken back, and no two extents share a byte.                             *)
(***************************************************************************)
EXTENDS Naturals

VARIABLE extents   (* a set of records [owner, lo, len] *)

Disjoint(e, f) == e.lo + e.len <= f.lo \/ f.lo + f.len <= e.lo

Init == extents = {}

Reserve ==
  \E e \in extents' :
    /\ e \notin extents
    /\ extents' = extents \cup {e}
    /\ \A f \in extents : Disjoint(e, f) /\ f.owner # e.owner

Spec == Init /\ [][Reserve]_extents

(* No two extents overlap. *)
NoOverlap == \A e, f \in extents : e # f => Disjoint(e, f)

=============================================================================

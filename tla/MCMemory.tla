----------------------------- MODULE MCMemory ------------------------------
(***************************************************************************)
(* Memory with 7 pages of 4 bytes.  The maps have up to two entries, which *)
(* touch, overlap, start or end inside a page, are empty, are not usable   *)
(* or reach beyond the bitmap.                                             *)
(***************************************************************************)
EXTENDS Memory

SmallEntries == [addr : {0, 6, 8, 16}, len : {0, 9, 12, 24}, type : {1, 2}]

SmallMaps == {<<e>> : e \in SmallEntries}
             \cup {<<e, f>> : e \in SmallEntries, f \in SmallEntries}

=============================================================================

--------------------------- MODULE MCStructTable ---------------------------
(* Up to five members in one or two structs, in declarations of up to      *)
(* three names: the merge inserts in front, between and behind, and meets  *)
(* names that are there already.                                           *)
EXTENDS StructTable

MCIDLists == UNION {[1 .. n -> Names] : n \in 1 .. 3}
=============================================================================

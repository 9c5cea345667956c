------------------------------ MODULE MCTiling ------------------------------
(* Two work groups of 2 x 2 items and two tiles: every item is loaded from  *)
(* and overtaken by a neighbour, and groups interleave.                     *)
EXTENDS Tiling
=============================================================================

------------------------------ MODULE MCTiling2 ------------------------------
(* Two groups of 2 x 2 items and two tiles, with A as wide as B: only then  *)
(* is the kernel's output the product.                                      *)
EXTENDS Tiling2
=============================================================================

----------------------------- MODULE MCCacheSim -----------------------------
(* Two ways, two sets of 16-byte blocks: strides of half a block to four   *)
(* blocks and up to seven addresses make walks that fit, that just         *)
(* overflow one set, and that overflow both.                               *)
EXTENDS CacheSim

MCStrides    == {1, 2, 3, 4, 8}
MCSizes      == 1 .. 7
MCIterations == {0, 5, 15}
=============================================================================

---------------------------- MODULE MCRaplSampler ----------------------------
(* Two meters whose counters turn over after three units and count at most   *)
(* one unit a tick.  An iteration takes two ticks asleep and up to one more, *)
(* and the readings are apart by up to four: less than a full turn, one turn *)
(* exactly, and more.                                                        *)
EXTENDS RaplSampler

\* A failed reading leaves a number in the range of a meter, or below it.
AnyDouble == {-1}
=============================================================================

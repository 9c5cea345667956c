----------------------------- MODULE MCOpGraph -----------------------------
(***************************************************************************)
(* Up to three operations on one name, so that both operands of an operator*)
(* can have operations of their own; a stack of three elements, the least  *)
(* that holds a function, a statement or header in it, and what is inside. *)
(***************************************************************************)
EXTENDS OpGraph
=============================================================================

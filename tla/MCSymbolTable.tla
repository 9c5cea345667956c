---------------------------- MODULE MCSymbolTable ----------------------------
(* Three names, three heap cells and three levels (global, function, block): *)
(* enough for an entry to be added before, between and behind others, for a  *)
(* list of declarations that redefines itself, and for a name bound in all   *)
(* three levels.                                                             *)
EXTENDS SymbolTable, TLC

MCIdLists == {<<1>>, <<2>>, <<2, 1>>, <<1, 3>>, <<2, 2>>}

Cells == Permutations(Node)
=============================================================================

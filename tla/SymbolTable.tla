----------------------------- MODULE SymbolTable -----------------------------
(***************************************************************************)
(* The symbol table of the OpenCL parser (OpenCL_Parser/symbolTable.c): a  *)
(* stack of levels, each a singly linked list of entries sorted by name.   *)
(* The parser opens a level for every function and compound statement and  *)
(* closes it at the end (kernelParser.y), adds the names of parameter and  *)
(* declaration lists to the innermost level, and looks names up, innermost *)
(* level first; the lexer looks type names up (check_type).                *)
(*                                                                         *)
(* The walks over the lists are modelled one iteration per step, with the  *)
(* local variables of the C functions as variables, because what makes     *)
(* them right is that their early exits agree with the order the insertion *)
(* keeps.  A name is a number and strcmp is the order of numbers.  An      *)
(* entry is a cell of the heap; its field op, the last operation that wrote*)
(* the symbol (UpdateSymbolTable), its qualifiers and the entries of struct*)
(* members are left out.                                                   *)
(***************************************************************************)
EXTENDS Integers, Sequences, FiniteSets

CONSTANTS
  Name,     \* identifiers
  Node,     \* heap cells for entries; malloc never fails while one is free
  NULL,
  Type,     \* type descriptors other than NONE_TYPE
  MaxDepth, \* bound on nested levels
  IdLists   \* the parameter and declaration lists the grammar may pass

None    == "none"                     \* NONE_TYPE
Sort    == {"identifier", "typename"} \* SYMBOL_TYPE
Info    == [sort : Sort, type : Type]

ASSUME SymbolAssumption ==
  /\ Name \subseteq Int
  /\ NULL \notin Node
  /\ MaxDepth \in Nat \ {0}
  /\ IdLists \subseteq Seq(Name) \ {<<>>}
  /\ NULL \notin Name \cup Info
  /\ None \notin Type

VARIABLES
  table,  \* "open", or how release left it: "freed", or "stuck" with levels in it
  depth,  \* number of levels, global level included
  head,   \* head[l], tail[l]: entry_head and entry_tail of level l
  tail,
  owner,  \* owner[n]: the level whose list entry n is in, or one of the values below
  sym,    \* sym[n], info[n], next[n]: the fields of entry n
  info,
  next,
  call,   \* the function being executed, "idle" between calls
  rest,   \* the names it still has to add; the name it looks up
  want,   \* the sort and type of the names to add; the sort to find, with type None
  level,  \* currLevel of a look-up
  prev,   \* prev, iterEntry (currEntry) and tmp of the C functions
  iter,
  tmp,
  answer  \* of a look-up that just returned: the question and the value

vars == <<table, depth, head, tail, owner, sym, info, next,
          call, rest, want, level, prev, iter, tmp, answer>>
heap   == <<table, depth, head, tail, owner, sym, info, next>>
locals == <<call, rest, want, level, prev, iter, tmp>>

Level    == 1 .. MaxDepth
Free     == 0  \* the cell is not allocated
Pending  == -1 \* allocated and on its way into a list
Leaked   == -2 \* dropped by a redefinition and never freed
Pointer  == Node \cup {NULL}
Entries(l) == {n \in Node : owner[n] = l}

NoInfo == [sort |-> "identifier", type |-> None]
NoAnswer == [asked |-> <<>>, value |-> NULL]

\* initial: CreateSymbolTable and the global level.
Init ==
  /\ table = "open"
  /\ depth = 1
  /\ head  = [l \in Level |-> NULL]
  /\ tail  = [l \in Level |-> NULL]
  /\ owner = [n \in Node |-> Free]
  /\ sym   = [n \in Node |-> NULL]
  /\ info  = [n \in Node |-> NoInfo]
  /\ next  = [n \in Node |-> NULL]
  /\ call  = "idle"
  /\ rest  = <<>>
  /\ want  = NoInfo
  /\ level = 0
  /\ prev  = NULL
  /\ iter  = NULL
  /\ tmp   = NULL
  /\ answer = NoAnswer

-----------------------------------------------------------------------------
(* Levels.                                                                 *)

\* CreateSymbolTableLevel: before a function body or a compound statement.
CreateLevel ==
  /\ call = "idle"
  /\ table = "open"
  /\ depth \in 1 .. MaxDepth - 1
  /\ depth' = depth + 1
  /\ head' = [head EXCEPT ![depth + 1] = NULL]
  /\ tail' = [tail EXCEPT ![depth + 1] = NULL]
  /\ answer' = NoAnswer
  /\ UNCHANGED <<table, owner, sym, info, next, locals>>

\* The entries a walk from the head of level l visits.
Chain(l) ==
  {n \in Node : \A S \in SUBSET Node :
     (/\ head[l] \in S \cup {NULL}
      /\ \A m \in S : next[m] \in S \cup {NULL}) => n \in S}

\* Mutant of PopLevel: the level goes but its entries are not freed.
MutPopLevel ==
  /\ call = "idle"
  /\ table = "open"
  /\ depth' = depth - 1
  /\ head' = [head EXCEPT ![depth] = NULL]
  /\ answer' = NoAnswer
  /\ UNCHANGED <<tail, owner, sym, info, next, locals>>

\* ReleaseSymbolTableLevel: pops the innermost level and frees its list.  What
\* is freed loses its contents, so that nothing can be read from it again.
PopLevel ==
  /\ call = "idle"
  /\ table = "open"
  /\ depth' = depth - 1
  /\ head' = [head EXCEPT ![depth] = NULL]
  /\ tail' = [tail EXCEPT ![depth] = NULL]
  /\ owner' = [n \in Node |-> IF n \in Chain(depth) THEN Free ELSE owner[n]]
  /\ sym'   = [n \in Node |-> IF n \in Chain(depth) THEN NULL ELSE sym[n]]
  /\ info'  = [n \in Node |-> IF n \in Chain(depth) THEN NoInfo ELSE info[n]]
  /\ next'  = [n \in Node |-> IF n \in Chain(depth) THEN NULL ELSE next[n]]
  /\ answer' = NoAnswer
  /\ UNCHANGED locals

\* The parser leaves a function body or a compound statement.
ReleaseLevel ==
  /\ depth > 1
  /\ PopLevel
  /\ UNCHANGED table

\* release, after yyparse returned.  It pops one level; if a syntax error has
\* left inner levels open that is not the global one, and ReleaseSymbolTable
\* prints "Need to release all the levels first" and frees nothing.
Release ==
  /\ PopLevel
  /\ table' = IF depth = 1 THEN "freed" ELSE "stuck"

-----------------------------------------------------------------------------
(* AddIDListToSymbolTable, and AddParamInDeclarator with its calls of      *)
(* AddParamToSymbolTable.                                                  *)

\* Starts to add the first name of rest: CreateSymbolTableEntry, then the scan
\* from the head of the innermost level.
Begin(names) ==
  \E n \in Node :
    /\ owner[n] = Free
    /\ owner' = [owner EXCEPT ![n] = Pending]
    /\ sym'   = [sym EXCEPT ![n] = Head(names)]
    /\ next'  = [next EXCEPT ![n] = NULL]
    /\ tmp'   = n
    /\ prev'  = NULL
    /\ iter'  = head[depth]
    /\ rest'  = Tail(names)

\* Parameters are identifiers and go into the still empty level of a function.
\* The last conjunct bounds the heap: there is a cell for every name.
AddNames(f, names, w) ==
  /\ call = "idle"
  /\ table = "open"
  /\ f = "AddParam" => w.sort = "identifier" /\ depth = 2 /\ head[depth] = NULL
  /\ Cardinality({n \in Node : owner[n] = Free}) >= Len(names)
  /\ call' = f
  /\ want' = w
  /\ Begin(names)
  /\ info' = [info EXCEPT ![tmp'] = w]
  /\ answer' = NoAnswer
  /\ UNCHANGED <<table, depth, head, tail, level>>

Adding == call \in {"AddParam", "AddIDList"}
Scanning == Adding /\ tmp # NULL

\* The entry is in its place (or dropped): on to the next name, if any.
NextName ==
  /\ Adding
  /\ tmp = NULL
  /\ IF rest = <<>>
     THEN /\ call' = "idle"
          /\ want' = NoInfo
          /\ UNCHANGED <<heap, rest, level, prev, iter, tmp, answer>>
     ELSE /\ Begin(rest)
          /\ info' = [info EXCEPT ![tmp'] = want]
          /\ UNCHANGED <<table, depth, head, tail, call, want, level, answer>>

\* The new entry is linked into the innermost level.
Link ==
  /\ owner' = [owner EXCEPT ![tmp] = depth]
  /\ tmp' = NULL
  /\ prev' = NULL
  /\ iter' = NULL
  /\ UNCHANGED <<table, depth, sym, info, call, rest, want, level, answer>>

InsertFirst ==
  /\ Scanning
  /\ head[depth] = NULL
  /\ head' = [head EXCEPT ![depth] = tmp]
  /\ tail' = [tail EXCEPT ![depth] = tmp]
  /\ UNCHANGED next
  /\ Link

\* AddIDListToSymbolTable records prev, not the new entry, as the tail.
InsertLast ==
  /\ Scanning
  /\ head[depth] # NULL
  /\ iter = NULL
  /\ next' = [next EXCEPT ![prev] = tmp]
  /\ tail' = [tail EXCEPT ![depth] = IF call = "AddParam" THEN tmp ELSE prev]
  /\ UNCHANGED head
  /\ Link

\* Mutant of InsertBefore: the new entry goes behind iter instead of before it.
MutInsertBefore ==
  /\ Scanning
  /\ iter # NULL
  /\ sym[iter] > sym[tmp]
  /\ next' = [next EXCEPT ![iter] = tmp, ![tmp] = next[iter]]
  /\ UNCHANGED <<head, tail>>
  /\ Link

InsertBefore ==
  /\ Scanning
  /\ iter # NULL
  /\ sym[iter] > sym[tmp]
  /\ next' = [n \in Node |-> IF n = tmp THEN iter ELSE IF n = prev THEN tmp ELSE next[n]]
  /\ head' = [head EXCEPT ![depth] = IF @ = iter THEN tmp ELSE @]
  /\ UNCHANGED tail
  /\ Link

\* "[Error] Redefine symbol": the first declaration stays, the new entry is
\* dropped without being freed.
Redefine ==
  /\ Scanning
  /\ iter # NULL
  /\ sym[iter] = sym[tmp]
  /\ owner' = [owner EXCEPT ![tmp] = Leaked]
  /\ tmp' = NULL
  /\ prev' = NULL
  /\ iter' = NULL
  /\ UNCHANGED <<table, depth, head, tail, sym, info, next, call, rest, want, level, answer>>

\* Mutant of ScanOn: prev stays one entry behind.
MutScanOn ==
  /\ Scanning
  /\ iter # NULL
  /\ sym[iter] < sym[tmp]
  /\ prev' = IF prev = NULL THEN iter ELSE prev
  /\ iter' = next[iter]
  /\ UNCHANGED <<heap, call, rest, want, level, tmp, answer>>

ScanOn ==
  /\ Scanning
  /\ iter # NULL
  /\ sym[iter] < sym[tmp]
  /\ prev' = iter
  /\ iter' = next[iter]
  /\ UNCHANGED <<heap, call, rest, want, level, tmp, answer>>

-----------------------------------------------------------------------------
(* FindSymbolInTable (by the parser for identifiers, by the lexer for type *)
(* names) and GetTableEntry.  They walk the same way; rest holds the name. *)

LookUp(f, n, s) ==
  /\ call = "idle"
  /\ table = "open"
  /\ f = "GetEntry" => s = "identifier"
  /\ call' = f
  /\ rest' = <<n>>
  /\ want' = [sort |-> s, type |-> None]
  /\ level' = depth
  /\ iter' = head[depth]
  /\ answer' = NoAnswer
  /\ UNCHANGED <<heap, prev, tmp>>

Looking == call \in {"FindSymbol", "GetEntry"}

Question == IF call = "FindSymbol" THEN <<call, rest[1], want.sort>> ELSE <<call, rest[1]>>

Return(value) ==
  /\ call' = "idle"
  /\ answer' = [asked |-> Question, value |-> value]
  /\ rest' = <<>>
  /\ level' = 0
  /\ want' = NoInfo
  /\ iter' = NULL
  /\ UNCHANGED <<heap, prev, tmp>>

\* Mutant of WalkOn: the pointer is not advanced.
MutWalkOn ==
  /\ Looking
  /\ iter # NULL
  /\ sym[iter] < rest[1]
  /\ UNCHANGED vars

WalkOn ==
  /\ Looking
  /\ iter # NULL
  /\ sym[iter] < rest[1]
  /\ iter' = next[iter]
  /\ UNCHANGED <<heap, call, rest, want, level, prev, tmp, answer>>

\* The walk stops: the end of the list, or a name behind the wanted one.
Past == iter # NULL => sym[iter] > rest[1]

\* Mutant of NextLevel: the search gives up at the first level without the name.
MutNextLevel ==
  /\ Looking
  /\ level > 0
  /\ Past
  /\ level' = 0
  /\ iter' = NULL
  /\ UNCHANGED <<heap, call, rest, want, prev, tmp, answer>>

\* Go one level out.
NextLevel ==
  /\ Looking
  /\ level > 0
  /\ Past
  /\ level' = level - 1
  /\ iter' = IF level > 1 THEN head[level - 1] ELSE NULL
  /\ UNCHANGED <<heap, call, rest, want, prev, tmp, answer>>

Found ==
  /\ Looking
  /\ iter # NULL
  /\ sym[iter] = rest[1]
  /\ Return(IF call = "GetEntry" THEN info[iter]
            ELSE IF info[iter].sort = want.sort THEN info[iter].type
            ELSE None)

NotFound ==
  /\ Looking
  /\ level = 0
  /\ Return(IF call = "GetEntry" THEN NULL ELSE None)

Exited == table # "open" /\ UNCHANGED vars

-----------------------------------------------------------------------------
\* What the parser and the lexer may call next.
Calls ==
  \/ CreateLevel
  \/ ReleaseLevel
  \/ Release
  \/ \E f \in {"AddParam", "AddIDList"}, names \in IdLists, w \in Info : AddNames(f, names, w)
  \/ \E f \in {"FindSymbol", "GetEntry"}, n \in Name, s \in Sort : LookUp(f, n, s)

\* One step of the function being executed.
Steps ==
  \/ NextName
  \/ InsertFirst
  \/ InsertLast
  \/ InsertBefore
  \/ Redefine
  \/ ScanOn
  \/ WalkOn
  \/ NextLevel
  \/ Found
  \/ NotFound

Next == Calls \/ Steps \/ Exited

Spec == Init /\ [][Next]_vars

\* The parser is one thread: a function that can take a step takes it.
FairSpec == Spec /\ WF_vars(Steps)

-----------------------------------------------------------------------------
TypeOK ==
  /\ table \in {"open", "freed", "stuck"}
  /\ depth \in 0 .. MaxDepth
  /\ table = "open" => depth > 0
  /\ head \in [Level -> Pointer]
  /\ tail \in [Level -> Pointer]
  /\ owner \in [Node -> Level \cup {Free, Pending, Leaked}]
  /\ sym \in [Node -> Name \cup {NULL}]
  /\ \A n \in Node : owner[n] \in Level \cup {Pending} => sym[n] \in Name
  /\ info \in [Node -> Info \cup {NoInfo}]
  /\ next \in [Node -> Pointer]
  /\ call \in {"idle", "AddParam", "AddIDList", "FindSymbol", "GetEntry"}
  /\ call # "idle" => table = "open"
  /\ rest \in Seq(Name)
  /\ want \in [sort : Sort, type : Type \cup {None}]
  /\ call \in {"AddParam", "AddIDList"} => want \in Info
  /\ level \in 0 .. MaxDepth
  /\ prev \in Pointer /\ iter \in Pointer /\ tmp \in Pointer

(***************************************************************************)
(* The list of an open level: head is its first entry, every next is the   *)
(* entry with the next name, and no name occurs twice.                     *)
(***************************************************************************)
StartsAtFirst(l) ==
  IF Entries(l) = {} THEN head[l] = NULL
  ELSE head[l] \in Entries(l) /\ \A m \in Entries(l) : sym[head[l]] <= sym[m]

FollowedByNext(l, n) ==
  IF next[n] = NULL THEN \A m \in Entries(l) : sym[m] <= sym[n]
  ELSE /\ next[n] \in Entries(l)
       /\ sym[n] < sym[next[n]]
       /\ \A m \in Entries(l) : sym[m] <= sym[n] \/ sym[next[n]] <= sym[m]

SortedList(l) ==
  /\ StartsAtFirst(l)
  /\ \A n \in Entries(l) : FollowedByNext(l, n)
  /\ \A m, n \in Entries(l) : sym[m] = sym[n] => m = n

\* Every entry of an open level can be reached from its head, once and in the
\* order of names, so that the early exits of the walks (lines 32-35, 68-71)
\* never leave an entry unseen.  A pointer to a freed or lost entry breaks it.
ListsSorted == \A l \in 1 .. depth : SortedList(l)

\* While a name is being added, prev and iter are neighbours in the innermost
\* list and everything up to prev comes before the new name, whatever was
\* added before (lines 95-126, 173-218).
ScanInPlace ==
  IF tmp = NULL THEN prev = NULL
  ELSE /\ Adding
       /\ owner[tmp] = Pending /\ next[tmp] = NULL
       /\ IF prev = NULL THEN iter = head[depth]
          ELSE prev \in Entries(depth) /\ iter = next[prev] /\ sym[prev] < sym[tmp]

\* No entry outlives its level: it is in a list that is still open, on its way
\* into one, or was dropped by a redefinition (lines 116-120, 204-208).  Once
\* release has freed the table only the dropped ones are left.
NoEntryLost ==
  /\ \A n \in Node : owner[n] \in 1 .. depth \cup {Free, Pending, Leaked}
  /\ \A n \in Node : owner[n] = Pending => n = tmp
  /\ table = "freed" => \A n \in Node : owner[n] \in {Free, Leaked}

\* Every call returns: no walk meets a cycle or loses its way (the loops at
\* lines 25-40, 48-75, 96-126 and 174-218 have no other bound).
CallsReturn == call # "idle" ~> call = "idle"

(***************************************************************************)
(* The table implements a stack of scopes.                                 *)
(***************************************************************************)
ScopeOf(l) ==
  [x \in {sym[n] : n \in Entries(l)} |-> info[CHOOSE n \in Entries(l) : sym[n] = x]]

Abstract == INSTANCE Scopes
  WITH Unbound <- NULL, scopes <- [l \in 1 .. depth |-> ScopeOf(l)]

\* However lists were built, a look-up returns the innermost binding of the
\* name (shadowing included), the first declaration of a name in a level wins,
\* and closing a level uncovers exactly what was bound before it was opened.
ImplementsScopes == Abstract!SSpec
=============================================================================

------------------------------- MODULE OpGraph -------------------------------
(***************************************************************************)
(* The operations the OpenCL parser records (OpenCL_Parser/kernelParser.y).*)
(* Every operator of an expression becomes an Operation with up to two     *)
(* data dependences; operations are linked into the lists of expressions,  *)
(* these into lists of statements, and a function's statements are printed *)
(* and freed at its end.  A symbol's entry points to the last operation    *)
(* that wrote it, wherever that operation is by then.                      *)
(*                                                                         *)
(* An action is what the parser does at a reduction (or, for a header, at  *)
(* the closing parenthesis), in any order the grammar allows.  What is     *)
(* linked by pointers in the code is linked here: next and issue_dep of    *)
(* operations, head and tail of lists.  An operation is its number, and is *)
(* never allocated twice.  The symbol table is the stack of scopes that    *)
(* module SymbolTable implements.                                          *)
(*                                                                         *)
(* Left out: types, struct members, the constant expressions of labels and *)
(* declarators, do statements (whose rule passes an OP_List for a          *)
(* STMT_List), and null lists: AddToOPList treats them like empty ones.    *)
(***************************************************************************)
EXTENDS Integers, Sequences, SequencesExt

CONSTANTS
  Name,     \* identifiers
  MaxOps,   \* bound on op_num
  MaxStack, \* bound on the parser's stack
  MaxIds    \* bound on the names of a declaration

ASSUME OpAssumption == MaxOps \in Nat \ {0} /\ MaxStack \in Nat \ {0} /\ MaxIds \in Nat \ {0}

VARIABLES
  parsing, \* yyparse has not returned
  opNum,   \* op_num
  freed,   \* the operations ReleaseOP has freed
  next,    \* next, issue_dep, data_dep_l and data_dep_r of operations
  issue,
  left,
  right,
  scopes,  \* scopes[l][x]: the field op of the entry of x in level l
  stack,   \* the parser's stack: semantic values and unfinished statements
  dropped  \* ghost: the operations of expressions a rule leaves out

links == <<next, issue>>
deps  == <<left, right>>
vars  == <<parsing, opNum, freed, next, issue, left, right, scopes, stack, dropped>>

NULL == 0
Op   == 1 .. MaxOps

-----------------------------------------------------------------------------
(* Chains of operations and how they are joined.                           *)

Nil       == [head |-> NULL, tail |-> NULL]
Single(o) == IF o = NULL THEN Nil ELSE [head |-> o, tail |-> o]

Join(a, b) ==
  IF a = Nil THEN b ELSE IF b = Nil THEN a ELSE [head |-> a.head, tail |-> b.tail]

\* The pointers of operations before a rule joins lists, and after it has.
Pointers == [next |-> next, issue |-> issue]
Link(p)  == next' = p.next /\ issue' = p.issue

\* MakeDependency of the second chain's head on the first one's tail, whose
\* next it becomes.
Tie(p, a, b) ==
  IF a = Nil \/ b = Nil THEN p
  ELSE [next  |-> [p.next EXCEPT ![a.tail] = b.head],
        issue |-> [p.issue EXCEPT ![b.head] = a.tail]]

(***************************************************************************)
(* An OP_List: its operations, those that come after the statement, and    *)
(* the symbol its value was read from, as <<level, name>>.                 *)
(***************************************************************************)
NoEntry == <<>>
Empty(e) == [chain |-> Nil, post |-> Nil, entry |-> e]

\* Mutant of AddToOPList: without an operation of its own the right list is lost.
MutAddToOPList(l, r, o) ==
  [chain |-> IF o = NULL THEN l.chain ELSE Join(Join(l.chain, r.chain), Single(o)),
   post  |-> Join(l.post, r.post),
   entry |-> IF l.chain = Nil /\ r.chain # Nil THEN r.entry ELSE l.entry]

\* The list that contains operations survives, with its entry.
AddToOPList(l, r, o) ==
  [chain |-> Join(Join(l.chain, r.chain), Single(o)),
   post  |-> Join(l.post, r.post),
   entry |-> IF l.chain = Nil /\ r.chain # Nil THEN r.entry ELSE l.entry]

TieLists(p, l, r, o) ==
  LET posts == Tie(p, l.post, r.post)
  IN  Tie(Tie(posts, l.chain, r.chain), Join(l.chain, r.chain), Single(o))

\* What an operation that uses the value of list l depends on.
Producer(l) ==
  IF l.chain # Nil THEN l.chain.tail
  ELSE IF l.entry # NoEntry THEN scopes[l.entry[1]][l.entry[2]]
  ELSE NULL

\* CreateOP and CreateOPWithDataHazard.
CreateOP(o, dl, dr) ==
  /\ o = opNum + 1 /\ o \in Op
  /\ opNum' = o
  /\ left' = [left EXCEPT ![o] = dl]
  /\ right' = [right EXCEPT ![o] = dr]

(***************************************************************************)
(* A STMT_List, flat: a nested statement is a member of its type, the      *)
(* members of its list, and an "end".  What makes a list returns the       *)
(* pointers it leaves, too.                                                *)
(***************************************************************************)
Expression(c) == [type |-> "EXPRESSION", ops |-> c]
Mark(type)    == [type |-> type, ops |-> Nil]

CreateSTMT(p, l) ==
  LET c == Join(l.chain, l.post)
  IN  [stmts |-> IF c = Nil THEN <<>> ELSE <<Expression(c)>>, ptrs |-> Tie(p, l.chain, l.post)]

Nest(type, ss) == IF ss = <<>> THEN <<>> ELSE <<Mark(type)>> \o ss \o <<Mark("end")>>

Adjacent(a, b) ==
  /\ a # <<>> /\ b # <<>>
  /\ Last(a).type = "EXPRESSION" /\ Head(b).type = "EXPRESSION"

\* Mutant of AddToSTMTList: the merged statement also stays where it was.
MutAddToSTMTList(p, a, b) ==
  IF Adjacent(a, b)
  THEN [stmts |-> Front(a) \o <<Expression(Join(Last(a).ops, Head(b).ops))>> \o b,
        ptrs  |-> Tie(p, Last(a).ops, Head(b).ops)]
  ELSE [stmts |-> a \o b, ptrs |-> p]

\* Adjacent expression statements become one.
AddToSTMTList(p, a, b) ==
  IF Adjacent(a, b)
  THEN [stmts |-> Front(a) \o <<Expression(Join(Last(a).ops, Head(b).ops))>> \o Tail(b),
        ptrs  |-> Tie(p, Last(a).ops, Head(b).ops)]
  ELSE [stmts |-> a \o b, ptrs |-> p]

-----------------------------------------------------------------------------
(***************************************************************************)
(* The parser's stack.  An element is an expression ("expr"), a list of    *)
(* declarators ("decl") or a name whose initializer is being read ("name"),*)
(* a statement ("stmt"), or a statement of which only the first part has   *)
(* been read: "cond" is the condition of IF, WHILE or SWITCH, "for" a loop *)
(* up to the closing parenthesis and "loop" one after it, "then" what      *)
(* precedes ELSE, and "block" what is inside braces so far.  The grammar   *)
(* lets any expression in parentheses be assigned to.                      *)
(***************************************************************************)
Item(sort, lists, stmts, ids) == [sort |-> sort, lists |-> lists, stmts |-> stmts, ids |-> ids]
Expr(l)   == Item("expr", <<l>>, <<>>, <<>>)
Stmt(ss)  == Item("stmt", <<>>, ss, <<>>)
Block(ss) == Item("block", <<>>, ss, <<>>)

\* The k-th element from the top, its list, and the stack without the first k.
At(k)    == stack[Len(stack) + 1 - k]
ListAt(k) == At(k).lists[1]
Below(k) == SubSeq(stack, 1, Len(stack) - k)

Sorts(ss) == Len(stack) >= Len(ss) /\ \A k \in DOMAIN ss : At(k).sort \in ss[k]
Operand   == {"expr"}
Context   == {"block", "cond", "then", "loop"} \* a statement may follow

Push(item)       == Len(stack) < MaxStack /\ stack' = Append(stack, item)
Replace(k, item) == stack' = Append(Below(k), item)

Init ==
  /\ parsing = TRUE /\ opNum = 0 /\ freed = {} /\ dropped = {}
  /\ next = [o \in Op |-> NULL] /\ issue = [o \in Op |-> NULL]
  /\ left = [o \in Op |-> NULL] /\ right = [o \in Op |-> NULL]
  /\ scopes = <<[x \in {} |-> NULL]>>
  /\ stack = <<>>

-----------------------------------------------------------------------------
(* Expressions.                                                            *)

MayStartExpression == stack # <<>> /\ Sorts(<<Operand \cup Context \cup {"for", "name"}>>)

Binding(x) == {l \in 1 .. Len(scopes) : x \in DOMAIN scopes[l]}

\* GetTableEntry
EntryOf(x) ==
  IF Binding(x) = {} THEN NoEntry
  ELSE <<CHOOSE l \in Binding(x) : \A k \in Binding(x) : k <= l, x>>

Identifier(x) ==
  /\ MayStartExpression
  /\ Push(Expr(Empty(EntryOf(x))))
  /\ UNCHANGED <<opNum, freed, links, deps, scopes, dropped>>

Constant ==
  /\ MayStartExpression
  /\ Push(Expr(Empty(NoEntry)))
  /\ UNCHANGED <<opNum, freed, links, deps, scopes, dropped>>

\* All operators with two operands but assignment.
Binary(o) ==
  /\ Sorts(<<Operand, Operand>>)
  /\ CreateOP(o, Producer(ListAt(2)), Producer(ListAt(1)))
  /\ Link(TieLists(Pointers, ListAt(2), ListAt(1), o))
  /\ Replace(2, Expr(AddToOPList(ListAt(2), ListAt(1), o)))
  /\ UNCHANGED <<freed, scopes, dropped>>

\* postfix_expression '[' expression ']'
Subscript(o) ==
  /\ Sorts(<<Operand, Operand>>)
  /\ CreateOP(o, NULL, NULL)
  /\ Link(TieLists(Pointers, ListAt(2), ListAt(1), o))
  /\ Replace(2, Expr(AddToOPList(ListAt(2), ListAt(1), o)))
  /\ UNCHANGED <<freed, scopes, dropped>>

\* The comma operator, and the commas of an initializer list.
Comma ==
  /\ Sorts(<<Operand, Operand>>)
  /\ Link(TieLists(Pointers, ListAt(2), ListAt(1), NULL))
  /\ Replace(2, Expr(AddToOPList(ListAt(2), ListAt(1), NULL)))
  /\ UNCHANGED <<opNum, freed, deps, scopes, dropped>>

\* The operation waits for the end of the statement.
PostIncrement(o) ==
  /\ Sorts(<<Operand>>)
  /\ CreateOP(o, NULL, NULL)
  /\ LET later == [Empty(NoEntry) EXCEPT !.post = Single(o)]
     IN  /\ Link(TieLists(Pointers, ListAt(1), later, NULL))
         /\ Replace(1, Expr(AddToOPList(ListAt(1), later, NULL)))
  /\ UNCHANGED <<freed, scopes, dropped>>

\* AddToOPList with a null list on the left.
Unary(o) ==
  /\ Link(Tie(Pointers, ListAt(1).chain, Single(o)))
  /\ Replace(1, Expr([ListAt(1) EXCEPT !.chain = Join(@, Single(o))]))
  /\ UNCHANGED <<freed, scopes, dropped>>

\* get_global_id and its like: a new list, then their argument's.
WorkItemFunction ==
  /\ Sorts(<<Operand>>)
  /\ Replace(1, Expr(AddToOPList(Empty(NoEntry), ListAt(1), NULL)))
  /\ UNCHANGED <<opNum, freed, links, deps, scopes, dropped>>

PreIncrement(o) ==
  /\ Sorts(<<Operand>>)
  /\ CreateOP(o, NULL, Producer(ListAt(1)))
  /\ Unary(o)

\* The code creates the operation, and numbers it, when it reads the operator.
Dereference(o) ==
  /\ Sorts(<<Operand>>)
  /\ CreateOP(o, NULL, NULL)
  /\ Unary(o)

\* The source may just have been freed by AddToOPList (line 1279): free leaves
\* its table_entry as it was, and nothing is allocated in between.
UpdateSymbolTable(source, update) ==
  scopes' = IF source.entry = NoEntry THEN scopes
            ELSE [scopes EXCEPT ![source.entry[1]][source.entry[2]] = update.chain.tail]

\* unary_expression assignment_operator assignment_expression; o = NULL for '='.
Assign(o) ==
  /\ Sorts(<<Operand, Operand>>)
  /\ IF o = NULL THEN UNCHANGED <<opNum, deps>>
     ELSE CreateOP(o, Producer(ListAt(2)), Producer(ListAt(1)))
  /\ LET list == AddToOPList(ListAt(1), ListAt(2), o)
     IN  /\ Replace(2, Expr(list))
         /\ UpdateSymbolTable(ListAt(2), list)
  /\ Link(TieLists(Pointers, ListAt(1), ListAt(2), o))
  /\ UNCHANGED <<freed, dropped>>

\* The operations of a chain, which a walk from its head visits: the least set
\* with the head, and with each operation the next one.
Closed(S) == \A o \in S : next[o] \in S \cup {NULL}
OpsOf(c)  == {o \in Op : \A S \in SUBSET Op : c.head \in S \cup {NULL} /\ Closed(S) => o \in S}

OpsOfList(l)   == OpsOf(l.chain) \cup OpsOf(l.post)
OpsOfStmts(ss) == UNION {OpsOf(ss[k].ops) : k \in DOMAIN ss}

\* The fields of operations that are in no list any more are never read.
Forget(ops) ==
  LET without(f) == [o \in Op |-> IF o \in ops THEN NULL ELSE f[o]]
  IN  /\ next' = without(next) /\ issue' = without(issue)
      /\ left' = without(left) /\ right' = without(right)

\* ReleaseOP, for a set of operations.
ReleaseOPs(ops) == freed' = freed \cup ops /\ Forget(ops)

\* Operations that a rule puts into no list: they stay allocated.
Drop(ops) == dropped' = dropped \cup ops /\ Forget(ops)

\* An argument of a function call, or a branch of the conditional operator: its
\* list is left out.
LeaveOut ==
  /\ Sorts(<<Operand, Operand>>)
  /\ stack' = Below(1)
  /\ Drop(OpsOfList(ListAt(1)))
  /\ UNCHANGED <<opNum, freed, scopes>>

-----------------------------------------------------------------------------
(* Declarations.                                                           *)

MayDeclare ==
  \/ stack = <<>>
  \/ Sorts(<<{"block", "decl"}>>)
  \/ Sorts(<<{"for"}>>) /\ At(1).lists = <<>>

\* Nothing reads the entry of an expression that is complete: CreateSTMT clears
\* it, and the model does so at once.
Complete(l) == [l EXCEPT !.entry = NoEntry]

\* A declarator joins the declarators before it.
AddDeclaration(k, x, o, list) ==
  IF Len(stack) > k /\ At(k + 1).sort = "decl"
  THEN /\ Len(At(k + 1).ids) < MaxIds
       /\ Replace(k + 1, Item("decl", <<AddToOPList(ListAt(k + 1), list, NULL)>>, <<>>,
                              Append(At(k + 1).ids, <<x, o>>)))
       /\ Link(TieLists(Pointers, ListAt(k + 1), list, NULL))
  ELSE /\ k = 0 => Len(stack) < MaxStack
       /\ Replace(k, Item("decl", <<list>>, <<>>, <<<<x, o>>>>))
       /\ UNCHANGED links

Declarator(x) ==
  /\ MayDeclare
  /\ AddDeclaration(0, x, NULL, Empty(NoEntry))
  /\ UNCHANGED <<opNum, freed, deps, scopes, dropped>>

\* declarator '=', before the initializer.
Initialize(x) ==
  /\ MayDeclare
  /\ Push(Item("name", <<>>, <<>>, <<<<x, NULL>>>>))
  /\ UNCHANGED <<opNum, freed, links, deps, scopes, dropped>>

InitDeclarator ==
  /\ Sorts(<<Operand, {"name"}>>)
  /\ AddDeclaration(2, At(2).ids[1][1], ListAt(1).chain.tail, Complete(ListAt(1)))
  /\ UNCHANGED <<opNum, freed, deps, scopes, dropped>>

\* AddIDListToSymbolTable: the first declaration of a name in a level stays.
Declare(ids) ==
  LET top == scopes[Len(scopes)]
      new == {ids[k][1] : k \in DOMAIN ids} \ DOMAIN top
      first(x) == CHOOSE k \in DOMAIN ids : ids[k][1] = x /\ \A i \in 1 .. k - 1 : ids[i][1] # x
  IN  scopes' = [scopes EXCEPT ![Len(scopes)] =
                   [x \in DOMAIN top \cup new |-> IF x \in new THEN ids[first(x)][2] ELSE top[x]]]

\* The operations become a statement of the block, the first part of a for
\* header, or, outside of functions, nothing.
EndDeclaration ==
  /\ Sorts(<<{"decl"}>>)
  /\ Declare(At(1).ids)
  /\ LET list == ListAt(1)
         new  == CreateSTMT(Pointers, list)
         more == AddToSTMTList(new.ptrs, At(2).stmts, new.stmts)
     IN  \/ /\ Len(stack) = 1
            /\ stack' = <<>>
            /\ Drop(OpsOfList(list))
         \/ /\ Len(stack) > 1 /\ At(2).sort = "for"
            /\ Replace(2, Item("for", <<list>>, <<>>, <<>>))
            /\ UNCHANGED <<links, deps, dropped>>
         \/ /\ Len(stack) > 1 /\ At(2).sort = "block"
            /\ Replace(2, Block(more.stmts))
            /\ Link(more.ptrs)
            /\ UNCHANGED <<deps, dropped>>
  /\ UNCHANGED <<opNum, freed>>

-----------------------------------------------------------------------------
(* Statements.                                                             *)

MayStartStatement == Sorts(<<Context>>)

ExpressionStatement ==
  /\ Sorts(<<Operand, Context>>)
  /\ LET new == CreateSTMT(Pointers, ListAt(1))
     IN  Replace(1, Stmt(new.stmts)) /\ Link(new.ptrs)
  /\ UNCHANGED <<opNum, freed, deps, scopes, dropped>>

\* An empty statement or a jump.
NoStatement ==
  /\ MayStartStatement
  /\ Push(Stmt(<<>>))
  /\ UNCHANGED <<opNum, freed, links, deps, scopes, dropped>>

\* A label leaves its statement out.
LabeledStatement ==
  /\ Sorts(<<{"stmt"}>>)
  /\ Replace(1, Stmt(<<>>))
  /\ Drop(OpsOfStmts(At(1).stmts))
  /\ UNCHANGED <<opNum, freed, scopes>>

\* RETURN expression: the expression is left out.
ReturnStatement ==
  /\ Sorts(<<Operand, Context>>)
  /\ Replace(1, Stmt(<<>>))
  /\ Drop(OpsOfList(ListAt(1)))
  /\ UNCHANGED <<opNum, freed, scopes>>

\* block_item_list block_item
BlockItem ==
  /\ Sorts(<<{"stmt"}, {"block"}>>)
  /\ LET more == AddToSTMTList(Pointers, At(2).stmts, At(1).stmts)
     IN  Replace(2, Block(more.stmts)) /\ Link(more.ptrs)
  /\ UNCHANGED <<opNum, freed, deps, scopes, dropped>>

\* IF, WHILE or SWITCH '(' expression ')'
Condition ==
  /\ Sorts(<<Operand, Context>>)
  /\ Replace(1, Item("cond", <<Complete(ListAt(1))>>, <<>>, <<>>))
  /\ UNCHANGED <<opNum, freed, links, deps, scopes, dropped>>

\* A statement is made of the topmost k elements.
Finish(k, a) ==
  /\ Replace(k, Stmt(a.stmts))
  /\ Link(a.ptrs)
  /\ UNCHANGED <<opNum, freed, deps, scopes, dropped>>

\* The same, but the condition is left out.
FinishWithout(k, ss) ==
  /\ Replace(k, Stmt(ss))
  /\ Drop(OpsOfList(ListAt(k)))
  /\ UNCHANGED <<opNum, freed, scopes>>

If ==
  /\ Sorts(<<{"stmt"}, {"cond"}>>)
  /\ LET new == CreateSTMT(Pointers, ListAt(2))
     IN  Finish(2, AddToSTMTList(new.ptrs, new.stmts, Nest("SELECTION", Nest("IF", At(1).stmts))))

Else ==
  /\ Sorts(<<{"stmt"}, {"cond"}>>)
  /\ Replace(2, Item("then", At(2).lists, At(1).stmts, <<>>))
  /\ UNCHANGED <<opNum, freed, links, deps, scopes, dropped>>

IfElse ==
  /\ Sorts(<<{"stmt"}, {"then"}>>)
  /\ LET branches == AddToSTMTList(Pointers, Nest("IF", At(2).stmts), Nest("ELSE", At(1).stmts))
         new == CreateSTMT(branches.ptrs, ListAt(2))
     IN  Finish(2, AddToSTMTList(new.ptrs, new.stmts, Nest("SELECTION", branches.stmts)))

While ==
  /\ Sorts(<<{"stmt"}, {"cond"}>>)
  /\ FinishWithout(2, Nest("ITERATION", At(1).stmts))

\* SWITCH '(' expression ')' statement is not nested either.
Switch ==
  /\ Sorts(<<{"stmt"}, {"cond"}>>)
  /\ FinishWithout(2, At(1).stmts)

\* FOR '('
OpenFor ==
  /\ MayStartStatement
  /\ Push(Item("for", <<>>, <<>>, <<>>))
  /\ UNCHANGED <<opNum, freed, links, deps, scopes, dropped>>

\* An expression of the header, or none.
ForPart ==
  /\ \/ /\ Sorts(<<Operand, {"for"}>>)
        /\ Len(At(2).lists) < 3
        /\ Replace(2, [At(2) EXCEPT !.lists = Append(@, Complete(ListAt(1)))])
     \/ /\ Sorts(<<{"for"}>>)
        /\ Len(At(1).lists) < 2
        /\ Replace(1, [At(1) EXCEPT !.lists = Append(@, Empty(NoEntry))])
  /\ UNCHANGED <<opNum, freed, links, deps, scopes, dropped>>

\* ')' after two or three expressions
CloseFor ==
  /\ Sorts(<<{"for"}>>)
  /\ Len(At(1).lists) >= 2
  /\ Replace(1, [At(1) EXCEPT !.sort = "loop"])
  /\ UNCHANGED <<opNum, freed, links, deps, scopes, dropped>>

\* The body is followed by the step, if any, and the condition; the first
\* expression comes before the loop.
For ==
  /\ Sorts(<<{"stmt"}, {"loop"}>>)
  /\ LET lists == At(2).lists
         init == CreateSTMT(Pointers, lists[1])
         cond == CreateSTMT(init.ptrs, lists[2])
         step == IF Len(lists) = 3 THEN CreateSTMT(cond.ptrs, lists[3])
                 ELSE [stmts |-> <<>>, ptrs |-> cond.ptrs]
         body == AddToSTMTList(step.ptrs, At(1).stmts, step.stmts)
         loop == AddToSTMTList(body.ptrs, body.stmts, cond.stmts)
     IN  Finish(2, AddToSTMTList(loop.ptrs, init.stmts, Nest("ITERATION", loop.stmts)))

-----------------------------------------------------------------------------
(* Blocks, functions and the end.                                          *)

NoNames == [x \in {} |-> NULL]
Leave   == scopes' = Front(scopes)

OpenBlock ==
  /\ MayStartStatement
  /\ Push(Block(<<>>))
  /\ scopes' = Append(scopes, NoNames)
  /\ UNCHANGED <<opNum, freed, links, deps, dropped>>

CloseBlock ==
  /\ Sorts(<<{"block"}>>) /\ Len(stack) > 1
  /\ Replace(1, Stmt(At(1).stmts))
  /\ Leave
  /\ UNCHANGED <<opNum, freed, links, deps, dropped>>

\* The parameters are the first names of a function's level.
StartFunction ==
  /\ stack = <<>>
  /\ Push(Block(<<>>))
  /\ \E P \in SUBSET Name : scopes' = Append(scopes, [x \in P |-> NULL])
  /\ UNCHANGED <<opNum, freed, links, deps, dropped>>

\* Mutant of EndFunction: the level is released when the next function ends.
MutEndFunction ==
  /\ Sorts(<<{"block"}>>) /\ Len(stack) = 1
  /\ stack' = <<>>
  /\ ReleaseOPs(OpsOfStmts(At(1).stmts))
  /\ UNCHANGED <<opNum, scopes, dropped>>

\* The level is released, and the statements are printed and freed.
EndFunction ==
  /\ Sorts(<<{"block"}>>) /\ Len(stack) = 1
  /\ stack' = <<>>
  /\ Leave
  /\ ReleaseOPs(OpsOfStmts(At(1).stmts))
  /\ UNCHANGED <<opNum, dropped>>

Creating(o) ==
  \/ Binary(o) \/ Subscript(o) \/ PostIncrement(o) \/ PreIncrement(o) \/ Dereference(o)
  \/ Assign(o)

Reduction ==
  \/ \E o \in Op : Creating(o)
  \/ \E x \in Name : Identifier(x) \/ Declarator(x) \/ Initialize(x)
  \/ Constant \/ Comma \/ WorkItemFunction \/ Assign(NULL) \/ LeaveOut
  \/ InitDeclarator \/ EndDeclaration
  \/ ExpressionStatement \/ NoStatement \/ LabeledStatement \/ ReturnStatement \/ BlockItem
  \/ Condition \/ If \/ Else \/ IfElse \/ While \/ Switch
  \/ OpenFor \/ ForPart \/ CloseFor \/ For
  \/ OpenBlock \/ CloseBlock \/ StartFunction \/ EndFunction

\* The end of the file, or a syntax error anywhere.
Return ==
  /\ parsing
  /\ parsing' = FALSE
  /\ stack' = <<>>
  /\ UNCHANGED <<opNum, freed, links, deps, scopes, dropped>>

Returned == ~parsing /\ UNCHANGED vars

Next ==
  \/ parsing /\ Reduction /\ UNCHANGED parsing
  \/ Return
  \/ Returned

Spec == Init /\ [][Next]_vars

-----------------------------------------------------------------------------
Chains(n) == {Nil} \cup [head : 1 .. n, tail : 1 .. n]
Lists(n)  == [chain : Chains(n), post : Chains(n), entry : {NoEntry} \cup ((1 .. MaxStack + 1) \X Name)]
Stmts(n)  == [type : {"EXPRESSION", "SELECTION", "ITERATION", "IF", "ELSE", "end"}, ops : Chains(n)]
Items(n)  == [sort : Operand \cup Context \cup {"for", "decl", "name", "stmt"},
              lists : Seq(Lists(n)), stmts : Seq(Stmts(n)), ids : Seq(Name \X (0 .. n))]

\* The variables have their types: operations exist before anything points to
\* them, and as many levels are open as the stack has blocks, and the global one.
TypeOK ==
  /\ parsing \in BOOLEAN
  /\ opNum \in 0 .. MaxOps
  /\ freed \subseteq 1 .. opNum /\ dropped \subseteq 1 .. opNum
  /\ next \in [Op -> 0 .. opNum] /\ issue \in [Op -> 0 .. opNum]
  /\ left \in [Op -> 0 .. opNum] /\ right \in [Op -> 0 .. opNum]
  /\ scopes \in Seq(UNION {[D -> 0 .. opNum] : D \in SUBSET Name})
  /\ parsing => Len(scopes) = 1 + Cardinality({k \in DOMAIN stack : stack[k].sort = "block"})
  /\ stack \in Seq(Items(opNum))
  /\ Len(stack) <= MaxStack

(***************************************************************************)
(* The places that hold operations: a list or a statement of an element of *)
(* the stack.                                                              *)
(***************************************************************************)
Places ==
  UNION {{<<k, "chain", i>> : i \in DOMAIN stack[k].lists}
         \cup {<<k, "post", i>> : i \in DOMAIN stack[k].lists}
         \cup {<<k, "stmt", i>> : i \in DOMAIN stack[k].stmts} : k \in DOMAIN stack}

ChainAt(p) ==
  CASE p[2] = "chain" -> stack[p[1]].lists[p[3]].chain
    [] p[2] = "post"  -> stack[p[1]].lists[p[3]].post
    [] p[2] = "stmt"  -> stack[p[1]].stmts[p[3]].ops

\* In every list the operations are linked from head to tail, and each but the
\* first depends on the one before it for issue, however the lists were joined
\* (AddToOPList, lines 690-803, and AddToSTMTList, lines 564-581).
ListsAreChains ==
  \A p \in Places :
    LET c == ChainAt(p)
        H == OpsOf(c)
    IN  c # Nil =>
          /\ c.tail \in H /\ next[c.tail] = NULL
          /\ issue[c.head] = NULL
          /\ \A o \in H : next[o] # NULL => issue[next[o]] = o

\* Every operation is in exactly one list until its function ends and it is
\* freed, once; only what a rule leaves out is in none (lines 527-597,
\* 642-658).
HeldOnce ==
  /\ freed \cap dropped = {}
  /\ LET holds == [p \in Places |-> OpsOf(ChainAt(p))]
         holders(o) == {p \in DOMAIN holds : o \in holds[p]}
     IN  \A o \in 1 .. opNum :
           IF o \in freed \cup dropped THEN holders(o) = {}
           ELSE parsing => \E p \in DOMAIN holds : holders(o) = {p}

\* What an entry of a function's own levels points to has not been freed: no
\* rule frees operations before the end of their function, which takes all its
\* levels with it (lines 1690-1693, 1705-1708).
LocalsLive ==
  \A l \in 2 .. Len(scopes) : \A x \in DOMAIN scopes[l] : scopes[l][x] \notin freed

\* What "find the dependency due to RAW data hazard of specific identifier"
\* (symbolTable.c:15) means: what an operation waits for is there to be
\* printed (lines 323-333).  An entry of the global level keeps pointing to
\* operations of a function that has ended.
DependencesLive ==
  \A p \in Places : \A o \in OpsOf(ChainAt(p)) : left[o] \notin freed /\ right[o] \notin freed
=============================================================================

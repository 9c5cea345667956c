--------------------------- MODULE OpGraph_proofs ---------------------------
(***************************************************************************)
(* Theorems about module OpGraph, for any names and bounds: however a      *)
(* program is reduced, every list of operations is a chain, every          *)
(* operation is held once until it is freed or left out, and no entry of a *)
(* function's own levels points to an operation that was freed.            *)
(*                                                                         *)
(* The inductive invariant GraphInv says of the whole stack what a rule    *)
(* needs of the elements it combines: chains are good and apart            *)
(* (GoodStack), the stack, what was freed and what was left out account    *)
(* for all operations (Accounted), operations to come are linked to        *)
(* nothing (Fresh), elements have the shape of their sort and the order    *)
(* the grammar gives them (Shaped, Ordered), and the symbols they refer to *)
(* are there (EntriesOpen, IdsLive).                                       *)
(*                                                                         *)
(* What a walk along the pointers visits is the least closed set, so every *)
(* fact about it is proved by exhibiting a closed set (VisitedLeast).      *)
(* Most rules take the topmost elements and make one of their operations   *)
(* (Makeover); RewriteInv says once what that keeps, and the lemma of a    *)
(* rule only says what the rule makes.                                     *)
(***************************************************************************)
EXTENDS OpGraph, FiniteSetTheorems, NaturalsInduction, SequenceTheorems, WellFoundedInduction, TLAPS

-----------------------------------------------------------------------------
(* The invariant.                                                          *)

\* Pointers between the operations up to n.
Ptrs(n) == [next : [Op -> 0 .. n], issue : [Op -> 0 .. n]]

\* What a walk from h along the pointers nx visits.
Visited(h, nx) ==
  {o \in Op : \A S \in SUBSET Op : h \in S \cup {NULL} /\ (\A q \in S : nx[q] \in S \cup {NULL}) => o \in S}

\* The operations of a chain, under the pointers p, and what ListsAreChains
\* says of it.
V(c, p) == Visited(c.head, p.next)

Good(c, p) ==
  c # Nil =>
    /\ c.tail \in V(c, p) /\ p.next[c.tail] = NULL
    /\ p.issue[c.head] = NULL
    /\ \A o \in V(c, p) : p.next[o] # NULL => p.issue[p.next[o]] = o

\* The same of an OP_List, of statements, of an element of the stack, and of
\* the stack: all their chains are good, and apart.
ListOps(l, p)  == V(l.chain, p) \cup V(l.post, p)
GoodList(l, p) ==
  Good(l.chain, p) /\ Good(l.post, p) /\ V(l.chain, p) \cap V(l.post, p) = {}

StmtOps(ss, p)  == UNION {V(ss[i].ops, p) : i \in DOMAIN ss}
GoodStmts(ss, p) ==
  /\ \A i \in DOMAIN ss : Good(ss[i].ops, p)
  /\ \A i, j \in DOMAIN ss : i # j => V(ss[i].ops, p) \cap V(ss[j].ops, p) = {}

ListsOps(ls, p)  == UNION {ListOps(ls[i], p) : i \in DOMAIN ls}
GoodLists(ls, p) ==
  /\ \A i \in DOMAIN ls : GoodList(ls[i], p)
  /\ \A i, j \in DOMAIN ls : i # j => ListOps(ls[i], p) \cap ListOps(ls[j], p) = {}

ItemOps(it, p)  == ListsOps(it.lists, p) \cup StmtOps(it.stmts, p)
GoodItem(it, p) ==
  /\ GoodLists(it.lists, p) /\ GoodStmts(it.stmts, p)
  /\ ListsOps(it.lists, p) \cap StmtOps(it.stmts, p) = {}

StackOps(st, p)  == UNION {ItemOps(st[k], p) : k \in DOMAIN st}
GoodStack(st, p) ==
  /\ \A k \in DOMAIN st : GoodItem(st[k], p)
  /\ \A j, k \in DOMAIN st : j # k => ItemOps(st[j], p) \cap ItemOps(st[k], p) = {}

\* The operations of the stack are those that are neither freed nor left out.
Accounted ==
  /\ freed \cap dropped = {}
  /\ StackOps(stack, Pointers) \cap (freed \cup dropped) = {}
  /\ parsing => 1 .. opNum \subseteq StackOps(stack, Pointers) \cup freed \cup dropped

\* Nothing points from operations that do not exist yet.
Fresh == \A o \in Op : o > opNum => next[o] = NULL /\ issue[o] = NULL

\* What the elements of a sort consist of.
Shape(it) ==
  /\ it.sort \in {"expr", "cond", "decl"} => Len(it.lists) = 1 /\ it.stmts = <<>>
  /\ it.sort = "then" => Len(it.lists) = 1
  /\ it.sort = "for" => Len(it.lists) <= 3 /\ it.stmts = <<>>
  /\ it.sort = "loop" => Len(it.lists) \in 2 .. 3 /\ it.stmts = <<>>
  /\ it.sort = "name" => it.lists = <<>> /\ it.stmts = <<>> /\ it.ids # <<>>
  /\ it.sort \in {"stmt", "block"} => it.lists = <<>>
  /\ it.sort # "expr" => \A i \in DOMAIN it.lists : it.lists[i].entry = NoEntry

\* What is on top of what: only expressions on an expression, and a declaration
\* only in a header that has just been opened.
Ordered ==
  /\ \A j, k \in DOMAIN stack : j < k /\ stack[j].sort = "expr" => stack[k].sort = "expr"
  /\ \A j \in DOMAIN stack :
       j + 1 \in DOMAIN stack /\ stack[j].sort = "for" /\ stack[j + 1].sort \in {"decl", "name"}
         => stack[j].lists = <<>>

\* Every element has its shape.
Shaped == \A k \in DOMAIN stack : Shape(stack[k])

\* An entry is there.
IsOpen(e) == e = NoEntry \/ (e[1] \in DOMAIN scopes /\ e[2] \in DOMAIN scopes[e[1]])

\* The entry an expression was read from is there.
EntriesOpen ==
  \A k \in DOMAIN stack : stack[k].sort = "expr" => IsOpen(stack[k].lists[1].entry)

\* What is declared has not been freed.
IdsLive ==
  \A k \in DOMAIN stack : \A i \in DOMAIN stack[k].ids : stack[k].ids[i][2] \notin freed

\* The elements that are blocks; each has a level.
Blocks(st) == {k \in DOMAIN st : st[k].sort = "block"}

\* A level of names.
Scope(n) == UNION {[D -> 0 .. n] : D \in SUBSET Name}

\* The inductive invariant.
GraphInv ==
  /\ TypeOK
  /\ parsing \/ stack = <<>>
  /\ Shaped /\ Ordered
  /\ GoodStack(stack, Pointers) /\ Accounted /\ Fresh
  /\ EntriesOpen /\ IdsLive /\ LocalsLive
-----------------------------------------------------------------------------
(* What a walk along the pointers visits.                                  *)

\* What a walk visits is closed under the pointers, and the least such set.
LEMMA VisitedClosed ==
  ASSUME NEW nx \in [Op -> Op \cup {NULL}], NEW h \in Op \cup {NULL}
  PROVE  /\ Visited(h, nx) \subseteq Op
         /\ h \in Visited(h, nx) \cup {NULL}
         /\ \A o \in Visited(h, nx) : nx[o] \in Visited(h, nx) \cup {NULL}
<1>1. ASSUME NEW o \in Visited(h, nx), nx[o] # NULL PROVE nx[o] \in Visited(h, nx)
  <2>1. nx[o] \in Op
    BY <1>1 DEF Visited
  <2>2. SUFFICES ASSUME NEW S \in SUBSET Op, h \in S \cup {NULL},
                        \A q \in S : nx[q] \in S \cup {NULL}
                 PROVE  nx[o] \in S
    BY <2>1 DEF Visited
  <2>3. o \in S
    BY <2>2 DEF Visited
  <2>4. QED
    BY <2>2, <2>3, <1>1
<1>2. QED
  BY <1>1 DEF Visited

\* It is within every set with the start that is closed under the pointers.
LEMMA VisitedLeast ==
  ASSUME NEW nx, NEW h, NEW S \in SUBSET Op, h \in S \cup {NULL},
         \A q \in S : nx[q] \in S \cup {NULL}
  PROVE  Visited(h, nx) \subseteq S
BY DEF Visited

\* Pointers elsewhere don't matter.
LEMMA VisitedFrame ==
  ASSUME NEW nx \in [Op -> Op \cup {NULL}], NEW ny \in [Op -> Op \cup {NULL}],
         NEW h \in Op \cup {NULL}, \A o \in Visited(h, nx) : ny[o] = nx[o]
  PROVE  Visited(h, ny) = Visited(h, nx)
<1>1. Visited(h, ny) \subseteq Visited(h, nx)
  <2>1. /\ Visited(h, nx) \in SUBSET Op /\ h \in Visited(h, nx) \cup {NULL}
        /\ \A o \in Visited(h, nx) : ny[o] \in Visited(h, nx) \cup {NULL}
    BY VisitedClosed
  <2>2. QED
    BY <2>1, VisitedLeast
<1>2. Visited(h, nx) \subseteq Visited(h, ny)
  <2>1. /\ Visited(h, ny) \in SUBSET Op /\ h \in Visited(h, ny) \cup {NULL}
        /\ \A o \in Visited(h, ny) : ny[o] \in Visited(h, ny) \cup {NULL}
    BY VisitedClosed
  <2>2. \A o \in Visited(h, ny) : nx[o] = ny[o]
    BY <1>1
  <2>3. \A o \in Visited(h, ny) : nx[o] \in Visited(h, ny) \cup {NULL}
    BY <2>1, <2>2
  <2>4. QED
    BY <2>1, <2>3, VisitedLeast
<1>3. QED
  BY <1>1, <1>2

\* NULL is no operation, and nothing is visited from there.
LEMMA VisitedNull == ASSUME NEW nx PROVE Visited(NULL, nx) = {}
<1>1. {} \in SUBSET Op /\ NULL \in {} \cup {NULL} /\ \A q \in {} : nx[q] \in {} \cup {NULL}
  OBVIOUS
<1>2. Visited(NULL, nx) \subseteq {}
  BY <1>1, VisitedLeast
<1>3. QED
  BY <1>2

\* NULL is not the number of an operation.
LEMMA NullIsNoOp == NULL \notin Op
BY DEF NULL, Op

-----------------------------------------------------------------------------
(* Frames, and chains.                                                     *)

\* p and q are the same for the operations in S.
Agree(p, q, S) == \A o \in S : p.next[o] = q.next[o] /\ p.issue[o] = q.issue[o]

\* How many operations there may be.
Count == 0 .. MaxOps

\* Pointers and chains as functions on all operations.
LEMMA PointerTypes ==
  ASSUME NEW n \in Count, NEW p \in Ptrs(n)
  PROVE  /\ p.next \in [Op -> Op \cup {NULL}] /\ p.issue \in [Op -> Op \cup {NULL}]
         /\ p.next \in [Op -> 0 .. n] /\ p.issue \in [Op -> 0 .. n]
         /\ p = [next |-> p.next, issue |-> p.issue]
<1>1. 0 .. n \subseteq Op \cup {NULL}
  BY OpAssumption DEF Count, Op, NULL
<1>2. QED
  BY <1>1 DEF Ptrs

\* Its ends are operations, or both are NULL.
LEMMA ChainTypes ==
  ASSUME NEW n \in Count, NEW c \in Chains(n)
  PROVE  /\ c.head \in Op \cup {NULL} /\ c.tail \in Op \cup {NULL}
         /\ c.head \in 0 .. n /\ c.tail \in 0 .. n
         /\ c # Nil => c.head \in Op /\ c.tail \in Op /\ c.head \in 1 .. n /\ c.tail \in 1 .. n
         /\ c = [head |-> c.head, tail |-> c.tail]
         /\ c = Nil <=> c.head = NULL
BY OpAssumption DEF Chains, Nil, Count, Op, NULL

\* The operations of a chain exist.
LEMMA OpsExist ==
  ASSUME NEW n \in Count, NEW p \in Ptrs(n), NEW c \in Chains(n)
  PROVE  V(c, p) \subseteq 1 .. n /\ V(c, p) \subseteq Op
<1>1. 1 .. n \in SUBSET Op
  BY OpAssumption DEF Op, Count
<1>2. c.head \in (1 .. n) \cup {NULL}
  BY DEF Chains, Nil, NULL, Count
<1>3. \A q \in 1 .. n : p.next[q] \in (1 .. n) \cup {NULL}
  <2>1. \A q \in 1 .. n : p.next[q] \in 0 .. n
    BY <1>1 DEF Ptrs
  <2>2. QED
    BY <2>1 DEF NULL, Count
<1> DEFINE S == 1 .. n
<1> HIDE DEF S
<1>4. S \in SUBSET Op /\ c.head \in S \cup {NULL} /\ \A q \in S : p.next[q] \in S \cup {NULL}
  BY <1>1, <1>2, <1>3 DEF S
<1>5. Visited(c.head, p.next) \subseteq S
  BY <1>4, VisitedLeast
<1>6. QED
  BY <1>1, <1>5 DEF V, S

\* The empty chain is good, and holds nothing.
LEMMA NilOps == ASSUME NEW p PROVE V(Nil, p) = {} /\ Good(Nil, p)
BY VisitedNull DEF V, Nil, Good

\* A chain that isn't changed stays good.
LEMMA ChainFrame ==
  ASSUME NEW n \in Count, NEW m \in Count, NEW p \in Ptrs(n), NEW q \in Ptrs(m),
         NEW c \in Chains(n), Agree(p, q, V(c, p))
  PROVE  V(c, q) = V(c, p) /\ (Good(c, p) => Good(c, q))
<1>1. c.head \in Op \cup {NULL} /\ (c # Nil => c.head \in Op)
  BY ChainTypes
<1>2. p.next \in [Op -> Op \cup {NULL}] /\ q.next \in [Op -> Op \cup {NULL}]
  BY PointerTypes
<1>3. V(c, q) = V(c, p)
  BY <1>1, <1>2, VisitedFrame DEF V, Agree
<1>4. ASSUME Good(c, p), c # Nil PROVE Good(c, q)
  <2>1. c.head \in V(c, p) /\ \A o \in V(c, p) : p.next[o] \in V(c, p) \cup {NULL}
    BY <1>1, <1>2, <1>4, VisitedClosed, NullIsNoOp DEF V
  <2>2. c.tail \in V(c, p) /\ p.next[c.tail] = NULL /\ p.issue[c.head] = NULL
    BY <1>4 DEF Good
  <2>3. \A o \in V(c, p) : p.next[o] # NULL => p.issue[p.next[o]] = o
    BY <1>4 DEF Good
  <2>4. q.next[c.tail] = NULL /\ q.issue[c.head] = NULL
    BY <2>1, <2>2 DEF Agree
  <2>5. ASSUME NEW o \in V(c, q), q.next[o] # NULL PROVE q.issue[q.next[o]] = o
    <3>1. o \in V(c, p) /\ q.next[o] = p.next[o]
      BY <1>3, <2>5 DEF Agree
    <3>2. p.next[o] \in V(c, p)
      BY <3>1, <2>1, <2>5
    <3>3. q.issue[p.next[o]] = p.issue[p.next[o]]
      BY <3>2 DEF Agree
    <3>4. QED
      BY <3>1, <3>3, <2>3, <2>5
  <2>6. QED
    BY <1>3, <2>2, <2>4, <2>5 DEF Good
<1>5. QED
  BY <1>3, <1>4 DEF Good

\* The chain of a new operation.
LEMMA SingleChain ==
  ASSUME NEW n \in Count, NEW p \in Ptrs(n), NEW o \in 1 .. n,
         p.next[o] = NULL, p.issue[o] = NULL
  PROVE  Single(o) \in Chains(n) /\ V(Single(o), p) = {o} /\ Good(Single(o), p)
<1>1. o \in Op /\ o # NULL
  BY OpAssumption DEF Op, NULL, Count
<1>2. Single(o) = [head |-> o, tail |-> o] /\ Single(o) \in Chains(n)
  BY <1>1 DEF Single, Chains
<1>3. V(Single(o), p) \subseteq {o}
  <2>1. {o} \in SUBSET Op /\ o \in {o} \cup {NULL} /\ \A q \in {o} : p.next[q] \in {o} \cup {NULL}
    BY <1>1
  <2>2. Visited(o, p.next) \subseteq {o}
    BY <2>1, VisitedLeast
  <2>3. QED
    BY <2>2, <1>2 DEF V
<1>4. o \in V(Single(o), p)
  <2>1. p.next \in [Op -> Op \cup {NULL}]
    BY PointerTypes
  <2>2. QED
    BY <2>1, <1>1, <1>2, VisitedClosed DEF V
<1>5. QED
  BY <1>2, <1>3, <1>4 DEF Good

\* Two chains that are apart become one of the operations of both, and nothing
\* else is changed.
LEMMA JoinTie ==
  ASSUME NEW n \in Count, NEW p \in Ptrs(n), NEW a \in Chains(n), NEW b \in Chains(n),
         Good(a, p), Good(b, p), V(a, p) \cap V(b, p) = {}
  PROVE  LET q == Tie(p, a, b)
             c == Join(a, b)
         IN  /\ q \in Ptrs(n) /\ c \in Chains(n)
             /\ Good(c, q) /\ V(c, q) = V(a, p) \cup V(b, p)
             /\ Agree(p, q, Op \ (V(a, p) \cup V(b, p)))
<1> DEFINE q == Tie(p, a, b)
           c == Join(a, b)
<1>1. CASE a = Nil
  BY <1>1, NilOps DEF Tie, Join, Agree
<1>2. CASE a # Nil /\ b = Nil
  BY <1>2, NilOps DEF Tie, Join, Agree
<1>3. CASE a # Nil /\ b # Nil
  <2> DEFINE t == a.tail
             h == b.head
             A == V(a, p)
             B == V(b, p)
  <2>1. /\ a.head \in Op /\ t \in Op /\ h \in Op /\ b.tail \in Op
        /\ a.head \in 1 .. n /\ t \in 1 .. n /\ h \in 1 .. n /\ b.tail \in 1 .. n
    BY <1>3, ChainTypes
  <2>2. /\ p.next \in [Op -> Op \cup {NULL}] /\ p.issue \in [Op -> Op \cup {NULL}]
        /\ p.next \in [Op -> 0 .. n] /\ p.issue \in [Op -> 0 .. n]
    BY PointerTypes
  <2>3. /\ q = [next |-> [p.next EXCEPT ![t] = h], issue |-> [p.issue EXCEPT ![h] = t]]
        /\ c = [head |-> a.head, tail |-> b.tail]
    BY <1>3 DEF Tie, Join
  <2>4. /\ q.next = [p.next EXCEPT ![t] = h] /\ q.issue = [p.issue EXCEPT ![h] = t]
        /\ c.head = a.head /\ c.tail = b.tail
    BY <2>3
  <2>5. q \in Ptrs(n) /\ c \in Chains(n)
    <3>1. t \in 0 .. n /\ h \in 0 .. n
      BY <2>1 DEF Count
    <3>2. [p.next EXCEPT ![t] = h] \in [Op -> 0 .. n] /\ [p.issue EXCEPT ![h] = t] \in [Op -> 0 .. n]
      BY <2>2, <3>1
    <3>3. q \in Ptrs(n)
      BY <2>3, <3>2 DEF Ptrs
    <3>4. c \in Chains(n)
      BY <2>1, <2>3 DEF Chains
    <3>5. QED
      BY <3>3, <3>4
  <2>6. /\ A \subseteq Op /\ a.head \in A /\ t \in A /\ p.next[t] = NULL /\ p.issue[a.head] = NULL
        /\ \A o \in A : p.next[o] \in A \cup {NULL}
        /\ \A o \in A : p.next[o] # NULL => p.issue[p.next[o]] = o
    BY <1>3, <2>1, <2>2, VisitedClosed, NullIsNoOp DEF V, Good
  <2>7. /\ B \subseteq Op /\ h \in B /\ b.tail \in B /\ p.next[b.tail] = NULL
        /\ \A o \in B : p.next[o] \in B \cup {NULL}
        /\ \A o \in B : p.next[o] # NULL => p.issue[p.next[o]] = o
    BY <1>3, <2>1, <2>2, VisitedClosed, NullIsNoOp DEF V, Good
  <2> HIDE DEF A, B, q, c
  <2>8. A \cap B = {}
    BY DEF A, B
  <2>9. \A o \in Op : /\ q.next[o] = IF o = t THEN h ELSE p.next[o]
                      /\ q.issue[o] = IF o = h THEN t ELSE p.issue[o]
    BY <2>4, <2>2
  <2>10. V(c, q) \subseteq A \cup B
    <3>1. \A o \in A \cup B : q.next[o] \in A \cup B \cup {NULL}
      BY <2>6, <2>7, <2>9
    <3>2. A \cup B \in SUBSET Op /\ c.head \in A \cup B \cup {NULL}
      BY <2>4, <2>6, <2>7
    <3>3. QED
      BY <3>1, <3>2, VisitedLeast DEF V
  <2>11. A \cup B \subseteq V(c, q)
    <3> DEFINE W == V(c, q)
    <3>1. W \subseteq Op /\ a.head \in W /\ \A o \in W : q.next[o] \in W \cup {NULL}
      <4>1. q.next \in [Op -> Op \cup {NULL}]
        BY <2>5, PointerTypes
      <4>2. QED
        BY <4>1, <2>1, <2>4, VisitedClosed, NullIsNoOp DEF V
    <3> HIDE DEF W
    <3>2. A \subseteq W
      <4>1. W \cap A \in SUBSET Op /\ a.head \in (W \cap A) \cup {NULL}
        BY <3>1, <2>6
      <4>2. \A o \in W \cap A : p.next[o] \in (W \cap A) \cup {NULL}
        <5> SUFFICES ASSUME NEW o \in W \cap A PROVE p.next[o] \in (W \cap A) \cup {NULL}
          OBVIOUS
        <5>1. CASE o = t
          BY <5>1, <2>6
        <5>2. CASE o # t
          <6>1. q.next[o] = p.next[o]
            BY <5>2, <2>6, <2>9
          <6>2. QED
            BY <6>1, <3>1, <2>6
        <5>3. QED
          BY <5>1, <5>2
      <4>3. V(a, p) \subseteq W \cap A
        BY <4>1, <4>2, VisitedLeast DEF V
      <4>4. QED
        BY <4>3 DEF A
    <3>3. h \in W
      BY <3>1, <3>2, <2>6, <2>9, <2>1, NullIsNoOp
    <3>4. B \subseteq W
      <4>1. W \cap B \in SUBSET Op /\ h \in (W \cap B) \cup {NULL}
        BY <3>1, <3>3, <2>7
      <4>2. \A o \in W \cap B : p.next[o] \in (W \cap B) \cup {NULL}
        <5> SUFFICES ASSUME NEW o \in W \cap B PROVE p.next[o] \in (W \cap B) \cup {NULL}
          OBVIOUS
        <5>1. o # t
          BY <2>6, <2>8
        <5>2. q.next[o] = p.next[o]
          BY <5>1, <2>7, <2>9
        <5>3. QED
          BY <5>2, <3>1, <2>7
      <4>3. V(b, p) \subseteq W \cap B
        BY <4>1, <4>2, VisitedLeast DEF V
      <4>4. QED
        BY <4>3 DEF B
    <3>5. QED
      BY <3>2, <3>4 DEF W
  <2>12. Good(c, q)
    <3>1. b.tail # t /\ a.head # h
      BY <2>6, <2>7, <2>8
    <3>2. q.next[c.tail] = NULL /\ q.issue[c.head] = NULL
      BY <3>1, <2>1, <2>4, <2>6, <2>7, <2>9
    <3>3. ASSUME NEW o \in A \cup B, q.next[o] # NULL PROVE q.issue[q.next[o]] = o
      <4>1. CASE o = t
        BY <4>1, <2>1, <2>9
      <4>2. CASE o # t /\ o \in A
        <5>1. q.next[o] = p.next[o] /\ p.next[o] \in A
          BY <4>2, <3>3, <2>6, <2>9
        <5>2. p.next[o] # h /\ p.next[o] \in Op
          BY <5>1, <2>6, <2>7, <2>8
        <5>3. QED
          BY <4>2, <5>1, <5>2, <2>6, <2>9, <3>3
      <4>3. CASE o # t /\ o \in B
        <5>1. q.next[o] = p.next[o] /\ p.next[o] \in B
          BY <4>3, <3>3, <2>7, <2>9
        <5>2. p.next[o] # h
          <6>1. h # Nil.head
            BY <2>1, NullIsNoOp DEF Nil
          <6>2. p.issue[h] = NULL
            BY <1>3 DEF Good
          <6>3. p.issue[p.next[o]] = o /\ o # NULL
            BY <4>3, <5>1, <2>7, <3>3, NullIsNoOp
          <6>4. QED
            BY <6>2, <6>3
        <5>3. p.next[o] \in Op
          BY <5>1, <2>7
        <5>4. QED
          BY <4>3, <5>1, <5>2, <5>3, <2>7, <2>9, <3>3
      <4>4. QED
        BY <4>1, <4>2, <4>3
    <3>4. c.tail \in A \cup B
      BY <2>4, <2>7
    <3>5. QED
      BY <3>2, <3>3, <3>4, <2>10, <2>11 DEF Good
  <2>13. Agree(p, q, Op \ (A \cup B))
    BY <2>6, <2>7, <2>9 DEF Agree
  <2>14. QED
    BY <2>5, <2>10, <2>11, <2>12, <2>13 DEF A, B, c, q
<1>4. QED
  BY <1>1, <1>2, <1>3
-----------------------------------------------------------------------------
(* Lists of operations.                                                    *)

\* Single of an operation that is not linked yet, or of NULL.
LEMMA SingleOrNil ==
  ASSUME NEW n \in Count, NEW p \in Ptrs(n), NEW o \in 0 .. n,
         o # NULL => p.next[o] = NULL /\ p.issue[o] = NULL
  PROVE  Single(o) \in Chains(n) /\ V(Single(o), p) = {o} \ {NULL} /\ Good(Single(o), p)
<1>1. CASE o = NULL
  BY <1>1, NilOps DEF Single, Chains
<1>2. CASE o # NULL
  <2>1. o \in 1 .. n
    BY <1>2 DEF NULL, Count
  <2>2. QED
    BY <2>1, <1>2, SingleChain
<1>3. QED
  BY <1>1, <1>2

\* The fields of an OP_List.
LEMMA ListTypes ==
  ASSUME NEW n \in Count, NEW l \in Lists(n)
  PROVE  l.chain \in Chains(n) /\ l.post \in Chains(n)
         /\ l.entry \in {NoEntry} \cup ((1 .. MaxStack + 1) \X Name)
BY DEF Lists

\* The operations of a list exist.
LEMMA ListOpsExist ==
  ASSUME NEW n \in Count, NEW p \in Ptrs(n), NEW l \in Lists(n)
  PROVE  ListOps(l, p) \subseteq 1 .. n /\ ListOps(l, p) \subseteq Op
BY ListTypes, OpsExist DEF ListOps

\* A list whose operations aren't changed stays good.
LEMMA ListFrame ==
  ASSUME NEW n \in Count, NEW m \in Count, NEW p \in Ptrs(n), NEW q \in Ptrs(m),
         NEW l \in Lists(n), Agree(p, q, ListOps(l, p))
  PROVE  ListOps(l, q) = ListOps(l, p) /\ (GoodList(l, p) => GoodList(l, q))
<1>1. l.chain \in Chains(n) /\ l.post \in Chains(n)
  BY ListTypes
<1>2. Agree(p, q, V(l.chain, p)) /\ Agree(p, q, V(l.post, p))
  BY DEF Agree, ListOps
<1>3. V(l.chain, q) = V(l.chain, p) /\ (Good(l.chain, p) => Good(l.chain, q))
  BY <1>1, <1>2, ChainFrame
<1>4. V(l.post, q) = V(l.post, p) /\ (Good(l.post, p) => Good(l.post, q))
  BY <1>1, <1>2, ChainFrame
<1>5. QED
  BY <1>3, <1>4 DEF ListOps, GoodList

\* AddToOPList joins two lists that are apart, and a new operation: the result
\* has the operations of all, in good order.
LEMMA AddListGood ==
  ASSUME NEW n \in Count, NEW p \in Ptrs(n), NEW l \in Lists(n), NEW r \in Lists(n),
         GoodList(l, p), GoodList(r, p), ListOps(l, p) \cap ListOps(r, p) = {},
         NEW o \in 0 .. n, o \notin ListOps(l, p) \cup ListOps(r, p),
         o # NULL => p.next[o] = NULL /\ p.issue[o] = NULL
  PROVE  LET q == TieLists(p, l, r, o)
             list == AddToOPList(l, r, o)
             S == ListOps(l, p) \cup ListOps(r, p) \cup ({o} \ {NULL})
         IN  /\ q \in Ptrs(n) /\ list \in Lists(n)
             /\ GoodList(list, q) /\ ListOps(list, q) = S /\ Agree(p, q, Op \ S)
<1> DEFINE LC == V(l.chain, p)
           LP == V(l.post, p)
           RC == V(r.chain, p)
           RP == V(r.post, p)
           one == Single(o)
           O == {o} \ {NULL}
           p1 == Tie(p, l.post, r.post)
           post == Join(l.post, r.post)
           p2 == Tie(p1, l.chain, r.chain)
           both == Join(l.chain, r.chain)
           p3 == Tie(p2, both, one)
           all == Join(both, one)
<1>1. /\ l.chain \in Chains(n) /\ l.post \in Chains(n) /\ r.chain \in Chains(n) /\ r.post \in Chains(n)
      /\ l.entry \in {NoEntry} \cup ((1 .. MaxStack + 1) \X Name)
      /\ r.entry \in {NoEntry} \cup ((1 .. MaxStack + 1) \X Name)
  BY ListTypes
<1>2. /\ Good(l.chain, p) /\ Good(l.post, p) /\ Good(r.chain, p) /\ Good(r.post, p)
      /\ LC \cap LP = {} /\ RC \cap RP = {} /\ LC \cap RC = {} /\ LC \cap RP = {}
      /\ LP \cap RC = {} /\ LP \cap RP = {}
      /\ O \cap LC = {} /\ O \cap LP = {} /\ O \cap RC = {} /\ O \cap RP = {}
  BY DEF GoodList, ListOps
<1>3. one \in Chains(n) /\ V(one, p) = O /\ Good(one, p)
  BY SingleOrNil
<1>4. /\ LC \subseteq Op /\ LP \subseteq Op /\ RC \subseteq Op /\ RP \subseteq Op /\ O \subseteq Op
  BY <1>1, <1>3, OpsExist
<1>5. /\ p1 \in Ptrs(n) /\ post \in Chains(n) /\ Good(post, p1) /\ V(post, p1) = LP \cup RP
      /\ Agree(p, p1, Op \ (LP \cup RP))
  <2>1. V(l.post, p) \cap V(r.post, p) = {}
    BY <1>2
  <2>2. QED
    BY <2>1, <1>1, <1>2, JoinTie
<1> HIDE DEF LC, LP, RC, RP, O, one, p1, post, p2, both, p3, all
<1>6. /\ V(l.chain, p1) = LC /\ Good(l.chain, p1)
      /\ V(r.chain, p1) = RC /\ Good(r.chain, p1)
      /\ V(one, p1) = O /\ Good(one, p1)
  <2>1. Agree(p, p1, LC) /\ Agree(p, p1, RC) /\ Agree(p, p1, O)
    BY <1>2, <1>4, <1>5 DEF Agree
  <2>2. V(l.chain, p1) = LC /\ Good(l.chain, p1)
    BY <2>1, <1>1, <1>2, <1>5, ChainFrame DEF LC
  <2>3. V(r.chain, p1) = RC /\ Good(r.chain, p1)
    BY <2>1, <1>1, <1>2, <1>5, ChainFrame DEF RC
  <2>4. V(one, p1) = O /\ Good(one, p1)
    BY <2>1, <1>3, <1>5, ChainFrame
  <2>5. QED
    BY <2>2, <2>3, <2>4
<1>7. /\ p2 \in Ptrs(n) /\ both \in Chains(n) /\ Good(both, p2) /\ V(both, p2) = LC \cup RC
      /\ Agree(p1, p2, Op \ (LC \cup RC))
  <2>1. V(l.chain, p1) \cap V(r.chain, p1) = {}
    BY <1>2, <1>6
  <2>2. QED
    BY <2>1, <1>1, <1>5, <1>6, JoinTie DEF p2, both
<1>8. V(one, p2) = O /\ Good(one, p2) /\ V(post, p2) = LP \cup RP /\ Good(post, p2)
  <2>1. Agree(p1, p2, V(one, p1)) /\ Agree(p1, p2, V(post, p1))
    BY <1>2, <1>4, <1>5, <1>6, <1>7 DEF Agree
  <2>2. V(one, p2) = O /\ Good(one, p2)
    BY <2>1, <1>3, <1>5, <1>6, <1>7, ChainFrame
  <2>3. V(post, p2) = LP \cup RP /\ Good(post, p2)
    <3>1. V(post, p2) = V(post, p1) /\ (Good(post, p1) => Good(post, p2))
      BY <2>1, <1>5, <1>7, ChainFrame
    <3>2. QED
      BY <3>1, <1>5
  <2>4. QED
    BY <2>2, <2>3
<1>9. /\ p3 \in Ptrs(n) /\ all \in Chains(n) /\ Good(all, p3) /\ V(all, p3) = LC \cup RC \cup O
      /\ Agree(p2, p3, Op \ (LC \cup RC \cup O))
  <2>1. V(both, p2) \cap V(one, p2) = {}
    BY <1>2, <1>7, <1>8
  <2>2. QED
    BY <2>1, <1>3, <1>7, <1>8, JoinTie DEF p3, all
<1>10. V(post, p3) = LP \cup RP /\ Good(post, p3)
  <2>1. Agree(p2, p3, V(post, p2))
    BY <1>2, <1>4, <1>8, <1>9 DEF Agree
  <2>2. V(post, p3) = V(post, p2) /\ (Good(post, p2) => Good(post, p3))
    BY <2>1, <1>5, <1>7, <1>9, ChainFrame
  <2>3. QED
    BY <2>2, <1>8
<1>11. Agree(p, p3, Op \ (LC \cup LP \cup RC \cup RP \cup O))
  BY <1>5, <1>7, <1>9 DEF Agree
<1>12. /\ TieLists(p, l, r, o) = p3
       /\ AddToOPList(l, r, o).chain = all /\ AddToOPList(l, r, o).post = post
       /\ AddToOPList(l, r, o) \in Lists(n)
  BY <1>1, <1>5, <1>9 DEF TieLists, AddToOPList, Lists, p1, p2, p3, post, both, all, one
<1>13. ListOps(l, p) \cup ListOps(r, p) \cup ({o} \ {NULL}) = LC \cup LP \cup RC \cup RP \cup O
  BY DEF ListOps, LC, LP, RC, RP, O
<1>14. GoodList(AddToOPList(l, r, o), p3)
  BY <1>2, <1>9, <1>10, <1>12 DEF GoodList
<1>15. ListOps(AddToOPList(l, r, o), p3) = LC \cup LP \cup RC \cup RP \cup O
  BY <1>9, <1>10, <1>12 DEF ListOps
<1>16. QED
  BY <1>9, <1>11, <1>12, <1>13, <1>14, <1>15

-----------------------------------------------------------------------------
(* Statements.                                                             *)

\* The types of statements.
Types == {"EXPRESSION", "SELECTION", "ITERATION", "IF", "ELSE", "end"}

\* Statements are a sequence of chains.
LEMMA StmtTypes ==
  ASSUME NEW n \in Count, NEW ss \in Seq(Stmts(n))
  PROVE  /\ Len(ss) \in Nat /\ DOMAIN ss = 1 .. Len(ss)
         /\ \A i \in DOMAIN ss : ss[i] \in Stmts(n) /\ ss[i].ops \in Chains(n)
<1>1. Len(ss) \in Nat /\ DOMAIN ss = 1 .. Len(ss)
  BY LenProperties
<1>2. \A i \in 1 .. Len(ss) : ss[i] \in Stmts(n)
  BY ElementOfSeq
<1>3. \A s \in Stmts(n) : s.ops \in Chains(n)
  BY DEF Stmts
<1>4. QED
  BY <1>1, <1>2, <1>3

\* The operations of statements exist.
LEMMA StmtOpsExist ==
  ASSUME NEW n \in Count, NEW p \in Ptrs(n), NEW ss \in Seq(Stmts(n))
  PROVE  StmtOps(ss, p) \subseteq 1 .. n /\ StmtOps(ss, p) \subseteq Op
<1>1. \A i \in DOMAIN ss : ss[i].ops \in Chains(n)
  BY StmtTypes
<1>2. \A i \in DOMAIN ss : V(ss[i].ops, p) \subseteq 1 .. n /\ V(ss[i].ops, p) \subseteq Op
  BY <1>1, OpsExist
<1>3. QED
  BY <1>2 DEF StmtOps

\* Statements whose operations aren't changed stay good.
LEMMA StmtsFrame ==
  ASSUME NEW n \in Count, NEW m \in Count, NEW p \in Ptrs(n), NEW q \in Ptrs(m),
         NEW ss \in Seq(Stmts(n)), Agree(p, q, StmtOps(ss, p))
  PROVE  StmtOps(ss, q) = StmtOps(ss, p) /\ (GoodStmts(ss, p) => GoodStmts(ss, q))
<1>1. \A i \in DOMAIN ss : ss[i].ops \in Chains(n) /\ Agree(p, q, V(ss[i].ops, p))
  BY StmtTypes DEF Agree, StmtOps
<1>2. \A i \in DOMAIN ss : V(ss[i].ops, q) = V(ss[i].ops, p) /\ (Good(ss[i].ops, p) => Good(ss[i].ops, q))
  BY <1>1, ChainFrame
<1>3. QED
  BY <1>2 DEF StmtOps, GoodStmts

\* No statements hold nothing.
LEMMA NoStmts == ASSUME NEW p PROVE GoodStmts(<<>>, p) /\ StmtOps(<<>>, p) = {}
BY DEF GoodStmts, StmtOps

\* A statement of one chain.
LEMMA OneStmt ==
  ASSUME NEW n \in Count, NEW p \in Ptrs(n), NEW s \in Stmts(n), Good(s.ops, p)
  PROVE  <<s>> \in Seq(Stmts(n)) /\ GoodStmts(<<s>>, p) /\ StmtOps(<<s>>, p) = V(s.ops, p)
BY DEF GoodStmts, StmtOps

\* Good statements that are apart are good one after the other.
LEMMA ConcatGood ==
  ASSUME NEW n \in Count, NEW p \in Ptrs(n), NEW a \in Seq(Stmts(n)), NEW b \in Seq(Stmts(n)),
         GoodStmts(a, p), GoodStmts(b, p), StmtOps(a, p) \cap StmtOps(b, p) = {}
  PROVE  /\ a \o b \in Seq(Stmts(n)) /\ GoodStmts(a \o b, p)
         /\ StmtOps(a \o b, p) = StmtOps(a, p) \cup StmtOps(b, p)
<1> DEFINE c == a \o b
           C(i) == V(c[i].ops, p)
<1>1. /\ c \in Seq(Stmts(n)) /\ Len(c) = Len(a) + Len(b)
      /\ \A i \in 1 .. Len(a) + Len(b) : c[i] = IF i <= Len(a) THEN a[i] ELSE b[i - Len(a)]
  BY ConcatProperties
<1>2. /\ Len(a) \in Nat /\ Len(b) \in Nat /\ Len(c) \in Nat
      /\ DOMAIN a = 1 .. Len(a) /\ DOMAIN b = 1 .. Len(b) /\ DOMAIN c = 1 .. Len(c)
  BY <1>1, StmtTypes
<1> HIDE DEF c
<1>3. ASSUME NEW i \in DOMAIN c
      PROVE  \/ i \in DOMAIN a /\ c[i] = a[i]
             \/ i - Len(a) \in DOMAIN b /\ c[i] = b[i - Len(a)]
  BY <1>1, <1>2
<1>4. \A i \in DOMAIN a : i \in DOMAIN c /\ c[i] = a[i]
  BY <1>1, <1>2
<1>5. ASSUME NEW i \in DOMAIN b PROVE i + Len(a) \in DOMAIN c /\ c[i + Len(a)] = b[i]
  <2>1. i + Len(a) \in 1 .. Len(a) + Len(b) /\ ~(i + Len(a) <= Len(a)) /\ (i + Len(a)) - Len(a) = i
    BY <1>2
  <2>2. QED
    BY <2>1, <1>1, <1>2
<1>6. GoodStmts(c, p)
  <2>1. \A i \in DOMAIN c : Good(c[i].ops, p)
    BY <1>3 DEF GoodStmts
  <2>2. ASSUME NEW i \in DOMAIN c, NEW j \in DOMAIN c, i # j
        PROVE  V(c[i].ops, p) \cap V(c[j].ops, p) = {}
    <3>1. CASE i \in DOMAIN a /\ c[i] = a[i] /\ j \in DOMAIN a /\ c[j] = a[j]
      BY <2>2, <3>1 DEF GoodStmts
    <3>2. CASE i - Len(a) \in DOMAIN b /\ c[i] = b[i - Len(a)] /\ j - Len(a) \in DOMAIN b /\ c[j] = b[j - Len(a)]
      <4>1. i - Len(a) # j - Len(a)
        BY <1>2, <2>2
      <4>2. QED
        BY <4>1, <3>2 DEF GoodStmts
    <3>3. CASE i \in DOMAIN a /\ c[i] = a[i] /\ j - Len(a) \in DOMAIN b /\ c[j] = b[j - Len(a)]
      BY <3>3 DEF StmtOps
    <3>4. CASE j \in DOMAIN a /\ c[j] = a[j] /\ i - Len(a) \in DOMAIN b /\ c[i] = b[i - Len(a)]
      BY <3>4 DEF StmtOps
    <3>5. QED
      BY <1>3, <3>1, <3>2, <3>3, <3>4
  <2>3. QED
    BY <2>1, <2>2 DEF GoodStmts
<1>7. StmtOps(c, p) \subseteq StmtOps(a, p) \cup StmtOps(b, p)
  BY <1>3 DEF StmtOps
<1>8. StmtOps(a, p) \subseteq StmtOps(c, p)
  BY <1>4 DEF StmtOps
<1>9. StmtOps(b, p) \subseteq StmtOps(c, p)
  <2> SUFFICES ASSUME NEW i \in DOMAIN b PROVE V(b[i].ops, p) \subseteq StmtOps(c, p)
    BY DEF StmtOps
  <2>1. QED
    BY <1>5 DEF StmtOps
<1>10. QED
  BY <1>1, <1>6, <1>7, <1>8, <1>9 DEF c

\* The statements but the last, and the last; the first, and the others.
LEMMA FrontLast ==
  ASSUME NEW n \in Count, NEW p \in Ptrs(n), NEW a \in Seq(Stmts(n)), a # <<>>, GoodStmts(a, p)
  PROVE  /\ Front(a) \in Seq(Stmts(n)) /\ GoodStmts(Front(a), p)
         /\ Last(a) \in Stmts(n) /\ Good(Last(a).ops, p)
         /\ StmtOps(Front(a), p) \cap V(Last(a).ops, p) = {}
         /\ StmtOps(a, p) = StmtOps(Front(a), p) \cup V(Last(a).ops, p)
<1> DEFINE f == Front(a)
<1>1. Len(a) \in Nat \ {0} /\ DOMAIN a = 1 .. Len(a) /\ \A i \in 1 .. Len(a) : a[i] \in Stmts(n)
  BY StmtTypes, EmptySeq
<1>2. f \in Seq(Stmts(n)) /\ Len(f) = Len(a) - 1 /\ \A i \in 1 .. Len(a) - 1 : f[i] = a[i]
  <2>1. /\ SubSeq(a, 1, Len(a) - 1) \in Seq(Stmts(n))
        /\ Len(SubSeq(a, 1, Len(a) - 1)) = Len(a) - 1
        /\ \A i \in 1 .. Len(a) - 1 : SubSeq(a, 1, Len(a) - 1)[i] = a[i]
    BY <1>1
  <2>2. QED
    BY <2>1 DEF Front
<1>3. DOMAIN f = 1 .. Len(a) - 1
  BY <1>2, StmtTypes
<1>4. Last(a) = a[Len(a)] /\ Len(a) \in DOMAIN a
  BY <1>1 DEF Last
<1> HIDE DEF f
<1>5. \A i \in DOMAIN f : i \in DOMAIN a /\ f[i] = a[i] /\ i # Len(a)
  BY <1>1, <1>2, <1>3
<1>6. \A i \in DOMAIN a : i \in DOMAIN f \/ i = Len(a)
  BY <1>1, <1>3
<1>7. GoodStmts(f, p)
  BY <1>5 DEF GoodStmts
<1>8. StmtOps(f, p) \cap V(a[Len(a)].ops, p) = {}
  BY <1>4, <1>5 DEF GoodStmts, StmtOps
<1>9. StmtOps(a, p) = StmtOps(f, p) \cup V(a[Len(a)].ops, p)
  BY <1>4, <1>5, <1>6 DEF StmtOps
<1>10. QED
  BY <1>1, <1>2, <1>4, <1>7, <1>8, <1>9 DEF GoodStmts, f

\* A list of statements is its first and the rest.
LEMMA HeadTail ==
  ASSUME NEW n \in Count, NEW p \in Ptrs(n), NEW a \in Seq(Stmts(n)), a # <<>>, GoodStmts(a, p)
  PROVE  /\ Tail(a) \in Seq(Stmts(n)) /\ GoodStmts(Tail(a), p)
         /\ Head(a) \in Stmts(n) /\ Good(Head(a).ops, p)
         /\ V(Head(a).ops, p) \cap StmtOps(Tail(a), p) = {}
         /\ StmtOps(a, p) = V(Head(a).ops, p) \cup StmtOps(Tail(a), p)
<1> DEFINE f == Tail(a)
<1>1. Len(a) \in Nat \ {0} /\ DOMAIN a = 1 .. Len(a) /\ \A i \in 1 .. Len(a) : a[i] \in Stmts(n)
  BY StmtTypes, EmptySeq
<1>2. f \in Seq(Stmts(n)) /\ Len(f) = Len(a) - 1 /\ \A i \in 1 .. Len(f) : f[i] = a[i + 1]
  BY HeadTailProperties
<1>3. DOMAIN f = 1 .. Len(a) - 1
  BY <1>2, StmtTypes
<1>4. Head(a) = a[1] /\ 1 \in DOMAIN a
  BY <1>1
<1> HIDE DEF f
<1>5. \A i \in DOMAIN f : i + 1 \in DOMAIN a /\ f[i] = a[i + 1] /\ i + 1 # 1
  BY <1>1, <1>2, <1>3
<1>6. \A i \in DOMAIN a : i = 1 \/ (i - 1 \in DOMAIN f /\ f[i - 1] = a[i])
  BY <1>1, <1>2, <1>3
<1>7. GoodStmts(f, p)
  <2>1. \A i, j \in DOMAIN f : i # j => i + 1 # j + 1
    BY <1>3
  <2>2. QED
    BY <2>1, <1>5 DEF GoodStmts
<1>8. StmtOps(f, p) \cap V(a[1].ops, p) = {}
  <2>1. ASSUME NEW i \in DOMAIN f PROVE V(f[i].ops, p) \cap V(a[1].ops, p) = {}
    <3>1. i + 1 \in DOMAIN a /\ f[i] = a[i + 1] /\ i + 1 # 1
      BY <1>5
    <3>2. QED
      BY <3>1, <1>4 DEF GoodStmts
  <2>2. QED
    BY <2>1 DEF StmtOps
<1>9. StmtOps(a, p) = V(a[1].ops, p) \cup StmtOps(f, p)
  <2>1. StmtOps(a, p) \subseteq V(a[1].ops, p) \cup StmtOps(f, p)
    BY <1>6 DEF StmtOps
  <2>2. StmtOps(f, p) \subseteq StmtOps(a, p)
    BY <1>5 DEF StmtOps
  <2>3. V(a[1].ops, p) \subseteq StmtOps(a, p)
    BY <1>4 DEF StmtOps
  <2>4. QED
    BY <2>1, <2>2, <2>3
<1>10. QED
  BY <1>1, <1>2, <1>4, <1>7, <1>8, <1>9 DEF GoodStmts, f
-----------------------------------------------------------------------------
(* What CreateSTMT, Nest and AddToSTMTList return.                         *)

\* A list of statements that has been made of the operations in S, from good
\* ones, with the pointers that are left.
Makes(a, p, S, n) ==
  /\ a.ptrs \in Ptrs(n) /\ a.stmts \in Seq(Stmts(n))
  /\ GoodStmts(a.stmts, a.ptrs) /\ StmtOps(a.stmts, a.ptrs) = S
  /\ Agree(p, a.ptrs, Op \ S)

\* CreateSTMT joins the two chains of a list.
LEMMA CreateSTMTMakes ==
  ASSUME NEW n \in Count, NEW p \in Ptrs(n), NEW l \in Lists(n), GoodList(l, p)
  PROVE  Makes(CreateSTMT(p, l), p, ListOps(l, p), n)
<1> DEFINE q == Tie(p, l.chain, l.post)
           c == Join(l.chain, l.post)
           a == CreateSTMT(p, l)
<1>1. l.chain \in Chains(n) /\ l.post \in Chains(n)
  BY ListTypes
<1>2. Good(l.chain, p) /\ Good(l.post, p) /\ V(l.chain, p) \cap V(l.post, p) = {}
  BY DEF GoodList
<1>3. /\ q \in Ptrs(n) /\ c \in Chains(n) /\ Good(c, q) /\ V(c, q) = ListOps(l, p)
      /\ Agree(p, q, Op \ ListOps(l, p))
  BY <1>1, <1>2, JoinTie DEF ListOps
<1>4. a.ptrs = q /\ a.stmts = IF c = Nil THEN <<>> ELSE <<Expression(c)>>
  BY DEF CreateSTMT
<1> HIDE DEF q, c, a
<1>5. CASE c = Nil
  <2>1. ListOps(l, p) = {}
    BY <1>3, <1>5, NilOps
  <2>2. a.stmts = <<>> /\ <<>> \in Seq(Stmts(n))
    BY <1>4, <1>5
  <2>3. QED
    BY <1>3, <1>4, <2>1, <2>2, NoStmts DEF Makes, a
<1>6. CASE c # Nil
  <2>1. Expression(c) \in Stmts(n) /\ Expression(c).ops = c
    BY <1>3 DEF Expression, Stmts
  <2>2. <<Expression(c)>> \in Seq(Stmts(n)) /\ GoodStmts(<<Expression(c)>>, q)
        /\ StmtOps(<<Expression(c)>>, q) = V(c, q)
    BY <1>3, <2>1, OneStmt
  <2>3. QED
    BY <1>3, <1>4, <1>6, <2>2 DEF Makes, a
<1>7. QED
  BY <1>5, <1>6

\* Nesting adds no operations.
LEMMA NestGood ==
  ASSUME NEW n \in Count, NEW p \in Ptrs(n), NEW ss \in Seq(Stmts(n)), GoodStmts(ss, p),
         NEW type \in Types
  PROVE  /\ Nest(type, ss) \in Seq(Stmts(n)) /\ GoodStmts(Nest(type, ss), p)
         /\ StmtOps(Nest(type, ss), p) = StmtOps(ss, p)
<1>1. CASE ss = <<>>
  BY <1>1 DEF Nest
<1>2. CASE ss # <<>>
  <2> DEFINE x == <<Mark(type)>>
             y == <<Mark("end")>>
  <2>1. /\ Mark(type) \in Stmts(n) /\ Mark(type).ops = Nil
        /\ Mark("end") \in Stmts(n) /\ Mark("end").ops = Nil
    BY DEF Mark, Stmts, Types, Chains
  <2>2. x \in Seq(Stmts(n)) /\ GoodStmts(x, p) /\ StmtOps(x, p) = {}
    BY <2>1, NilOps, OneStmt
  <2>3. y \in Seq(Stmts(n)) /\ GoodStmts(y, p) /\ StmtOps(y, p) = {}
    BY <2>1, NilOps, OneStmt
  <2> HIDE DEF x, y
  <2>4. x \o ss \in Seq(Stmts(n)) /\ GoodStmts(x \o ss, p) /\ StmtOps(x \o ss, p) = StmtOps(ss, p)
    <3>1. StmtOps(x, p) \cap StmtOps(ss, p) = {}
      BY <2>2
    <3>2. /\ x \o ss \in Seq(Stmts(n)) /\ GoodStmts(x \o ss, p)
          /\ StmtOps(x \o ss, p) = StmtOps(x, p) \cup StmtOps(ss, p)
      BY <2>2, <3>1, ConcatGood
    <3>3. QED
      BY <2>2, <3>2
  <2> DEFINE z == x \o ss
  <2> HIDE DEF z
  <2>5. z \in Seq(Stmts(n)) /\ GoodStmts(z, p) /\ StmtOps(z, p) = StmtOps(ss, p)
    BY <2>4 DEF z
  <2>6. /\ z \o y \in Seq(Stmts(n)) /\ GoodStmts(z \o y, p)
        /\ StmtOps(z \o y, p) = StmtOps(ss, p)
    <3>1. StmtOps(z, p) \cap StmtOps(y, p) = {}
      BY <2>3
    <3>2. /\ z \o y \in Seq(Stmts(n)) /\ GoodStmts(z \o y, p)
          /\ StmtOps(z \o y, p) = StmtOps(z, p) \cup StmtOps(y, p)
      BY <2>3, <2>5, <3>1, ConcatGood
    <3>3. QED
      BY <2>3, <2>5, <3>2
  <2>7. QED
    BY <1>2, <2>6 DEF Nest, x, y, z
<1>3. QED
  BY <1>1, <1>2

\* AddToSTMTList: good lists of statements that are apart become one.
LEMMA AddStmtsMakes ==
  ASSUME NEW n \in Count, NEW p \in Ptrs(n), NEW a \in Seq(Stmts(n)), NEW b \in Seq(Stmts(n)),
         GoodStmts(a, p), GoodStmts(b, p), StmtOps(a, p) \cap StmtOps(b, p) = {}
  PROVE  Makes(AddToSTMTList(p, a, b), p, StmtOps(a, p) \cup StmtOps(b, p), n)
<1>1. CASE ~Adjacent(a, b)
  <2>1. AddToSTMTList(p, a, b) = [stmts |-> a \o b, ptrs |-> p]
    BY <1>1 DEF AddToSTMTList
  <2>2. QED
    BY <2>1, ConcatGood DEF Makes, Agree
<1>2. CASE Adjacent(a, b)
  <2> DEFINE e == Last(a).ops
             f == Head(b).ops
             q == Tie(p, e, f)
             c == Join(e, f)
             x == Front(a)
             y == <<Expression(c)>>
             z == Tail(b)
             A == StmtOps(x, p)
             B == StmtOps(z, p)
             E == V(e, p)
             F == V(f, p)
  <2>0. a # <<>> /\ b # <<>>
    BY <1>2 DEF Adjacent
  <2>1. /\ x \in Seq(Stmts(n)) /\ GoodStmts(x, p) /\ Last(a) \in Stmts(n)
        /\ Good(e, p) /\ A \cap E = {} /\ StmtOps(a, p) = A \cup E
    BY <2>0, FrontLast
  <2>2. /\ z \in Seq(Stmts(n)) /\ GoodStmts(z, p) /\ Head(b) \in Stmts(n)
        /\ Good(f, p) /\ F \cap B = {} /\ StmtOps(b, p) = F \cup B
    BY <2>0, HeadTail
  <2>3. e \in Chains(n) /\ f \in Chains(n)
    BY <2>1, <2>2 DEF Stmts
  <2>4. A \cap B = {} /\ A \cap F = {} /\ E \cap B = {} /\ E \cap F = {}
    BY <2>1, <2>2
  <2>5. /\ q \in Ptrs(n) /\ c \in Chains(n) /\ Good(c, q) /\ V(c, q) = E \cup F
        /\ Agree(p, q, Op \ (E \cup F))
    BY <2>1, <2>2, <2>3, <2>4, JoinTie
  <2>6. Expression(c) \in Stmts(n) /\ Expression(c).ops = c
    BY <2>5 DEF Expression, Stmts
  <2>7. AddToSTMTList(p, a, b) = [stmts |-> (x \o y) \o z, ptrs |-> q]
    BY <1>2 DEF AddToSTMTList
  <2>8. y \in Seq(Stmts(n)) /\ GoodStmts(y, q) /\ StmtOps(y, q) = E \cup F
    BY <2>5, <2>6, OneStmt
  <2> HIDE DEF e, f, q, c, x, y, z
  <2>9. A \subseteq Op /\ B \subseteq Op
    BY <2>1, <2>2, StmtOpsExist
  <2>10. Agree(p, q, A) /\ Agree(p, q, B)
    BY <2>1, <2>2, <2>4, <2>5, <2>9 DEF Agree
  <2>11. StmtOps(x, q) = A /\ GoodStmts(x, q)
    BY <2>1, <2>5, <2>10, StmtsFrame
  <2>12. StmtOps(z, q) = B /\ GoodStmts(z, q)
    BY <2>2, <2>5, <2>10, StmtsFrame
  <2> HIDE DEF A, B, E, F
  <2> DEFINE w == x \o y
  <2>13. w \in Seq(Stmts(n)) /\ GoodStmts(w, q) /\ StmtOps(w, q) = A \cup E \cup F
    <3>1. StmtOps(x, q) \cap StmtOps(y, q) = {}
      BY <2>1, <2>4, <2>8, <2>11
    <3>2. /\ w \in Seq(Stmts(n)) /\ GoodStmts(w, q)
          /\ StmtOps(w, q) = StmtOps(x, q) \cup StmtOps(y, q)
      BY <3>1, <2>1, <2>5, <2>8, <2>11, ConcatGood
    <3>3. QED
      BY <3>2, <2>8, <2>11
  <2> HIDE DEF w
  <2>14. /\ w \o z \in Seq(Stmts(n)) /\ GoodStmts(w \o z, q)
         /\ StmtOps(w \o z, q) = A \cup E \cup F \cup B
    <3>1. StmtOps(w, q) \cap StmtOps(z, q) = {}
      BY <2>2, <2>4, <2>12, <2>13
    <3>2. /\ w \o z \in Seq(Stmts(n)) /\ GoodStmts(w \o z, q)
          /\ StmtOps(w \o z, q) = StmtOps(w, q) \cup StmtOps(z, q)
      BY <3>1, <2>2, <2>5, <2>12, <2>13, ConcatGood
    <3>3. QED
      BY <3>2, <2>12, <2>13
  <2>15. AddToSTMTList(p, a, b) = [stmts |-> w \o z, ptrs |-> q]
    BY <2>7 DEF w
  <2>16. StmtOps(a, p) \cup StmtOps(b, p) = A \cup E \cup F \cup B
    BY <2>1, <2>2
  <2>17. Agree(p, q, Op \ (A \cup E \cup F \cup B))
    BY <2>5 DEF Agree
  <2> DEFINE r == AddToSTMTList(p, a, b)
  <2>18. r.stmts = w \o z /\ r.ptrs = q
    BY <2>15
  <2> HIDE DEF r
  <2>19. Makes(r, p, A \cup E \cup F \cup B, n)
    BY <2>5, <2>14, <2>17, <2>18 DEF Makes
  <2>20. QED
    BY <2>16, <2>19 DEF r
<1>3. QED
  BY <1>1, <1>2

-----------------------------------------------------------------------------
(* Elements of the stack.                                                  *)

\* The fields of an element of the stack.
LEMMA ItemTypes ==
  ASSUME NEW n \in Count, NEW it \in Items(n)
  PROVE  /\ it.lists \in Seq(Lists(n)) /\ it.stmts \in Seq(Stmts(n))
         /\ Len(it.lists) \in Nat /\ DOMAIN it.lists = 1 .. Len(it.lists)
         /\ \A i \in DOMAIN it.lists : it.lists[i] \in Lists(n)
<1>1. it.lists \in Seq(Lists(n)) /\ it.stmts \in Seq(Stmts(n))
  BY DEF Items
<1>2. Len(it.lists) \in Nat /\ DOMAIN it.lists = 1 .. Len(it.lists)
  BY <1>1, LenProperties
<1>3. \A i \in 1 .. Len(it.lists) : it.lists[i] \in Lists(n)
  BY <1>1, ElementOfSeq
<1>4. QED
  BY <1>1, <1>2, <1>3

\* The operations of an element exist.
LEMMA ItemOpsExist ==
  ASSUME NEW n \in Count, NEW p \in Ptrs(n), NEW it \in Items(n)
  PROVE  ItemOps(it, p) \subseteq 1 .. n /\ ItemOps(it, p) \subseteq Op
<1>1. \A i \in DOMAIN it.lists : ListOps(it.lists[i], p) \subseteq 1 .. n /\ ListOps(it.lists[i], p) \subseteq Op
  BY ItemTypes, ListOpsExist
<1>2. StmtOps(it.stmts, p) \subseteq 1 .. n /\ StmtOps(it.stmts, p) \subseteq Op
  BY ItemTypes, StmtOpsExist
<1>3. QED
  BY <1>1, <1>2 DEF ItemOps, ListsOps

\* An element whose operations aren't changed stays good.
LEMMA ItemFrame ==
  ASSUME NEW n \in Count, NEW m \in Count, NEW p \in Ptrs(n), NEW q \in Ptrs(m),
         NEW it \in Items(n), Agree(p, q, ItemOps(it, p))
  PROVE  ItemOps(it, q) = ItemOps(it, p) /\ (GoodItem(it, p) => GoodItem(it, q))
<1>1. \A i \in DOMAIN it.lists : it.lists[i] \in Lists(n) /\ Agree(p, q, ListOps(it.lists[i], p))
  BY ItemTypes DEF Agree, ItemOps, ListsOps
<1>2. \A i \in DOMAIN it.lists : /\ ListOps(it.lists[i], q) = ListOps(it.lists[i], p)
                                 /\ GoodList(it.lists[i], p) => GoodList(it.lists[i], q)
  BY <1>1, ListFrame
<1>3. it.stmts \in Seq(Stmts(n)) /\ Agree(p, q, StmtOps(it.stmts, p))
  BY ItemTypes DEF Agree, ItemOps
<1>4. StmtOps(it.stmts, q) = StmtOps(it.stmts, p) /\ (GoodStmts(it.stmts, p) => GoodStmts(it.stmts, q))
  BY <1>3, StmtsFrame
<1>5. ListsOps(it.lists, q) = ListsOps(it.lists, p) /\ (GoodLists(it.lists, p) => GoodLists(it.lists, q))
  BY <1>2 DEF ListsOps, GoodLists
<1>6. QED
  BY <1>4, <1>5 DEF ItemOps, GoodItem

\* Elements of one list and of statements; what follows from a good element
\* is the same read backwards.
LEMMA ListItem ==
  ASSUME NEW p, NEW it, Len(it.lists) = 1, DOMAIN it.lists = 1 .. Len(it.lists)
  PROVE  /\ ListsOps(it.lists, p) = ListOps(it.lists[1], p)
         /\ GoodLists(it.lists, p) <=> GoodList(it.lists[1], p)
<1>1. DOMAIN it.lists = {1}
  OBVIOUS
<1>2. QED
  BY <1>1 DEF ListsOps, GoodLists

\* No lists hold nothing.
LEMMA NoLists == ASSUME NEW p PROVE ListsOps(<<>>, p) = {} /\ GoodLists(<<>>, p)
BY DEF ListsOps, GoodLists

\* An element that is only a list, or only statements.
LEMMA OnlyList ==
  ASSUME NEW p, NEW it, Len(it.lists) = 1, DOMAIN it.lists = 1 .. Len(it.lists), it.stmts = <<>>
  PROVE  /\ ItemOps(it, p) = ListOps(it.lists[1], p)
         /\ GoodItem(it, p) <=> GoodList(it.lists[1], p)
BY ListItem, NoStmts DEF ItemOps, GoodItem

\* An element without lists.
LEMMA OnlyStmts ==
  ASSUME NEW p, NEW it, it.lists = <<>>
  PROVE  /\ ItemOps(it, p) = StmtOps(it.stmts, p)
         /\ GoodItem(it, p) <=> GoodStmts(it.stmts, p)
BY NoLists DEF ItemOps, GoodItem

-----------------------------------------------------------------------------
(* The stack with its topmost elements replaced.                           *)

\* The operations of the topmost k elements.
TopOps(st, k, p) == UNION {ItemOps(st[j], p) : j \in Len(st) + 1 - k .. Len(st)}

\* The stack after its topmost k elements have been replaced by one.
LEMMA Replaced ==
  ASSUME NEW n \in Count, NEW m \in Count, NEW st \in Seq(Items(n)), NEW k \in 0 .. Len(st),
         NEW it, it \in Items(m), n <= m
  PROVE  LET st2 == Append(SubSeq(st, 1, Len(st) - k), it)
         IN  /\ st2 \in Seq(Items(m)) /\ Len(st2) = Len(st) - k + 1
             /\ DOMAIN st = 1 .. Len(st) /\ DOMAIN st2 = 1 .. Len(st) - k + 1
             /\ Len(st) \in Nat
             /\ \A j \in 1 .. Len(st) - k : st2[j] = st[j] /\ st[j] \in Items(n)
             /\ st2[Len(st) - k + 1] = it
<1> DEFINE b == SubSeq(st, 1, Len(st) - k)
           st2 == Append(b, it)
           e == Len(st) - k
<1>1. Len(st) \in Nat /\ DOMAIN st = 1 .. Len(st) /\ \A j \in 1 .. Len(st) : st[j] \in Items(n)
  BY LenProperties, ElementOfSeq
<1>0. e \in Nat /\ \A j \in 1 .. e : st[j] \in Items(n)
  BY <1>1
<1>2. Items(n) \subseteq Items(m)
  <2>0. n \in Int /\ m \in Int
    BY DEF Count
  <2>1. Chains(n) \subseteq Chains(m)
    BY <2>0 DEF Chains
  <2>2. Lists(n) \subseteq Lists(m)
    BY <2>1 DEF Lists
  <2>3. Stmts(n) \subseteq Stmts(m)
    BY <2>1 DEF Stmts
  <2>4. 0 .. n \subseteq 0 .. m
    BY <2>0
  <2>5. Name \X (0 .. n) \subseteq Name \X (0 .. m)
    BY <2>4
  <2>6. /\ Seq(Lists(n)) \subseteq Seq(Lists(m)) /\ Seq(Stmts(n)) \subseteq Seq(Stmts(m))
        /\ Seq(Name \X (0 .. n)) \subseteq Seq(Name \X (0 .. m))
    BY <2>2, <2>3, <2>5, SeqMonotonic
  <2>7. QED
    BY <2>6 DEF Items
<1> HIDE DEF e
<1>3. /\ b \in Seq(Items(n)) /\ Len(b) = e
      /\ \A j \in 1 .. e : b[j] = st[j]
  <2>1. 1 \in Int /\ e \in Int
    BY <1>0
  <2>2. /\ SubSeq(st, 1, e) \in Seq(Items(n))
        /\ Len(SubSeq(st, 1, e)) = IF 1 <= e THEN e - 1 + 1 ELSE 0
        /\ \A j \in 1 .. e - 1 + 1 : SubSeq(st, 1, e)[j] = st[1 + j - 1]
    BY <1>0, <2>1, SubSeqProperties
  <2>3. e - 1 + 1 = e /\ (~(1 <= e) => e = 0) /\ \A j \in 1 .. e : 1 + j - 1 = j
    BY <1>0
  <2>4. b = SubSeq(st, 1, e)
    BY DEF e
  <2>5. QED
    BY <2>2, <2>3, <2>4
<1>4. b \in Seq(Items(m))
  BY <1>2, <1>3, SeqMonotonic
<1> HIDE DEF b
<1>5. /\ st2 \in Seq(Items(m)) /\ Len(st2) = Len(b) + 1
      /\ \A j \in 1 .. Len(b) : st2[j] = b[j]
      /\ st2[Len(b) + 1] = it
  BY <1>4, AppendProperties
<1>6. DOMAIN st2 = 1 .. Len(st2)
  BY <1>5, LenProperties
<1>7. /\ Len(st2) = e + 1 /\ DOMAIN st2 = 1 .. e + 1
      /\ \A j \in 1 .. e : st2[j] = st[j] /\ st[j] \in Items(n)
      /\ st2[e + 1] = it
  BY <1>0, <1>3, <1>5, <1>6
<1>8. QED
  BY <1>1, <1>5, <1>7 DEF b, e

\* The topmost k elements of st are replaced by one that is made of their
\* operations and those in N, under pointers that only these have changed.
Rewrites(st, p, k, it, N, st2, q) ==
  /\ k \in 0 .. Len(st) /\ st2 = Append(SubSeq(st, 1, Len(st) - k), it)
  /\ GoodStack(st, p) /\ GoodItem(it, q)
  /\ N \cap StackOps(st, p) = {}
  /\ Agree(p, q, Op \ (TopOps(st, k, p) \cup N))
  /\ ItemOps(it, q) \subseteq TopOps(st, k, p) \cup N

\* Then the new stack is good.
LEMMA RewriteGood ==
  ASSUME NEW n \in Count, NEW m \in Count, NEW p \in Ptrs(n), NEW q \in Ptrs(m), n <= m,
         NEW st \in Seq(Items(n)), NEW it \in Items(m), NEW k, NEW N, NEW st2,
         Rewrites(st, p, k, it, N, st2, q)
  PROVE  /\ GoodStack(st2, q)
         /\ StackOps(st2, q) = (StackOps(st, p) \ TopOps(st, k, p)) \cup ItemOps(it, q)
<1> DEFINE T == TopOps(st, k, p)
           b == Len(st) - k
<1>0. /\ k \in 0 .. Len(st) /\ st2 = Append(SubSeq(st, 1, Len(st) - k), it)
      /\ GoodStack(st, p) /\ GoodItem(it, q)
      /\ N \cap StackOps(st, p) = {}
      /\ Agree(p, q, Op \ (T \cup N))
      /\ ItemOps(it, q) \subseteq T \cup N
  BY DEF Rewrites
<1>1. /\ DOMAIN st = 1 .. Len(st) /\ DOMAIN st2 = 1 .. b + 1 /\ Len(st) \in Nat
      /\ \A j \in 1 .. b : st2[j] = st[j] /\ st[j] \in Items(n)
      /\ st2[b + 1] = it
  <2> DEFINE s == Append(SubSeq(st, 1, Len(st) - k), it)
  <2>1. /\ DOMAIN st = 1 .. Len(st) /\ DOMAIN s = 1 .. Len(st) - k + 1 /\ Len(st) \in Nat
        /\ \A j \in 1 .. Len(st) - k : s[j] = st[j] /\ st[j] \in Items(n)
        /\ s[Len(st) - k + 1] = it
    BY <1>0, Replaced
  <2>2. st2 = s
    BY <1>0
  <2> HIDE DEF s
  <2>3. QED
    BY <2>1, <2>2
<1>2. b \in Nat /\ Len(st) = b + k /\ k \in Nat
  BY <1>0, <1>1
<1>3. T = UNION {ItemOps(st[j], p) : j \in b + 1 .. Len(st)}
  <2>1. Len(st) + 1 - k = b + 1
    BY <1>0, <1>1
  <2>2. QED
    BY <2>1 DEF TopOps
<1> HIDE DEF b, T
<1>4. \A j \in 1 .. b : j \in DOMAIN st /\ ItemOps(st[j], p) \cap T = {}
  <2> SUFFICES ASSUME NEW j \in 1 .. b PROVE j \in DOMAIN st /\ ItemOps(st[j], p) \cap T = {}
    OBVIOUS
  <2>1. ASSUME NEW i \in b + 1 .. Len(st) PROVE ItemOps(st[j], p) \cap ItemOps(st[i], p) = {}
    <3>1. i \in DOMAIN st /\ j \in DOMAIN st /\ i # j
      BY <1>1, <1>2
    <3>2. QED
      BY <1>0, <3>1 DEF GoodStack
  <2>2. j \in DOMAIN st
    BY <1>1, <1>2
  <2>3. QED
    BY <2>1, <2>2, <1>3
<1>5. \A j \in 1 .. b : ItemOps(st[j], p) \cap N = {} /\ ItemOps(st[j], p) \subseteq Op
  <2>1. \A j \in 1 .. b : ItemOps(st[j], p) \subseteq StackOps(st, p)
    BY <1>4 DEF StackOps
  <2>2. QED
    BY <2>1, <1>0, <1>1, ItemOpsExist
<1>6. \A j \in 1 .. b : Agree(p, q, ItemOps(st[j], p))
  BY <1>0, <1>4, <1>5 DEF Agree
<1>7. \A j \in 1 .. b : ItemOps(st[j], q) = ItemOps(st[j], p) /\ GoodItem(st[j], q)
  <2>1. \A j \in 1 .. b : GoodItem(st[j], p)
    BY <1>0, <1>4 DEF GoodStack
  <2>2. QED
    BY <2>1, <1>1, <1>6, ItemFrame
<1>8. \A j \in DOMAIN st2 : j \in 1 .. b \/ j = b + 1
  BY <1>1, <1>2
<1>9. b + 1 \in DOMAIN st2 /\ \A j \in 1 .. b : j \in DOMAIN st2
  BY <1>1, <1>2
<1>11. GoodStack(st2, q)
  <2>1. \A j \in DOMAIN st2 : GoodItem(st2[j], q)
    BY <1>0, <1>1, <1>7, <1>8
  <2>2. ASSUME NEW i \in DOMAIN st2, NEW j \in DOMAIN st2, i # j
        PROVE  ItemOps(st2[i], q) \cap ItemOps(st2[j], q) = {}
    <3>1. CASE i \in 1 .. b /\ j \in 1 .. b
      BY <1>0, <1>1, <1>4, <1>7, <2>2, <3>1 DEF GoodStack
    <3>2. CASE i \in 1 .. b /\ j = b + 1
      BY <1>1, <1>4, <1>5, <1>7, <1>0, <3>2
    <3>3. CASE j \in 1 .. b /\ i = b + 1
      BY <1>1, <1>4, <1>5, <1>7, <1>0, <3>3
    <3>4. QED
      BY <1>8, <2>2, <3>1, <3>2, <3>3
  <2>3. QED
    BY <2>1, <2>2 DEF GoodStack
<1>12. StackOps(st2, q) \subseteq (StackOps(st, p) \ T) \cup ItemOps(it, q)
  BY <1>1, <1>4, <1>7, <1>8 DEF StackOps
<1>13. ItemOps(it, q) \subseteq StackOps(st2, q)
  BY <1>1, <1>9 DEF StackOps
<1>14. StackOps(st, p) \ T \subseteq StackOps(st2, q)
  <2> SUFFICES ASSUME NEW j \in DOMAIN st PROVE ItemOps(st[j], p) \ T \subseteq StackOps(st2, q)
    BY DEF StackOps
  <2>1. CASE j \in 1 .. b
    BY <2>1, <1>1, <1>7, <1>9 DEF StackOps
  <2>2. CASE j \in b + 1 .. Len(st)
    BY <2>2, <1>3
  <2>3. QED
    BY <1>1, <1>2, <2>1, <2>2
<1>15. QED
  BY <1>11, <1>12, <1>13, <1>14 DEF T
-----------------------------------------------------------------------------
(* What the invariant says of the variables.                               *)

\* The types of the variables, in the form the proofs use.
LEMMA TypeFacts ==
  ASSUME GraphInv
  PROVE  /\ opNum \in Count /\ opNum \in Nat /\ Pointers \in Ptrs(opNum)
         /\ Pointers.next = next /\ Pointers.issue = issue
         /\ stack \in Seq(Items(opNum)) /\ Len(stack) \in Nat /\ DOMAIN stack = 1 .. Len(stack)
         /\ \A j \in 1 .. Len(stack) : stack[j] \in Items(opNum)
<1>1. /\ opNum \in 0 .. MaxOps /\ stack \in Seq(Items(opNum))
      /\ next \in [Op -> 0 .. opNum] /\ issue \in [Op -> 0 .. opNum]
  BY DEF GraphInv, TypeOK
<1>2. Len(stack) \in Nat /\ DOMAIN stack = 1 .. Len(stack) /\ \A j \in 1 .. Len(stack) : stack[j] \in Items(opNum)
  BY <1>1, LenProperties, ElementOfSeq
<1>3. Pointers = [next |-> next, issue |-> issue] /\ Pointers \in Ptrs(opNum)
  BY <1>1 DEF Pointers, Ptrs
<1>4. Pointers.next = next /\ Pointers.issue = issue
  BY DEF Pointers
<1>5. QED
  BY <1>1, <1>2, <1>3, <1>4, OpAssumption DEF Count

\* Every type grows with the number of operations.
LEMMA TypesGrow ==
  ASSUME NEW n \in Count, NEW m \in Count, n <= m
  PROVE  /\ Ptrs(n) \subseteq Ptrs(m) /\ Chains(n) \subseteq Chains(m) /\ Lists(n) \subseteq Lists(m)
         /\ Seq(Lists(n)) \subseteq Seq(Lists(m))
         /\ Seq(Stmts(n)) \subseteq Seq(Stmts(m)) /\ Scope(n) \subseteq Scope(m)
         /\ Seq(Scope(n)) \subseteq Seq(Scope(m))
         /\ Seq(Name \X (0 .. n)) \subseteq Seq(Name \X (0 .. m))
         /\ [Op -> 0 .. n] \subseteq [Op -> 0 .. m]
<1>0. n \in Int /\ m \in Int
  BY DEF Count
<1>1. 0 .. n \subseteq 0 .. m
  BY <1>0
<1>2. Chains(n) \subseteq Chains(m)
  BY <1>0 DEF Chains
<1>3. Lists(n) \subseteq Lists(m)
  BY <1>2 DEF Lists
<1>4. Stmts(n) \subseteq Stmts(m)
  BY <1>2 DEF Stmts
<1>5. Name \X (0 .. n) \subseteq Name \X (0 .. m)
  BY <1>1
<1>6. [Op -> 0 .. n] \subseteq [Op -> 0 .. m]
  BY <1>1
<1>7. Ptrs(n) \subseteq Ptrs(m)
  BY <1>6 DEF Ptrs
<1>8. Scope(n) \subseteq Scope(m)
  <2>1. \A D \in SUBSET Name : [D -> 0 .. n] \subseteq [D -> 0 .. m]
    BY <1>1
  <2>2. QED
    BY <2>1 DEF Scope
<1>9. /\ Seq(Lists(n)) \subseteq Seq(Lists(m)) /\ Seq(Stmts(n)) \subseteq Seq(Stmts(m))
      /\ Seq(Scope(n)) \subseteq Seq(Scope(m))
      /\ Seq(Name \X (0 .. n)) \subseteq Seq(Name \X (0 .. m))
  BY <1>3, <1>4, <1>5, <1>8, SeqMonotonic
<1>10. QED
  BY <1>2, <1>3, <1>6, <1>7, <1>8, <1>9

\* The operation o is new, or there is none.
Numbered(o) ==
  /\ o \in Op \cup {NULL}
  /\ IF o = NULL THEN opNum' = opNum ELSE o = opNum + 1 /\ opNum' = o

\* A new operation is linked to nothing and in no list.
LEMMA NewOp ==
  ASSUME GraphInv, NEW o, Numbered(o)
  PROVE  /\ opNum' \in Count /\ opNum <= opNum' /\ o \in 0 .. opNum'
         /\ (opNum + 1) .. opNum' = {o} \ {NULL}
         /\ {o} \ {NULL} \subseteq Op
         /\ o \notin 1 .. opNum
         /\ o # NULL => next[o] = NULL /\ issue[o] = NULL
         /\ Pointers \in Ptrs(opNum')
<1>1. opNum \in 0 .. MaxOps /\ opNum \in Nat /\ Pointers \in Ptrs(opNum) /\ opNum \in Count
  BY TypeFacts, OpAssumption DEF Count
<1>2. CASE o = NULL
  <2>1. opNum' = opNum
    BY <1>2 DEF Numbered
  <2>2. (opNum + 1) .. opNum' = {}
    BY <1>1, <2>1
  <2>3. o \notin 1 .. opNum /\ o \in 0 .. opNum'
    BY <1>1, <1>2, <2>1 DEF NULL
  <2>4. QED
    BY <1>1, <1>2, <2>1, <2>2, <2>3
<1>3. CASE o # NULL
  <2>1. o = opNum + 1 /\ opNum' = o /\ o \in Op
    BY <1>3 DEF Numbered
  <2>2. o \in 1 .. MaxOps
    BY <2>1 DEF Op
  <2>3. opNum' \in Count /\ opNum <= opNum' /\ o \in 0 .. opNum' /\ o \notin 1 .. opNum /\ o > opNum
    BY <1>1, <2>1, <2>2, OpAssumption DEF Count
  <2>4. (opNum + 1) .. opNum' = {o}
    BY <1>1, <2>1
  <2>5. next[o] = NULL /\ issue[o] = NULL
    BY <2>1, <2>3 DEF GraphInv, Fresh
  <2>6. Pointers \in Ptrs(opNum')
    BY <1>1, <2>3, TypesGrow
  <2>7. QED
    BY <1>3, <2>1, <2>3, <2>4, <2>5, <2>6
<1>4. QED
  BY <1>2, <1>3

\* The topmost elements.
LEMMA TopOpsAre ==
  ASSUME NEW st, Len(st) \in Nat, NEW p
  PROVE  /\ TopOps(st, 0, p) = {}
         /\ TopOps(st, 1, p) = ItemOps(st[Len(st)], p)
         /\ TopOps(st, 2, p) = ItemOps(st[Len(st) - 1], p) \cup ItemOps(st[Len(st)], p)
         /\ TopOps(st, 3, p) = ItemOps(st[Len(st) - 2], p) \cup ItemOps(st[Len(st) - 1], p)
                                 \cup ItemOps(st[Len(st)], p)
<1> DEFINE n == Len(st)
<1>1. n + 1 - 0 .. n = {} /\ n + 1 - 1 .. n = {n} /\ n + 1 - 2 .. n = {n - 1, n}
      /\ n + 1 - 3 .. n = {n - 2, n - 1, n}
  OBVIOUS
<1>2. TopOps(st, 0, p) = {}
  BY <1>1 DEF TopOps
<1>3. TopOps(st, 1, p) = ItemOps(st[n], p)
  BY <1>1 DEF TopOps
<1>4. TopOps(st, 2, p) = ItemOps(st[n - 1], p) \cup ItemOps(st[n], p)
  BY <1>1 DEF TopOps
<1>5. TopOps(st, 3, p) = ItemOps(st[n - 2], p) \cup ItemOps(st[n - 1], p) \cup ItemOps(st[n], p)
  BY <1>1 DEF TopOps
<1>6. QED
  BY <1>2, <1>3, <1>4, <1>5

\* The topmost operations exist.
LEMMA TopOpsExist ==
  ASSUME GraphInv, NEW k \in 0 .. Len(stack)
  PROVE  /\ TopOps(stack, k, Pointers) \subseteq StackOps(stack, Pointers)
         /\ StackOps(stack, Pointers) \subseteq 1 .. opNum /\ StackOps(stack, Pointers) \subseteq Op
<1>1. /\ opNum \in Count /\ Pointers \in Ptrs(opNum) /\ Len(stack) \in Nat
      /\ DOMAIN stack = 1 .. Len(stack) /\ \A j \in 1 .. Len(stack) : stack[j] \in Items(opNum)
  BY TypeFacts
<1>2. \A j \in Len(stack) + 1 - k .. Len(stack) : j \in DOMAIN stack
  BY <1>1
<1>3. TopOps(stack, k, Pointers) \subseteq StackOps(stack, Pointers)
  BY <1>2 DEF TopOps, StackOps
<1>4. \A j \in DOMAIN stack : ItemOps(stack[j], Pointers) \subseteq 1 .. opNum /\ ItemOps(stack[j], Pointers) \subseteq Op
  BY <1>1, ItemOpsExist
<1>5. QED
  BY <1>3, <1>4 DEF StackOps

-----------------------------------------------------------------------------
(* What a rule does to the stack.                                          *)

\* What a rule makes of the topmost k elements: the element it, of their
\* operations and a new one, without those that it leaves out.
Makeover(k, it, o, left_out) ==
  /\ k \in 0 .. Len(stack)
  /\ stack' = Append(Below(k), it) /\ it \in Items(opNum')
  /\ Pointers' \in Ptrs(opNum') /\ GoodItem(it, Pointers')
  /\ Agree(Pointers, Pointers', Op \ (TopOps(stack, k, Pointers) \cup ({o} \ {NULL})))
  /\ ItemOps(it, Pointers') = (TopOps(stack, k, Pointers) \cup ({o} \ {NULL})) \ left_out
  /\ left_out \subseteq TopOps(stack, k, Pointers)

\* The lists stay good and the operations accounted for.
LEMMA MakeoverGood ==
  ASSUME GraphInv, parsing, parsing' = parsing, NEW o, Numbered(o), NEW k, NEW it, NEW left_out,
         Makeover(k, it, o, left_out), freed' = freed, dropped' = dropped \cup left_out
  PROVE  /\ GoodStack(stack', Pointers') /\ Accounted' /\ Fresh'
         /\ stack' \in Seq(Items(opNum'))
         /\ Len(stack) - k + 1 <= MaxStack => Len(stack') <= MaxStack
         /\ freed' \subseteq 1 .. opNum' /\ dropped' \subseteq 1 .. opNum'
         /\ opNum' \in 0 .. MaxOps
         /\ next' \in [Op -> 0 .. opNum'] /\ issue' \in [Op -> 0 .. opNum']
<1> DEFINE T == TopOps(stack, k, Pointers)
           N == {o} \ {NULL}
           S == StackOps(stack, Pointers)
           S2 == StackOps(stack', Pointers')
<1>1. /\ opNum \in Count /\ opNum \in Nat /\ Pointers \in Ptrs(opNum) /\ stack \in Seq(Items(opNum))
      /\ Len(stack) \in Nat /\ DOMAIN stack = 1 .. Len(stack)
      /\ Pointers.next = next /\ Pointers.issue = issue
  BY TypeFacts
<1>2. /\ opNum' \in Count /\ opNum <= opNum' /\ (opNum + 1) .. opNum' = N /\ N \subseteq Op
      /\ o \notin 1 .. opNum
  BY NewOp
<1>3. /\ k \in 0 .. Len(stack) /\ stack' = Append(SubSeq(stack, 1, Len(stack) - k), it)
      /\ it \in Items(opNum') /\ Pointers' \in Ptrs(opNum') /\ GoodItem(it, Pointers')
      /\ Agree(Pointers, Pointers', Op \ (T \cup N))
      /\ ItemOps(it, Pointers') = (T \cup N) \ left_out /\ left_out \subseteq T
  BY DEF Makeover, Below
<1>4. T \subseteq S /\ S \subseteq 1 .. opNum /\ S \subseteq Op
  BY <1>3, TopOpsExist
<1>5. N \cap S = {}
  BY <1>2, <1>4
<1>6. GoodStack(stack, Pointers)
  BY DEF GraphInv
<1> HIDE DEF T, N, S
<1>7. GoodStack(stack', Pointers') /\ S2 = (S \ T) \cup ((T \cup N) \ left_out)
  <2>1. Rewrites(stack, Pointers, k, it, N, stack', Pointers')
    BY <1>3, <1>5, <1>6 DEF Rewrites, S, T
  <2>2. /\ GoodStack(stack', Pointers')
        /\ S2 = (StackOps(stack, Pointers) \ TopOps(stack, k, Pointers)) \cup ItemOps(it, Pointers')
    BY <1>1, <1>2, <1>3, <2>1, RewriteGood
  <2>3. QED
    BY <1>3, <2>2 DEF S, T
<1> HIDE DEF S2
<1>8. S2 = (S \cup N) \ left_out
  BY <1>3, <1>4, <1>5, <1>7
<1>9. freed \cap dropped = {} /\ S \cap (freed \cup dropped) = {} /\ 1 .. opNum \subseteq S \cup freed \cup dropped
      /\ freed \subseteq 1 .. opNum /\ dropped \subseteq 1 .. opNum
  BY DEF GraphInv, Accounted, TypeOK, S
<1>10. N \cap (freed \cup dropped) = {}
  BY <1>2, <1>9 DEF N
<1>11. Accounted'
  <2>1. freed' \cap dropped' = {}
    BY <1>3, <1>4, <1>9
  <2>2. S2 \cap (freed' \cup dropped') = {}
    BY <1>8, <1>9, <1>10
  <2>3. 1 .. opNum' \subseteq 1 .. opNum \cup N
    BY <1>1, <1>2 DEF Count
  <2>4. 1 .. opNum' \subseteq S2 \cup freed' \cup dropped'
    BY <1>8, <1>9, <2>3
  <2>5. QED
    BY <2>1, <2>2, <2>4 DEF Accounted, S2
<1>12. Fresh'
  <2> SUFFICES ASSUME NEW q \in Op, q > opNum' PROVE next'[q] = NULL /\ issue'[q] = NULL
    BY DEF Fresh
  <2>1. q > opNum /\ q \notin 1 .. opNum /\ q \notin (opNum + 1) .. opNum'
    BY <1>1, <1>2 DEF Op, Count
  <2>2. q \notin T \cup N
    BY <1>2, <1>4, <2>1
  <2>3. Pointers'.next[q] = next[q] /\ Pointers'.issue[q] = issue[q]
    BY <1>1, <1>3, <2>2 DEF Agree
  <2>4. Pointers'.next = next' /\ Pointers'.issue = issue'
    BY DEF Pointers
  <2>5. next[q] = NULL /\ issue[q] = NULL
    BY <2>1 DEF GraphInv, Fresh
  <2>6. QED
    BY <2>3, <2>4, <2>5
<1>13. stack' \in Seq(Items(opNum')) /\ Len(stack') = Len(stack) - k + 1
  BY <1>1, <1>2, <1>3, Replaced
<1>14. next' \in [Op -> 0 .. opNum'] /\ issue' \in [Op -> 0 .. opNum']
  <2>1. Pointers'.next = next' /\ Pointers'.issue = issue'
    BY DEF Pointers
  <2>2. QED
    BY <1>3, <2>1 DEF Ptrs
<1>15. freed' \subseteq 1 .. opNum' /\ dropped' \subseteq 1 .. opNum'
  <2>1. 1 .. opNum \subseteq 1 .. opNum'
    BY <1>1, <1>2 DEF Count
  <2>2. QED
    BY <2>1, <1>3, <1>4, <1>9
<1>16. QED
  BY <1>2, <1>7, <1>11, <1>12, <1>13, <1>14, <1>15 DEF Count
-----------------------------------------------------------------------------
(* Elements, from the top, and the elements a rule makes.                  *)

\* The k-th element from the top.
LEMMA TopFacts ==
  ASSUME GraphInv, NEW k \in 1 .. Len(stack)
  PROVE  /\ At(k) = stack[Len(stack) + 1 - k] /\ Len(stack) + 1 - k \in DOMAIN stack
         /\ At(k) \in Items(opNum) /\ Shape(At(k)) /\ GoodItem(At(k), Pointers)
         /\ \A i \in DOMAIN At(k).ids : At(k).ids[i][2] \notin freed
<1>1. /\ Len(stack) \in Nat /\ DOMAIN stack = 1 .. Len(stack)
      /\ \A j \in 1 .. Len(stack) : stack[j] \in Items(opNum)
  BY TypeFacts
<1>2. Len(stack) + 1 - k \in DOMAIN stack /\ Len(stack) + 1 - k \in 1 .. Len(stack)
  BY <1>1
<1>3. At(k) = stack[Len(stack) + 1 - k]
  BY DEF At
<1>4. Shape(stack[Len(stack) + 1 - k]) /\ GoodItem(stack[Len(stack) + 1 - k], Pointers)
  BY <1>2 DEF GraphInv, Shaped, GoodStack
<1>5. \A i \in DOMAIN stack[Len(stack) + 1 - k].ids : stack[Len(stack) + 1 - k].ids[i][2] \notin freed
  BY <1>2 DEF GraphInv, IdsLive
<1>6. QED
  BY <1>1, <1>2, <1>3, <1>4, <1>5

\* Two elements have no operation in common.
LEMMA TopApart ==
  ASSUME GraphInv, NEW j \in 1 .. Len(stack), NEW k \in 1 .. Len(stack), j # k
  PROVE  ItemOps(At(j), Pointers) \cap ItemOps(At(k), Pointers) = {}
<1>1. /\ At(j) = stack[Len(stack) + 1 - j] /\ Len(stack) + 1 - j \in DOMAIN stack
      /\ At(k) = stack[Len(stack) + 1 - k] /\ Len(stack) + 1 - k \in DOMAIN stack
  BY TopFacts
<1>2. Len(stack) + 1 - j # Len(stack) + 1 - k
  BY TypeFacts
<1>3. QED
  BY <1>1, <1>2 DEF GraphInv, GoodStack

\* The operations of the topmost elements.
LEMMA TopAre ==
  ASSUME GraphInv
  PROVE  /\ TopOps(stack, 0, Pointers) = {}
         /\ TopOps(stack, 1, Pointers) = ItemOps(At(1), Pointers)
         /\ TopOps(stack, 2, Pointers) = ItemOps(At(2), Pointers) \cup ItemOps(At(1), Pointers)
         /\ TopOps(stack, 3, Pointers)
              = ItemOps(At(3), Pointers) \cup ItemOps(At(2), Pointers) \cup ItemOps(At(1), Pointers)
<1>1. Len(stack) \in Nat
  BY TypeFacts
<1>2. Len(stack) + 1 - 1 = Len(stack) /\ Len(stack) + 1 - 2 = Len(stack) - 1 /\ Len(stack) + 1 - 3 = Len(stack) - 2
  BY <1>1
<1>3. At(1) = stack[Len(stack)] /\ At(2) = stack[Len(stack) - 1] /\ At(3) = stack[Len(stack) - 2]
  BY <1>2 DEF At
<1>4. QED
  BY <1>1, <1>3, TopOpsAre

\* The list of an element that has one.
LEMMA ListAtFacts ==
  ASSUME GraphInv, NEW k \in 1 .. Len(stack), At(k).sort \in {"expr", "cond", "decl"}
  PROVE  /\ ListAt(k) \in Lists(opNum) /\ GoodList(ListAt(k), Pointers)
         /\ ItemOps(At(k), Pointers) = ListOps(ListAt(k), Pointers)
<1>1. At(k) \in Items(opNum) /\ Shape(At(k)) /\ GoodItem(At(k), Pointers)
  BY TopFacts
<1>2. Len(At(k).lists) = 1 /\ At(k).stmts = <<>>
  BY <1>1 DEF Shape
<1>3. DOMAIN At(k).lists = 1 .. Len(At(k).lists) /\ \A i \in DOMAIN At(k).lists : At(k).lists[i] \in Lists(opNum)
  BY <1>1, ItemTypes, TypeFacts
<1>4. /\ ItemOps(At(k), Pointers) = ListOps(At(k).lists[1], Pointers)
      /\ GoodItem(At(k), Pointers) <=> GoodList(At(k).lists[1], Pointers)
  BY <1>2, <1>3, OnlyList
<1>5. QED
  BY <1>1, <1>2, <1>3, <1>4 DEF ListAt

\* The statements of an element that has only these.
LEMMA StmtsAtFacts ==
  ASSUME GraphInv, NEW k \in 1 .. Len(stack), At(k).sort \in {"stmt", "block"}
  PROVE  /\ At(k).stmts \in Seq(Stmts(opNum)) /\ GoodStmts(At(k).stmts, Pointers)
         /\ ItemOps(At(k), Pointers) = StmtOps(At(k).stmts, Pointers)
<1>1. At(k) \in Items(opNum) /\ Shape(At(k)) /\ GoodItem(At(k), Pointers)
  BY TopFacts
<1>2. At(k).lists = <<>>
  BY <1>1 DEF Shape
<1>3. At(k).stmts \in Seq(Stmts(opNum))
  BY <1>1, ItemTypes, TypeFacts
<1>4. QED
  BY <1>1, <1>2, <1>3, OnlyStmts

\* The sorts of elements made of one list, and what is declared.
ListSorts == {"expr", "cond", "decl", "for"}
Ids(n)    == Seq(Name \X (0 .. n))

\* An element made of one list.
LEMMA ListMade ==
  ASSUME NEW m \in Count, NEW q, NEW sort \in ListSorts,
         NEW list \in Lists(m), GoodList(list, q), NEW ids \in Ids(m),
         sort = "expr" \/ list.entry = NoEntry,
         NEW it, it = Item(sort, <<list>>, <<>>, ids)
  PROVE  /\ it \in Items(m) /\ GoodItem(it, q) /\ ItemOps(it, q) = ListOps(list, q) /\ Shape(it)
         /\ it.sort = sort /\ it.lists[1] = list /\ it.ids = ids
<1>1. it.sort = sort /\ it.lists = <<list>> /\ it.stmts = <<>> /\ it.ids = ids
  BY DEF Item
<1>2. it \in Items(m)
  <2>1. <<list>> \in Seq(Lists(m)) /\ <<>> \in Seq(Stmts(m))
    OBVIOUS
  <2>2. sort \in Operand \cup Context \cup {"for", "decl", "name", "stmt"} /\ ids \in Seq(Name \X (0 .. m))
    BY DEF Operand, Context, ListSorts, Ids
  <2>3. QED
    BY <2>1, <2>2 DEF Item, Items
<1>3. Len(it.lists) = 1 /\ DOMAIN it.lists = 1 .. Len(it.lists) /\ it.lists[1] = list
  BY <1>1
<1>4. GoodItem(it, q) /\ ItemOps(it, q) = ListOps(list, q)
  <2>1. /\ ItemOps(it, q) = ListOps(it.lists[1], q)
        /\ GoodItem(it, q) <=> GoodList(it.lists[1], q)
    BY <1>1, <1>3, OnlyList
  <2>2. QED
    BY <1>3, <2>1
<1>5. Shape(it)
  <2>1. it.sort # "expr" => \A i \in DOMAIN it.lists : it.lists[i].entry = NoEntry
    <3>1. DOMAIN it.lists = {1}
      BY <1>3
    <3>2. it.sort # "expr" => it.lists[1].entry = NoEntry
      <4>1. it.sort # "expr" => list.entry = NoEntry
        BY <1>1
      <4>2. QED
        BY <4>1, <1>3
    <3>3. QED
      BY <3>1, <3>2
  <2>2. Len(it.lists) = 1 /\ 1 <= 3
    BY <1>3
  <2>3. it.sort \in {"expr", "cond", "decl", "for"}
    BY <1>1 DEF ListSorts
  <2>4. QED
    BY <1>1, <2>1, <2>2, <2>3 DEF Shape
<1>6. QED
  BY <1>1, <1>2, <1>3, <1>4, <1>5

\* An element made of statements.
LEMMA StmtsMade ==
  ASSUME NEW m \in Count, NEW q, NEW sort \in {"stmt", "block"},
         NEW ss \in Seq(Stmts(m)), GoodStmts(ss, q),
         NEW it, it = Item(sort, <<>>, ss, <<>>)
  PROVE  /\ it \in Items(m) /\ GoodItem(it, q) /\ ItemOps(it, q) = StmtOps(ss, q) /\ Shape(it)
         /\ it.sort = sort /\ it.ids = <<>>
<1>1. it.sort = sort /\ it.lists = <<>> /\ it.stmts = ss /\ it.ids = <<>>
  BY DEF Item
<1>2. it \in Items(m)
  <2>1. <<>> \in Seq(Lists(m)) /\ <<>> \in Seq(Name \X (0 .. m))
    OBVIOUS
  <2>2. QED
    BY <2>1 DEF Item, Items, Operand, Context
<1>3. GoodItem(it, q) /\ ItemOps(it, q) = StmtOps(ss, q)
  BY <1>1, OnlyStmts
<1>4. Shape(it)
  BY <1>1 DEF Shape
<1>5. QED
  BY <1>1, <1>2, <1>3, <1>4

\* An element that holds no operations.
LEMMA NothingMade ==
  ASSUME NEW m \in Count, NEW q, NEW it \in Items(m), it.lists = <<>>, it.stmts = <<>>
  PROVE  GoodItem(it, q) /\ ItemOps(it, q) = {}
BY OnlyStmts, NoStmts
-----------------------------------------------------------------------------
(* The shape of the stack after a rule.                                    *)

\* The element it may take the place of the topmost k: it has the shape of its
\* sort, and fits on what is below.
Fits(k, it) ==
  /\ Shape(it)
  /\ it.sort = "expr" \/ \A j \in 1 .. Len(stack) - k : stack[j].sort # "expr"
  /\ it.sort \in {"decl", "name"} /\ k < Len(stack) /\ At(k + 1).sort = "for" => At(k + 1).lists = <<>>
  /\ \A i \in DOMAIN it.ids : it.ids[i][2] \notin freed

\* The stack after that.
LEMMA NewStack ==
  ASSUME GraphInv, NEW k \in 0 .. Len(stack), NEW m \in Count, opNum <= m, NEW it, it \in Items(m),
         stack' = Append(Below(k), it)
  PROVE  /\ stack' \in Seq(Items(m)) /\ Len(stack') = Len(stack) - k + 1
         /\ DOMAIN stack' = 1 .. Len(stack) - k + 1
         /\ \A j \in 1 .. Len(stack) - k : stack'[j] = stack[j] /\ j \in DOMAIN stack
         /\ stack'[Len(stack) - k + 1] = it
         /\ Len(stack) - k \in Nat
<1>1. /\ opNum \in Count /\ stack \in Seq(Items(opNum)) /\ Len(stack) \in Nat
      /\ DOMAIN stack = 1 .. Len(stack)
  BY TypeFacts
<1>2. stack' = Append(SubSeq(stack, 1, Len(stack) - k), it)
  BY DEF Below
<1>3. LET st2 == Append(SubSeq(stack, 1, Len(stack) - k), it)
      IN  /\ st2 \in Seq(Items(m)) /\ Len(st2) = Len(stack) - k + 1
          /\ DOMAIN st2 = 1 .. Len(stack) - k + 1
          /\ \A j \in 1 .. Len(stack) - k : st2[j] = stack[j]
          /\ st2[Len(stack) - k + 1] = it
  BY <1>1, Replaced
<1>4. \A j \in 1 .. Len(stack) - k : j \in DOMAIN stack
  BY <1>1
<1>5. QED
  BY <1>1, <1>2, <1>3, <1>4

\* An element that fits leaves the stack in shape.
LEMMA FitsShaped ==
  ASSUME GraphInv, NEW k \in 0 .. Len(stack), NEW m \in Count, opNum <= m, NEW it, it \in Items(m),
         stack' = Append(Below(k), it), Fits(k, it), freed' = freed
  PROVE  Shaped' /\ Ordered' /\ IdsLive'
<1> DEFINE b == Len(stack) - k
<1>1. /\ DOMAIN stack' = 1 .. b + 1 /\ b \in Nat /\ stack'[b + 1] = it
      /\ \A j \in 1 .. b : stack'[j] = stack[j] /\ j \in DOMAIN stack
  BY NewStack
<1>2. k < Len(stack) => At(k + 1) = stack[b]
  <2>1. Len(stack) \in Nat
    BY TypeFacts
  <2>2. Len(stack) + 1 - (k + 1) = b
    BY <2>1
  <2>3. QED
    BY <2>2 DEF At
<1>3. k < Len(stack) <=> b > 0
  BY TypeFacts
<1>4. Fits(k, it)
  OBVIOUS
<1> HIDE DEF b
<1>5. \A j \in DOMAIN stack' : j \in 1 .. b \/ j = b + 1
  BY <1>1
<1>6. Shaped'
  <2>1. \A j \in DOMAIN stack : Shape(stack[j])
    BY DEF GraphInv, Shaped
  <2>2. Shape(it)
    BY DEF Fits
  <2>3. \A j \in DOMAIN stack' : Shape(stack'[j])
    BY <1>1, <1>5, <2>1, <2>2
  <2>4. QED
    BY <2>3 DEF Shaped
<1>7. ASSUME NEW j \in DOMAIN stack', NEW i \in DOMAIN stack', j < i, stack'[j].sort = "expr"
      PROVE  stack'[i].sort = "expr"
  <2>1. j \in 1 .. b /\ stack'[j] = stack[j] /\ j \in DOMAIN stack
    BY <1>1, <1>5, <1>7
  <2>2. CASE i \in 1 .. b
    BY <1>1, <1>7, <2>1, <2>2 DEF GraphInv, Ordered
  <2>3. CASE i = b + 1
    <3>1. stack[j].sort = "expr"
      BY <1>7, <2>1
    <3>2. it.sort = "expr"
      BY <3>1, <2>1 DEF Fits, b
    <3>3. QED
      BY <3>2, <2>3, <1>1
  <2>4. QED
    BY <1>5, <2>2, <2>3
<1>8. ASSUME NEW j \in DOMAIN stack', j + 1 \in DOMAIN stack', stack'[j].sort = "for",
             stack'[j + 1].sort \in {"decl", "name"}
      PROVE  stack'[j].lists = <<>>
  <2>1. j \in 1 .. b /\ stack'[j] = stack[j] /\ j \in DOMAIN stack
    BY <1>1, <1>5, <1>8
  <2>2. CASE j + 1 \in 1 .. b
    <3>1. stack'[j + 1] = stack[j + 1] /\ j + 1 \in DOMAIN stack
      BY <1>1, <2>2
    <3>2. QED
      BY <1>8, <2>1, <3>1 DEF GraphInv, Ordered
  <2>3. CASE j + 1 = b + 1
    <3>1. j = b /\ b > 0 /\ it.sort \in {"decl", "name"}
      BY <1>1, <1>8, <2>1, <2>3
    <3>2. At(k + 1) = stack'[j] /\ k < Len(stack)
      BY <1>2, <1>3, <2>1, <3>1
    <3>3. QED
      BY <1>8, <3>1, <3>2 DEF Fits
  <2>4. QED
    BY <1>5, <1>8, <2>2, <2>3
<1>9. Ordered'
  BY <1>7, <1>8 DEF Ordered
<1>10. IdsLive'
  <2>1. \A j \in DOMAIN stack : \A i \in DOMAIN stack[j].ids : stack[j].ids[i][2] \notin freed
    BY DEF GraphInv, IdsLive
  <2>2. \A i \in DOMAIN it.ids : it.ids[i][2] \notin freed
    BY DEF Fits
  <2>3. \A j \in DOMAIN stack' : \A i \in DOMAIN stack'[j].ids : stack'[j].ids[i][2] \notin freed
    BY <1>1, <1>5, <2>1, <2>2
  <2>4. QED
    BY <2>3 DEF IdsLive
<1>11. QED
  BY <1>6, <1>9, <1>10

\* Nothing that is above an element that is no expression, or that element, is
\* below an expression.
LEMMA Quiet ==
  ASSUME GraphInv, NEW k \in 1 .. Len(stack), At(k).sort # "expr"
  PROVE  \A j \in 1 .. Len(stack) + 1 - k : stack[j].sort # "expr"
<1>1. Len(stack) \in Nat /\ DOMAIN stack = 1 .. Len(stack)
  BY TypeFacts
<1>2. At(k) = stack[Len(stack) + 1 - k] /\ Len(stack) + 1 - k \in DOMAIN stack
  BY TopFacts
<1>3. SUFFICES ASSUME NEW j \in 1 .. Len(stack) + 1 - k, stack[j].sort = "expr" PROVE FALSE
  OBVIOUS
<1>4. j \in DOMAIN stack /\ (j < Len(stack) + 1 - k \/ j = Len(stack) + 1 - k)
  BY <1>1
<1>5. QED
  BY <1>2, <1>3, <1>4 DEF GraphInv, Ordered

\* The blocks stay where they are.
KeepsBlocks(k, it) ==
  /\ k = 0 => it.sort # "block"
  /\ \A i \in 1 .. k : At(i).sort = "block" <=> i = k /\ it.sort = "block"

\* Then the same elements are blocks as before.
LEMMA BlocksKept ==
  ASSUME GraphInv, NEW k \in 0 .. Len(stack), NEW m \in Count, opNum <= m, NEW it, it \in Items(m),
         stack' = Append(Below(k), it), KeepsBlocks(k, it)
  PROVE  Blocks(stack') = Blocks(stack)
<1> DEFINE b == Len(stack) - k
<1>1. /\ DOMAIN stack' = 1 .. b + 1 /\ b \in Nat /\ stack'[b + 1] = it
      /\ \A j \in 1 .. b : stack'[j] = stack[j] /\ j \in DOMAIN stack
  BY NewStack
<1>2. Len(stack) \in Nat /\ DOMAIN stack = 1 .. Len(stack) /\ Len(stack) = b + k /\ k \in Nat
  BY TypeFacts
<1>3. ASSUME NEW j \in DOMAIN stack, j > b
      PROVE  stack[j].sort = "block" <=> j = b + 1 /\ it.sort = "block"
  <2> DEFINE i == Len(stack) + 1 - j
  <2>1. i \in 1 .. k /\ (i = k <=> j = b + 1) /\ Len(stack) + 1 - i = j
    BY <1>2, <1>3
  <2>2. At(i) = stack[j]
    BY <2>1 DEF At
  <2> HIDE DEF i
  <2>3. QED
    BY <2>1, <2>2 DEF KeepsBlocks
<1>4. b + 1 \in DOMAIN stack \/ it.sort # "block"
  <2>1. CASE k = 0
    BY <2>1 DEF KeepsBlocks
  <2>2. CASE k # 0
    BY <2>2, <1>2
  <2>3. QED
    BY <2>1, <2>2
<1> HIDE DEF b
<1>5. \A j : j \in DOMAIN stack /\ ~(j > b) => j \in 1 .. b
  BY <1>1, <1>2
<1>6. \A j \in DOMAIN stack' : j \in 1 .. b \/ j = b + 1
  BY <1>1
<1>7. b + 1 > b /\ b + 1 \in DOMAIN stack'
  BY <1>1
<1>8. Blocks(stack) \subseteq Blocks(stack')
  BY <1>1, <1>3, <1>5, <1>7 DEF Blocks
<1>9. Blocks(stack') \subseteq Blocks(stack)
  BY <1>1, <1>3, <1>4, <1>6, <1>7 DEF Blocks
<1>10. QED
  BY <1>8, <1>9
-----------------------------------------------------------------------------
(* A rule keeps the invariant if what it makes is good.                    *)

\* The levels, in the form the proofs use.
LEMMA ScopeFacts ==
  ASSUME GraphInv
  PROVE  /\ scopes \in Seq(Scope(opNum)) /\ Len(scopes) \in Nat /\ DOMAIN scopes = 1 .. Len(scopes)
         /\ \A l \in DOMAIN scopes : /\ scopes[l] \in Scope(opNum) /\ DOMAIN scopes[l] \subseteq Name
                                     /\ \A x \in DOMAIN scopes[l] : scopes[l][x] \in 0 .. opNum
         /\ parsing => Len(scopes) = 1 + Cardinality(Blocks(stack))
<1>1. scopes \in Seq(Scope(opNum))
  BY DEF GraphInv, TypeOK, Scope
<1>2. Len(scopes) \in Nat /\ DOMAIN scopes = 1 .. Len(scopes) /\ \A l \in 1 .. Len(scopes) : scopes[l] \in Scope(opNum)
  BY <1>1, LenProperties, ElementOfSeq
<1>3. \A f \in Scope(opNum) : DOMAIN f \subseteq Name /\ \A x \in DOMAIN f : f[x] \in 0 .. opNum
  BY DEF Scope
<1>4. parsing => Len(scopes) = 1 + Cardinality(Blocks(stack))
  BY DEF GraphInv, TypeOK, Blocks
<1>5. QED
  BY <1>1, <1>2, <1>3, <1>4

\* The entries of the expressions stay where the levels keep their names.
LEMMA EntriesKept ==
  ASSUME GraphInv, NEW k \in 0 .. Len(stack), NEW m \in Count, opNum <= m, NEW it, it \in Items(m),
         stack' = Append(Below(k), it),
         DOMAIN scopes \subseteq DOMAIN scopes',
         \A l \in DOMAIN scopes : DOMAIN scopes[l] \subseteq DOMAIN scopes'[l],
         it.sort = "expr" => IsOpen(it.lists[1].entry)
  PROVE  EntriesOpen'
<1> DEFINE b == Len(stack) - k
<1>1. /\ DOMAIN stack' = 1 .. b + 1 /\ b \in Nat /\ stack'[b + 1] = it
      /\ \A j \in 1 .. b : stack'[j] = stack[j] /\ j \in DOMAIN stack
  BY NewStack
<1> HIDE DEF b
<1>2. \A j \in DOMAIN stack' : j \in 1 .. b \/ j = b + 1
  BY <1>1
<1>3. ASSUME NEW e, IsOpen(e) PROVE e = NoEntry \/ (e[1] \in DOMAIN scopes' /\ e[2] \in DOMAIN scopes'[e[1]])
  BY <1>3 DEF IsOpen
<1>4. \A j \in DOMAIN stack' : stack'[j].sort = "expr" => IsOpen(stack'[j].lists[1].entry)
  BY <1>1, <1>2 DEF GraphInv, EntriesOpen
<1>5. \A j \in DOMAIN stack' :
        LET e == stack'[j].lists[1].entry
        IN  stack'[j].sort = "expr" => e = NoEntry \/ (e[1] \in DOMAIN scopes' /\ e[2] \in DOMAIN scopes'[e[1]])
  BY <1>3, <1>4
<1>6. QED
  BY <1>5 DEF EntriesOpen, IsOpen

\* There are none if there are no expressions.
LEMMA NoEntries ==
  ASSUME GraphInv, NEW k \in 0 .. Len(stack), NEW m \in Count, opNum <= m, NEW it, it \in Items(m),
         stack' = Append(Below(k), it), Fits(k, it), it.sort # "expr"
  PROVE  EntriesOpen'
<1> DEFINE b == Len(stack) - k
<1>1. /\ DOMAIN stack' = 1 .. b + 1 /\ b \in Nat /\ stack'[b + 1] = it
      /\ \A j \in 1 .. b : stack'[j] = stack[j]
  BY NewStack
<1>2. \A j \in 1 .. b : stack[j].sort # "expr"
  BY DEF Fits
<1> HIDE DEF b
<1>3. \A j \in DOMAIN stack' : j \in 1 .. b \/ j = b + 1
  BY <1>1
<1>4. \A j \in DOMAIN stack' : stack'[j].sort # "expr"
  BY <1>1, <1>2, <1>3
<1>5. QED
  BY <1>4 DEF EntriesOpen

\* The levels, if a rule leaves them alone.
LEMMA ScopesKept ==
  ASSUME GraphInv, parsing, scopes' = scopes, freed' = freed, opNum' \in Count, opNum <= opNum',
         Blocks(stack') = Blocks(stack)
  PROVE  /\ scopes' \in Seq(Scope(opNum')) /\ LocalsLive'
         /\ Len(scopes') = 1 + Cardinality(Blocks(stack'))
<1>1. scopes \in Seq(Scope(opNum)) /\ Len(scopes) = 1 + Cardinality(Blocks(stack))
  BY ScopeFacts
<1>2. scopes' \in Seq(Scope(opNum'))
  BY <1>1, TypeFacts, TypesGrow
<1>3. LocalsLive'
  BY DEF GraphInv, LocalsLive
<1>4. QED
  BY <1>1, <1>2, <1>3

\* The invariant after a rule that makes one element of the topmost k.
LEMMA RewriteInv ==
  ASSUME GraphInv, parsing, parsing' = parsing, NEW o, Numbered(o), NEW k, NEW it, NEW left_out,
         Makeover(k, it, o, left_out), Fits(k, it), freed' = freed, dropped' = dropped \cup left_out,
         Len(stack) - k < MaxStack,
         left' \in [Op -> 0 .. opNum'], right' \in [Op -> 0 .. opNum'],
         scopes' \in Seq(Scope(opNum')), Len(scopes') = 1 + Cardinality(Blocks(stack')),
         LocalsLive', EntriesOpen'
  PROVE  GraphInv'
<1>1. k \in 0 .. Len(stack) /\ stack' = Append(Below(k), it) /\ it \in Items(opNum')
  BY DEF Makeover
<1>2. opNum' \in Count /\ opNum <= opNum'
  BY NewOp
<1>3. /\ GoodStack(stack', Pointers') /\ Accounted' /\ Fresh'
      /\ stack' \in Seq(Items(opNum'))
      /\ Len(stack) - k + 1 <= MaxStack => Len(stack') <= MaxStack
      /\ freed' \subseteq 1 .. opNum' /\ dropped' \subseteq 1 .. opNum'
      /\ opNum' \in 0 .. MaxOps
      /\ next' \in [Op -> 0 .. opNum'] /\ issue' \in [Op -> 0 .. opNum']
  BY MakeoverGood
<1>4. Shaped' /\ Ordered' /\ IdsLive'
  BY <1>1, <1>2, FitsShaped
<1>5. Len(stack) - k + 1 <= MaxStack
  BY <1>1, TypeFacts, OpAssumption
<1>6. TypeOK'
  BY <1>3, <1>5 DEF TypeOK, Scope, Blocks
<1>7. QED
  BY <1>3, <1>4, <1>6 DEF GraphInv

\* The same, if the levels and the blocks stay.
LEMMA RuleInv ==
  ASSUME GraphInv, parsing, parsing' = parsing, NEW o, Numbered(o), NEW k, NEW it, NEW left_out,
         Makeover(k, it, o, left_out), Fits(k, it), freed' = freed, dropped' = dropped \cup left_out,
         Len(stack) - k < MaxStack,
         left' \in [Op -> 0 .. opNum'], right' \in [Op -> 0 .. opNum'],
         scopes' = scopes, KeepsBlocks(k, it), it.sort = "expr" => IsOpen(it.lists[1].entry)
  PROVE  GraphInv'
<1>1. k \in 0 .. Len(stack) /\ stack' = Append(Below(k), it) /\ it \in Items(opNum')
  BY DEF Makeover
<1>2. opNum' \in Count /\ opNum <= opNum'
  BY NewOp
<1>3. Blocks(stack') = Blocks(stack)
  BY <1>1, <1>2, BlocksKept
<1>4. /\ scopes' \in Seq(Scope(opNum')) /\ LocalsLive'
      /\ Len(scopes') = 1 + Cardinality(Blocks(stack'))
  BY <1>2, <1>3, ScopesKept
<1>5. EntriesOpen'
  BY <1>1, <1>2, EntriesKept
<1>6. QED
  BY <1>4, <1>5, RewriteInv

-----------------------------------------------------------------------------
(* The operands of an operator.                                            *)

\* The new operation depends on operations that exist.
LEMMA Dependences ==
  ASSUME GraphInv, NEW o, NEW dl \in 0 .. opNum, NEW dr \in 0 .. opNum, CreateOP(o, dl, dr)
  PROVE  Numbered(o) /\ left' \in [Op -> 0 .. opNum'] /\ right' \in [Op -> 0 .. opNum']
<1>1. left \in [Op -> 0 .. opNum] /\ right \in [Op -> 0 .. opNum] /\ opNum \in Nat
  BY TypeFacts DEF GraphInv, TypeOK
<1>2. o = opNum + 1 /\ o \in Op /\ opNum' = o /\ left' = [left EXCEPT ![o] = dl] /\ right' = [right EXCEPT ![o] = dr]
  BY DEF CreateOP
<1>3. o # NULL
  BY <1>2, NullIsNoOp
<1>4. 0 .. opNum \subseteq 0 .. opNum'
  BY <1>1, <1>2
<1>5. QED
  BY <1>1, <1>2, <1>3, <1>4 DEF Numbered

\* Without a new one nothing changes.
LEMMA NoDependences ==
  ASSUME GraphInv, opNum' = opNum, left' = left, right' = right
  PROVE  Numbered(NULL) /\ left' \in [Op -> 0 .. opNum'] /\ right' \in [Op -> 0 .. opNum']
BY DEF GraphInv, TypeOK, Numbered

\* What produced a value exists.
LEMMA Produced ==
  ASSUME GraphInv, NEW l \in Lists(opNum), IsOpen(l.entry)
  PROVE  Producer(l) \in 0 .. opNum
<1>1. l.chain \in Chains(opNum) /\ opNum \in Count
  BY ListTypes, TypeFacts
<1>2. l.chain.tail \in 0 .. opNum
  BY <1>1, ChainTypes
<1>3. l.entry # NoEntry => scopes[l.entry[1]][l.entry[2]] \in 0 .. opNum
  BY ScopeFacts DEF IsOpen
<1>4. NULL \in 0 .. opNum
  BY TypeFacts DEF NULL
<1>5. QED
  BY <1>2, <1>3, <1>4 DEF Producer

\* The expressions on top of the stack.
LEMMA ExprFacts ==
  ASSUME GraphInv, NEW k \in 1 .. Len(stack), At(k).sort = "expr"
  PROVE  /\ ListAt(k) \in Lists(opNum) /\ GoodList(ListAt(k), Pointers)
         /\ ItemOps(At(k), Pointers) = ListOps(ListAt(k), Pointers)
         /\ IsOpen(ListAt(k).entry) /\ Producer(ListAt(k)) \in 0 .. opNum
<1>1. /\ ListAt(k) \in Lists(opNum) /\ GoodList(ListAt(k), Pointers)
      /\ ItemOps(At(k), Pointers) = ListOps(ListAt(k), Pointers)
  BY ListAtFacts
<1>2. At(k) = stack[Len(stack) + 1 - k] /\ Len(stack) + 1 - k \in DOMAIN stack
  BY TopFacts
<1>3. IsOpen(ListAt(k).entry)
  BY <1>2 DEF GraphInv, EntriesOpen, ListAt
<1>4. QED
  BY <1>1, <1>3, Produced
-----------------------------------------------------------------------------
(* Rules that make an expression.                                          *)

\* The pointers a rule leaves.
LEMMA Linked ==
  ASSUME NEW n \in Count, NEW p, p \in Ptrs(n), Link(p)
  PROVE  Pointers' = p
<1>1. p = [next |-> p.next, issue |-> p.issue]
  BY PointerTypes
<1>2. next' = p.next /\ issue' = p.issue
  BY DEF Link
<1>3. QED
  BY <1>1, <1>2 DEF Pointers

\* The lists l and r are made of the topmost k elements' operations and a new
\* one o, which is in r or is to come last (new).
Parts(l, r, new, k, o) ==
  /\ l \in Lists(opNum') /\ r \in Lists(opNum') /\ new \in {o, NULL}
  /\ GoodList(l, Pointers) /\ GoodList(r, Pointers)
  /\ ListOps(l, Pointers) \cap ListOps(r, Pointers) = {}
  /\ new \notin ListOps(l, Pointers) \cup ListOps(r, Pointers)
  /\ ListOps(l, Pointers) \cup ListOps(r, Pointers) \cup ({new} \ {NULL})
       = TopOps(stack, k, Pointers) \cup ({o} \ {NULL})

\* The list has these operations, in good order, and no other pointers changed.
Joined(list, k, o) ==
  /\ list \in Lists(opNum') /\ Pointers' \in Ptrs(opNum') /\ GoodList(list, Pointers')
  /\ ListOps(list, Pointers') = TopOps(stack, k, Pointers) \cup ({o} \ {NULL})
  /\ Agree(Pointers, Pointers', Op \ (TopOps(stack, k, Pointers) \cup ({o} \ {NULL})))

\* AddToOPList joins them.
LEMMA PartsJoined ==
  ASSUME GraphInv, NEW o, Numbered(o), NEW k, NEW l, NEW r, NEW new, Parts(l, r, new, k, o),
         Link(TieLists(Pointers, l, r, new))
  PROVE  Joined(AddToOPList(l, r, new), k, o)
<1> DEFINE q == TieLists(Pointers, l, r, new)
           list == AddToOPList(l, r, new)
           S == ListOps(l, Pointers) \cup ListOps(r, Pointers) \cup ({new} \ {NULL})
<1>1. /\ opNum' \in Count /\ opNum' \in Nat /\ o \in 0 .. opNum' /\ Pointers \in Ptrs(opNum')
      /\ o # NULL => Pointers.next[o] = NULL /\ Pointers.issue[o] = NULL
  <2>1. opNum' \in Count /\ o \in 0 .. opNum' /\ Pointers \in Ptrs(opNum')
        /\ (o # NULL => next[o] = NULL /\ issue[o] = NULL)
    BY NewOp
  <2>2. Pointers.next = next /\ Pointers.issue = issue
    BY TypeFacts
  <2>3. QED
    BY <2>1, <2>2, OpAssumption DEF Count
<1>2. new \in 0 .. opNum' /\ (new # NULL => Pointers.next[new] = NULL /\ Pointers.issue[new] = NULL)
  BY <1>1 DEF Parts, NULL
<1>3. /\ l \in Lists(opNum') /\ r \in Lists(opNum')
      /\ GoodList(l, Pointers) /\ GoodList(r, Pointers)
      /\ ListOps(l, Pointers) \cap ListOps(r, Pointers) = {}
      /\ new \notin ListOps(l, Pointers) \cup ListOps(r, Pointers)
  BY DEF Parts
<1>4. /\ q \in Ptrs(opNum') /\ list \in Lists(opNum')
      /\ GoodList(list, q) /\ ListOps(list, q) = S /\ Agree(Pointers, q, Op \ S)
  BY <1>1, <1>2, <1>3, AddListGood
<1>5. S = TopOps(stack, k, Pointers) \cup ({o} \ {NULL})
  BY DEF Parts
<1>6. Link(q)
  OBVIOUS
<1> HIDE DEF q, list, S
<1>7. Pointers' = q
  BY <1>1, <1>4, <1>6, Linked
<1>8. QED
  BY <1>4, <1>5, <1>7 DEF Joined, list

\* The entry of the result is there.
LEMMA EntryJoined ==
  ASSUME NEW l, NEW r, NEW o, IsOpen(l.entry), IsOpen(r.entry)
  PROVE  IsOpen(AddToOPList(l, r, o).entry)
BY DEF AddToOPList

\* The lists of the two topmost expressions, and a new operation.
LEMMA TwoLists ==
  ASSUME GraphInv, NEW o, Numbered(o), Len(stack) >= 2, At(1).sort = "expr", At(2).sort = "expr",
         NEW i \in {1, 2}, NEW j \in {1, 2}, i # j
  PROVE  /\ Parts(ListAt(i), ListAt(j), o, 2, o)
         /\ IsOpen(AddToOPList(ListAt(i), ListAt(j), o).entry)
<1>1. 1 \in 1 .. Len(stack) /\ 2 \in 1 .. Len(stack)
  BY TypeFacts
<1>2. /\ ListAt(1) \in Lists(opNum) /\ GoodList(ListAt(1), Pointers) /\ IsOpen(ListAt(1).entry)
      /\ ItemOps(At(1), Pointers) = ListOps(ListAt(1), Pointers)
  BY <1>1, ExprFacts
<1>3. /\ ListAt(2) \in Lists(opNum) /\ GoodList(ListAt(2), Pointers) /\ IsOpen(ListAt(2).entry)
      /\ ItemOps(At(2), Pointers) = ListOps(ListAt(2), Pointers)
  BY <1>1, ExprFacts
<1>4. ItemOps(At(1), Pointers) \cap ItemOps(At(2), Pointers) = {}
  BY <1>1, TopApart
<1>5. TopOps(stack, 2, Pointers) = ItemOps(At(2), Pointers) \cup ItemOps(At(1), Pointers)
  BY TopAre
<1>6. /\ opNum \in Count /\ Pointers \in Ptrs(opNum)
      /\ opNum' \in Count /\ opNum <= opNum' /\ o \notin 1 .. opNum
  BY TypeFacts, NewOp
<1>7. ListOps(ListAt(1), Pointers) \subseteq 1 .. opNum /\ ListOps(ListAt(2), Pointers) \subseteq 1 .. opNum
  BY <1>2, <1>3, <1>6, ListOpsExist
<1>8. ListAt(1) \in Lists(opNum') /\ ListAt(2) \in Lists(opNum')
  <2>1. Lists(opNum) \subseteq Lists(opNum')
    BY <1>6, TypesGrow
  <2>2. QED
    BY <2>1, <1>2, <1>3
<1>9. Parts(ListAt(i), ListAt(j), o, 2, o)
  <2>1. CASE i = 1 /\ j = 2
    BY <2>1, <1>2, <1>3, <1>4, <1>5, <1>6, <1>7, <1>8 DEF Parts
  <2>2. CASE i = 2 /\ j = 1
    BY <2>2, <1>2, <1>3, <1>4, <1>5, <1>6, <1>7, <1>8 DEF Parts
  <2>3. QED
    BY <2>1, <2>2
<1>10. IsOpen(AddToOPList(ListAt(i), ListAt(j), o).entry)
  BY <1>2, <1>3, EntryJoined
<1>11. QED
  BY <1>9, <1>10

\* A list that holds nothing.
LEMMA EmptyList ==
  ASSUME NEW n \in Count, NEW p
  PROVE  /\ Empty(NoEntry) \in Lists(n) /\ GoodList(Empty(NoEntry), p) /\ ListOps(Empty(NoEntry), p) = {}
         /\ Empty(NoEntry).chain = Nil /\ Empty(NoEntry).post = Nil /\ Empty(NoEntry).entry = NoEntry
<1>1. Empty(NoEntry) = [chain |-> Nil, post |-> Nil, entry |-> NoEntry]
  BY DEF Empty
<1>2. Empty(NoEntry) \in Lists(n)
  BY <1>1 DEF Lists, Chains
<1>3. QED
  BY <1>1, <1>2, NilOps DEF GoodList, ListOps

\* The invariant after a rule that makes one expression of the topmost one or
\* two.  The levels keep their names, and what entries point to is not freed.
LEMMA ExprInv ==
  ASSUME GraphInv, parsing, parsing' = parsing, NEW o, Numbered(o),
         NEW k \in {1, 2}, Len(stack) >= k, \A i \in 1 .. k : At(i).sort = "expr",
         NEW list, Joined(list, k, o), IsOpen(list.entry), stack' = Append(Below(k), Expr(list)),
         left' \in [Op -> 0 .. opNum'], right' \in [Op -> 0 .. opNum'],
         freed' = freed, dropped' = dropped,
         scopes' \in Seq(Scope(opNum')), Len(scopes') = Len(scopes),
         \A l \in DOMAIN scopes : DOMAIN scopes[l] = DOMAIN scopes'[l], LocalsLive'
  PROVE  GraphInv'
<1> DEFINE it == Expr(list)
           T == TopOps(stack, k, Pointers)
<1>1. /\ opNum' \in Count /\ opNum <= opNum' /\ k \in 0 .. Len(stack) /\ Len(stack) - k < MaxStack
      /\ Len(stack) \in Nat
  BY NewOp, TypeFacts, OpAssumption DEF GraphInv, TypeOK
<1>2. /\ list \in Lists(opNum') /\ Pointers' \in Ptrs(opNum') /\ GoodList(list, Pointers')
      /\ ListOps(list, Pointers') = T \cup ({o} \ {NULL})
      /\ Agree(Pointers, Pointers', Op \ (T \cup ({o} \ {NULL})))
  BY DEF Joined
<1>3. /\ it \in Items(opNum') /\ GoodItem(it, Pointers') /\ ItemOps(it, Pointers') = ListOps(list, Pointers')
      /\ Shape(it) /\ it.sort = "expr" /\ it.lists[1] = list /\ it.ids = <<>>
  <2>1. <<>> \in Ids(opNum')
    BY DEF Ids
  <2>2. it = Item("expr", <<list>>, <<>>, <<>>)
    BY DEF Expr
  <2>3. "expr" \in ListSorts /\ opNum' \in Count
    BY <1>1 DEF ListSorts
  <2>4. list \in Lists(opNum') /\ GoodList(list, Pointers')
    BY <1>2
  <2> HIDE DEF it
  <2>5. QED
    BY <2>1, <2>2, <2>3, <2>4, ListMade
<1>4. stack' = Append(Below(k), it)
  OBVIOUS
<1> HIDE DEF it, T
<1>5. Makeover(k, it, o, {})
  <2>1. ItemOps(it, Pointers') = (T \cup ({o} \ {NULL})) \ {}
    BY <1>2, <1>3
  <2>2. QED
    BY <1>1, <1>2, <1>3, <1>4, <2>1 DEF Makeover, T
<1>6. Fits(k, it)
  BY <1>3 DEF Fits
<1>7. KeepsBlocks(k, it)
  BY <1>3 DEF KeepsBlocks
<1>8. Blocks(stack') = Blocks(stack)
  BY <1>1, <1>3, <1>4, <1>7, BlocksKept
<1>9. Len(scopes') = 1 + Cardinality(Blocks(stack')) /\ DOMAIN scopes = 1 .. Len(scopes)
  BY <1>8, ScopeFacts
<1>10. DOMAIN scopes' = DOMAIN scopes
  BY <1>9, LenProperties
<1>11. EntriesOpen'
  BY <1>1, <1>3, <1>4, <1>10, EntriesKept
<1>12. dropped' = dropped \cup {}
  OBVIOUS
<1>13. QED
  BY <1>1, <1>5, <1>6, <1>9, <1>11, <1>12, RewriteInv

\* The same for a rule that leaves the levels alone.
LEMMA ExprRule ==
  ASSUME GraphInv, parsing, parsing' = parsing, NEW o, Numbered(o),
         NEW k \in {1, 2}, Len(stack) >= k, \A i \in 1 .. k : At(i).sort = "expr",
         NEW list, Joined(list, k, o), IsOpen(list.entry), stack' = Append(Below(k), Expr(list)),
         left' \in [Op -> 0 .. opNum'], right' \in [Op -> 0 .. opNum'],
         freed' = freed, dropped' = dropped, scopes' = scopes
  PROVE  GraphInv'
<1>1. opNum' \in Count /\ opNum <= opNum'
  BY NewOp
<1>2. scopes' \in Seq(Scope(opNum'))
  BY <1>1, ScopeFacts, TypeFacts, TypesGrow
<1>3. LocalsLive'
  BY DEF GraphInv, LocalsLive
<1>4. QED
  BY <1>2, <1>3, ExprInv
-----------------------------------------------------------------------------
(* The operands that a guard requires.                                     *)

\* The sorts of the topmost elements.
LEMMA SortsOne ==
  ASSUME Len(stack) \in Nat, NEW A, Sorts(<<A>>)
  PROVE  Len(stack) >= 1 /\ 1 \in 1 .. Len(stack) /\ At(1).sort \in A
<1>1. Len(<<A>>) = 1 /\ 1 \in DOMAIN <<A>> /\ <<A>>[1] = A
  OBVIOUS
<1> DEFINE ss == <<A>>
<1>2. Len(ss) = 1 /\ 1 \in DOMAIN ss /\ ss[1] = A /\ Sorts(ss)
  BY <1>1
<1> HIDE DEF ss
<1>3. Len(stack) >= 1 /\ At(1).sort \in A
  BY <1>2 DEF Sorts
<1>4. QED
  BY <1>3

\* Two of them.
LEMMA SortsTwo ==
  ASSUME Len(stack) \in Nat, NEW A, NEW B, Sorts(<<A, B>>)
  PROVE  /\ Len(stack) >= 2 /\ 1 \in 1 .. Len(stack) /\ 2 \in 1 .. Len(stack)
         /\ At(1).sort \in A /\ At(2).sort \in B
<1> DEFINE ss == <<A, B>>
<1>1. Len(ss) = 2 /\ 1 \in DOMAIN ss /\ 2 \in DOMAIN ss /\ ss[1] = A /\ ss[2] = B /\ Sorts(ss)
  OBVIOUS
<1> HIDE DEF ss
<1>2. Len(stack) >= 2 /\ At(1).sort \in A /\ At(2).sort \in B
  BY <1>1 DEF Sorts
<1>3. QED
  BY <1>2

\* Two topmost expressions.
LEMMA Operands ==
  ASSUME GraphInv, Sorts(<<Operand, Operand>>)
  PROVE  /\ Len(stack) >= 2 /\ 1 \in 1 .. Len(stack) /\ 2 \in 1 .. Len(stack)
         /\ At(1).sort = "expr" /\ At(2).sort = "expr"
         /\ \A i \in 1 .. 2 : At(i).sort = "expr"
<1>1. /\ Len(stack) >= 2 /\ 1 \in 1 .. Len(stack) /\ 2 \in 1 .. Len(stack)
      /\ At(1).sort \in Operand /\ At(2).sort \in Operand
  BY TypeFacts, SortsTwo
<1>2. At(1).sort = "expr" /\ At(2).sort = "expr"
  BY <1>1 DEF Operand
<1>3. 1 .. 2 = {1, 2}
  OBVIOUS
<1>4. QED
  BY <1>1, <1>2, <1>3

\* One operand.
LEMMA OneOperand ==
  ASSUME GraphInv, Sorts(<<Operand>>)
  PROVE  /\ Len(stack) >= 1 /\ 1 \in 1 .. Len(stack) /\ At(1).sort = "expr"
         /\ \A i \in 1 .. 1 : At(i).sort = "expr"
<1>1. Len(stack) >= 1 /\ 1 \in 1 .. Len(stack) /\ At(1).sort \in Operand
  BY TypeFacts, SortsOne
<1>2. At(1).sort = "expr"
  BY <1>1 DEF Operand
<1>3. 1 .. 1 = {1}
  OBVIOUS
<1>4. QED
  BY <1>1, <1>2, <1>3

-----------------------------------------------------------------------------
(* Rules that push an element without operations.                          *)

\* The stack below nothing is the stack.
LEMMA BelowNone == ASSUME GraphInv PROVE Below(0) = stack
<1>1. stack \in Seq(Items(opNum)) /\ Len(stack) - 0 = Len(stack)
  BY TypeFacts
<1>2. QED
  BY <1>1, SubSeqFull DEF Below

\* The makeover that pushes such an element.
LEMMA PushMakeover ==
  ASSUME GraphInv, NEW it, it \in Items(opNum), GoodItem(it, Pointers), ItemOps(it, Pointers) = {},
         stack' = Append(stack, it), opNum' = opNum, links' = links
  PROVE  Makeover(0, it, NULL, {}) /\ Numbered(NULL) /\ stack' = Append(Below(0), it)
<1>1. Pointers' = Pointers /\ Pointers \in Ptrs(opNum) /\ Len(stack) \in Nat /\ opNum \in Count
  BY TypeFacts DEF Pointers, links
<1>2. TopOps(stack, 0, Pointers) = {}
  BY TopAre
<1>3. stack' = Append(Below(0), it)
  BY BelowNone
<1>4. Agree(Pointers, Pointers', Op \ (TopOps(stack, 0, Pointers) \cup ({NULL} \ {NULL})))
  BY <1>1 DEF Agree
<1>5. ItemOps(it, Pointers') = (TopOps(stack, 0, Pointers) \cup ({NULL} \ {NULL})) \ {}
  BY <1>1, <1>2
<1>6. GoodItem(it, Pointers') /\ Pointers' \in Ptrs(opNum') /\ it \in Items(opNum') /\ 0 \in 0 .. Len(stack)
  BY <1>1
<1>7. Makeover(0, it, NULL, {})
  BY <1>3, <1>4, <1>5, <1>6 DEF Makeover
<1>8. Numbered(NULL)
  BY DEF Numbered
<1>9. QED
  BY <1>3, <1>7, <1>8

\* A rule that pushes an element without operations keeps the invariant.
LEMMA PushRule ==
  ASSUME GraphInv, parsing, parsing' = parsing,
         NEW it, it \in Items(opNum), GoodItem(it, Pointers), ItemOps(it, Pointers) = {},
         Fits(0, it), it.sort # "block", it.sort = "expr" => IsOpen(it.lists[1].entry),
         Push(it), UNCHANGED <<opNum, freed, links, deps, scopes, dropped>>
  PROVE  GraphInv'
<1>1. /\ stack' = Append(stack, it) /\ Len(stack) < MaxStack
      /\ opNum' = opNum /\ freed' = freed /\ links' = links /\ left' = left /\ right' = right
      /\ scopes' = scopes /\ dropped' = dropped
  BY DEF Push, deps
<1>2. Makeover(0, it, NULL, {}) /\ Numbered(NULL)
  BY <1>1, PushMakeover
<1>3. left' \in [Op -> 0 .. opNum'] /\ right' \in [Op -> 0 .. opNum']
  BY <1>1, NoDependences
<1>4. KeepsBlocks(0, it)
  BY DEF KeepsBlocks
<1>5. dropped' = dropped \cup {} /\ Len(stack) - 0 < MaxStack
  BY <1>1, TypeFacts
<1>6. QED
  BY <1>1, <1>2, <1>3, <1>4, <1>5, RuleInv

\* An expression that holds no operations fits on anything.
LEMMA PushExpr ==
  ASSUME GraphInv, parsing, parsing' = parsing, NEW e, Empty(e) \in Lists(opNum), IsOpen(e),
         Push(Expr(Empty(e))), UNCHANGED <<opNum, freed, links, deps, scopes, dropped>>
  PROVE  GraphInv'
<1> DEFINE l == Empty(e)
           it == Expr(l)
<1>1. l.chain = Nil /\ l.post = Nil /\ l.entry = e
  BY DEF Empty
<1>2. GoodList(l, Pointers) /\ ListOps(l, Pointers) = {}
  BY <1>1, NilOps DEF GoodList, ListOps
<1>3. it = Item("expr", <<l>>, <<>>, <<>>) /\ l \in Lists(opNum)
  BY DEF Expr
<1>4. Push(it)
  OBVIOUS
<1> HIDE DEF l, it
<1>5. opNum \in Count /\ "expr" \in ListSorts /\ <<>> \in Ids(opNum)
  BY TypeFacts DEF ListSorts, Ids
<1>6. /\ it \in Items(opNum) /\ GoodItem(it, Pointers) /\ ItemOps(it, Pointers) = ListOps(l, Pointers)
      /\ Shape(it) /\ it.sort = "expr" /\ it.lists[1] = l /\ it.ids = <<>>
  BY <1>2, <1>3, <1>5, ListMade
<1>7. Fits(0, it)
  BY <1>6 DEF Fits
<1>8. ItemOps(it, Pointers) = {} /\ IsOpen(it.lists[1].entry) /\ it.sort # "block"
  BY <1>1, <1>2, <1>6
<1>9. QED
  BY <1>4, <1>6, <1>7, <1>8, PushRule

\* A constant.
LEMMA ConstantInv ==
  ASSUME GraphInv, parsing, parsing' = parsing, Constant
  PROVE  GraphInv'
<1>1. Push(Expr(Empty(NoEntry))) /\ UNCHANGED <<opNum, freed, links, deps, scopes, dropped>>
  BY DEF Constant
<1>2. Empty(NoEntry) \in Lists(opNum)
  BY TypeFacts, EmptyList
<1>3. IsOpen(NoEntry)
  BY DEF IsOpen
<1>4. QED
  BY <1>1, <1>2, <1>3, PushExpr

\* A non-empty set of natural numbers up to n has a greatest element.
LEMMA Greatest ==
  ASSUME NEW n \in Nat, NEW S \in SUBSET (1 .. n), S # {}
  PROVE  \E m \in S : \A k \in S : k <= m
<1> DEFINE R == {p \in Nat \X Nat : p[1] < p[2]}
           T == {n - k : k \in S}
<1>1. IsWellFoundedOn(R, Nat)
  BY NatLessThanWellFounded DEF OpToRel
<1>2. \A i, j \in Nat : <<i, j>> \in R <=> i < j
  OBVIOUS
<1>3. T \in SUBSET Nat /\ T # {}
  <2>1. \A k \in S : n - k \in Nat
    OBVIOUS
  <2>2. PICK k \in S : TRUE
    OBVIOUS
  <2>3. n - k \in T
    OBVIOUS
  <2>4. QED
    BY <2>1, <2>3
<1> HIDE DEF R, T
<1>4. PICK t \in T : \A i \in T : <<i, t>> \notin R
  BY <1>1, <1>3, WFMin
<1>5. PICK m \in S : t = n - m
  BY DEF T
<1>6. ASSUME NEW k \in S PROVE k <= m
  <2>1. n - k \in T /\ n - k \in Nat /\ t \in Nat
    BY <1>3 DEF T
  <2>2. ~(n - k < t)
    BY <1>2, <1>4, <2>1
  <2>3. QED
    BY <1>5, <2>2
<1>7. QED
  BY <1>6

\* There are as many levels as blocks, and one.
LEMMA LevelsBounded ==
  ASSUME GraphInv, parsing
  PROVE  Len(scopes) <= MaxStack + 1 /\ IsFiniteSet(Blocks(stack)) /\ Cardinality(Blocks(stack)) \in Nat
<1>1. Len(scopes) = 1 + Cardinality(Blocks(stack)) /\ Len(stack) \in Nat /\ DOMAIN stack = 1 .. Len(stack)
  BY ScopeFacts, TypeFacts
<1>2. Blocks(stack) \subseteq 1 .. Len(stack)
  BY <1>1 DEF Blocks
<1>3. IsFiniteSet(1 .. Len(stack)) /\ Cardinality(1 .. Len(stack)) = Len(stack)
  <2>1. 1 \in Int /\ Len(stack) \in Int
    BY <1>1
  <2>2. /\ IsFiniteSet(1 .. Len(stack))
        /\ Cardinality(1 .. Len(stack)) = IF 1 > Len(stack) THEN 0 ELSE Len(stack) - 1 + 1
    BY <2>1, FS_Interval
  <2>3. QED
    BY <1>1, <2>2
<1>4. IsFiniteSet(Blocks(stack)) /\ Cardinality(Blocks(stack)) <= Len(stack)
  BY <1>2, <1>3, FS_Subset
<1>5. Cardinality(Blocks(stack)) \in Nat
  BY <1>4, FS_CardinalityType
<1>6. Len(stack) <= MaxStack
  BY DEF GraphInv, TypeOK
<1>7. QED
  BY <1>1, <1>4, <1>5, <1>6, OpAssumption

\* The entry of a name is that of the innermost level that has it.
LEMMA EntryFound ==
  ASSUME GraphInv, parsing, NEW x \in Name
  PROVE  EntryOf(x) \in {NoEntry} \cup ((1 .. MaxStack + 1) \X Name) /\ IsOpen(EntryOf(x))
<1>1. CASE Binding(x) = {}
  BY <1>1 DEF EntryOf, IsOpen
<1>2. CASE Binding(x) # {}
  <2> DEFINE l == CHOOSE i \in Binding(x) : \A k \in Binding(x) : k <= i
  <2>1. Len(scopes) \in Nat /\ DOMAIN scopes = 1 .. Len(scopes) /\ Binding(x) \in SUBSET (1 .. Len(scopes))
    BY ScopeFacts DEF Binding
  <2>2. \E i \in Binding(x) : \A k \in Binding(x) : k <= i
    BY <1>2, <2>1, Greatest
  <2>3. l \in Binding(x)
    BY <2>2
  <2>4. EntryOf(x) = <<l, x>>
    BY <1>2 DEF EntryOf
  <2> HIDE DEF l
  <2>5. l \in DOMAIN scopes /\ x \in DOMAIN scopes[l]
    BY <2>1, <2>3 DEF Binding
  <2>6. l \in 1 .. MaxStack + 1
    BY <2>1, <2>5, LevelsBounded, OpAssumption
  <2>7. QED
    BY <2>4, <2>5, <2>6 DEF IsOpen
<1>3. QED
  BY <1>1, <1>2

\* An identifier, with the entry that GetTableEntry finds.
LEMMA IdentifierInv ==
  ASSUME GraphInv, parsing, parsing' = parsing, NEW x \in Name, Identifier(x)
  PROVE  GraphInv'
<1>1. Push(Expr(Empty(EntryOf(x)))) /\ UNCHANGED <<opNum, freed, links, deps, scopes, dropped>>
  BY DEF Identifier
<1>2. EntryOf(x) \in {NoEntry} \cup ((1 .. MaxStack + 1) \X Name) /\ IsOpen(EntryOf(x))
  BY EntryFound
<1>3. Empty(EntryOf(x)) \in Lists(opNum)
  BY <1>2 DEF Empty, Lists, Chains
<1>4. QED
  BY <1>1, <1>2, <1>3, PushExpr
-----------------------------------------------------------------------------
(* Operators.                                                              *)

\* An operator with two operands.
LEMMA TwoOperands ==
  ASSUME GraphInv, parsing, parsing' = parsing, NEW o, Sorts(<<Operand, Operand>>), Numbered(o),
         left' \in [Op -> 0 .. opNum'], right' \in [Op -> 0 .. opNum'],
         Link(TieLists(Pointers, ListAt(2), ListAt(1), o)),
         Replace(2, Expr(AddToOPList(ListAt(2), ListAt(1), o))),
         UNCHANGED <<freed, scopes, dropped>>
  PROVE  GraphInv'
<1> DEFINE list == AddToOPList(ListAt(2), ListAt(1), o)
<1>1. /\ Len(stack) >= 2 /\ At(1).sort = "expr" /\ At(2).sort = "expr"
      /\ \A i \in 1 .. 2 : At(i).sort = "expr"
  BY Operands
<1>2. Parts(ListAt(2), ListAt(1), o, 2, o) /\ IsOpen(list.entry)
  BY <1>1, TwoLists
<1>3. Joined(list, 2, o)
  BY <1>2, PartsJoined
<1>4. stack' = Append(Below(2), Expr(list))
  BY DEF Replace
<1> HIDE DEF list
<1>5. freed' = freed /\ dropped' = dropped /\ scopes' = scopes
  OBVIOUS
<1>6. QED
  BY <1>1, <1>2, <1>3, <1>4, <1>5, ExprRule

\* An operator with two operands.
LEMMA BinaryInv ==
  ASSUME GraphInv, parsing, parsing' = parsing, NEW o, Binary(o)
  PROVE  GraphInv'
<1>1. /\ Sorts(<<Operand, Operand>>) /\ CreateOP(o, Producer(ListAt(2)), Producer(ListAt(1)))
      /\ Link(TieLists(Pointers, ListAt(2), ListAt(1), o))
      /\ Replace(2, Expr(AddToOPList(ListAt(2), ListAt(1), o)))
      /\ UNCHANGED <<freed, scopes, dropped>>
  BY DEF Binary
<1>2. Producer(ListAt(2)) \in 0 .. opNum /\ Producer(ListAt(1)) \in 0 .. opNum
  BY <1>1, Operands, ExprFacts
<1>3. Numbered(o) /\ left' \in [Op -> 0 .. opNum'] /\ right' \in [Op -> 0 .. opNum']
  BY <1>1, <1>2, Dependences
<1>4. QED
  BY <1>1, <1>3, TwoOperands

\* A subscript.
LEMMA SubscriptInv ==
  ASSUME GraphInv, parsing, parsing' = parsing, NEW o, Subscript(o)
  PROVE  GraphInv'
<1>1. /\ Sorts(<<Operand, Operand>>) /\ CreateOP(o, NULL, NULL)
      /\ Link(TieLists(Pointers, ListAt(2), ListAt(1), o))
      /\ Replace(2, Expr(AddToOPList(ListAt(2), ListAt(1), o)))
      /\ UNCHANGED <<freed, scopes, dropped>>
  BY DEF Subscript
<1>2. NULL \in 0 .. opNum
  BY TypeFacts DEF NULL
<1>3. Numbered(o) /\ left' \in [Op -> 0 .. opNum'] /\ right' \in [Op -> 0 .. opNum']
  BY <1>1, <1>2, Dependences
<1>4. QED
  BY <1>1, <1>3, TwoOperands

\* A comma.
LEMMA CommaInv ==
  ASSUME GraphInv, parsing, parsing' = parsing, Comma
  PROVE  GraphInv'
<1>1. /\ Sorts(<<Operand, Operand>>)
      /\ Link(TieLists(Pointers, ListAt(2), ListAt(1), NULL))
      /\ Replace(2, Expr(AddToOPList(ListAt(2), ListAt(1), NULL)))
      /\ opNum' = opNum /\ left' = left /\ right' = right /\ UNCHANGED <<freed, scopes, dropped>>
  BY DEF Comma, deps
<1>2. Numbered(NULL) /\ left' \in [Op -> 0 .. opNum'] /\ right' \in [Op -> 0 .. opNum']
  BY <1>1, NoDependences
<1>3. QED
  BY <1>1, <1>2, TwoOperands

\* The list of the topmost expression, and one with a new operation or none.
LEMMA WithNew ==
  ASSUME GraphInv, NEW o, Numbered(o), Sorts(<<Operand>>), NEW r, r \in Lists(opNum'),
         GoodList(r, Pointers), NEW new \in {o, NULL},
         ListOps(r, Pointers) \cup ({new} \ {NULL}) = {o} \ {NULL}, new \notin ListOps(r, Pointers)
  PROVE  /\ Parts(ListAt(1), r, new, 1, o) /\ Parts(r, ListAt(1), new, 1, o)
         /\ IsOpen(ListAt(1).entry)
<1>1. 1 \in 1 .. Len(stack) /\ At(1).sort = "expr"
  BY OneOperand
<1>2. /\ ListAt(1) \in Lists(opNum) /\ GoodList(ListAt(1), Pointers) /\ IsOpen(ListAt(1).entry)
      /\ ItemOps(At(1), Pointers) = ListOps(ListAt(1), Pointers)
  BY <1>1, ExprFacts
<1>3. TopOps(stack, 1, Pointers) = ListOps(ListAt(1), Pointers)
  BY <1>2, TopAre
<1>4. /\ opNum \in Count /\ Pointers \in Ptrs(opNum)
      /\ opNum' \in Count /\ opNum <= opNum' /\ o \notin 1 .. opNum
  BY TypeFacts, NewOp
<1>5. ListOps(ListAt(1), Pointers) \subseteq 1 .. opNum
  BY <1>2, <1>4, ListOpsExist
<1>6. ListAt(1) \in Lists(opNum')
  <2>1. Lists(opNum) \subseteq Lists(opNum')
    BY <1>4, TypesGrow
  <2>2. QED
    BY <2>1, <1>2
<1>7. NULL \notin 1 .. opNum
  BY <1>4 DEF NULL, Count
<1> DEFINE S == ListOps(ListAt(1), Pointers)
           R == ListOps(r, Pointers)
<1>8. S \cap R = {} /\ new \notin S \cup R /\ new \in {o, NULL}
  BY <1>4, <1>5, <1>7
<1>9. S \cup R \cup ({new} \ {NULL}) = S \cup ({o} \ {NULL})
  OBVIOUS
<1> HIDE DEF S, R
<1>10. R \cup S \cup ({new} \ {NULL}) = S \cup ({o} \ {NULL}) /\ R \cap S = {} /\ new \notin R \cup S
  BY <1>8, <1>9
<1>11. Parts(ListAt(1), r, new, 1, o)
  BY <1>2, <1>3, <1>6, <1>8, <1>9 DEF Parts, S, R
<1>12. Parts(r, ListAt(1), new, 1, o)
  BY <1>2, <1>3, <1>6, <1>8, <1>10 DEF Parts, S, R
<1>13. QED
  BY <1>2, <1>11, <1>12

\* An operator with one operand.
LEMMA OneOperandRule ==
  ASSUME GraphInv, parsing, parsing' = parsing, NEW o, Numbered(o), Sorts(<<Operand>>),
         left' \in [Op -> 0 .. opNum'], right' \in [Op -> 0 .. opNum'],
         NEW list, Joined(list, 1, o), IsOpen(list.entry), Replace(1, Expr(list)),
         UNCHANGED <<freed, scopes, dropped>>
  PROVE  GraphInv'
<1>1. Len(stack) >= 1 /\ \A i \in 1 .. 1 : At(i).sort = "expr"
  BY OneOperand
<1>2. stack' = Append(Below(1), Expr(list)) /\ freed' = freed /\ scopes' = scopes /\ dropped' = dropped
  BY DEF Replace
<1>3. QED
  BY <1>1, <1>2, ExprRule

\* A postfix operator, whose operation comes after the statement.
LEMMA PostIncrementInv ==
  ASSUME GraphInv, parsing, parsing' = parsing, NEW o, PostIncrement(o)
  PROVE  GraphInv'
<1> DEFINE later == [Empty(NoEntry) EXCEPT !.post = Single(o)]
           list == AddToOPList(ListAt(1), later, NULL)
<1>1. /\ Sorts(<<Operand>>) /\ CreateOP(o, NULL, NULL)
      /\ Link(TieLists(Pointers, ListAt(1), later, NULL)) /\ Replace(1, Expr(list))
      /\ UNCHANGED <<freed, scopes, dropped>>
  BY DEF PostIncrement
<1>2. NULL \in 0 .. opNum
  BY TypeFacts DEF NULL
<1>3. Numbered(o) /\ left' \in [Op -> 0 .. opNum'] /\ right' \in [Op -> 0 .. opNum']
  BY <1>1, <1>2, Dependences
<1>4. /\ opNum' \in Count /\ o \in 0 .. opNum' /\ Pointers \in Ptrs(opNum')
      /\ o # NULL => Pointers.next[o] = NULL /\ Pointers.issue[o] = NULL
  BY <1>3, NewOp, TypeFacts
<1>5. Single(o) \in Chains(opNum') /\ V(Single(o), Pointers) = {o} \ {NULL} /\ Good(Single(o), Pointers)
  BY <1>4, SingleOrNil
<1>6. later.chain = Nil /\ later.post = Single(o) /\ later.entry = NoEntry /\ later \in Lists(opNum')
  BY <1>5 DEF Empty, Lists, Chains
<1> HIDE DEF later
<1>7. GoodList(later, Pointers) /\ ListOps(later, Pointers) = {o} \ {NULL}
  BY <1>5, <1>6, NilOps DEF GoodList, ListOps
<1>8. Parts(ListAt(1), later, NULL, 1, o) /\ IsOpen(ListAt(1).entry)
  <2>1. ListOps(later, Pointers) \cup ({NULL} \ {NULL}) = {o} \ {NULL} /\ NULL \notin ListOps(later, Pointers)
    BY <1>7
  <2>2. QED
    BY <1>1, <1>3, <1>6, <1>7, <2>1, WithNew
<1>9. Joined(list, 1, o)
  BY <1>1, <1>3, <1>8, PartsJoined
<1>10. IsOpen(list.entry)
  BY <1>6, <1>8 DEF AddToOPList
<1> HIDE DEF list
<1>11. QED
  BY <1>1, <1>3, <1>9, <1>10, OneOperandRule

\* AddToOPList with a null list is AddToOPList with an empty one.
LEMMA UnaryJoined ==
  ASSUME GraphInv, NEW o, Numbered(o), Sorts(<<Operand>>), Unary(o)
  PROVE  LET list == [ListAt(1) EXCEPT !.chain = Join(@, Single(o))]
         IN  Joined(list, 1, o) /\ IsOpen(list.entry)
<1> DEFINE l == ListAt(1)
           e == Empty(NoEntry)
           list == [l EXCEPT !.chain = Join(@, Single(o))]
<1>1. opNum \in Count /\ opNum' \in Count
  BY TypeFacts, NewOp
<1>2. e \in Lists(opNum') /\ GoodList(e, Pointers) /\ ListOps(e, Pointers) = {}
      /\ e.chain = Nil /\ e.post = Nil /\ e.entry = NoEntry
  BY <1>1, EmptyList
<1> HIDE DEF e
<1>3. Parts(l, e, o, 1, o) /\ IsOpen(l.entry)
  <2>1. ListOps(e, Pointers) \cup ({o} \ {NULL}) = {o} \ {NULL} /\ o \notin ListOps(e, Pointers)
    BY <1>2
  <2>2. QED
    BY <1>2, <2>1, WithNew
<1>4. l \in Lists(opNum')
  BY <1>3 DEF Parts
<1> HIDE DEF l
<1>5. l = [chain |-> l.chain, post |-> l.post, entry |-> l.entry]
  BY <1>4 DEF Lists
<1>6. \A c : Join(c, Nil) = c
  BY DEF Join
<1>7. \A p, c : Tie(p, c, Nil) = p
  BY DEF Tie
<1>8. TieLists(Pointers, l, e, o) = Tie(Pointers, l.chain, Single(o))
  BY <1>2, <1>6, <1>7 DEF TieLists
<1>9. AddToOPList(l, e, o) = [chain |-> Join(l.chain, Single(o)), post |-> l.post, entry |-> l.entry]
  BY <1>2, <1>6 DEF AddToOPList
<1>10. list = AddToOPList(l, e, o) /\ list.entry = l.entry
  BY <1>5, <1>9
<1>11. Link(TieLists(Pointers, l, e, o))
  BY <1>8 DEF Unary, l
<1>12. Joined(AddToOPList(l, e, o), 1, o)
  BY <1>3, <1>11, PartsJoined
<1>13. QED
  BY <1>3, <1>10, <1>12 DEF l

\* An operator with one operand.
LEMMA UnaryInv ==
  ASSUME GraphInv, parsing, parsing' = parsing, NEW o, Sorts(<<Operand>>),
         NEW dr \in 0 .. opNum, CreateOP(o, NULL, dr), Unary(o)
  PROVE  GraphInv'
<1> DEFINE list == [ListAt(1) EXCEPT !.chain = Join(@, Single(o))]
<1>1. NULL \in 0 .. opNum
  BY TypeFacts DEF NULL
<1>2. Numbered(o) /\ left' \in [Op -> 0 .. opNum'] /\ right' \in [Op -> 0 .. opNum']
  BY <1>1, Dependences
<1>3. Joined(list, 1, o) /\ IsOpen(list.entry)
  BY <1>2, UnaryJoined
<1>4. Replace(1, Expr(list)) /\ UNCHANGED <<freed, scopes, dropped>>
  BY DEF Unary
<1> HIDE DEF list
<1>5. QED
  BY <1>2, <1>3, <1>4, OneOperandRule

\* A prefix operator.
LEMMA PreIncrementInv ==
  ASSUME GraphInv, parsing, parsing' = parsing, NEW o, PreIncrement(o)
  PROVE  GraphInv'
<1>1. Sorts(<<Operand>>) /\ CreateOP(o, NULL, Producer(ListAt(1))) /\ Unary(o)
  BY DEF PreIncrement
<1>2. Producer(ListAt(1)) \in 0 .. opNum
  BY <1>1, OneOperand, ExprFacts
<1>3. QED
  BY <1>1, <1>2, UnaryInv

\* A dereference.
LEMMA DereferenceInv ==
  ASSUME GraphInv, parsing, parsing' = parsing, NEW o, Dereference(o)
  PROVE  GraphInv'
<1>1. Sorts(<<Operand>>) /\ CreateOP(o, NULL, NULL) /\ Unary(o)
  BY DEF Dereference
<1>2. NULL \in 0 .. opNum
  BY TypeFacts DEF NULL
<1>3. QED
  BY <1>1, <1>2, UnaryInv
\* Nothing is tied to an empty list.
LEMMA WorkItemFunctionInv ==
  ASSUME GraphInv, parsing, parsing' = parsing, WorkItemFunction
  PROVE  GraphInv'
<1> DEFINE l == ListAt(1)
           e == Empty(NoEntry)
           list == AddToOPList(e, l, NULL)
<1>1. /\ Sorts(<<Operand>>) /\ Replace(1, Expr(list))
      /\ opNum' = opNum /\ links' = links /\ left' = left /\ right' = right
      /\ UNCHANGED <<freed, scopes, dropped>>
  BY DEF WorkItemFunction, deps
<1>2. Numbered(NULL) /\ left' \in [Op -> 0 .. opNum'] /\ right' \in [Op -> 0 .. opNum']
  BY <1>1, NoDependences
<1>3. opNum' \in Count
  BY <1>2, NewOp
<1>4. e \in Lists(opNum') /\ GoodList(e, Pointers) /\ ListOps(e, Pointers) = {}
      /\ e.chain = Nil /\ e.post = Nil /\ e.entry = NoEntry
  BY <1>3, EmptyList
<1> HIDE DEF e
<1>5. Parts(e, l, NULL, 1, NULL) /\ IsOpen(l.entry)
  <2>1. ListOps(e, Pointers) \cup ({NULL} \ {NULL}) = {NULL} \ {NULL} /\ NULL \notin ListOps(e, Pointers)
    BY <1>4
  <2>2. QED
    BY <1>1, <1>2, <1>4, <2>1, WithNew
<1> HIDE DEF l
<1>6. \A p, c : Tie(p, Nil, c) = p /\ Tie(p, c, Nil) = p
  BY DEF Tie
<1>7. Single(NULL) = Nil
  BY DEF Single
<1>8. TieLists(Pointers, e, l, NULL) = Pointers
  BY <1>4, <1>6, <1>7 DEF TieLists
<1>9. Link(TieLists(Pointers, e, l, NULL))
  BY <1>1, <1>8 DEF Link, Pointers, links
<1>10. Joined(list, 1, NULL)
  BY <1>2, <1>5, <1>9, PartsJoined
<1>11. IsOpen(list.entry)
  <2>1. IsOpen(e.entry)
    BY <1>4 DEF IsOpen
  <2>2. QED
    BY <1>5, <2>1, EntryJoined
<1> HIDE DEF list
<1>12. QED
  BY <1>1, <1>2, <1>10, <1>11, OneOperandRule

\* The last operation of a list on the stack has not been freed.
LEMMA TailLive ==
  ASSUME GraphInv, NEW o, Numbered(o), NEW k \in 0 .. Len(stack), NEW list, Joined(list, k, o)
  PROVE  list.chain.tail \in 0 .. opNum' /\ list.chain.tail \notin freed
<1>1. /\ opNum \in Count /\ opNum' \in Count /\ o \notin 1 .. opNum /\ freed \subseteq 1 .. opNum
      /\ StackOps(stack, Pointers) \cap freed = {}
  BY TypeFacts, NewOp DEF GraphInv, TypeOK, Accounted
<1>2. /\ list \in Lists(opNum') /\ GoodList(list, Pointers')
      /\ ListOps(list, Pointers') = TopOps(stack, k, Pointers) \cup ({o} \ {NULL})
  BY DEF Joined
<1>3. list.chain \in Chains(opNum') /\ Good(list.chain, Pointers')
  BY <1>1, <1>2, ListTypes DEF GoodList
<1>4. list.chain.tail \in 0 .. opNum'
  BY <1>1, <1>3, ChainTypes
<1>5. CASE list.chain = Nil
  BY <1>1, <1>4, <1>5 DEF Nil, NULL, Count
<1>6. CASE list.chain # Nil
  <2>1. list.chain.tail \in ListOps(list, Pointers')
    BY <1>3, <1>6 DEF Good, ListOps
  <2>2. TopOps(stack, k, Pointers) \subseteq StackOps(stack, Pointers)
    BY TopOpsExist
  <2>3. QED
    BY <1>1, <1>2, <1>4, <2>1, <2>2
<1>7. QED
  BY <1>5, <1>6

\* An assignment writes the entry of its left side.
LEMMA Updated ==
  ASSUME GraphInv, NEW m \in Count, opNum <= m, NEW source, IsOpen(source.entry), NEW update,
         update.chain.tail \in 0 .. m, update.chain.tail \notin freed, freed' = freed,
         UpdateSymbolTable(source, update)
  PROVE  /\ scopes' \in Seq(Scope(m)) /\ Len(scopes') = Len(scopes)
         /\ \A l \in DOMAIN scopes : DOMAIN scopes[l] = DOMAIN scopes'[l]
         /\ LocalsLive'
<1> DEFINE e == source.entry
           t == update.chain.tail
<1>1. /\ scopes \in Seq(Scope(opNum)) /\ Len(scopes) \in Nat /\ DOMAIN scopes = 1 .. Len(scopes)
      /\ \A l \in DOMAIN scopes : scopes[l] \in Scope(opNum)
  BY ScopeFacts
<1>2. Seq(Scope(opNum)) \subseteq Seq(Scope(m)) /\ Scope(opNum) \subseteq Scope(m)
  BY TypeFacts, TypesGrow
<1>3. \A l \in 2 .. Len(scopes) : \A x \in DOMAIN scopes[l] : scopes[l][x] \notin freed
  BY DEF GraphInv, LocalsLive
<1>4. CASE e = NoEntry
  <2>1. scopes' = scopes
    BY <1>4 DEF UpdateSymbolTable
  <2>2. LocalsLive'
    BY <1>3, <2>1 DEF LocalsLive
  <2>3. QED
    BY <1>1, <1>2, <2>1, <2>2
<1>5. CASE e # NoEntry
  <2> DEFINE i == e[1]
             y == e[2]
             f == [scopes[i] EXCEPT ![y] = t]
  <2>1. i \in DOMAIN scopes /\ y \in DOMAIN scopes[i]
    BY <1>5 DEF IsOpen
  <2>2. scopes' = [scopes EXCEPT ![i] = f]
    BY <1>5 DEF UpdateSymbolTable
  <2>3. DOMAIN f = DOMAIN scopes[i] /\ \A x \in DOMAIN f : f[x] = IF x = y THEN t ELSE scopes[i][x]
    OBVIOUS
  <2>4. f \in Scope(m)
    <3>0. scopes[i] \in Scope(m)
      BY <1>1, <1>2, <2>1
    <3>1. PICK D \in SUBSET Name : scopes[i] \in [D -> 0 .. m]
      BY <3>0 DEF Scope
    <3>2. f \in [D -> 0 .. m]
      BY <3>1
    <3>3. QED
      BY <3>2 DEF Scope
  <2> HIDE DEF f
  <2>5. scopes' \in Seq(Scope(m)) /\ Len(scopes') = Len(scopes)
        /\ \A l \in 1 .. Len(scopes) : scopes'[l] = IF l = i THEN f ELSE scopes[l]
    <3>1. scopes \in Seq(Scope(m)) /\ i \in 1 .. Len(scopes)
      BY <1>1, <1>2, <2>1
    <3>2. /\ [scopes EXCEPT ![i] = f] \in Seq(Scope(m))
          /\ Len([scopes EXCEPT ![i] = f]) = Len(scopes)
          /\ \A j \in 1 .. Len(scopes) : [scopes EXCEPT ![i] = f][j] = IF j = i THEN f ELSE scopes[j]
      BY <3>1, <2>4, ExceptSeq
    <3>3. QED
      BY <2>2, <3>2
  <2>6. \A l \in DOMAIN scopes : DOMAIN scopes[l] = DOMAIN scopes'[l]
    BY <1>1, <2>3, <2>5
  <2>7. \A l \in 2 .. Len(scopes) : \A x \in DOMAIN scopes'[l] : scopes'[l][x] \notin freed
    <3> SUFFICES ASSUME NEW l \in 2 .. Len(scopes), NEW x \in DOMAIN scopes'[l] PROVE scopes'[l][x] \notin freed
      OBVIOUS
    <3>1. l \in 1 .. Len(scopes)
      BY <1>1
    <3>2. CASE l = i
      BY <1>3, <2>3, <2>5, <3>1, <3>2
    <3>3. CASE l # i
      BY <1>3, <2>5, <3>1, <3>3
    <3>4. QED
      BY <3>2, <3>3
  <2>8. LocalsLive'
    BY <2>5, <2>7 DEF LocalsLive
  <2>9. QED
    BY <2>5, <2>6, <2>8
<1>6. QED
  BY <1>4, <1>5

\* An assignment, with an operation or without.
LEMMA AssignInv ==
  ASSUME GraphInv, parsing, parsing' = parsing, NEW o, Assign(o)
  PROVE  GraphInv'
<1> DEFINE list == AddToOPList(ListAt(1), ListAt(2), o)
<1>1. /\ Sorts(<<Operand, Operand>>)
      /\ IF o = NULL THEN UNCHANGED <<opNum, deps>>
         ELSE CreateOP(o, Producer(ListAt(2)), Producer(ListAt(1)))
      /\ Replace(2, Expr(list)) /\ UpdateSymbolTable(ListAt(2), list)
      /\ Link(TieLists(Pointers, ListAt(1), ListAt(2), o))
      /\ freed' = freed /\ dropped' = dropped
  BY DEF Assign
<1>2. /\ Len(stack) >= 2 /\ At(1).sort = "expr" /\ At(2).sort = "expr"
      /\ 1 \in 1 .. Len(stack) /\ 2 \in 1 .. Len(stack)
      /\ \A i \in 1 .. 2 : At(i).sort = "expr"
  BY <1>1, Operands
<1>3. /\ Producer(ListAt(2)) \in 0 .. opNum /\ Producer(ListAt(1)) \in 0 .. opNum
      /\ IsOpen(ListAt(2).entry)
  BY <1>2, ExprFacts
<1>4. Numbered(o) /\ left' \in [Op -> 0 .. opNum'] /\ right' \in [Op -> 0 .. opNum']
  <2>1. CASE o = NULL
    <3>1. opNum' = opNum /\ left' = left /\ right' = right
      BY <1>1, <2>1 DEF deps
    <3>2. QED
      BY <2>1, <3>1, NoDependences
  <2>2. CASE o # NULL
    BY <1>1, <1>3, <2>2, Dependences
  <2>3. QED
    BY <2>1, <2>2
<1>5. Parts(ListAt(1), ListAt(2), o, 2, o) /\ IsOpen(list.entry)
  BY <1>2, <1>4, TwoLists
<1>6. Joined(list, 2, o)
  BY <1>1, <1>4, <1>5, PartsJoined
<1> HIDE DEF list
<1>7. 2 \in 0 .. Len(stack)
  BY <1>2, TypeFacts
<1>8. list.chain.tail \in 0 .. opNum' /\ list.chain.tail \notin freed
  BY <1>4, <1>6, <1>7, TailLive
<1>9. opNum' \in Count /\ opNum <= opNum'
  BY <1>4, NewOp
<1>10. /\ scopes' \in Seq(Scope(opNum')) /\ Len(scopes') = Len(scopes)
       /\ \A l \in DOMAIN scopes : DOMAIN scopes[l] = DOMAIN scopes'[l]
       /\ LocalsLive'
  BY <1>1, <1>3, <1>8, <1>9, Updated
<1>11. stack' = Append(Below(2), Expr(list))
  BY <1>1 DEF Replace
<1>12. QED
  BY <1>1, <1>2, <1>4, <1>5, <1>6, <1>10, <1>11, ExprInv

-----------------------------------------------------------------------------
(* Operations that a rule leaves out.                                      *)

\* The operations that a walk visits.
LEMMA OpsAre ==
  /\ \A c : OpsOf(c) = V(c, Pointers)
  /\ \A l : OpsOfList(l) = ListOps(l, Pointers)
  /\ \A ss : OpsOfStmts(ss) = StmtOps(ss, Pointers)
<1>1. \A c : OpsOf(c) = V(c, Pointers)
  BY DEF OpsOf, V, Visited, Closed, Pointers
<1>2. QED
  BY <1>1 DEF OpsOfList, OpsOfStmts, ListOps, StmtOps

\* Their fields are cleared, and no others.
LEMMA Forgotten ==
  ASSUME GraphInv, NEW ops, Forget(ops), opNum' = opNum
  PROVE  /\ Pointers' \in Ptrs(opNum') /\ Agree(Pointers, Pointers', Op \ ops)
         /\ left' \in [Op -> 0 .. opNum'] /\ right' \in [Op -> 0 .. opNum']
         /\ next' \in [Op -> 0 .. opNum'] /\ issue' \in [Op -> 0 .. opNum']
         /\ \A q \in ops \cap Op : next'[q] = NULL /\ issue'[q] = NULL
<1> DEFINE without(f) == [q \in Op |-> IF q \in ops THEN NULL ELSE f[q]]
<1>1. /\ next \in [Op -> 0 .. opNum] /\ issue \in [Op -> 0 .. opNum]
      /\ left \in [Op -> 0 .. opNum] /\ right \in [Op -> 0 .. opNum] /\ NULL \in 0 .. opNum
  BY TypeFacts DEF GraphInv, TypeOK, NULL
<1>2. next' = without(next) /\ issue' = without(issue) /\ left' = without(left) /\ right' = without(right)
  BY DEF Forget
<1>3. ASSUME NEW f \in [Op -> 0 .. opNum]
      PROVE  /\ without(f) \in [Op -> 0 .. opNum]
             /\ \A q \in Op : without(f)[q] = IF q \in ops THEN NULL ELSE f[q]
  BY <1>1
<1> HIDE DEF without
<1>4. /\ next' \in [Op -> 0 .. opNum'] /\ issue' \in [Op -> 0 .. opNum']
      /\ left' \in [Op -> 0 .. opNum'] /\ right' \in [Op -> 0 .. opNum']
  BY <1>1, <1>2, <1>3
<1>5. \A q \in Op : /\ next'[q] = IF q \in ops THEN NULL ELSE next[q]
                    /\ issue'[q] = IF q \in ops THEN NULL ELSE issue[q]
  BY <1>1, <1>2, <1>3
<1>6. Pointers' = [next |-> next', issue |-> issue'] /\ Pointers = [next |-> next, issue |-> issue]
  BY DEF Pointers
<1>7. Pointers' \in Ptrs(opNum')
  BY <1>4, <1>6 DEF Ptrs
<1>8. Agree(Pointers, Pointers', Op \ ops)
  BY <1>5, <1>6 DEF Agree
<1>9. QED
  BY <1>4, <1>5, <1>7, <1>8

\* The topmost k elements become one of a part of their operations; the others
\* are left out.
LeavesOut(k, it, ops) ==
  /\ k \in 0 .. Len(stack) /\ it \in Items(opNum) /\ GoodItem(it, Pointers)
  /\ ItemOps(it, Pointers) \cup ops = TopOps(stack, k, Pointers)
  /\ ItemOps(it, Pointers) \cap ops = {}

\* Such a rule, with the operations left out.
LEMMA DropMakeover ==
  ASSUME GraphInv, NEW k, NEW it, NEW ops, LeavesOut(k, it, ops), Drop(ops), opNum' = opNum,
         stack' = Append(Below(k), it)
  PROVE  /\ Makeover(k, it, NULL, ops) /\ Numbered(NULL) /\ dropped' = dropped \cup ops
         /\ left' \in [Op -> 0 .. opNum'] /\ right' \in [Op -> 0 .. opNum']
<1>1. Forget(ops) /\ dropped' = dropped \cup ops
  BY DEF Drop
<1>2. /\ Pointers' \in Ptrs(opNum') /\ Agree(Pointers, Pointers', Op \ ops)
      /\ left' \in [Op -> 0 .. opNum'] /\ right' \in [Op -> 0 .. opNum']
  BY <1>1, Forgotten
<1>3. opNum \in Count /\ Pointers \in Ptrs(opNum) /\ opNum' \in Count
  BY TypeFacts
<1>4. /\ k \in 0 .. Len(stack) /\ it \in Items(opNum) /\ GoodItem(it, Pointers)
      /\ ItemOps(it, Pointers) \cup ops = TopOps(stack, k, Pointers)
      /\ ItemOps(it, Pointers) \cap ops = {}
  BY DEF LeavesOut
<1>5. ItemOps(it, Pointers) \subseteq Op
  BY <1>3, <1>4, ItemOpsExist
<1>6. Agree(Pointers, Pointers', ItemOps(it, Pointers))
  BY <1>2, <1>4, <1>5 DEF Agree
<1>7. ItemOps(it, Pointers') = ItemOps(it, Pointers) /\ GoodItem(it, Pointers')
  BY <1>2, <1>3, <1>4, <1>6, ItemFrame
<1>8. ItemOps(it, Pointers') = (TopOps(stack, k, Pointers) \cup ({NULL} \ {NULL})) \ ops
  BY <1>4, <1>7
<1>9. Agree(Pointers, Pointers', Op \ (TopOps(stack, k, Pointers) \cup ({NULL} \ {NULL})))
  BY <1>2, <1>4 DEF Agree
<1>10. it \in Items(opNum') /\ ops \subseteq TopOps(stack, k, Pointers)
  BY <1>4
<1>11. Makeover(k, it, NULL, ops)
  BY <1>2, <1>4, <1>7, <1>8, <1>9, <1>10 DEF Makeover
<1>12. Numbered(NULL)
  BY DEF Numbered
<1>13. QED
  BY <1>1, <1>2, <1>11, <1>12

\* An argument of a call, or a branch of the conditional operator.
LEMMA LeaveOutInv ==
  ASSUME GraphInv, parsing, parsing' = parsing, LeaveOut
  PROVE  GraphInv'
<1> DEFINE it == At(2)
           ops == ListOps(ListAt(1), Pointers)
<1>1. /\ Sorts(<<Operand, Operand>>) /\ stack' = Below(1) /\ Drop(OpsOfList(ListAt(1)))
      /\ opNum' = opNum /\ freed' = freed /\ scopes' = scopes
  BY DEF LeaveOut
<1>2. /\ Len(stack) >= 2 /\ At(1).sort = "expr" /\ At(2).sort = "expr"
      /\ 1 \in 1 .. Len(stack) /\ 2 \in 1 .. Len(stack)
  BY <1>1, Operands
<1>3. stack \in Seq(Items(opNum)) /\ Len(stack) \in Nat /\ Len(stack) <= MaxStack
  BY TypeFacts DEF GraphInv, TypeOK
<1>4. stack' = Append(Below(2), it)
  <2> DEFINE n == Len(stack) - 1
  <2>1. 1 \in 1 .. Len(stack) /\ n \in 1 .. Len(stack) /\ n - 1 = Len(stack) - 2
    BY <1>2, <1>3
  <2>2. SubSeq(stack, 1, n) = SubSeq(stack, 1, n - 1) \o <<stack[n]>>
    BY <1>3, <2>1, SubSeqRecursiveSecond
  <2>3. it = stack[n]
    <3>1. Len(stack) + 1 - 2 = n
      BY <1>3
    <3>2. QED
      BY <3>1 DEF At
  <2>4. SubSeq(stack, 1, n - 1) \in Seq(Items(opNum))
    <3>1. \A i \in 1 .. n - 1 : stack[i] \in Items(opNum)
      BY <1>3, TypeFacts
    <3>2. 1 \in Int /\ n - 1 \in Int
      BY <1>3
    <3>3. QED
      BY <3>1, <3>2, SubSeqProperties
  <2>5. Append(SubSeq(stack, 1, n - 1), stack[n]) = SubSeq(stack, 1, n - 1) \o <<stack[n]>>
    <3>1. stack[n] \in Items(opNum)
      BY <2>1, TypeFacts
    <3>2. QED
      BY <2>4, <3>1, AppendIsConcat
  <2>6. Below(1) = SubSeq(stack, 1, n) /\ Below(2) = SubSeq(stack, 1, n - 1)
    BY <2>1 DEF Below
  <2>7. QED
    BY <1>1, <2>2, <2>3, <2>5, <2>6
<1>5. /\ it \in Items(opNum) /\ GoodItem(it, Pointers) /\ Shape(it)
      /\ \A i \in DOMAIN it.ids : it.ids[i][2] \notin freed
  BY <1>2, TopFacts
<1>6. ItemOps(At(1), Pointers) = ops
  BY <1>2, ExprFacts
<1>7. ItemOps(At(1), Pointers) \cap ItemOps(At(2), Pointers) = {}
  BY <1>2, TopApart
<1>8. LeavesOut(2, it, ops)
  <2>1. TopOps(stack, 2, Pointers) = ItemOps(At(2), Pointers) \cup ItemOps(At(1), Pointers)
    BY TopAre
  <2>2. 2 \in 0 .. Len(stack)
    BY <1>2, <1>3
  <2>3. QED
    BY <1>5, <1>6, <1>7, <2>1, <2>2 DEF LeavesOut
<1>9. Drop(ops)
  BY <1>1, OpsAre
<1>10. IsOpen(it.lists[1].entry)
  BY <1>2, ExprFacts DEF ListAt
<1>11. it.sort = "expr"
  BY <1>2
<1>12. KeepsBlocks(2, it)
  <2>1. 1 .. 2 = {1, 2}
    OBVIOUS
  <2>2. QED
    BY <1>2, <2>1 DEF KeepsBlocks
<1> HIDE DEF it, ops
<1>13. /\ Makeover(2, it, NULL, ops) /\ Numbered(NULL) /\ dropped' = dropped \cup ops
       /\ left' \in [Op -> 0 .. opNum'] /\ right' \in [Op -> 0 .. opNum']
  BY <1>1, <1>4, <1>8, <1>9, DropMakeover
<1>14. Fits(2, it)
  BY <1>5, <1>11 DEF Fits
<1>15. Len(stack) - 2 < MaxStack
  BY <1>3, OpAssumption
<1>16. QED
  BY <1>1, <1>10, <1>12, <1>13, <1>14, <1>15, RuleInv

-----------------------------------------------------------------------------
(* Rules that make an element that is no expression.                       *)

\* There is no expression below the element, and it is no declaration in a
\* header that has begun.
Placed(k, it) ==
  /\ Shape(it) /\ it.sort # "expr"
  /\ \/ k = Len(stack)
     \/ k > 0 /\ At(k).sort # "expr"
     \/ k < Len(stack) /\ At(k + 1).sort # "expr"
  /\ it.sort \in {"decl", "name"} /\ k < Len(stack) /\ At(k + 1).sort = "for" => At(k + 1).lists = <<>>
  /\ \A i \in DOMAIN it.ids : it.ids[i][2] \notin freed

\* Then it fits.
LEMMA PlacedFits ==
  ASSUME GraphInv, NEW k \in 0 .. Len(stack), NEW it, Placed(k, it)
  PROVE  Fits(k, it)
<1>1. Len(stack) \in Nat
  BY TypeFacts
<1>2. SUFFICES \A j \in 1 .. Len(stack) - k : stack[j].sort # "expr"
  BY DEF Placed, Fits
<1>3. CASE k = Len(stack)
  BY <1>1, <1>3
<1>4. CASE k > 0 /\ At(k).sort # "expr"
  <2>1. k \in 1 .. Len(stack)
    BY <1>1, <1>4
  <2>2. \A j \in 1 .. Len(stack) + 1 - k : stack[j].sort # "expr"
    BY <1>4, <2>1, Quiet
  <2>3. \A j \in 1 .. Len(stack) - k : j \in 1 .. Len(stack) + 1 - k
    BY <1>1, <2>1
  <2>4. QED
    BY <2>2, <2>3
<1>5. CASE k < Len(stack) /\ At(k + 1).sort # "expr"
  <2>1. k + 1 \in 1 .. Len(stack) /\ Len(stack) + 1 - (k + 1) = Len(stack) - k
    BY <1>1, <1>5
  <2>2. \A j \in 1 .. Len(stack) + 1 - (k + 1) : stack[j].sort # "expr"
    BY <1>5, <2>1, Quiet
  <2>3. QED
    BY <2>1, <2>2
<1>6. QED
  BY <1>3, <1>4, <1>5 DEF Placed

\* A rule that makes such an element and leaves the levels alone.
LEMMA ItemRule ==
  ASSUME GraphInv, parsing, parsing' = parsing, Numbered(NULL), NEW k, NEW it, NEW left_out,
         Makeover(k, it, NULL, left_out), Placed(k, it), KeepsBlocks(k, it),
         freed' = freed, dropped' = dropped \cup left_out, Len(stack) - k < MaxStack,
         left' \in [Op -> 0 .. opNum'], right' \in [Op -> 0 .. opNum'], scopes' = scopes
  PROVE  GraphInv'
<1>1. k \in 0 .. Len(stack)
  BY DEF Makeover
<1>2. Fits(k, it)
  BY <1>1, PlacedFits
<1>3. it.sort # "expr"
  BY DEF Placed
<1>4. QED
  BY <1>2, <1>3, RuleInv

\* What a push leaves room for, and a replacement.
LEMMA Room ==
  ASSUME GraphInv, NEW k \in 1 .. Len(stack)
  PROVE  Len(stack) - k < MaxStack /\ k \in 0 .. Len(stack)
<1>1. Len(stack) \in Nat /\ Len(stack) <= MaxStack
  BY TypeFacts DEF GraphInv, TypeOK
<1>2. QED
  BY <1>1, OpAssumption

-----------------------------------------------------------------------------
(* What is made of the operations of elements.                             *)

\* From p to q only pointers of the operations in T change.
Changes(p, q, T) == Agree(p, q, Op \ T)

\* Good statements of the operations S.
Has(ss, p, S, n) ==
  /\ ss \in Seq(Stmts(n)) /\ GoodStmts(ss, p) /\ StmtOps(ss, p) = S /\ S \subseteq Op

\* A good list of the operations S.
HasList(l, p, S, n) == l \in Lists(n) /\ GoodList(l, p) /\ ListOps(l, p) = S /\ S \subseteq Op

\* What makes a list of statements of the operations S, from good ones.
Made(a, p, S, n) == a.ptrs \in Ptrs(n) /\ Has(a.stmts, a.ptrs, S, n) /\ Changes(p, a.ptrs, S)

\* Changes one after the other.
LEMMA ChangesThen ==
  ASSUME NEW p, NEW q, NEW r, NEW S, NEW T, Changes(p, q, S), Changes(q, r, T)
  PROVE  Changes(p, r, S \cup T)
BY DEF Changes, Agree

\* What changes few operations changes no others.
LEMMA ChangesMore ==
  ASSUME NEW p, NEW q, NEW S, NEW T, Changes(p, q, S), S \subseteq T
  PROVE  Changes(p, q, T)
BY DEF Changes, Agree

\* Statements and lists that are apart from what changes stay good.
LEMMA HasStill ==
  ASSUME NEW n \in Count, NEW p \in Ptrs(n), NEW q \in Ptrs(n), NEW T, Changes(p, q, T),
         NEW ss, NEW S, Has(ss, p, S, n), S \cap T = {}
  PROVE  Has(ss, q, S, n)
<1>1. ss \in Seq(Stmts(n)) /\ GoodStmts(ss, p) /\ StmtOps(ss, p) = S /\ S \subseteq Op
  BY DEF Has
<1>2. Agree(p, q, StmtOps(ss, p))
  BY <1>1 DEF Changes, Agree
<1>3. StmtOps(ss, q) = StmtOps(ss, p) /\ GoodStmts(ss, q)
  BY <1>1, <1>2, StmtsFrame
<1>4. QED
  BY <1>1, <1>3 DEF Has

\* The same of a list.
LEMMA HasListStill ==
  ASSUME NEW n \in Count, NEW p \in Ptrs(n), NEW q \in Ptrs(n), NEW T, Changes(p, q, T),
         NEW l, NEW S, HasList(l, p, S, n), S \cap T = {}
  PROVE  HasList(l, q, S, n)
<1>1. l \in Lists(n) /\ GoodList(l, p) /\ ListOps(l, p) = S /\ S \subseteq Op
  BY DEF HasList
<1>2. Agree(p, q, ListOps(l, p))
  BY <1>1 DEF Changes, Agree
<1>3. ListOps(l, q) = ListOps(l, p) /\ GoodList(l, q)
  BY <1>1, <1>2, ListFrame
<1>4. QED
  BY <1>1, <1>3 DEF HasList

\* CreateSTMT makes statements of what its list holds.
LEMMA CreateMade ==
  ASSUME NEW n \in Count, NEW p \in Ptrs(n), NEW l, NEW S, HasList(l, p, S, n)
  PROVE  Made(CreateSTMT(p, l), p, S, n)
<1>1. l \in Lists(n) /\ GoodList(l, p) /\ ListOps(l, p) = S /\ S \subseteq Op
  BY DEF HasList
<1>2. Makes(CreateSTMT(p, l), p, S, n)
  BY <1>1, CreateSTMTMakes
<1>3. QED
  BY <1>1, <1>2 DEF Makes, Made, Has, Changes

\* AddToSTMTList makes statements of what two lists of them hold.
LEMMA AddMade ==
  ASSUME NEW n \in Count, NEW p \in Ptrs(n), NEW a, NEW S, Has(a, p, S, n),
         NEW b, NEW T, Has(b, p, T, n), S \cap T = {}
  PROVE  Made(AddToSTMTList(p, a, b), p, S \cup T, n)
<1>1. /\ a \in Seq(Stmts(n)) /\ GoodStmts(a, p) /\ StmtOps(a, p) = S /\ S \subseteq Op
      /\ b \in Seq(Stmts(n)) /\ GoodStmts(b, p) /\ StmtOps(b, p) = T /\ T \subseteq Op
  BY DEF Has
<1>2. Makes(AddToSTMTList(p, a, b), p, StmtOps(a, p) \cup StmtOps(b, p), n)
  BY <1>1, AddStmtsMakes
<1>3. QED
  BY <1>1, <1>2 DEF Makes, Made, Has, Changes

\* A nested list holds what the list does.
LEMMA NestHas ==
  ASSUME NEW n \in Count, NEW p \in Ptrs(n), NEW ss, NEW S, Has(ss, p, S, n), NEW type \in Types
  PROVE  Has(Nest(type, ss), p, S, n)
<1>1. ss \in Seq(Stmts(n)) /\ GoodStmts(ss, p) /\ StmtOps(ss, p) = S /\ S \subseteq Op
  BY DEF Has
<1>2. /\ Nest(type, ss) \in Seq(Stmts(n)) /\ GoodStmts(Nest(type, ss), p)
      /\ StmtOps(Nest(type, ss), p) = StmtOps(ss, p)
  BY <1>1, NestGood
<1>3. QED
  BY <1>1, <1>2 DEF Has

\* No statements hold no operations.
LEMMA HasNone ==
  ASSUME NEW n \in Count, NEW p
  PROVE  Has(<<>>, p, {}, n)
<1>1. <<>> \in Seq(Stmts(n))
  OBVIOUS
<1>2. QED
  BY <1>1, NoStmts DEF Has
-----------------------------------------------------------------------------
(* Statements.                                                             *)

\* What elements hold, in these terms.
LEMMA ListHere ==
  ASSUME GraphInv, NEW k \in 1 .. Len(stack), At(k).sort \in {"expr", "cond", "decl"}
  PROVE  HasList(ListAt(k), Pointers, ItemOps(At(k), Pointers), opNum)
<1>1. /\ ListAt(k) \in Lists(opNum) /\ GoodList(ListAt(k), Pointers)
      /\ ItemOps(At(k), Pointers) = ListOps(ListAt(k), Pointers)
  BY ListAtFacts
<1>2. ListOps(ListAt(k), Pointers) \subseteq Op
  BY <1>1, TypeFacts, ListOpsExist
<1>3. QED
  BY <1>1, <1>2 DEF HasList

\* The statements of an element hold its operations.
LEMMA StmtsHere ==
  ASSUME GraphInv, NEW k \in 1 .. Len(stack), At(k).sort \in {"stmt", "block"}
  PROVE  Has(At(k).stmts, Pointers, ItemOps(At(k), Pointers), opNum)
<1>1. /\ At(k).stmts \in Seq(Stmts(opNum)) /\ GoodStmts(At(k).stmts, Pointers)
      /\ ItemOps(At(k), Pointers) = StmtOps(At(k).stmts, Pointers)
  BY StmtsAtFacts
<1>2. StmtOps(At(k).stmts, Pointers) \subseteq Op
  BY <1>1, TypeFacts, StmtOpsExist
<1>3. QED
  BY <1>1, <1>2 DEF Has

\* A statement, or a block, of the topmost elements' operations.
LEMMA StmtMakeover ==
  ASSUME GraphInv, NEW k \in 0 .. Len(stack), NEW a, Made(a, Pointers, TopOps(stack, k, Pointers), opNum),
         Link(a.ptrs), opNum' = opNum, NEW sort \in {"stmt", "block"}, NEW it,
         it = Item(sort, <<>>, a.stmts, <<>>), stack' = Append(Below(k), it)
  PROVE  Makeover(k, it, NULL, {}) /\ Shape(it) /\ it.sort = sort /\ it.ids = <<>>
<1> DEFINE T == TopOps(stack, k, Pointers)
<1>1. opNum \in Count
  BY TypeFacts
<1>2. /\ a.ptrs \in Ptrs(opNum) /\ a.stmts \in Seq(Stmts(opNum)) /\ GoodStmts(a.stmts, a.ptrs)
      /\ StmtOps(a.stmts, a.ptrs) = T /\ Agree(Pointers, a.ptrs, Op \ T)
  BY DEF Made, Has, Changes
<1>3. Pointers' = a.ptrs
  BY <1>1, <1>2, Linked
<1>4. /\ it \in Items(opNum) /\ GoodItem(it, a.ptrs) /\ ItemOps(it, a.ptrs) = StmtOps(a.stmts, a.ptrs)
      /\ Shape(it) /\ it.sort = sort /\ it.ids = <<>>
  BY <1>1, <1>2, StmtsMade
<1> HIDE DEF T
<1>5. T \cup ({NULL} \ {NULL}) = T /\ T \ {} = T
  OBVIOUS
<1>6. Makeover(k, it, NULL, {})
  <2>1. ItemOps(it, Pointers') = (T \cup ({NULL} \ {NULL})) \ {}
    BY <1>2, <1>3, <1>4, <1>5
  <2>2. Agree(Pointers, Pointers', Op \ (T \cup ({NULL} \ {NULL})))
    BY <1>2, <1>3, <1>5
  <2>3. GoodItem(it, Pointers') /\ Pointers' \in Ptrs(opNum') /\ it \in Items(opNum')
    BY <1>2, <1>3, <1>4
  <2>4. QED
    BY <2>1, <2>2, <2>3 DEF Makeover, T
<1>7. QED
  BY <1>4, <1>6

\* A rule that makes statements of the topmost k elements keeps the invariant.
LEMMA StmtRule ==
  ASSUME GraphInv, parsing, parsing' = parsing, NEW k \in 1 .. Len(stack),
         NEW a, Made(a, Pointers, TopOps(stack, k, Pointers), opNum), Link(a.ptrs),
         NEW sort \in {"stmt", "block"}, NEW it, it = Item(sort, <<>>, a.stmts, <<>>), Replace(k, it),
         At(k).sort # "expr" \/ (k < Len(stack) /\ At(k + 1).sort # "expr"),
         \A i \in 1 .. k : At(i).sort = "block" <=> i = k /\ sort = "block",
         UNCHANGED <<opNum, freed, deps, scopes, dropped>>
  PROVE  GraphInv'
<1>1. /\ opNum' = opNum /\ freed' = freed /\ left' = left /\ right' = right
      /\ scopes' = scopes /\ dropped' = dropped /\ stack' = Append(Below(k), it)
  BY DEF Replace, deps
<1>2. k \in 0 .. Len(stack) /\ Len(stack) - k < MaxStack /\ k > 0
  BY Room, TypeFacts
<1>3. Makeover(k, it, NULL, {}) /\ Shape(it) /\ it.sort = sort /\ it.ids = <<>>
  BY <1>1, <1>2, StmtMakeover
<1>4. Placed(k, it)
  BY <1>2, <1>3 DEF Placed
<1>5. KeepsBlocks(k, it)
  BY <1>2, <1>3 DEF KeepsBlocks
<1>6. Numbered(NULL) /\ left' \in [Op -> 0 .. opNum'] /\ right' \in [Op -> 0 .. opNum']
  BY <1>1, NoDependences
<1>7. dropped' = dropped \cup {}
  BY <1>1
<1>8. QED
  BY <1>1, <1>2, <1>3, <1>4, <1>5, <1>6, <1>7, ItemRule

\* An element below which a statement may start.
LEMMA ContextSorts == \A s \in Context : s \notin {"expr", "for", "decl", "name", "stmt"}
BY DEF Context

\* An expression statement.
LEMMA ExpressionStatementInv ==
  ASSUME GraphInv, parsing, parsing' = parsing, ExpressionStatement
  PROVE  GraphInv'
<1> DEFINE a == CreateSTMT(Pointers, ListAt(1))
           it == Stmt(a.stmts)
<1>1. /\ Sorts(<<Operand, Context>>) /\ Replace(1, it) /\ Link(a.ptrs)
      /\ UNCHANGED <<opNum, freed, deps, scopes, dropped>>
  BY DEF ExpressionStatement
<1>2. /\ Len(stack) >= 2 /\ 1 \in 1 .. Len(stack) /\ 2 \in 1 .. Len(stack)
      /\ At(1).sort \in Operand /\ At(2).sort \in Context
  BY <1>1, TypeFacts, SortsTwo
<1>3. At(1).sort = "expr" /\ At(2).sort # "expr"
  BY <1>2, ContextSorts DEF Operand
<1>4. HasList(ListAt(1), Pointers, ItemOps(At(1), Pointers), opNum)
  BY <1>2, <1>3, ListHere
<1>5. TopOps(stack, 1, Pointers) = ItemOps(At(1), Pointers)
  BY TopAre
<1>6. opNum \in Count /\ Pointers \in Ptrs(opNum) /\ Len(stack) \in Nat
  BY TypeFacts
<1>7. Made(a, Pointers, TopOps(stack, 1, Pointers), opNum)
  BY <1>4, <1>5, <1>6, CreateMade
<1>8. it = Item("stmt", <<>>, a.stmts, <<>>)
  BY DEF Stmt
<1> HIDE DEF a, it
<1>9. 1 < Len(stack) /\ 1 + 1 = 2
  BY <1>2, <1>6
<1>10. \A i \in 1 .. 1 : At(i).sort = "block" <=> i = 1 /\ "stmt" = "block"
  <2>1. 1 .. 1 = {1}
    OBVIOUS
  <2>2. QED
    BY <1>3, <2>1
<1>11. QED
  BY <1>1, <1>2, <1>3, <1>7, <1>8, <1>9, <1>10, StmtRule

\* The next statement of a block.
LEMMA BlockItemInv ==
  ASSUME GraphInv, parsing, parsing' = parsing, BlockItem
  PROVE  GraphInv'
<1> DEFINE a == AddToSTMTList(Pointers, At(2).stmts, At(1).stmts)
           it == Block(a.stmts)
<1>1. /\ Sorts(<<{"stmt"}, {"block"}>>) /\ Replace(2, it) /\ Link(a.ptrs)
      /\ UNCHANGED <<opNum, freed, deps, scopes, dropped>>
  BY DEF BlockItem
<1>2. /\ 1 \in 1 .. Len(stack) /\ 2 \in 1 .. Len(stack)
      /\ At(1).sort = "stmt" /\ At(2).sort = "block"
  BY <1>1, TypeFacts, SortsTwo
<1>3. Has(At(2).stmts, Pointers, ItemOps(At(2), Pointers), opNum)
  BY <1>2, StmtsHere
<1>4. Has(At(1).stmts, Pointers, ItemOps(At(1), Pointers), opNum)
  BY <1>2, StmtsHere
<1>5. TopOps(stack, 2, Pointers) = ItemOps(At(2), Pointers) \cup ItemOps(At(1), Pointers)
  BY TopAre
<1>6. ItemOps(At(2), Pointers) \cap ItemOps(At(1), Pointers) = {}
  BY <1>2, TopApart
<1>7. opNum \in Count /\ Pointers \in Ptrs(opNum)
  BY TypeFacts
<1>8. Made(a, Pointers, TopOps(stack, 2, Pointers), opNum)
  BY <1>3, <1>4, <1>5, <1>6, <1>7, AddMade
<1>9. it = Item("block", <<>>, a.stmts, <<>>)
  BY DEF Block
<1> HIDE DEF a, it
<1>10. \A i \in 1 .. 2 : At(i).sort = "block" <=> i = 2 /\ "block" = "block"
  <2>1. 1 .. 2 = {1, 2}
    OBVIOUS
  <2>2. QED
    BY <1>2, <2>1
<1>11. QED
  BY <1>1, <1>2, <1>8, <1>9, <1>10, StmtRule

\* A statement made of the two topmost elements.
LEMMA FinishInv ==
  ASSUME GraphInv, parsing, parsing' = parsing, 2 \in 1 .. Len(stack),
         At(1).sort = "stmt", At(2).sort \notin {"expr", "block"},
         NEW a, Made(a, Pointers, TopOps(stack, 2, Pointers), opNum), Finish(2, a)
  PROVE  GraphInv'
<1>1. /\ Replace(2, Stmt(a.stmts)) /\ Link(a.ptrs)
      /\ UNCHANGED <<opNum, freed, deps, scopes, dropped>>
  BY DEF Finish
<1>2. Stmt(a.stmts) = Item("stmt", <<>>, a.stmts, <<>>)
  BY DEF Stmt
<1>3. \A i \in 1 .. 2 : At(i).sort = "block" <=> i = 2 /\ "stmt" = "block"
  <2>1. 1 .. 2 = {1, 2}
    OBVIOUS
  <2>2. QED
    BY <2>1
<1>4. QED
  BY <1>1, <1>2, <1>3, StmtRule

\* The statement on top, and the condition below it.
LEMMA BodyOn ==
  ASSUME GraphInv, NEW s, Sorts(<<{"stmt"}, {s}>>)
  PROVE  /\ 1 \in 1 .. Len(stack) /\ 2 \in 1 .. Len(stack)
         /\ At(1).sort = "stmt" /\ At(2).sort = s
         /\ Has(At(1).stmts, Pointers, ItemOps(At(1), Pointers), opNum)
         /\ TopOps(stack, 2, Pointers) = ItemOps(At(2), Pointers) \cup ItemOps(At(1), Pointers)
         /\ ItemOps(At(2), Pointers) \cap ItemOps(At(1), Pointers) = {}
         /\ opNum \in Count /\ Pointers \in Ptrs(opNum)
<1>1. /\ 1 \in 1 .. Len(stack) /\ 2 \in 1 .. Len(stack)
      /\ At(1).sort = "stmt" /\ At(2).sort = s
  BY TypeFacts, SortsTwo
<1>2. Has(At(1).stmts, Pointers, ItemOps(At(1), Pointers), opNum)
  BY <1>1, StmtsHere
<1>3. ItemOps(At(2), Pointers) \cap ItemOps(At(1), Pointers) = {}
  BY <1>1, TopApart
<1>4. TopOps(stack, 2, Pointers) = ItemOps(At(2), Pointers) \cup ItemOps(At(1), Pointers)
  BY TopAre
<1>5. QED
  BY <1>1, <1>2, <1>3, <1>4, TypeFacts

\* IF without ELSE.
LEMMA IfInv ==
  ASSUME GraphInv, parsing, parsing' = parsing, If
  PROVE  GraphInv'
<1> DEFINE new == CreateSTMT(Pointers, ListAt(2))
           body == Nest("SELECTION", Nest("IF", At(1).stmts))
           a == AddToSTMTList(new.ptrs, new.stmts, body)
           C == ItemOps(At(2), Pointers)
           B == ItemOps(At(1), Pointers)
<1>1. Sorts(<<{"stmt"}, {"cond"}>>) /\ Finish(2, a)
  BY DEF If
<1>2. /\ 1 \in 1 .. Len(stack) /\ 2 \in 1 .. Len(stack) /\ At(1).sort = "stmt" /\ At(2).sort = "cond"
      /\ Has(At(1).stmts, Pointers, B, opNum)
      /\ TopOps(stack, 2, Pointers) = C \cup B /\ C \cap B = {}
      /\ opNum \in Count /\ Pointers \in Ptrs(opNum)
  BY <1>1, BodyOn
<1>3. HasList(ListAt(2), Pointers, C, opNum)
  BY <1>2, ListHere
<1> HIDE DEF C, B
<1>4. Made(new, Pointers, C, opNum)
  BY <1>2, <1>3, CreateMade
<1> HIDE DEF new
<1>5. new.ptrs \in Ptrs(opNum) /\ Has(new.stmts, new.ptrs, C, opNum) /\ Changes(Pointers, new.ptrs, C)
  BY <1>4 DEF Made
<1>6. Has(At(1).stmts, new.ptrs, B, opNum)
  <2>1. B \cap C = {}
    BY <1>2
  <2>2. QED
    BY <1>2, <1>5, <2>1, HasStill
<1>7. Has(body, new.ptrs, B, opNum)
  <2>1. "IF" \in Types /\ "SELECTION" \in Types
    BY DEF Types
  <2>2. Has(Nest("IF", At(1).stmts), new.ptrs, B, opNum)
    BY <1>2, <1>5, <1>6, <2>1, NestHas
  <2>3. QED
    BY <1>2, <1>5, <2>1, <2>2, NestHas
<1> HIDE DEF body
<1>8. Made(a, new.ptrs, C \cup B, opNum)
  BY <1>2, <1>5, <1>7, AddMade
<1> HIDE DEF a
<1>9. Made(a, Pointers, C \cup B, opNum)
  <2>1. Changes(Pointers, a.ptrs, C \cup (C \cup B))
    BY <1>5, <1>8, ChangesThen DEF Made
  <2>2. Changes(Pointers, a.ptrs, C \cup B)
    <3>1. C \cup (C \cup B) = C \cup B
      OBVIOUS
    <3>2. QED
      BY <2>1, <3>1
  <2>3. QED
    BY <1>8, <2>2 DEF Made
<1>10. QED
  BY <1>1, <1>2, <1>9, FinishInv
-----------------------------------------------------------------------------
(* Rules that leave the pointers alone.                                    *)

\* An element made of the topmost k elements' operations as they are.
LEMMA KeptMakeover ==
  ASSUME GraphInv, NEW k \in 0 .. Len(stack), NEW it, it \in Items(opNum), GoodItem(it, Pointers),
         ItemOps(it, Pointers) = TopOps(stack, k, Pointers),
         stack' = Append(Below(k), it), opNum' = opNum, links' = links
  PROVE  Makeover(k, it, NULL, {}) /\ Numbered(NULL)
<1>1. Pointers' = Pointers /\ Pointers \in Ptrs(opNum)
  BY TypeFacts DEF Pointers, links
<1>2. Agree(Pointers, Pointers', Op \ (TopOps(stack, k, Pointers) \cup ({NULL} \ {NULL})))
  BY <1>1 DEF Agree
<1>3. ItemOps(it, Pointers') = (TopOps(stack, k, Pointers) \cup ({NULL} \ {NULL})) \ {}
  BY <1>1
<1>4. GoodItem(it, Pointers') /\ Pointers' \in Ptrs(opNum') /\ it \in Items(opNum')
  BY <1>1
<1>5. Makeover(k, it, NULL, {})
  BY <1>2, <1>3, <1>4 DEF Makeover
<1>6. QED
  BY <1>5 DEF Numbered

\* The element made of the topmost k elements as they are.
Remakes(k, it) ==
  /\ it \in Items(opNum) /\ GoodItem(it, Pointers)
  /\ ItemOps(it, Pointers) = TopOps(stack, k, Pointers)

\* A rule that makes such an element keeps the invariant.
LEMMA KeptRule ==
  ASSUME GraphInv, parsing, parsing' = parsing, NEW k \in 1 .. Len(stack), NEW it, Remakes(k, it),
         Placed(k, it), KeepsBlocks(k, it), Replace(k, it),
         UNCHANGED <<opNum, freed, links, deps, scopes, dropped>>
  PROVE  GraphInv'
<1>1. /\ opNum' = opNum /\ freed' = freed /\ links' = links /\ left' = left /\ right' = right
      /\ scopes' = scopes /\ dropped' = dropped /\ stack' = Append(Below(k), it)
  BY DEF Replace, deps
<1>2. k \in 0 .. Len(stack) /\ Len(stack) - k < MaxStack
  BY Room
<1>3. Makeover(k, it, NULL, {}) /\ Numbered(NULL)
  BY <1>1, <1>2, KeptMakeover DEF Remakes
<1>4. left' \in [Op -> 0 .. opNum'] /\ right' \in [Op -> 0 .. opNum']
  BY <1>1, NoDependences
<1>5. dropped' = dropped \cup {}
  BY <1>1
<1>6. QED
  BY <1>1, <1>2, <1>3, <1>4, <1>5, ItemRule

\* The same for a rule that leaves some of the operations out.
LEMMA DropRule ==
  ASSUME GraphInv, parsing, parsing' = parsing, NEW k \in 1 .. Len(stack), NEW it, NEW ops,
         LeavesOut(k, it, ops), Placed(k, it), KeepsBlocks(k, it), Drop(ops), Replace(k, it),
         UNCHANGED <<opNum, freed, scopes>>
  PROVE  GraphInv'
<1>1. opNum' = opNum /\ freed' = freed /\ scopes' = scopes /\ stack' = Append(Below(k), it)
  BY DEF Replace
<1>2. Len(stack) - k < MaxStack
  BY Room
<1>3. /\ Makeover(k, it, NULL, ops) /\ Numbered(NULL) /\ dropped' = dropped \cup ops
      /\ left' \in [Op -> 0 .. opNum'] /\ right' \in [Op -> 0 .. opNum']
  BY <1>1, DropMakeover
<1>4. QED
  BY <1>1, <1>2, <1>3, ItemRule

\* Something that holds no operations, where a statement may start.
LEMMA PushStatement ==
  ASSUME GraphInv, parsing, parsing' = parsing, MayStartStatement,
         NEW it, it \in Items(opNum), it.lists = <<>>, it.stmts = <<>>, it.ids = <<>>,
         it.sort \in {"stmt", "for"}, Push(it),
         UNCHANGED <<opNum, freed, links, deps, scopes, dropped>>
  PROVE  GraphInv'
<1>1. 1 \in 1 .. Len(stack) /\ Len(stack) >= 1 /\ At(1).sort \in Context
  BY TypeFacts, SortsOne DEF MayStartStatement
<1>2. Shape(it)
  <2>1. Len(it.lists) = 0 /\ DOMAIN it.lists = {}
    OBVIOUS
  <2>2. QED
    BY <2>1 DEF Shape
<1>3. DOMAIN it.ids = {}
  OBVIOUS
<1>4. Len(stack) \in Nat
  BY TypeFacts
<1>5. 0 < Len(stack) /\ At(0 + 1).sort # "expr"
  BY <1>1, <1>4, ContextSorts
<1>6. Placed(0, it)
  BY <1>2, <1>3, <1>5 DEF Placed
<1>7. Fits(0, it)
  BY <1>4, <1>6, PlacedFits
<1>8. GoodItem(it, Pointers) /\ ItemOps(it, Pointers) = {}
  BY TypeFacts, NothingMade
<1>9. it.sort # "block" /\ it.sort # "expr"
  OBVIOUS
<1>10. QED
  BY <1>7, <1>8, <1>9, PushRule

\* An empty statement or a jump.
LEMMA NoStatementInv ==
  ASSUME GraphInv, parsing, parsing' = parsing, NoStatement
  PROVE  GraphInv'
<1> DEFINE it == Stmt(<<>>)
<1>1. /\ MayStartStatement /\ Push(it) /\ UNCHANGED <<opNum, freed, links, deps, scopes, dropped>>
  BY DEF NoStatement
<1>2. it.sort = "stmt" /\ it.lists = <<>> /\ it.stmts = <<>> /\ it.ids = <<>>
  BY DEF Stmt, Item
<1>3. it \in Items(opNum)
  BY DEF Stmt, Item, Items
<1> HIDE DEF it
<1>4. QED
  BY <1>1, <1>2, <1>3, PushStatement

\* The header of a for statement is opened.
LEMMA OpenForInv ==
  ASSUME GraphInv, parsing, parsing' = parsing, OpenFor
  PROVE  GraphInv'
<1> DEFINE it == Item("for", <<>>, <<>>, <<>>)
<1>1. /\ MayStartStatement /\ Push(it) /\ UNCHANGED <<opNum, freed, links, deps, scopes, dropped>>
  BY DEF OpenFor
<1>2. it.sort = "for" /\ it.lists = <<>> /\ it.stmts = <<>> /\ it.ids = <<>>
  BY DEF Item
<1>3. it \in Items(opNum)
  BY DEF Item, Items
<1> HIDE DEF it
<1>4. QED
  BY <1>1, <1>2, <1>3, PushStatement

\* The statement that is left of elements whose operations are left out.
LEMMA StmtLeft ==
  ASSUME GraphInv, NEW k \in 1 .. Len(stack), NEW ss, NEW S, NEW ops, Has(ss, Pointers, S, opNum),
         S \cup ops = TopOps(stack, k, Pointers), S \cap ops = {},
         At(k).sort # "expr" \/ (k < Len(stack) /\ At(k + 1).sort # "expr"),
         \A i \in 1 .. k : At(i).sort # "block"
  PROVE  LET it == Stmt(ss) IN LeavesOut(k, it, ops) /\ Placed(k, it) /\ KeepsBlocks(k, it)
<1> DEFINE it == Stmt(ss)
<1>1. it = Item("stmt", <<>>, ss, <<>>)
  BY DEF Stmt
<1>2. ss \in Seq(Stmts(opNum)) /\ GoodStmts(ss, Pointers) /\ StmtOps(ss, Pointers) = S
  BY DEF Has
<1> HIDE DEF it
<1>3. /\ it \in Items(opNum) /\ GoodItem(it, Pointers) /\ ItemOps(it, Pointers) = StmtOps(ss, Pointers)
      /\ Shape(it) /\ it.sort = "stmt" /\ it.ids = <<>>
  BY <1>1, <1>2, TypeFacts, StmtsMade
<1>4. k \in 0 .. Len(stack) /\ k > 0
  BY Room, TypeFacts
<1>5. LeavesOut(k, it, ops)
  BY <1>2, <1>3, <1>4 DEF LeavesOut
<1>6. Placed(k, it)
  BY <1>3, <1>4 DEF Placed
<1>7. KeepsBlocks(k, it)
  BY <1>3, <1>4 DEF KeepsBlocks
<1>8. QED
  BY <1>5, <1>6, <1>7 DEF it

\* A label.
LEMMA LabeledStatementInv ==
  ASSUME GraphInv, parsing, parsing' = parsing, LabeledStatement
  PROVE  GraphInv'
<1> DEFINE it == Stmt(<<>>)
           ops == StmtOps(At(1).stmts, Pointers)
<1>1. /\ Sorts(<<{"stmt"}>>) /\ Replace(1, it) /\ Drop(ops) /\ UNCHANGED <<opNum, freed, scopes>>
  BY OpsAre DEF LabeledStatement
<1>2. 1 \in 1 .. Len(stack) /\ At(1).sort = "stmt"
  BY <1>1, TypeFacts, SortsOne
<1>3. TopOps(stack, 1, Pointers) = ops
  BY <1>2, TopAre, StmtsAtFacts
<1>4. Has(<<>>, Pointers, {}, opNum)
  BY TypeFacts, HasNone
<1> HIDE DEF ops
<1>5. {} \cup ops = TopOps(stack, 1, Pointers) /\ {} \cap ops = {} /\ At(1).sort # "expr"
  BY <1>2, <1>3
<1>6. \A i \in 1 .. 1 : At(i).sort # "block"
  <2>1. 1 .. 1 = {1}
    OBVIOUS
  <2>2. QED
    BY <1>2, <2>1
<1>7. LeavesOut(1, it, ops) /\ Placed(1, it) /\ KeepsBlocks(1, it)
  BY <1>2, <1>4, <1>5, <1>6, StmtLeft
<1> HIDE DEF it
<1>8. QED
  BY <1>1, <1>2, <1>7, DropRule

\* RETURN with an expression.
LEMMA ReturnStatementInv ==
  ASSUME GraphInv, parsing, parsing' = parsing, ReturnStatement
  PROVE  GraphInv'
<1> DEFINE it == Stmt(<<>>)
           ops == ListOps(ListAt(1), Pointers)
<1>1. /\ Sorts(<<Operand, Context>>) /\ Replace(1, it) /\ Drop(ops) /\ UNCHANGED <<opNum, freed, scopes>>
  BY OpsAre DEF ReturnStatement
<1>2. /\ Len(stack) >= 2 /\ 1 \in 1 .. Len(stack) /\ At(1).sort \in Operand /\ At(2).sort \in Context
  BY <1>1, TypeFacts, SortsTwo
<1>3. At(1).sort = "expr" /\ At(2).sort # "expr"
  BY <1>2, ContextSorts DEF Operand
<1>4. TopOps(stack, 1, Pointers) = ops
  BY <1>2, <1>3, TopAre, ExprFacts
<1>5. Has(<<>>, Pointers, {}, opNum)
  BY TypeFacts, HasNone
<1> HIDE DEF ops
<1>6. {} \cup ops = TopOps(stack, 1, Pointers) /\ {} \cap ops = {}
  BY <1>4
<1>7. 1 < Len(stack) /\ At(1 + 1).sort # "expr"
  BY <1>2, <1>3, TypeFacts
<1>8. \A i \in 1 .. 1 : At(i).sort # "block"
  <2>1. 1 .. 1 = {1}
    OBVIOUS
  <2>2. QED
    BY <1>3, <2>1
<1>9. LeavesOut(1, it, ops) /\ Placed(1, it) /\ KeepsBlocks(1, it)
  BY <1>2, <1>5, <1>6, <1>7, <1>8, StmtLeft
<1> HIDE DEF it
<1>10. QED
  BY <1>1, <1>2, <1>9, DropRule

\* A statement without its condition.
LEMMA FinishWithoutInv ==
  ASSUME GraphInv, parsing, parsing' = parsing, Sorts(<<{"stmt"}, {"cond"}>>),
         NEW ss, Has(ss, Pointers, ItemOps(At(1), Pointers), opNum), FinishWithout(2, ss)
  PROVE  GraphInv'
<1> DEFINE it == Stmt(ss)
           ops == ListOps(ListAt(2), Pointers)
           B == ItemOps(At(1), Pointers)
<1>1. Replace(2, it) /\ Drop(ops) /\ UNCHANGED <<opNum, freed, scopes>>
  BY OpsAre DEF FinishWithout
<1>2. /\ 1 \in 1 .. Len(stack) /\ 2 \in 1 .. Len(stack) /\ At(1).sort = "stmt" /\ At(2).sort = "cond"
      /\ TopOps(stack, 2, Pointers) = ItemOps(At(2), Pointers) \cup B
      /\ ItemOps(At(2), Pointers) \cap B = {}
  BY BodyOn
<1>3. ItemOps(At(2), Pointers) = ops
  BY <1>2, ListAtFacts
<1> HIDE DEF ops, B
<1>4. B \cup ops = TopOps(stack, 2, Pointers) /\ B \cap ops = {} /\ At(2).sort # "expr"
  BY <1>2, <1>3
<1>5. \A i \in 1 .. 2 : At(i).sort # "block"
  <2>1. 1 .. 2 = {1, 2}
    OBVIOUS
  <2>2. QED
    BY <1>2, <2>1
<1>6. Has(ss, Pointers, B, opNum)
  BY DEF B
<1>7. LeavesOut(2, it, ops) /\ Placed(2, it) /\ KeepsBlocks(2, it)
  BY <1>2, <1>4, <1>5, <1>6, StmtLeft
<1> HIDE DEF it
<1>8. QED
  BY <1>1, <1>2, <1>7, DropRule

\* WHILE.
LEMMA WhileInv ==
  ASSUME GraphInv, parsing, parsing' = parsing, While
  PROVE  GraphInv'
<1>1. Sorts(<<{"stmt"}, {"cond"}>>) /\ FinishWithout(2, Nest("ITERATION", At(1).stmts))
  BY DEF While
<1>2. /\ Has(At(1).stmts, Pointers, ItemOps(At(1), Pointers), opNum)
      /\ opNum \in Count /\ Pointers \in Ptrs(opNum)
  BY <1>1, BodyOn
<1>3. "ITERATION" \in Types
  BY DEF Types
<1>4. Has(Nest("ITERATION", At(1).stmts), Pointers, ItemOps(At(1), Pointers), opNum)
  BY <1>2, <1>3, NestHas
<1>5. QED
  BY <1>1, <1>4, FinishWithoutInv

\* SWITCH.
LEMMA SwitchInv ==
  ASSUME GraphInv, parsing, parsing' = parsing, Switch
  PROVE  GraphInv'
<1>1. Sorts(<<{"stmt"}, {"cond"}>>) /\ FinishWithout(2, At(1).stmts)
  BY DEF Switch
<1>2. Has(At(1).stmts, Pointers, ItemOps(At(1), Pointers), opNum)
  BY <1>1, BodyOn
<1>3. QED
  BY <1>1, <1>2, FinishWithoutInv
-----------------------------------------------------------------------------
(* Statements of which the first part has been read.                       *)

\* A complete expression keeps its operations.
LEMMA Completed ==
  ASSUME NEW n \in Count, NEW p, NEW l \in Lists(n)
  PROVE  /\ Complete(l) \in Lists(n) /\ Complete(l).entry = NoEntry
         /\ Complete(l).chain = l.chain /\ Complete(l).post = l.post
         /\ ListOps(Complete(l), p) = ListOps(l, p) /\ (GoodList(Complete(l), p) <=> GoodList(l, p))
<1>1. Complete(l) = [chain |-> l.chain, post |-> l.post, entry |-> NoEntry]
  BY DEF Complete, Lists
<1>2. Complete(l) \in Lists(n)
  BY <1>1 DEF Lists
<1>3. Complete(l).chain = l.chain /\ Complete(l).post = l.post /\ Complete(l).entry = NoEntry
  BY <1>1
<1>4. QED
  BY <1>2, <1>3 DEF ListOps, GoodList

\* The condition of IF, WHILE or SWITCH has been read.
LEMMA ConditionInv ==
  ASSUME GraphInv, parsing, parsing' = parsing, Condition
  PROVE  GraphInv'
<1> DEFINE l == Complete(ListAt(1))
           it == Item("cond", <<l>>, <<>>, <<>>)
<1>1. /\ Sorts(<<Operand, Context>>) /\ Replace(1, it)
      /\ UNCHANGED <<opNum, freed, links, deps, scopes, dropped>>
  BY DEF Condition
<1>2. /\ Len(stack) >= 2 /\ 1 \in 1 .. Len(stack) /\ At(1).sort \in Operand /\ At(2).sort \in Context
  BY <1>1, TypeFacts, SortsTwo
<1>3. At(1).sort = "expr" /\ At(2).sort # "expr"
  BY <1>2, ContextSorts DEF Operand
<1>4. /\ ListAt(1) \in Lists(opNum) /\ GoodList(ListAt(1), Pointers)
      /\ TopOps(stack, 1, Pointers) = ListOps(ListAt(1), Pointers)
      /\ opNum \in Count /\ Len(stack) \in Nat
  BY <1>2, <1>3, TopAre, ExprFacts, TypeFacts
<1>5. /\ l \in Lists(opNum) /\ GoodList(l, Pointers) /\ l.entry = NoEntry
      /\ ListOps(l, Pointers) = ListOps(ListAt(1), Pointers)
  BY <1>4, Completed
<1>6. it = Item("cond", <<l>>, <<>>, <<>>)
  OBVIOUS
<1> HIDE DEF l, it
<1>7. "cond" \in ListSorts /\ <<>> \in Ids(opNum)
  BY DEF ListSorts, Ids
<1>8. /\ it \in Items(opNum) /\ GoodItem(it, Pointers) /\ ItemOps(it, Pointers) = ListOps(l, Pointers)
      /\ Shape(it) /\ it.sort = "cond" /\ it.ids = <<>>
  <2>1. "cond" = "expr" \/ l.entry = NoEntry
    BY <1>5
  <2>2. opNum \in Count /\ l \in Lists(opNum) /\ GoodList(l, Pointers)
    BY <1>4, <1>5
  <2>3. QED
    BY <1>6, <1>7, <2>1, <2>2, ListMade
<1>9. Remakes(1, it)
  BY <1>4, <1>5, <1>8 DEF Remakes
<1>10. 1 < Len(stack) /\ At(1 + 1).sort # "expr"
  BY <1>2, <1>3, <1>4
<1>11. Placed(1, it)
  BY <1>8, <1>10 DEF Placed
<1>12. KeepsBlocks(1, it)
  <2>1. 1 .. 1 = {1}
    OBVIOUS
  <2>2. QED
    BY <1>3, <1>8, <2>1 DEF KeepsBlocks
<1>13. QED
  BY <1>1, <1>2, <1>9, <1>11, <1>12, KeptRule

\* ELSE has been read.
LEMMA ElseInv ==
  ASSUME GraphInv, parsing, parsing' = parsing, Else
  PROVE  GraphInv'
<1> DEFINE ls == At(2).lists
           ss == At(1).stmts
           it == Item("then", ls, ss, <<>>)
           C == ItemOps(At(2), Pointers)
           B == ItemOps(At(1), Pointers)
<1>1. /\ Sorts(<<{"stmt"}, {"cond"}>>) /\ Replace(2, it)
      /\ UNCHANGED <<opNum, freed, links, deps, scopes, dropped>>
  BY DEF Else
<1>2. /\ 1 \in 1 .. Len(stack) /\ 2 \in 1 .. Len(stack) /\ At(1).sort = "stmt" /\ At(2).sort = "cond"
      /\ Has(ss, Pointers, B, opNum)
      /\ TopOps(stack, 2, Pointers) = C \cup B /\ C \cap B = {} /\ opNum \in Count
  BY <1>1, BodyOn
<1>3. At(2) \in Items(opNum) /\ Shape(At(2)) /\ GoodItem(At(2), Pointers)
  BY <1>2, TopFacts
<1>4. /\ Len(ls) = 1 /\ \A i \in DOMAIN ls : ls[i].entry = NoEntry
  BY <1>2, <1>3 DEF Shape
<1>5. ls \in Seq(Lists(opNum)) /\ GoodLists(ls, Pointers) /\ ListsOps(ls, Pointers) = C
  <2>1. At(2).stmts = <<>>
    BY <1>2, <1>3 DEF Shape
  <2>2. StmtOps(At(2).stmts, Pointers) = {}
    BY <2>1, NoStmts
  <2>3. At(2).lists \in Seq(Lists(opNum))
    BY <1>2, <1>3, ItemTypes
  <2>4. QED
    BY <1>3, <2>2, <2>3 DEF GoodItem, ItemOps
<1>6. ss \in Seq(Stmts(opNum)) /\ GoodStmts(ss, Pointers) /\ StmtOps(ss, Pointers) = B
  BY <1>2 DEF Has
<1>7. /\ it = [sort |-> "then", lists |-> ls, stmts |-> ss, ids |-> <<>>]
      /\ it.sort = "then" /\ it.lists = ls /\ it.stmts = ss /\ it.ids = <<>>
  BY DEF Item
<1> HIDE DEF ls, ss, it, C, B
<1>8. it \in Items(opNum)
  <2>1. "then" \in Operand \cup Context \cup {"for", "decl", "name", "stmt"} /\ <<>> \in Seq(Name \X (0 .. opNum))
    BY DEF Context
  <2>2. QED
    BY <1>5, <1>6, <1>7, <2>1 DEF Items
<1>9. GoodItem(it, Pointers) /\ ItemOps(it, Pointers) = C \cup B
  BY <1>2, <1>5, <1>6, <1>7 DEF GoodItem, ItemOps
<1>10. Shape(it)
  BY <1>4, <1>7 DEF Shape
<1>11. Remakes(2, it)
  BY <1>2, <1>8, <1>9 DEF Remakes
<1>12. Placed(2, it)
  BY <1>2, <1>7, <1>10 DEF Placed
<1>13. KeepsBlocks(2, it)
  <2>1. 1 .. 2 = {1, 2}
    OBVIOUS
  <2>2. QED
    BY <1>2, <1>7, <2>1 DEF KeepsBlocks
<1>14. QED
  BY <1>1, <1>2, <1>11, <1>12, <1>13, KeptRule

\* IF with ELSE.
LEMMA IfElseInv ==
  ASSUME GraphInv, parsing, parsing' = parsing, IfElse
  PROVE  GraphInv'
<1> DEFINE l == ListAt(2)
           C == ListsOps(At(2).lists, Pointers)
           T == StmtOps(At(2).stmts, Pointers)
           B == ItemOps(At(1), Pointers)
           branches == AddToSTMTList(Pointers, Nest("IF", At(2).stmts), Nest("ELSE", At(1).stmts))
           new == CreateSTMT(branches.ptrs, l)
           body == Nest("SELECTION", branches.stmts)
           a == AddToSTMTList(new.ptrs, new.stmts, body)
<1>1. Sorts(<<{"stmt"}, {"then"}>>) /\ Finish(2, a)
  BY DEF IfElse
<1>2. /\ 1 \in 1 .. Len(stack) /\ 2 \in 1 .. Len(stack) /\ At(1).sort = "stmt" /\ At(2).sort = "then"
      /\ Has(At(1).stmts, Pointers, B, opNum)
      /\ TopOps(stack, 2, Pointers) = ItemOps(At(2), Pointers) \cup B
      /\ ItemOps(At(2), Pointers) \cap B = {} /\ opNum \in Count /\ Pointers \in Ptrs(opNum)
  BY <1>1, BodyOn
<1>3. At(2) \in Items(opNum) /\ Shape(At(2)) /\ GoodItem(At(2), Pointers)
  BY <1>2, TopFacts
<1>4. ItemOps(At(2), Pointers) = C \cup T /\ C \cap T = {}
  BY <1>3 DEF ItemOps, GoodItem
<1>5. Has(At(2).stmts, Pointers, T, opNum)
  <2>1. At(2).stmts \in Seq(Stmts(opNum)) /\ GoodStmts(At(2).stmts, Pointers)
    BY <1>2, <1>3, ItemTypes DEF GoodItem
  <2>2. StmtOps(At(2).stmts, Pointers) \subseteq Op
    BY <1>2, <2>1, StmtOpsExist
  <2>3. QED
    BY <2>1, <2>2 DEF Has
<1>6. HasList(l, Pointers, C, opNum)
  <2>1. Len(At(2).lists) = 1
    BY <1>2, <1>3 DEF Shape
  <2>2. DOMAIN At(2).lists = 1 .. Len(At(2).lists) /\ \A i \in DOMAIN At(2).lists : At(2).lists[i] \in Lists(opNum)
    BY <1>2, <1>3, ItemTypes
  <2>3. /\ ListsOps(At(2).lists, Pointers) = ListOps(At(2).lists[1], Pointers)
        /\ GoodLists(At(2).lists, Pointers) <=> GoodList(At(2).lists[1], Pointers)
    BY <2>1, <2>2, ListItem
  <2>4. 1 \in DOMAIN At(2).lists
    BY <2>1, <2>2
  <2>5. l \in Lists(opNum) /\ GoodList(l, Pointers) /\ ListOps(l, Pointers) = C
    BY <1>3, <2>2, <2>3, <2>4 DEF GoodItem, ListAt
  <2>6. ListOps(l, Pointers) \subseteq Op
    BY <1>2, <2>5, ListOpsExist
  <2> HIDE DEF l, C
  <2>7. QED
    BY <2>5, <2>6 DEF HasList
<1> HIDE DEF l, C, T, B
<1>7. C \cap B = {} /\ T \cap B = {} /\ TopOps(stack, 2, Pointers) = C \cup T \cup B
  BY <1>2, <1>4
<1>8. Made(branches, Pointers, T \cup B, opNum)
  <2>1. "IF" \in Types /\ "ELSE" \in Types
    BY DEF Types
  <2>2. Has(Nest("IF", At(2).stmts), Pointers, T, opNum) /\ Has(Nest("ELSE", At(1).stmts), Pointers, B, opNum)
    BY <1>2, <1>5, <2>1, NestHas
  <2>3. QED
    BY <1>2, <1>7, <2>2, AddMade
<1> HIDE DEF branches
<1>9. /\ branches.ptrs \in Ptrs(opNum) /\ Has(branches.stmts, branches.ptrs, T \cup B, opNum)
      /\ Changes(Pointers, branches.ptrs, T \cup B)
  BY <1>8 DEF Made
<1>10. C \cap (T \cup B) = {} /\ (T \cup B) \cap C = {} /\ C \cup (T \cup B) = C \cup T \cup B
  BY <1>4, <1>7
<1>11. HasList(l, branches.ptrs, C, opNum)
  BY <1>2, <1>6, <1>9, <1>10, HasListStill
<1>12. Made(new, branches.ptrs, C, opNum)
  BY <1>2, <1>9, <1>11, CreateMade
<1> HIDE DEF new
<1>13. new.ptrs \in Ptrs(opNum) /\ Has(new.stmts, new.ptrs, C, opNum) /\ Changes(branches.ptrs, new.ptrs, C)
  BY <1>12 DEF Made
<1>14. Has(body, new.ptrs, T \cup B, opNum)
  <2>1. Has(branches.stmts, new.ptrs, T \cup B, opNum)
    BY <1>2, <1>9, <1>10, <1>13, HasStill
  <2>2. "SELECTION" \in Types
    BY DEF Types
  <2>3. QED
    BY <1>2, <1>13, <2>1, <2>2, NestHas
<1> HIDE DEF body
<1>15. Made(a, new.ptrs, C \cup (T \cup B), opNum)
  BY <1>2, <1>10, <1>13, <1>14, AddMade
<1> HIDE DEF a
<1>16. Made(a, Pointers, C \cup T \cup B, opNum)
  <2>1. Changes(Pointers, new.ptrs, (T \cup B) \cup C)
    BY <1>9, <1>13, ChangesThen
  <2>2. Changes(new.ptrs, a.ptrs, C \cup (T \cup B))
    BY <1>15 DEF Made
  <2>3. Changes(Pointers, a.ptrs, ((T \cup B) \cup C) \cup (C \cup (T \cup B)))
    BY <2>1, <2>2, ChangesThen
  <2>4. ((T \cup B) \cup C) \cup (C \cup (T \cup B)) = C \cup (T \cup B)
    OBVIOUS
  <2>5. Changes(Pointers, a.ptrs, C \cup (T \cup B))
    BY <2>3, <2>4
  <2>6. QED
    BY <1>10, <1>15, <2>5 DEF Made
<1>17. Made(a, Pointers, TopOps(stack, 2, Pointers), opNum)
  BY <1>7, <1>16
<1>18. QED
  BY <1>1, <1>2, <1>17, FinishInv
-----------------------------------------------------------------------------
(* The for statement.                                                      *)

\* A list more.
Appends(ls, l, ms, p, n) ==
  /\ ls \in Seq(Lists(n)) /\ GoodLists(ls, p) /\ l \in Lists(n) /\ GoodList(l, p)
  /\ ListOps(l, p) \cap ListsOps(ls, p) = {} /\ ms = Append(ls, l)

\* Then the lists are good, and hold the operations of all.
LEMMA AppendList ==
  ASSUME NEW n \in Count, NEW p, NEW ls, NEW l, NEW ms, Appends(ls, l, ms, p, n)
  PROVE  /\ ms \in Seq(Lists(n)) /\ Len(ms) = Len(ls) + 1
         /\ GoodLists(ms, p) /\ ListsOps(ms, p) = ListsOps(ls, p) \cup ListOps(l, p)
         /\ DOMAIN ms = 1 .. Len(ls) + 1 /\ Len(ls) \in Nat /\ DOMAIN ls = 1 .. Len(ls)
         /\ \A i \in 1 .. Len(ls) : ms[i] = ls[i]
         /\ ms[Len(ls) + 1] = l
<1>0. /\ ls \in Seq(Lists(n)) /\ GoodLists(ls, p) /\ l \in Lists(n) /\ GoodList(l, p)
      /\ ListOps(l, p) \cap ListsOps(ls, p) = {} /\ ms = Append(ls, l)
  BY DEF Appends
<1>1. /\ ms \in Seq(Lists(n)) /\ Len(ms) = Len(ls) + 1
      /\ \A i \in 1 .. Len(ls) : ms[i] = ls[i]
      /\ ms[Len(ls) + 1] = l
  BY <1>0, AppendProperties
<1>2. Len(ls) \in Nat /\ DOMAIN ls = 1 .. Len(ls) /\ DOMAIN ms = 1 .. Len(ls) + 1
  BY <1>0, <1>1, LenProperties
<1>3. \A i \in DOMAIN ms : (i \in DOMAIN ls /\ ms[i] = ls[i]) \/ (i = Len(ls) + 1 /\ ms[i] = l)
  BY <1>1, <1>2
<1>4. /\ \A i \in DOMAIN ls : i \in DOMAIN ms /\ ms[i] = ls[i] /\ i # Len(ls) + 1
      /\ Len(ls) + 1 \in DOMAIN ms
  BY <1>1, <1>2
<1>5. ListsOps(ms, p) = ListsOps(ls, p) \cup ListOps(l, p)
  <2>1. ListsOps(ms, p) \subseteq ListsOps(ls, p) \cup ListOps(l, p)
    BY <1>3 DEF ListsOps
  <2>2. ListsOps(ls, p) \subseteq ListsOps(ms, p)
    BY <1>4 DEF ListsOps
  <2>3. ListOps(l, p) \subseteq ListsOps(ms, p)
    BY <1>1, <1>4 DEF ListsOps
  <2>4. QED
    BY <2>1, <2>2, <2>3
<1>6. GoodLists(ms, p)
  <2>1. \A i \in DOMAIN ms : GoodList(ms[i], p)
    BY <1>0, <1>3 DEF GoodLists
  <2>2. \A i \in DOMAIN ls : ListOps(ls[i], p) \cap ListOps(l, p) = {}
    BY <1>0 DEF ListsOps
  <2>3. \A i, j \in DOMAIN ls : i # j => ListOps(ls[i], p) \cap ListOps(ls[j], p) = {}
    BY <1>0 DEF GoodLists
  <2>4. \A i, j \in DOMAIN ms : i # j => ListOps(ms[i], p) \cap ListOps(ms[j], p) = {}
    BY <1>3, <2>2, <2>3
  <2>5. QED
    BY <2>1, <2>4 DEF GoodLists
<1>7. QED
  BY <1>1, <1>2, <1>5, <1>6

\* An expression more in a header, which is the k-th element from the top.
Heads(k, l) ==
  /\ k \in 1 .. Len(stack) /\ (k = 1 \/ (k = 2 /\ At(1).sort = "expr"))
  /\ At(k).sort = "for" /\ Len(At(k).lists) < 3
  /\ l \in Lists(opNum) /\ GoodList(l, Pointers) /\ l.entry = NoEntry
  /\ ListOps(l, Pointers) \cap ItemOps(At(k), Pointers) = {}
  /\ TopOps(stack, k, Pointers) = ItemOps(At(k), Pointers) \cup ListOps(l, Pointers)

\* The header with another expression.
LEMMA ForRule ==
  ASSUME GraphInv, parsing, parsing' = parsing, NEW k, NEW l, Heads(k, l),
         Replace(k, [At(k) EXCEPT !.lists = Append(@, l)]),
         UNCHANGED <<opNum, freed, links, deps, scopes, dropped>>
  PROVE  GraphInv'
<1> DEFINE ls == At(k).lists
           ms == Append(ls, l)
           it == [At(k) EXCEPT !.lists = ms]
<1>0. /\ k \in 1 .. Len(stack) /\ (k = 1 \/ (k = 2 /\ At(1).sort = "expr"))
      /\ At(k).sort = "for" /\ Len(At(k).lists) < 3
      /\ l \in Lists(opNum) /\ GoodList(l, Pointers) /\ l.entry = NoEntry
      /\ ListOps(l, Pointers) \cap ItemOps(At(k), Pointers) = {}
      /\ TopOps(stack, k, Pointers) = ItemOps(At(k), Pointers) \cup ListOps(l, Pointers)
  BY DEF Heads
<1>1. /\ At(k) \in Items(opNum) /\ Shape(At(k)) /\ GoodItem(At(k), Pointers) /\ opNum \in Count
      /\ \A i \in DOMAIN At(k).ids : At(k).ids[i][2] \notin freed
  BY <1>0, TopFacts, TypeFacts
<1>2. ls \in Seq(Lists(opNum)) /\ Len(ls) \in Nat /\ DOMAIN ls = 1 .. Len(ls)
  BY <1>1, ItemTypes
<1>3. At(k).stmts = <<>> /\ \A i \in DOMAIN ls : ls[i].entry = NoEntry
  BY <1>0, <1>1 DEF Shape
<1>4. GoodLists(ls, Pointers) /\ ItemOps(At(k), Pointers) = ListsOps(ls, Pointers)
  <2>1. StmtOps(At(k).stmts, Pointers) = {}
    BY <1>3, NoStmts
  <2>2. QED
    BY <1>1, <2>1 DEF GoodItem, ItemOps
<1>5. /\ it.sort = "for" /\ it.lists = ms /\ it.stmts = <<>> /\ it.ids = At(k).ids
      /\ (ms \in Seq(Lists(opNum)) => it \in Items(opNum))
  BY <1>0, <1>1, <1>3 DEF Items
<1>6. Replace(k, it) /\ Len(ls) < 3
  BY <1>0
<1>7. ms = Append(ls, l)
  OBVIOUS
<1> HIDE DEF ls, ms, it
<1>8. /\ ms \in Seq(Lists(opNum)) /\ Len(ms) = Len(ls) + 1
      /\ GoodLists(ms, Pointers) /\ ListsOps(ms, Pointers) = ListsOps(ls, Pointers) \cup ListOps(l, Pointers)
      /\ DOMAIN ms = 1 .. Len(ls) + 1 /\ \A i \in 1 .. Len(ls) : ms[i] = ls[i]
      /\ ms[Len(ls) + 1] = l
  <2>1. ListOps(l, Pointers) \cap ListsOps(ls, Pointers) = {}
    BY <1>0, <1>4
  <2>2. Appends(ls, l, ms, Pointers, opNum)
    BY <1>0, <1>2, <1>4, <1>7, <2>1 DEF Appends
  <2>3. QED
    BY <1>1, <2>2, AppendList
<1>9. GoodItem(it, Pointers) /\ ItemOps(it, Pointers) = ListsOps(ms, Pointers)
  <2>1. StmtOps(<<>>, Pointers) = {} /\ GoodStmts(<<>>, Pointers)
    BY NoStmts
  <2>2. QED
    BY <1>5, <1>8, <2>1 DEF GoodItem, ItemOps
<1>10. Shape(it)
  <2>1. \A i \in DOMAIN ms : i \in DOMAIN ls \/ i = Len(ls) + 1
    BY <1>2, <1>8
  <2>2. \A i \in DOMAIN ms : ms[i].entry = NoEntry
    BY <1>0, <1>2, <1>3, <1>8, <2>1
  <2>3. Len(ms) <= 3
    BY <1>2, <1>6, <1>8
  <2>4. QED
    BY <1>5, <2>2, <2>3 DEF Shape
<1>11. Remakes(k, it)
  BY <1>0, <1>4, <1>5, <1>8, <1>9 DEF Remakes
<1>12. Placed(k, it)
  <2>1. k > 0
    BY <1>0
  <2>2. QED
    BY <1>0, <1>1, <1>5, <1>10, <2>1 DEF Placed
<1>13. KeepsBlocks(k, it)
  <2>1. 1 .. 1 = {1} /\ 1 .. 2 = {1, 2}
    OBVIOUS
  <2>2. CASE k = 1
    BY <1>0, <1>5, <2>1, <2>2 DEF KeepsBlocks
  <2>3. CASE k = 2 /\ At(1).sort = "expr"
    BY <1>0, <1>5, <2>1, <2>3 DEF KeepsBlocks
  <2>4. QED
    BY <1>0, <2>2, <2>3
<1>14. QED
  BY <1>0, <1>6, <1>11, <1>12, <1>13, KeptRule

\* An expression of the header, or none.
LEMMA ForPartInv ==
  ASSUME GraphInv, parsing, parsing' = parsing, ForPart
  PROVE  GraphInv'
<1>1. UNCHANGED <<opNum, freed, links, deps, scopes, dropped>>
  BY DEF ForPart
<1>2. CASE /\ Sorts(<<Operand, {"for"}>>) /\ Len(At(2).lists) < 3
           /\ Replace(2, [At(2) EXCEPT !.lists = Append(@, Complete(ListAt(1)))])
  <2> DEFINE l == Complete(ListAt(1))
  <2>1. /\ 1 \in 1 .. Len(stack) /\ 2 \in 1 .. Len(stack) /\ At(1).sort \in Operand /\ At(2).sort = "for"
    BY <1>2, TypeFacts, SortsTwo
  <2>2. At(1).sort = "expr"
    BY <2>1 DEF Operand
  <2>3. /\ ListAt(1) \in Lists(opNum) /\ GoodList(ListAt(1), Pointers)
        /\ ItemOps(At(1), Pointers) = ListOps(ListAt(1), Pointers)
    BY <2>1, <2>2, ExprFacts
  <2>4. /\ l \in Lists(opNum) /\ GoodList(l, Pointers) /\ l.entry = NoEntry
        /\ ListOps(l, Pointers) = ItemOps(At(1), Pointers)
    BY <2>3, TypeFacts, Completed
  <2>5. ListOps(l, Pointers) \cap ItemOps(At(2), Pointers) = {}
    BY <2>1, <2>4, TopApart
  <2>6. TopOps(stack, 2, Pointers) = ItemOps(At(2), Pointers) \cup ListOps(l, Pointers)
    BY <2>4, TopAre
  <2>7. Replace(2, [At(2) EXCEPT !.lists = Append(@, l)])
    BY <1>2
  <2> HIDE DEF l
  <2>8. Heads(2, l)
    BY <1>2, <2>1, <2>2, <2>4, <2>5, <2>6 DEF Heads
  <2>9. QED
    BY <1>1, <2>7, <2>8, ForRule
<1>3. CASE /\ Sorts(<<{"for"}>>) /\ Len(At(1).lists) < 2
           /\ Replace(1, [At(1) EXCEPT !.lists = Append(@, Empty(NoEntry))])
  <2> DEFINE l == Empty(NoEntry)
  <2>1. 1 \in 1 .. Len(stack) /\ At(1).sort = "for"
    BY <1>3, TypeFacts, SortsOne
  <2>2. l \in Lists(opNum) /\ GoodList(l, Pointers) /\ l.entry = NoEntry /\ ListOps(l, Pointers) = {}
    BY TypeFacts, EmptyList
  <2>3. /\ ListOps(l, Pointers) \cap ItemOps(At(1), Pointers) = {}
        /\ TopOps(stack, 1, Pointers) = ItemOps(At(1), Pointers) \cup ListOps(l, Pointers)
    BY <2>2, TopAre
  <2>4. Replace(1, [At(1) EXCEPT !.lists = Append(@, l)])
    BY <1>3
  <2>5. Len(At(1).lists) < 3
    <3>1. Len(At(1).lists) \in Nat
      BY <2>1, TopFacts, TypeFacts, ItemTypes
    <3>2. QED
      BY <1>3, <3>1
  <2> HIDE DEF l
  <2>6. Heads(1, l)
    BY <2>1, <2>2, <2>3, <2>5 DEF Heads
  <2>7. QED
    BY <1>1, <2>4, <2>6, ForRule
<1>4. QED
  BY <1>2, <1>3 DEF ForPart

\* The header is closed.
LEMMA CloseForInv ==
  ASSUME GraphInv, parsing, parsing' = parsing, CloseFor
  PROVE  GraphInv'
<1> DEFINE it == [At(1) EXCEPT !.sort = "loop"]
<1>1. /\ Sorts(<<{"for"}>>) /\ Len(At(1).lists) >= 2 /\ Replace(1, it)
      /\ UNCHANGED <<opNum, freed, links, deps, scopes, dropped>>
  BY DEF CloseFor
<1>2. 1 \in 1 .. Len(stack) /\ At(1).sort = "for"
  BY <1>1, TypeFacts, SortsOne
<1>3. /\ At(1) \in Items(opNum) /\ Shape(At(1)) /\ GoodItem(At(1), Pointers)
      /\ \A i \in DOMAIN At(1).ids : At(1).ids[i][2] \notin freed
  BY <1>2, TopFacts
<1>4. it.sort = "loop" /\ it.lists = At(1).lists /\ it.stmts = At(1).stmts /\ it.ids = At(1).ids
  BY <1>3 DEF Items
<1>5. it \in Items(opNum)
  BY <1>3 DEF Items, Context
<1> HIDE DEF it
<1>6. GoodItem(it, Pointers) /\ ItemOps(it, Pointers) = ItemOps(At(1), Pointers)
  BY <1>3, <1>4 DEF GoodItem, ItemOps
<1>7. Remakes(1, it)
  BY <1>5, <1>6, TopAre DEF Remakes
<1>8. Shape(it)
  <2>1. Len(At(1).lists) \in Nat
    BY <1>3, TypeFacts, ItemTypes
  <2>2. At(1).stmts = <<>> /\ \A i \in DOMAIN At(1).lists : At(1).lists[i].entry = NoEntry
    BY <1>2, <1>3 DEF Shape
  <2>3. Len(At(1).lists) \in 2 .. 3
    <3>1. Len(At(1).lists) <= 3
      BY <1>2, <1>3 DEF Shape
    <3>2. Len(At(1).lists) >= 2
      BY <1>1
    <3>3. \A n \in Nat : n <= 3 /\ n >= 2 => n \in 2 .. 3
      OBVIOUS
    <3>4. QED
      BY <2>1, <3>1, <3>2, <3>3
  <2>4. QED
    BY <1>4, <2>2, <2>3 DEF Shape
<1>9. Placed(1, it)
  BY <1>2, <1>3, <1>4, <1>8 DEF Placed
<1>10. KeepsBlocks(1, it)
  <2>1. 1 .. 1 = {1}
    OBVIOUS
  <2>2. QED
    BY <1>2, <1>4, <2>1 DEF KeepsBlocks
<1>11. QED
  BY <1>1, <1>2, <1>7, <1>9, <1>10, KeptRule

\* What is apart from the operations of a new list of statements stays good,
\* and no other operation changes.
LEMMA MadeBeside ==
  ASSUME NEW n \in Count, NEW p \in Ptrs(n), NEW a, NEW S, Made(a, p, S, n),
         NEW ss, NEW T, Has(ss, p, T, n), T \cap S = {}
  PROVE  Has(ss, a.ptrs, T, n)
<1>1. a.ptrs \in Ptrs(n) /\ Changes(p, a.ptrs, S)
  BY DEF Made
<1>2. QED
  BY <1>1, HasStill

\* The same of a list beside them.
LEMMA MadeBesideList ==
  ASSUME NEW n \in Count, NEW p \in Ptrs(n), NEW a, NEW S, Made(a, p, S, n),
         NEW l, NEW T, HasList(l, p, T, n), T \cap S = {}
  PROVE  HasList(l, a.ptrs, T, n)
<1>1. a.ptrs \in Ptrs(n) /\ Changes(p, a.ptrs, S)
  BY DEF Made
<1>2. QED
  BY <1>1, HasListStill

\* What is made of some operations changes no others.
LEMMA MadeWithin ==
  ASSUME NEW n, NEW p, NEW q, NEW a, NEW S, NEW T, Changes(p, q, T), Made(a, q, S, n), S \subseteq T
  PROVE  a.ptrs \in Ptrs(n) /\ Has(a.stmts, a.ptrs, S, n) /\ Changes(p, a.ptrs, T)
<1>1. Changes(q, a.ptrs, S) /\ a.ptrs \in Ptrs(n) /\ Has(a.stmts, a.ptrs, S, n)
  BY DEF Made
<1>2. Changes(p, a.ptrs, T \cup S)
  BY <1>1, ChangesThen
<1>3. T \cup S = T
  OBVIOUS
<1>4. QED
  BY <1>1, <1>2, <1>3

\* Nothing is made of nothing.
LEMMA NothingMadeOf ==
  ASSUME NEW n \in Count, NEW p \in Ptrs(n), NEW a, a = [stmts |-> <<>>, ptrs |-> p]
  PROVE  Made(a, p, {}, n)
<1>1. a.stmts = <<>> /\ a.ptrs = p
  OBVIOUS
<1>2. Has(<<>>, p, {}, n)
  BY HasNone
<1>3. Changes(p, p, {})
  BY DEF Changes, Agree
<1>4. QED
  BY <1>1, <1>2, <1>3 DEF Made

\* The expressions of a loop.
LEMMA LoopLists ==
  ASSUME GraphInv, NEW k \in 1 .. Len(stack), At(k).sort = "loop"
  PROVE  LET ls == At(k).lists
             S(i) == ListOps(ls[i], Pointers)
             L == IF Len(ls) = 3 THEN S(3) ELSE {}
         IN  /\ HasList(ls[1], Pointers, S(1), opNum) /\ HasList(ls[2], Pointers, S(2), opNum)
             /\ Len(ls) = 3 => HasList(ls[3], Pointers, S(3), opNum)
             /\ S(1) \cap S(2) = {} /\ S(1) \cap L = {} /\ S(2) \cap L = {}
             /\ ItemOps(At(k), Pointers) = S(1) \cup S(2) \cup L
<1> DEFINE ls == At(k).lists
           S(i) == ListOps(ls[i], Pointers)
           L == IF Len(ls) = 3 THEN S(3) ELSE {}
<1>1. /\ At(k) \in Items(opNum) /\ Shape(At(k)) /\ GoodItem(At(k), Pointers)
      /\ opNum \in Count /\ Pointers \in Ptrs(opNum)
  BY TopFacts, TypeFacts
<1>2. Len(ls) \in 2 .. 3 /\ At(k).stmts = <<>>
  BY <1>1 DEF Shape
<1>3. DOMAIN ls = 1 .. Len(ls) /\ \A i \in DOMAIN ls : ls[i] \in Lists(opNum)
  BY <1>1, ItemTypes
<1>4. GoodLists(ls, Pointers) /\ ItemOps(At(k), Pointers) = ListsOps(ls, Pointers)
  <2>1. StmtOps(At(k).stmts, Pointers) = {}
    BY <1>2, NoStmts
  <2>2. QED
    BY <1>1, <2>1 DEF GoodItem, ItemOps
<1> HIDE DEF ls
<1>5. \A i \in DOMAIN ls : HasList(ls[i], Pointers, S(i), opNum)
  <2> TAKE i \in DOMAIN ls
  <2>1. ls[i] \in Lists(opNum) /\ GoodList(ls[i], Pointers)
    BY <1>3, <1>4 DEF GoodLists
  <2>2. S(i) \subseteq Op
    BY <1>1, <2>1, ListOpsExist
  <2>3. QED
    BY <2>1, <2>2 DEF HasList
<1>6. \A i, j \in DOMAIN ls : i # j => S(i) \cap S(j) = {}
  BY <1>4 DEF GoodLists
<1>7. ListsOps(ls, Pointers) = UNION {S(i) : i \in DOMAIN ls}
  BY DEF ListsOps
<1> HIDE DEF S
<1>8. CASE Len(ls) = 3
  <2>1. DOMAIN ls = {1, 2, 3}
    BY <1>3, <1>8
  <2>2. UNION {S(i) : i \in DOMAIN ls} = S(1) \cup S(2) \cup S(3)
    BY <2>1
  <2>3. QED
    BY <1>4, <1>5, <1>6, <1>7, <1>8, <2>1, <2>2 DEF ls, S
<1>9. CASE Len(ls) = 2
  <2>1. DOMAIN ls = {1, 2}
    BY <1>3, <1>9
  <2>2. UNION {S(i) : i \in DOMAIN ls} = S(1) \cup S(2)
    BY <2>1
  <2>3. QED
    BY <1>4, <1>5, <1>6, <1>7, <1>9, <2>1, <2>2 DEF ls, S
<1>10. QED
  BY <1>2, <1>8, <1>9

\* The for statement.
LEMMA ForInv ==
  ASSUME GraphInv, parsing, parsing' = parsing, For
  PROVE  GraphInv'
<1> DEFINE lists == At(2).lists
           S1 == ListOps(lists[1], Pointers)
           S2 == ListOps(lists[2], Pointers)
           S3 == IF Len(lists) = 3 THEN ListOps(lists[3], Pointers) ELSE {}
           B  == ItemOps(At(1), Pointers)
           T  == S1 \cup S2 \cup S3 \cup B
           init == CreateSTMT(Pointers, lists[1])
           cond == CreateSTMT(init.ptrs, lists[2])
           step == IF Len(lists) = 3 THEN CreateSTMT(cond.ptrs, lists[3])
                   ELSE [stmts |-> <<>>, ptrs |-> cond.ptrs]
           body == AddToSTMTList(step.ptrs, At(1).stmts, step.stmts)
           loop == AddToSTMTList(body.ptrs, body.stmts, cond.stmts)
           nest == Nest("ITERATION", loop.stmts)
           a == AddToSTMTList(loop.ptrs, init.stmts, nest)
<1>1. Sorts(<<{"stmt"}, {"loop"}>>) /\ Finish(2, a)
  BY DEF For
<1>2. /\ 1 \in 1 .. Len(stack) /\ 2 \in 1 .. Len(stack) /\ At(1).sort = "stmt" /\ At(2).sort = "loop"
      /\ Has(At(1).stmts, Pointers, B, opNum)
      /\ TopOps(stack, 2, Pointers) = ItemOps(At(2), Pointers) \cup B
      /\ ItemOps(At(2), Pointers) \cap B = {} /\ opNum \in Count /\ Pointers \in Ptrs(opNum)
  BY <1>1, BodyOn
<1>3. /\ HasList(lists[1], Pointers, S1, opNum) /\ HasList(lists[2], Pointers, S2, opNum)
      /\ Len(lists) = 3 => HasList(lists[3], Pointers, S3, opNum)
      /\ S1 \cap S2 = {} /\ S1 \cap S3 = {} /\ S2 \cap S3 = {}
      /\ ItemOps(At(2), Pointers) = S1 \cup S2 \cup S3
  BY <1>2, LoopLists
<1>4. Len(lists) # 3 => S3 = {}
  OBVIOUS
<1> HIDE DEF S1, S2, S3, B
<1>5. TopOps(stack, 2, Pointers) = T /\ S1 \cap B = {} /\ S2 \cap B = {} /\ S3 \cap B = {}
  BY <1>2, <1>3
<1>6. S1 \subseteq T /\ S2 \subseteq T /\ S3 \subseteq T /\ B \cup S3 \subseteq T /\ (B \cup S3) \cup S2 \subseteq T
      /\ S1 \cup ((B \cup S3) \cup S2) = T
  OBVIOUS
<1> HIDE DEF T
<1>7. Made(init, Pointers, S1, opNum)
  BY <1>2, <1>3, CreateMade
<1> HIDE DEF init
<1>8. Changes(Pointers, Pointers, T)
  BY DEF Changes, Agree
<1>9. init.ptrs \in Ptrs(opNum) /\ Has(init.stmts, init.ptrs, S1, opNum) /\ Changes(Pointers, init.ptrs, T)
  BY <1>6, <1>7, <1>8, MadeWithin
<1>10. /\ HasList(lists[2], init.ptrs, S2, opNum) /\ Has(At(1).stmts, init.ptrs, B, opNum)
       /\ Len(lists) = 3 => HasList(lists[3], init.ptrs, S3, opNum)
  <2>1. S2 \cap S1 = {} /\ B \cap S1 = {} /\ S3 \cap S1 = {}
    BY <1>3, <1>5
  <2>2. HasList(lists[2], init.ptrs, S2, opNum)
    BY <1>2, <1>3, <1>7, <2>1, MadeBesideList
  <2>3. Len(lists) = 3 => HasList(lists[3], init.ptrs, S3, opNum)
    BY <1>2, <1>3, <1>7, <2>1, MadeBesideList
  <2>4. Has(At(1).stmts, init.ptrs, B, opNum)
    BY <1>2, <1>7, <2>1, MadeBeside
  <2>5. QED
    BY <2>2, <2>3, <2>4
<1>11. Made(cond, init.ptrs, S2, opNum)
  BY <1>2, <1>9, <1>10, CreateMade
<1> HIDE DEF cond
<1>12. cond.ptrs \in Ptrs(opNum) /\ Has(cond.stmts, cond.ptrs, S2, opNum) /\ Changes(Pointers, cond.ptrs, T)
  BY <1>6, <1>9, <1>11, MadeWithin
<1>13. /\ Has(init.stmts, cond.ptrs, S1, opNum) /\ Has(At(1).stmts, cond.ptrs, B, opNum)
       /\ Len(lists) = 3 => HasList(lists[3], cond.ptrs, S3, opNum)
  <2>1. S1 \cap S2 = {} /\ B \cap S2 = {} /\ S3 \cap S2 = {}
    BY <1>3, <1>5
  <2>2. Has(init.stmts, cond.ptrs, S1, opNum)
    BY <1>2, <1>9, <1>11, <2>1, MadeBeside
  <2>3. Len(lists) = 3 => HasList(lists[3], cond.ptrs, S3, opNum)
    BY <1>2, <1>9, <1>10, <1>11, <2>1, MadeBesideList
  <2>4. Has(At(1).stmts, cond.ptrs, B, opNum)
    BY <1>2, <1>9, <1>10, <1>11, <2>1, MadeBeside
  <2>5. QED
    BY <2>2, <2>3, <2>4
<1>14. Made(step, cond.ptrs, S3, opNum)
  <2>1. CASE Len(lists) = 3
    <3>1. step = CreateSTMT(cond.ptrs, lists[3])
      BY <2>1
    <3>2. Made(CreateSTMT(cond.ptrs, lists[3]), cond.ptrs, S3, opNum)
      BY <1>2, <1>12, <1>13, <2>1, CreateMade
    <3>3. QED
      BY <3>1, <3>2
  <2>2. CASE Len(lists) # 3
    <3>1. step = [stmts |-> <<>>, ptrs |-> cond.ptrs] /\ S3 = {}
      BY <1>4, <2>2
    <3> HIDE DEF step
    <3>2. QED
      BY <1>2, <1>12, <3>1, NothingMadeOf
  <2>3. QED
    BY <2>1, <2>2
<1> HIDE DEF step, lists
<1>15. step.ptrs \in Ptrs(opNum) /\ Has(step.stmts, step.ptrs, S3, opNum) /\ Changes(Pointers, step.ptrs, T)
  BY <1>6, <1>12, <1>14, MadeWithin
<1>16. /\ Has(init.stmts, step.ptrs, S1, opNum) /\ Has(cond.stmts, step.ptrs, S2, opNum)
       /\ Has(At(1).stmts, step.ptrs, B, opNum)
  <2>1. S1 \cap S3 = {} /\ S2 \cap S3 = {} /\ B \cap S3 = {}
    BY <1>3, <1>5
  <2>2. Has(init.stmts, step.ptrs, S1, opNum)
    BY <1>2, <1>12, <1>13, <1>14, <2>1, MadeBeside
  <2>3. Has(cond.stmts, step.ptrs, S2, opNum)
    BY <1>2, <1>12, <1>14, <2>1, MadeBeside
  <2>4. Has(At(1).stmts, step.ptrs, B, opNum)
    BY <1>2, <1>12, <1>13, <1>14, <2>1, MadeBeside
  <2>5. QED
    BY <2>2, <2>3, <2>4
<1>17. Made(body, step.ptrs, B \cup S3, opNum)
  <2>1. B \cap S3 = {}
    BY <1>5
  <2>2. QED
    BY <1>2, <1>15, <1>16, <2>1, AddMade
<1> HIDE DEF body
<1>18. body.ptrs \in Ptrs(opNum) /\ Has(body.stmts, body.ptrs, B \cup S3, opNum) /\ Changes(Pointers, body.ptrs, T)
  BY <1>6, <1>15, <1>17, MadeWithin
<1>19. Has(init.stmts, body.ptrs, S1, opNum) /\ Has(cond.stmts, body.ptrs, S2, opNum)
  <2>1. S1 \cap (B \cup S3) = {} /\ S2 \cap (B \cup S3) = {}
    BY <1>3, <1>5
  <2>2. Has(init.stmts, body.ptrs, S1, opNum)
    BY <1>2, <1>15, <1>16, <1>17, <2>1, MadeBeside
  <2>3. Has(cond.stmts, body.ptrs, S2, opNum)
    BY <1>2, <1>15, <1>16, <1>17, <2>1, MadeBeside
  <2>4. QED
    BY <2>2, <2>3
<1>20. Made(loop, body.ptrs, (B \cup S3) \cup S2, opNum)
  <2>1. (B \cup S3) \cap S2 = {}
    BY <1>3, <1>5
  <2>2. QED
    BY <1>2, <1>18, <1>19, <2>1, AddMade
<1> HIDE DEF loop
<1>21. /\ loop.ptrs \in Ptrs(opNum) /\ Has(loop.stmts, loop.ptrs, (B \cup S3) \cup S2, opNum)
       /\ Changes(Pointers, loop.ptrs, T)
  BY <1>6, <1>18, <1>20, MadeWithin
<1>22. S1 \cap ((B \cup S3) \cup S2) = {}
  BY <1>3, <1>5
<1>23. Has(init.stmts, loop.ptrs, S1, opNum)
  BY <1>2, <1>18, <1>19, <1>20, <1>22, MadeBeside
<1>24. Has(nest, loop.ptrs, (B \cup S3) \cup S2, opNum)
  <2>1. "ITERATION" \in Types
    BY DEF Types
  <2>2. QED
    BY <1>2, <1>21, <2>1, NestHas
<1> HIDE DEF nest
<1>25. Made(a, loop.ptrs, T, opNum)
  <2>1. Made(a, loop.ptrs, S1 \cup ((B \cup S3) \cup S2), opNum)
    BY <1>2, <1>21, <1>22, <1>23, <1>24, AddMade
  <2> HIDE DEF a
  <2>2. QED
    BY <1>6, <2>1
<1> HIDE DEF a
<1>26. Made(a, Pointers, T, opNum)
  <2>1. T \subseteq T
    OBVIOUS
  <2>2. a.ptrs \in Ptrs(opNum) /\ Has(a.stmts, a.ptrs, T, opNum) /\ Changes(Pointers, a.ptrs, T)
    BY <1>21, <1>25, <2>1, MadeWithin
  <2>3. QED
    BY <2>2 DEF Made
<1>27. QED
  BY <1>1, <1>2, <1>5, <1>26, FinishInv
-----------------------------------------------------------------------------
(* Declarations.                                                           *)

\* A declaration may follow what is below the topmost k elements.
DeclPlace(k) ==
  /\ \/ k = Len(stack)
     \/ k > 0 /\ At(k).sort # "expr"
     \/ k < Len(stack) /\ At(k + 1).sort # "expr"
  /\ k < Len(stack) /\ At(k + 1).sort = "for" => At(k + 1).lists = <<>>
  /\ \A i \in 1 .. k : At(i).sort # "block"

\* Below a declaration the header has just been opened.
LEMMA BelowDeclaration ==
  ASSUME GraphInv, NEW k \in 1 .. Len(stack), At(k).sort \in {"decl", "name"}, k < Len(stack),
         At(k + 1).sort = "for"
  PROVE  At(k + 1).lists = <<>>
<1>1. Len(stack) \in Nat /\ k + 1 \in 1 .. Len(stack)
  BY TypeFacts
<1>2. /\ At(k) = stack[Len(stack) + 1 - k] /\ Len(stack) + 1 - k \in DOMAIN stack
      /\ At(k + 1) = stack[Len(stack) + 1 - (k + 1)] /\ Len(stack) + 1 - (k + 1) \in DOMAIN stack
  BY <1>1, TopFacts
<1>3. Len(stack) + 1 - k = (Len(stack) + 1 - (k + 1)) + 1
  BY <1>1
<1>4. QED
  BY <1>2, <1>3 DEF GraphInv, Ordered

\* The guard of a declarator allows that.
LEMMA MayDeclarePlace == ASSUME GraphInv, MayDeclare PROVE DeclPlace(0)
<1>1. Len(stack) \in Nat /\ stack \in Seq(Items(opNum))
  BY TypeFacts
<1>2. \A i \in 1 .. 0 : At(i).sort # "block"
  OBVIOUS
<1>3. CASE stack = <<>>
  <2>1. Len(stack) = 0
    BY <1>3
  <2>2. QED
    BY <1>2, <2>1 DEF DeclPlace
<1>4. CASE Sorts(<<{"block", "decl"}>>)
  <2>1. Len(stack) >= 1 /\ At(1).sort \in {"block", "decl"}
    BY <1>1, <1>4, SortsOne
  <2>2. 0 < Len(stack) /\ At(0 + 1).sort # "expr" /\ At(0 + 1).sort # "for"
    BY <1>1, <2>1
  <2>3. QED
    BY <1>2, <2>2 DEF DeclPlace
<1>5. CASE Sorts(<<{"for"}>>) /\ At(1).lists = <<>>
  <2>1. Len(stack) >= 1 /\ At(1).sort = "for"
    BY <1>1, <1>5, SortsOne
  <2>2. 0 < Len(stack) /\ At(0 + 1).sort # "expr" /\ At(0 + 1).lists = <<>>
    BY <1>1, <1>5, <2>1
  <2>3. QED
    BY <1>2, <2>2 DEF DeclPlace
<1>6. QED
  BY <1>3, <1>4, <1>5 DEF MayDeclare

\* The declaration it of the topmost k elements.
LEMMA DeclRule ==
  ASSUME GraphInv, parsing, parsing' = parsing, NEW k, k \in 0 .. Len(stack), NEW it,
         Makeover(k, it, NULL, {}), Numbered(NULL), Shape(it), it.sort = "decl", DeclPlace(k),
         \A i \in DOMAIN it.ids : it.ids[i][2] \notin freed, Len(stack) - k < MaxStack,
         UNCHANGED <<opNum, freed, deps, scopes, dropped>>
  PROVE  GraphInv'
<1>1. /\ opNum' = opNum /\ freed' = freed /\ left' = left /\ right' = right
      /\ scopes' = scopes /\ dropped' = dropped
  BY DEF deps
<1>2. left' \in [Op -> 0 .. opNum'] /\ right' \in [Op -> 0 .. opNum']
  BY <1>1, NoDependences
<1>3. Placed(k, it)
  BY DEF Placed, DeclPlace
<1>4. KeepsBlocks(k, it)
  BY DEF KeepsBlocks, DeclPlace
<1>5. dropped' = dropped \cup {}
  BY <1>1
<1>6. QED
  BY <1>1, <1>2, <1>3, <1>4, <1>5, ItemRule

\* The operations of the topmost k elements are those of the list, an
\* initializer's, of which o is the last.
Declares(k, o, list) ==
  /\ k \in {0, 2} /\ k <= Len(stack) /\ DeclPlace(k)
  /\ list \in Lists(opNum) /\ GoodList(list, Pointers) /\ list.entry = NoEntry
  /\ ListOps(list, Pointers) = TopOps(stack, k, Pointers)
  /\ o \in 0 .. opNum /\ o \notin freed

\* The first declarator of a declaration.
LEMMA FirstDeclaration ==
  ASSUME GraphInv, parsing, parsing' = parsing, NEW k, NEW x \in Name, NEW o, NEW list, Declares(k, o, list),
         k = 0 => Len(stack) < MaxStack, Replace(k, Item("decl", <<list>>, <<>>, <<<<x, o>>>>)),
         links' = links, UNCHANGED <<opNum, freed, deps, scopes, dropped>>
  PROVE  GraphInv'
<1> DEFINE ids == <<<<x, o>>>>
           it == Item("decl", <<list>>, <<>>, ids)
<1>1. /\ k \in {0, 2} /\ k <= Len(stack) /\ DeclPlace(k)
      /\ list \in Lists(opNum) /\ GoodList(list, Pointers) /\ list.entry = NoEntry
      /\ ListOps(list, Pointers) = TopOps(stack, k, Pointers)
      /\ o \in 0 .. opNum /\ o \notin freed
  BY DEF Declares
<1>2. Len(stack) \in Nat /\ Len(stack) <= MaxStack /\ opNum \in Count
  BY TypeFacts DEF GraphInv, TypeOK
<1>3. k \in 0 .. Len(stack) /\ Len(stack) - k < MaxStack
  BY <1>1, <1>2, OpAssumption
<1>4. ids \in Ids(opNum) /\ \A i \in DOMAIN ids : ids[i][2] \notin freed
  <2>1. <<x, o>> \in Name \X (0 .. opNum)
    BY <1>1
  <2>2. DOMAIN ids = {1} /\ ids[1] = <<x, o>>
    OBVIOUS
  <2>3. ids \in Seq(Name \X (0 .. opNum))
    BY <2>1
  <2>4. <<x, o>>[2] = o
    OBVIOUS
  <2> HIDE DEF ids
  <2>5. QED
    BY <1>1, <2>2, <2>3, <2>4 DEF Ids
<1>5. stack' = Append(Below(k), it)
  BY DEF Replace
<1>6. it = Item("decl", <<list>>, <<>>, ids)
  OBVIOUS
<1> HIDE DEF ids, it
<1>7. "decl" \in ListSorts /\ ("decl" = "expr" \/ list.entry = NoEntry)
  BY <1>1 DEF ListSorts
<1>8. list \in Lists(opNum) /\ GoodList(list, Pointers)
  BY <1>1
<1>9. /\ it \in Items(opNum) /\ GoodItem(it, Pointers) /\ ItemOps(it, Pointers) = ListOps(list, Pointers)
      /\ Shape(it) /\ it.sort = "decl" /\ it.ids = ids
  BY <1>2, <1>4, <1>6, <1>7, <1>8, ListMade
<1>10. opNum' = opNum
  OBVIOUS
<1>11. Makeover(k, it, NULL, {}) /\ Numbered(NULL)
  BY <1>1, <1>3, <1>5, <1>9, <1>10, KeptMakeover
<1>12. QED
  BY <1>1, <1>3, <1>4, <1>9, <1>11, DeclRule

\* The declarators before it, and the topmost k elements.
LEMMA DeclParts ==
  ASSUME GraphInv, NEW k, NEW o, NEW list, Declares(k, o, list), Len(stack) > k,
         At(k + 1).sort = "decl", opNum' = opNum
  PROVE  /\ Parts(ListAt(k + 1), list, NULL, k + 1, NULL)
         /\ k + 1 \in 1 .. Len(stack) /\ DeclPlace(k + 1)
         /\ AddToOPList(ListAt(k + 1), list, NULL).entry = NoEntry
<1> DEFINE K == k + 1
<1>1. /\ k \in {0, 2} /\ k <= Len(stack) /\ DeclPlace(k)
      /\ list \in Lists(opNum) /\ GoodList(list, Pointers) /\ list.entry = NoEntry
      /\ ListOps(list, Pointers) = TopOps(stack, k, Pointers)
  BY DEF Declares
<1>2. Len(stack) \in Nat /\ opNum \in Count /\ Pointers \in Ptrs(opNum)
  BY TypeFacts
<1>3. K \in 1 .. Len(stack) /\ K \in {1, 3} /\ K > 0
  BY <1>1, <1>2
<1>4. At(K).sort = "decl"
  OBVIOUS
<1>5. /\ ListAt(K) \in Lists(opNum) /\ GoodList(ListAt(K), Pointers)
      /\ ItemOps(At(K), Pointers) = ListOps(ListAt(K), Pointers)
  BY <1>3, <1>4, ListAtFacts
<1>6. /\ TopOps(stack, K, Pointers) = ItemOps(At(K), Pointers) \cup TopOps(stack, k, Pointers)
      /\ ItemOps(At(K), Pointers) \cap TopOps(stack, k, Pointers) = {}
  <2>1. CASE k = 0
    <3>1. K = 1
      BY <2>1
    <3>2. QED
      BY <2>1, <3>1, TopAre
  <2>2. CASE k = 2
    <3>1. K = 3 /\ 1 \in 1 .. Len(stack) /\ 2 \in 1 .. Len(stack) /\ 3 \in 1 .. Len(stack)
      BY <1>2, <1>3, <2>2
    <3>2. /\ ItemOps(At(3), Pointers) \cap ItemOps(At(2), Pointers) = {}
          /\ ItemOps(At(3), Pointers) \cap ItemOps(At(1), Pointers) = {}
      BY <3>1, TopApart
    <3>3. QED
      BY <2>2, <3>1, <3>2, TopAre
  <2>3. QED
    BY <1>1, <2>1, <2>2
<1>7. NULL \notin ListOps(ListAt(K), Pointers) \cup ListOps(list, Pointers)
  <2>1. ListOps(ListAt(K), Pointers) \subseteq Op /\ ListOps(list, Pointers) \subseteq Op
    BY <1>1, <1>2, <1>5, ListOpsExist
  <2>2. QED
    BY <2>1, NullIsNoOp
<1>8. Parts(ListAt(K), list, NULL, K, NULL)
  BY <1>1, <1>5, <1>6, <1>7 DEF Parts
<1>9. ListAt(K).entry = NoEntry
  <2>1. Shape(At(K)) /\ At(K) \in Items(opNum)
    BY <1>3, TopFacts
  <2>2. Len(At(K).lists) = 1 /\ \A i \in DOMAIN At(K).lists : At(K).lists[i].entry = NoEntry
    BY <1>4, <2>1 DEF Shape
  <2>3. DOMAIN At(K).lists = 1 .. Len(At(K).lists)
    BY <1>2, <2>1, ItemTypes
  <2>4. 1 \in DOMAIN At(K).lists
    BY <2>2, <2>3
  <2>5. QED
    BY <2>2, <2>4 DEF ListAt
<1>10. AddToOPList(ListAt(K), list, NULL).entry = NoEntry
  BY <1>1, <1>9 DEF AddToOPList
<1>11. DeclPlace(K)
  <2>1. K < Len(stack) /\ At(K + 1).sort = "for" => At(K + 1).lists = <<>>
    BY <1>3, <1>4, BelowDeclaration
  <2>2. \A i \in 1 .. K : i \in 1 .. k \/ i = K
    BY <1>1
  <2>3. \A i \in 1 .. K : At(i).sort # "block"
    BY <1>1, <1>4, <2>2 DEF DeclPlace
  <2>4. QED
    BY <1>3, <1>4, <2>1, <2>3 DEF DeclPlace
<1>12. QED
  BY <1>3, <1>8, <1>10, <1>11

\* A makeover by a list that has been joined.
LEMMA JoinedMakeover ==
  ASSUME GraphInv, NEW o, Numbered(o), NEW k, k \in 0 .. Len(stack), NEW list, Joined(list, k, o),
         list.entry = NoEntry, NEW sort, sort \in ListSorts, NEW ids, ids \in Ids(opNum'),
         NEW it, it = Item(sort, <<list>>, <<>>, ids), stack' = Append(Below(k), it)
  PROVE  Makeover(k, it, o, {}) /\ Shape(it) /\ it.sort = sort /\ it.ids = ids
<1> DEFINE T == TopOps(stack, k, Pointers)
<1>1. opNum' \in Count
  BY NewOp
<1>2. /\ list \in Lists(opNum') /\ Pointers' \in Ptrs(opNum') /\ GoodList(list, Pointers')
      /\ ListOps(list, Pointers') = T \cup ({o} \ {NULL})
      /\ Agree(Pointers, Pointers', Op \ (T \cup ({o} \ {NULL})))
  BY DEF Joined
<1>3. /\ it \in Items(opNum') /\ GoodItem(it, Pointers') /\ ItemOps(it, Pointers') = ListOps(list, Pointers')
      /\ Shape(it) /\ it.sort = sort /\ it.ids = ids
  <2>1. sort = "expr" \/ list.entry = NoEntry
    OBVIOUS
  <2>2. list \in Lists(opNum') /\ GoodList(list, Pointers')
    BY <1>2
  <2>3. QED
    BY <1>1, <2>1, <2>2, ListMade
<1> HIDE DEF T
<1>4. ItemOps(it, Pointers') = (T \cup ({o} \ {NULL})) \ {}
  BY <1>2, <1>3
<1>5. Makeover(k, it, o, {})
  BY <1>2, <1>3, <1>4 DEF Makeover, T
<1>6. QED
  BY <1>3, <1>5

\* A declarator after others.
LEMMA NextDeclaration ==
  ASSUME GraphInv, parsing, parsing' = parsing, NEW k, NEW x \in Name, NEW o, NEW list, Declares(k, o, list),
         Len(stack) > k, At(k + 1).sort = "decl",
         Replace(k + 1, Item("decl", <<AddToOPList(ListAt(k + 1), list, NULL)>>, <<>>,
                             Append(At(k + 1).ids, <<x, o>>))),
         Link(TieLists(Pointers, ListAt(k + 1), list, NULL)),
         UNCHANGED <<opNum, freed, deps, scopes, dropped>>
  PROVE  GraphInv'
<1> DEFINE K == k + 1
           all == AddToOPList(ListAt(K), list, NULL)
           ids == Append(At(K).ids, <<x, o>>)
           it == Item("decl", <<all>>, <<>>, ids)
<1>1. o \in 0 .. opNum /\ o \notin freed /\ opNum' = opNum
  BY DEF Declares
<1>2. /\ Parts(ListAt(K), list, NULL, K, NULL) /\ K \in 1 .. Len(stack) /\ DeclPlace(K)
      /\ all.entry = NoEntry
  BY <1>1, DeclParts
<1>3. Numbered(NULL)
  BY <1>1 DEF Numbered
<1>4. stack' = Append(Below(K), it) /\ Link(TieLists(Pointers, ListAt(K), list, NULL))
  BY DEF Replace
<1> HIDE DEF K
<1>5. Joined(all, K, NULL)
  BY <1>2, <1>3, <1>4, PartsJoined
<1>6. ids \in Ids(opNum') /\ \A i \in DOMAIN ids : ids[i][2] \notin freed
  <2>1. At(K) \in Items(opNum) /\ \A i \in DOMAIN At(K).ids : At(K).ids[i][2] \notin freed
    BY <1>2, TopFacts
  <2>2. At(K).ids \in Seq(Name \X (0 .. opNum))
    BY <2>1 DEF Items
  <2>3. <<x, o>> \in Name \X (0 .. opNum) /\ <<x, o>>[2] = o
    BY <1>1
  <2>4. /\ ids \in Seq(Name \X (0 .. opNum)) /\ Len(ids) = Len(At(K).ids) + 1
        /\ \A i \in 1 .. Len(At(K).ids) : ids[i] = At(K).ids[i]
        /\ ids[Len(At(K).ids) + 1] = <<x, o>>
    BY <2>2, <2>3, AppendProperties
  <2> HIDE DEF ids
  <2>5. /\ DOMAIN ids = 1 .. Len(At(K).ids) + 1 /\ DOMAIN At(K).ids = 1 .. Len(At(K).ids)
        /\ Len(At(K).ids) \in Nat
    BY <2>2, <2>4, LenProperties
  <2>6. \A i \in DOMAIN ids : i \in DOMAIN At(K).ids \/ i = Len(At(K).ids) + 1
    BY <2>5
  <2>7. \A i \in DOMAIN ids : ids[i][2] \notin freed
    BY <1>1, <2>1, <2>3, <2>4, <2>5, <2>6
  <2>8. QED
    BY <1>1, <2>4, <2>7 DEF Ids
<1>7. it = Item("decl", <<all>>, <<>>, ids)
  OBVIOUS
<1> HIDE DEF all, ids, it
<1>8. "decl" \in ListSorts
  BY DEF ListSorts
<1>9. K \in 0 .. Len(stack) /\ Len(stack) - K < MaxStack
  BY <1>2, Room
<1>10. Makeover(K, it, NULL, {}) /\ Shape(it) /\ it.sort = "decl" /\ it.ids = ids
  BY <1>2, <1>3, <1>4, <1>5, <1>6, <1>7, <1>8, <1>9, JoinedMakeover
<1>11. \A i \in DOMAIN it.ids : it.ids[i][2] \notin freed
  BY <1>6, <1>10
<1>12. QED
  BY <1>2, <1>3, <1>9, <1>10, <1>11, DeclRule

\* Any declarator.
LEMMA DeclInv ==
  ASSUME GraphInv, parsing, parsing' = parsing, NEW k, NEW x \in Name, NEW o, NEW list, Declares(k, o, list),
         AddDeclaration(k, x, o, list), UNCHANGED <<opNum, freed, deps, scopes, dropped>>
  PROVE  GraphInv'
<1>1. CASE Len(stack) > k /\ At(k + 1).sort = "decl"
  <2>1. /\ Replace(k + 1, Item("decl", <<AddToOPList(ListAt(k + 1), list, NULL)>>, <<>>,
                               Append(At(k + 1).ids, <<x, o>>)))
        /\ Link(TieLists(Pointers, ListAt(k + 1), list, NULL))
    BY <1>1 DEF AddDeclaration
  <2>2. QED
    BY <1>1, <2>1, NextDeclaration
<1>2. CASE ~(Len(stack) > k /\ At(k + 1).sort = "decl")
  <2>1. /\ k = 0 => Len(stack) < MaxStack
        /\ Replace(k, Item("decl", <<list>>, <<>>, <<<<x, o>>>>)) /\ links' = links
    BY <1>2 DEF AddDeclaration
  <2>2. QED
    BY <2>1, FirstDeclaration
<1>3. QED
  BY <1>1, <1>2

\* NULL is never freed.
LEMMA NullLive == ASSUME GraphInv PROVE NULL \in 0 .. opNum /\ NULL \notin freed
<1>1. freed \subseteq 1 .. opNum /\ opNum \in Nat
  BY TypeFacts DEF GraphInv, TypeOK
<1>2. QED
  BY <1>1 DEF NULL

\* A declarator without an initializer.
LEMMA DeclaratorInv ==
  ASSUME GraphInv, parsing, parsing' = parsing, NEW x \in Name, Declarator(x)
  PROVE  GraphInv'
<1>1. /\ MayDeclare /\ AddDeclaration(0, x, NULL, Empty(NoEntry))
      /\ UNCHANGED <<opNum, freed, deps, scopes, dropped>>
  BY DEF Declarator
<1>2. DeclPlace(0)
  BY <1>1, MayDeclarePlace
<1>3. /\ Empty(NoEntry) \in Lists(opNum) /\ GoodList(Empty(NoEntry), Pointers)
      /\ Empty(NoEntry).entry = NoEntry /\ ListOps(Empty(NoEntry), Pointers) = TopOps(stack, 0, Pointers)
  BY TypeFacts, EmptyList, TopAre
<1>4. 0 \in {0, 2} /\ 0 <= Len(stack)
  BY TypeFacts
<1>5. Declares(0, NULL, Empty(NoEntry))
  BY <1>2, <1>3, <1>4, NullLive DEF Declares
<1>6. QED
  BY <1>1, <1>5, DeclInv

\* A name whose initializer is to come.
LEMMA InitializeInv ==
  ASSUME GraphInv, parsing, parsing' = parsing, NEW x \in Name, Initialize(x)
  PROVE  GraphInv'
<1> DEFINE ids == <<<<x, NULL>>>>
           it == Item("name", <<>>, <<>>, ids)
<1>1. MayDeclare /\ Push(it) /\ UNCHANGED <<opNum, freed, links, deps, scopes, dropped>>
  BY DEF Initialize
<1>2. DeclPlace(0) /\ Len(stack) \in Nat
  BY <1>1, MayDeclarePlace, TypeFacts
<1>3. it.sort = "name" /\ it.lists = <<>> /\ it.stmts = <<>> /\ it.ids = ids
  BY DEF Item
<1>4. ids \in Seq(Name \X (0 .. opNum)) /\ ids # <<>> /\ \A i \in DOMAIN ids : ids[i][2] \notin freed
  <2>1. <<x, NULL>> \in Name \X (0 .. opNum) /\ <<x, NULL>>[2] = NULL
    BY NullLive
  <2>2. DOMAIN ids = {1} /\ ids[1] = <<x, NULL>> /\ ids # <<>>
    OBVIOUS
  <2>3. ids \in Seq(Name \X (0 .. opNum))
    BY <2>1
  <2> HIDE DEF ids
  <2>4. QED
    BY <2>1, <2>2, <2>3, NullLive
<1>5. it \in Items(opNum)
  <2>1. <<>> \in Seq(Lists(opNum)) /\ <<>> \in Seq(Stmts(opNum))
    OBVIOUS
  <2> HIDE DEF ids
  <2>2. QED
    BY <1>4, <2>1 DEF Item, Items
<1> HIDE DEF it, ids
<1>6. GoodItem(it, Pointers) /\ ItemOps(it, Pointers) = {}
  BY <1>3, <1>5, TypeFacts, NothingMade
<1>7. Shape(it)
  <2>1. DOMAIN it.lists = {}
    BY <1>3
  <2>2. QED
    BY <1>3, <1>4, <2>1 DEF Shape
<1>8. Placed(0, it)
  BY <1>2, <1>3, <1>4, <1>7 DEF Placed, DeclPlace
<1>9. Fits(0, it) /\ it.sort # "block" /\ it.sort # "expr"
  BY <1>2, <1>3, <1>8, PlacedFits
<1>10. QED
  BY <1>1, <1>5, <1>6, <1>9, PushRule

\* The last operation of a list on the stack.
LEMMA TailHere ==
  ASSUME GraphInv, NEW k \in 1 .. Len(stack), At(k).sort = "expr"
  PROVE  ListAt(k).chain.tail \in 0 .. opNum /\ ListAt(k).chain.tail \notin freed
<1> DEFINE l == ListAt(k)
<1>1. /\ opNum \in Count /\ Pointers \in Ptrs(opNum) /\ freed \subseteq 1 .. opNum
      /\ StackOps(stack, Pointers) \cap freed = {}
  BY TypeFacts DEF GraphInv, TypeOK, Accounted
<1>2. /\ l \in Lists(opNum) /\ GoodList(l, Pointers) /\ ItemOps(At(k), Pointers) = ListOps(l, Pointers)
  BY ExprFacts
<1>3. At(k) = stack[Len(stack) + 1 - k] /\ Len(stack) + 1 - k \in DOMAIN stack
  BY TopFacts
<1>4. ListOps(l, Pointers) \subseteq StackOps(stack, Pointers)
  BY <1>2, <1>3 DEF StackOps
<1> HIDE DEF l
<1>5. l.chain \in Chains(opNum) /\ Good(l.chain, Pointers)
  BY <1>1, <1>2, ListTypes DEF GoodList
<1>6. l.chain.tail \in 0 .. opNum
  BY <1>1, <1>5, ChainTypes
<1>7. l.chain.tail \notin freed
  <2>1. CASE l.chain = Nil
    BY <2>1, NullLive DEF Nil
  <2>2. CASE l.chain # Nil
    <3>1. l.chain.tail \in ListOps(l, Pointers)
      BY <1>5, <2>2 DEF Good, ListOps
    <3>2. QED
      BY <1>1, <1>4, <3>1
  <2>3. QED
    BY <2>1, <2>2
<1>8. QED
  BY <1>6, <1>7 DEF l

\* A declarator with its initializer.
LEMMA InitDeclaratorInv ==
  ASSUME GraphInv, parsing, parsing' = parsing, InitDeclarator
  PROVE  GraphInv'
<1> DEFINE x == At(2).ids[1][1]
           o == ListAt(1).chain.tail
           l == Complete(ListAt(1))
<1>1. /\ Sorts(<<Operand, {"name"}>>) /\ AddDeclaration(2, x, o, l)
      /\ UNCHANGED <<opNum, freed, deps, scopes, dropped>>
  BY DEF InitDeclarator
<1>2. /\ Len(stack) >= 2 /\ 1 \in 1 .. Len(stack) /\ 2 \in 1 .. Len(stack)
      /\ At(1).sort \in Operand /\ At(2).sort = "name"
  BY <1>1, TypeFacts, SortsTwo
<1>3. At(1).sort = "expr"
  BY <1>2 DEF Operand
<1>4. /\ ListAt(1) \in Lists(opNum) /\ GoodList(ListAt(1), Pointers)
      /\ ItemOps(At(1), Pointers) = ListOps(ListAt(1), Pointers)
      /\ o \in 0 .. opNum /\ o \notin freed
  BY <1>2, <1>3, ExprFacts, TailHere
<1>5. /\ l \in Lists(opNum) /\ GoodList(l, Pointers) /\ l.entry = NoEntry
      /\ ListOps(l, Pointers) = ItemOps(At(1), Pointers)
  BY <1>4, TypeFacts, Completed
<1>6. At(2) \in Items(opNum) /\ At(2).lists = <<>> /\ At(2).stmts = <<>> /\ At(2).ids # <<>>
  BY <1>2, TopFacts DEF Shape
<1>7. ItemOps(At(2), Pointers) = {}
  BY <1>6, TypeFacts, NothingMade
<1>8. ListOps(l, Pointers) = TopOps(stack, 2, Pointers)
  BY <1>5, <1>7, TopAre
<1>9. x \in Name
  <2>1. At(2).ids \in Seq(Name \X (0 .. opNum))
    BY <1>6 DEF Items
  <2>2. At(2).ids[1] \in Name \X (0 .. opNum)
    <3>1. Len(At(2).ids) \in Nat /\ Len(At(2).ids) # 0
      BY <1>6, <2>1, EmptySeq, LenProperties
    <3>2. 1 \in 1 .. Len(At(2).ids)
      BY <3>1
    <3>3. QED
      BY <2>1, <3>2, ElementOfSeq
  <2>3. QED
    BY <2>2
<1> HIDE DEF x, o, l
<1>10. DeclPlace(2)
  <2>1. 2 < Len(stack) /\ At(2 + 1).sort = "for" => At(2 + 1).lists = <<>>
    BY <1>2, BelowDeclaration
  <2>2. 1 .. 2 = {1, 2}
    OBVIOUS
  <2>3. \A i \in 1 .. 2 : At(i).sort # "block"
    BY <1>2, <1>3, <2>2
  <2>4. 2 > 0 /\ At(2).sort # "expr"
    BY <1>2
  <2>5. QED
    BY <2>1, <2>3, <2>4 DEF DeclPlace
<1>11. 2 \in {0, 2} /\ 2 <= Len(stack)
  BY <1>2
<1>12. Declares(2, o, l)
  BY <1>4, <1>5, <1>8, <1>10, <1>11 DEF Declares
<1>13. QED
  BY <1>1, <1>9, <1>12, DeclInv
-----------------------------------------------------------------------------
(* Rules that change the levels.                                           *)

\* A non-empty set of natural numbers has a least element.
LEMMA Least ==
  ASSUME NEW S \in SUBSET Nat, S # {}
  PROVE  \E m \in S : \A k \in S : m <= k
<1> DEFINE R == {p \in Nat \X Nat : p[1] < p[2]}
<1>1. IsWellFoundedOn(R, Nat)
  BY NatLessThanWellFounded DEF OpToRel
<1>2. \A i, j \in Nat : <<i, j>> \in R <=> i < j
  OBVIOUS
<1> HIDE DEF R
<1>3. PICK m \in S : \A i \in S : <<i, m>> \notin R
  BY <1>1, WFMin
<1>4. ASSUME NEW k \in S PROVE m <= k
  <2>1. k \in Nat /\ m \in Nat
    OBVIOUS
  <2>2. ~(k < m)
    BY <1>2, <1>3, <2>1
  <2>3. QED
    BY <2>1, <2>2
<1>5. QED
  BY <1>4

\* The declaration of a name that counts is among the declared ones.
LEMMA FirstOfName ==
  ASSUME NEW ids \in Seq(Name \X Nat), NEW x, \E k \in DOMAIN ids : ids[k][1] = x
  PROVE  (CHOOSE k \in DOMAIN ids : ids[k][1] = x /\ \A i \in 1 .. k - 1 : ids[i][1] # x) \in DOMAIN ids
<1> DEFINE S == {k \in DOMAIN ids : ids[k][1] = x}
<1>1. DOMAIN ids = 1 .. Len(ids) /\ Len(ids) \in Nat
  BY LenProperties
<1>2. S \in SUBSET Nat /\ S # {}
  BY <1>1
<1>3. PICK m \in S : \A k \in S : m <= k
  BY <1>2, Least
<1>4. m \in DOMAIN ids /\ ids[m][1] = x /\ m \in 1 .. Len(ids)
  BY <1>1
<1>5. ASSUME NEW i \in 1 .. m - 1 PROVE ids[i][1] # x
  <2>1. i \in DOMAIN ids /\ ~(m <= i)
    BY <1>1, <1>4
  <2>2. i \notin S
    BY <1>3, <2>1
  <2>3. QED
    BY <2>1, <2>2
<1>6. \E k \in DOMAIN ids : ids[k][1] = x /\ \A i \in 1 .. k - 1 : ids[i][1] # x
  BY <1>4, <1>5
<1>7. QED
  BY <1>6

\* The level that a declaration makes of f.
Extended(f, ids) ==
  LET new == {ids[k][1] : k \in DOMAIN ids} \ DOMAIN f
      first(x) == CHOOSE k \in DOMAIN ids : ids[k][1] = x /\ \A i \in 1 .. k - 1 : ids[i][1] # x
  IN  [x \in DOMAIN f \cup new |-> IF x \in new THEN ids[first(x)][2] ELSE f[x]]

\* It is a level, and its entries are those of f or not in F.
LEMMA ExtendedFacts ==
  ASSUME NEW n \in Nat, NEW f \in Scope(n), NEW ids \in Ids(n),
         NEW F, \A k \in DOMAIN ids : ids[k][2] \notin F
  PROVE  /\ Extended(f, ids) \in Scope(n) /\ DOMAIN f \subseteq DOMAIN Extended(f, ids)
         /\ \A x \in DOMAIN Extended(f, ids) :
              (x \in DOMAIN f /\ Extended(f, ids)[x] = f[x]) \/ Extended(f, ids)[x] \notin F
<1> DEFINE new == {ids[k][1] : k \in DOMAIN ids} \ DOMAIN f
           first(x) == CHOOSE k \in DOMAIN ids : ids[k][1] = x /\ \A i \in 1 .. k - 1 : ids[i][1] # x
           v(x) == IF x \in new THEN ids[first(x)][2] ELSE f[x]
           g == Extended(f, ids)
<1>1. g = [x \in DOMAIN f \cup new |-> v(x)]
  BY DEF Extended
<1>2. PICK D \in SUBSET Name : f \in [D -> 0 .. n]
  BY DEF Scope
<1>3. ids \in Seq(Name \X (0 .. n))
  BY DEF Ids
<1>4. \A k \in DOMAIN ids : ids[k] \in Name \X (0 .. n)
  <2>1. DOMAIN ids = 1 .. Len(ids)
    BY <1>3, LenProperties
  <2>2. QED
    BY <1>3, <2>1, ElementOfSeq
<1>5. \A k \in DOMAIN ids : ids[k][1] \in Name /\ ids[k][2] \in 0 .. n
  BY <1>4
<1>6. ids \in Seq(Name \X Nat)
  <2>1. Name \X (0 .. n) \subseteq Name \X Nat
    OBVIOUS
  <2>2. QED
    BY <1>3, <2>1, SeqMonotonic
<1>7. ASSUME NEW x \in new PROVE first(x) \in DOMAIN ids
  <2>1. \E k \in DOMAIN ids : ids[k][1] = x
    OBVIOUS
  <2>2. QED
    BY <1>6, <2>1, FirstOfName
<1>8. new \subseteq Name /\ DOMAIN f = D
  BY <1>2, <1>5
<1> HIDE DEF new, first
<1>9. \A x \in DOMAIN f \cup new : v(x) \in 0 .. n
  BY <1>2, <1>5, <1>7
<1>10. \A x \in DOMAIN f \cup new : (x \in DOMAIN f /\ v(x) = f[x]) \/ v(x) \notin F
  BY <1>7
<1> HIDE DEF v, g
<1>11. g \in [DOMAIN f \cup new -> 0 .. n] /\ DOMAIN f \cup new \in SUBSET Name
  BY <1>1, <1>2, <1>8, <1>9
<1>12. g \in Scope(n)
  BY <1>11 DEF Scope
<1>13. DOMAIN g = DOMAIN f \cup new /\ \A x \in DOMAIN g : g[x] = v(x)
  BY <1>1
<1>14. QED
  BY <1>10, <1>12, <1>13 DEF g

\* The levels after a declaration.
LEMMA Declared ==
  ASSUME GraphInv, parsing, NEW k \in 1 .. Len(stack), Declare(At(k).ids), freed' = freed, opNum' = opNum
  PROVE  /\ scopes' \in Seq(Scope(opNum')) /\ Len(scopes') = Len(scopes) /\ LocalsLive'
         /\ DOMAIN scopes \subseteq DOMAIN scopes'
         /\ \A l \in DOMAIN scopes : DOMAIN scopes[l] \subseteq DOMAIN scopes'[l]
<1> DEFINE n == Len(scopes)
           ids == At(k).ids
           f == scopes[n]
           g == Extended(f, ids)
<1>1. /\ scopes \in Seq(Scope(opNum)) /\ n \in Nat /\ DOMAIN scopes = 1 .. n
      /\ \A l \in DOMAIN scopes : scopes[l] \in Scope(opNum)
      /\ n = 1 + Cardinality(Blocks(stack)) /\ Cardinality(Blocks(stack)) \in Nat
  BY ScopeFacts, LevelsBounded
<1>2. n \in DOMAIN scopes /\ f \in Scope(opNum)
  BY <1>1
<1>3. scopes' = [scopes EXCEPT ![n] = g]
  BY DEF Declare, Extended
<1>4. ids \in Ids(opNum) /\ \A i \in DOMAIN ids : ids[i][2] \notin freed
  <2>1. At(k) \in Items(opNum) /\ \A i \in DOMAIN At(k).ids : At(k).ids[i][2] \notin freed
    BY TopFacts
  <2>2. At(k).ids \in Seq(Name \X (0 .. opNum))
    BY <2>1 DEF Items
  <2>3. QED
    BY <2>1, <2>2 DEF Ids
<1> HIDE DEF f, ids
<1>5. /\ g \in Scope(opNum) /\ DOMAIN f \subseteq DOMAIN g
      /\ \A x \in DOMAIN g : (x \in DOMAIN f /\ g[x] = f[x]) \/ g[x] \notin freed
  BY <1>2, <1>4, TypeFacts, ExtendedFacts
<1> HIDE DEF g
<1>6. /\ scopes' \in Seq(Scope(opNum)) /\ Len(scopes') = n /\ DOMAIN scopes' = 1 .. n
      /\ \A l \in 1 .. n : scopes'[l] = IF l = n THEN g ELSE scopes[l]
  <2>1. scopes' \in Seq(Scope(opNum))
    BY <1>1, <1>2, <1>3, <1>5
  <2>2. DOMAIN scopes' = DOMAIN scopes /\ \A l \in DOMAIN scopes : scopes'[l] = IF l = n THEN g ELSE scopes[l]
    BY <1>3
  <2>3. Len(scopes') \in Nat /\ DOMAIN scopes' = 1 .. Len(scopes')
    BY <2>1, LenProperties
  <2>4. QED
    BY <1>1, <2>1, <2>2, <2>3
<1>7. \A l \in 2 .. n : \A x \in DOMAIN scopes[l] : scopes[l][x] \notin freed
  BY DEF GraphInv, LocalsLive
<1>8. \A l \in 2 .. n : l \in 1 .. n
  BY <1>1
<1>9. \A l \in 2 .. n : \A x \in DOMAIN scopes'[l] : scopes'[l][x] \notin freed
  <2> TAKE l \in 2 .. n
  <2>1. CASE l = n
    BY <1>5, <1>6, <1>7, <1>8, <2>1 DEF f
  <2>2. CASE l # n
    BY <1>6, <1>7, <1>8, <2>2
  <2>3. QED
    BY <2>1, <2>2
<1>10. LocalsLive'
  BY <1>6, <1>9 DEF LocalsLive
<1>11. \A l \in DOMAIN scopes : DOMAIN scopes[l] \subseteq DOMAIN scopes'[l]
  BY <1>1, <1>5, <1>6 DEF f
<1>12. QED
  BY <1>1, <1>6, <1>10, <1>11

\* An element that is no expression, made where the levels change but their
\* number does not.
LEMMA LevelsRule ==
  ASSUME GraphInv, parsing, parsing' = parsing, Numbered(NULL), NEW k, NEW it, NEW left_out,
         Makeover(k, it, NULL, left_out), Placed(k, it), KeepsBlocks(k, it),
         freed' = freed, dropped' = dropped \cup left_out, Len(stack) - k < MaxStack,
         left' \in [Op -> 0 .. opNum'], right' \in [Op -> 0 .. opNum'],
         scopes' \in Seq(Scope(opNum')), Len(scopes') = Len(scopes), LocalsLive'
  PROVE  GraphInv'
<1>1. k \in 0 .. Len(stack) /\ stack' = Append(Below(k), it) /\ it \in Items(opNum')
  BY DEF Makeover
<1>2. Fits(k, it) /\ it.sort # "expr"
  BY <1>1, PlacedFits DEF Placed
<1>3. opNum' \in Count /\ opNum <= opNum'
  BY NewOp
<1>4. EntriesOpen'
  BY <1>1, <1>2, <1>3, NoEntries
<1>5. Blocks(stack') = Blocks(stack)
  BY <1>1, <1>3, BlocksKept
<1>6. Len(scopes') = 1 + Cardinality(Blocks(stack'))
  BY <1>5, ScopeFacts
<1>7. QED
  BY <1>2, <1>4, <1>6, RewriteInv

\* The invariant when the stack is empty.
LEMMA EmptyInv ==
  ASSUME parsing' \in BOOLEAN, stack' = <<>>, opNum' \in 0 .. MaxOps,
         freed' \subseteq 1 .. opNum', dropped' \subseteq 1 .. opNum', freed' \cap dropped' = {},
         parsing' => 1 .. opNum' \subseteq freed' \cup dropped',
         next' \in [Op -> 0 .. opNum'], issue' \in [Op -> 0 .. opNum'],
         left' \in [Op -> 0 .. opNum'], right' \in [Op -> 0 .. opNum'], Fresh',
         scopes' \in Seq(Scope(opNum')), parsing' => Len(scopes') = 1, LocalsLive'
  PROVE  GraphInv'
<1>1. DOMAIN stack' = {} /\ Len(stack') = 0 /\ stack' \in Seq(Items(opNum'))
  OBVIOUS
<1>2. {k \in DOMAIN stack' : stack'[k].sort = "block"} = {}
  BY <1>1
<1>3. Cardinality({k \in DOMAIN stack' : stack'[k].sort = "block"}) = 0
  BY <1>2, FS_EmptySet
<1>4. TypeOK'
  <2>1. parsing' => Len(scopes') = 1 + Cardinality({k \in DOMAIN stack' : stack'[k].sort = "block"})
    BY <1>3
  <2>2. Len(stack') <= MaxStack
    BY <1>1, OpAssumption
  <2>3. scopes' \in Seq(UNION {[D -> 0 .. opNum'] : D \in SUBSET Name})
    BY DEF Scope
  <2>4. QED
    BY <1>1, <2>1, <2>2, <2>3 DEF TypeOK
<1>5. Shaped' /\ Ordered' /\ EntriesOpen' /\ IdsLive'
  BY <1>1 DEF Shaped, Ordered, EntriesOpen, IdsLive
<1>6. GoodStack(stack', Pointers') /\ StackOps(stack', Pointers') = {}
  BY <1>1 DEF GoodStack, StackOps
<1>7. Accounted'
  BY <1>6 DEF Accounted
<1>8. QED
  BY <1>4, <1>5, <1>6, <1>7 DEF GraphInv

\* Clearing fields keeps those of operations to come clear.
LEMMA ForgottenFresh ==
  ASSUME GraphInv, NEW ops, Forget(ops), opNum' = opNum
  PROVE  Fresh'
<1>1. \A q \in Op : next'[q] \in {NULL, next[q]} /\ issue'[q] \in {NULL, issue[q]}
  BY DEF Forget
<1>2. \A q \in Op : q > opNum => next[q] = NULL /\ issue[q] = NULL
  BY DEF GraphInv, Fresh
<1>3. \A q \in Op : q > opNum => next'[q] = NULL /\ issue'[q] = NULL
  BY <1>1, <1>2
<1>4. QED
  BY <1>3 DEF Fresh

\* The operations of a stack of one element.
LEMMA OneElement ==
  ASSUME GraphInv, Len(stack) = 1
  PROVE  /\ 1 \in 1 .. Len(stack) /\ StackOps(stack, Pointers) = ItemOps(At(1), Pointers)
         /\ Blocks(stack) = IF At(1).sort = "block" THEN {1} ELSE {}
<1>1. DOMAIN stack = {1} /\ At(1) = stack[1]
  BY TypeFacts DEF At
<1>2. QED
  BY <1>1 DEF StackOps, Blocks
-----------------------------------------------------------------------------
(* The end of a declaration.                                               *)

\* The last declarator of a declaration outside of functions.
LEMMA EndGlobal ==
  ASSUME GraphInv, parsing, parsing' = parsing, Len(stack) = 1, At(1).sort = "decl",
         Declare(At(1).ids), stack' = <<>>, Drop(OpsOfList(ListAt(1))), UNCHANGED <<opNum, freed>>
  PROVE  GraphInv'
<1> DEFINE ops == ListOps(ListAt(1), Pointers)
<1>1. opNum' = opNum /\ freed' = freed /\ dropped' = dropped \cup ops /\ Forget(ops)
  BY OpsAre DEF Drop
<1>2. /\ 1 \in 1 .. Len(stack) /\ StackOps(stack, Pointers) = ItemOps(At(1), Pointers) /\ Blocks(stack) = {}
  BY OneElement
<1>3. ItemOps(At(1), Pointers) = ops
  BY <1>2, ListAtFacts
<1>4. /\ scopes' \in Seq(Scope(opNum')) /\ Len(scopes') = Len(scopes) /\ LocalsLive'
  BY <1>1, <1>2, Declared
<1>5. Len(scopes') = 1
  <2>1. Len(scopes) = 1 + Cardinality(Blocks(stack))
    BY ScopeFacts
  <2>2. Cardinality(Blocks(stack)) = 0
    BY <1>2, FS_EmptySet
  <2>3. QED
    BY <1>4, <2>1, <2>2
<1> HIDE DEF ops
<1>6. /\ next' \in [Op -> 0 .. opNum'] /\ issue' \in [Op -> 0 .. opNum']
      /\ left' \in [Op -> 0 .. opNum'] /\ right' \in [Op -> 0 .. opNum']
  BY <1>1, Forgotten
<1>7. Fresh'
  BY <1>1, ForgottenFresh
<1>8. /\ freed \cap dropped = {} /\ ops \cap (freed \cup dropped) = {}
      /\ 1 .. opNum \subseteq ops \cup freed \cup dropped
      /\ freed \subseteq 1 .. opNum /\ dropped \subseteq 1 .. opNum /\ opNum \in 0 .. MaxOps
      /\ parsing \in BOOLEAN
  BY <1>2, <1>3 DEF GraphInv, Accounted, TypeOK
<1>9. ops \subseteq 1 .. opNum
  <2>1. StackOps(stack, Pointers) \subseteq 1 .. opNum
    BY <1>2, Room, TopOpsExist
  <2>2. QED
    BY <1>2, <1>3, <2>1
<1>10. /\ freed' \subseteq 1 .. opNum' /\ dropped' \subseteq 1 .. opNum' /\ freed' \cap dropped' = {}
       /\ 1 .. opNum' \subseteq freed' \cup dropped' /\ opNum' \in 0 .. MaxOps /\ parsing' \in BOOLEAN
  BY <1>1, <1>8, <1>9
<1>11. QED
  BY <1>4, <1>5, <1>6, <1>7, <1>10, EmptyInv

\* The last declarator of the first part of a header.
LEMMA EndForDeclaration ==
  ASSUME GraphInv, parsing, parsing' = parsing, Len(stack) > 1, At(1).sort = "decl", At(2).sort = "for",
         Declare(At(1).ids), Replace(2, Item("for", <<ListAt(1)>>, <<>>, <<>>)),
         UNCHANGED <<links, deps, dropped>>, UNCHANGED <<opNum, freed>>
  PROVE  GraphInv'
<1> DEFINE l == ListAt(1)
           it == Item("for", <<l>>, <<>>, <<>>)
<1>1. /\ opNum' = opNum /\ freed' = freed /\ dropped' = dropped /\ links' = links
      /\ left' = left /\ right' = right /\ stack' = Append(Below(2), it)
  BY DEF deps, Replace
<1>2. 1 \in 1 .. Len(stack) /\ 2 \in 1 .. Len(stack) /\ 1 < Len(stack) /\ opNum \in Count
  BY TypeFacts
<1>3. /\ l \in Lists(opNum) /\ GoodList(l, Pointers) /\ ItemOps(At(1), Pointers) = ListOps(l, Pointers)
      /\ l.entry = NoEntry
  <2>1. Shape(At(1)) /\ At(1) \in Items(opNum)
    BY <1>2, TopFacts
  <2>2. Len(At(1).lists) = 1 /\ \A i \in DOMAIN At(1).lists : At(1).lists[i].entry = NoEntry
    BY <2>1 DEF Shape
  <2>3. DOMAIN At(1).lists = 1 .. Len(At(1).lists)
    BY <1>2, <2>1, ItemTypes
  <2>4. 1 \in DOMAIN At(1).lists
    BY <2>2, <2>3
  <2>5. l.entry = NoEntry
    BY <2>2, <2>4 DEF ListAt
  <2>6. QED
    BY <1>2, <2>5, ListAtFacts
<1>4. ItemOps(At(2), Pointers) = {}
  <2>1. At(1 + 1).lists = <<>>
    BY <1>2, BelowDeclaration
  <2>2. At(2) \in Items(opNum) /\ At(2).stmts = <<>>
    BY <1>2, TopFacts DEF Shape
  <2>3. At(2).lists = <<>>
    BY <2>1
  <2>4. QED
    BY <1>2, <2>2, <2>3, NothingMade
<1>5. TopOps(stack, 2, Pointers) = ListOps(l, Pointers)
  BY <1>3, <1>4, TopAre
<1>6. it = Item("for", <<l>>, <<>>, <<>>)
  OBVIOUS
<1> HIDE DEF l, it
<1>7. "for" \in ListSorts /\ <<>> \in Ids(opNum) /\ ("for" = "expr" \/ l.entry = NoEntry)
  BY <1>3 DEF ListSorts, Ids
<1>8. l \in Lists(opNum) /\ GoodList(l, Pointers)
  BY <1>3
<1>9. /\ it \in Items(opNum) /\ GoodItem(it, Pointers) /\ ItemOps(it, Pointers) = ListOps(l, Pointers)
      /\ Shape(it) /\ it.sort = "for" /\ it.ids = <<>>
  BY <1>2, <1>6, <1>7, <1>8, ListMade
<1>10. 2 \in 0 .. Len(stack) /\ Len(stack) - 2 < MaxStack
  BY <1>2, Room
<1>11. Makeover(2, it, NULL, {}) /\ Numbered(NULL)
  BY <1>1, <1>5, <1>9, <1>10, KeptMakeover
<1>12. left' \in [Op -> 0 .. opNum'] /\ right' \in [Op -> 0 .. opNum']
  BY <1>1, NoDependences
<1>13. 2 > 0
  OBVIOUS
<1>14. Placed(2, it)
  BY <1>9, <1>13 DEF Placed
<1>15. KeepsBlocks(2, it)
  <2>1. 1 .. 2 = {1, 2}
    OBVIOUS
  <2>2. QED
    BY <1>9, <2>1 DEF KeepsBlocks
<1>16. /\ scopes' \in Seq(Scope(opNum')) /\ Len(scopes') = Len(scopes) /\ LocalsLive'
  BY <1>1, <1>2, Declared
<1>17. dropped' = dropped \cup {}
  BY <1>1
<1>18. QED
  BY <1>1, <1>10, <1>11, <1>12, <1>14, <1>15, <1>16, <1>17, LevelsRule

\* The last declarator of a declaration in a block.
LEMMA EndLocal ==
  ASSUME GraphInv, parsing, parsing' = parsing, Len(stack) > 1, At(1).sort = "decl", At(2).sort = "block",
         Declare(At(1).ids), NEW new, new = CreateSTMT(Pointers, ListAt(1)),
         NEW more, more = AddToSTMTList(new.ptrs, At(2).stmts, new.stmts),
         Replace(2, Block(more.stmts)), Link(more.ptrs),
         UNCHANGED <<deps, dropped>>, UNCHANGED <<opNum, freed>>
  PROVE  GraphInv'
<1> DEFINE it == Block(more.stmts)
           D == ItemOps(At(1), Pointers)
           B == ItemOps(At(2), Pointers)
<1>1. /\ opNum' = opNum /\ freed' = freed /\ dropped' = dropped
      /\ left' = left /\ right' = right /\ stack' = Append(Below(2), it)
  BY DEF deps, Replace
<1>2. /\ 1 \in 1 .. Len(stack) /\ 2 \in 1 .. Len(stack) /\ opNum \in Count /\ Pointers \in Ptrs(opNum)
  BY TypeFacts
<1>3. HasList(ListAt(1), Pointers, D, opNum)
  BY <1>2, ListHere
<1>4. Has(At(2).stmts, Pointers, B, opNum)
  BY <1>2, StmtsHere
<1>5. TopOps(stack, 2, Pointers) = B \cup D /\ B \cap D = {}
  BY <1>2, TopAre, TopApart
<1>6. it = Item("block", <<>>, more.stmts, <<>>)
  BY DEF Block
<1> HIDE DEF it, B, D
<1>7. Made(new, Pointers, D, opNum)
  BY <1>2, <1>3, CreateMade
<1>8. new.ptrs \in Ptrs(opNum) /\ Has(new.stmts, new.ptrs, D, opNum) /\ Changes(Pointers, new.ptrs, D)
  BY <1>7 DEF Made
<1>9. Has(At(2).stmts, new.ptrs, B, opNum)
  BY <1>2, <1>4, <1>5, <1>7, MadeBeside
<1>10. Made(more, new.ptrs, B \cup D, opNum)
  BY <1>2, <1>5, <1>8, <1>9, AddMade
<1>11. Made(more, Pointers, TopOps(stack, 2, Pointers), opNum)
  <2>1. D \subseteq B \cup D /\ B \cup D \subseteq B \cup D
    OBVIOUS
  <2>2. Changes(Pointers, new.ptrs, B \cup D)
    BY <1>8, <2>1, ChangesMore
  <2>3. more.ptrs \in Ptrs(opNum) /\ Has(more.stmts, more.ptrs, B \cup D, opNum) /\ Changes(Pointers, more.ptrs, B \cup D)
    BY <1>10, <2>1, <2>2, MadeWithin
  <2>4. QED
    BY <1>5, <2>3 DEF Made
<1>12. 2 \in 0 .. Len(stack) /\ Len(stack) - 2 < MaxStack
  BY <1>2, Room
<1>13. "block" \in {"stmt", "block"}
  OBVIOUS
<1>14. Makeover(2, it, NULL, {}) /\ Shape(it) /\ it.sort = "block" /\ it.ids = <<>>
  BY <1>1, <1>6, <1>11, <1>12, <1>13, StmtMakeover
<1>15. Numbered(NULL) /\ left' \in [Op -> 0 .. opNum'] /\ right' \in [Op -> 0 .. opNum']
  BY <1>1, NoDependences
<1>16. 2 > 0
  OBVIOUS
<1>17. Placed(2, it)
  BY <1>14, <1>16 DEF Placed
<1>18. KeepsBlocks(2, it)
  <2>1. 1 .. 2 = {1, 2}
    OBVIOUS
  <2>2. QED
    BY <1>14, <2>1 DEF KeepsBlocks
<1>19. /\ scopes' \in Seq(Scope(opNum')) /\ Len(scopes') = Len(scopes) /\ LocalsLive'
  BY <1>1, <1>2, Declared
<1>20. dropped' = dropped \cup {}
  BY <1>1
<1>21. QED
  BY <1>1, <1>12, <1>14, <1>15, <1>17, <1>18, <1>19, <1>20, LevelsRule

\* The end of a declaration, wherever it is.
LEMMA EndDeclarationInv ==
  ASSUME GraphInv, parsing, parsing' = parsing, EndDeclaration
  PROVE  GraphInv'
<1>1. Sorts(<<{"decl"}>>) /\ Declare(At(1).ids) /\ UNCHANGED <<opNum, freed>>
  BY DEF EndDeclaration
<1>2. At(1).sort = "decl"
  BY <1>1, TypeFacts, SortsOne
<1>3. CASE Len(stack) = 1 /\ stack' = <<>> /\ Drop(OpsOfList(ListAt(1)))
  BY <1>1, <1>2, <1>3, EndGlobal
<1>4. CASE /\ Len(stack) > 1 /\ At(2).sort = "for"
           /\ Replace(2, Item("for", <<ListAt(1)>>, <<>>, <<>>))
           /\ UNCHANGED <<links, deps, dropped>>
  BY <1>1, <1>2, <1>4, EndForDeclaration
<1> DEFINE new  == CreateSTMT(Pointers, ListAt(1))
           more == AddToSTMTList(new.ptrs, At(2).stmts, new.stmts)
<1>5. CASE /\ Len(stack) > 1 /\ At(2).sort = "block"
           /\ Replace(2, Block(more.stmts)) /\ Link(more.ptrs)
           /\ UNCHANGED <<deps, dropped>>
  BY <1>1, <1>2, <1>5, EndLocal
<1>6. QED
  BY <1>3, <1>4, <1>5 DEF EndDeclaration
-----------------------------------------------------------------------------
(* Blocks, functions and the end.                                          *)

\* A block is opened, and with it a level of names without operations.
LEMMA OpenLevel ==
  ASSUME GraphInv, parsing, parsing' = parsing, stack = <<>> \/ MayStartStatement, Push(Block(<<>>)),
         NEW P \in SUBSET Name, scopes' = Append(scopes, [x \in P |-> NULL]),
         UNCHANGED <<opNum, freed, links, deps, dropped>>
  PROVE  GraphInv'
<1> DEFINE it == Block(<<>>)
           f == [x \in P |-> NULL]
           n == Len(scopes)
           B == Blocks(stack)
<1>1. /\ stack' = Append(stack, it) /\ Len(stack) < MaxStack
      /\ opNum' = opNum /\ freed' = freed /\ links' = links /\ left' = left /\ right' = right
      /\ dropped' = dropped
  BY DEF Push, deps
<1>2. opNum \in Count /\ Len(stack) \in Nat /\ Pointers \in Ptrs(opNum) /\ DOMAIN stack = 1 .. Len(stack)
  BY TypeFacts
<1>3. it = Item("block", <<>>, <<>>, <<>>)
  BY DEF Block
<1> HIDE DEF it
<1>4. /\ it \in Items(opNum) /\ GoodItem(it, Pointers) /\ ItemOps(it, Pointers) = {} /\ Shape(it)
      /\ it.sort = "block" /\ it.ids = <<>>
  <2> DEFINE none == <<>>
  <2>1. none \in Seq(Stmts(opNum)) /\ GoodStmts(none, Pointers) /\ StmtOps(none, Pointers) = {}
    BY NoStmts
  <2>2. "block" \in {"stmt", "block"}
    OBVIOUS
  <2>3. it = Item("block", <<>>, none, <<>>)
    BY <1>3
  <2> HIDE DEF none
  <2>4. /\ it \in Items(opNum) /\ GoodItem(it, Pointers) /\ ItemOps(it, Pointers) = StmtOps(none, Pointers)
        /\ Shape(it) /\ it.sort = "block" /\ it.ids = <<>>
    BY <1>2, <2>1, <2>2, <2>3, StmtsMade
  <2>5. QED
    BY <2>1, <2>4
<1>5. Makeover(0, it, NULL, {}) /\ Numbered(NULL) /\ stack' = Append(Below(0), it)
  BY <1>1, <1>4, PushMakeover
<1>6. left' \in [Op -> 0 .. opNum'] /\ right' \in [Op -> 0 .. opNum']
  BY <1>1, NoDependences
<1>7. Placed(0, it)
  <2>1. DOMAIN it.ids = {}
    BY <1>4
  <2>2. CASE stack = <<>>
    BY <1>4, <2>1, <2>2 DEF Placed
  <2>3. CASE MayStartStatement
    <3>1. Len(stack) >= 1 /\ At(1).sort \in Context
      BY <1>2, <2>3, SortsOne DEF MayStartStatement
    <3>2. 0 < Len(stack) /\ At(0 + 1).sort # "expr"
      BY <1>2, <3>1, ContextSorts
    <3>3. QED
      BY <1>4, <2>1, <3>2 DEF Placed
  <2>4. QED
    BY <2>2, <2>3
<1>8. 0 \in 0 .. Len(stack) /\ Len(stack) - 0 < MaxStack
  BY <1>1, <1>2
<1>9. Fits(0, it)
  BY <1>7, <1>8, PlacedFits
<1>10. EntriesOpen'
  <2>1. opNum <= opNum /\ opNum \in Count
    BY <1>2 DEF Count
  <2>2. 0 \in 0 .. Len(stack) /\ it \in Items(opNum) /\ stack' = Append(Below(0), it)
    BY <1>4, <1>5, <1>8
  <2>3. Fits(0, it) /\ it.sort # "expr"
    BY <1>4, <1>9
  <2>4. QED
    BY <2>1, <2>2, <2>3, NoEntries
<1>11. /\ scopes \in Seq(Scope(opNum)) /\ n \in Nat /\ n = 1 + Cardinality(B)
       /\ IsFiniteSet(B) /\ Cardinality(B) \in Nat
  BY ScopeFacts, LevelsBounded
<1>12. f \in Scope(opNum) /\ DOMAIN f = P /\ \A x \in P : f[x] = NULL
  <2>1. f \in [P -> 0 .. opNum]
    BY NullLive
  <2>2. QED
    BY <2>1 DEF Scope
<1>13. scopes' = Append(scopes, f)
  OBVIOUS
<1> HIDE DEF f, B
<1>14. /\ scopes' \in Seq(Scope(opNum)) /\ Len(scopes') = n + 1
       /\ \A l \in 1 .. n : scopes'[l] = scopes[l]
       /\ scopes'[n + 1] = f
  BY <1>11, <1>12, <1>13, AppendProperties
<1>15. Blocks(stack') = B \cup {Len(stack) + 1} /\ Len(stack) + 1 \notin B
  <2>1. /\ stack' \in Seq(Items(opNum)) /\ DOMAIN stack' = 1 .. Len(stack) - 0 + 1
        /\ \A j \in 1 .. Len(stack) - 0 : stack'[j] = stack[j] /\ j \in DOMAIN stack
        /\ stack'[Len(stack) - 0 + 1] = it
    <3>1. opNum <= opNum /\ opNum \in Count
      BY <1>2 DEF Count
    <3>2. 0 \in 0 .. Len(stack) /\ it \in Items(opNum) /\ stack' = Append(Below(0), it)
      BY <1>4, <1>5, <1>8
    <3>3. QED
      BY <3>1, <3>2, NewStack
  <2>2. Len(stack) - 0 + 1 = Len(stack) + 1 /\ Len(stack) - 0 = Len(stack)
    BY <1>2
  <2>3. /\ \A j \in DOMAIN stack' : (j \in DOMAIN stack /\ stack'[j] = stack[j]) \/ j = Len(stack) + 1
        /\ \A j \in DOMAIN stack : j \in DOMAIN stack' /\ stack'[j] = stack[j] /\ j # Len(stack) + 1
        /\ Len(stack) + 1 \in DOMAIN stack' /\ stack'[Len(stack) + 1] = it
    BY <1>2, <2>1, <2>2
  <2>4. QED
    BY <1>4, <2>3 DEF Blocks, B
<1>16. Len(scopes') = 1 + Cardinality(Blocks(stack'))
  <2>1. Cardinality(B \cup {Len(stack) + 1}) = Cardinality(B) + 1
    BY <1>11, <1>15, FS_AddElement
  <2>2. QED
    BY <1>11, <1>14, <1>15, <2>1
<1>17. LocalsLive'
  <2>1. \A l \in 2 .. n : \A x \in DOMAIN scopes[l] : scopes[l][x] \notin freed
    BY DEF GraphInv, LocalsLive
  <2>2. \A l \in 2 .. n + 1 : (l \in 2 .. n /\ l \in 1 .. n) \/ l = n + 1
    BY <1>11
  <2>3. \A x \in DOMAIN f : f[x] \notin freed
    BY <1>12, NullLive
  <2>4. \A l \in 2 .. n + 1 : \A x \in DOMAIN scopes'[l] : scopes'[l][x] \notin freed
    BY <1>14, <2>1, <2>2, <2>3
  <2>5. QED
    BY <1>1, <1>14, <2>4 DEF LocalsLive
<1>18. dropped' = dropped \cup {} /\ scopes' \in Seq(Scope(opNum'))
  BY <1>1, <1>14
<1> HIDE DEF n
<1>19. QED
  BY <1>1, <1>5, <1>6, <1>8, <1>9, <1>10, <1>16, <1>17, <1>18, RewriteInv

\* A block.
LEMMA OpenBlockInv ==
  ASSUME GraphInv, parsing, parsing' = parsing, OpenBlock
  PROVE  GraphInv'
<1>1. /\ MayStartStatement /\ Push(Block(<<>>)) /\ scopes' = Append(scopes, [x \in {} |-> NULL])
      /\ UNCHANGED <<opNum, freed, links, deps, dropped>>
  BY DEF OpenBlock, NoNames
<1>2. {} \in SUBSET Name
  OBVIOUS
<1>3. QED
  BY <1>1, <1>2, OpenLevel

\* A function, with its parameters.
LEMMA StartFunctionInv ==
  ASSUME GraphInv, parsing, parsing' = parsing, StartFunction
  PROVE  GraphInv'
<1>1. /\ stack = <<>> /\ Push(Block(<<>>)) /\ UNCHANGED <<opNum, freed, links, deps, dropped>>
  BY DEF StartFunction
<1>2. PICK P \in SUBSET Name : scopes' = Append(scopes, [x \in P |-> NULL])
  BY DEF StartFunction
<1>3. QED
  BY <1>1, <1>2, OpenLevel

\* The levels without the innermost.
LEMMA Left ==
  ASSUME GraphInv, Len(scopes) >= 2, Leave
  PROVE  /\ scopes' \in Seq(Scope(opNum)) /\ Len(scopes') = Len(scopes) - 1
         /\ \A l \in 2 .. Len(scopes') : \A x \in DOMAIN scopes'[l] : scopes'[l][x] \notin freed
<1>1. scopes \in Seq(Scope(opNum)) /\ Len(scopes) \in Nat
  BY ScopeFacts
<1>2. scopes' = SubSeq(scopes, 1, Len(scopes) - 1)
  BY DEF Leave, Front
<1>3. /\ SubSeq(scopes, 1, Len(scopes) - 1) \in Seq(Scope(opNum))
      /\ Len(SubSeq(scopes, 1, Len(scopes) - 1)) = Len(scopes) - 1
      /\ \A i \in 1 .. Len(scopes) - 1 : SubSeq(scopes, 1, Len(scopes) - 1)[i] = scopes[i]
  BY <1>1
<1>4. \A l \in 2 .. Len(scopes) : \A x \in DOMAIN scopes[l] : scopes[l][x] \notin freed
  BY DEF GraphInv, LocalsLive
<1>5. \A l \in 2 .. Len(scopes) - 1 : l \in 2 .. Len(scopes) /\ l \in 1 .. Len(scopes) - 1
  BY <1>1
<1>6. \A l \in 2 .. Len(scopes) - 1 : \A x \in DOMAIN scopes'[l] : scopes'[l][x] \notin freed
  BY <1>2, <1>3, <1>4, <1>5
<1>7. QED
  BY <1>2, <1>3, <1>6

\* The end of a block, where its level goes.
LEMMA CloseBlockInv ==
  ASSUME GraphInv, parsing, parsing' = parsing, CloseBlock
  PROVE  GraphInv'
<1> DEFINE ss == At(1).stmts
           it == Stmt(ss)
           n == Len(stack)
           B == Blocks(stack)
<1>1. /\ Sorts(<<{"block"}>>) /\ n > 1 /\ stack' = Append(Below(1), it) /\ Leave
      /\ opNum' = opNum /\ freed' = freed /\ links' = links /\ left' = left /\ right' = right
      /\ dropped' = dropped
  BY DEF CloseBlock, Replace, deps
<1>2. 1 \in 1 .. n /\ At(1).sort = "block" /\ n \in Nat /\ DOMAIN stack = 1 .. n /\ opNum \in Count
  BY <1>1, TypeFacts, SortsOne
<1>3. /\ ss \in Seq(Stmts(opNum)) /\ GoodStmts(ss, Pointers)
      /\ TopOps(stack, 1, Pointers) = StmtOps(ss, Pointers)
  BY <1>2, StmtsAtFacts, TopAre
<1>4. it = Item("stmt", <<>>, ss, <<>>) /\ "stmt" \in {"stmt", "block"}
  BY DEF Stmt
<1> HIDE DEF it, ss
<1>5. /\ it \in Items(opNum) /\ GoodItem(it, Pointers) /\ ItemOps(it, Pointers) = StmtOps(ss, Pointers)
      /\ Shape(it) /\ it.sort = "stmt" /\ it.ids = <<>>
  BY <1>2, <1>3, <1>4, StmtsMade
<1>6. 1 \in 0 .. Len(stack) /\ Len(stack) - 1 < MaxStack
  BY <1>2, Room
<1>7. Makeover(1, it, NULL, {}) /\ Numbered(NULL)
  BY <1>1, <1>3, <1>5, <1>6, KeptMakeover
<1>8. left' \in [Op -> 0 .. opNum'] /\ right' \in [Op -> 0 .. opNum']
  BY <1>1, NoDependences
<1>9. Fits(1, it)
  <2>1. 1 > 0 /\ At(1).sort # "expr"
    BY <1>2
  <2>2. Placed(1, it)
    BY <1>5, <2>1 DEF Placed
  <2>3. QED
    BY <1>6, <2>2, PlacedFits
<1>10. EntriesOpen'
  <2>1. opNum <= opNum /\ opNum \in Count
    BY <1>2 DEF Count
  <2>2. 1 \in 0 .. Len(stack) /\ it \in Items(opNum) /\ stack' = Append(Below(1), it)
    BY <1>1, <1>5, <1>6
  <2>3. Fits(1, it) /\ it.sort # "expr"
    BY <1>5, <1>9
  <2>4. QED
    BY <2>1, <2>2, <2>3, NoEntries
<1>11. n \in B /\ Blocks(stack') = B \ {n}
  <2>1. /\ DOMAIN stack' = 1 .. Len(stack) - 1 + 1
        /\ \A j \in 1 .. Len(stack) - 1 : stack'[j] = stack[j] /\ j \in DOMAIN stack
        /\ stack'[Len(stack) - 1 + 1] = it
    <3>1. opNum <= opNum /\ opNum \in Count
      BY <1>2 DEF Count
    <3>2. 1 \in 0 .. Len(stack) /\ it \in Items(opNum) /\ stack' = Append(Below(1), it)
      BY <1>1, <1>5, <1>6
    <3>3. QED
      BY <3>1, <3>2, NewStack
  <2>2. n - 1 + 1 = n /\ n \in DOMAIN stack /\ At(1) = stack[n]
    BY <1>2 DEF At
  <2>3. /\ DOMAIN stack' = DOMAIN stack /\ stack'[n] = it
        /\ \A j \in DOMAIN stack : j # n => stack'[j] = stack[j]
    BY <1>2, <2>1, <2>2
  <2>4. QED
    BY <1>2, <1>5, <2>2, <2>3 DEF Blocks
<1>12. /\ Len(scopes) = 1 + Cardinality(B) /\ IsFiniteSet(B) /\ Cardinality(B) \in Nat
  BY ScopeFacts, LevelsBounded
<1> HIDE DEF B
<1>13. Cardinality(B \ {n}) = Cardinality(B) - 1 /\ Cardinality(B \ {n}) \in Nat
  <2>1. IsFiniteSet(B \ {n}) /\ Cardinality(B \ {n}) = Cardinality(B) - 1
    BY <1>11, <1>12, FS_RemoveElement
  <2>2. QED
    BY <2>1, FS_CardinalityType
<1>14. Len(scopes) >= 2
  BY <1>12, <1>13
<1>15. /\ scopes' \in Seq(Scope(opNum)) /\ Len(scopes') = Len(scopes) - 1
       /\ \A l \in 2 .. Len(scopes') : \A x \in DOMAIN scopes'[l] : scopes'[l][x] \notin freed
  BY <1>1, <1>14, Left
<1>16. Len(scopes') = 1 + Cardinality(Blocks(stack'))
  BY <1>11, <1>12, <1>13, <1>15
<1>17. LocalsLive'
  BY <1>1, <1>15 DEF LocalsLive
<1>18. dropped' = dropped \cup {} /\ scopes' \in Seq(Scope(opNum'))
  BY <1>1, <1>15
<1>19. QED
  BY <1>1, <1>6, <1>7, <1>8, <1>9, <1>10, <1>16, <1>17, <1>18, RewriteInv

\* The end of a function, where its level and its operations go.
LEMMA EndFunctionInv ==
  ASSUME GraphInv, parsing, parsing' = parsing, EndFunction
  PROVE  GraphInv'
<1> DEFINE ops == StmtOps(At(1).stmts, Pointers)
<1>1. /\ Sorts(<<{"block"}>>) /\ Len(stack) = 1 /\ stack' = <<>> /\ Leave
      /\ opNum' = opNum /\ dropped' = dropped /\ freed' = freed \cup ops /\ Forget(ops)
  BY OpsAre DEF EndFunction, ReleaseOPs
<1>2. At(1).sort = "block" /\ 1 \in 1 .. Len(stack)
  BY <1>1, TypeFacts, SortsOne
<1>3. StackOps(stack, Pointers) = ops /\ Blocks(stack) = {1}
  <2>1. StackOps(stack, Pointers) = ItemOps(At(1), Pointers) /\ Blocks(stack) = {1}
    BY <1>1, <1>2, OneElement
  <2>2. ItemOps(At(1), Pointers) = ops
    BY <1>2, StmtsAtFacts
  <2>3. QED
    BY <2>1, <2>2
<1>4. Len(scopes) = 2
  <2>1. Len(scopes) = 1 + Cardinality({1})
    BY <1>3, ScopeFacts
  <2>2. Cardinality({1}) = 1
    BY FS_Singleton
  <2>3. QED
    BY <2>1, <2>2
<1>5. scopes' \in Seq(Scope(opNum)) /\ Len(scopes') = 1
  <2>1. 2 >= 2 /\ 2 - 1 = 1
    OBVIOUS
  <2>2. QED
    BY <1>1, <1>4, <2>1, Left
<1> HIDE DEF ops
<1>6. /\ next' \in [Op -> 0 .. opNum'] /\ issue' \in [Op -> 0 .. opNum']
      /\ left' \in [Op -> 0 .. opNum'] /\ right' \in [Op -> 0 .. opNum']
  BY <1>1, Forgotten
<1>7. Fresh'
  BY <1>1, ForgottenFresh
<1>8. /\ freed \cap dropped = {} /\ ops \cap (freed \cup dropped) = {}
      /\ 1 .. opNum \subseteq ops \cup freed \cup dropped
      /\ freed \subseteq 1 .. opNum /\ dropped \subseteq 1 .. opNum /\ opNum \in 0 .. MaxOps
      /\ parsing \in BOOLEAN
  BY <1>3 DEF GraphInv, Accounted, TypeOK
<1>9. ops \subseteq 1 .. opNum
  BY <1>2, <1>3, Room, TopOpsExist
<1>10. /\ freed' \subseteq 1 .. opNum' /\ dropped' \subseteq 1 .. opNum' /\ freed' \cap dropped' = {}
       /\ 1 .. opNum' \subseteq freed' \cup dropped' /\ opNum' \in 0 .. MaxOps /\ parsing' \in BOOLEAN
  BY <1>1, <1>8, <1>9
<1>11. LocalsLive'
  <2>1. 2 .. 1 = {}
    OBVIOUS
  <2>2. QED
    BY <1>5, <2>1 DEF LocalsLive
<1>12. scopes' \in Seq(Scope(opNum'))
  BY <1>1, <1>5
<1>13. QED
  BY <1>1, <1>5, <1>6, <1>7, <1>10, <1>11, <1>12, EmptyInv

\* The parser returns.
LEMMA ReturnInv ==
  ASSUME GraphInv, Return
  PROVE  GraphInv'
<1>1. /\ parsing' = FALSE /\ stack' = <<>> /\ opNum' = opNum /\ freed' = freed /\ dropped' = dropped
      /\ next' = next /\ issue' = issue /\ left' = left /\ right' = right /\ scopes' = scopes
  BY DEF Return, links, deps
<1>2. /\ opNum \in 0 .. MaxOps /\ freed \subseteq 1 .. opNum /\ dropped \subseteq 1 .. opNum
      /\ next \in [Op -> 0 .. opNum] /\ issue \in [Op -> 0 .. opNum]
      /\ left \in [Op -> 0 .. opNum] /\ right \in [Op -> 0 .. opNum]
      /\ freed \cap dropped = {} /\ Fresh /\ LocalsLive
  BY DEF GraphInv, TypeOK, Accounted
<1>3. scopes \in Seq(Scope(opNum))
  BY ScopeFacts
<1>4. Fresh'
  BY <1>1, <1>2 DEF Fresh
<1>5. LocalsLive'
  BY <1>1, <1>2 DEF LocalsLive
<1>6. scopes' \in Seq(Scope(opNum'))
  BY <1>1, <1>3
<1>7. parsing' \in BOOLEAN /\ ~parsing'
  BY <1>1
<1>8. QED
  BY <1>1, <1>2, <1>4, <1>5, <1>6, <1>7, EmptyInv

\* Nothing changes.
LEMMA StillInv ==
  ASSUME GraphInv, UNCHANGED vars
  PROVE  GraphInv'
<1>1. /\ parsing' = parsing /\ opNum' = opNum /\ freed' = freed /\ next' = next /\ issue' = issue
      /\ left' = left /\ right' = right /\ scopes' = scopes /\ stack' = stack /\ dropped' = dropped
  BY DEF vars
<1>2. Pointers' = Pointers
  BY <1>1 DEF Pointers
<1>3. TypeOK'
  BY <1>1 DEF GraphInv, TypeOK
<1>4. Shaped' /\ Ordered'
  BY <1>1 DEF GraphInv, Shaped, Ordered
<1>5. GoodStack(stack', Pointers') /\ Accounted'
  BY <1>1, <1>2 DEF GraphInv, Accounted
<1>6. Fresh' /\ EntriesOpen' /\ IdsLive' /\ LocalsLive'
  BY <1>1 DEF GraphInv, Fresh, EntriesOpen, IsOpen, IdsLive, LocalsLive
<1>7. QED
  BY <1>1, <1>3, <1>4, <1>5, <1>6 DEF GraphInv

\* The invariant holds at the start.
LEMMA InitGraph == ASSUME Init PROVE GraphInv
<1>1. /\ parsing = TRUE /\ opNum = 0 /\ freed = {} /\ dropped = {} /\ stack = <<>>
      /\ next = [o \in Op |-> NULL] /\ issue = [o \in Op |-> NULL]
      /\ left = [o \in Op |-> NULL] /\ right = [o \in Op |-> NULL]
      /\ scopes = <<[x \in {} |-> NULL]>>
  BY DEF Init
<1>2. opNum \in 0 .. MaxOps
  BY <1>1, OpAssumption
<1>3. /\ next \in [Op -> 0 .. opNum] /\ issue \in [Op -> 0 .. opNum]
      /\ left \in [Op -> 0 .. opNum] /\ right \in [Op -> 0 .. opNum]
  BY <1>1 DEF NULL
<1>4. scopes \in Seq(Scope(opNum)) /\ Len(scopes) = 1
  <2> DEFINE f == [x \in {} |-> NULL]
  <2>1. f \in [{} -> 0 .. opNum] /\ {} \in SUBSET Name
    OBVIOUS
  <2>2. f \in Scope(opNum)
    BY <2>1 DEF Scope
  <2> HIDE DEF f
  <2>3. <<f>> \in Seq(Scope(opNum)) /\ Len(<<f>>) = 1
    BY <2>2
  <2>4. QED
    BY <1>1, <2>3 DEF f
<1>5. DOMAIN stack = {} /\ Len(stack) = 0 /\ stack \in Seq(Items(opNum))
  BY <1>1
<1>6. TypeOK
  <2>1. {k \in DOMAIN stack : stack[k].sort = "block"} = {}
    BY <1>5
  <2>2. Cardinality({k \in DOMAIN stack : stack[k].sort = "block"}) = 0
    BY <2>1, FS_EmptySet
  <2>3. Len(scopes) = 1 + Cardinality({k \in DOMAIN stack : stack[k].sort = "block"})
    BY <1>4, <2>2
  <2>4. Len(stack) <= MaxStack
    BY <1>5, OpAssumption
  <2>5. freed \subseteq 1 .. opNum /\ dropped \subseteq 1 .. opNum /\ parsing \in BOOLEAN
    BY <1>1
  <2>6. scopes \in Seq(UNION {[D -> 0 .. opNum] : D \in SUBSET Name})
    BY <1>4 DEF Scope
  <2>7. QED
    BY <1>2, <1>3, <1>5, <2>3, <2>4, <2>5, <2>6 DEF TypeOK
<1>7. Shaped /\ Ordered /\ EntriesOpen /\ IdsLive
  BY <1>5 DEF Shaped, Ordered, EntriesOpen, IdsLive
<1>8. GoodStack(stack, Pointers) /\ StackOps(stack, Pointers) = {}
  BY <1>5 DEF GoodStack, StackOps
<1>9. Accounted
  <2>1. 1 .. opNum = {}
    BY <1>1
  <2>2. QED
    BY <1>1, <1>8, <2>1 DEF Accounted
<1>10. Fresh
  BY <1>1 DEF Fresh
<1>11. LocalsLive
  <2>1. 2 .. Len(scopes) = {}
    BY <1>4
  <2>2. QED
    BY <2>1 DEF LocalsLive
<1>12. QED
  BY <1>1, <1>6, <1>7, <1>8, <1>9, <1>10, <1>11 DEF GraphInv
-----------------------------------------------------------------------------
(* Every step keeps the invariant.                                         *)

\* A reduction that creates an operation.
LEMMA CreatingInv ==
  ASSUME GraphInv, parsing, parsing' = parsing, NEW o \in Op, Creating(o)
  PROVE  GraphInv'
<1>1. CASE Binary(o)
  BY <1>1, BinaryInv
<1>2. CASE Subscript(o)
  BY <1>2, SubscriptInv
<1>3. CASE PostIncrement(o)
  BY <1>3, PostIncrementInv
<1>4. CASE PreIncrement(o)
  BY <1>4, PreIncrementInv
<1>5. CASE Dereference(o)
  BY <1>5, DereferenceInv
<1>6. CASE Assign(o)
  BY <1>6, AssignInv
<1>7. QED
  BY <1>1, <1>2, <1>3, <1>4, <1>5, <1>6 DEF Creating

\* Any reduction.
LEMMA ReductionInv ==
  ASSUME GraphInv, parsing, parsing' = parsing, Reduction
  PROVE  GraphInv'
<1>1. CASE \E o \in Op : Creating(o)
  BY <1>1, CreatingInv
<1>2. CASE \E x \in Name : Identifier(x) \/ Declarator(x) \/ Initialize(x)
  <2>1. PICK x \in Name : Identifier(x) \/ Declarator(x) \/ Initialize(x)
    BY <1>2
  <2>2. CASE Identifier(x)
    BY <2>2, IdentifierInv
  <2>3. CASE Declarator(x)
    BY <2>3, DeclaratorInv
  <2>4. CASE Initialize(x)
    BY <2>4, InitializeInv
  <2>5. QED
    BY <2>1, <2>2, <2>3, <2>4
<1>3. CASE Constant
  BY <1>3, ConstantInv
<1>4. CASE Comma
  BY <1>4, CommaInv
<1>5. CASE WorkItemFunction
  BY <1>5, WorkItemFunctionInv
<1>6. CASE Assign(NULL)
  BY <1>6, AssignInv
<1>7. CASE LeaveOut
  BY <1>7, LeaveOutInv
<1>8. CASE InitDeclarator
  BY <1>8, InitDeclaratorInv
<1>9. CASE EndDeclaration
  BY <1>9, EndDeclarationInv
<1>10. CASE ExpressionStatement
  BY <1>10, ExpressionStatementInv
<1>11. CASE NoStatement
  BY <1>11, NoStatementInv
<1>12. CASE LabeledStatement
  BY <1>12, LabeledStatementInv
<1>13. CASE ReturnStatement
  BY <1>13, ReturnStatementInv
<1>14. CASE BlockItem
  BY <1>14, BlockItemInv
<1>15. CASE Condition
  BY <1>15, ConditionInv
<1>16. CASE If
  BY <1>16, IfInv
<1>17. CASE Else
  BY <1>17, ElseInv
<1>18. CASE IfElse
  BY <1>18, IfElseInv
<1>19. CASE While
  BY <1>19, WhileInv
<1>20. CASE Switch
  BY <1>20, SwitchInv
<1>21. CASE OpenFor
  BY <1>21, OpenForInv
<1>22. CASE ForPart
  BY <1>22, ForPartInv
<1>23. CASE CloseFor
  BY <1>23, CloseForInv
<1>24. CASE For
  BY <1>24, ForInv
<1>25. CASE OpenBlock
  BY <1>25, OpenBlockInv
<1>26. CASE CloseBlock
  BY <1>26, CloseBlockInv
<1>27. CASE StartFunction
  BY <1>27, StartFunctionInv
<1>28. CASE EndFunction
  BY <1>28, EndFunctionInv
<1>29. QED
  BY <1>1, <1>2, <1>3, <1>4, <1>5, <1>6, <1>7, <1>8, <1>9, <1>10, <1>11, <1>12, <1>13, <1>14,
     <1>15, <1>16, <1>17, <1>18, <1>19, <1>20, <1>21, <1>22, <1>23, <1>24, <1>25, <1>26, <1>27,
     <1>28 DEF Reduction

\* Any step of the parser, or none.
LEMMA NextGraph ==
  ASSUME GraphInv, [Next]_vars
  PROVE  GraphInv'
<1>1. CASE parsing /\ Reduction /\ UNCHANGED parsing
  BY <1>1, ReductionInv
<1>2. CASE Return
  BY <1>2, ReturnInv
<1>3. CASE Returned
  BY <1>3, StillInv DEF Returned
<1>4. CASE UNCHANGED vars
  BY <1>4, StillInv
<1>5. QED
  BY <1>1, <1>2, <1>3, <1>4 DEF Next

\* The invariant of the operations and the parser's stack: all chains of the
\* stack are good and apart, they and what is freed or left out account for
\* every operation, and what entries and declarators refer to is there
\* (AddToOPList, AddToSTMTList and the rules that call them).
THEOREM GraphInvariance == Spec => []GraphInv
<1>1. Init => GraphInv
  BY InitGraph
<1>2. GraphInv /\ [Next]_vars => GraphInv'
  BY NextGraph
<1>3. QED
  BY <1>1, <1>2, PTL DEF Spec

-----------------------------------------------------------------------------
(* What the invariant says of places.                                      *)

\* A place is a chain or the later operations of a list, or a statement.
LEMMA PlacesAre ==
  ASSUME NEW p \in Places
  PROVE  \E k \in DOMAIN stack :
           \/ \E i \in DOMAIN stack[k].lists :
                \/ p = <<k, "chain", i>> /\ ChainAt(p) = stack[k].lists[i].chain
                \/ p = <<k, "post", i>> /\ ChainAt(p) = stack[k].lists[i].post
           \/ \E i \in DOMAIN stack[k].stmts :
                p = <<k, "stmt", i>> /\ ChainAt(p) = stack[k].stmts[i].ops
<1>1. PICK k \in DOMAIN stack :
        p \in {<<k, "chain", i>> : i \in DOMAIN stack[k].lists}
              \cup {<<k, "post", i>> : i \in DOMAIN stack[k].lists}
              \cup {<<k, "stmt", i>> : i \in DOMAIN stack[k].stmts}
  BY DEF Places
<1>2. CASE p \in {<<k, "chain", i>> : i \in DOMAIN stack[k].lists}
  <2>1. PICK i \in DOMAIN stack[k].lists : p = <<k, "chain", i>>
    BY <1>2
  <2>2. p[1] = k /\ p[2] = "chain" /\ p[3] = i
    BY <2>1
  <2>3. ChainAt(p) = stack[k].lists[i].chain
    BY <2>2 DEF ChainAt
  <2>4. QED
    BY <2>1, <2>3
<1>3. CASE p \in {<<k, "post", i>> : i \in DOMAIN stack[k].lists}
  <2>1. PICK i \in DOMAIN stack[k].lists : p = <<k, "post", i>>
    BY <1>3
  <2>2. p[1] = k /\ p[2] = "post" /\ p[3] = i
    BY <2>1
  <2>3. ChainAt(p) = stack[k].lists[i].post
    BY <2>2 DEF ChainAt
  <2>4. QED
    BY <2>1, <2>3
<1>4. CASE p \in {<<k, "stmt", i>> : i \in DOMAIN stack[k].stmts}
  <2>1. PICK i \in DOMAIN stack[k].stmts : p = <<k, "stmt", i>>
    BY <1>4
  <2>2. p[1] = k /\ p[2] = "stmt" /\ p[3] = i
    BY <2>1
  <2>3. ChainAt(p) = stack[k].stmts[i].ops
    BY <2>2 DEF ChainAt
  <2>4. QED
    BY <2>1, <2>3
<1>5. QED
  BY <1>1, <1>2, <1>3, <1>4

\* Every list and statement of the stack has its places.
LEMMA ThePlaces ==
  ASSUME NEW k \in DOMAIN stack
  PROVE  /\ \A i \in DOMAIN stack[k].lists :
              /\ <<k, "chain", i>> \in Places /\ ChainAt(<<k, "chain", i>>) = stack[k].lists[i].chain
              /\ <<k, "post", i>> \in Places /\ ChainAt(<<k, "post", i>>) = stack[k].lists[i].post
         /\ \A i \in DOMAIN stack[k].stmts :
              <<k, "stmt", i>> \in Places /\ ChainAt(<<k, "stmt", i>>) = stack[k].stmts[i].ops
<1>1. ASSUME NEW i \in DOMAIN stack[k].lists
      PROVE  <<k, "chain", i>> \in Places /\ <<k, "post", i>> \in Places
  BY DEF Places
<1>2. ASSUME NEW i \in DOMAIN stack[k].stmts PROVE <<k, "stmt", i>> \in Places
  BY DEF Places
<1>3. ASSUME NEW i
      PROVE  /\ ChainAt(<<k, "chain", i>>) = stack[k].lists[i].chain
             /\ ChainAt(<<k, "post", i>>) = stack[k].lists[i].post
             /\ ChainAt(<<k, "stmt", i>>) = stack[k].stmts[i].ops
  BY DEF ChainAt
<1>4. QED
  BY <1>1, <1>2, <1>3

\* What a place holds is a good chain, of operations of its element.
LEMMA PlaceGood ==
  ASSUME GoodStack(stack, Pointers), NEW p \in Places
  PROVE  /\ Good(ChainAt(p), Pointers)
         /\ V(ChainAt(p), Pointers) \subseteq StackOps(stack, Pointers)
<1>1. PICK k \in DOMAIN stack :
        \/ \E i \in DOMAIN stack[k].lists :
             \/ p = <<k, "chain", i>> /\ ChainAt(p) = stack[k].lists[i].chain
             \/ p = <<k, "post", i>> /\ ChainAt(p) = stack[k].lists[i].post
        \/ \E i \in DOMAIN stack[k].stmts :
             p = <<k, "stmt", i>> /\ ChainAt(p) = stack[k].stmts[i].ops
  BY PlacesAre
<1>2. GoodItem(stack[k], Pointers) /\ ItemOps(stack[k], Pointers) \subseteq StackOps(stack, Pointers)
  BY DEF GoodStack, StackOps
<1>3. ASSUME NEW i \in DOMAIN stack[k].lists
      PROVE  /\ Good(stack[k].lists[i].chain, Pointers) /\ Good(stack[k].lists[i].post, Pointers)
             /\ V(stack[k].lists[i].chain, Pointers) \subseteq ItemOps(stack[k], Pointers)
             /\ V(stack[k].lists[i].post, Pointers) \subseteq ItemOps(stack[k], Pointers)
  <2>1. GoodList(stack[k].lists[i], Pointers)
    BY <1>2 DEF GoodItem, GoodLists
  <2>2. ListOps(stack[k].lists[i], Pointers) \subseteq ItemOps(stack[k], Pointers)
    BY DEF ItemOps, ListsOps
  <2>3. QED
    BY <2>1, <2>2 DEF GoodList, ListOps
<1>4. ASSUME NEW i \in DOMAIN stack[k].stmts
      PROVE  /\ Good(stack[k].stmts[i].ops, Pointers)
             /\ V(stack[k].stmts[i].ops, Pointers) \subseteq ItemOps(stack[k], Pointers)
  <2>1. Good(stack[k].stmts[i].ops, Pointers)
    BY <1>2 DEF GoodItem, GoodStmts
  <2>2. V(stack[k].stmts[i].ops, Pointers) \subseteq ItemOps(stack[k], Pointers)
    BY DEF ItemOps, StmtOps
  <2>3. QED
    BY <2>1, <2>2
<1>5. CASE \E i \in DOMAIN stack[k].lists :
             \/ p = <<k, "chain", i>> /\ ChainAt(p) = stack[k].lists[i].chain
             \/ p = <<k, "post", i>> /\ ChainAt(p) = stack[k].lists[i].post
  BY <1>2, <1>3, <1>5
<1>6. CASE \E i \in DOMAIN stack[k].stmts :
             p = <<k, "stmt", i>> /\ ChainAt(p) = stack[k].stmts[i].ops
  BY <1>2, <1>4, <1>6
<1>7. QED
  BY <1>1, <1>5, <1>6

\* Where an operation of the stack is: the element, and in it a list or a
\* statement.
Holds(p, k, o) ==
  /\ k \in DOMAIN stack
  /\ o \in ItemOps(stack[k], Pointers)
  /\ \/ \E i \in DOMAIN stack[k].lists :
          /\ o \in ListOps(stack[k].lists[i], Pointers) /\ o \in ListsOps(stack[k].lists, Pointers)
          /\ \/ p = <<k, "chain", i>> /\ o \in V(stack[k].lists[i].chain, Pointers)
             \/ p = <<k, "post", i>> /\ o \in V(stack[k].lists[i].post, Pointers)
     \/ \E i \in DOMAIN stack[k].stmts :
          /\ o \in StmtOps(stack[k].stmts, Pointers)
          /\ p = <<k, "stmt", i>> /\ o \in V(stack[k].stmts[i].ops, Pointers)

\* Whatever a place holds is there.
LEMMA HoldsWhere ==
  ASSUME NEW p \in Places, NEW o \in V(ChainAt(p), Pointers)
  PROVE  \E k : Holds(p, k, o)
<1>1. PICK k \in DOMAIN stack :
        \/ \E i \in DOMAIN stack[k].lists :
             \/ p = <<k, "chain", i>> /\ ChainAt(p) = stack[k].lists[i].chain
             \/ p = <<k, "post", i>> /\ ChainAt(p) = stack[k].lists[i].post
        \/ \E i \in DOMAIN stack[k].stmts :
             p = <<k, "stmt", i>> /\ ChainAt(p) = stack[k].stmts[i].ops
  BY PlacesAre
<1>2. CASE \E i \in DOMAIN stack[k].lists :
             \/ p = <<k, "chain", i>> /\ ChainAt(p) = stack[k].lists[i].chain
             \/ p = <<k, "post", i>> /\ ChainAt(p) = stack[k].lists[i].post
  <2>1. PICK i \in DOMAIN stack[k].lists :
             \/ p = <<k, "chain", i>> /\ ChainAt(p) = stack[k].lists[i].chain
             \/ p = <<k, "post", i>> /\ ChainAt(p) = stack[k].lists[i].post
    BY <1>2
  <2>2. o \in ListOps(stack[k].lists[i], Pointers)
    BY <2>1 DEF ListOps
  <2>3. o \in ListsOps(stack[k].lists, Pointers)
    BY <2>2 DEF ListsOps
  <2>4. o \in ItemOps(stack[k], Pointers)
    BY <2>3 DEF ItemOps
  <2>5. QED
    BY <2>1, <2>2, <2>3, <2>4 DEF Holds
<1>3. CASE \E i \in DOMAIN stack[k].stmts :
             p = <<k, "stmt", i>> /\ ChainAt(p) = stack[k].stmts[i].ops
  <2>1. PICK i \in DOMAIN stack[k].stmts :
             p = <<k, "stmt", i>> /\ ChainAt(p) = stack[k].stmts[i].ops
    BY <1>3
  <2>2. o \in StmtOps(stack[k].stmts, Pointers)
    BY <2>1 DEF StmtOps
  <2>3. o \in ItemOps(stack[k], Pointers)
    BY <2>2 DEF ItemOps
  <2>4. QED
    BY <2>1, <2>2, <2>3 DEF Holds
<1>4. QED
  BY <1>1, <1>2, <1>3

\* No operation is in two places.
LEMMA OnePlace ==
  ASSUME GoodStack(stack, Pointers), NEW p \in Places, NEW q \in Places,
         NEW o, o \in V(ChainAt(p), Pointers), o \in V(ChainAt(q), Pointers)
  PROVE  p = q
<1>1. PICK k : Holds(p, k, o)
  BY HoldsWhere
<1>2. PICK m : Holds(q, m, o)
  BY HoldsWhere
<1>3. m = k
  <2>1. /\ k \in DOMAIN stack /\ m \in DOMAIN stack
        /\ o \in ItemOps(stack[k], Pointers) \cap ItemOps(stack[m], Pointers)
    BY <1>1, <1>2 DEF Holds
  <2>2. QED
    BY <2>1 DEF GoodStack
<1> DEFINE it == stack[k]
<1>4. GoodItem(it, Pointers)
  BY <1>1 DEF GoodStack, Holds
<1>5. CASE o \in ListsOps(it.lists, Pointers)
  <2>1. o \notin StmtOps(it.stmts, Pointers)
    BY <1>4, <1>5 DEF GoodItem
  <2>2. PICK i \in DOMAIN it.lists :
          /\ o \in ListOps(it.lists[i], Pointers)
          /\ \/ p = <<k, "chain", i>> /\ o \in V(it.lists[i].chain, Pointers)
             \/ p = <<k, "post", i>> /\ o \in V(it.lists[i].post, Pointers)
    BY <1>1, <2>1 DEF Holds
  <2>3. PICK j \in DOMAIN it.lists :
          /\ o \in ListOps(it.lists[j], Pointers)
          /\ \/ q = <<k, "chain", j>> /\ o \in V(it.lists[j].chain, Pointers)
             \/ q = <<k, "post", j>> /\ o \in V(it.lists[j].post, Pointers)
    BY <1>2, <1>3, <2>1 DEF Holds
  <2>4. i = j
    BY <1>4, <2>2, <2>3 DEF GoodItem, GoodLists
  <2>5. V(it.lists[i].chain, Pointers) \cap V(it.lists[i].post, Pointers) = {}
    BY <1>4 DEF GoodItem, GoodLists, GoodList
  <2>6. QED
    BY <2>2, <2>3, <2>4, <2>5
<1>6. CASE o \notin ListsOps(it.lists, Pointers)
  <2>1. PICK i \in DOMAIN it.stmts : p = <<k, "stmt", i>> /\ o \in V(it.stmts[i].ops, Pointers)
    BY <1>1, <1>6 DEF Holds
  <2>2. PICK j \in DOMAIN it.stmts : q = <<k, "stmt", j>> /\ o \in V(it.stmts[j].ops, Pointers)
    BY <1>2, <1>3, <1>6 DEF Holds
  <2>3. i = j
    BY <1>4, <2>1, <2>2 DEF GoodItem, GoodStmts
  <2>4. QED
    BY <2>1, <2>2, <2>3
<1>7. QED
  BY <1>5, <1>6

\* An operation of the stack is in some place.
LEMMA SomePlace ==
  ASSUME NEW o \in StackOps(stack, Pointers)
  PROVE  \E p \in Places : o \in V(ChainAt(p), Pointers)
<1>1. PICK k \in DOMAIN stack : o \in ItemOps(stack[k], Pointers)
  BY DEF StackOps
<1>2. CASE o \in ListsOps(stack[k].lists, Pointers)
  <2>1. PICK i \in DOMAIN stack[k].lists : o \in ListOps(stack[k].lists[i], Pointers)
    BY <1>2 DEF ListsOps
  <2>2. \/ o \in V(stack[k].lists[i].chain, Pointers)
        \/ o \in V(stack[k].lists[i].post, Pointers)
    BY <2>1 DEF ListOps
  <2>3. /\ <<k, "chain", i>> \in Places /\ ChainAt(<<k, "chain", i>>) = stack[k].lists[i].chain
        /\ <<k, "post", i>> \in Places /\ ChainAt(<<k, "post", i>>) = stack[k].lists[i].post
    BY ThePlaces
  <2>4. QED
    BY <2>2, <2>3
<1>3. CASE o \in StmtOps(stack[k].stmts, Pointers)
  <2>1. PICK i \in DOMAIN stack[k].stmts : o \in V(stack[k].stmts[i].ops, Pointers)
    BY <1>3 DEF StmtOps
  <2>2. <<k, "stmt", i>> \in Places /\ ChainAt(<<k, "stmt", i>>) = stack[k].stmts[i].ops
    BY ThePlaces
  <2>3. QED
    BY <2>1, <2>2
<1>4. QED
  BY <1>1, <1>2, <1>3 DEF ItemOps

\* Its lists are chains, in every state with the invariant.
LEMMA ChainsFollow == ASSUME GraphInv PROVE ListsAreChains
<1>1. ASSUME NEW p \in Places, ChainAt(p) # Nil
      PROVE  /\ ChainAt(p).tail \in OpsOf(ChainAt(p)) /\ next[ChainAt(p).tail] = NULL
             /\ issue[ChainAt(p).head] = NULL
             /\ \A o \in OpsOf(ChainAt(p)) : next[o] # NULL => issue[next[o]] = o
  <2>1. GoodStack(stack, Pointers)
    BY DEF GraphInv
  <2>2. Good(ChainAt(p), Pointers)
    BY <2>1, PlaceGood
  <2>3. OpsOf(ChainAt(p)) = V(ChainAt(p), Pointers)
    BY OpsAre
  <2>4. Pointers.next = next /\ Pointers.issue = issue
    BY DEF Pointers
  <2>5. QED
    BY <1>1, <2>2, <2>3, <2>4 DEF Good
<1>2. QED
  BY <1>1 DEF ListsAreChains

\* Its operations are held once.
LEMMA HeldFollow == ASSUME GraphInv PROVE HeldOnce
<1> DEFINE holds == [p \in Places |-> OpsOf(ChainAt(p))]
           holders(o) == {p \in DOMAIN holds : o \in holds[p]}
<1>1. /\ GoodStack(stack, Pointers) /\ freed \cap dropped = {}
      /\ StackOps(stack, Pointers) \cap (freed \cup dropped) = {}
      /\ parsing => 1 .. opNum \subseteq StackOps(stack, Pointers) \cup freed \cup dropped
  BY DEF GraphInv, Accounted
<1>2. /\ DOMAIN holds = Places
      /\ \A o : \A p \in Places : p \in holders(o) <=> o \in V(ChainAt(p), Pointers)
  BY OpsAre
<1>3. \A o : holders(o) \subseteq Places
  OBVIOUS
<1> HIDE DEF holds
<1>4. ASSUME NEW o \in 1 .. opNum
      PROVE  IF o \in freed \cup dropped THEN holders(o) = {}
             ELSE parsing => \E p \in DOMAIN holds : holders(o) = {p}
  <2>1. CASE o \in freed \cup dropped
    <3>1. \A p \in Places : o \notin V(ChainAt(p), Pointers)
      BY <1>1, <2>1, PlaceGood
    <3>2. QED
      BY <1>2, <1>3, <2>1, <3>1
  <2>2. CASE o \notin freed \cup dropped /\ parsing
    <3>1. o \in StackOps(stack, Pointers)
      BY <1>1, <2>2
    <3>2. PICK p \in Places : o \in V(ChainAt(p), Pointers)
      BY <3>1, SomePlace
    <3>3. \A q \in Places : o \in V(ChainAt(q), Pointers) => q = p
      BY <1>1, <3>2, OnePlace
    <3>4. p \in holders(o) /\ \A q \in holders(o) : q = p
      BY <1>2, <1>3, <3>2, <3>3
    <3>5. holders(o) = {p}
      BY <3>4
    <3>6. QED
      BY <1>2, <2>2, <3>5
  <2>3. QED
    BY <2>1, <2>2
<1>5. QED
  BY <1>1, <1>4 DEF HeldOnce, holds

\* The variables have their types: pointers lead to operations that exist, and
\* a level is open for every block on the stack, and the global one.
THEOREM GraphTypes == Spec => []TypeOK
<1>1. GraphInv => TypeOK
  BY DEF GraphInv
<1>2. QED
  BY <1>1, GraphInvariance, PTL

\* However lists are joined, every list is linked from its head to its tail,
\* and each operation but the first depends on the one before it for issue
\* (AddToOPList, AddToSTMTList, CreateSTMT).
THEOREM GraphListsAreChains == Spec => []ListsAreChains
<1>1. GraphInv => ListsAreChains
  BY ChainsFollow
<1>2. QED
  BY <1>1, GraphInvariance, PTL

\* Every operation is in exactly one list until it is freed, once, or a rule
\* leaves it out (AddToOPList, AddToSTMTList, ReleaseOP).
THEOREM GraphHeldOnce == Spec => []HeldOnce
<1>1. GraphInv => HeldOnce
  BY HeldFollow
<1>2. QED
  BY <1>1, GraphInvariance, PTL

\* No entry of a function's own levels points to an operation that has been
\* freed: both go at the end of the function only (function_definition).
THEOREM GraphLocalsLive == Spec => []LocalsLive
<1>1. GraphInv => LocalsLive
  BY DEF GraphInv
<1>2. QED
  BY <1>1, GraphInvariance, PTL

=============================================================================

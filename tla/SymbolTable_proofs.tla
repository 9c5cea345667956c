------------------------- MODULE SymbolTable_proofs -------------------------
(***************************************************************************)
(* Theorems about module SymbolTable, for all names, heaps, nesting bounds *)
(* and lists of declarations.  SymInv is the inductive invariant: the      *)
(* lists stay sorted only because a scan is always in place, and no entry  *)
(* outlives its level only because the list that is freed is sorted and    *)
(* so has every entry of the level in it.                                  *)
(*                                                                         *)
(* The second half proves that the lists implement a stack of scopes.  It  *)
(* needs RefInv besides: a look-up has passed no entry of its name.  Each  *)
(* call and each step is then shown to be a step of module Scopes on the   *)
(* mapped stack, or to leave it alone.                                     *)
(***************************************************************************)
EXTENDS SymbolTable, NaturalsInduction, SequenceTheorems, WellFoundedInduction,
        TLAPS

\* A non-empty set of natural numbers has a least element.
LEMMA LeastNatural ==
  ASSUME NEW S \in SUBSET Nat, S # {}
  PROVE  \E m \in S : \A n \in S : m <= n
<1> DEFINE R == {p \in Nat \X Nat : p[1] < p[2]}
<1>1. IsWellFoundedOn(R, Nat)
  BY NatLessThanWellFounded DEF OpToRel
<1>2. \A m, n \in Nat : <<n, m>> \in R <=> n < m
  OBVIOUS
<1> HIDE DEF R
<1>3. PICK m \in S : \A n \in S : <<n, m>> \notin R
  BY <1>1, WFMin
<1>4. ASSUME NEW n \in S PROVE m <= n
  <2>1. m \in Nat /\ n \in Nat
    OBVIOUS
  <2>2. ~(n < m)
    BY <1>2, <1>3, <2>1
  <2>3. QED
    BY <2>1, <2>2
<1>5. QED
  BY <1>4


SymInv == TypeOK /\ ListsSorted /\ ScanInPlace /\ NoEntryLost

\* Names are integers, so that the order of two entries is defined.
LEMMA EntriesNamed ==
  ASSUME TypeOK, NEW l \in Level, NEW n \in Entries(l)
  PROVE  n \in Node /\ n # NULL /\ owner[n] = l /\ sym[n] \in Int
BY SymbolAssumption DEF TypeOK, Entries

\* A level whose head, entries and their fields stay as they are stays sorted.
LEMMA LevelKept ==
  ASSUME NEW l, SortedList(l), Entries(l)' = Entries(l), head'[l] = head[l],
         \A n \in Entries(l) : next'[n] = next[n] /\ sym'[n] = sym[n]
  PROVE  SortedList(l)'
<1>1. StartsAtFirst(l)'
  BY DEF SortedList, StartsAtFirst
<1>2. ASSUME NEW n \in Entries(l)' PROVE FollowedByNext(l, n)'
  <2>1. FollowedByNext(l, n)
    BY <1>2 DEF SortedList
  <2>2. QED
    BY <1>2, <2>1 DEF FollowedByNext
<1>3. (\A m, n \in Entries(l) : sym[m] = sym[n] => m = n)'
  BY DEF SortedList
<1>4. QED
  BY <1>1, <1>2, <1>3 DEF SortedList

\* The walk that frees a level (lines 254-263) visits all its entries and no
\* other: an entry behind the last one visited would have to follow it.
LEMMA ChainIsList ==
  ASSUME TypeOK, NEW l \in Level, SortedList(l)
  PROVE  Chain(l) = Entries(l)
<1>1. Chain(l) \subseteq Entries(l)
  <2>1. Entries(l) \in SUBSET Node
    BY DEF Entries
  <2>2. head[l] \in Entries(l) \cup {NULL}
    BY DEF SortedList, StartsAtFirst
  <2>3. \A m \in Entries(l) : next[m] \in Entries(l) \cup {NULL}
    BY DEF SortedList, FollowedByNext
  <2>4. QED
    BY <2>1, <2>2, <2>3 DEF Chain
<1>2. ASSUME NEW n \in Entries(l), NEW S \in SUBSET Node,
             head[l] \in S \cup {NULL},
             \A m \in S : next[m] \in S \cup {NULL}
      PROVE  n \in S
  <2> DEFINE Before == {m \in S \cap Entries(l) : sym[m] < sym[n]}
             Gap == {sym[n] - sym[m] : m \in Before}
  <2>0. \A m \in Entries(l) : m # NULL /\ sym[m] \in Int
    BY EntriesNamed
  <2>1. SUFFICES ASSUME n \notin S PROVE FALSE
    OBVIOUS
  <2>2. head[l] \in Before
    <3>1. head[l] \in Entries(l) /\ sym[head[l]] <= sym[n]
      BY <1>2 DEF SortedList, StartsAtFirst
    <3>2. head[l] \in S /\ head[l] # n
      BY <1>2, <2>0, <2>1, <3>1
    <3>3. sym[head[l]] # sym[n]
      BY <1>2, <3>1, <3>2 DEF SortedList
    <3>4. QED
      BY <2>0, <3>1, <3>2, <3>3, <1>2
  <2>3. Gap \in SUBSET Nat /\ Gap # {}
    BY <1>2, <2>0, <2>2
  <2>4. PICK g \in Gap : \A h \in Gap : g <= h
    <3> HIDE DEF Gap
    <3>1. QED
      BY <2>3, LeastNatural
  <2>5. PICK p \in Before : g = sym[n] - sym[p]
    BY <2>4
  <2>6. \A m \in Before : sym[m] <= sym[p]
    <3>1. \A m \in Before : sym[n] - sym[p] <= sym[n] - sym[m]
      BY <2>4, <2>5
    <3>2. QED
      BY <1>2, <2>0, <2>5, <3>1
  <2>7. FollowedByNext(l, p)
    BY <2>5 DEF SortedList
  <2>8. next[p] # NULL
    BY <1>2, <2>0, <2>5, <2>7 DEF FollowedByNext
  <2>9. /\ next[p] \in S \cap Entries(l)
        /\ sym[p] < sym[next[p]]
        /\ sym[next[p]] <= sym[n]
    BY <1>2, <2>0, <2>5, <2>7, <2>8 DEF FollowedByNext
  <2>10. sym[next[p]] # sym[n]
    BY <1>2, <2>1, <2>9 DEF SortedList
  <2>11. next[p] \in Before
    BY <1>2, <2>0, <2>9, <2>10
  <2>12. QED
    BY <2>0, <2>5, <2>6, <2>9, <2>11
<1>3. Entries(l) \subseteq Chain(l)
  BY <1>2 DEF Chain, Entries
<1>4. QED
  BY <1>1, <1>3

-----------------------------------------------------------------------------
(* One lemma per action, or per group of actions with the same effect on   *)
(* the lists.                                                              *)

\* The empty table satisfies the invariant.
LEMMA InvInit == Init => SymInv
<1> SUFFICES ASSUME Init PROVE SymInv
  OBVIOUS
<1> USE SymbolAssumption DEF Init
<1>1. TypeOK
  <2>1. rest \in Seq(Name)
    OBVIOUS
  <2>2. QED
    BY <2>1 DEF TypeOK, Level, Pointer, Sort, Info, NoInfo, None, Free, Pending, Leaked
<1>2. \A l \in Level : Entries(l) = {}
  BY DEF Entries, Free, Level
<1>3. ListsSorted
  BY <1>2 DEF ListsSorted, SortedList, StartsAtFirst, Level
<1>4. ScanInPlace /\ NoEntryLost
  BY DEF ScanInPlace, NoEntryLost, Free, Pending
<1>5. QED
  BY <1>1, <1>3, <1>4 DEF SymInv

\* An open table has a level, and between calls nothing is on its way.
LEMMA Quiet ==
  ASSUME SymInv, table = "open"
  PROVE  /\ depth \in Level
         /\ ~Adding => tmp = NULL /\ prev = NULL
         /\ tmp = NULL => \A n \in Node : owner[n] # Pending
BY SymbolAssumption DEF SymInv, TypeOK, Level, ScanInPlace, NoEntryLost

\* A new level is empty, so its list is sorted.
LEMMA CreateLevelKeepsInv ==
  ASSUME SymInv, CreateLevel
  PROVE  SymInv'
<1> USE SymbolAssumption
<1>0. /\ TypeOK /\ ListsSorted /\ ScanInPlace /\ NoEntryLost
      /\ table = "open" /\ call = "idle" /\ depth \in 1 .. MaxDepth - 1
      /\ depth' = depth + 1
      /\ head' = [head EXCEPT ![depth + 1] = NULL]
      /\ tail' = [tail EXCEPT ![depth + 1] = NULL]
      /\ UNCHANGED <<table, owner, sym, info, next, call, rest, want, level, prev, iter, tmp>>
  BY DEF SymInv, CreateLevel, locals
<1>1. TypeOK'
  BY <1>0 DEF TypeOK, Level, Pointer
<1>3. ASSUME NEW l, l = depth + 1 PROVE SortedList(l)'
  <2>1. Entries(l)' = {}
    BY <1>0, <1>3 DEF Entries, NoEntryLost, Free, Pending, Leaked
  <2>2. head'[l] = NULL
    BY <1>0, <1>3 DEF TypeOK, Level
  <2>3. QED
    BY <2>1, <2>2 DEF SortedList, StartsAtFirst
<1>4. ASSUME NEW l \in 1 .. depth PROVE SortedList(l)'
  <2>1. SortedList(l)
    BY <1>0 DEF ListsSorted
  <2>2. /\ Entries(l)' = Entries(l) /\ head'[l] = head[l]
        /\ \A n \in Entries(l) : next'[n] = next[n] /\ sym'[n] = sym[n]
    BY <1>0 DEF Entries, TypeOK, Level
  <2>3. QED
    BY <2>1, <2>2, LevelKept
<1>5. ListsSorted'
  <2>1. ASSUME NEW l \in 1 .. depth' PROVE SortedList(l)'
    <3>1. l = depth + 1 \/ l \in 1 .. depth
      BY <1>0
    <3>2. QED
      BY <1>3, <1>4, <3>1
  <2>2. QED
    BY <2>1 DEF ListsSorted
<1>6. ScanInPlace'
  BY <1>0 DEF ScanInPlace, Adding
<1>7. NoEntryLost'
  BY <1>0 DEF NoEntryLost
<1>8. QED
  BY <1>1, <1>5, <1>6, <1>7 DEF SymInv

\* Releasing a level frees the entries of its list and of no other.
LEMMA PopLevelKeepsInv ==
  ASSUME SymInv, PopLevel,
         \/ depth > 1 /\ UNCHANGED table
         \/ table' = IF depth = 1 THEN "freed" ELSE "stuck"
  PROVE  SymInv'
<1> USE SymbolAssumption
<1>0. /\ TypeOK /\ ListsSorted /\ ScanInPlace /\ NoEntryLost
      /\ table = "open" /\ call = "idle"
      /\ depth' = depth - 1
      /\ UNCHANGED <<call, rest, want, level, prev, iter, tmp>>
  BY DEF SymInv, PopLevel, locals
<1>1. depth \in Level /\ tmp = NULL /\ prev = NULL /\ \A n \in Node : owner[n] # Pending
  BY <1>0, Quiet DEF Adding
<1>2. Chain(depth) = Entries(depth)
  BY <1>0, <1>1, ChainIsList DEF ListsSorted, Level
<1>3. /\ head' = [head EXCEPT ![depth] = NULL]
      /\ tail' = [tail EXCEPT ![depth] = NULL]
      /\ owner' = [n \in Node |-> IF owner[n] = depth THEN Free ELSE owner[n]]
      /\ sym' = [n \in Node |-> IF owner[n] = depth THEN NULL ELSE sym[n]]
      /\ info' = [n \in Node |-> IF owner[n] = depth THEN NoInfo ELSE info[n]]
      /\ next' = [n \in Node |-> IF owner[n] = depth THEN NULL ELSE next[n]]
  <2>1. \A n \in Node : n \in Chain(depth) <=> owner[n] = depth
    BY <1>2 DEF Entries
  <2>2. QED
    BY <2>1 DEF PopLevel
<1>4. TypeOK'
  <2>1. /\ table' \in {"open", "freed", "stuck"}
        /\ depth' \in 0 .. MaxDepth
        /\ table' = "open" => depth' > 0
    BY <1>0, <1>1 DEF Level
  <2>2. head' \in [Level -> Pointer] /\ tail' \in [Level -> Pointer]
    BY <1>0, <1>3 DEF TypeOK, Pointer
  <2>3. /\ owner' \in [Node -> Level \cup {Free, Pending, Leaked}]
        /\ sym' \in [Node -> Name \cup {NULL}]
        /\ info' \in [Node -> Info \cup {NoInfo}]
        /\ next' \in [Node -> Pointer]
    BY <1>0, <1>3 DEF TypeOK, Pointer
  <2>4. \A n \in Node : owner'[n] \in Level \cup {Pending} => sym'[n] \in Name
    BY <1>0, <1>1, <1>3 DEF TypeOK, Level, Free, Pending
  <2>5. QED
    BY <1>0, <2>1, <2>2, <2>3, <2>4 DEF TypeOK
<1>5. ListsSorted'
  <2>1. SUFFICES ASSUME NEW l \in 1 .. depth - 1 PROVE SortedList(l)'
    BY <1>0 DEF ListsSorted
  <2>2. l # depth /\ l \in Level /\ l # Free /\ SortedList(l)
    BY <1>0, <1>1 DEF ListsSorted, Level, Free
  <2>3. Entries(l)' = Entries(l)
    BY <1>3, <2>2 DEF Entries
  <2>4. head'[l] = head[l]
    BY <1>0, <1>3, <2>2 DEF TypeOK
  <2>5. \A n \in Entries(l) : next'[n] = next[n] /\ sym'[n] = sym[n]
    BY <1>3, <2>2 DEF Entries
  <2>6. QED
    BY <2>2, <2>3, <2>4, <2>5, LevelKept
<1>6. ScanInPlace'
  BY <1>0, <1>1 DEF ScanInPlace
<1>7. NoEntryLost'
  <2>1. \A n \in Node : owner'[n] \in 1 .. depth - 1 \cup {Free, Leaked}
    BY <1>0, <1>1, <1>3 DEF NoEntryLost, Level
  <2>2. \A n \in Node : owner'[n] # Pending
    BY <1>1, <2>1 DEF Level, Free, Pending, Leaked
  <2>3. table' = "freed" => depth = 1
    BY <1>0
  <2>4. QED
    BY <1>0, <1>1, <2>1, <2>2, <2>3 DEF NoEntryLost, Level
<1>8. QED
  BY <1>4, <1>5, <1>6, <1>7 DEF SymInv

\* AddNames starts with its first name, NextName goes on with another one.
LEMMA BeginKeepsInv ==
  ASSUME SymInv, NEW names \in Seq(Name) \ {<<>>}, NEW w \in Info,
         table = "open", tmp = NULL, Begin(names),
         info' = [info EXCEPT ![tmp'] = w],
         call' \in {"AddParam", "AddIDList"}, want' = w, level' = level,
         UNCHANGED <<table, depth, head, tail>>
  PROVE  SymInv'
<1> USE SymbolAssumption
<1>0. TypeOK /\ ListsSorted /\ ScanInPlace /\ NoEntryLost
  BY DEF SymInv
<1>1. PICK c \in Node :
        /\ owner[c] = Free
        /\ owner' = [owner EXCEPT ![c] = Pending]
        /\ sym'   = [sym EXCEPT ![c] = Head(names)]
        /\ next'  = [next EXCEPT ![c] = NULL]
        /\ tmp' = c /\ prev' = NULL /\ iter' = head[depth] /\ rest' = Tail(names)
  BY DEF Begin
<1>2. depth \in Level /\ \A n \in Node : owner[n] # Pending
  BY Quiet
<1>3. Head(names) \in Name /\ Tail(names) \in Seq(Name)
  OBVIOUS
<1>4. TypeOK'
  <2>1. /\ owner' \in [Node -> Level \cup {Free, Pending, Leaked}]
        /\ sym' \in [Node -> Name \cup {NULL}]
        /\ info' \in [Node -> Info \cup {NoInfo}]
        /\ next' \in [Node -> Pointer]
    BY <1>0, <1>1, <1>3 DEF TypeOK, Pointer
  <2>2. \A n \in Node : owner'[n] \in Level \cup {Pending} => sym'[n] \in Name
    BY <1>0, <1>1, <1>3 DEF TypeOK
  <2>3. /\ rest' \in Seq(Name)
        /\ want' \in [sort : Sort, type : Type \cup {None}]
        /\ prev' \in Pointer /\ iter' \in Pointer /\ tmp' \in Pointer
    BY <1>0, <1>1, <1>2, <1>3 DEF TypeOK, Info, Pointer
  <2>4. QED
    BY <1>0, <2>1, <2>2, <2>3 DEF TypeOK
<1>5. ListsSorted'
  <2>1. SUFFICES ASSUME NEW l \in 1 .. depth PROVE SortedList(l)'
    BY DEF ListsSorted
  <2>2. SortedList(l) /\ l # Free /\ l # Pending
    BY <1>0, <1>2 DEF ListsSorted, Free, Pending, Level
  <2>3. c \notin Entries(l) /\ Entries(l)' = Entries(l)
    BY <1>0, <1>1, <2>2 DEF Entries, TypeOK
  <2>4. \A n \in Entries(l) : next'[n] = next[n] /\ sym'[n] = sym[n]
    BY <1>0, <1>1, <2>3 DEF Entries, TypeOK
  <2>5. QED
    BY <2>2, <2>3, <2>4, LevelKept
<1>6. ScanInPlace'
  BY <1>0, <1>1 DEF ScanInPlace, Adding, TypeOK
<1>7. NoEntryLost'
  BY <1>0, <1>1, <1>2 DEF NoEntryLost, TypeOK
<1>8. QED
  BY <1>4, <1>5, <1>6, <1>7 DEF SymInv

\* The new entry t is linked into level l between p (NULL: at the head) and q
\* (NULL: at the end), where its name belongs.
LinkBetween(l, t, p, q) ==
  /\ owner[t] = Pending
  /\ IF p = NULL THEN q = head[l]
     ELSE p \in Entries(l) /\ q = next[p] /\ sym[p] < sym[t]
  /\ q # NULL => sym[t] < sym[q]
  /\ owner' = [owner EXCEPT ![t] = l]
  /\ head' = [head EXCEPT ![l] = IF p = NULL THEN t ELSE @]
  /\ \A n \in Node : next'[n] = IF n = t THEN q ELSE IF n = p THEN t ELSE next[n]
  /\ sym' = sym

\* Linking an entry in front of the first larger name keeps a list sorted.
LEMMA LinkedBetween ==
  ASSUME SymInv, NEW l \in 1 .. depth, NEW t \in Node, NEW p \in Pointer, NEW q \in Pointer,
         LinkBetween(l, t, p, q)
  PROVE  \A k \in 1 .. depth : SortedList(k)'
<1> USE SymbolAssumption DEF LinkBetween
<1>0. TypeOK /\ ListsSorted /\ l \in Level /\ l # Pending
  BY DEF SymInv, TypeOK, Level, Pending
<1>1. SortedList(l)
  BY <1>0 DEF ListsSorted
<1>2. /\ t \notin Entries(l) /\ Entries(l)' = Entries(l) \cup {t}
      /\ sym[t] \in Int
  <2>1. t \notin Entries(l)
    BY <1>0 DEF Entries
  <2>2. \A n \in Node : owner'[n] = IF n = t THEN l ELSE owner[n]
    BY <1>0 DEF TypeOK
  <2>3. Entries(l)' = Entries(l) \cup {t}
    BY <2>2 DEF Entries
  <2>4. sym[t] \in Int
    BY DEF SymInv, TypeOK
  <2>5. QED
    BY <2>1, <2>3, <2>4
<1>3. \A n \in Entries(l) : n \in Node /\ n # NULL /\ sym[n] \in Int
  BY <1>0, EntriesNamed
<1>4. q # NULL => q \in Entries(l)
  BY <1>1 DEF SortedList, StartsAtFirst, FollowedByNext
\* t goes where it belongs: nothing in the list lies between p, t and q.
<1>5. \A m \in Entries(l) :
        \/ sym[m] < sym[t] /\ p # NULL /\ sym[m] <= sym[p]
        \/ sym[t] < sym[m] /\ q # NULL /\ sym[q] <= sym[m]
  <2>1. CASE p = NULL
    <3>1. Entries(l) = {} \/ (q \in Entries(l) /\ \A m \in Entries(l) : sym[q] <= sym[m])
      BY <1>1, <2>1 DEF SortedList, StartsAtFirst
    <3>2. QED
      BY <1>2, <1>3, <3>1
  <2>2. CASE p # NULL
    <3>1. FollowedByNext(l, p)
      BY <1>1, <2>2 DEF SortedList
    <3>2. CASE q = NULL
      BY <1>2, <1>3, <2>2, <3>1, <3>2 DEF FollowedByNext
    <3>3. CASE q # NULL
      <4>1. \A m \in Entries(l) : sym[m] <= sym[p] \/ sym[q] <= sym[m]
        BY <2>2, <3>1, <3>3 DEF FollowedByNext
      <4>2. QED
        BY <1>2, <1>3, <1>4, <2>2, <3>3, <4>1
    <3>4. QED
      BY <3>2, <3>3
  <2>3. QED
    BY <2>1, <2>2
<1>6. SortedList(l)'
  <2>1. StartsAtFirst(l)'
    <3>1. CASE p = NULL
      <4>1. head'[l] = t
        BY <1>0, <3>1 DEF TypeOK
      <4>2. QED
        BY <1>2, <1>3, <1>5, <3>1, <4>1 DEF StartsAtFirst
    <3>2. CASE p # NULL
      <4>1. head'[l] = head[l] /\ head[l] \in Entries(l)
        BY <1>0, <1>1, <3>2 DEF TypeOK, SortedList, StartsAtFirst
      <4>2. \A m \in Entries(l) : sym[head[l]] <= sym[m]
        BY <1>1, <4>1 DEF SortedList, StartsAtFirst
      <4>3. sym[head[l]] <= sym[t]
        BY <1>2, <1>3, <3>2, <4>1, <4>2
      <4>4. QED
        BY <1>2, <4>1, <4>2, <4>3 DEF StartsAtFirst
    <3>3. QED
      BY <3>1, <3>2
  <2>2. FollowedByNext(l, t)'
    <3>1. next'[t] = q
      OBVIOUS
    <3>2. \A m \in Entries(l) \cup {t} : sym[m] <= sym[t] \/ (q # NULL /\ sym[q] <= sym[m])
      BY <1>2, <1>3, <1>5
    <3>3. QED
      BY <1>2, <1>4, <3>1, <3>2 DEF FollowedByNext
  <2>3. ASSUME NEW n \in Entries(l), n = p PROVE FollowedByNext(l, n)'
    <3>1. next'[n] = t /\ t # NULL
      <4>1. n \in Node /\ n # t
        BY <1>2, <1>3
      <4>2. QED
        BY <2>3, <4>1
    <3>2. \A m \in Entries(l) \cup {t} : sym[m] <= sym[n] \/ sym[t] <= sym[m]
      BY <1>2, <1>3, <1>5, <2>3
    <3>3. sym[n] < sym[t]
      BY <1>3, <2>3
    <3>4. QED
      BY <1>2, <3>1, <3>2, <3>3 DEF FollowedByNext
  <2>4. ASSUME NEW n \in Entries(l), n # p PROVE FollowedByNext(l, n)'
    <3>1. next'[n] = next[n] /\ FollowedByNext(l, n)
      BY <1>1, <1>2, <1>3, <2>4 DEF SortedList
    <3>2. CASE next[n] = NULL
      <4>1. \A m \in Entries(l) : sym[m] <= sym[n]
        BY <3>1, <3>2 DEF FollowedByNext
      <4>2. sym[t] <= sym[n]
        <5>1. CASE sym[n] < sym[t]
          <6>1. p # NULL /\ sym[n] <= sym[p] /\ sym[p] <= sym[n]
            BY <1>2, <1>3, <1>5, <4>1, <5>1
          <6>2. QED
            BY <1>1, <1>3, <2>4, <6>1 DEF SortedList
        <5>2. QED
          BY <1>2, <1>3, <5>1
      <4>3. QED
        BY <1>2, <3>1, <3>2, <4>1, <4>2 DEF FollowedByNext
    <3>3. CASE next[n] # NULL
      <4>1. /\ next[n] \in Entries(l) /\ sym[n] < sym[next[n]]
            /\ \A m \in Entries(l) : sym[m] <= sym[n] \/ sym[next[n]] <= sym[m]
        BY <3>1, <3>3 DEF FollowedByNext
      <4>2. sym[t] <= sym[n] \/ sym[next[n]] <= sym[t]
        <5>1. CASE sym[n] < sym[t] /\ sym[t] < sym[next[n]]
          <6>1. p # NULL /\ sym[n] <= sym[p] /\ p \in Entries(l) /\ sym[p] < sym[t]
            BY <1>2, <1>3, <1>5, <5>1
          <6>2. sym[p] <= sym[n] \/ sym[next[n]] <= sym[p]
            BY <4>1, <6>1
          <6>3. sym[p] = sym[n]
            BY <1>2, <1>3, <4>1, <5>1, <6>1, <6>2
          <6>4. QED
            BY <1>1, <2>4, <6>1, <6>3 DEF SortedList
        <5>2. QED
          BY <1>2, <1>3, <4>1, <5>1
      <4>3. QED
        BY <1>2, <3>1, <3>3, <4>1, <4>2 DEF FollowedByNext
    <3>4. QED
      BY <3>2, <3>3
  <2>5. (\A m, n \in Entries(l) : sym[m] = sym[n] => m = n)'
    <3>1. \A m \in Entries(l) : sym[m] # sym[t]
      BY <1>2, <1>3, <1>5
    <3>2. QED
      BY <1>1, <1>2, <3>1 DEF SortedList
  <2>6. \A n \in Entries(l)' : FollowedByNext(l, n)'
    BY <1>2, <2>2, <2>3, <2>4
  <2>7. QED
    BY <2>1, <2>5, <2>6 DEF SortedList
<1>7. ASSUME NEW k \in 1 .. depth, k # l PROVE SortedList(k)'
  <2>1. SortedList(k) /\ k # Pending
    BY <1>0, <1>7 DEF ListsSorted, TypeOK, Pending
  <2>2. Entries(k)' = Entries(k) /\ head'[k] = head[k]
    BY <1>0, <1>7, <2>1 DEF Entries, TypeOK, Level
  <2>3. \A n \in Entries(k) : n \in Node /\ n # t /\ n # p
    BY <1>3, <1>7, <2>1 DEF Entries
  <2>4. \A n \in Entries(k) : next'[n] = next[n] /\ sym'[n] = sym[n]
    BY <2>3
  <2>5. QED
    BY <2>1, <2>2, <2>4, LevelKept
<1>8. QED
  BY <1>6, <1>7

\* The parts of SymInv other than ListsSorted after Link.
LEMMA LinkKeepsRest ==
  ASSUME SymInv, Scanning, Link,
         head' \in [Level -> Pointer], tail' \in [Level -> Pointer],
         next' \in [Node -> Pointer]
  PROVE  TypeOK' /\ ScanInPlace' /\ NoEntryLost'
<1> USE SymbolAssumption
<1>0. TypeOK /\ ScanInPlace /\ NoEntryLost /\ tmp # NULL /\ Adding
  BY DEF SymInv, Scanning
<1>1. /\ owner' = [owner EXCEPT ![tmp] = depth]
      /\ tmp' = NULL /\ prev' = NULL /\ iter' = NULL
      /\ UNCHANGED <<table, depth, sym, info, call, rest, want, level, answer>>
  BY DEF Link
<1>2. tmp \in Node /\ owner[tmp] = Pending /\ table = "open" /\ depth \in Level
  BY <1>0 DEF TypeOK, Pointer, ScanInPlace, Adding, Level
<1>3. \A n \in Node : owner'[n] = IF n = tmp THEN depth ELSE owner[n]
  BY <1>0, <1>1 DEF TypeOK
<1>4. TypeOK'
  <2>1. owner' \in [Node -> Level \cup {Free, Pending, Leaked}]
    BY <1>0, <1>1, <1>2 DEF TypeOK
  <2>2. \A n \in Node : owner'[n] \in Level \cup {Pending} => sym'[n] \in Name
    BY <1>0, <1>1, <1>2, <1>3 DEF TypeOK
  <2>3. QED
    BY <1>0, <1>1, <2>1, <2>2 DEF TypeOK, Pointer
<1>5. ScanInPlace'
  BY <1>1 DEF ScanInPlace
<1>6. NoEntryLost'
  <2>1. depth # Pending /\ depth \in 1 .. depth
    BY <1>2 DEF Level, Pending
  <2>2. \A n \in Node : owner'[n] # Pending
    BY <1>0, <1>3, <2>1 DEF NoEntryLost
  <2>3. QED
    BY <1>0, <1>1, <1>2, <1>3, <2>1, <2>2 DEF NoEntryLost
<1>7. QED
  BY <1>4, <1>5, <1>6

\* The three ways to insert an entry keep the invariant.
LEMMA InsertKeepsInv ==
  ASSUME SymInv, InsertFirst \/ InsertLast \/ InsertBefore
  PROVE  SymInv'
<1> USE SymbolAssumption
<1>0. /\ TypeOK /\ ListsSorted /\ ScanInPlace /\ Scanning /\ Link
      /\ owner' = [owner EXCEPT ![tmp] = depth] /\ UNCHANGED <<depth, sym>>
  BY DEF SymInv, InsertFirst, InsertLast, InsertBefore, Link
<1>1. /\ tmp \in Node /\ owner[tmp] = Pending /\ depth \in Level /\ depth \in 1 .. depth
      /\ prev \in Pointer /\ iter \in Pointer /\ next[tmp] \in Pointer
      /\ next \in [Node -> Pointer] /\ head \in [Level -> Pointer] /\ tail \in [Level -> Pointer]
      /\ sym[tmp] \in Int
  <2>1. tmp \in Node /\ owner[tmp] = Pending /\ table = "open"
    BY <1>0 DEF TypeOK, Pointer, ScanInPlace, Scanning, Adding
  <2>2. depth \in Level /\ depth \in 1 .. depth
    BY <1>0, <2>1 DEF TypeOK, Level
  <2>3. sym[tmp] \in Int
    BY <1>0, <2>1 DEF TypeOK
  <2>4. QED
    BY <1>0, <2>1, <2>2, <2>3 DEF TypeOK
<1>2. SortedList(depth)
  BY <1>0, <1>1 DEF ListsSorted
<1>3. IF prev = NULL THEN iter = head[depth]
      ELSE prev \in Entries(depth) /\ iter = next[prev] /\ sym[prev] < sym[tmp]
  BY <1>0 DEF ScanInPlace, Scanning
<1>4. tmp \notin Entries(depth) /\ prev # tmp
  <2>1. depth # Pending
    BY <1>1 DEF Level, Pending
  <2>2. tmp \notin Entries(depth)
    BY <1>1, <2>1 DEF Entries
  <2>3. QED
    BY <1>1, <1>3, <2>2
<1>5. ASSUME /\ head' = [head EXCEPT ![depth] = IF prev = NULL THEN tmp ELSE @]
             /\ tail' \in [Level -> Pointer]
             /\ next' \in [Node -> Pointer]
             /\ \A n \in Node : next'[n] = IF n = tmp THEN iter ELSE IF n = prev THEN tmp ELSE next[n]
             /\ iter # NULL => sym[tmp] < sym[iter]
      PROVE  SymInv'
  <2>1. head' \in [Level -> Pointer]
    BY <1>1, <1>5 DEF Pointer
  <2>2. TypeOK' /\ ScanInPlace' /\ NoEntryLost'
    BY <1>0, <1>5, <2>1, LinkKeepsRest
  <2>3. \A k \in 1 .. depth : SortedList(k)'
    <3>1. \A l \in 1 .. depth, t \in Node, p \in Pointer, q \in Pointer :
            (/\ l = depth /\ t = tmp /\ p = prev /\ q = iter)
            => \A k \in 1 .. depth : SortedList(k)'
      <4> TAKE l \in 1 .. depth, t \in Node, p \in Pointer, q \in Pointer
      <4> HAVE l = depth /\ t = tmp /\ p = prev /\ q = iter
      <4>1. LinkBetween(l, t, p, q)
        BY <1>0, <1>1, <1>3, <1>5 DEF LinkBetween
      <4>2. QED
        BY <4>1, LinkedBetween
    <3>2. QED
      BY <1>1, <3>1
  <2>4. ListsSorted'
    BY <1>0, <2>3 DEF ListsSorted
  <2>5. QED
    BY <2>2, <2>4 DEF SymInv
<1>6. CASE InsertFirst
  <2>1. /\ head[depth] = NULL
        /\ head' = [head EXCEPT ![depth] = tmp]
        /\ tail' = [tail EXCEPT ![depth] = tmp]
        /\ next' = next
    BY <1>6 DEF InsertFirst
  <2>2. Entries(depth) = {}
    BY <1>1, <1>2, <2>1 DEF SortedList, StartsAtFirst, Entries
  <2>3. prev = NULL /\ iter = NULL
    BY <1>3, <2>1, <2>2
  <2>4. next[tmp] = NULL
    BY <1>0, <1>1 DEF ScanInPlace, Scanning
  <2>5. QED
    BY <1>1, <1>5, <2>1, <2>3, <2>4 DEF Pointer
<1>7. CASE InsertLast
  <2>1. /\ head[depth] # NULL /\ iter = NULL
        /\ next' = [next EXCEPT ![prev] = tmp]
        /\ tail' = [tail EXCEPT ![depth] = IF call = "AddParam" THEN tmp ELSE prev]
        /\ head' = head
    BY <1>7 DEF InsertLast
  <2>2. prev # NULL /\ prev \in Node
    BY <1>1, <1>3, <2>1 DEF Pointer
  <2>3. next[tmp] = NULL
    BY <1>0, <1>1 DEF ScanInPlace, Scanning
  <2>4. \A n \in Node : next'[n] = IF n = tmp THEN iter ELSE IF n = prev THEN tmp ELSE next[n]
    BY <1>1, <1>4, <2>1, <2>2, <2>3
  <2>5. QED
    BY <1>1, <1>5, <2>1, <2>2, <2>4 DEF Pointer
<1>8. CASE InsertBefore
  <2>1. /\ iter # NULL /\ sym[iter] > sym[tmp]
        /\ next' = [n \in Node |-> IF n = tmp THEN iter ELSE IF n = prev THEN tmp ELSE next[n]]
        /\ head' = [head EXCEPT ![depth] = IF @ = iter THEN tmp ELSE @]
        /\ tail' = tail
    BY <1>8 DEF InsertBefore
  <2>2. iter \in Node /\ sym[iter] \in Int /\ sym[tmp] < sym[iter]
    <3>1. iter \in Entries(depth)
      BY <1>2, <1>3, <2>1 DEF SortedList, StartsAtFirst, FollowedByNext
    <3>2. iter \in Node /\ sym[iter] \in Int
      BY <1>0, <1>1, <3>1, EntriesNamed
    <3>3. QED
      BY <1>1, <2>1, <3>2
  <2>3. head[depth] = iter <=> prev = NULL
    <3>1. ASSUME prev # NULL PROVE head[depth] # iter
      <4>1. prev \in Entries(depth) /\ iter = next[prev]
        BY <1>3, <3>1
      <4>2. sym[head[depth]] <= sym[prev] /\ sym[prev] < sym[iter] /\ sym[prev] \in Int
        <5>1. sym[head[depth]] <= sym[prev]
          BY <1>2, <4>1 DEF SortedList, StartsAtFirst
        <5>2. sym[prev] < sym[iter]
          BY <1>2, <2>1, <4>1 DEF SortedList, FollowedByNext
        <5>3. sym[prev] \in Int
          BY <1>0, <1>1, <4>1, EntriesNamed
        <5>4. QED
          BY <5>1, <5>2, <5>3
      <4>3. QED
        BY <2>2, <4>2
    <3>2. QED
      BY <1>3, <3>1
  <2>4. head' = [head EXCEPT ![depth] = IF prev = NULL THEN tmp ELSE @]
    BY <2>1, <2>3
  <2>5. QED
    BY <1>1, <1>5, <2>1, <2>2, <2>4 DEF Pointer
<1>9. QED
  BY <1>6, <1>7, <1>8

\* A redefinition links nothing.
LEMMA RedefineKeepsInv ==
  ASSUME SymInv, Redefine
  PROVE  SymInv'
<1> USE SymbolAssumption
<1>0. /\ TypeOK /\ ListsSorted /\ ScanInPlace /\ NoEntryLost /\ Scanning
      /\ owner' = [owner EXCEPT ![tmp] = Leaked]
      /\ tmp' = NULL /\ prev' = NULL /\ iter' = NULL
      /\ UNCHANGED <<table, depth, head, tail, sym, info, next, call, rest, want, level>>
  BY DEF SymInv, Redefine
<1>1. /\ tmp \in Node /\ owner[tmp] = Pending
      /\ \A n \in Node : owner'[n] = IF n = tmp THEN Leaked ELSE owner[n]
  BY <1>0 DEF TypeOK, Pointer, ScanInPlace, Scanning
<1>2. TypeOK'
  <2>1. owner' \in [Node -> Level \cup {Free, Pending, Leaked}]
    BY <1>0 DEF TypeOK
  <2>2. Leaked \notin Level \cup {Pending}
    BY DEF Level, Leaked, Pending
  <2>3. \A n \in Node : owner'[n] \in Level \cup {Pending} => sym'[n] \in Name
    BY <1>0, <1>1, <2>2 DEF TypeOK
  <2>4. QED
    BY <1>0, <2>1, <2>3 DEF TypeOK, Pointer
<1>3. ListsSorted'
  <2>1. SUFFICES ASSUME NEW l \in 1 .. depth PROVE SortedList(l)'
    BY <1>0 DEF ListsSorted
  <2>2. SortedList(l) /\ l # Pending /\ l # Leaked
    BY <1>0 DEF ListsSorted, TypeOK, Pending, Leaked
  <2>3. Entries(l)' = Entries(l)
    BY <1>1, <2>2 DEF Entries
  <2>4. QED
    BY <1>0, <2>2, <2>3, LevelKept
<1>4. ScanInPlace' /\ NoEntryLost'
  BY <1>0, <1>1 DEF ScanInPlace, NoEntryLost, Pending, Leaked
<1>5. QED
  BY <1>2, <1>3, <1>4 DEF SymInv

\* A step that leaves the heap alone keeps the lists as they are.
LEMMA HeapKept ==
  ASSUME SymInv, UNCHANGED heap
  PROVE  ListsSorted'
<1>1. UNCHANGED <<depth, head, owner, sym, next>>
  BY DEF heap
<1>2. SUFFICES ASSUME NEW l \in 1 .. depth PROVE SortedList(l)'
  BY <1>1 DEF ListsSorted
<1>3. SortedList(l) /\ Entries(l)' = Entries(l)
  BY <1>1 DEF SymInv, ListsSorted, Entries
<1>4. QED
  BY <1>1, <1>3, LevelKept

\* A scan that moves on stays in its level.
LEMMA ScanOnKeepsInv ==
  ASSUME SymInv, ScanOn
  PROVE  SymInv'
<1> USE SymbolAssumption
<1>0. /\ TypeOK /\ ListsSorted /\ ScanInPlace /\ NoEntryLost /\ Scanning
      /\ iter # NULL /\ sym[iter] < sym[tmp] /\ prev' = iter /\ iter' = next[iter]
      /\ UNCHANGED <<heap, call, rest, want, level, tmp>>
  BY DEF SymInv, ScanOn
<1>1. depth \in Level /\ SortedList(depth)
  <2>1. table = "open"
    BY <1>0 DEF TypeOK, Scanning, Adding
  <2>2. QED
    BY <1>0, <2>1 DEF TypeOK, Level, ListsSorted
<1>2. iter \in Entries(depth) /\ iter \in Node
  BY <1>0, <1>1 DEF ScanInPlace, Scanning, SortedList, StartsAtFirst, FollowedByNext, Entries
<1>3. TypeOK'
  BY <1>0, <1>2 DEF TypeOK, Pointer, heap
<1>4. ListsSorted'
  BY <1>0, HeapKept
<1>5. ScanInPlace'
  <2>1. UNCHANGED <<owner, next, sym, depth, tmp, call>>
    BY <1>0 DEF heap
  <2>2. iter \in Entries(depth)'
    BY <1>2, <2>1 DEF Entries
  <2>3. QED
    BY <1>0, <2>1, <2>2 DEF ScanInPlace, Scanning, Adding
<1>6. NoEntryLost'
  BY <1>0 DEF NoEntryLost, heap
<1>7. QED
  BY <1>3, <1>4, <1>5, <1>6 DEF SymInv

\* A look-up reads the table and writes only its own variables.
LEMMA LookUpKeepsInv ==
  ASSUME SymInv, UNCHANGED <<heap, prev, tmp>>, TypeOK', ~Adding, ~Adding'
  PROVE  SymInv'
<1>1. tmp = NULL
  BY DEF SymInv, ScanInPlace
<1>2. ScanInPlace' /\ NoEntryLost'
  BY <1>1 DEF SymInv, ScanInPlace, NoEntryLost, heap
<1>3. QED
  BY <1>2, HeapKept DEF SymInv

\* Every call of the parser keeps the invariant.
LEMMA CallsKeepInv ==
  ASSUME SymInv, Calls
  PROVE  SymInv'
<1> USE SymbolAssumption
<1>1. CASE CreateLevel
  BY <1>1, CreateLevelKeepsInv
<1>2. CASE ReleaseLevel
  BY <1>2, PopLevelKeepsInv DEF ReleaseLevel
<1>3. CASE Release
  BY <1>3, PopLevelKeepsInv DEF Release
<1>4. ASSUME NEW f \in {"AddParam", "AddIDList"}, NEW names \in IdLists, NEW w \in Info,
             AddNames(f, names, w)
      PROVE  SymInv'
  <2>1. names \in Seq(Name) \ {<<>>} /\ tmp = NULL
    BY <1>4, Quiet DEF AddNames, Adding
  <2>2. /\ table = "open" /\ Begin(names)
        /\ info' = [info EXCEPT ![tmp'] = w]
        /\ call' \in {"AddParam", "AddIDList"} /\ want' = w /\ level' = level
        /\ UNCHANGED <<table, depth, head, tail>>
    BY <1>4 DEF AddNames
  <2>3. QED
    BY <2>1, <2>2, BeginKeepsInv
<1>5. ASSUME NEW f \in {"FindSymbol", "GetEntry"}, NEW n \in Name, NEW s \in Sort,
             LookUp(f, n, s)
      PROVE  SymInv'
  <2>1. /\ call = "idle" /\ table = "open" /\ call' = f /\ rest' = <<n>>
        /\ want' = [sort |-> s, type |-> None]
        /\ level' = depth /\ iter' = head[depth]
        /\ UNCHANGED <<heap, prev, tmp>>
    BY <1>5 DEF LookUp
  <2>2. depth \in Level
    BY <2>1, Quiet
  <2>3. TypeOK'
    BY <2>1, <2>2 DEF SymInv, TypeOK, heap
  <2>4. QED
    BY <2>1, <2>3, LookUpKeepsInv DEF Adding
<1>6. QED
  BY <1>1, <1>2, <1>3, <1>4, <1>5 DEF Calls

\* Every step within a call keeps the invariant.
LEMMA StepsKeepInv ==
  ASSUME SymInv, Steps
  PROVE  SymInv'
<1> USE SymbolAssumption
<1>0. TypeOK
  BY DEF SymInv
<1>1. CASE NextName
  <2>0. Adding /\ tmp = NULL
    BY <1>1 DEF NextName
  <2>1. CASE rest = <<>>
    <3>1. /\ call' = "idle" /\ want' = NoInfo
          /\ UNCHANGED <<heap, rest, level, prev, iter, tmp>>
      BY <1>1, <2>1 DEF NextName
    <3>2. TypeOK'
      BY <1>0, <3>1 DEF TypeOK, heap, NoInfo, Sort
    <3>3. ScanInPlace' /\ NoEntryLost'
      BY <2>0, <3>1 DEF SymInv, ScanInPlace, NoEntryLost, heap
    <3>4. QED
      BY <3>1, <3>2, <3>3, HeapKept DEF SymInv
  <2>2. CASE rest # <<>>
    <3>1. /\ Begin(rest) /\ info' = [info EXCEPT ![tmp'] = want]
          /\ UNCHANGED <<table, depth, head, tail, call, want, level>>
      BY <1>1, <2>2 DEF NextName
    <3>2. rest \in Seq(Name) \ {<<>>} /\ table = "open" /\ call' \in {"AddParam", "AddIDList"}
      BY <1>0, <2>0, <2>2, <3>1 DEF TypeOK, Adding
    <3>3. want \in Info
      BY <1>0, <2>0 DEF TypeOK, Adding
    <3>4. QED
      BY <2>0, <3>1, <3>2, <3>3, BeginKeepsInv
  <2>3. QED
    BY <2>1, <2>2
<1>2. CASE InsertFirst \/ InsertLast \/ InsertBefore
  BY <1>2, InsertKeepsInv
<1>3. CASE Redefine
  BY <1>3, RedefineKeepsInv
<1>4. CASE ScanOn
  BY <1>4, ScanOnKeepsInv
<1>5. CASE WalkOn
  <2>1. TypeOK'
    BY <1>0, <1>5 DEF WalkOn, TypeOK, Pointer, heap
  <2>2. QED
    BY <1>5, <2>1, LookUpKeepsInv DEF WalkOn, Looking, Adding
<1>6. CASE NextLevel
  <2>1. level' \in 0 .. MaxDepth /\ iter' \in Pointer
    <3>1. level \in 1 .. MaxDepth /\ level' = level - 1
          /\ iter' = IF level > 1 THEN head[level - 1] ELSE NULL
      BY <1>0, <1>6 DEF NextLevel, TypeOK
    <3>2. level > 1 => head[level - 1] \in Pointer
      BY <1>0, <3>1 DEF TypeOK, Level
    <3>3. QED
      BY <3>1, <3>2 DEF Pointer
  <2>2. TypeOK'
    BY <1>0, <1>6, <2>1 DEF NextLevel, TypeOK, heap
  <2>3. QED
    BY <1>6, <2>2, LookUpKeepsInv DEF NextLevel, Looking, Adding
<1>7. CASE Found \/ NotFound
  <2>1. PICK v : Looking /\ Return(v)
    BY <1>7 DEF Found, NotFound
  <2>2. TypeOK'
    BY <1>0, <2>1 DEF Return, TypeOK, Pointer, heap, NoInfo, Sort
  <2>3. QED
    BY <2>1, <2>2, LookUpKeepsInv DEF Return, Looking, Adding
<1>8. QED
  BY <1>1, <1>2, <1>3, <1>4, <1>5, <1>6, <1>7 DEF Steps

-----------------------------------------------------------------------------
\* SymInv is inductive.
THEOREM Invariance == Spec => []SymInv
<1>1. Init => SymInv
  BY InvInit
<1>2. SymInv /\ [Next]_vars => SymInv'
  <2>1. SUFFICES ASSUME SymInv, [Next]_vars PROVE SymInv'
    OBVIOUS
  <2>2. CASE Calls \/ Steps
    BY <2>1, <2>2, CallsKeepInv, StepsKeepInv
  <2>3. CASE UNCHANGED vars
    <3>1. TypeOK' /\ ScanInPlace' /\ NoEntryLost' /\ ListsSorted'
      BY <2>1, <2>3, HeapKept
      DEF SymInv, vars, heap, TypeOK, ScanInPlace, NoEntryLost, Adding, Entries
    <3>2. QED
      BY <3>1 DEF SymInv
  <2>4. QED
    BY <2>1, <2>2, <2>3 DEF Next, Exited
<1>3. QED
  BY <1>1, <1>2, PTL DEF Spec

\* The table and the locals of its functions keep their types; an entry in a
\* list has a name, an open table has a level.
THEOREM TypeCorrect == Spec => []TypeOK
BY Invariance, PTL DEF SymInv

\* The lists of all open levels stay sorted, complete and without repetition
\* (AddParamToSymbolTable, AddIDListToSymbolTable, ReleaseSymbolTableLevel).
THEOREM ListsStaySorted == Spec => []ListsSorted
BY Invariance, PTL DEF SymInv

\* The scans of both insertion functions stay between neighbours.
THEOREM ScansStayInPlace == Spec => []ScanInPlace
BY Invariance, PTL DEF SymInv

\* Closing a level frees every entry of it, so no entry outlives its level.
THEOREM EntriesFreed == Spec => []NoEntryLost
BY Invariance, PTL DEF SymInv

-----------------------------------------------------------------------------
(* That the table implements a stack of scopes needs more than SymInv: what *)
(* is recorded in an entry that is or will be in a list, and that a look-up *)
(* has not passed what it is looking for.                                  *)

\* Everything the walk of a look-up has passed is not the name it looks for.
LookInPlace ==
  /\ \E n \in Name : rest = <<n>>
  /\ want.sort \in Sort
  /\ level \in 0 .. depth
  /\ \A l \in level + 1 .. depth : \A m \in Entries(l) : sym[m] # rest[1]
  /\ level = 0 => iter = NULL
  /\ level > 0 =>
       /\ iter \in Entries(level) \cup {NULL}
       /\ \A m \in Entries(level) :
            sym[m] < rest[1] \/ (iter # NULL /\ sym[iter] <= sym[m])

RefInv ==
  /\ \A n \in Node : owner[n] \in Level \cup {Pending} => info[n] \in Info
  /\ call # "idle" => answer = NoAnswer
  /\ Looking => LookInPlace

\* The first entry of a sorted list is a place to start to look.
LEMMA LookFromHead ==
  ASSUME TypeOK, NEW l \in Level, SortedList(l), NEW n \in Name
  PROVE  /\ head[l] \in Entries(l) \cup {NULL}
         /\ \A m \in Entries(l) : sym[m] < n \/ (head[l] # NULL /\ sym[head[l]] <= sym[m])
<1>1. CASE Entries(l) = {}
  BY <1>1 DEF SortedList, StartsAtFirst
<1>2. CASE Entries(l) # {}
  <2>1. head[l] \in Entries(l) /\ \A m \in Entries(l) : sym[head[l]] <= sym[m]
    BY <1>2 DEF SortedList, StartsAtFirst
  <2>2. head[l] # NULL
    BY <2>1, EntriesNamed
  <2>3. QED
    BY <2>1, <2>2
<1>3. QED
  BY <1>1, <1>2

\* The initial state satisfies RefInv.
LEMMA RefInit == Init => RefInv
BY SymbolAssumption DEF Init, RefInv, Looking, Level, Free, Pending

\* Calls keep RefInv.
LEMMA CallsKeepRef ==
  ASSUME SymInv, RefInv, Calls
  PROVE  RefInv'
<1> USE SymbolAssumption
<1>0. TypeOK /\ ListsSorted /\ (\A n \in Node : owner[n] \in Level \cup {Pending} => info[n] \in Info)
  BY DEF SymInv, RefInv
<1>1. CASE CreateLevel
  <2>1. call' = "idle" /\ UNCHANGED <<owner, info>>
    BY <1>1 DEF CreateLevel, locals
  <2>2. QED
    BY <2>1 DEF RefInv, Looking
<1>2. CASE PopLevel
  <2>1. call' = "idle"
    BY <1>2 DEF PopLevel, locals
  <2>2. \A n \in Node : owner'[n] \in Level \cup {Pending} => owner'[n] = owner[n] /\ info'[n] = info[n]
    <3> SUFFICES ASSUME NEW n \in Node, owner'[n] \in Level \cup {Pending}
                 PROVE  owner'[n] = owner[n] /\ info'[n] = info[n]
      OBVIOUS
    <3>1. /\ owner'[n] = IF n \in Chain(depth) THEN Free ELSE owner[n]
          /\ info'[n]  = IF n \in Chain(depth) THEN NoInfo ELSE info[n]
      BY <1>2 DEF PopLevel
    <3>2. n \notin Chain(depth)
      BY <3>1 DEF Level, Free, Pending
    <3>3. QED
      BY <3>1, <3>2
  <2>3. QED
    BY <1>0, <2>1, <2>2 DEF RefInv, Looking
<1>3. ASSUME NEW f \in {"AddParam", "AddIDList"}, NEW names \in IdLists, NEW w \in Info,
             AddNames(f, names, w)
      PROVE  RefInv'
  <2>1. PICK c \in Node : owner' = [owner EXCEPT ![c] = Pending] /\ tmp' = c
    BY <1>3 DEF AddNames, Begin
  <2>2. call' = f /\ info' = [info EXCEPT ![c] = w] /\ answer' = NoAnswer
    BY <1>3, <2>1 DEF AddNames
  <2>3. QED
    BY <1>0, <2>1, <2>2 DEF RefInv, Looking, TypeOK
<1>4. ASSUME NEW f \in {"FindSymbol", "GetEntry"}, NEW n \in Name, NEW s \in Sort,
             LookUp(f, n, s)
      PROVE  RefInv'
  <2>1. /\ table = "open" /\ call' = f /\ rest' = <<n>>
        /\ want' = [sort |-> s, type |-> None]
        /\ level' = depth /\ iter' = head[depth] /\ answer' = NoAnswer
        /\ UNCHANGED <<owner, info, sym, depth, head>>
    BY <1>4 DEF LookUp, heap
  <2>2. depth \in Level /\ SortedList(depth) /\ depth \in Nat
    BY <1>0, <2>1, Quiet DEF Level, ListsSorted
  <2>3. Entries(depth)' = Entries(depth) /\ rest'[1] = n
    BY <2>1 DEF Entries
  <2>4. LookInPlace'
    BY <1>0, <2>1, <2>2, <2>3, LookFromHead DEF LookInPlace, Level
  <2>5. QED
    BY <1>0, <2>1, <2>4 DEF RefInv
<1>5. QED
  BY <1>1, <1>2, <1>3, <1>4 DEF Calls, ReleaseLevel, Release

\* Steps keep RefInv.
LEMMA StepsKeepRef ==
  ASSUME SymInv, RefInv, Steps
  PROVE  RefInv'
<1> USE SymbolAssumption
<1>0. /\ TypeOK /\ ListsSorted /\ ScanInPlace
      /\ \A n \in Node : owner[n] \in Level \cup {Pending} => info[n] \in Info
      /\ call # "idle" => answer = NoAnswer
      /\ call # "idle" => table = "open"
  BY DEF SymInv, RefInv, TypeOK
<1>1. CASE NextName
  <2>0. Adding
    BY <1>1 DEF NextName
  <2>1. CASE rest = <<>>
    BY <1>0, <1>1, <2>1 DEF NextName, heap, RefInv, Looking
  <2>2. CASE rest # <<>>
    <3>1. PICK c \in Node : owner' = [owner EXCEPT ![c] = Pending] /\ tmp' = c
      BY <1>1, <2>2 DEF NextName, Begin
    <3>2. UNCHANGED <<call, answer>> /\ info' = [info EXCEPT ![c] = want] /\ want \in Info
      BY <1>0, <1>1, <2>0, <2>2, <3>1 DEF NextName, Adding, TypeOK
    <3>3. QED
      BY <1>0, <2>0, <3>1, <3>2 DEF RefInv, Looking, Adding, TypeOK
  <2>3. QED
    BY <2>1, <2>2
<1>2. CASE InsertFirst \/ InsertLast \/ InsertBefore
  <2>1. /\ Scanning /\ owner' = [owner EXCEPT ![tmp] = depth] /\ UNCHANGED <<info, call, answer>>
    BY <1>2 DEF InsertFirst, InsertLast, InsertBefore, Link
  <2>2. owner[tmp] = Pending
    BY <1>0, <2>1 DEF ScanInPlace, Scanning
  <2>3. QED
    BY <1>0, <2>1, <2>2 DEF RefInv, Looking, Scanning, Adding, TypeOK
<1>3. CASE Redefine
  BY <1>0, <1>3 DEF Redefine, RefInv, Looking, Scanning, Adding, TypeOK, Leaked, Level, Pending
<1>4. CASE ScanOn
  BY <1>0, <1>4 DEF ScanOn, RefInv, Looking, Scanning, Adding, heap
<1>5. ASSUME WalkOn \/ NextLevel
      PROVE  /\ LookInPlace /\ call # "idle" /\ table = "open" /\ depth \in Level
             /\ UNCHANGED <<owner, info, sym, depth, call, rest, want, answer>>
             /\ \A l : Entries(l)' = Entries(l)
             /\ rest[1] \in Name
             /\ level \in 0 .. depth
  <2>1. LookInPlace /\ call # "idle"
    BY <1>5 DEF WalkOn, NextLevel, RefInv, Looking
  <2>2. UNCHANGED <<owner, info, sym, depth, call, rest, want, answer>>
    BY <1>5 DEF WalkOn, NextLevel, heap
  <2>3. depth \in Level
    BY <1>0, <2>1, Quiet
  <2>4. \A l : Entries(l)' = Entries(l)
    BY <2>2 DEF Entries
  <2>5. rest[1] \in Name /\ level \in 0 .. depth
    BY <2>1 DEF LookInPlace
  <2>6. QED
    BY <1>0, <2>1, <2>2, <2>3, <2>4, <2>5
<1>6. CASE WalkOn
  <2>1. iter # NULL /\ sym[iter] < rest[1] /\ iter' = next[iter] /\ level' = level
    BY <1>6 DEF WalkOn
  <2>2. level \in Level /\ SortedList(level) /\ iter \in Entries(level)
    BY <1>0, <1>5, <1>6, <2>1 DEF LookInPlace, ListsSorted, Level
  <2>3. FollowedByNext(level, iter) /\ iter \in Node /\ sym[iter] \in Int
    BY <1>0, <2>2, EntriesNamed DEF SortedList
  <2>4. \A m \in Entries(level) : sym[m] \in Int /\ m # NULL
    BY <1>0, <2>2, EntriesNamed
  <2>5. next[iter] \in Entries(level) \cup {NULL}
    BY <2>3 DEF FollowedByNext
  <2>6. ASSUME NEW m \in Entries(level)
        PROVE  sym[m] < rest[1] \/ (next[iter] # NULL /\ sym[next[iter]] <= sym[m])
    <3>1. sym[m] <= sym[iter] \/ (next[iter] # NULL /\ sym[next[iter]] <= sym[m])
      BY <2>3, <2>4 DEF FollowedByNext
    <3>2. rest[1] \in Int
      BY <1>5, <1>6
    <3>3. QED
      BY <2>1, <2>3, <2>4, <3>1, <3>2
  <2>7. LookInPlace'
    BY <1>5, <1>6, <2>1, <2>2, <2>5, <2>6 DEF LookInPlace, Level
  <2>8. QED
    BY <1>0, <1>5, <1>6, <2>7 DEF RefInv
<1>7. CASE NextLevel
  <2>1. /\ level > 0 /\ Past /\ level' = level - 1
        /\ iter' = IF level > 1 THEN head[level - 1] ELSE NULL
    BY <1>7 DEF NextLevel
  <2>2. level \in Level /\ SortedList(level) /\ level' \in 0 .. depth /\ level <= depth
    BY <1>0, <1>5, <1>7, <2>1 DEF LookInPlace, ListsSorted, Level
  <2>3. ASSUME NEW m \in Entries(level) PROVE sym[m] # rest[1]
    <3>1. sym[m] \in Int /\ rest[1] \in Int
      BY <1>0, <1>5, <1>7, <2>2, EntriesNamed
    <3>2. sym[m] < rest[1] \/ (iter # NULL /\ sym[iter] <= sym[m])
      BY <1>5, <1>7, <2>1 DEF LookInPlace
    <3>3. iter # NULL => sym[iter] > rest[1] /\ sym[iter] \in Int
      <4>1. iter \in Entries(level) \cup {NULL}
        BY <1>5, <1>7, <2>1 DEF LookInPlace
      <4>2. QED
        BY <1>0, <2>1, <2>2, <4>1, EntriesNamed DEF Past
    <3>4. QED
      BY <3>1, <3>2, <3>3
  <2>4. \A l \in level' + 1 .. depth : \A m \in Entries(l) : sym[m] # rest[1]
    <3>1. ASSUME NEW l \in level' + 1 .. depth PROVE l = level \/ l \in level + 1 .. depth
      BY <2>1, <2>2 DEF Level
    <3>2. QED
      BY <1>5, <1>7, <2>3, <3>1 DEF LookInPlace
  <2>5. CASE level = 1
    <3>1. LookInPlace'
      BY <1>5, <1>7, <2>1, <2>2, <2>4, <2>5 DEF LookInPlace
    <3>2. QED
      BY <1>0, <1>5, <1>7, <3>1 DEF RefInv
  <2>6. CASE level # 1
    <3>1. /\ level' \in Level /\ level' > 0 /\ iter' = head[level']
          /\ SortedList(level')
      BY <1>0, <1>5, <1>7, <2>1, <2>2, <2>6 DEF Level, ListsSorted
    <3>2. /\ iter' \in Entries(level') \cup {NULL}
          /\ \A m \in Entries(level') :
               sym[m] < rest[1] \/ (iter' # NULL /\ sym[iter'] <= sym[m])
      BY <1>0, <1>5, <1>7, <3>1, LookFromHead
    <3>3. LookInPlace'
      BY <1>5, <1>7, <2>1, <2>2, <2>4, <3>1, <3>2 DEF LookInPlace
    <3>4. QED
      BY <1>0, <1>5, <1>7, <3>3 DEF RefInv
  <2>7. QED
    BY <2>5, <2>6
<1>8. CASE Found \/ NotFound
  <2>1. call' = "idle" /\ UNCHANGED <<owner, info>>
    BY <1>8 DEF Found, NotFound, Return, heap
  <2>2. QED
    BY <1>0, <2>1 DEF RefInv, Looking
<1>9. QED
  BY <1>1, <1>2, <1>3, <1>4, <1>6, <1>7, <1>8 DEF Steps

-----------------------------------------------------------------------------
(* Facts about stacks of any values, for what a step does to scopes.       *)

\* A function on 1 .. d is a sequence of length d.
LEMMA FunctionIsSeq ==
  ASSUME NEW d \in Nat, NEW s, s = [i \in 1 .. d |-> s[i]]
  PROVE  s \in Seq({s[i] : i \in 1 .. d}) /\ Len(s) = d
<1> DEFINE S == {s[i] : i \in 1 .. d}
<1>1. \A i \in 1 .. d : s[i] \in S
  OBVIOUS
<1> HIDE DEF S
<1>2. s \in [1 .. d -> S]
  BY <1>1
<1>3. s \in Seq(S)
  BY <1>2, SeqDef
<1>4. Len(s) = d
  BY <1>2, <1>3, LenProperties
<1>5. QED
  BY <1>3, <1>4 DEF S

\* One value more, the others as they were: it was pushed.
LEMMA StackPushed ==
  ASSUME NEW d \in Nat, NEW s, NEW t, NEW x,
         s = [i \in 1 .. d |-> s[i]], t = [i \in 1 .. d + 1 |-> t[i]],
         \A i \in 1 .. d : t[i] = s[i], t[d + 1] = x
  PROVE  t = Append(s, x)
<1> DEFINE S == {s[i] : i \in 1 .. d} \cup {x}
<1>1. (\A i \in 1 .. d : s[i] \in S) /\ x \in S
  OBVIOUS
<1> HIDE DEF S
<1>2. \A i \in 1 .. d + 1 : t[i] \in S
  <2>1. SUFFICES ASSUME NEW i \in 1 .. d + 1 PROVE t[i] \in S
    OBVIOUS
  <2>2. i \in 1 .. d \/ i = d + 1
    OBVIOUS
  <2>3. QED
    BY <1>1, <2>2
<1>3. s \in [1 .. d -> S] /\ t \in [1 .. d + 1 -> S]
  BY <1>1, <1>2
<1>4. s \in Seq(S) /\ t \in Seq(S)
  BY <1>3, SeqDef
<1>5. Len(s) = d /\ Len(t) = d + 1
  BY <1>3, <1>4, LenProperties
<1>6. /\ Append(s, x) \in Seq(S) /\ Len(Append(s, x)) = d + 1
      /\ \A i \in 1 .. d : Append(s, x)[i] = s[i]
      /\ Append(s, x)[d + 1] = x
  BY <1>1, <1>4, <1>5, AppendProperties
<1>7. \A i \in 1 .. d + 1 : t[i] = Append(s, x)[i]
  <2>1. SUFFICES ASSUME NEW i \in 1 .. d + 1 PROVE t[i] = Append(s, x)[i]
    OBVIOUS
  <2>2. i \in 1 .. d \/ i = d + 1
    OBVIOUS
  <2>3. QED
    BY <1>6, <2>2
<1>8. QED
  BY <1>4, <1>5, <1>6, <1>7, SeqEqual

\* The last value gone, the others as they were: it was popped.
LEMMA StackPopped ==
  ASSUME NEW d \in Nat \ {0}, NEW s, NEW t,
         s = [i \in 1 .. d |-> s[i]], t = [i \in 1 .. d - 1 |-> t[i]],
         \A i \in 1 .. d - 1 : t[i] = s[i]
  PROVE  s # <<>> /\ t = SubSeq(s, 1, Len(s) - 1)
<1> DEFINE S == {s[i] : i \in 1 .. d}
<1>1. \A i \in 1 .. d : s[i] \in S
  OBVIOUS
<1>2. s \in Seq(S) /\ Len(s) = d
  BY FunctionIsSeq
<1> HIDE DEF S
<1>3. t \in [1 .. d - 1 -> S] /\ d - 1 \in Nat
  <2>1. \A i \in 1 .. d - 1 : i \in 1 .. d
    OBVIOUS
  <2>2. QED
    BY <1>1, <2>1
<1>4. t \in Seq(S)
  BY <1>3, SeqDef
<1>5. Len(t) = d - 1
  BY <1>3, <1>4, LenProperties
<1>6. /\ SubSeq(s, 1, d - 1) \in Seq(S) /\ Len(SubSeq(s, 1, d - 1)) = d - 1
      /\ \A i \in 1 .. d - 1 : SubSeq(s, 1, d - 1)[i] = s[i]
  <2>1. d - 1 \in Int /\ 1 \in Int /\ 1 \in 1 .. Len(s) + 1 /\ d - 1 \in 0 .. Len(s)
    BY <1>2
  <2>2. SubSeq(s, 1, d - 1) \in Seq(S)
    <3>1. \A i \in 1 .. d - 1 : s[i] \in S
      BY <1>1
    <3>2. QED
      BY <1>2, <2>1, <3>1, SubSeqProperties
  <2>3. QED
    BY <1>2, <2>1, <2>2, SubSeqProperties
<1>7. t = SubSeq(s, 1, d - 1)
  BY <1>4, <1>5, <1>6, SeqEqual
<1>8. QED
  BY <1>2, <1>7

-----------------------------------------------------------------------------
(* What each action does to the stack of scopes.                           *)

\* The mapped value of scopes.
Stack == [l \in 1 .. depth |-> ScopeOf(l)]

\* A name is bound to what its only entry records.
LEMMA ScopeValue ==
  ASSUME NEW l, SortedList(l), NEW m \in Entries(l)
  PROVE  sym[m] \in DOMAIN ScopeOf(l) /\ ScopeOf(l)[sym[m]] = info[m]
<1>1. sym[m] \in {sym[n] : n \in Entries(l)}
  OBVIOUS
<1>2. (CHOOSE n \in Entries(l) : sym[n] = sym[m]) = m
  BY DEF SortedList
<1>3. QED
  BY <1>1, <1>2 DEF ScopeOf

\* A scope is determined by the names and infos of its entries.
LEMMA ScopeKept ==
  ASSUME NEW l, SortedList(l), SortedList(l)', Entries(l)' = Entries(l),
         \A n \in Entries(l) : sym'[n] = sym[n] /\ info'[n] = info[n]
  PROVE  ScopeOf(l)' = ScopeOf(l)
<1>1. DOMAIN ScopeOf(l) = {sym[n] : n \in Entries(l)}
  BY DEF ScopeOf
<1>2. DOMAIN ScopeOf(l)' = {sym'[n] : n \in Entries(l)'}
  BY DEF ScopeOf
<1>3. DOMAIN ScopeOf(l)' = DOMAIN ScopeOf(l)
  BY <1>1, <1>2
<1>4. ASSUME NEW x \in DOMAIN ScopeOf(l) PROVE ScopeOf(l)'[x] = ScopeOf(l)[x]
  <2>1. PICK m \in Entries(l) : sym[m] = x
    BY <1>1, <1>4
  <2>2. ScopeOf(l)[x] = info[m]
    BY <2>1, ScopeValue
  <2>3. m \in Entries(l)' /\ sym'[m] = x /\ info'[m] = info[m]
    BY <2>1
  <2>4. (CHOOSE n \in Entries(l)' : sym'[n] = x) = m
    BY <2>3 DEF SortedList
  <2>5. ScopeOf(l)'[x] = info'[m]
    BY <1>2, <2>3, <2>4 DEF ScopeOf
  <2>6. QED
    BY <2>2, <2>3, <2>5
<1>5. ScopeOf(l) = [x \in DOMAIN ScopeOf(l) |-> ScopeOf(l)[x]]
  BY DEF ScopeOf
<1>6. ScopeOf(l)' = [x \in DOMAIN ScopeOf(l)' |-> ScopeOf(l)'[x]]
  BY DEF ScopeOf
<1>7. QED
  BY <1>3, <1>4, <1>5, <1>6

\* The scopes of the d outermost levels stay as they are.
LEMMA ScopesKept ==
  ASSUME SymInv, SymInv', NEW d \in Nat, d <= depth, d <= depth',
         \A n \in Node : owner[n] \in 1 .. d \/ owner'[n] \in 1 .. d =>
           owner'[n] = owner[n] /\ sym'[n] = sym[n] /\ info'[n] = info[n]
  PROVE  \A l \in 1 .. d : Stack'[l] = Stack[l]
<1>1. SUFFICES ASSUME NEW l \in 1 .. d PROVE Stack'[l] = Stack[l]
  OBVIOUS
<1>2. depth \in Nat /\ depth' \in Nat
  BY DEF SymInv, TypeOK
<1>3. l \in 1 .. depth /\ l \in 1 .. depth'
  BY <1>2
<1>4. Stack[l] = ScopeOf(l) /\ Stack'[l] = ScopeOf(l)'
  BY <1>3 DEF Stack
<1>5. SortedList(l) /\ SortedList(l)'
  BY <1>3 DEF SymInv, ListsSorted
<1>6. /\ Entries(l)' = Entries(l)
      /\ \A n \in Entries(l) : sym'[n] = sym[n] /\ info'[n] = info[n]
  BY DEF Entries
<1>7. ScopeOf(l)' = ScopeOf(l)
  BY <1>5, <1>6, ScopeKept
<1>8. QED
  BY <1>4, <1>7

\* All scopes stay as they are.
LEMMA StackKept ==
  ASSUME SymInv, SymInv', depth' = depth,
         \A n \in Node : owner[n] \in 1 .. depth \/ owner'[n] \in 1 .. depth =>
           owner'[n] = owner[n] /\ sym'[n] = sym[n] /\ info'[n] = info[n]
  PROVE  Stack' = Stack
<1>1. depth \in Nat
  BY DEF SymInv, TypeOK
<1>2. \A d \in Nat : d = depth => \A l \in 1 .. d : Stack'[l] = Stack[l]
  <2>1. SUFFICES ASSUME NEW d \in Nat, d = depth PROVE \A l \in 1 .. d : Stack'[l] = Stack[l]
    OBVIOUS
  <2>2. QED
    BY <1>1, <2>1, ScopesKept
<1>3. \A l \in 1 .. depth : Stack'[l] = Stack[l]
  BY <1>1, <1>2
<1>4. Stack = [l \in 1 .. depth |-> Stack[l]] /\ Stack' = [l \in 1 .. depth |-> Stack'[l]]
  BY DEF Stack
<1>5. QED
  BY <1>3, <1>4

\* A level is opened.
LEMMA CreateLevelRefines ==
  ASSUME SymInv, SymInv', CreateLevel
  PROVE  Abstract!Enter
<1>1. /\ depth \in Nat /\ depth' = depth + 1 /\ answer' = NoAnswer
      /\ UNCHANGED <<owner, sym, info>>
  BY Quiet DEF CreateLevel, Level
<1>2. \A d \in Nat : d = depth => Stack' = Append(Stack, Abstract!NoNames)
  <2>1. SUFFICES ASSUME NEW d \in Nat, d = depth
                 PROVE  Stack' = Append(Stack, Abstract!NoNames)
    OBVIOUS
  <2>2. \A l \in 1 .. d : Stack'[l] = Stack[l]
    BY <1>1, <2>1, ScopesKept
  <2>3. Stack'[d + 1] = Abstract!NoNames
    <3>1. Entries(d + 1)' = {}
      BY <1>1, <2>1 DEF SymInv, NoEntryLost, Entries, Free, Pending, Leaked
    <3>2. ScopeOf(d + 1)' = Abstract!NoNames
      BY <3>1 DEF ScopeOf, Abstract!NoNames
    <3>3. QED
      BY <1>1, <2>1, <3>2 DEF Stack
  <2>4. Stack = [i \in 1 .. d |-> Stack[i]] /\ Stack' = [i \in 1 .. d + 1 |-> Stack'[i]]
    BY <1>1, <2>1 DEF Stack
  <2>5. QED
    BY <2>2, <2>3, <2>4, StackPushed
<1>3. QED
  BY <1>1, <1>2 DEF Abstract!Enter, Stack, NoAnswer, Abstract!NoAnswer

\* The innermost level is closed: its names are gone, the others as they were.
LEMMA PopLevelRefines ==
  ASSUME SymInv, SymInv', PopLevel
  PROVE  Abstract!Leave
<1>1. /\ depth \in Level /\ depth' = depth - 1 /\ answer' = NoAnswer
      /\ Chain(depth) = Entries(depth)
  <2>1. depth \in Level
    BY Quiet DEF PopLevel
  <2>2. TypeOK /\ SortedList(depth)
    BY <2>1 DEF SymInv, ListsSorted, Level
  <2>3. \A l \in Level : l = depth => Chain(l) = Entries(l)
    BY <2>2, ChainIsList
  <2>4. QED
    BY <2>1, <2>3 DEF PopLevel
<1>2. \A n \in Node : IF n \in Entries(depth) THEN owner'[n] = Free
                      ELSE owner'[n] = owner[n] /\ sym'[n] = sym[n] /\ info'[n] = info[n]
  BY <1>1 DEF PopLevel
<1>3. \A n \in Node : owner[n] \in 1 .. depth - 1 \/ owner'[n] \in 1 .. depth - 1 =>
        owner'[n] = owner[n] /\ sym'[n] = sym[n] /\ info'[n] = info[n]
  <2>1. SUFFICES ASSUME NEW n \in Node, owner[n] \in 1 .. depth - 1 \/ owner'[n] \in 1 .. depth - 1
                 PROVE  n \notin Entries(depth)
    BY <1>2
  <2>2. depth \notin 1 .. depth - 1 /\ Free \notin 1 .. depth - 1
    BY <1>1, SymbolAssumption DEF Level, Free
  <2>3. QED
    BY <1>2, <2>1, <2>2 DEF Entries
<1>4. \A d \in Nat \ {0} : d = depth => Stack # <<>> /\ Stack' = SubSeq(Stack, 1, Len(Stack) - 1)
  <2>1. SUFFICES ASSUME NEW d \in Nat \ {0}, d = depth
                 PROVE  Stack # <<>> /\ Stack' = SubSeq(Stack, 1, Len(Stack) - 1)
    OBVIOUS
  <2>2. \A l \in 1 .. d - 1 : Stack'[l] = Stack[l]
    <3>1. d - 1 \in Nat /\ d - 1 <= depth /\ d - 1 <= depth'
      BY <1>1, <2>1
    <3>2. QED
      BY <1>3, <2>1, <3>1, ScopesKept
  <2>3. Stack = [i \in 1 .. d |-> Stack[i]] /\ Stack' = [i \in 1 .. d - 1 |-> Stack'[i]]
    BY <1>1, <2>1 DEF Stack
  <2>4. QED
    BY <2>2, <2>3, StackPopped
<1>5. depth \in Nat \ {0}
  BY <1>1, SymbolAssumption DEF Level
<1>6. Stack # <<>> /\ Stack' = SubSeq(Stack, 1, Len(Stack) - 1)
  BY <1>4, <1>5
<1>7. QED
  BY <1>1, <1>6 DEF Abstract!Leave, Stack, NoAnswer, Abstract!NoAnswer

\* The stack has one scope per level, the innermost of the table on top.
LEMMA StackTop ==
  ASSUME depth \in Level
  PROVE  /\ Len(Stack) = depth /\ Stack # <<>>
         /\ \A l \in 1 .. depth :
              Stack[l] = ScopeOf(l) /\ DOMAIN Stack[l] = {sym[n] : n \in Entries(l)}
<1>1. depth \in Nat \ {0}
  BY SymbolAssumption DEF Level
<1>2. Stack = [l \in 1 .. depth |-> Stack[l]]
  BY DEF Stack
<1>3. \A d \in Nat : d = depth => Len(Stack) = d
  BY <1>2, FunctionIsSeq
<1>4. Len(Stack) = depth
  BY <1>1, <1>3
<1>5. Stack # <<>>
  BY <1>1, <1>4, EmptySeq
<1>6. ASSUME NEW l \in 1 .. depth
      PROVE  Stack[l] = ScopeOf(l) /\ DOMAIN Stack[l] = {sym[n] : n \in Entries(l)}
  <2>1. Stack[l] = ScopeOf(l)
    BY DEF Stack
  <2>2. DOMAIN ScopeOf(l) = {sym[n] : n \in Entries(l)}
    BY DEF ScopeOf
  <2>3. QED
    BY <2>1, <2>2
<1>7. QED
  BY <1>4, <1>5, <1>6

\* An entry that is linked into the innermost list declares its name.
LEMMA LinkRefines ==
  ASSUME SymInv, SymInv', RefInv, InsertFirst \/ InsertLast \/ InsertBefore
  PROVE  \E n \in Name, b \in Info : Abstract!Declare(n, b)
<1> USE SymbolAssumption
<1>1. /\ Scanning /\ owner' = [owner EXCEPT ![tmp] = depth] /\ UNCHANGED <<depth, sym, info, answer>>
  BY DEF InsertFirst, InsertLast, InsertBefore, Link
<1>2. tmp \in Node /\ owner[tmp] = Pending /\ depth \in Level /\ depth # Pending
  BY <1>1, Quiet DEF SymInv, TypeOK, Pointer, ScanInPlace, Scanning, Adding, Level, Pending
<1>3. sym[tmp] \in Name /\ info[tmp] \in Info /\ answer = NoAnswer
  BY <1>1, <1>2 DEF SymInv, TypeOK, RefInv, Scanning, Adding
<1>4. \A n \in Node : owner'[n] = IF n = tmp THEN depth ELSE owner[n]
  BY <1>1 DEF SymInv, TypeOK
<1>5. /\ tmp \notin Entries(depth)
      /\ Entries(depth)' = Entries(depth) \cup {tmp}
  BY <1>1, <1>2, <1>4 DEF Entries
<1>6. SortedList(depth) /\ SortedList(depth)'
  BY <1>1, <1>2 DEF SymInv, ListsSorted, Level
<1>7. \A m, n \in Entries(depth) \cup {tmp} : sym[m] = sym[n] => m = n
  BY <1>1, <1>5, <1>6 DEF SortedList
<1> DEFINE old == Stack[depth]
           new == [x \in DOMAIN old \cup {sym[tmp]} |-> IF x = sym[tmp] THEN info[tmp] ELSE old[x]]
<1>8. /\ old = ScopeOf(depth) /\ Len(Stack) = depth /\ Stack # <<>>
      /\ Stack'[depth] = ScopeOf(depth)'
  BY <1>1, <1>2, StackTop DEF Stack, Level
<1>9. sym[tmp] \notin DOMAIN old
  BY <1>5, <1>7, <1>8 DEF ScopeOf
<1>10. Stack'[depth] = new
  <2> DEFINE all == Entries(depth) \cup {tmp}
             who(x) == CHOOSE n \in all : sym[n] = x
  <2>1. ScopeOf(depth)' = [x \in {sym[n] : n \in all} |-> info[who(x)]]
    BY <1>1, <1>5 DEF ScopeOf
  <2>2. DOMAIN old = {sym[n] : n \in Entries(depth)}
    BY <1>8 DEF ScopeOf
  <2>3. {sym[n] : n \in all} = DOMAIN old \cup {sym[tmp]}
    BY <2>2
  <2>4. \A x, m : m \in all /\ sym[m] = x => who(x) = m
    BY <1>7
  <2>5. \A m \in Entries(depth) : old[sym[m]] = info[m] /\ sym[m] # sym[tmp]
    BY <1>5, <1>6, <1>7, <1>8, ScopeValue
  <2> HIDE DEF old, who
  <2>6. ASSUME NEW x \in DOMAIN old \cup {sym[tmp]}
        PROVE  info[who(x)] = IF x = sym[tmp] THEN info[tmp] ELSE old[x]
    <3>1. CASE x = sym[tmp]
      BY <2>4, <3>1
    <3>2. CASE x # sym[tmp]
      <4>1. PICK m \in Entries(depth) : sym[m] = x
        BY <2>2, <3>2
      <4>2. who(x) = m
        BY <2>4, <4>1
      <4>3. QED
        BY <2>5, <3>2, <4>1, <4>2
    <3>3. QED
      BY <3>1, <3>2
  <2>7. ScopeOf(depth)' = new
    BY <2>1, <2>3, <2>6
  <2>8. QED
    BY <1>8, <2>7
<1>11. \A l \in 1 .. depth : l # depth => Stack'[l] = Stack[l]
  <2>1. \A d \in Nat : d = depth - 1 => \A l \in 1 .. d : Stack'[l] = Stack[l]
    <3>1. SUFFICES ASSUME NEW d \in Nat, d = depth - 1
                   PROVE  \A l \in 1 .. d : Stack'[l] = Stack[l]
      OBVIOUS
    <3>2. depth \notin 1 .. d /\ Pending \notin 1 .. d /\ d <= depth /\ d <= depth'
      BY <1>1, <1>2, <3>1 DEF Level, Pending
    <3>3. \A n \in Node : owner[n] \in 1 .. d \/ owner'[n] \in 1 .. d =>
           owner'[n] = owner[n] /\ sym'[n] = sym[n] /\ info'[n] = info[n]
      BY <1>1, <1>2, <1>4, <3>2
    <3>4. QED
      BY <3>2, <3>3, ScopesKept
  <2>2. depth - 1 \in Nat
    BY <1>2 DEF Level
  <2>3. \A l \in 1 .. depth - 1 : Stack'[l] = Stack[l]
    BY <2>1, <2>2
  <2>4. \A l \in 1 .. depth : l # depth => l \in 1 .. depth - 1
    BY <1>2 DEF Level
  <2>5. QED
    BY <2>3, <2>4
<1>12. Stack' = [Stack EXCEPT ![Len(Stack)] = new]
  <2>1. /\ Stack' = [l \in 1 .. depth |-> Stack'[l]]
        /\ Stack = [l \in 1 .. depth |-> Stack[l]]
        /\ depth \in 1 .. depth
    BY <1>1, <1>2 DEF Stack, Level
  <2> HIDE DEF new
  <2>2. QED
    BY <1>8, <1>10, <1>11, <2>1
<1>13. Abstract!Declare(sym[tmp], info[tmp])
  <2>1. Abstract!Top = old
    BY <1>8 DEF Abstract!Top, Stack
  <2>2. answer' = Abstract!NoAnswer
    BY <1>1, <1>3 DEF NoAnswer, Abstract!NoAnswer
  <2>3. QED
    BY <1>8, <1>9, <1>12, <2>1, <2>2 DEF Abstract!Declare, Stack
<1>14. QED
  BY <1>3, <1>13

\* The innermost level with an entry of the name decides what it resolves to.
LEMMA ResolvesTo ==
  ASSUME SymInv, depth \in Level, NEW l \in 1 .. depth, NEW m \in Entries(l),
         \A k \in l + 1 .. depth : \A i \in Entries(k) : sym[i] # sym[m]
  PROVE  Abstract!Binding(sym[m]) # {} /\ Abstract!Resolve(sym[m]) = info[m]
<1>1. \A k \in 1 .. depth : Stack[k] = ScopeOf(k) /\ DOMAIN Stack[k] = {sym[i] : i \in Entries(k)}
  BY StackTop
<1>2. Abstract!Binding(sym[m]) = {k \in 1 .. depth : sym[m] \in DOMAIN Stack[k]}
  BY StackTop DEF Abstract!Binding, Stack
<1>3. l \in Abstract!Binding(sym[m])
  BY <1>1, <1>2
<1>4. \A k \in Abstract!Binding(sym[m]) : k <= l
  <2>1. SUFFICES ASSUME NEW k \in 1 .. depth, sym[m] \in DOMAIN Stack[k], ~(k <= l) PROVE FALSE
    BY <1>2
  <2>2. PICK i \in Entries(k) : sym[i] = sym[m]
    BY <1>1, <2>1
  <2>3. k \in l + 1 .. depth
    BY <2>1
  <2>4. QED
    BY <2>2, <2>3
<1>5. \A k \in Abstract!Binding(sym[m]) : Abstract!Innermost(sym[m], k) <=> k = l
  BY <1>2, <1>3, <1>4 DEF Abstract!Innermost
<1>6. (CHOOSE k \in Abstract!Binding(sym[m]) : Abstract!Innermost(sym[m], k)) = l
  BY <1>3, <1>5
<1>7. Abstract!Resolve(sym[m]) = Stack[l][sym[m]]
  BY <1>3, <1>6 DEF Abstract!Resolve, Stack
<1>8. SortedList(l)
  BY DEF SymInv, ListsSorted
<1>9. QED
  BY <1>1, <1>3, <1>7, <1>8, ScopeValue

\* A name without an entry is unbound.
LEMMA ResolvesToNone ==
  ASSUME depth \in Level, NEW n, \A l \in 1 .. depth : \A m \in Entries(l) : sym[m] # n
  PROVE  Abstract!Binding(n) = {} /\ Abstract!Resolve(n) = NULL
<1>1. \A k \in 1 .. depth : DOMAIN Stack[k] = {sym[i] : i \in Entries(k)}
  BY StackTop
<1>2. Abstract!Binding(n) = {k \in 1 .. depth : n \in DOMAIN Stack[k]}
  BY StackTop DEF Abstract!Binding, Stack
<1>3. Abstract!Binding(n) = {}
  BY <1>1, <1>2
<1>4. QED
  BY <1>3 DEF Abstract!Resolve

\* A look-up that returns answers with the innermost binding.
LEMMA AnswerRefines ==
  ASSUME SymInv, SymInv', RefInv, Found \/ NotFound
  PROVE  \/ \E n \in Name : Abstract!AskEntry(n)
         \/ \E n \in Name, s \in {"identifier", "typename"} : Abstract!AskType(n, s)
<1> USE SymbolAssumption
<1> DEFINE n == rest[1]
           entry == Abstract!Resolve(n)
           type == IF Abstract!Binding(n) # {} /\ entry.sort = want.sort THEN entry.type ELSE None
<1>1. /\ Looking /\ LookInPlace /\ depth \in Level
      /\ n \in Name /\ want.sort \in {"identifier", "typename"}
  <2>1. Looking /\ LookInPlace
    BY DEF Found, NotFound, RefInv
  <2>2. depth \in Level
    BY <2>1, Quiet DEF SymInv, TypeOK, Looking
  <2>3. QED
    BY <2>1, <2>2 DEF LookInPlace, Sort
<1>2. /\ UNCHANGED heap
      /\ answer' = [asked |-> Question, value |-> IF call = "GetEntry" THEN entry ELSE type]
  <2>1. CASE Found
    <3>1. /\ iter # NULL /\ sym[iter] = n
          /\ Return(IF call = "GetEntry" THEN info[iter]
                    ELSE IF info[iter].sort = want.sort THEN info[iter].type
                    ELSE None)
      BY <2>1 DEF Found
    <3>2. level \in 1 .. depth /\ iter \in Entries(level)
      BY <1>1, <3>1 DEF LookInPlace, Level
    <3>3. \A k \in level + 1 .. depth : \A i \in Entries(k) : sym[i] # n
      BY <1>1 DEF LookInPlace
    <3>4. \A l \in 1 .. depth : \A m \in Entries(l) :
            l = level /\ m = iter => Abstract!Binding(sym[m]) # {} /\ Abstract!Resolve(sym[m]) = info[m]
      <4> TAKE l \in 1 .. depth
      <4> TAKE m \in Entries(l)
      <4> HAVE l = level /\ m = iter
      <4>1. \A k \in l + 1 .. depth : \A i \in Entries(k) : sym[i] # sym[m]
        BY <3>1, <3>3
      <4>2. QED
        BY <1>1, <4>1, ResolvesTo
    <3>5. Abstract!Binding(n) # {} /\ entry = info[iter]
      BY <3>1, <3>2, <3>4
    <3>6. QED
      BY <3>1, <3>5 DEF Return
  <2>2. CASE NotFound
    <3>1. level = 0 /\ Return(IF call = "GetEntry" THEN NULL ELSE None)
      BY <2>2 DEF NotFound
    <3>2. \A l \in 1 .. depth : \A m \in Entries(l) : sym[m] # n
      BY <1>1, <3>1 DEF LookInPlace
    <3>3. Abstract!Binding(n) = {} /\ entry = NULL
      BY <1>1, <3>2, ResolvesToNone
    <3>4. QED
      BY <3>1, <3>3 DEF Return
  <2>3. QED
    BY <2>1, <2>2
<1>3. Stack' = Stack
  BY <1>2 DEF Stack, ScopeOf, Entries, heap
<1>4. CASE call = "GetEntry"
  <2>1. Abstract!AskEntry(n)
    BY <1>2, <1>3, <1>4 DEF Abstract!AskEntry, Abstract!Answer, Question, Stack
  <2>2. QED
    BY <1>1, <2>1
<1>5. CASE call = "FindSymbol"
  <2>1. Abstract!AskType(n, want.sort)
    BY <1>2, <1>3, <1>5 DEF Abstract!AskType, Abstract!Answer, Question, Stack
  <2>2. QED
    BY <1>1, <2>1
<1>6. QED
  BY <1>1, <1>4, <1>5 DEF Looking

\* The other steps leave the scopes alone.
LEMMA OtherStepsKeepStack ==
  ASSUME SymInv, SymInv', NextName \/ Redefine \/ ScanOn \/ WalkOn \/ NextLevel
  PROVE  Stack' = Stack /\ answer' = answer
<1> USE SymbolAssumption
<1>1. CASE ScanOn \/ WalkOn \/ NextLevel
  <2>1. UNCHANGED <<heap, answer>>
    BY <1>1 DEF ScanOn, WalkOn, NextLevel
  <2>2. QED
    BY <2>1 DEF Stack, ScopeOf, Entries, heap
<1>2. CASE NextName /\ rest = <<>>
  BY <1>2 DEF NextName, Stack, ScopeOf, Entries, heap
<1>3. CASE NextName /\ rest # <<>>
  <2>1. PICK c \in Node : /\ owner[c] = Free /\ owner' = [owner EXCEPT ![c] = Pending]
                          /\ sym' = [sym EXCEPT ![c] = Head(rest)] /\ tmp' = c
    BY <1>3 DEF NextName, Begin
  <2>2. info' = [info EXCEPT ![c] = want] /\ UNCHANGED <<depth, answer>>
    BY <1>3, <2>1 DEF NextName
  <2>3. \A n \in Node : owner[n] \in 1 .. depth \/ owner'[n] \in 1 .. depth =>
           owner'[n] = owner[n] /\ sym'[n] = sym[n] /\ info'[n] = info[n]
    BY <2>1, <2>2 DEF SymInv, TypeOK, Free, Pending
  <2>4. QED
    BY <2>2, <2>3, StackKept
<1>4. CASE Redefine
  <2>1. /\ tmp \in Node /\ owner[tmp] = Pending /\ owner' = [owner EXCEPT ![tmp] = Leaked]
        /\ UNCHANGED <<depth, sym, info, answer>>
    BY <1>4 DEF Redefine, SymInv, ScanInPlace, Scanning, TypeOK, Pointer
  <2>2. \A n \in Node : owner[n] \in 1 .. depth \/ owner'[n] \in 1 .. depth =>
           owner'[n] = owner[n] /\ sym'[n] = sym[n] /\ info'[n] = info[n]
    BY <2>1 DEF SymInv, TypeOK, Leaked, Pending
  <2>3. QED
    BY <2>1, <2>2, StackKept
<1>5. QED
  BY <1>1, <1>2, <1>3, <1>4

\* A call that adds names or looks one up forgets the last answer.
LEMMA CallsForget ==
  ASSUME SymInv, SymInv',
         \/ \E f \in {"AddParam", "AddIDList"}, names \in IdLists, w \in Info : AddNames(f, names, w)
         \/ \E f \in {"FindSymbol", "GetEntry"}, n \in Name, s \in Sort : LookUp(f, n, s)
  PROVE  Abstract!Forget
<1> USE SymbolAssumption
<1>1. Stack' = Stack /\ answer' = NoAnswer
  <2>1. ASSUME NEW f \in {"AddParam", "AddIDList"}, NEW names \in IdLists, NEW w \in Info,
               AddNames(f, names, w)
        PROVE  Stack' = Stack /\ answer' = NoAnswer
    <3>1. PICK c \in Node : /\ owner[c] = Free /\ owner' = [owner EXCEPT ![c] = Pending]
                            /\ sym' = [sym EXCEPT ![c] = Head(names)] /\ tmp' = c
      BY <2>1 DEF AddNames, Begin
    <3>2. info' = [info EXCEPT ![c] = w] /\ depth' = depth /\ answer' = NoAnswer
      BY <2>1, <3>1 DEF AddNames
    <3>3. \A n \in Node : owner[n] \in 1 .. depth \/ owner'[n] \in 1 .. depth =>
             owner'[n] = owner[n] /\ sym'[n] = sym[n] /\ info'[n] = info[n]
      BY <3>1, <3>2 DEF SymInv, TypeOK, Free, Pending
    <3>4. QED
      BY <3>2, <3>3, StackKept
  <2>2. ASSUME NEW f \in {"FindSymbol", "GetEntry"}, NEW n \in Name, NEW s \in Sort,
               LookUp(f, n, s)
        PROVE  Stack' = Stack /\ answer' = NoAnswer
    BY <2>2 DEF LookUp, Stack, ScopeOf, Entries, heap
  <2>3. QED
    BY <2>1, <2>2
<1>2. QED
  BY <1>1 DEF Abstract!Forget, Stack, NoAnswer, Abstract!NoAnswer

\* The global level is the only scope at first, and empty.
LEMMA InitRefines == Init => Abstract!SInit
<1>1. SUFFICES ASSUME Init PROVE Abstract!SInit
  OBVIOUS
<1>2. /\ depth = 1 /\ answer = NoAnswer
      /\ Entries(1) = {}
  BY <1>1 DEF Init, Entries, Free
<1>3. ScopeOf(1) = Abstract!NoNames
  BY <1>2 DEF ScopeOf, Abstract!NoNames
<1>4. Stack = [l \in 1 .. 1 |-> Abstract!NoNames]
  BY <1>2, <1>3 DEF Stack
<1>5. Stack = <<Abstract!NoNames>>
  BY <1>4
<1>6. QED
  BY <1>2, <1>5 DEF Abstract!SInit, Stack, NoAnswer, Abstract!NoAnswer

\* Every step is a step of the stack of scopes or leaves it alone.
LEMMA NextRefines ==
  ASSUME SymInv, SymInv', RefInv, [Next]_vars
  PROVE  [Abstract!SNext]_(Abstract!scopeVars)
<1>1. CASE Calls
  <2>1. CASE CreateLevel
    BY <2>1, CreateLevelRefines DEF Abstract!SNext
  <2>2. CASE ReleaseLevel \/ Release
    BY <2>2, PopLevelRefines DEF Abstract!SNext, ReleaseLevel, Release
  <2>3. CASE \/ \E f \in {"AddParam", "AddIDList"}, names \in IdLists, w \in Info : AddNames(f, names, w)
             \/ \E f \in {"FindSymbol", "GetEntry"}, n \in Name, s \in Sort : LookUp(f, n, s)
    BY <2>3, CallsForget DEF Abstract!SNext
  <2>4. QED
    BY <1>1, <2>1, <2>2, <2>3 DEF Calls
<1>2. CASE Steps
  <2>1. CASE InsertFirst \/ InsertLast \/ InsertBefore
    BY <2>1, LinkRefines DEF Abstract!SNext
  <2>2. CASE Found \/ NotFound
    BY <2>2, AnswerRefines DEF Abstract!SNext
  <2>3. CASE NextName \/ Redefine \/ ScanOn \/ WalkOn \/ NextLevel
    BY <2>3, OtherStepsKeepStack DEF Abstract!scopeVars, Stack
  <2>4. QED
    BY <1>2, <2>1, <2>2, <2>3 DEF Steps
<1>3. CASE UNCHANGED vars
  BY <1>3 DEF vars, Abstract!scopeVars, ScopeOf, Entries
<1>4. QED
  BY <1>1, <1>2, <1>3 DEF Next, Exited

\* What a look-up passed and what it recorded is inductive with SymInv.
LEMMA RefInvariance == Spec => [](SymInv /\ RefInv)
<1>1. Init => SymInv /\ RefInv
  BY InvInit, RefInit
<1>2. SymInv /\ RefInv /\ [Next]_vars => RefInv'
  <2>1. SUFFICES ASSUME SymInv, RefInv, [Next]_vars PROVE RefInv'
    OBVIOUS
  <2>2. CASE Calls \/ Steps
    BY <2>1, <2>2, CallsKeepRef, StepsKeepRef
  <2>3. CASE UNCHANGED vars
    BY <2>1, <2>3 DEF vars, RefInv, LookInPlace, Looking, Entries
  <2>4. QED
    BY <2>1, <2>2, <2>3 DEF Next, Exited
<1>3. QED
  BY <1>1, <1>2, Invariance, PTL DEF Spec

\* The lists implement a stack of scopes: look-ups answer with the innermost
\* binding, the first declaration of a name in a level wins, and closing a level
\* uncovers what was bound before (FindSymbolInTable, GetTableEntry,
\* AddIDListToSymbolTable, AddParamInDeclarator, ReleaseSymbolTableLevel).
THEOREM SymbolTableImplementsScopes == Spec => ImplementsScopes
<1>1. Init => Abstract!SInit
  BY InitRefines
<1>2. SymInv /\ SymInv' /\ RefInv /\ [Next]_vars => [Abstract!SNext]_(Abstract!scopeVars)
  BY NextRefines
<1>3. QED
  BY <1>1, <1>2, RefInvariance, PTL DEF Spec, ImplementsScopes, Abstract!SSpec
=============================================================================

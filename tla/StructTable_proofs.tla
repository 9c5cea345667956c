------------------------- MODULE StructTable_proofs -------------------------
(***************************************************************************)
(* Theorems about module StructTable, for all names, lists of declarations *)
(* and bounds.  First what a walk reads: it is computed by a recursive     *)
(* function, and shown to be the least set with its start and whatever     *)
(* follows it.  Then what AddToStructDescriptor makes of two lists that    *)
(* may be tied to one another (AddOutcome); it only takes that pointers    *)
(* lead to greater names, which no step changes.  With that the inductive  *)
(* invariant IInv is kept: what is changed is not part of a finished       *)
(* descriptor, and the copies of those in the entries stay true.           *)
(***************************************************************************)
EXTENDS StructTable, FiniteSetTheorems, NaturalsInduction, SequenceTheorems,
        WellFoundedInduction, TLAPS

\* A non-empty set of natural numbers has a least element.
LEMMA LeastNatural ==
  ASSUME NEW S \in SUBSET Nat, S # {}
  PROVE  \E m \in S : \A n \in S : m <= n
<1> DEFINE R == {p \in Nat \X Nat : p[1] < p[2]}
<1>1. IsWellFoundedOn(R, Nat)
  BY NatLessThanWellFounded DEF OpToRel
<1>2. \A m, n \in Nat : <<n, m>> \in R <=> n < m
  OBVIOUS
<1> HIDE DEF R
<1>3. PICK m \in S : \A n \in S : <<n, m>> \notin R
  BY <1>1, WFMin
<1>4. ASSUME NEW n \in S PROVE m <= n
  <2>1. m \in Nat /\ n \in Nat
    OBVIOUS
  <2>2. ~(n < m)
    BY <1>2, <1>3, <2>1
  <2>3. QED
    BY <2>1, <2>2
<1>5. QED
  BY <1>4

\* What a walk has read one step after it has read T.
ReadOn(h, nx, go, T) == ({h} \cup {nx[c] : c \in T \cap go}) \ {NULL}

\* g is the sequence of the first n sets read.
Walked(g, h, nx, go, n) ==
  g = [k \in 0 .. n |-> IF k = 0 THEN {h} \ {NULL} ELSE ReadOn(h, nx, go, g[k - 1])]

\* There is such a sequence: the recursion of Reads is well-founded.
LEMMA ReadsPrefix ==
  ASSUME NEW h, NEW nx, NEW go, NEW n \in Nat
  PROVE  \E g : Walked(g, h, nx, go, n)
<1> DEFINE Good(m, g) == g = [k \in 0 .. m |->
                       IF k = 0 THEN {h} \ {NULL} ELSE ReadOn(h, nx, go, g[k - 1])]
           Bad == {m \in Nat : ~ \E g : Good(m, g)}
<1>1. SUFFICES Bad = {}
  BY DEF Walked
<1>2. SUFFICES ASSUME Bad # {} PROVE FALSE
  OBVIOUS
<1>3. PICK m \in Bad : \A k \in Bad : m <= k
  BY <1>2, LeastNatural
<1>4. m \in Nat /\ ~ \E g : Good(m, g)
  OBVIOUS
<1>5. CASE m = 0
  <2> DEFINE g == [k \in 0 .. 0 |-> {h} \ {NULL}]
  <2>1. Good(0, g)
    OBVIOUS
  <2>2. QED
    BY <1>4, <1>5, <2>1
<1>6. CASE m # 0
  <2>1. m - 1 \in Nat /\ m - 1 \notin Bad
    <3>1. m - 1 \in Nat /\ ~(m <= m - 1)
      BY <1>4, <1>6
    <3> HIDE DEF Bad
    <3>2. QED
      BY <1>3, <3>1
  <2>2. PICK f : Good(m - 1, f)
    BY <2>1
  <2> DEFINE g == [k \in 0 .. m |-> IF k = m THEN ReadOn(h, nx, go, f[m - 1]) ELSE f[k]]
  <2>3. \A k \in 0 .. m - 1 :
          f[k] = IF k = 0 THEN {h} \ {NULL} ELSE ReadOn(h, nx, go, f[k - 1])
    BY <2>2, Zenon
  <2>4. \A k \in 0 .. m :
          g[k] = IF k = 0 THEN {h} \ {NULL} ELSE ReadOn(h, nx, go, g[k - 1])
    <3>1. ASSUME NEW k \in 0 .. m
          PROVE g[k] = IF k = 0 THEN {h} \ {NULL} ELSE ReadOn(h, nx, go, g[k - 1])
      <4>1. CASE k = m
        <5>1. g[k] = ReadOn(h, nx, go, f[m - 1]) /\ g[k - 1] = f[m - 1]
          BY <4>1, <1>6, <1>4
        <5>2. QED
          BY <5>1, <4>1, <1>6
      <4>2. CASE k # m
        <5>1. k \in 0 .. m - 1 /\ (k # 0 => k - 1 \in 0 .. m - 1)
          BY <4>2, <1>4
        <5>2. g[k] = f[k] /\ (k # 0 => g[k - 1] = f[k - 1])
          BY <5>1, <4>2, <1>4
        <5>3. QED
          BY <5>1, <5>2, <2>3
      <4>3. QED
        BY <4>1, <4>2
    <3>2. QED
      BY <3>1
  <2>5. Good(m, g)
    <3>1. g = [k \in 0 .. m |-> g[k]]
      OBVIOUS
    <3> HIDE DEF g
    <3>2. QED
      BY <3>1, <2>4
  <2>6. QED
    BY <1>4, <2>5
<1>7. QED
  BY <1>5, <1>6

\* The recursion of Reads holds of what it defines.
LEMMA ReadsStep ==
  ASSUME NEW h, NEW nx, NEW go
  PROVE  /\ Reads(h, nx, go)[0] = {h} \ {NULL}
         /\ \A n \in Nat : n + 1 \in 0 .. MaxMembers =>
              Reads(h, nx, go)[n + 1] = ReadOn(h, nx, go, Reads(h, nx, go)[n])
<1> DEFINE Body(g) == [k \in 0 .. MaxMembers |->
             ({h} \cup IF k = 0 THEN {} ELSE {nx[c] : c \in g[k - 1] \cap go}) \ {NULL}]
<1>1. MaxMembers \in Nat
  BY StructAssumption
<1>2. \E g : g = Body(g)
  <2>1. PICK g : Walked(g, h, nx, go, MaxMembers)
    BY <1>1, ReadsPrefix
  <2>2. g = Body(g)
    BY <2>1 DEF ReadOn, Walked
  <2>3. QED
    BY <2>2
<1>3. Reads(h, nx, go) = CHOOSE g : g = Body(g)
  BY DEF Reads
<1>4. Reads(h, nx, go) = Body(Reads(h, nx, go))
  BY <1>2, <1>3
<1> DEFINE R == Reads(h, nx, go)
<1>5. \A k \in 0 .. MaxMembers :
        R[k] = ({h} \cup IF k = 0 THEN {} ELSE {nx[c] : c \in R[k - 1] \cap go}) \ {NULL}
  BY <1>4
<1> HIDE DEF R
<1>6. R[0] = {h} \ {NULL}
  BY <1>1, <1>5
<1>7. ASSUME NEW n \in Nat, n + 1 \in 0 .. MaxMembers
      PROVE  R[n + 1] = ReadOn(h, nx, go, R[n])
  <2>1. (n + 1) # 0 /\ (n + 1) - 1 = n
    OBVIOUS
  <2>2. QED
    BY <1>5, <1>7, <2>1 DEF ReadOn
<1>8. QED
  BY <1>6, <1>7 DEF R

\* Induction, for a set of numbers.
LEMMA SetInduction ==
  ASSUME NEW S, 0 \in S, \A n \in Nat : n \in S => n + 1 \in S
  PROVE  Nat \subseteq S
<1> DEFINE Bad == Nat \ S
<1>1. SUFFICES ASSUME Bad # {} PROVE FALSE
  OBVIOUS
<1>2. PICK m \in Bad : \A k \in Bad : m <= k
  BY <1>1, LeastNatural
<1>3. m \in Nat /\ m \notin S /\ m # 0
  OBVIOUS
<1>4. m - 1 \in Nat /\ ~(m <= m - 1) /\ (m - 1) + 1 = m
  BY <1>3
<1>5. m - 1 \in S
  BY <1>2, <1>4
<1>6. QED
  BY <1>3, <1>4, <1>5

\* A walk stays in every set that has its start and what follows.
LEMMA VisitsLeast ==
  ASSUME NEW h \in Cell \cup {NULL}, NEW nx \in [Cell -> Cell \cup {NULL}], NEW go,
         NEW S,
         h # NULL => h \in S,
         \A c \in S \cap go : nx[c] # NULL => nx[c] \in S
  PROVE  Visits(h, nx, go) \subseteq S
<1> DEFINE R(n) == Reads(h, nx, go)[n]
           T == {n \in Nat : n \in 0 .. MaxMembers => R(n) \subseteq S}
<1>1. MaxMembers \in Nat
  BY StructAssumption
<1>2. 0 \in T
  <2>1. R(0) = {h} \ {NULL}
    BY ReadsStep
  <2>2. QED
    BY <2>1
<1>3. ASSUME NEW n \in Nat, n \in T PROVE n + 1 \in T
  <2>1. SUFFICES ASSUME n + 1 \in 0 .. MaxMembers PROVE R(n + 1) \subseteq S
    OBVIOUS
  <2>2. n \in 0 .. MaxMembers /\ R(n) \subseteq S
    BY <1>3, <2>1, <1>1
  <2>3. R(n + 1) = ReadOn(h, nx, go, R(n))
    BY <2>1, ReadsStep
  <2>4. QED
    BY <2>2, <2>3 DEF ReadOn
<1>4. MaxMembers \in T
  <2> HIDE DEF T
  <2>1. QED
    BY <1>1, <1>2, <1>3, SetInduction
<1>5. QED
  BY <1>1, <1>4 DEF Visits

\* After MaxMembers steps there is nothing more to read: a walk that reads
\* something new in each step would have read more members than there are.
LEMMA VisitsClosed ==
  ASSUME NEW h \in Cell \cup {NULL}, NEW nx \in [Cell -> Cell \cup {NULL}], NEW go
  PROVE  /\ Visits(h, nx, go) \subseteq Cell
         /\ h # NULL => h \in Visits(h, nx, go)
         /\ \A c \in Visits(h, nx, go) \cap go : nx[c] # NULL => nx[c] \in Visits(h, nx, go)
<1>1. MaxMembers \in Nat /\ IsFiniteSet(Cell) /\ Cardinality(Cell) = MaxMembers
  <2>1. MaxMembers \in Nat
    BY StructAssumption
  <2>2. QED
    BY <2>1, FS_Interval DEF Cell
<1>2. CASE h = NULL
  <2>1. Visits(h, nx, go) \subseteq {}
    <3> DEFINE E == {}
    <3>1. (h # NULL => h \in E) /\ \A c \in E \cap go : nx[c] # NULL => nx[c] \in E
      BY <1>2
    <3> HIDE DEF E
    <3>2. Visits(h, nx, go) \subseteq E
      BY <3>1, VisitsLeast
    <3>3. QED
      BY <3>2 DEF E
  <2>2. QED
    BY <1>2, <2>1
<1>3. CASE h # NULL
  <2> DEFINE F(A) == ReadOn(h, nx, go, A)
             R(n) == Reads(h, nx, go)[n]
             Holds(n) == /\ h \in R(n) /\ R(n) \subseteq Cell /\ R(n) \subseteq F(R(n))
                         /\ Cardinality(R(n)) >= n + 1 \/ F(R(n)) = R(n)
             T == {n \in Nat : n \in 0 .. MaxMembers => Holds(n)}
  <2>1. \A A \in SUBSET Cell : F(A) \subseteq Cell /\ h \in F(A)
    BY <1>3 DEF ReadOn
  <2>2. \A A, B \in SUBSET Cell : A \subseteq B => F(A) \subseteq F(B)
    BY DEF ReadOn
  <2>3. 0 \in T
    <3>1. R(0) = {h} \ {NULL}
      BY ReadsStep
    <3>2. R(0) = {h}
      BY <1>3, <3>1
    <3>3. Cardinality({h}) = 1
      BY FS_Singleton
    <3>4. h \in F({h}) /\ {h} \subseteq Cell
      BY <1>3 DEF ReadOn
    <3>5. QED
      BY <3>2, <3>3, <3>4
  <2>4. ASSUME NEW n \in Nat, n \in T PROVE n + 1 \in T
    <3>1. SUFFICES ASSUME n + 1 \in 0 .. MaxMembers PROVE Holds(n + 1)
      OBVIOUS
    <3>2. n \in 0 .. MaxMembers /\ Holds(n)
      BY <2>4, <3>1, <1>1
    <3>3. R(n + 1) = F(R(n))
      BY <3>1, ReadsStep
    <3> DEFINE A == R(n)
               B == R(n + 1)
    <3>4. /\ A \in SUBSET Cell /\ A \subseteq F(A) /\ B = F(A)
          /\ Cardinality(A) >= n + 1 \/ F(A) = A
      BY <3>2, <3>3
    <3>5. B \in SUBSET Cell /\ h \in B /\ A \subseteq B
      BY <2>1, <3>4
    <3>6. B \subseteq F(B)
      BY <2>2, <3>4, <3>5
    <3>7. Cardinality(B) >= (n + 1) + 1 \/ F(B) = B
      <4>1. CASE F(A) = A
        BY <4>1, <3>4
      <4>2. CASE F(A) # A /\ Cardinality(A) >= n + 1
        <5>1. IsFiniteSet(B) /\ A \subseteq B /\ A # B
          BY <4>2, <3>4, <3>5, <1>1, FS_Subset
        <5>2. Cardinality(A) < Cardinality(B)
          <6> HIDE DEF A, B, F, R
          <6>1. Cardinality(A) \in Nat /\ Cardinality(B) \in Nat
            BY <5>1, FS_Subset, FS_CardinalityType
          <6>2. Cardinality(A) <= Cardinality(B) /\ (Cardinality(B) = Cardinality(A) => A = B)
            BY <5>1, FS_Subset
          <6>3. QED
            BY <6>1, <6>2, <5>1
        <5>3. Cardinality(A) \in Int /\ Cardinality(B) \in Int
          BY <5>1, FS_Subset, FS_CardinalityType
        <5>4. QED
          BY <4>2, <5>2, <5>3
      <4>3. QED
        BY <3>4, <4>1, <4>2
    <3>8. QED
      BY <3>5, <3>6, <3>7
  <2>5. MaxMembers \in T
    <3> HIDE DEF T
    <3>1. QED
      BY <1>1, <2>3, <2>4, SetInduction
  <2>6. Holds(MaxMembers)
    BY <2>5, <1>1
  <2> DEFINE V == Visits(h, nx, go)
  <2>7. /\ h \in V /\ V \subseteq Cell
        /\ Cardinality(V) >= MaxMembers + 1 \/ F(V) = V
    BY <2>6 DEF Visits
  <2>8. Cardinality(V) <= MaxMembers /\ Cardinality(V) \in Nat
    <3> HIDE DEF V
    <3>1. QED
      BY <2>7, <1>1, FS_Subset, FS_CardinalityType
  <2>9. F(V) = V
    <3>1. ~(Cardinality(V) >= MaxMembers + 1)
      BY <2>8, <1>1
    <3>2. QED
      BY <3>1, <2>7
  <2>10. ASSUME NEW c \in V \cap go, nx[c] # NULL PROVE nx[c] \in V
    <3>1. nx[c] \in F(V)
      BY <2>10 DEF ReadOn
    <3>2. QED
      BY <3>1, <2>9
  <2>11. QED
    BY <2>7, <2>10
<1>4. QED
  BY <1>2, <1>3

\* The members of a list.
Reach(h, nx) == Visits(h, nx, Cell)

\* NULL is not the number of a member.
LEMMA NullIsNoCell == NULL \notin Cell
BY DEF NULL, Cell

\* A list has its head and the next of each of its members.
LEMMA ReachClosed ==
  ASSUME NEW h \in Cell \cup {NULL}, NEW nx \in [Cell -> Cell \cup {NULL}]
  PROVE  /\ Reach(h, nx) \subseteq Cell
         /\ h # NULL => h \in Reach(h, nx)
         /\ \A c \in Reach(h, nx) : nx[c] # NULL => nx[c] \in Reach(h, nx)
BY VisitsClosed DEF Reach

\* It is part of every set that does.
LEMMA ReachLeast ==
  ASSUME NEW h \in Cell \cup {NULL}, NEW nx \in [Cell -> Cell \cup {NULL}], NEW S,
         h # NULL => h \in S,
         \A c \in S \cap Cell : nx[c] # NULL => nx[c] \in S
  PROVE  Reach(h, nx) \subseteq S
BY VisitsLeast DEF Reach

\* Pointers elsewhere don't matter to a list.
LEMMA ReachFrame ==
  ASSUME NEW h \in Cell \cup {NULL}, NEW nx \in [Cell -> Cell \cup {NULL}],
         NEW nx2 \in [Cell -> Cell \cup {NULL}],
         \A c \in Reach(h, nx) : nx2[c] = nx[c]
  PROVE  Reach(h, nx2) = Reach(h, nx)
<1> DEFINE V == Reach(h, nx)
           W == Reach(h, nx2)
<1>1. /\ V \subseteq Cell /\ (h # NULL => h \in V)
      /\ \A c \in V : nx[c] # NULL => nx[c] \in V
  BY ReachClosed
<1>2. /\ W \subseteq Cell /\ (h # NULL => h \in W)
      /\ \A c \in W : nx2[c] # NULL => nx2[c] \in W
  BY ReachClosed
<1>3. \A c \in V : nx2[c] = nx[c]
  OBVIOUS
<1>4. W \subseteq V
  <2>1. \A c \in V \cap Cell : nx2[c] # NULL => nx2[c] \in V
    BY <1>1, <1>3
  <2> HIDE DEF V
  <2>2. QED
    BY <1>1, <2>1, ReachLeast
<1>5. V \subseteq W
  <2> DEFINE S == V \cap W
  <2>1. \A c \in S \cap Cell : nx[c] # NULL => nx[c] \in S
    BY <1>1, <1>2, <1>3
  <2>2. h # NULL => h \in S
    BY <1>1, <1>2
  <2> HIDE DEF S
  <2>3. V \subseteq S
    BY <2>1, <2>2, ReachLeast
  <2>4. QED
    BY <2>3 DEF S
<1>6. QED
  BY <1>4, <1>5

\* The rest of a list is part of it.
LEMMA ReachWithin ==
  ASSUME NEW h \in Cell \cup {NULL}, NEW nx \in [Cell -> Cell \cup {NULL}],
         NEW c \in Reach(h, nx) \cup {NULL}
  PROVE  Reach(c, nx) \subseteq Reach(h, nx)
<1> DEFINE V == Reach(h, nx)
<1>1. V \subseteq Cell /\ \A x \in V : nx[x] # NULL => nx[x] \in V
  BY ReachClosed
<1>2. c \in Cell \cup {NULL} /\ (c # NULL => c \in V)
  BY <1>1
<1> HIDE DEF V
<1>3. Reach(c, nx) \subseteq V
  BY <1>1, <1>2, ReachLeast
<1>4. QED
  BY <1>3 DEF V

\* A list is its head and the list that follows.
LEMMA ReachUnfold ==
  ASSUME NEW nx \in [Cell -> Cell \cup {NULL}], NEW c \in Cell
  PROVE  Reach(c, nx) = {c} \cup Reach(nx[c], nx)
<1> DEFINE V == Reach(nx[c], nx)
           S == {c} \cup V
<1>1. nx[c] \in Cell \cup {NULL}
  OBVIOUS
<1>2. /\ V \subseteq Cell /\ (nx[c] # NULL => nx[c] \in V)
      /\ \A x \in V : nx[x] # NULL => nx[x] \in V
  BY <1>1, ReachClosed
<1>3. Reach(c, nx) \subseteq S
  <2>1. c \in S /\ \A x \in S \cap Cell : nx[x] # NULL => nx[x] \in S
    BY <1>2
  <2> HIDE DEF S
  <2>2. QED
    BY <2>1, ReachLeast
<1>4. c \in Reach(c, nx) /\ nx[c] \in Reach(c, nx) \cup {NULL}
  BY ReachClosed, NullIsNoCell
<1>5. V \subseteq Reach(c, nx)
  BY <1>4, ReachWithin
<1>6. QED
  BY <1>3, <1>4, <1>5

\* The empty list.
LEMMA ReachNull ==
  ASSUME NEW nx \in [Cell -> Cell \cup {NULL}]
  PROVE  Reach(NULL, nx) = {}
<1> DEFINE E == {}
<1>1. \A c \in E \cap Cell : nx[c] # NULL => nx[c] \in E
  OBVIOUS
<1> HIDE DEF E
<1>2. Reach(NULL, nx) \subseteq E
  BY <1>1, ReachLeast
<1>3. QED
  BY <1>2 DEF E

-----------------------------------------------------------------------------
\* A pointer leads from a member to a member with a greater name.
Grows(nm, nx) ==
  \A c \in Cell : nx[c] # NULL =>
    c \in DOMAIN nm /\ nx[c] \in DOMAIN nm /\ nm[c] < nm[nx[c]]

\* Names and pointers of members, as the searches need them.
Lists(nm, nx) ==
  /\ nm \in Seq(Names) /\ Len(nm) <= MaxMembers
  /\ nx \in [Cell -> Cell \cup {NULL}]
  /\ Grows(nm, nx)

\* Members are cells with a number for a name.
LEMMA NamesAreNumbers ==
  ASSUME NEW nm \in Seq(Names), Len(nm) <= MaxMembers
  PROVE  DOMAIN nm \subseteq Cell /\ \A c \in DOMAIN nm : nm[c] \in Int
<1>1. MaxMembers \in Nat /\ Names \subseteq Int
  BY StructAssumption
<1>2. Len(nm) \in Nat /\ DOMAIN nm = 1 .. Len(nm)
  BY LenProperties
<1>3. DOMAIN nm \subseteq Cell
  BY <1>1, <1>2 DEF Cell
<1>4. \A c \in DOMAIN nm : nm[c] \in Names
  BY <1>2, ElementOfSeq
<1>5. QED
  BY <1>1, <1>3, <1>4

\* Names grow along a list.
LEMMA ReachGrows ==
  ASSUME NEW nm, NEW nx, Lists(nm, nx), NEW h \in DOMAIN nm
  PROVE  /\ Reach(h, nx) \subseteq DOMAIN nm
         /\ \A c \in Reach(h, nx) : nm[h] <= nm[c]
<1> DEFINE S == {c \in DOMAIN nm : nm[h] <= nm[c]}
<1>1. /\ nm \in Seq(Names) /\ Len(nm) <= MaxMembers
      /\ nx \in [Cell -> Cell \cup {NULL}] /\ Grows(nm, nx)
  BY DEF Lists
<1>2. DOMAIN nm \subseteq Cell /\ \A c \in DOMAIN nm : nm[c] \in Int
  BY <1>1, NamesAreNumbers
<1>3. h \in S
  BY <1>2
<1>4. ASSUME NEW c \in S \cap Cell, nx[c] # NULL PROVE nx[c] \in S
  <2>1. c \in DOMAIN nm /\ nx[c] \in DOMAIN nm /\ nm[c] < nm[nx[c]]
    BY <1>1, <1>4 DEF Grows
  <2>2. nm[c] \in Int /\ nm[nx[c]] \in Int /\ nm[h] \in Int /\ nm[h] <= nm[c]
    BY <1>2, <2>1
  <2>3. QED
    BY <2>1, <2>2
<1>5. Reach(h, nx) \subseteq S
  <2> HIDE DEF S
  <2>1. QED
    BY <1>1, <1>2, <1>3, <1>4, ReachLeast
<1>6. QED
  BY <1>5

\* Nobody walks around in circles.
LEMMA NotBack ==
  ASSUME NEW nm, NEW nx, Lists(nm, nx), NEW c \in Cell, nx[c] # NULL
  PROVE  c \notin Reach(nx[c], nx)
<1>1. /\ nm \in Seq(Names) /\ Len(nm) <= MaxMembers /\ Grows(nm, nx)
  BY DEF Lists
<1>2. c \in DOMAIN nm /\ nx[c] \in DOMAIN nm /\ nm[c] < nm[nx[c]]
  BY <1>1 DEF Grows
<1>3. nm[c] \in Int /\ nm[nx[c]] \in Int
  BY <1>1, <1>2, NamesAreNumbers
<1>4. \A x \in Reach(nx[c], nx) : nm[nx[c]] <= nm[x]
  BY <1>2, ReachGrows
<1>5. QED
  BY <1>2, <1>3, <1>4

\* Every set of members has one whose successor isn't in it: lists end.
LEMMA LastOne ==
  ASSUME NEW nm, NEW nx, Lists(nm, nx), NEW S \in SUBSET Cell, S # {}
  PROVE  \E c \in S : nx[c] \notin S
<1> DEFINE Size(c) == Cardinality(Reach(c, nx))
           T == {Size(c) : c \in S}
<1>1. nx \in [Cell -> Cell \cup {NULL}]
  BY DEF Lists
<1>2. IsFiniteSet(Cell)
  BY StructAssumption, FS_Interval DEF Cell
<1>3. \A c \in Cell : IsFiniteSet(Reach(c, nx)) /\ Size(c) \in Nat
  <2>1. ASSUME NEW c \in Cell PROVE IsFiniteSet(Reach(c, nx)) /\ Size(c) \in Nat
    <3>1. Reach(c, nx) \subseteq Cell
      BY <1>1, ReachClosed
    <3>2. QED
      BY <1>2, <3>1, FS_Subset, FS_CardinalityType
  <2>2. QED
    BY <2>1
<1>4. T \in SUBSET Nat /\ T # {}
  BY <1>3
<1>5. PICK t \in T : \A u \in T : t <= u
  <2> HIDE DEF T
  <2>1. QED
    BY <1>4, LeastNatural
<1>6. PICK c \in S : t = Size(c)
  OBVIOUS
<1>7. ASSUME nx[c] \in S PROVE FALSE
  <2>1. c \in Cell /\ nx[c] \in Cell /\ nx[c] # NULL
    BY <1>7, NullIsNoCell
  <2> DEFINE A == Reach(nx[c], nx)
             B == Reach(c, nx)
  <2>2. A \subseteq B /\ c \in B /\ c \notin A
    BY <1>1, <2>1, ReachUnfold, NotBack
  <2>3. IsFiniteSet(B) /\ Cardinality(A) \in Nat /\ Cardinality(B) \in Nat
    BY <1>3, <2>1
  <2>4. Cardinality(A) < Cardinality(B)
    <3> HIDE DEF A, B
    <3>1. Cardinality(A) <= Cardinality(B) /\ (Cardinality(B) = Cardinality(A) => A = B)
      BY <2>2, <2>3, FS_Subset
    <3>2. QED
      BY <2>2, <2>3, <3>1
  <2>5. Size(nx[c]) \in T
    BY <1>7
  <2>6. t <= Size(nx[c]) /\ t = Cardinality(B)
    BY <1>5, <1>6, <2>5
  <2>7. QED
    BY <2>3, <2>4, <2>6
<1>8. QED
  BY <1>7

-----------------------------------------------------------------------------
\* Descriptors.
Desc == [head : Cell \cup {NULL}, tail : Cell \cup {NULL}]

\* A list may be searched for the place of m.
Search(d, nm, nx, m) ==
  /\ Lists(nm, nx)
  /\ d \in Desc /\ d.head \in DOMAIN nm
  /\ m \in DOMAIN nm

\* What a search may rely on.
LEMMA SearchFacts ==
  ASSUME NEW d, NEW nm, NEW nx, NEW m, Search(d, nm, nx, m)
  PROVE  /\ nx \in [Cell -> Cell \cup {NULL}]
         /\ DOMAIN nm \subseteq Cell /\ \A c \in DOMAIN nm : nm[c] \in Int
         /\ \A c \in Cell : nx[c] # NULL =>
              c \in DOMAIN nm /\ nx[c] \in DOMAIN nm /\ nm[c] < nm[nx[c]]
         /\ d.head \in DOMAIN nm /\ m \in DOMAIN nm
         /\ d.head # NULL /\ m # NULL
<1>1. nm \in Seq(Names) /\ Len(nm) <= MaxMembers /\ nx \in [Cell -> Cell \cup {NULL}]
      /\ Grows(nm, nx) /\ d.head \in DOMAIN nm /\ m \in DOMAIN nm
  BY DEF Search, Lists
<1>2. DOMAIN nm \subseteq Cell /\ \A c \in DOMAIN nm : nm[c] \in Int
  BY <1>1, NamesAreNumbers
<1>3. QED
  BY <1>1, <1>2, NullIsNoCell DEF Grows

\* Where the search stops.
LEMMA SearchStops ==
  ASSUME NEW d, NEW nm, NEW nx, NEW m, Search(d, nm, nx, m)
  PROVE  LET p == Prev(d, nm, nx, m)
             i == Iter(d, nm, nx, m)
             V == Reach(d.head, nx)
         IN /\ \/ p = NULL /\ i = d.head
               \/ p \in V /\ nm[p] < nm[m] /\ i = nx[p] /\ i # d.head
            /\ i = NULL \/ (i \in V /\ nm[i] >= nm[m])
            /\ m \in V => i # NULL /\ nm[i] = nm[m]
<1> DEFINE V == Reach(d.head, nx)
           less == {c \in DOMAIN nm : nm[c] < nm[m]}
           W == Visits(d.head, nx, less)
           P == Passed(d, nm, nx, m)
           p == Prev(d, nm, nx, m)
           i == Iter(d, nm, nx, m)
           Stop(c) == nx[c] = NULL \/ nm[nx[c]] >= nm[m]
<1>1. /\ nx \in [Cell -> Cell \cup {NULL}]
      /\ DOMAIN nm \subseteq Cell /\ \A c \in DOMAIN nm : nm[c] \in Int
      /\ \A c \in Cell : nx[c] # NULL =>
           c \in DOMAIN nm /\ nx[c] \in DOMAIN nm /\ nm[c] < nm[nx[c]]
      /\ d.head \in DOMAIN nm /\ m \in DOMAIN nm
      /\ d.head # NULL /\ m # NULL
  BY SearchFacts
<1>2. Lists(nm, nx) /\ d.head \in Cell \cup {NULL}
  BY <1>1 DEF Search
<1>3. V \subseteq DOMAIN nm /\ \A c \in V : nm[d.head] <= nm[c]
  BY <1>1, <1>2, ReachGrows
<1>4. /\ V \subseteq Cell /\ d.head \in V
      /\ \A c \in V : nx[c] # NULL => nx[c] \in V
  BY <1>1, <1>2, ReachClosed
<1>5. /\ W \subseteq Cell /\ d.head \in W
      /\ \A c \in W \cap less : nx[c] # NULL => nx[c] \in W
  <2> HIDE DEF less
  <2>1. QED
    BY <1>1, <1>2, VisitsClosed
<1>6. W \subseteq V
  <2>1. \A c \in V \cap less : nx[c] # NULL => nx[c] \in V
    BY <1>4
  <2> HIDE DEF less, V
  <2>2. QED
    BY <1>1, <1>2, <1>4, <2>1, VisitsLeast
<1>7. P = W \cap less
  BY DEF Passed
<1>8. P \subseteq V /\ P \subseteq less /\ P \subseteq Cell
  BY <1>4, <1>6, <1>7
<1>9. P = {} => p = NULL /\ i = d.head
  <2> HIDE DEF P
  <2>1. QED
    BY DEF Prev, Iter, P
<1>10. P # {} => p \in P /\ Stop(p) /\ i = nx[p]
  <2>1. ASSUME P # {} PROVE \E c \in P : Stop(c)
    <3>1. PICK c \in P : nx[c] \notin P
      <4> HIDE DEF P
      <4>1. QED
        BY <1>2, <1>8, <2>1, LastOne
    <3>2. ASSUME nx[c] # NULL PROVE nm[nx[c]] >= nm[m]
      <4>1. nx[c] \in W /\ nx[c] \in DOMAIN nm
        BY <1>1, <1>5, <1>7, <1>8, <3>2
      <4>2. ~(nm[nx[c]] < nm[m])
        BY <1>7, <3>1, <4>1
      <4>3. nm[nx[c]] \in Int /\ nm[m] \in Int
        BY <1>1, <4>1
      <4>4. QED
        BY <4>2, <4>3
    <3>3. QED
      BY <3>1, <3>2
  <2>2. P # {} => p = CHOOSE c \in P : Stop(c)
    BY DEF Prev
  <2>3. P # {} => i = nx[p]
    BY DEF Iter
  <2> HIDE DEF P, p, i, Stop
  <2>4. QED
    BY <2>1, <2>2, <2>3
<1>11. \/ P = {} /\ p = NULL /\ i = d.head
       \/ p \in V /\ nm[p] < nm[m] /\ i = nx[p] /\ i # d.head /\ P # {}
  <2>1. CASE P = {}
    BY <1>9, <2>1
  <2>2. CASE P # {}
    <3>1. p \in V /\ p \in less /\ p \in Cell /\ i = nx[p]
      BY <1>8, <1>10, <2>2
    <3>2. nm[p] < nm[m]
      BY <3>1
    <3>3. i # d.head
      <4>1. SUFFICES ASSUME nx[p] = d.head PROVE FALSE
        BY <3>1
      <4>2. nm[p] < nm[d.head] /\ nm[d.head] <= nm[p]
        BY <1>1, <1>3, <3>1, <4>1
      <4>3. nm[p] \in Int /\ nm[d.head] \in Int
        BY <1>1, <3>1
      <4>4. QED
        BY <4>2, <4>3
    <3>4. QED
      BY <2>2, <3>1, <3>2, <3>3
  <2>3. QED
    BY <2>1, <2>2
<1>12. i = NULL \/ (i \in V /\ nm[i] >= nm[m])
  <2>1. CASE P = {}
    <3>1. i = d.head /\ d.head \notin less
      BY <1>5, <1>7, <1>9, <2>1
    <3>2. nm[d.head] \in Int /\ nm[m] \in Int /\ ~(nm[d.head] < nm[m])
      BY <1>1, <3>1
    <3>3. QED
      BY <1>4, <3>1, <3>2
  <2>2. CASE P # {}
    <3>1. p \in V /\ i = nx[p] /\ Stop(p)
      BY <1>8, <1>10, <2>2
    <3>2. QED
      BY <1>4, <3>1
  <2>3. QED
    BY <2>1, <2>2
<1>13. ASSUME m \in V PROVE i # NULL /\ nm[i] = nm[m]
  <2>1. m \in Reach(i, nx)
    <3>1. CASE P = {}
      BY <1>9, <1>13, <3>1
    <3>2. CASE P # {}
      \* Up to p the search has passed, from p on the list is Reach(i, nx).
      <4> DEFINE S == {c \in P : p \in Reach(c, nx)} \cup Reach(i, nx)
      <4>1. p \in P /\ i = nx[p] /\ p \in V /\ p \in Cell
        BY <1>8, <1>10, <3>2
      <4>2. d.head \in P
        <5>1. nm[d.head] <= nm[p] /\ nm[p] < nm[m]
          BY <1>3, <1>8, <4>1
        <5>2. nm[d.head] \in Int /\ nm[p] \in Int /\ nm[m] \in Int
          BY <1>1, <1>3, <4>1
        <5>3. nm[d.head] < nm[m]
          BY <5>1, <5>2
        <5>4. QED
          BY <1>1, <1>5, <1>7, <5>3
      <4>3. d.head \in S
        BY <4>1, <4>2
      <4>4. ASSUME NEW c \in S \cap Cell, nx[c] # NULL PROVE nx[c] \in S
        <5>1. CASE c \in Reach(i, nx)
          <6>1. i \in Cell \cup {NULL}
            BY <1>1, <4>1
          <6>2. nx[c] \in Reach(i, nx)
            BY <1>1, <4>4, <5>1, <6>1, ReachClosed
          <6>3. QED
            BY <6>2
        <5>2. CASE c = p
          <6>1. i \in Cell /\ i # NULL /\ nx[c] = i
            BY <1>1, <4>1, <4>4, <5>2
          <6>2. i \in Reach(i, nx)
            BY <1>1, <6>1, ReachClosed
          <6>3. QED
            BY <6>1, <6>2
        <5>3. CASE c \in P /\ p \in Reach(c, nx) /\ c # p
          <6>1. Reach(c, nx) = {c} \cup Reach(nx[c], nx)
            BY <1>1, ReachUnfold
          <6>2. p \in Reach(nx[c], nx)
            BY <5>3, <6>1
          <6>3. nx[c] \in DOMAIN nm
            BY <1>1, <4>4
          <6>4. nm[nx[c]] <= nm[p] /\ nm[p] < nm[m]
            BY <1>2, <1>8, <4>1, <6>2, <6>3, ReachGrows
          <6>5. nm[nx[c]] \in Int /\ nm[p] \in Int /\ nm[m] \in Int
            BY <1>1, <1>3, <4>1, <6>3
          <6>6. nm[nx[c]] < nm[m]
            BY <6>4, <6>5
          <6>7. nx[c] \in W
            BY <1>5, <1>7, <4>4, <5>3
          <6>8. nx[c] \in P
            BY <1>7, <6>3, <6>6, <6>7
          <6>9. QED
            BY <6>2, <6>8
        <5>4. QED
          BY <5>1, <5>2, <5>3
      <4>5. V \subseteq S
        <5> HIDE DEF S
        <5>1. QED
          BY <1>1, <1>2, <4>3, <4>4, ReachLeast
      <4>6. m \notin P
        BY <1>1, <1>8
      <4>7. QED
        BY <1>13, <4>5, <4>6
    <3>3. QED
      BY <3>1, <3>2
  <2>2. i # NULL
    <3>1. Reach(NULL, nx) = {}
      BY <1>1, ReachNull
    <3>2. QED
      BY <2>1, <3>1
  <2>3. i \in DOMAIN nm /\ nm[i] >= nm[m]
    BY <1>3, <1>12, <2>2
  <2>4. nm[i] <= nm[m]
    <3> HIDE DEF i
    <3>1. QED
      BY <1>2, <2>1, <2>3, ReachGrows
  <2>5. nm[i] \in Int /\ nm[m] \in Int
    BY <1>1, <2>3
  <2>6. QED
    BY <2>2, <2>3, <2>4, <2>5
<1>14. QED
  BY <1>11, <1>12, <1>13

\* What a call of AddToStructDescriptor makes of the list V it is given; R is
\* the list m is the head of.  It is appended with R, inserted, or left out.
Outcome(d, nm, nx, m, a) ==
  LET V == Reach(d.head, nx)
      V2 == Reach(a.desc.head, a.next)
  IN /\ a.desc \in Desc /\ a.desc # NoDesc /\ a.desc.head \in DOMAIN nm
     /\ Lists(nm, a.next)
     /\ \A c \in Cell : c = m \/ c \in V \/ a.next[c] = nx[c]
     /\ \/ V2 = V \cup Reach(m, nx) /\ m \in V2 /\ a.next[m] = nx[m]
        \/ V2 = V \cup {m} /\ a.next[m] \in V
        \/ V2 = V /\ a.next = nx /\ \E c \in V : nm[c] = nm[m]
     /\ m \in V => V2 = V /\ a.next = nx

\* The new pointers of an insertion between prev and iter.
Linked(nx, prev, iter, m) ==
  [c \in DOMAIN nx |-> IF c = m THEN iter ELSE IF c = prev THEN m ELSE nx[c]]

\* The first member makes the descriptor (lines 879-886).
LEMMA FirstMember ==
  ASSUME NEW nm, NEW nx, Lists(nm, nx), NEW m \in DOMAIN nm
  PROVE  Outcome(NoDesc, nm, nx, m, AddToStructDescriptor(NoDesc, nm, nx, m))
<1> DEFINE a == AddToStructDescriptor(NoDesc, nm, nx, m)
           R == Reach(m, nx)
<1>1. a = [desc |-> [head |-> m, tail |-> m], next |-> nx]
  BY DEF AddToStructDescriptor
<1>2. a.desc.head = m /\ a.next = nx /\ a.desc = [head |-> m, tail |-> m]
  BY <1>1
<1>3. nx \in [Cell -> Cell \cup {NULL}] /\ m \in Cell /\ m # NULL
  BY NamesAreNumbers, NullIsNoCell DEF Lists
<1>4. NoDesc.head = NULL /\ Reach(NoDesc.head, nx) = {}
  BY <1>3, ReachNull DEF NoDesc
<1>5. a.desc \in Desc /\ a.desc # NoDesc
  BY <1>2, <1>3 DEF Desc, NoDesc
<1>6. m \in R
  BY <1>3, ReachClosed
<1>7. SUFFICES Outcome(NoDesc, nm, nx, m, a)
  OBVIOUS
<1> HIDE DEF a
<1>8. QED
  BY <1>2, <1>4, <1>5, <1>6 DEF Outcome

\* An insertion between a smaller and a greater name keeps the order.
LEMMA LinkedLists ==
  ASSUME NEW nm, NEW nx, Lists(nm, nx), NEW m \in DOMAIN nm,
         NEW iter \in DOMAIN nm, nm[m] < nm[iter], NEW prev \in Cell \cup {NULL},
         prev # NULL => prev \in DOMAIN nm /\ nm[prev] < nm[m]
  PROVE  Lists(nm, Linked(nx, prev, iter, m))
<1> DEFINE nx2 == Linked(nx, prev, iter, m)
<1>1. /\ nm \in Seq(Names) /\ Len(nm) <= MaxMembers /\ Grows(nm, nx)
      /\ nx \in [Cell -> Cell \cup {NULL}]
  BY DEF Lists
<1>2. DOMAIN nm \subseteq Cell
  BY <1>1, NamesAreNumbers
<1>3. /\ nx2 \in [Cell -> Cell \cup {NULL}]
      /\ \A c \in Cell : nx2[c] = IF c = m THEN iter ELSE IF c = prev THEN m ELSE nx[c]
  BY <1>1, <1>2 DEF Linked
<1> HIDE DEF nx2
<1>4. ASSUME NEW c \in Cell, nx2[c] # NULL
      PROVE c \in DOMAIN nm /\ nx2[c] \in DOMAIN nm /\ nm[c] < nm[nx2[c]]
  <2>1. CASE c = m
    BY <1>3, <2>1
  <2>2. CASE c # m /\ c = prev
    BY <1>3, <2>2, NullIsNoCell
  <2>3. CASE c # m /\ c # prev
    BY <1>1, <1>3, <1>4, <2>3 DEF Grows
  <2>4. QED
    BY <2>1, <2>2, <2>3
<1>5. QED
  BY <1>1, <1>3, <1>4 DEF Lists, Grows, nx2

\* So does a new member behind a smaller name.
LEMMA AppendLists ==
  ASSUME NEW nm, NEW nx, Lists(nm, nx), NEW m \in DOMAIN nm,
         NEW prev \in DOMAIN nm, nm[prev] < nm[m]
  PROVE  Lists(nm, [nx EXCEPT ![prev] = m])
<1> DEFINE nx2 == [nx EXCEPT ![prev] = m]
<1>1. /\ nm \in Seq(Names) /\ Len(nm) <= MaxMembers /\ Grows(nm, nx)
      /\ nx \in [Cell -> Cell \cup {NULL}]
  BY DEF Lists
<1>2. DOMAIN nm \subseteq Cell
  BY <1>1, NamesAreNumbers
<1>3. /\ nx2 \in [Cell -> Cell \cup {NULL}]
      /\ \A c \in Cell : nx2[c] = IF c = prev THEN m ELSE nx[c]
  BY <1>1, <1>2
<1> HIDE DEF nx2
<1>4. ASSUME NEW c \in Cell, nx2[c] # NULL
      PROVE c \in DOMAIN nm /\ nx2[c] \in DOMAIN nm /\ nm[c] < nm[nx2[c]]
  <2>1. CASE c = prev
    BY <1>3, <2>1
  <2>2. CASE c # prev
    BY <1>1, <1>3, <1>4, <2>2 DEF Grows
  <2>3. QED
    BY <2>1, <2>2
<1>5. QED
  BY <1>1, <1>3, <1>4 DEF Lists, Grows, nx2

\* A further one is searched for (lines 887-925).
LEMMA FurtherMember ==
  ASSUME NEW d, NEW nm, NEW nx, NEW m, Search(d, nm, nx, m), d # NoDesc
  PROVE  Outcome(d, nm, nx, m, AddToStructDescriptor(d, nm, nx, m))
<1> DEFINE a == AddToStructDescriptor(d, nm, nx, m)
           p == Prev(d, nm, nx, m)
           i == Iter(d, nm, nx, m)
           h == d.head
           V == Reach(h, nx)
           R == Reach(m, nx)
           V2 == Reach(a.desc.head, a.next)
<1>1. /\ nx \in [Cell -> Cell \cup {NULL}]
      /\ DOMAIN nm \subseteq Cell /\ \A c \in DOMAIN nm : nm[c] \in Int
      /\ h \in DOMAIN nm /\ m \in DOMAIN nm
      /\ h # NULL /\ m # NULL
  BY SearchFacts
<1>2. Lists(nm, nx) /\ d \in Desc /\ h \in Cell /\ m \in Cell
  BY <1>1 DEF Search
<1>3. /\ V \subseteq Cell /\ h \in V /\ V \subseteq DOMAIN nm
      /\ \A c \in V : nx[c] # NULL => nx[c] \in V
  BY <1>1, <1>2, ReachClosed, ReachGrows
<1>4. /\ R \subseteq Cell /\ m \in R
      /\ \A c \in R : nx[c] # NULL => nx[c] \in R
  BY <1>1, <1>2, ReachClosed
<1>5. /\ \/ p = NULL /\ i = h
         \/ p \in V /\ nm[p] < nm[m] /\ i = nx[p] /\ i # h
      /\ i = NULL \/ (i \in V /\ nm[i] >= nm[m])
      /\ m \in V => i # NULL /\ nm[i] = nm[m]
  BY SearchStops
<1>6. a = IF i = NULL THEN [desc |-> [d EXCEPT !.tail = m], next |-> [nx EXCEPT ![p] = m]]
          ELSE IF nm[i] = nm[m] THEN [desc |-> d, next |-> nx]
          ELSE Insert(d, nx, p, i, m)
  BY DEF AddToStructDescriptor
<1> SUFFICES Outcome(d, nm, nx, m, a)
  OBVIOUS
<1> HIDE DEF a, p, i
<1>7. CASE i = NULL
  <2>1. p \in V /\ nm[p] < nm[m] /\ nx[p] = NULL /\ m \notin V
    BY <1>1, <1>5, <1>7
  <2>2. p # m
    BY <2>1
  <2>3. a.desc = [d EXCEPT !.tail = m] /\ a.next = [nx EXCEPT ![p] = m]
    BY <1>6, <1>7
  <2>4. a.desc \in Desc /\ a.desc.head = h /\ a.desc # NoDesc
    BY <1>1, <1>2, <2>3 DEF Desc, NoDesc
  <2>5. Lists(nm, a.next)
    <3>1. Lists(nm, [nx EXCEPT ![p] = m])
      BY <1>1, <1>2, <1>3, <2>1, AppendLists
    <3>2. QED
      BY <2>3, <3>1
  <2>6. \A c \in Cell : a.next[c] = IF c = p THEN m ELSE nx[c]
    BY <1>1, <1>3, <2>1, <2>3
  <2>7. a.next \in [Cell -> Cell \cup {NULL}]
    BY <2>5 DEF Lists
  <2>8. /\ V2 \subseteq Cell /\ h \in V2
        /\ \A c \in V2 : a.next[c] # NULL => a.next[c] \in V2
    BY <1>1, <1>2, <2>4, <2>7, ReachClosed
  <2> DEFINE B == V \cup R
  <2>9. V2 \subseteq B
    <3>1. h \in B /\ \A c \in B \cap Cell : a.next[c] # NULL => a.next[c] \in B
      BY <1>3, <1>4, <2>6
    <3> HIDE DEF B
    <3>2. QED
      BY <1>2, <2>4, <2>7, <3>1, ReachLeast
  <2>10. V \subseteq V2
    <3>1. \A c \in V2 \cap Cell : nx[c] # NULL => nx[c] \in V2
      BY <2>1, <2>6, <2>8
    <3> HIDE DEF V2
    <3>2. QED
      BY <1>1, <1>2, <2>8, <3>1, ReachLeast
  <2>11. m \in V2
    BY <1>1, <1>3, <2>1, <2>6, <2>8, <2>10
  <2>12. R \subseteq V2
    <3>1. \A c \in V2 \cap Cell : nx[c] # NULL => nx[c] \in V2
      BY <2>1, <2>6, <2>8
    <3> HIDE DEF V2
    <3>2. QED
      BY <1>1, <1>2, <2>11, <3>1, ReachLeast
  <2>13. V2 = V \cup R
    BY <2>9, <2>10, <2>12
  <2>14. a.next[m] = nx[m]
    BY <1>2, <2>2, <2>6
  <2>15. a.desc.head \in DOMAIN nm
    BY <1>1, <2>4
  <2>16. \A c \in Cell : c = m \/ c \in V \/ a.next[c] = nx[c]
    BY <2>1, <2>6
  <2> HIDE DEF V, V2, R
  <2>17. QED
    BY <2>1, <2>4, <2>5, <2>11, <2>13, <2>14, <2>15, <2>16 DEF Outcome, V, V2, R
<1>8. CASE i # NULL /\ nm[i] = nm[m]
  <2>1. a.desc = d /\ a.next = nx
    BY <1>6, <1>8
  <2>2. i \in V
    BY <1>5, <1>8
  <2>3. V2 = V /\ \E c \in V : nm[c] = nm[m]
    BY <1>8, <2>1, <2>2
  <2>4. QED
    BY <1>1, <1>2, <2>1, <2>3 DEF Outcome
<1>9. CASE i # NULL /\ nm[i] # nm[m]
  <2>1. i \in V /\ nm[m] < nm[i] /\ m \notin V /\ i \in DOMAIN nm
    <3>1. i \in V /\ nm[i] >= nm[m] /\ m \notin V /\ i \in DOMAIN nm
      BY <1>3, <1>5, <1>9
    <3>2. nm[i] \in Int /\ nm[m] \in Int
      BY <1>1, <3>1
    <3>3. QED
      BY <1>9, <3>1, <3>2
  <2>2. /\ a.desc = [d EXCEPT !.head = IF i = @ THEN m ELSE @]
        /\ a.next = Linked(nx, p, i, m)
    BY <1>6, <1>9 DEF Insert, Linked
  <2>3. /\ a.desc \in Desc /\ a.desc.head = (IF i = h THEN m ELSE h)
        /\ a.desc # NoDesc
    BY <1>1, <1>2, <2>2 DEF Desc, NoDesc
  <2>4. a.desc.head \in DOMAIN nm /\ a.desc.head \in Cell /\ a.desc.head # NULL
    BY <1>1, <2>3
  <2>5. p \in Cell \cup {NULL} /\ (p # NULL => p \in DOMAIN nm /\ nm[p] < nm[m])
    BY <1>3, <1>5
  <2>6. Lists(nm, a.next)
    BY <1>1, <1>2, <2>1, <2>2, <2>5, LinkedLists
  <2>7. \A c \in Cell : a.next[c] = IF c = m THEN i ELSE IF c = p THEN m ELSE nx[c]
    BY <1>1, <2>2 DEF Linked
  <2>8. a.next \in [Cell -> Cell \cup {NULL}]
    BY <2>6 DEF Lists
  <2>9. /\ V2 \subseteq Cell /\ a.desc.head \in V2
        /\ \A c \in V2 : a.next[c] # NULL => a.next[c] \in V2
    BY <2>4, <2>8, ReachClosed
  <2> DEFINE B == V \cup {m}
  <2>10. V2 \subseteq B
    <3>1. a.desc.head \in B
      BY <1>3, <2>3
    <3>2. \A c \in B \cap Cell : a.next[c] # NULL => a.next[c] \in B
      BY <1>3, <2>1, <2>7
    <3> HIDE DEF B
    <3>3. QED
      BY <2>4, <2>8, <3>1, <3>2, ReachLeast
  <2>11. m \in V2 => i \in V2
    BY <1>2, <1>9, <2>7, <2>9
  <2>12. h \in V2
    BY <2>3, <2>9, <2>11
  <2> DEFINE S == V \cap V2
  <2>13. \A c \in S \cap Cell : nx[c] # NULL => nx[c] \in S
    <3>1. ASSUME NEW c \in S, nx[c] # NULL PROVE nx[c] \in V2
      <4>1. c \in Cell /\ c # m /\ c \in V2
        BY <1>3, <2>1
      <4>2. CASE c = p
        <5>1. a.next[c] = m
          BY <2>7, <4>1, <4>2
        <5>2. m \in V2
          BY <1>1, <2>9, <4>1, <5>1
        <5>3. nx[c] = i
          BY <1>5, <4>1, <4>2, NullIsNoCell
        <5>4. QED
          BY <2>11, <5>2, <5>3
      <4>3. CASE c # p
        BY <2>7, <2>9, <3>1, <4>1, <4>3
      <4>4. QED
        BY <4>2, <4>3
    <3>2. QED
      BY <1>3, <3>1
  <2>14. V \subseteq S
    <3>1. h \in S
      BY <1>3, <2>12
    <3> HIDE DEF S
    <3>2. QED
      BY <1>1, <1>2, <2>13, <3>1, ReachLeast
  <2>15. m \in V2
    <3>1. CASE p = NULL
      BY <1>3, <1>5, <2>3, <2>9, <3>1, NullIsNoCell
    <3>2. CASE p # NULL
      <4>1. p \in V /\ p \in V2 /\ p \in Cell /\ p # m
        BY <1>3, <1>5, <2>1, <2>14, <3>2
      <4>2. a.next[p] = m
        BY <2>7, <4>1
      <4>3. QED
        BY <1>1, <2>9, <4>1, <4>2
    <3>3. QED
      BY <3>1, <3>2
  <2>16. V2 = V \cup {m}
    BY <2>10, <2>14, <2>15
  <2>17. a.next[m] = i /\ i \in V
    BY <1>2, <2>1, <2>7
  <2>18. \A c \in Cell : c = m \/ c \in V \/ a.next[c] = nx[c]
    <3>1. p = NULL \/ p \in V
      BY <1>5
    <3>2. QED
      BY <2>7, <3>1, NullIsNoCell
  <2> HIDE DEF V, V2, R
  <2>19. QED
    BY <2>1, <2>3, <2>4, <2>6, <2>16, <2>17, <2>18 DEF Outcome, V, V2, R
<1>10. QED
  BY <1>7, <1>8, <1>9

\* What AddToStructDescriptor does.
LEMMA AddOutcome ==
  ASSUME NEW d \in Desc, NEW nm, NEW nx, Lists(nm, nx), NEW m \in DOMAIN nm,
         d = NoDesc \/ d.head \in DOMAIN nm
  PROVE  Outcome(d, nm, nx, m, AddToStructDescriptor(d, nm, nx, m))
<1>1. CASE d = NoDesc
  BY <1>1, FirstMember
<1>2. CASE d # NoDesc
  BY <1>2, FurtherMember DEF Search
<1>3. QED
  BY <1>1, <1>2

-----------------------------------------------------------------------------
\* The member belongs to a finished descriptor.
InTable(c) == \E d \in DOMAIN table : c \in Reach(table[d].head, next)

\* Lists start at members that are there.
HeadsThere ==
  /\ left = NoDesc \/ left.head \in DOMAIN name
  /\ right = NoDesc \/ right.head \in DOMAIN name
  /\ walk = NULL \/ walk \in DOMAIN name
  /\ \A d \in DOMAIN table : table[d].head \in DOMAIN name

\* What is changed isn't part of a finished descriptor.
Apart ==
  /\ stage # "outside" => \A c \in Reach(left.head, next) : ~InTable(c)
  /\ stage = "ids" => /\ \A c \in Reach(right.head, next) : ~InTable(c)
                      /\ Reach(right.head, next) \cap Reach(left.head, next) = {}
  /\ stage = "merge" => \A c \in Reach(walk, next) : ~InTable(c)

\* The members of an entry are those of its descriptor.
CopiesHold ==
  \A e \in entries :
    /\ e.sub.head = table[e.desc].head
    /\ \A c \in Reach(e.sub.head, next) : e.sub.next[c] = next[c]

\* The names of members, and the elements of a sequence.
NamesOf(S) == {name[c] : c \in S}
Elems(q) == {q[k] : k \in DOMAIN q}

\* Nothing is lost as long as a list that is merged has one member.
OneByOne ==
  ~several =>
    /\ stage = "fields" => NamesOf(Reach(left.head, next)) = declared
    /\ stage = "ids" =>
         /\ NamesOf(Reach(left.head, next)) \cup NamesOf(Reach(right.head, next))
              \cup Elems(todo) = declared
         /\ left # NoDesc => Len(todo) <= 1
         /\ left # NoDesc /\ right # NoDesc => todo = <<>> /\ next[right.head] = NULL
    /\ stage = "merge" =>
         /\ NamesOf(Reach(left.head, next)) \cup NamesOf(Reach(walk, next)) = declared
         /\ walk = NULL \/ walk \in Reach(left.head, next) \/ next[walk] = NULL

\* There is room for the names of a declaration.
Fits == stage = "ids" => Len(name) + Len(todo) <= MaxMembers

\* The inductive invariant.
IInv ==
  /\ TypeOK /\ Grows(name, next) /\ HeadsThere /\ Fits
  /\ Apart /\ CopiesHold /\ OneByOne

\* The types of descriptors in the table and of entries.
Record == [name : Structs, head : Cell, declared : SUBSET Names]
Entry(ds) == [desc : ds, sub : [head : Cell, next : [Cell -> Cell \cup {NULL}]]]

\* What the invariant says of the constants of a step.
LEMMA TypeFacts ==
  ASSUME IInv
  PROVE  /\ Lists(name, next) /\ next \in [Cell -> Cell \cup {NULL}]
         /\ name \in Seq(Names) /\ Len(name) \in Nat /\ DOMAIN name = 1 .. Len(name)
         /\ DOMAIN name \subseteq Cell
         /\ left \in Desc /\ right \in Desc
         /\ left.head \in Cell \cup {NULL} /\ right.head \in Cell \cup {NULL}
         /\ walk \in Cell \cup {NULL}
         /\ table \in Seq(Record) /\ DOMAIN table = 1 .. Len(table) /\ Len(table) \in Nat
         /\ \A d \in DOMAIN table : table[d] \in Record /\ table[d].head \in Cell
         /\ entries \subseteq Entry(DOMAIN table)
         /\ todo \in Seq(Names) /\ Len(todo) \in Nat
<1>1. /\ name \in Seq(Names) /\ Len(name) <= MaxMembers /\ Grows(name, next)
      /\ next \in [Cell -> Cell \cup {NULL}]
      /\ left \in Desc /\ right \in Desc /\ walk \in Cell \cup {NULL}
      /\ table \in Seq(Record) /\ entries \subseteq Entry(DOMAIN table)
      /\ todo \in Seq(Names)
  BY DEF IInv, TypeOK, Desc, Record, Entry
<1>2. DOMAIN name \subseteq Cell
  BY <1>1, NamesAreNumbers
<1>3. /\ Len(name) \in Nat /\ DOMAIN name = 1 .. Len(name)
      /\ Len(table) \in Nat /\ DOMAIN table = 1 .. Len(table) /\ Len(todo) \in Nat
  BY <1>1, LenProperties
<1>4. \A d \in DOMAIN table : table[d] \in Record
  BY <1>1, <1>3, ElementOfSeq
<1>5. \A d \in DOMAIN table : table[d].head \in Cell
  BY <1>4 DEF Record
<1>6. left.head \in Cell \cup {NULL} /\ right.head \in Cell \cup {NULL}
  BY <1>1 DEF Desc
<1>7. QED
  BY <1>1, <1>2, <1>3, <1>4, <1>5, <1>6 DEF Lists

\* NoDesc has no members.
LEMMA NoMembers ==
  ASSUME NEW nx \in [Cell -> Cell \cup {NULL}]
  PROVE  Reach(NoDesc.head, nx) = {} /\ Reach(NULL, nx) = {} /\ NoDesc \in Desc
BY ReachNull DEF NoDesc, Desc

\* The invariant holds before anything is parsed.
LEMMA InitIInv == Init => IInv
<1> SUFFICES ASSUME Init PROVE IInv
  OBVIOUS
<1> USE DEF Init
<1>1. TypeOK
  <2>1. <<>> \in Seq(Names) /\ <<>> \in Seq(Record) /\ Len(<<>>) = 0
    BY EmptySeq
  <2>2. Len(name) <= MaxMembers
    BY <2>1, StructAssumption
  <2>3. NoDesc \in [head : Cell \cup {NULL}, tail : Cell \cup {NULL}]
    BY DEF NoDesc
  <2>4. QED
    BY <2>1, <2>2, <2>3 DEF TypeOK, Record
<1>2. Grows(name, next)
  BY DEF Grows
<1>3. DOMAIN table = {}
  BY EmptySeq
<1>4. HeadsThere
  BY <1>3 DEF HeadsThere
<1>5. Fits /\ Apart /\ CopiesHold /\ OneByOne
  BY DEF Fits, Apart, CopiesHold, OneByOne
<1>6. QED
  BY <1>1, <1>2, <1>4, <1>5 DEF IInv

\* A new struct has no members yet.
LEMMA OpenIInv ==
  ASSUME IInv, Open
  PROVE  IInv'
<1> USE DEF Open
<1>1. next \in [Cell -> Cell \cup {NULL}]
  BY TypeFacts
<1>2. Reach(left'.head, next) = {} /\ NoDesc \in Desc
  BY <1>1, NoMembers
<1>3. TypeOK'
  BY <1>2 DEF IInv, TypeOK, Desc
<1>4. Grows(name, next)'
  BY DEF IInv, Grows
<1>5. HeadsThere' /\ Fits'
  BY DEF IInv, HeadsThere, Fits
<1>6. Apart'
  BY <1>2 DEF Apart
<1>7. CopiesHold'
  BY DEF IInv, CopiesHold
<1>8. OneByOne'
  BY <1>2 DEF OneByOne, NamesOf
<1>9. QED
  BY <1>3, <1>4, <1>5, <1>6, <1>7, <1>8 DEF IInv

\* A declaration starts a list of its own.
LEMMA FieldIInv ==
  ASSUME IInv, NEW ids \in IDLists, Field(ids)
  PROVE  IInv'
<1> USE DEF Field
<1>1. next \in [Cell -> Cell \cup {NULL}] /\ name \in Seq(Names)
  BY TypeFacts
<1>2. Reach(right'.head, next) = {} /\ NoDesc \in Desc
  BY <1>1, NoMembers
<1>3. ids \in Seq(Names) /\ DOMAIN ids = 1 .. Len(ids) /\ Len(ids) \in Nat
  BY StructAssumption, LenProperties
<1>4. {ids[k] : k \in DOMAIN ids} \subseteq Names /\ {ids[k] : k \in DOMAIN ids} = Elems(ids)
  BY <1>3, ElementOfSeq DEF Elems
<1>5. TypeOK'
  BY <1>2, <1>3, <1>4 DEF IInv, TypeOK, Desc
<1>6. Grows(name, next)'
  BY DEF IInv, Grows
<1>7. HeadsThere' /\ Fits'
  BY DEF IInv, HeadsThere, Fits
<1>8. Apart'
  BY <1>2 DEF IInv, Apart, InTable
<1>9. CopiesHold'
  BY DEF IInv, CopiesHold
<1>10. OneByOne'
  <2>1. ASSUME ~several'
        PROVE  /\ NamesOf(Reach(left.head, next)) = declared
               /\ left # NoDesc => Len(ids) <= 1
    <3>1. ~several /\ ~(left # NoDesc /\ Len(ids) > 1)
      <4>1. several' = (several \/ (left # NoDesc /\ Len(ids) > 1)) /\ ~several'
        BY <2>1
      <4>2. QED
        BY <4>1, Zenon
    <3>2. NamesOf(Reach(left.head, next)) = declared
      BY <3>1 DEF IInv, OneByOne
    <3>3. QED
      BY <1>3, <3>1, <3>2
  <2>2. NamesOf(Reach(right'.head, next)) = {}
    BY <1>2 DEF NamesOf
  <2>3. ASSUME ~several'
        PROVE  /\ (NamesOf(Reach(left.head, next)) \cup NamesOf(Reach(right.head, next))
                     \cup Elems(todo) = declared)'
               /\ left # NoDesc => Len(ids) <= 1
    BY <1>4, <2>1, <2>2, <2>3 DEF NamesOf
  <2>4. QED
    BY <2>3 DEF OneByOne
<1>11. QED
  BY <1>5, <1>6, <1>7, <1>8, <1>9, <1>10 DEF IInv

\* The list of a declaration becomes the list of the struct, or is walked.
LEMMA StartMergeIInv ==
  ASSUME IInv, StartMerge
  PROVE  IInv'
<1> USE DEF StartMerge
<1>1. next \in [Cell -> Cell \cup {NULL}] /\ right.head \in Cell \cup {NULL}
  BY TypeFacts
<1>2. Reach(NoDesc.head, next) = {} /\ NoDesc.head = NULL /\ Reach(NULL, next) = {}
  BY <1>1, NoMembers DEF NoDesc
<1>3. TypeOK'
  BY <1>1 DEF IInv, TypeOK
<1>4. Grows(name, next)'
  BY DEF IInv, Grows
<1>5. HeadsThere' /\ Fits'
  BY <1>2 DEF IInv, HeadsThere, Fits
<1>6. Apart'
  BY DEF IInv, Apart, InTable
<1>7. CopiesHold'
  BY DEF IInv, CopiesHold
<1>8. OneByOne'
  <2>1. SUFFICES ASSUME ~several PROVE OneByOne'
    BY DEF OneByOne
  <2>2. /\ NamesOf(Reach(left.head, next)) \cup NamesOf(Reach(right.head, next))
             \cup Elems(todo) = declared
        /\ left # NoDesc /\ right # NoDesc => next[right.head] = NULL
    BY <2>1 DEF IInv, OneByOne
  <2>3. Elems(todo) = {}
    BY EmptySeq DEF Elems
  <2>4. NamesOf(Reach(left.head, next)) \cup NamesOf(Reach(right.head, next)) = declared
    BY <2>2, <2>3
  <2>5. CASE left = NoDesc
    <3>1. NamesOf(Reach(right.head, next)) = declared
      BY <1>2, <2>4, <2>5 DEF NamesOf
    <3>2. left' = right /\ next' = next /\ name' = name /\ declared' = declared
          /\ stage' = "fields"
      BY <2>5
    <3>3. NamesOf(Reach(left.head, next))' = declared'
      BY <3>1, <3>2 DEF NamesOf
    <3>4. QED
      BY <3>2, <3>3 DEF OneByOne
  <2>6. CASE left # NoDesc
    <3>1. /\ walk' = right.head /\ left' = left /\ next' = next /\ name' = name
          /\ declared' = declared /\ stage' = "merge"
      BY <2>6
    <3>2. walk' = NULL \/ next[walk'] = NULL
      BY <1>2, <2>2, <2>6, <3>1
    <3>3. (NamesOf(Reach(left.head, next)) \cup NamesOf(Reach(walk, next)) = declared)'
      BY <2>4, <3>1 DEF NamesOf
    <3>4. QED
      BY <3>1, <3>2, <3>3 DEF OneByOne
  <2>7. QED
    BY <2>5, <2>6
<1>9. QED
  BY <1>3, <1>4, <1>5, <1>6, <1>7, <1>8 DEF IInv

\* At the end of the walk nothing is left to merge.
LEMMA EndMergeIInv ==
  ASSUME IInv, EndMerge
  PROVE  IInv'
<1> USE DEF EndMerge
<1>1. next \in [Cell -> Cell \cup {NULL}]
  BY TypeFacts
<1>2. Reach(walk, next) = {}
  BY <1>1, NoMembers
<1>3. TypeOK'
  BY DEF IInv, TypeOK
<1>4. Grows(name, next)'
  BY DEF IInv, Grows
<1>5. HeadsThere' /\ Fits'
  BY DEF IInv, HeadsThere, Fits
<1>6. Apart'
  BY DEF IInv, Apart, InTable
<1>7. CopiesHold'
  BY DEF IInv, CopiesHold
<1>8. OneByOne'
  BY <1>2 DEF IInv, OneByOne, NamesOf
<1>9. QED
  BY <1>3, <1>4, <1>5, <1>6, <1>7, <1>8 DEF IInv

\* A finished descriptor is left alone from now on.
LEMMA CloseIInv ==
  ASSUME IInv, NEW s \in Structs, Close(s)
  PROVE  IInv'
<1> USE DEF Close
<1> DEFINE r == [name |-> s, head |-> left.head, declared |-> declared]
<1>1. /\ DOMAIN name \subseteq Cell /\ table \in Seq(Record)
      /\ DOMAIN table = 1 .. Len(table) /\ Len(table) \in Nat
  BY TypeFacts
<1>2. left.head \in DOMAIN name
  BY DEF IInv, HeadsThere
<1>3. r \in Record
  BY <1>1, <1>2 DEF IInv, TypeOK, Record
<1>4. table' = Append(table, r)
  OBVIOUS
<1> HIDE DEF r
<1>5. /\ table' \in Seq(Record) /\ DOMAIN table' = 1 .. Len(table) + 1
      /\ \A d \in 1 .. Len(table) : table'[d] = table[d]
      /\ table'[Len(table) + 1] = r
  <2>1. Len(table') = Len(table) + 1 /\ table' \in Seq(Record)
    BY <1>1, <1>3, <1>4, AppendProperties
  <2>2. QED
    BY <1>1, <1>3, <1>4, <2>1, AppendProperties, LenProperties
<1>6. DOMAIN table \subseteq DOMAIN table'
  BY <1>1, <1>5
<1>7. TypeOK'
  <2>1. entries' \subseteq Entry(DOMAIN table')
    <3>1. entries \subseteq Entry(DOMAIN table)
      BY TypeFacts
    <3>2. Entry(DOMAIN table) \subseteq Entry(DOMAIN table')
      BY <1>6 DEF Entry
    <3>3. QED
      BY <3>1, <3>2
  <2>2. QED
    BY <1>5, <2>1 DEF IInv, TypeOK, Record, Entry
<1>8. Grows(name, next)'
  BY DEF IInv, Grows
<1>9. HeadsThere'
  <2>1. ASSUME NEW d \in DOMAIN table' PROVE table'[d].head \in DOMAIN name
    <3>1. CASE d = Len(table) + 1
      BY <1>2, <1>5, <3>1 DEF r
    <3>2. CASE d # Len(table) + 1
      <4>1. d \in DOMAIN table /\ table'[d] = table[d]
        BY <1>1, <1>5, <3>2
      <4>2. QED
        BY <4>1 DEF IInv, HeadsThere
    <3>3. QED
      BY <3>1, <3>2
  <2>2. QED
    BY <2>1 DEF IInv, HeadsThere
<1>10. Fits' /\ Apart' /\ OneByOne'
  BY DEF Fits, Apart, OneByOne
<1>11. CopiesHold'
  <2>1. \A e \in entries : e.desc \in DOMAIN table
    BY TypeFacts DEF Entry
  <2>2. \A e \in entries : table'[e.desc] = table[e.desc]
    BY <1>1, <1>5, <2>1
  <2>3. QED
    BY <2>2 DEF IInv, CopiesHold
<1>12. QED
  BY <1>7, <1>8, <1>9, <1>10, <1>11 DEF IInv

\* The first descriptor of a name.
LEMMA FindFinds ==
  ASSUME IInv, NEW s, \E d \in DOMAIN table : table[d].name = s
  PROVE  Find(s) \in DOMAIN table
<1> DEFINE S == {d \in DOMAIN table : table[d].name = s}
<1>1. DOMAIN table = 1 .. Len(table) /\ Len(table) \in Nat
  BY TypeFacts
<1>2. S \in SUBSET Nat /\ S # {}
  BY <1>1
<1>3. PICK d \in S : \A e \in S : d <= e
  <2> HIDE DEF S
  <2>1. QED
    BY <1>2, LeastNatural
<1>4. ASSUME NEW e \in 1 .. d - 1 PROVE table[e].name # s
  <2>1. e \in DOMAIN table /\ ~(d <= e)
    BY <1>1
  <2>2. QED
    BY <1>3, <2>1
<1>5. d \in DOMAIN table /\ table[d].name = s /\ \A e \in 1 .. d - 1 : table[e].name # s
  BY <1>4
<1>6. QED
  BY <1>5 DEF Find

\* A variable gets a copy of the first descriptor of its type.
LEMMA DeclareIInv ==
  ASSUME IInv, NEW s \in Structs, Declare(s)
  PROVE  IInv'
<1> USE DEF Declare
<1> DEFINE f == Find(s)
           h == table[f].head
           new == [desc |-> f, sub |-> CopyOf(h)]
<1>1. f \in DOMAIN table
  BY FindFinds
<1>2. next \in [Cell -> Cell \cup {NULL}] /\ h \in Cell
  BY <1>1, TypeFacts
<1>3. /\ CopyOf(h).head = h
      /\ CopyOf(h).next \in [Cell -> Cell \cup {NULL}]
      /\ \A c \in Reach(h, next) : CopyOf(h).next[c] = next[c]
      /\ CopyOf(h) \in [head : Cell, next : [Cell -> Cell \cup {NULL}]]
  <2>1. Reach(h, next) \subseteq Cell
    BY <1>2, ReachClosed
  <2>2. Reach(h, next) = Members(h)
    BY DEF Reach, Members
  <2>3. \A c \in Cell : CopyOf(h).next[c] = IF c \in Members(h) THEN next[c] ELSE NULL
    BY DEF CopyOf
  <2>4. CopyOf(h).head = h
    BY DEF CopyOf
  <2>5. CopyOf(h) \in [head : Cell, next : [Cell -> Cell \cup {NULL}]]
    BY <1>2 DEF CopyOf
  <2> HIDE DEF h
  <2>6. \A c \in Reach(h, next) : CopyOf(h).next[c] = next[c]
    BY <2>1, <2>2, <2>3
  <2>7. QED
    BY <2>4, <2>5, <2>6
<1>4. entries' = entries \cup {new}
  OBVIOUS
<1>5. new \in Entry(DOMAIN table) /\ new.sub = CopyOf(h) /\ new.desc = f
  BY <1>1, <1>3 DEF Entry
<1>6. TypeOK'
  <2>1. entries' \subseteq Entry(DOMAIN table)
    BY <1>4, <1>5, TypeFacts
  <2>2. QED
    BY <2>1 DEF IInv, TypeOK, Entry
<1>7. Grows(name, next)' /\ HeadsThere' /\ Fits'
  BY DEF IInv, Grows, HeadsThere, Fits
<1>8. Apart' /\ OneByOne'
  BY DEF IInv, Apart, InTable, OneByOne, NamesOf
<1> HIDE DEF new
<1>9. CopiesHold'
  <2>1. ASSUME NEW e \in entries'
        PROVE  e.sub.head = table[e.desc].head /\ \A c \in Reach(e.sub.head, next) : e.sub.next[c] = next[c]
    <3>1. CASE e \in entries
      BY <3>1 DEF IInv, CopiesHold
    <3>2. CASE e = new
      BY <1>3, <1>5, <3>2
    <3>3. QED
      BY <1>4, <3>1, <3>2
  <2>2. QED
    BY <2>1 DEF CopiesHold
<1>10. QED
  BY <1>6, <1>7, <1>8, <1>9 DEF IInv

\* Finished descriptors and entries stay if their members do.
LEMMA TablesKept ==
  ASSUME IInv, next' \in [Cell -> Cell \cup {NULL}],
         \A c \in Cell : InTable(c) => next'[c] = next[c],
         table' = table, entries' = entries
  PROVE  CopiesHold' /\ \A c : InTable(c)' <=> InTable(c)
<1>1. /\ next \in [Cell -> Cell \cup {NULL}]
      /\ \A d \in DOMAIN table : table[d].head \in Cell
      /\ entries \subseteq Entry(DOMAIN table)
  BY TypeFacts
<1>2. \A d \in DOMAIN table : Reach(table[d].head, next') = Reach(table[d].head, next)
  <2>1. ASSUME NEW d \in DOMAIN table
        PROVE  Reach(table[d].head, next') = Reach(table[d].head, next)
    <3> DEFINE h == table[d].head
    <3>1. h \in Cell
      BY <1>1
    <3>2. Reach(h, next) \subseteq Cell
      BY <1>1, <3>1, ReachClosed
    <3>3. \A c \in Reach(h, next) : InTable(c)
      BY DEF InTable
    <3> HIDE DEF h
    <3>4. \A c \in Reach(h, next) : next'[c] = next[c]
      BY <3>2, <3>3
    <3>5. Reach(h, next') = Reach(h, next)
      BY <1>1, <3>1, <3>4, ReachFrame
    <3>6. QED
      BY <3>5 DEF h
  <2>2. QED
    BY <2>1
<1>3. \A c : InTable(c)' <=> InTable(c)
  BY <1>2 DEF InTable
<1>4. CopiesHold'
  <2>1. ASSUME NEW e \in entries
        PROVE  /\ e.sub.head = table[e.desc].head
               /\ \A c \in Reach(e.sub.head, next') : e.sub.next[c] = next'[c]
    <3>1. e.desc \in DOMAIN table
      BY <1>1 DEF Entry
    <3>2. /\ e.sub.head = table[e.desc].head
          /\ \A c \in Reach(e.sub.head, next) : e.sub.next[c] = next[c]
      BY DEF IInv, CopiesHold
    <3>3. Reach(e.sub.head, next') = Reach(e.sub.head, next)
      BY <1>2, <3>1, <3>2
    <3>4. ASSUME NEW c \in Reach(e.sub.head, next) PROVE next'[c] = next[c]
      <4>1. c \in Reach(table[e.desc].head, next) /\ InTable(c)
        BY <3>1, <3>2 DEF InTable
      <4>2. c \in Cell
        BY <1>1, <3>1, <4>1, ReachClosed
      <4>3. QED
        BY <4>1, <4>2
    <3>5. QED
      BY <3>2, <3>3, <3>4
  <2>2. QED
    BY <2>1 DEF CopiesHold
<1>5. QED
  BY <1>3, <1>4

\* A step of the merge is a call of AddToStructDescriptor.
LEMMA MergeNextOutcome ==
  ASSUME IInv, MergeNext
  PROVE  /\ walk \in DOMAIN name /\ walk \in Cell /\ walk # NULL
         /\ Outcome(left, name, next, walk, [desc |-> left', next |-> next'])
         /\ walk' = next'[walk]
         /\ UNCHANGED <<stage, name, right, todo, table, entries, declared, several>>
<1> DEFINE a == AddToStructDescriptor(left, name, next, walk)
<1>1. /\ left' = a.desc /\ next' = a.next /\ walk' = next'[walk] /\ walk # NULL
      /\ UNCHANGED <<stage, name, right, todo, table, entries, declared, several>>
  BY DEF MergeNext
<1>2. walk \in DOMAIN name /\ (left = NoDesc \/ left.head \in DOMAIN name)
  BY <1>1 DEF IInv, HeadsThere
<1>3. left \in Desc /\ Lists(name, next) /\ walk \in Cell
  BY <1>2, TypeFacts
<1>4. Outcome(left, name, next, walk, a)
  BY <1>2, <1>3, AddOutcome
<1> HIDE DEF a
<1>5. Outcome(left, name, next, walk, [desc |-> left', next |-> next'])
  BY <1>1, <1>4 DEF Outcome
<1>6. QED
  BY <1>1, <1>2, <1>3, <1>5

\* The walk stays clear of the finished descriptors although it changes over to
\* the list it merges into, and loses nothing if it merges one member.
LEMMA MergeNextIInv ==
  ASSUME IInv, MergeNext
  PROVE  IInv'
<1> DEFINE V == Reach(left.head, next)
           R == Reach(walk, next)
           V2 == Reach(left'.head, next')
           R2 == Reach(walk', next')
<1>1. /\ walk \in DOMAIN name /\ walk \in Cell /\ walk # NULL
      /\ walk' = next'[walk] /\ stage = "merge"
      /\ UNCHANGED <<stage, name, right, todo, table, entries, declared, several>>
  BY MergeNextOutcome DEF MergeNext
<1>2. /\ left' \in Desc /\ left' # NoDesc /\ left'.head \in DOMAIN name
      /\ Lists(name, next')
      /\ \A c \in Cell : c = walk \/ c \in V \/ next'[c] = next[c]
      /\ \/ V2 = V \cup R /\ walk \in V2 /\ next'[walk] = next[walk]
         \/ V2 = V \cup {walk} /\ next'[walk] \in V
         \/ V2 = V /\ next' = next /\ \E c \in V : name[c] = name[walk]
      /\ walk \in V => V2 = V /\ next' = next
  BY MergeNextOutcome DEF Outcome
<1>3. /\ next \in [Cell -> Cell \cup {NULL}] /\ DOMAIN name \subseteq Cell
      /\ left.head \in Cell \cup {NULL} /\ left'.head \in Cell \cup {NULL}
      /\ next' \in [Cell -> Cell \cup {NULL}] /\ Grows(name, next')
  BY <1>2, TypeFacts DEF Lists
<1>4. /\ V \subseteq Cell /\ \A c \in V : next[c] # NULL => next[c] \in V
      /\ R \subseteq Cell /\ walk \in R /\ \A c \in R : next[c] # NULL => next[c] \in R
      /\ V2 \subseteq Cell /\ \A c \in V2 : next'[c] # NULL => next'[c] \in V2
  BY <1>1, <1>3, ReachClosed
<1>5. (\A c \in V : ~InTable(c)) /\ (\A c \in R : ~InTable(c))
  BY <1>1 DEF IInv, Apart
<1>6. walk' \in Cell \cup {NULL}
  BY <1>1, <1>3
<1>7. TypeOK'
  BY <1>1, <1>2, <1>3, <1>6 DEF IInv, TypeOK, Desc
<1>8. Grows(name, next)'
  BY <1>1, <1>3 DEF Grows
<1>9. HeadsThere'
  <2>1. walk' = NULL \/ walk' \in DOMAIN name
    BY <1>1, <1>3 DEF Grows
  <2>2. QED
    BY <1>1, <1>2, <2>1 DEF IInv, HeadsThere
<1>10. Fits'
  BY <1>1 DEF IInv, Fits
<1>11. CopiesHold' /\ \A c : InTable(c)' <=> InTable(c)
  <2>1. \A c \in Cell : InTable(c) => next'[c] = next[c]
    BY <1>2, <1>4, <1>5
  <2>2. QED
    BY <1>1, <1>3, <2>1, TablesKept
\* The walk goes on in what is now one list, or in what it came from.
<1>12. R2 \subseteq V2 \/ (R2 \subseteq R /\ next' = next)
  <2>1. CASE walk' \in V2 \cup {NULL}
    BY <1>3, <2>1, ReachWithin
  <2>2. CASE walk' \notin V2 \cup {NULL}
    <3>1. V2 = V /\ next' = next /\ walk' = next[walk]
      BY <1>1, <1>2, <1>4, <2>2
    <3>2. walk' \in R \cup {NULL}
      BY <1>4, <3>1
    <3>3. Reach(walk', next) \subseteq Reach(walk, next)
      BY <1>1, <1>3, <3>2, ReachWithin
    <3>4. QED
      BY <3>1, <3>3
  <2>3. QED
    BY <2>1, <2>2
<1>13. V2 \subseteq V \cup R
  BY <1>2, <1>4
<1>14. Apart'
  <2>1. \A c \in V2 : ~InTable(c)
    BY <1>5, <1>13
  <2>2. \A c \in R2 : ~InTable(c)
    BY <1>5, <1>12, <2>1
  <2> HIDE DEF V2, R2
  <2>3. (\A c \in V2 : ~InTable(c)') /\ (\A c \in R2 : ~InTable(c)')
    BY <1>11, <2>1, <2>2
  <2>4. QED
    BY <1>1, <2>3 DEF Apart, V2, R2
<1>15. OneByOne'
  <2>1. SUFFICES ASSUME ~several
                 PROVE  /\ NamesOf(V2) \cup NamesOf(R2) = declared
                        /\ walk' = NULL \/ walk' \in V2 \/ next'[walk'] = NULL
    BY <1>1 DEF OneByOne, NamesOf
  <2>2. /\ NamesOf(V) \cup NamesOf(R) = declared
        /\ walk \in V \/ next[walk] = NULL
    BY <1>1, <2>1 DEF IInv, OneByOne
  <2>3. CASE walk \in V
    <3>1. V2 = V /\ next' = next /\ R \subseteq V
      BY <1>2, <1>3, <2>3, ReachWithin
    <3>2. walk' = NULL \/ walk' \in V2
      BY <1>1, <1>4, <2>3, <3>1
    <3>3. R2 \subseteq V2
      BY <1>3, <3>2, ReachWithin
    <3> HIDE DEF V, R, V2, R2
    <3>4. QED
      BY <2>2, <3>1, <3>2, <3>3 DEF NamesOf
  <2>4. CASE walk \notin V
    <3>1. next[walk] = NULL
      BY <2>2, <2>4
    <3>2. R = {walk}
      BY <1>1, <1>3, <3>1, ReachUnfold, NoMembers
    <3>3. walk' = NULL \/ walk' \in V2
      BY <1>1, <1>2, <3>1
    <3>4. R2 \subseteq V2
      BY <1>3, <3>3, ReachWithin
    <3>5. \/ V2 = V \cup {walk}
          \/ V2 = V /\ \E c \in V : name[c] = name[walk]
      BY <1>2, <3>2
    <3> HIDE DEF V, R, V2, R2
    <3>6. NamesOf(V2) = NamesOf(V) \cup NamesOf(R)
      BY <3>2, <3>5 DEF NamesOf
    <3>7. NamesOf(R2) \subseteq NamesOf(V2)
      BY <3>4 DEF NamesOf
    <3>8. QED
      BY <2>2, <3>3, <3>6, <3>7
  <2>5. QED
    BY <2>3, <2>4
<1>16. QED
  BY <1>7, <1>8, <1>9, <1>10, <1>11, <1>14, <1>15 DEF IInv

\* The new member has no pointer yet, and nothing points to it.
LEMMA NextIDOutcome ==
  ASSUME IInv, NextID
  PROVE  LET m == Len(name) + 1
         IN /\ m \in Cell /\ m \notin DOMAIN name /\ DOMAIN name' = DOMAIN name \cup {m}
            /\ name' \in Seq(Names) /\ Len(name') = m /\ m <= MaxMembers
            /\ \A c \in DOMAIN name : name'[c] = name[c]
            /\ name'[m] = Head(todo)
            /\ next[m] = NULL /\ Reach(m, next) = {m}
            /\ Lists(name', next)
            /\ Outcome(right, name', next, m, [desc |-> right', next |-> next'])
<1> DEFINE m == Len(name) + 1
           a == AddToStructDescriptor(right, name', CreateStructMember(Len(name')), Len(name'))
<1>1. /\ stage = "ids" /\ todo # <<>> /\ name' = Append(name, Head(todo))
      /\ right' = a.desc /\ next' = a.next
  BY DEF NextID
<1>2. /\ name \in Seq(Names) /\ Len(name) \in Nat /\ DOMAIN name = 1 .. Len(name)
      /\ DOMAIN name \subseteq Cell /\ todo \in Seq(Names) /\ Len(todo) \in Nat
      /\ Lists(name, next) /\ next \in [Cell -> Cell \cup {NULL}] /\ right \in Desc
  BY TypeFacts
<1>3. Head(todo) \in Names /\ Len(todo) >= 1
  BY <1>1, <1>2, EmptySeq, HeadTailProperties
<1>4. /\ name' \in Seq(Names) /\ Len(name') = m
      /\ \A c \in 1 .. Len(name) : name'[c] = name[c]
      /\ name'[m] = Head(todo) /\ DOMAIN name' = 1 .. m
  BY <1>1, <1>2, <1>3, AppendProperties, LenProperties
<1>5. m <= MaxMembers
  <2>1. Len(name) + Len(todo) <= MaxMembers
    BY <1>1 DEF IInv, Fits
  <2>2. QED
    BY <1>2, <1>3, <2>1, StructAssumption
<1>6. m \in Cell /\ m \notin DOMAIN name /\ DOMAIN name' = DOMAIN name \cup {m}
  BY <1>2, <1>4, <1>5, StructAssumption DEF Cell
<1>7. next[m] = NULL
  BY <1>6 DEF IInv, Grows
<1>8. Reach(m, next) = {m}
  BY <1>2, <1>6, <1>7, ReachUnfold, NoMembers
<1>9. CreateStructMember(Len(name')) = next
  BY <1>2, <1>4, <1>6, <1>7 DEF CreateStructMember
<1>10. \A c \in DOMAIN name : name'[c] = name[c]
  BY <1>2, <1>4
<1>11. Lists(name', next)
  <2>1. Grows(name', next)
    BY <1>6, <1>10 DEF IInv, Grows
  <2>2. QED
    BY <1>2, <1>4, <1>5, <2>1 DEF Lists
<1>12. right = NoDesc \/ right.head \in DOMAIN name'
  BY <1>6 DEF IInv, HeadsThere
<1>13. a = AddToStructDescriptor(right, name', next, m)
  BY <1>4, <1>9
<1> HIDE DEF a
<1>14. Outcome(right, name', next, m, a)
  BY <1>2, <1>6, <1>11, <1>12, <1>13, AddOutcome
<1>15. Outcome(right, name', next, m, [desc |-> right', next |-> next'])
  BY <1>1, <1>14 DEF Outcome
<1>16. QED
  BY <1>4, <1>5, <1>6, <1>7, <1>8, <1>10, <1>11, <1>15

\* A new member of a declaration changes only the list of the declaration.
LEMMA NextIDIInv ==
  ASSUME IInv, NextID
  PROVE  IInv'
<1> DEFINE m == Len(name) + 1
           V == Reach(right.head, next)
           W == Reach(left.head, next)
           V2 == Reach(right'.head, next')
           W2 == Reach(left'.head, next')
<1>1. /\ stage = "ids" /\ todo # <<>> /\ todo' = Tail(todo)
      /\ UNCHANGED <<stage, left, walk, table, entries, declared, several>>
  BY DEF NextID
<1>2. /\ m \in Cell /\ m \notin DOMAIN name /\ DOMAIN name' = DOMAIN name \cup {m}
      /\ name' \in Seq(Names) /\ Len(name') = m /\ m <= MaxMembers
      /\ \A c \in DOMAIN name : name'[c] = name[c]
      /\ name'[m] = Head(todo)
      /\ next[m] = NULL /\ Reach(m, next) = {m}
  BY NextIDOutcome
<1>3. /\ right' \in Desc /\ right' # NoDesc /\ right'.head \in DOMAIN name'
      /\ Lists(name', next')
      /\ \A c \in Cell : c = m \/ c \in V \/ next'[c] = next[c]
      /\ \/ V2 = V \cup {m} /\ next'[m] = next[m]
         \/ V2 = V \cup {m} /\ next'[m] \in V
         \/ V2 = V /\ next' = next /\ \E c \in V : name'[c] = name'[m]
  BY <1>2, NextIDOutcome DEF Outcome
<1>4. /\ next \in [Cell -> Cell \cup {NULL}] /\ DOMAIN name \subseteq Cell
      /\ left.head \in Cell \cup {NULL} /\ right.head \in Cell \cup {NULL}
      /\ right'.head \in Cell \cup {NULL}
      /\ next' \in [Cell -> Cell \cup {NULL}] /\ Grows(name', next')
      /\ todo \in Seq(Names) /\ Len(todo) \in Nat /\ Len(name) \in Nat
      /\ DOMAIN table = 1 .. Len(table)
      /\ Lists(name, next)
  BY <1>2, <1>3, TypeFacts DEF Lists
<1>5. /\ Head(todo) \in Names /\ Tail(todo) \in Seq(Names)
      /\ Len(Tail(todo)) = Len(todo) - 1 /\ Len(todo) >= 1
      /\ Elems(todo) =
           {Head(todo)} \cup {Tail(todo)[k] : k \in DOMAIN Tail(todo)}
  <2>1. /\ Head(todo) \in Names /\ Tail(todo) \in Seq(Names)
        /\ Len(Tail(todo)) = Len(todo) - 1 /\ Len(todo) >= 1 /\ Head(todo) = todo[1]
        /\ \A k \in 1 .. Len(Tail(todo)) : Tail(todo)[k] = todo[k + 1]
    BY <1>1, <1>4, EmptySeq, HeadTailProperties
  <2>2. DOMAIN todo = 1 .. Len(todo) /\ DOMAIN Tail(todo) = 1 .. Len(todo) - 1
    BY <1>4, <2>1, LenProperties
  <2>3. ASSUME NEW k \in DOMAIN todo
        PROVE todo[k] \in {Head(todo)} \cup {Tail(todo)[j] : j \in DOMAIN Tail(todo)}
    <3>1. CASE k = 1
      BY <2>1, <3>1
    <3>2. CASE k # 1
      <4>1. k - 1 \in DOMAIN Tail(todo) /\ (k - 1) + 1 = k
        BY <1>4, <2>2, <3>2
      <4>2. Tail(todo)[k - 1] = todo[k]
        BY <1>4, <2>1, <2>2, <4>1
      <4>3. QED
        BY <4>1, <4>2
    <3>3. QED
      BY <3>1, <3>2
  <2>4. ASSUME NEW j \in DOMAIN Tail(todo)
        PROVE Tail(todo)[j] \in Elems(todo)
    BY <1>4, <2>1, <2>2 DEF Elems
  <2>5. Head(todo) \in Elems(todo)
    BY <1>4, <2>1, <2>2 DEF Elems
  <2>6. QED
    BY <2>1, <2>3, <2>4, <2>5 DEF Elems
<1>6. V \subseteq DOMAIN name /\ W \subseteq DOMAIN name
  <2>1. right = NoDesc \/ right.head \in DOMAIN name
    BY DEF IInv, HeadsThere
  <2>2. left = NoDesc \/ left.head \in DOMAIN name
    BY DEF IInv, HeadsThere
  <2>3. Reach(NoDesc.head, next) = {}
    BY <1>4, NoMembers
  <2>4. QED
    BY <1>4, <2>1, <2>2, <2>3, ReachGrows
<1>7. (\A c \in V : ~InTable(c)) /\ (\A c \in W : ~InTable(c)) /\ V \cap W = {}
  BY <1>1 DEF IInv, Apart
<1>8. ~InTable(m)
  <2>1. ASSUME NEW d \in DOMAIN table PROVE m \notin Reach(table[d].head, next)
    <3>1. table[d].head \in DOMAIN name
      BY DEF IInv, HeadsThere
    <3>2. Reach(table[d].head, next) \subseteq DOMAIN name
      BY <1>4, <3>1, ReachGrows
    <3>3. QED
      BY <1>2, <3>2
  <2>2. QED
    BY <2>1 DEF InTable
<1>9. TypeOK'
  BY <1>1, <1>2, <1>3, <1>4, <1>5 DEF IInv, TypeOK, Desc
<1>10. Grows(name, next)'
  BY <1>4 DEF Grows
<1>11. HeadsThere'
  BY <1>1, <1>2, <1>3 DEF IInv, HeadsThere
<1>12. Fits'
  BY <1>1, <1>2, <1>4, <1>5, StructAssumption DEF IInv, Fits
<1>13. CopiesHold' /\ \A c : InTable(c)' <=> InTable(c)
  <2>1. \A c \in Cell : InTable(c) => next'[c] = next[c]
    BY <1>3, <1>7, <1>8
  <2>2. QED
    BY <1>1, <1>4, <2>1, TablesKept
<1>14. W2 = W
  <2>1. \A c \in W : next'[c] = next[c]
    BY <1>2, <1>3, <1>4, <1>6, <1>7
  <2>2. Reach(left.head, next') = Reach(left.head, next)
    BY <1>4, <2>1, ReachFrame
  <2>3. QED
    BY <1>1, <2>2
<1>15. Apart'
  <2>1. (\A c \in V2 : ~InTable(c)) /\ V2 \cap W2 = {} /\ \A c \in W2 : ~InTable(c)
    BY <1>2, <1>3, <1>6, <1>7, <1>8, <1>14
  <2> HIDE DEF V2, W2
  <2>2. (\A c \in V2 : ~InTable(c)') /\ (\A c \in W2 : ~InTable(c)')
    BY <1>13, <2>1
  <2>3. QED
    BY <1>1, <2>1, <2>2 DEF Apart, V2, W2
<1>16. OneByOne'
  <2> DEFINE N2(S) == {name'[c] : c \in S}
             rest == Elems(Tail(todo))
  <2>1. SUFFICES ASSUME ~several PROVE OneByOne'
    BY <1>1 DEF OneByOne
  <2>2. /\ NamesOf(W) \cup NamesOf(V) \cup Elems(todo) = declared
        /\ left # NoDesc => Len(todo) <= 1
        /\ left # NoDesc /\ right # NoDesc => todo = <<>>
    BY <1>1, <2>1 DEF IInv, OneByOne
  <2>3. N2(W) = NamesOf(W) /\ N2(V) = NamesOf(V)
    BY <1>2, <1>6 DEF NamesOf
  <2>4. N2(V2) = N2(V) \cup {Head(todo)}
    <3> HIDE DEF V, V2, m
    <3>1. CASE V2 = V \cup {m}
      BY <1>2, <3>1
    <3>2. CASE V2 = V /\ \E c \in V : name'[c] = name'[m]
      BY <1>2, <3>2
    <3>3. QED
      BY <1>3, <3>1, <3>2
  <2>5. N2(W2) \cup N2(V2) \cup rest = declared
    <3> HIDE DEF V, V2, W, W2, N2, rest
    <3>1. Elems(todo) = {Head(todo)} \cup rest
      BY <1>5 DEF rest, Elems
    <3>2. QED
      BY <1>14, <2>2, <2>3, <2>4, <3>1
  <2>6. ASSUME left # NoDesc PROVE Tail(todo) = <<>> /\ next'[right'.head] = NULL
    <3>1. Len(Tail(todo)) = 0
      BY <1>4, <1>5, <2>2, <2>6
    <3>2. Tail(todo) = <<>>
      BY <1>5, <3>1, EmptySeq
    <3>3. right = NoDesc
      BY <1>1, <2>2, <2>6
    <3>4. V = {}
      BY <1>4, <3>3, NoMembers
    <3>5. V2 = {m} /\ next'[m] = NULL
      BY <1>2, <1>3, <3>4
    <3>6. right'.head \in V2
      <4>1. right'.head # NULL
        BY <1>2, <1>3, <1>4, NullIsNoCell
      <4>2. QED
        BY <1>4, <4>1, ReachClosed
    <3>7. QED
      BY <3>2, <3>5, <3>6
  <2>7. /\ stage' = "ids" /\ todo' = Tail(todo) /\ left' = left /\ declared' = declared
        /\ Len(<<>>) = 0
    BY <1>1, EmptySeq
  <2>8. NamesOf(Reach(left.head, next))' = N2(W2) /\ NamesOf(Reach(right.head, next))' = N2(V2)
    BY DEF NamesOf
  <2>9. Elems(todo)' = rest
    BY <2>7
  <2> HIDE DEF N2, W2, V2, rest
  <2>10. (NamesOf(Reach(left.head, next)) \cup NamesOf(Reach(right.head, next))
            \cup Elems(todo) = declared)'
    BY <2>5, <2>7, <2>8, <2>9
  <2>11. QED
    BY <2>6, <2>7, <2>10 DEF OneByOne
<1>17. QED
  BY <1>9, <1>10, <1>11, <1>12, <1>13, <1>15, <1>16 DEF IInv

-----------------------------------------------------------------------------
\* The inductive invariant holds in every reachable state.
THEOREM StructInvariance == Spec => []IInv
<1>1. Init => IInv
  BY InitIInv
<1>2. IInv /\ [Next]_vars => IInv'
  <2> SUFFICES ASSUME IInv, [Next]_vars PROVE IInv'
    OBVIOUS
  <2>1. CASE Open
    BY <2>1, OpenIInv
  <2>2. CASE \E ids \in IDLists : Field(ids)
    BY <2>2, FieldIInv
  <2>3. CASE Step
    <3>1. CASE NextID
      BY <3>1, NextIDIInv
    <3>2. CASE StartMerge
      BY <3>2, StartMergeIInv
    <3>3. CASE MergeNext
      BY <3>3, MergeNextIInv
    <3>4. CASE EndMerge
      BY <3>4, EndMergeIInv
    <3>5. QED
      BY <2>3, <3>1, <3>2, <3>3, <3>4 DEF Step
  <2>4. CASE \E s \in Structs : Close(s) \/ Declare(s)
    <3>1. PICK s \in Structs : Close(s) \/ Declare(s)
      BY <2>4
    <3>2. CASE Close(s)
      BY <3>2, CloseIInv
    <3>3. CASE Declare(s)
      BY <3>3, DeclareIInv
    <3>4. QED
      BY <3>1, <3>2, <3>3
  <2>5. CASE UNCHANGED vars
    <3>1. UNCHANGED <<stage, name, next, left, right, todo, walk, table, entries,
                      declared, several>>
      BY <2>5 DEF vars
    <3>2. TypeOK' /\ Grows(name, next)' /\ HeadsThere' /\ Fits'
      BY <3>1 DEF IInv, TypeOK, Grows, HeadsThere, Fits
    <3>3. Apart' /\ CopiesHold'
      BY <3>1 DEF IInv, Apart, InTable, CopiesHold
    <3>4. OneByOne'
      BY <3>1 DEF IInv, OneByOne, NamesOf, Elems
    <3>5. QED
      BY <3>2, <3>3, <3>4 DEF IInv
  <2>6. QED
    BY <2>1, <2>2, <2>3, <2>4, <2>5 DEF Next
<1>3. QED
  BY <1>1, <1>2, PTL DEF Spec

\* Pointers lead to members, and entries to descriptors that exist.
THEOREM StructTypes == Spec => []TypeOK
<1>1. IInv => TypeOK
  BY DEF IInv
<1>2. QED
  BY <1>1, StructInvariance, PTL

\* Pointers that lead to greater names make lists sorted, and let them end.
LEMMA SortedLists ==
  ASSUME IInv, NEW h \in DOMAIN name \cup {NULL}
  PROVE  Sorted(h)
<1> DEFINE V == Reach(h, next)
<1>1. /\ Lists(name, next) /\ next \in [Cell -> Cell \cup {NULL}] /\ DOMAIN name \subseteq Cell
  BY TypeFacts
<1>2. V \subseteq Cell /\ (h # NULL => h \in V) /\ \A c \in V : next[c] # NULL => next[c] \in V
  BY <1>1, ReachClosed
<1>3. \A c \in V : next[c] = NULL \/ name[c] < name[next[c]]
  BY <1>2 DEF IInv, Grows
<1>4. ASSUME h # NULL PROVE \E c \in V : next[c] = NULL
  <2>1. V \in SUBSET Cell /\ V # {}
    BY <1>2, <1>4
  <2> HIDE DEF V
  <2>2. PICK c \in V : next[c] \notin V
    BY <1>1, <2>1, LastOne
  <2>3. QED
    BY <1>2, <2>2
<1>5. V = Members(h)
  BY DEF Reach, Members
<1>6. QED
  BY <1>3, <1>4, <1>5 DEF Sorted

\* The lists of structs stay sorted and keep an end, although the merge links
\* them to members of the list it reads (lines 840-844).
THEOREM StructListsSorted == Spec => []ListsSorted
<1>1. ASSUME IInv PROVE ListsSorted
  <2>1. left.head \in DOMAIN name \cup {NULL}
    BY <1>1 DEF IInv, HeadsThere, NoDesc
  <2>2. \A d \in DOMAIN table : table[d].head \in DOMAIN name
    BY <1>1 DEF IInv, HeadsThere
  <2>3. QED
    BY <1>1, <2>1, <2>2, SortedLists DEF ListsSorted
<1>2. QED
  BY <1>1, StructInvariance, PTL

\* A search that goes on from the members in go reads all members of the name
\* n, as long as it goes on from smaller names.
LEMMA AllRead ==
  ASSUME NEW nm, NEW nx, Lists(nm, nx), NEW h \in DOMAIN nm, NEW n \in Int, NEW go,
         \A c \in DOMAIN nm : nm[c] < n => c \in go
  PROVE  {c \in Visits(h, nx, go) : nm[c] = n} = {c \in Reach(h, nx) : nm[c] = n}
<1> DEFINE V == Reach(h, nx)
           W == Visits(h, nx, go)
           S == {c \in V : c \in W \/ nm[c] > n}
<1>1. /\ nm \in Seq(Names) /\ Len(nm) <= MaxMembers /\ Grows(nm, nx)
      /\ nx \in [Cell -> Cell \cup {NULL}]
  BY DEF Lists
<1>2. DOMAIN nm \subseteq Cell /\ \A c \in DOMAIN nm : nm[c] \in Int
  BY <1>1, NamesAreNumbers
<1>3. h \in Cell /\ h # NULL
  BY <1>2, NullIsNoCell
<1>4. /\ V \subseteq Cell /\ h \in V /\ \A c \in V : nx[c] # NULL => nx[c] \in V
      /\ V \subseteq DOMAIN nm
  BY <1>1, <1>3, ReachClosed, ReachGrows
<1>5. /\ W \subseteq Cell /\ h \in W
      /\ \A c \in W \cap go : nx[c] # NULL => nx[c] \in W
  BY <1>1, <1>3, VisitsClosed
<1>6. W \subseteq V
  <2>1. \A c \in V \cap go : nx[c] # NULL => nx[c] \in V
    BY <1>4
  <2> HIDE DEF V
  <2>2. QED
    BY <1>1, <1>3, <1>4, <2>1, VisitsLeast
<1>7. ASSUME NEW c \in S \cap Cell, nx[c] # NULL PROVE nx[c] \in S
  <2>1. /\ c \in V /\ nx[c] \in V /\ c \in DOMAIN nm /\ nx[c] \in DOMAIN nm
        /\ nm[c] < nm[nx[c]]
    BY <1>1, <1>4, <1>7 DEF Grows
  <2>2. nm[c] \in Int /\ nm[nx[c]] \in Int
    BY <1>2, <2>1
  <2>3. CASE nm[c] < n
    <3>1. c \in go /\ c \in W
      BY <2>1, <2>2, <2>3
    <3>2. QED
      BY <1>5, <1>7, <2>1, <3>1
  <2>4. CASE nm[c] >= n
    <3>1. nm[nx[c]] > n
      BY <2>1, <2>2, <2>4
    <3>2. QED
      BY <2>1, <3>1
  <2>5. QED
    BY <2>2, <2>3, <2>4
<1>8. V \subseteq S
  <2>1. h \in S
    BY <1>4, <1>5
  <2> HIDE DEF S
  <2>2. QED
    BY <1>1, <1>3, <1>7, <2>1, ReachLeast
<1>9. ASSUME NEW c \in V, nm[c] = n PROVE c \in W
  BY <1>8, <1>9
<1>10. QED
  BY <1>6, <1>9

\* The two searches for the member of an access x.m come to the same member,
\* or both to none (lines 992-1029).
THEOREM StructLookupsAgree == Spec => []LookupsAgree
<1>1. ASSUME IInv PROVE LookupsAgree
  <2>1. /\ Lists(name, next) /\ next \in [Cell -> Cell \cup {NULL}]
        /\ \A c \in DOMAIN name : name[c] \in Int
        /\ entries \subseteq Entry(DOMAIN table)
    BY <1>1, TypeFacts, NamesAreNumbers DEF IInv, TypeOK
  <2>2. ASSUME NEW e \in entries, NEW n \in Names
        PROVE  TypeLookup(table[e.desc].head, n) = EntryLookup(e.sub, n)
    <3> DEFINE h == table[e.desc].head
               nx == e.sub.next
               less == {c \in DOMAIN name : name[c] < n}
               other == {c \in DOMAIN name : name[c] # n}
               A == Visits(h, next, less)
               B == Visits(h, nx, other)
               V == Reach(h, next)
    <3>1. e.desc \in DOMAIN table /\ nx \in [Cell -> Cell \cup {NULL}]
      BY <2>1 DEF Entry
    <3>2. h \in DOMAIN name /\ h \in Cell
      BY <1>1, <3>1, TypeFacts DEF IInv, HeadsThere
    <3>3. e.sub.head = h /\ \A c \in V : nx[c] = next[c]
      BY <1>1 DEF IInv, CopiesHold
    <3>4. n \in Int
      BY StructAssumption
    <3>5. {c \in A : name[c] = n} = {c \in V : name[c] = n}
      <4>1. \A c \in DOMAIN name : name[c] < n => c \in less
        OBVIOUS
      <4> HIDE DEF less, h
      <4>2. QED
        BY <2>1, <3>2, <3>4, <4>1, AllRead
    <3>6. Visits(h, nx, other) = Visits(h, next, other)
      <4> DEFINE C == Visits(h, next, other)
      <4>1. /\ V \subseteq Cell /\ h \in V /\ \A c \in V : next[c] # NULL => next[c] \in V
            /\ h # NULL
        BY <2>1, <3>2, ReachClosed, NullIsNoCell
      <4>2. /\ B \subseteq Cell /\ h \in B
            /\ \A c \in B \cap other : nx[c] # NULL => nx[c] \in B
        <5> HIDE DEF h, nx, other
        <5>1. QED
          BY <3>1, <3>2, <4>1, VisitsClosed
      <4>3. /\ C \subseteq Cell /\ h \in C
            /\ \A c \in C \cap other : next[c] # NULL => next[c] \in C
        <5> HIDE DEF h, other
        <5>1. QED
          BY <2>1, <3>2, <4>1, VisitsClosed
      <4>4. B \subseteq C \cap V
        <5> DEFINE S == C \cap V
        <5>1. h \in S /\ \A c \in S \cap other : nx[c] # NULL => nx[c] \in S
          BY <3>3, <4>1, <4>3
        <5> HIDE DEF S, h, nx, other
        <5>2. B \subseteq S
          BY <3>1, <3>2, <5>1, VisitsLeast
        <5>3. QED
          BY <5>2 DEF S
      <4>5. C \subseteq B
        <5>1. \A c \in B \cap other : next[c] # NULL => next[c] \in B
          BY <3>3, <4>2, <4>4
        <5> DEFINE S == B
        <5>2. h \in S /\ \A c \in S \cap other : next[c] # NULL => next[c] \in S
          BY <4>2, <5>1
        <5> HIDE DEF S, h, nx, other
        <5>3. C \subseteq S
          BY <2>1, <3>2, <5>2, VisitsLeast
        <5>4. QED
          BY <5>3 DEF S
      <4>6. QED
        BY <4>4, <4>5
    <3>7. {c \in B : name[c] = n} = {c \in V : name[c] = n}
      <4>1. \A c \in DOMAIN name : name[c] < n => c \in other
        BY <2>1, <3>4
      <4> HIDE DEF other, h, nx
      <4>2. {c \in Visits(h, next, other) : name[c] = n} = {c \in V : name[c] = n}
        BY <2>1, <3>2, <3>4, <4>1, AllRead
      <4>3. QED
        BY <3>6, <4>2
    <3>8. \A c : (c \in A /\ name[c] = n) <=> (c \in B /\ name[c] = n)
      <4> HIDE DEF A, B, V
      <4>1. QED
        BY <3>5, <3>7
    <3>9. Named(A, n) = Named(B, n)
      <4> HIDE DEF A, B, V
      <4>1. (CHOOSE c : c \in A /\ name[c] = n) = (CHOOSE c : c \in B /\ name[c] = n)
        BY <3>8
      <4>2. QED
        BY <3>8, <4>1 DEF Named
    <3>10. QED
      BY <3>3, <3>9 DEF TypeLookup, EntryLookup
  <2>3. QED
    BY <2>2 DEF LookupsAgree
<1>2. QED
  BY <1>1, StructInvariance, PTL

\* A struct whose declarations after the first have one name each gets all its
\* members: the merge loses none.
THEOREM StructNoneLost == Spec => []NoneLostOneByOne
<1>1. ASSUME IInv PROVE NoneLostOneByOne
  BY <1>1 DEF IInv, OneByOne, NamesOf, NoneLostOneByOne, Reach, Members
<1>2. QED
  BY <1>1, StructInvariance, PTL

\* No step takes a member out of the list of a struct.
THEOREM StructFirstCounts == Spec => FirstCounts
<1> DEFINE Kept == left # NoDesc /\ left' # NoDesc => Members(left.head) \subseteq Members(left.head)'
<1>1. ASSUME IInv, [Next]_vars PROVE [Kept]_vars
  <2>1. ASSUME left' = left, next' = next PROVE Kept
    BY <2>1 DEF Members
  <2>2. CASE Open
    BY <2>2 DEF Open
  <2>3. CASE \E ids \in IDLists : Field(ids)
    BY <2>1, <2>3 DEF Field
  <2>4. CASE NextID
    <3> DEFINE W == Reach(left.head, next)
               V == Reach(right.head, next)
               m == Len(name) + 1
    <3>1. /\ m \in Cell /\ m \notin DOMAIN name
          /\ \A c \in Cell : c = m \/ c \in V \/ next'[c] = next[c]
          /\ Lists(name', next')
      BY <1>1, <2>4, NextIDOutcome DEF Outcome
    <3>2. left' = left /\ stage = "ids"
      BY <2>4 DEF NextID
    <3>3. /\ next \in [Cell -> Cell \cup {NULL}] /\ left.head \in Cell \cup {NULL}
          /\ next' \in [Cell -> Cell \cup {NULL}] /\ Lists(name, next)
          /\ DOMAIN name \subseteq Cell
      BY <1>1, <3>1, TypeFacts DEF Lists
    <3>4. V \cap W = {}
      BY <1>1, <3>2 DEF IInv, Apart
    <3>5. W \subseteq DOMAIN name
      <4>1. left = NoDesc \/ left.head \in DOMAIN name
        BY <1>1 DEF IInv, HeadsThere
      <4>2. QED
        BY <3>3, <4>1, NoMembers, ReachGrows
    <3>6. \A c \in W : next'[c] = next[c]
      BY <3>1, <3>3, <3>4, <3>5
    <3>7. Reach(left.head, next') = W
      BY <3>3, <3>6, ReachFrame
    <3>8. QED
      BY <3>2, <3>7 DEF Members, Reach
  <2>5. CASE StartMerge
    <3>1. left = NoDesc \/ (left' = left /\ next' = next)
      BY <2>5 DEF StartMerge
    <3>2. QED
      BY <2>1, <3>1
  <2>6. CASE MergeNext
    <3>1. Reach(left.head, next) \subseteq Reach(left'.head, next')
      BY <1>1, <2>6, MergeNextOutcome DEF Outcome
    <3>2. QED
      BY <3>1 DEF Members, Reach
  <2>7. CASE EndMerge
    BY <2>1, <2>7 DEF EndMerge
  <2>8. CASE \E s \in Structs : Close(s) \/ Declare(s)
    BY <2>1, <2>8 DEF Close, Declare
  <2>9. CASE UNCHANGED vars
    BY <2>9
  <2>10. QED
    BY <1>1, <2>2, <2>3, <2>4, <2>5, <2>6, <2>7, <2>8, <2>9 DEF Next, Step
<1>2. QED
  BY <1>1, StructInvariance, PTL DEF Spec, FirstCounts
=============================================================================

------------------------- MODULE PointerChase_proofs -------------------------
(***************************************************************************)
(* Theorems about module PointerChase, for all launches that satisfy its   *)
(* assumption.  The inductive invariant ChaseInv adds to the properties    *)
(* what the cells hold.  Linked: a cell that was linked points to the next *)
(* one as long as nobody has stored a result there; sharing the ring does  *)
(* no harm, because sharers link the same cells the same way.  Closed: in  *)
(* a ring nobody else stores to, a linked cell points into the ring for    *)
(* ever, because what is stored there is the pointer of a walker that      *)
(* never left it.                                                          *)
(***************************************************************************)
EXTENDS PointerChase, ChaseLayouts, TLAPS

\* Multiplication with a natural number keeps the order.
LEMMA MulMonotone ==
  ASSUME NEW a \in Int, NEW b \in Int, NEW n \in Nat, a <= b
  PROVE  a * n <= b * n
<1>1. (b - a) * n >= 0
  OBVIOUS
<1>2. QED
  BY <1>1

\* A flat index a * n + b is taken apart again by \div and %.
LEMMA DivModUnique ==
  ASSUME NEW a \in Nat, NEW n \in Nat \ {0}, NEW b \in 0 .. n - 1
  PROVE  /\ a * n + b \in Nat
         /\ (a * n + b) \div n = a
         /\ (a * n + b) % n = b
<1>1. a * n \in Nat
  BY MulMonotone
<1>2. QED
  BY <1>1

\* So two flat indices are equal only if their parts are.
LEMMA FlatInjective ==
  ASSUME NEW n \in Nat \ {0}, NEW a \in Nat, NEW b \in 0 .. n - 1,
         NEW c \in Nat, NEW d \in 0 .. n - 1, a * n + b = c * n + d
  PROVE  a = c /\ b = d
BY DivModUnique

\* Division with remainder.
LEMMA DivMod ==
  ASSUME NEW a \in Nat, NEW n \in Nat \ {0}
  PROVE  /\ a \div n \in Nat
         /\ a % n \in 0 .. n - 1
         /\ a = (a \div n) * n + (a % n)
OBVIOUS


\* The cells walker w has linked.
Done(w) == {k \in Index : pc[w] # "link" \/ k < i[w]}

Linked ==
  \A w \in Walker : \A k \in Done(w) :
    (\A v \in Walker : pc[v] = "done" => launch.result[v] # cell[w][k])
      => mem[cell[w][k]] = cell[w][(k + 1) % Num]

Closed ==
  \A w \in Walker : \A k \in Done(w) :
    Undisturbed(w) => mem[cell[w][k]] \in Ring(w)

ChaseInv == TypeOK /\ Linked /\ Closed /\ InStep /\ OwnRing

-----------------------------------------------------------------------------
\* What the assumption says of the launch that was chosen.
LEMMA LaunchFacts ==
  ASSUME launch \in Launches
  PROVE  /\ Num \in Nat \ {0}
         /\ launch.hops \in Nat
         /\ cell \in [Walker -> [Index -> launch.memory]]
         /\ launch.result \in [Walker -> launch.memory]
         /\ \A w \in Walker : \A j, k \in Index : cell[w][j] = cell[w][k] => j = k
         /\ \A v, w \in Walker : \A j, k \in Index :
              cell[v][j] = cell[w][k] => cell[v] = cell[w]
BY LaunchAssumption DEF WellFormed, Num, cell, Walker, Index

\* The index after k, around the ring.
LEMMA NextIndex ==
  ASSUME NEW n \in Nat \ {0}, NEW k \in 0 .. n - 1
  PROVE  /\ (k + 1) % n \in 0 .. n - 1
         /\ k < n - 1 => (k + 1) % n = k + 1
         /\ k = n - 1 => (k + 1) % n = 0
<1>1. CASE k < n - 1
  <2>1. k + 1 = 0 * n + (k + 1) /\ k + 1 \in 0 .. n - 1
    BY <1>1
  <2>2. (k + 1) % n = k + 1
    BY <2>1, DivModUnique
  <2>3. QED
    BY <1>1, <2>1, <2>2
<1>2. CASE k = n - 1
  <2>1. k + 1 = 1 * n + 0 /\ 0 \in 0 .. n - 1
    BY <1>2
  <2>2. (k + 1) % n = 0
    BY <2>1, DivModUnique
  <2>3. QED
    BY <1>2, <2>1, <2>2
<1>3. QED
  BY <1>1, <1>2

\* Counting hops and going around the ring agree.
LEMMA HopIndex ==
  ASSUME NEW n \in Nat \ {0}, NEW a \in Nat
  PROVE  /\ a % n \in 0 .. n - 1
         /\ (a + 1) % n = ((a % n) + 1) % n
<1>1. PICK q \in Nat, r \in 0 .. n - 1 : a = q * n + r /\ r = a % n
  BY DivMod
<1>2. CASE r < n - 1
  <2>1. r + 1 \in 0 .. n - 1
    BY <1>2
  <2>2. (q * n + (r + 1)) % n = r + 1
    BY <2>1, DivModUnique
  <2>3. q * n \in Int /\ a + 1 = q * n + (r + 1)
    BY <1>1
  <2>4. QED
    BY <1>1, <1>2, <2>2, <2>3, NextIndex
<1>3. CASE r = n - 1
  <2>1. (q + 1) * n = q * n + n /\ q * n \in Int
    OBVIOUS
  <2>2. (q * n + n) % n = 0
    <3>1. (q + 1) * n + 0 = q * n + n
      BY <2>1
    <3>2. ((q + 1) * n + 0) % n = 0
      BY DivModUnique
    <3>3. QED
      BY <3>1, <3>2
  <2>3. a + 1 = q * n + n
    <3>1. a = q * n + (n - 1) /\ q * n \in Int
      BY <1>1, <1>3, <2>1
    <3>2. QED
      BY <3>1
  <2>4. QED
    BY <1>1, <1>3, <2>2, <2>3, NextIndex
<1>4. QED
  BY <1>1, <1>2, <1>3

-----------------------------------------------------------------------------
LEMMA ChaseInit == Init => ChaseInv
<1> SUFFICES ASSUME Init PROVE ChaseInv
  OBVIOUS
<1>1. Num \in Nat \ {0} /\ launch \in Launches
  BY LaunchFacts DEF Init
<1>2. TypeOK
  BY <1>1 DEF Init, TypeOK, Walker
<1>3. \A w \in Walker : pc[w] = "link" /\ i[w] = 0
  BY DEF Init, Walker
<1>4. \A w \in Walker : Done(w) = {}
  BY <1>1, <1>3 DEF Done, Index
<1>5. QED
  BY <1>2, <1>3, <1>4 DEF ChaseInv, Linked, Closed, InStep, OwnRing

\* Types.
LEMMA ChaseType ==
  ASSUME TypeOK, NEW w \in Walker, Step(w)
  PROVE  TypeOK'
<1> USE DEF TypeOK
<1>0. launch \in Launches
  OBVIOUS
<1>1. /\ Num \in Nat \ {0} /\ launch.hops \in Nat
      /\ cell[w] \in [Index -> launch.memory] /\ launch.result[w] \in launch.memory
  BY <1>0, LaunchFacts
<1>2. CASE Link(w)
  <2>1. i[w] \in Index /\ i[w] + 1 \in Index
    BY <1>1, <1>2 DEF Link, Index
  <2>2. cell[w][i[w] + 1] \in launch.memory
    BY <1>1, <2>1
  <2>3. QED
    BY <1>1, <1>2, <2>1, <2>2 DEF Link, Walker, Index, Num
<1>3. CASE Close(w)
  <2>1. 0 \in Index /\ Num - 1 \in Index
    BY <1>1 DEF Index
  <2>2. cell[w][0] \in launch.memory
    BY <1>1, <2>1
  <2>3. QED
    BY <1>1, <1>3, <2>1, <2>2 DEF Close, Walker, Num
<1>4. CASE Hop(w)
  BY <1>1, <1>4 DEF Hop, Running, Walker, Num
<1>5. CASE StoreResult(w)
  <2>1. i[w] = launch.hops
    BY <1>5 DEF StoreResult, Running
  <2>2. QED
    BY <1>1, <1>5, <2>1 DEF StoreResult, Running, Walker, Num
<1>6. QED
  BY <1>2, <1>3, <1>4, <1>5 DEF Step

-----------------------------------------------------------------------------
\* What is left of the memory and of the others when a walker links cell k.
LEMMA LinkStep ==
  ASSUME ChaseInv, NEW w \in Walker, NEW k \in Index,
         pc[w] = "link", i[w] = k,
         mem' = [mem EXCEPT ![cell[w][k]] = cell[w][(k + 1) % Num]],
         launch' = launch,
         \A v \in Walker : v # w => pc'[v] = pc[v] /\ i'[v] = i[v] /\ ptr'[v] = ptr[v],
         \/ /\ pc'[w] = "link" /\ i'[w] = k + 1 /\ k < Num - 1
         \/ /\ pc'[w] = "chase" /\ i'[w] = 0 /\ k = Num - 1 /\ ptr'[w] = cell[w][0]
  PROVE  (Linked /\ Closed /\ InStep /\ OwnRing)'
<1> USE DEF ChaseInv
<1>0. launch \in Launches
  BY DEF TypeOK
<1>1. /\ Num \in Nat \ {0}
      /\ cell \in [Walker -> [Index -> launch.memory]]
      /\ \A u \in Walker : \A j, m \in Index : cell[u][j] = cell[u][m] => j = m
      /\ \A u, v \in Walker : \A j, m \in Index :
           cell[u][j] = cell[v][m] => cell[u] = cell[v]
  BY <1>0, LaunchFacts
<1>2. /\ Walker' = Walker /\ cell' = cell /\ Num' = Num /\ Index' = Index
      /\ launch.result = launch.result'
      /\ \A v \in Walker : Ring(v)' = Ring(v) /\ Undisturbed(v)' = Undisturbed(v)
  BY DEF Walker, cell, Num, Index, Ring, Undisturbed
<1>3. /\ mem \in [launch.memory -> launch.memory \cup {Null}]
      /\ i \in [Walker -> Nat]
  BY DEF TypeOK
<1>4. (k + 1) % Num \in Index
  BY <1>1, NextIndex DEF Index
<1>5. \A v \in Walker : \A m \in Done(v)' :
        m \in Index /\ (m \in Done(v) \/ (v = w /\ m = k))
  BY <1>2, <1>3 DEF Done, Index
<1>6. \A v \in Walker : (pc'[v] = "done") = (pc[v] = "done")
  OBVIOUS
\* Cells of other rings keep what they hold; so do other cells of this ring.
<1>7. ASSUME NEW v \in Walker, NEW m \in Index
      PROVE  mem'[cell[v][m]] = IF cell[v] = cell[w] /\ m = k
                                THEN cell[v][(m + 1) % Num] ELSE mem[cell[v][m]]
  <2>1. cell[v][m] \in launch.memory /\ cell[w][k] \in launch.memory
    BY <1>1
  <2>2. cell[v][m] = cell[w][k] <=> cell[v] = cell[w] /\ m = k
    BY <1>1
  <2>3. QED
    BY <1>3, <2>1, <2>2
<1>8. Linked'
  <2> SUFFICES ASSUME NEW v \in Walker, NEW m \in Done(v)',
                      \A u \in Walker : pc[u] = "done" => launch.result[u] # cell[v][m]
               PROVE  mem'[cell[v][m]] = cell[v][(m + 1) % Num]
    BY <1>2, <1>6 DEF Linked
  <2>1. m \in Index /\ (m \in Done(v) \/ (v = w /\ m = k))
    BY <1>5
  <2>2. m \in Done(v) => mem[cell[v][m]] = cell[v][(m + 1) % Num]
    BY DEF Linked
  <2>3. QED
    BY <1>7, <2>1, <2>2
<1>9. Closed'
  <2> SUFFICES ASSUME NEW v \in Walker, NEW m \in Done(v)', Undisturbed(v)
               PROVE  mem'[cell[v][m]] \in Ring(v)
    BY <1>2 DEF Closed
  <2>1. m \in Index /\ (m \in Done(v) \/ (v = w /\ m = k))
    BY <1>5
  <2>2. m \in Done(v) => mem[cell[v][m]] \in Ring(v)
    BY DEF Closed
  <2>3. cell[v][(m + 1) % Num] \in Ring(v)
    BY <1>1, <2>1, NextIndex DEF Ring, Index
  <2>4. QED
    BY <1>7, <2>1, <2>2, <2>3
<1>10. ASSUME pc'[w] = "chase"
       PROVE  ptr'[w] = cell[w][i'[w] % Num] /\ ptr'[w] \in Ring(w)
  <2>1. i'[w] = 0 /\ ptr'[w] = cell[w][0] /\ 0 \in Index
    BY <1>1, <1>10 DEF Index
  <2>2. 0 % Num = 0
    <3>1. (0 * Num + 0) % Num = 0
      BY <1>1, DivModUnique
    <3>2. QED
      BY <1>1, <3>1
  <2>3. QED
    BY <2>1, <2>2 DEF Ring
<1>11. InStep'
  BY <1>2, <1>6, <1>10 DEF InStep, Stored
<1>12. OwnRing'
  BY <1>2, <1>10 DEF OwnRing
<1>13. QED
  BY <1>8, <1>9, <1>11, <1>12

LEMMA ChaseLink ==
  ASSUME ChaseInv, NEW w \in Walker, Link(w)
  PROVE  (Linked /\ Closed /\ InStep /\ OwnRing)'
<1>1. launch \in Launches /\ i \in [Walker -> Nat] /\ pc \in [Walker -> {"link", "chase", "done"}]
  BY DEF ChaseInv, TypeOK
<1>2. i[w] \in Index /\ (i[w] + 1) % Num = i[w] + 1
  BY <1>1, LaunchFacts, NextIndex DEF Link, Index
<1>3. QED
  BY <1>1, <1>2, LinkStep DEF Link

LEMMA ChaseClose ==
  ASSUME ChaseInv, NEW w \in Walker, Close(w)
  PROVE  (Linked /\ Closed /\ InStep /\ OwnRing)'
<1>1. /\ launch \in Launches /\ i \in [Walker -> Nat]
      /\ pc \in [Walker -> {"link", "chase", "done"}]
      /\ ptr \in [Walker -> launch.memory \cup {Null}]
  BY DEF ChaseInv, TypeOK
<1>2. Num - 1 \in Index /\ (Num - 1 + 1) % Num = 0
  BY <1>1, LaunchFacts, NextIndex DEF Index
<1>3. QED
  BY <1>1, <1>2, LinkStep DEF Close

\* A hop reads the cell the walker is at.
LEMMA ChaseHop ==
  ASSUME ChaseInv, NEW w \in Walker, Hop(w)
  PROVE  (Linked /\ Closed /\ InStep /\ OwnRing)'
<1> USE DEF ChaseInv
<1>0. launch \in Launches
  BY DEF TypeOK
<1>1. /\ Num \in Nat \ {0}
      /\ cell \in [Walker -> [Index -> launch.memory]]
      /\ \A u \in Walker : \A j, m \in Index : cell[u][j] = cell[u][m] => j = m
  BY <1>0, LaunchFacts
<1>2. /\ Walker' = Walker /\ cell' = cell /\ Num' = Num /\ Index' = Index
      /\ launch.result = launch.result' /\ mem' = mem /\ pc' = pc
      /\ \A v \in Walker : Ring(v)' = Ring(v) /\ Undisturbed(v)' = Undisturbed(v)
      /\ \A v \in Walker : Stored(v)' = Stored(v)
  BY DEF Hop, Walker, cell, Num, Index, Ring, Undisturbed, Stored
<1>3. /\ i \in [Walker -> Nat] /\ ptr \in [Walker -> launch.memory \cup {Null}]
      /\ pc[w] = "chase"
      /\ i'[w] = i[w] + 1 /\ ptr'[w] = mem[ptr[w]]
      /\ \A v \in Walker : v # w => i'[v] = i[v] /\ ptr'[v] = ptr[v]
  BY DEF TypeOK, Hop, Running
<1>4. \A v \in Walker : Done(v)' = Done(v)
  BY <1>2, <1>3 DEF Done
<1>5. Done(w) = Index
  BY <1>3 DEF Done
<1>6. Linked' /\ Closed'
  BY <1>2, <1>4 DEF Linked, Closed
<1>7. InStep'
  <2> SUFFICES ASSUME ~Stored(w)
               PROVE  ptr'[w] = cell[w][i'[w] % Num]
    BY <1>2, <1>3 DEF InStep
  <2>1. ptr[w] = cell[w][i[w] % Num] /\ i[w] % Num \in Index
    BY <1>1, <1>3, HopIndex DEF InStep, Index
  <2>2. \A v \in Walker : pc[v] = "done" => launch.result[v] # cell[w][i[w] % Num]
    BY <2>1 DEF Stored, Ring
  <2>3. mem[ptr[w]] = cell[w][((i[w] % Num) + 1) % Num]
    BY <1>5, <2>1, <2>2 DEF Linked
  <2>4. QED
    BY <1>1, <1>3, <2>3, HopIndex
<1>8. OwnRing'
  <2> SUFFICES ASSUME Undisturbed(w)
               PROVE  ptr'[w] \in Ring(w)
    BY <1>2, <1>3 DEF OwnRing
  <2>1. ptr[w] \in Ring(w)
    BY <1>3 DEF OwnRing
  <2>2. PICK m \in Index : ptr[w] = cell[w][m]
    BY <2>1 DEF Ring
  <2>3. QED
    BY <1>3, <1>5, <2>2 DEF Closed
<1>9. QED
  BY <1>6, <1>7, <1>8

\* A result changes one cell; whose rings it is in are disturbed, or it is a
\* pointer into the ring.
LEMMA ChaseStore ==
  ASSUME ChaseInv, NEW w \in Walker, StoreResult(w)
  PROVE  (Linked /\ Closed /\ InStep /\ OwnRing)'
<1> USE DEF ChaseInv
<1>0. launch \in Launches
  BY DEF TypeOK
<1>1. /\ cell \in [Walker -> [Index -> launch.memory]]
      /\ launch.result[w] \in launch.memory
  BY <1>0, LaunchFacts
<1>2. /\ Walker' = Walker /\ cell' = cell /\ Num' = Num /\ Index' = Index
      /\ launch.result = launch.result' /\ i' = i /\ ptr' = ptr
      /\ \A v \in Walker : Ring(v)' = Ring(v) /\ Undisturbed(v)' = Undisturbed(v)
  BY DEF StoreResult, Walker, cell, Num, Index, Ring, Undisturbed
<1>3. /\ mem \in [launch.memory -> launch.memory \cup {Null}]
      /\ mem' = [mem EXCEPT ![launch.result[w]] = ptr[w]]
      /\ pc[w] = "chase" /\ pc'[w] = "done"
      /\ \A v \in Walker : v # w => pc'[v] = pc[v]
  BY DEF TypeOK, StoreResult, Running
<1>4. \A v \in Walker : Done(v)' = Done(v)
  BY <1>2, <1>3 DEF Done
<1>5. ASSUME NEW a \in launch.memory
      PROVE  mem'[a] = IF a = launch.result[w] THEN ptr[w] ELSE mem[a]
  BY <1>3
<1>6. Linked'
  <2> SUFFICES ASSUME NEW v \in Walker, NEW m \in Done(v),
                      \A u \in Walker : pc'[u] = "done" => launch.result[u] # cell[v][m]
               PROVE  mem'[cell[v][m]] = cell[v][(m + 1) % Num]
    BY <1>2, <1>4 DEF Linked
  <2>1. cell[v][m] # launch.result[w] /\ cell[v][m] \in launch.memory
    BY <1>1, <1>3 DEF Done
  <2>2. \A u \in Walker : pc[u] = "done" => launch.result[u] # cell[v][m]
    BY <1>3
  <2>3. QED
    BY <1>5, <2>1, <2>2 DEF Linked
<1>7. Closed'
  <2> SUFFICES ASSUME NEW v \in Walker, NEW m \in Done(v), Undisturbed(v)
               PROVE  mem'[cell[v][m]] \in Ring(v)
    BY <1>2, <1>4 DEF Closed
  <2>1. m \in Index /\ cell[v][m] \in launch.memory /\ cell[v][m] \in Ring(v)
    BY <1>1 DEF Done, Ring
  <2>2. CASE cell[v][m] = launch.result[w]
    <3>1. cell[w] = cell[v]
      BY <2>1, <2>2 DEF Undisturbed
    <3>2. Ring(w) = Ring(v) /\ Undisturbed(w)
      BY <3>1 DEF Ring, Undisturbed
    <3>3. ptr[w] \in Ring(w)
      BY <1>3, <3>2 DEF OwnRing
    <3>4. QED
      BY <1>5, <2>1, <2>2, <3>2, <3>3
  <2>3. CASE cell[v][m] # launch.result[w]
    BY <1>5, <2>1, <2>3 DEF Closed
  <2>4. QED
    BY <2>2, <2>3
<1>8. InStep'
  <2> SUFFICES ASSUME NEW v \in Walker, pc'[v] = "chase", ~Stored(v)'
               PROVE  ptr[v] = cell[v][i[v] % Num]
    BY <1>2 DEF InStep
  <2>1. pc[v] = "chase" /\ ~Stored(v)
    BY <1>2, <1>3 DEF Stored
  <2>2. QED
    BY <2>1 DEF InStep
<1>9. OwnRing'
  BY <1>2, <1>3 DEF OwnRing
<1>10. QED
  BY <1>6, <1>7, <1>8, <1>9

-----------------------------------------------------------------------------
LEMMA ChaseNext == ChaseInv /\ [Next]_vars => ChaseInv'
<1> SUFFICES ASSUME ChaseInv, [Next]_vars PROVE ChaseInv'
  OBVIOUS
<1>1. ASSUME NEW w \in Walker, Step(w) PROVE ChaseInv'
  <2>1. TypeOK'
    BY <1>1, ChaseType DEF ChaseInv
  <2>2. (Linked /\ Closed /\ InStep /\ OwnRing)'
    BY <1>1, ChaseLink, ChaseClose, ChaseHop, ChaseStore DEF Step
  <2>3. QED
    BY <2>1, <2>2 DEF ChaseInv
<1>2. CASE UNCHANGED vars
  <2>1. TypeOK'
    BY <1>2 DEF vars, ChaseInv, TypeOK, Walker, Num
  <2>2. (Linked /\ Closed)'
    BY <1>2 DEF vars, ChaseInv, Linked, Closed, Done, Index, Walker, cell, Num, Ring, Undisturbed
  <2>3. (InStep /\ OwnRing)'
    BY <1>2 DEF vars, ChaseInv, InStep, OwnRing, Index, Walker, cell, Num, Ring, Stored, Undisturbed
  <2>4. QED
    BY <2>1, <2>2, <2>3 DEF ChaseInv
<1>3. QED
  BY <1>1, <1>2 DEF Next, Finished

LEMMA ChaseInvariant == Spec => []ChaseInv
BY ChaseInit, ChaseNext, PTL DEF Spec

\* The types of the machine's state, for every launch.
THEOREM ChaseTypeOK == Spec => []TypeOK
BY ChaseInvariant, PTL DEF ChaseInv

\* Hop n is at cell n of the ring, whatever the length of the ring and the
\* number of walkers, until a result is stored into the ring
\* (GeneratePattern and Process).
THEOREM StridesAreTimed == Spec => []InStep
BY ChaseInvariant, PTL DEF ChaseInv

\* A walker in a ring only its sharers store to stays in it (Process).
THEOREM ChasersStay == Spec => []OwnRing
BY ChaseInvariant, PTL DEF ChaseInv

-----------------------------------------------------------------------------
(***************************************************************************)
(* The layouts of the programs.  Every ring begins in one of the blocks    *)
(* of size * stride words, less than a stride from the beginning of the    *)
(* block, so that cells of different blocks, offsets or indices differ.    *)
(***************************************************************************)
Programs ==
  {"WorkItemBased", "WorkGroupBased", "DeviceBased", "LauncherBased", "InFlight",
   "CUDA", "CUDAInFlight", "LocalWorkGroupBased", "LocalLauncherBased", "LocalInFlight"}

CommandLine ==
  [size : Nat \ {0}, stride : Nat \ {0}, interval : Nat, groups : Nat \ {0},
   items : Nat \ {0}, chains : Nat \ {0}, slice : Nat, hops : Nat]

\* The last of n neighbours still starts within a stride.
Fit(c, n) == \A m \in 0 .. n - 1 : m * c.interval < c.stride

\* What the host has to be given, and doesn't test: rings that start side by
\* side fit between two cells of the first of them.  Then there are two
\* oddities.  The results of the launcher-based program go to word 0 or to a
\* word DispatchSize intervals on; and local memory is addressed with the
\* number of the group as if all groups had one.
Room(p, c) ==
  CASE p = "WorkItemBased" -> TRUE
    [] p = "WorkGroupBased" -> Fit(c, c.items)
    [] p = "DeviceBased" -> Fit(c, c.groups * c.items)
    [] p = "LauncherBased" ->
         /\ \A m \in 0 .. DispatchSize - 1 :
              m < c.slice /\ m < c.items => m * c.interval < c.stride
         /\ c.items > DispatchSize => DispatchSize * c.interval < c.stride * c.size
    [] p = "InFlight" -> Fit(c, c.chains)
    [] p = "CUDA" -> Fit(c, c.items)
    [] p = "CUDAInFlight" -> Fit(c, c.chains)
    [] p = "LocalWorkGroupBased" -> Fit(c, c.items)
    [] p = "LocalLauncherBased" -> Fit(c, ((c.items - 1) \div DispatchSize) + 1)
    [] p = "LocalInFlight" -> Fit(c, c.chains) /\ c.groups = 1

\* The place of a ring: the memory it is in, which block of size * stride
\* words, and the distance from the beginning of the block.
Space(p, w) == IF InLocalMemory(p) THEN w.group + 1 ELSE 0

Block(p, c, w) ==
  CASE p = "WorkItemBased" -> w.group * c.items + w.lid
    [] p \in {"LauncherBased", "InFlight", "CUDA", "LocalInFlight"} -> w.group
    [] OTHER -> 0

Blocks(p, c) ==
  CASE p = "WorkItemBased" -> c.groups * c.items
    [] p \in {"DeviceBased", "LocalWorkGroupBased", "LocalLauncherBased", "LocalInFlight"} -> 1
    [] OTHER -> c.groups

Offset(p, c, w) ==
  CASE p = "WorkItemBased" -> 0
    [] p \in {"WorkGroupBased", "CUDA", "LocalWorkGroupBased"} -> w.lid * c.interval
    [] p = "DeviceBased" -> (w.group * c.items + w.lid) * c.interval
    [] p = "LauncherBased" -> (w.lid % DispatchSize) * c.interval
    [] p = "LocalLauncherBased" -> (w.lid \div DispatchSize) * c.interval
    [] OTHER -> w.chain * c.interval

Item(c) == [group : 0 .. c.groups - 1, lid : 0 .. c.items - 1, chain : 0 .. c.chains - 1]

\* The product of natural numbers is one.
LEMMA Product == ASSUME NEW a \in Nat, NEW b \in Nat PROVE a * b \in Nat
OBVIOUS

\* The number of an item in the launch.
LEMMA GidBound ==
  ASSUME NEW n \in Nat \ {0}, NEW m \in Nat \ {0}, NEW g \in 0 .. n - 1, NEW x \in 0 .. m - 1
  PROVE  g * m + x \in 0 .. n * m - 1
<1>1. g * m <= (n - 1) * m /\ g * m \in Nat
  BY MulMonotone, Product
<1>2. (n - 1) * m = n * m - m /\ n * m \in Nat
  BY Product
<1>3. QED
  BY <1>1, <1>2

\* Every program's ring begins in one of the blocks, less than a stride from
\* the beginning of it.
LEMMA PlaceOfRing ==
  ASSUME NEW p \in Programs, NEW c \in CommandLine, Room(p, c),
         NEW w \in Item(c), TakesPart(p, c, w)
  PROVE  /\ Block(p, c, w) \in 0 .. Blocks(p, c) - 1
         /\ Offset(p, c, w) \in 0 .. c.stride - 1
         /\ Place(p, c, w).base =
              <<Space(p, w), Block(p, c, w) * (c.stride * c.size) + Offset(p, c, w)>>
<1> DEFINE gid == w.group * c.items + w.lid
<1>0. /\ w.group \in 0 .. c.groups - 1 /\ w.lid \in 0 .. c.items - 1 /\ w.chain \in 0 .. c.chains - 1
      /\ c.stride \in Nat \ {0} /\ c.size \in Nat \ {0} /\ c.interval \in Nat
      /\ c.groups \in Nat \ {0} /\ c.items \in Nat \ {0} /\ c.chains \in Nat \ {0}
  BY DEF Item, CommandLine
<1>1. c.stride * c.size \in Nat
  BY <1>0, Product
<1>2. gid \in 0 .. c.groups * c.items - 1
  BY <1>0, GidBound
<1>3. \A b \in Nat : b * c.stride * c.size = b * (c.stride * c.size)
  BY <1>0
<1>4. \A n \in Nat : \A m \in 0 .. n - 1 : Fit(c, n) => m * c.interval \in 0 .. c.stride - 1
  <2>1. \A m \in Nat : m * c.interval \in Nat
    BY <1>0, Product
  <2>2. QED
    BY <1>0, <2>1 DEF Fit
<1>5. CASE p = "WorkItemBased"
  <2>1. /\ Block(p, c, w) = gid /\ Offset(p, c, w) = 0 /\ Space(p, w) = 0
        /\ Blocks(p, c) = c.groups * c.items
    BY <1>5 DEF Block, Offset, Space, Blocks, InLocalMemory
  <2>2. Place(p, c, w).base = <<0, gid * c.stride * c.size>>
    BY <1>5 DEF Place, WorkItemBased, Global, Gid
  <2>3. gid * c.stride * c.size = gid * (c.stride * c.size) + 0
    <3>1. gid * c.stride * c.size = gid * (c.stride * c.size) /\ gid * (c.stride * c.size) \in Nat
      BY <1>1, <1>2, <1>3, Product
    <3> HIDE DEF gid
    <3>2. QED
      BY <3>1
  <2> HIDE DEF gid
  <2>4. QED
    BY <1>0, <1>2, <2>1, <2>2, <2>3
<1>6. CASE p \in {"WorkGroupBased", "CUDA", "LocalWorkGroupBased"}
  <2>1. Offset(p, c, w) = w.lid * c.interval /\ Fit(c, c.items)
    BY <1>6 DEF Offset, Room
  <2>2. Offset(p, c, w) \in 0 .. c.stride - 1
    BY <1>0, <1>4, <2>1
  <2>3. QED
    BY <1>0, <1>1, <1>3, <1>6, <2>1, <2>2
    DEF Block, Blocks, Space, InLocalMemory, Place, WorkGroupBased, CUDA, LocalWorkGroupBased, Global, Local
<1>7. CASE p = "DeviceBased"
  <2>1. Offset(p, c, w) = gid * c.interval /\ Fit(c, c.groups * c.items)
    BY <1>7 DEF Offset, Room
  <2>2. Offset(p, c, w) \in 0 .. c.stride - 1
    BY <1>0, <1>2, <1>4, <2>1, Product
  <2>3. QED
    BY <1>0, <1>1, <1>7, <2>1, <2>2
    DEF Block, Blocks, Space, InLocalMemory, Place, DeviceBased, Global, Gid
<1>8. CASE p = "LauncherBased"
  <2>1. /\ Offset(p, c, w) = (w.lid % DispatchSize) * c.interval
        /\ w.lid % DispatchSize < c.slice
        /\ \A m \in 0 .. DispatchSize - 1 :
              m < c.slice /\ m < c.items => m * c.interval < c.stride
    BY <1>8 DEF Offset, Room, TakesPart
  <2>2. w.lid % DispatchSize \in 0 .. DispatchSize - 1 /\ w.lid % DispatchSize <= w.lid
    <3>1. /\ w.lid % DispatchSize \in 0 .. DispatchSize - 1
          /\ w.lid \div DispatchSize \in Nat
          /\ w.lid = (w.lid \div DispatchSize) * DispatchSize + (w.lid % DispatchSize)
      <4>1. w.lid \in Nat
        BY <1>0
      <4>2. QED
        BY <4>1, DispatchAssumption, DivMod
    <3>2. (w.lid \div DispatchSize) * DispatchSize \in Nat
      BY <3>1, DispatchAssumption, Product
    <3>3. QED
      BY <3>1, <3>2
  <2>3. Offset(p, c, w) \in 0 .. c.stride - 1
    <3>1. (w.lid % DispatchSize) * c.interval \in Nat
      BY <1>0, <2>2, DispatchAssumption, Product
    <3>2. (w.lid % DispatchSize) * c.interval < c.stride
      BY <1>0, <2>1, <2>2, DispatchAssumption
    <3>3. QED
      BY <1>0, <2>1, <3>1, <3>2
  <2>4. QED
    BY <1>0, <1>1, <1>3, <1>8, <2>1, <2>3
    DEF Block, Blocks, Space, InLocalMemory, Place, LauncherBased, Global
<1>9. CASE p = "LocalLauncherBased"
  <2>1. /\ Offset(p, c, w) = (w.lid \div DispatchSize) * c.interval
        /\ Fit(c, ((c.items - 1) \div DispatchSize) + 1)
    BY <1>9 DEF Offset, Room
  <2>2. w.lid \div DispatchSize \in 0 .. ((c.items - 1) \div DispatchSize)
    BY <1>0, DispatchAssumption
  <2>3. Offset(p, c, w) \in 0 .. c.stride - 1
    <3>1. (c.items - 1) \div DispatchSize \in Nat
      BY <1>0, DispatchAssumption, DivMod
    <3>2. QED
      BY <1>4, <2>1, <2>2, <3>1
  <2>4. QED
    BY <1>0, <1>1, <1>9, <2>1, <2>3
    DEF Block, Blocks, Space, InLocalMemory, Place, LocalLauncherBased, Local
<1>10. CASE p \in {"InFlight", "CUDAInFlight", "LocalInFlight"}
  <2>1. Offset(p, c, w) = w.chain * c.interval /\ Fit(c, c.chains) /\ (p = "LocalInFlight" => c.groups = 1)
    BY <1>10 DEF Offset, Room
  <2>2. Offset(p, c, w) \in 0 .. c.stride - 1
    BY <1>0, <1>4, <2>1
  <2>3. w.group * c.size * c.stride = w.group * (c.stride * c.size)
    BY <1>0
  <2>4. w.group * (c.stride * c.size) \in Nat
    BY <1>0, <1>1, Product
  <2>5. QED
    BY <1>0, <1>1, <1>10, <2>1, <2>2, <2>3, <2>4
    DEF Block, Blocks, Space, InLocalMemory, Place, InFlight, CUDAInFlight, LocalInFlight, Global, Local
<1>11. QED
  BY <1>5, <1>6, <1>7, <1>8, <1>9, <1>10 DEF Programs

\* Cell k of a ring is k strides s behind its beginning, which is x words into
\* block b; a block has room for n cells.
Word(s, n, b, x, k) == b * (s * n) + x + k * s

Address(p, c, w, k) ==
  <<Space(p, w), Word(c.stride, c.size, Block(p, c, w), Offset(p, c, w), k)>>

\* This is where the programs' cells are.
LEMMA AddressOfCell ==
  ASSUME NEW p \in Programs, NEW c \in CommandLine, Room(p, c),
         NEW w \in Item(c), TakesPart(p, c, w), NEW k
  PROVE  CellAt(p, c, w, k) = Address(p, c, w, k)
BY PlaceOfRing DEF CellAt, Address, Word

\* A cell of a ring in one of m blocks is in them.
LEMMA WordsOfBlocks ==
  ASSUME NEW s \in Nat \ {0}, NEW n \in Nat \ {0}, NEW b \in Nat, NEW m \in Nat,
         b \in 0 .. m - 1,
         NEW x \in 0 .. s - 1, NEW k \in 0 .. n - 1
  PROVE  /\ Word(s, n, b, x, k) = (b * n + k) * s + x
         /\ Word(s, n, b, x, k) \in 0 .. m * (s * n) - 1
<1>1. b * (s * n) + k * s = (b * n + k) * s
  OBVIOUS
<1>2. b * n + k \in 0 .. m * n - 1
  BY GidBound
<1>3. (b * n + k) * s + x \in 0 .. (m * n) * s - 1
  <2>1. m * n \in Nat \ {0}
    <3>1. m * n \in Nat
      BY Product
    <3>2. QED
      BY <1>2, <3>1
  <2>2. \A e \in Nat \ {0} : \A d \in 0 .. e - 1 : d * s + x \in 0 .. e * s - 1
    BY GidBound
  <2>3. QED
    BY <1>2, <2>1, <2>2
<1>4. (m * n) * s = m * (s * n)
  OBVIOUS
<1>5. b * (s * n) \in Int /\ k * s \in Int /\ (b * n + k) * s \in Int
  OBVIOUS
<1>6. QED
  BY <1>1, <1>3, <1>4, <1>5 DEF Word

\* A word is in one ring only, and one cell of it.
LEMMA SameCell ==
  ASSUME NEW s \in Nat \ {0}, NEW n \in Nat \ {0}, NEW a \in Nat, NEW b \in Nat,
         NEW x \in 0 .. s - 1, NEW y \in 0 .. s - 1,
         NEW j \in 0 .. n - 1, NEW k \in 0 .. n - 1,
         Word(s, n, a, x, j) = Word(s, n, b, y, k)
  PROVE  a = b /\ x = y /\ j = k
<1> DEFINE e == a * n + j
           f == b * n + k
<1>1. Word(s, n, a, x, j) = e * s + x /\ Word(s, n, b, y, k) = f * s + y
  BY DEF Word
<1>2. e \in Nat /\ f \in Nat
  BY DivModUnique
<1>3. e = f /\ x = y
  <2> HIDE DEF e, f
  <2>1. QED
    BY <1>1, <1>2, FlatInjective
<1>4. QED
  BY <1>3, FlatInjective

\* The cells of every walker are in the buffers.
LEMMA CellsInBuffer ==
  ASSUME NEW p \in Programs, NEW c \in CommandLine, Room(p, c),
         NEW w \in Item(c), TakesPart(p, c, w), NEW k \in 0 .. c.size - 1
  PROVE  Address(p, c, w, k) \in Buffer(p, c)
<1>0. /\ w.group \in 0 .. c.groups - 1
      /\ c.stride \in Nat \ {0} /\ c.size \in Nat \ {0} /\ c.groups \in Nat \ {0} /\ c.items \in Nat \ {0}
  BY DEF Item, CommandLine
<1>1. Block(p, c, w) \in 0 .. Blocks(p, c) - 1 /\ Offset(p, c, w) \in 0 .. c.stride - 1
  BY PlaceOfRing
<1>2. Blocks(p, c) \in Nat
  BY <1>0, Product DEF Blocks, Programs
<1> DEFINE n == Word(c.stride, c.size, Block(p, c, w), Offset(p, c, w), k)
<1>3. n \in 0 .. Blocks(p, c) * (c.stride * c.size) - 1
  <2>1. Block(p, c, w) \in Nat
    BY <1>1
  <2>2. QED
    BY <1>0, <1>1, <1>2, <2>1, WordsOfBlocks
<1>4. CASE InLocalMemory(p)
  <2>1. Blocks(p, c) = 1
    BY <1>4 DEF InLocalMemory, Blocks
  <2>2. n \in 0 .. c.stride * c.size - 1
    <3>1. Blocks(p, c) * (c.stride * c.size) = c.stride * c.size
      BY <1>0, <2>1
    <3>2. QED
      BY <1>3, <3>1
  <2>3. Address(p, c, w, k) = Local(w.group, n)
    BY <1>4 DEF Address, Space, Local
  <2> HIDE DEF n
  <2>4. QED
    BY <1>0, <1>4, <2>2, <2>3 DEF Buffer
<1>5. CASE ~InLocalMemory(p)
  <2>1. Words(p, c) = Blocks(p, c) * (c.stride * c.size)
    <3>1. CASE p = "WorkItemBased"
      <4>1. c.stride * c.size * c.groups * c.items = (c.groups * c.items) * (c.stride * c.size)
        BY <1>0
      <4>2. QED
        BY <3>1, <4>1 DEF Words, Blocks, InLocalMemory
    <3>2. CASE p = "DeviceBased"
      <4>1. c.stride * c.size = 1 * (c.stride * c.size)
        BY <1>0
      <4>2. QED
        BY <3>2, <4>1 DEF Words, Blocks, InLocalMemory
    <3>3. CASE p \in {"WorkGroupBased", "LauncherBased", "InFlight", "CUDA", "CUDAInFlight"}
      <4>1. c.stride * c.size * c.groups = c.groups * (c.stride * c.size)
        BY <1>0
      <4>2. QED
        BY <3>3, <4>1 DEF Words, Blocks, InLocalMemory
    <3>4. QED
      BY <1>5, <3>1, <3>2, <3>3 DEF Programs, InLocalMemory
  <2>2. Address(p, c, w, k) = Global(n)
    BY <1>5 DEF Address, Space, Global
  <2>3. n \in 0 .. Words(p, c) - 1
    BY <1>3, <2>1
  <2> HIDE DEF n
  <2>4. QED
    BY <2>2, <2>3 DEF Buffer
<1>6. QED
  BY <1>4, <1>5

\* So is the result.
LEMMA ResultInBuffer ==
  ASSUME NEW p \in Programs, NEW c \in CommandLine, Room(p, c),
         NEW w \in Item(c), TakesPart(p, c, w)
  PROVE  Place(p, c, w).result \in Buffer(p, c)
<1>0. /\ w.group \in 0 .. c.groups - 1 /\ w.lid \in 0 .. c.items - 1 /\ w.chain \in 0 .. c.chains - 1
      /\ c.stride \in Nat \ {0} /\ c.size \in Nat \ {0} /\ c.interval \in Nat
      /\ c.groups \in Nat \ {0} /\ c.items \in Nat \ {0} /\ c.chains \in Nat \ {0}
  BY DEF Item, CommandLine
\* Most programs store where the ring begins.
<1>1. ASSUME Place(p, c, w).result = Place(p, c, w).base
      PROVE  Place(p, c, w).result \in Buffer(p, c)
  <2>1. /\ Block(p, c, w) \in 0 .. Blocks(p, c) - 1 /\ Offset(p, c, w) \in 0 .. c.stride - 1
        /\ Place(p, c, w).base =
             <<Space(p, w), Block(p, c, w) * (c.stride * c.size) + Offset(p, c, w)>>
    BY PlaceOfRing
  <2>2. Block(p, c, w) * (c.stride * c.size) \in Int
    <3>1. Block(p, c, w) \in Int
      BY <2>1
    <3>2. QED
      BY <1>0, <3>1
  <2>3. Word(c.stride, c.size, Block(p, c, w), Offset(p, c, w), 0) =
          Block(p, c, w) * (c.stride * c.size) + Offset(p, c, w)
    BY <1>0, <2>1, <2>2 DEF Word
  <2>4. 0 \in 0 .. c.size - 1
    BY <1>0
  <2>5. QED
    BY <1>1, <2>1, <2>3, <2>4, CellsInBuffer DEF Address
<1>2. CASE p \in {"WorkItemBased", "WorkGroupBased", "DeviceBased", "CUDA", "CUDAInFlight"}
  BY <1>1, <1>2 DEF Place, WorkItemBased, WorkGroupBased, DeviceBased, CUDA, CUDAInFlight
<1>3. \A n \in Nat : ~InLocalMemory(p) /\ n < c.stride * c.size /\ p # "WorkItemBased" => Global(n) \in Buffer(p, c)
  <2>1. SUFFICES ASSUME NEW n \in Nat, ~InLocalMemory(p), n < c.stride * c.size, p # "WorkItemBased"
                 PROVE  Global(n) \in Buffer(p, c)
    OBVIOUS
  <2>2. Words(p, c) = c.stride * c.size \/ Words(p, c) = c.stride * c.size * c.groups
    BY <2>1 DEF Words, Programs, InLocalMemory
  <2>3. c.stride * c.size \in Nat /\ c.stride * c.size <= c.stride * c.size * c.groups
        /\ c.stride * c.size * c.groups \in Nat
    <3>1. c.stride * c.size \in Nat
      BY <1>0, Product
    <3>2. \A e \in Nat : 1 * e <= c.groups * e /\ 1 * e = e /\ c.groups * e = e * c.groups /\ e * c.groups \in Nat
      BY <1>0, MulMonotone, Product
    <3>3. QED
      BY <3>1, <3>2
  <2>4. n \in 0 .. Words(p, c) - 1
    BY <2>1, <2>2, <2>3
  <2>5. QED
    BY <2>4 DEF Buffer
<1>4. CASE p = "InFlight"
  <2>1. Place(p, c, w).result = Global(w.chain * c.interval)
    BY <1>4 DEF Place, InFlight
  <2>2. w.chain * c.interval \in Nat /\ w.chain * c.interval < c.stride
    BY <1>0, <1>4, Product DEF Room, Fit
  <2>3. c.stride <= c.stride * c.size
    <3>1. 1 * c.stride <= c.size * c.stride
      BY <1>0, MulMonotone
    <3>2. QED
      BY <1>0, <3>1
  <2>4. w.chain * c.interval < c.stride * c.size
    BY <1>0, <2>2, <2>3, Product
  <2>5. QED
    BY <1>3, <1>4, <2>1, <2>2, <2>4 DEF InLocalMemory
<1>5. CASE p = "LauncherBased"
  <2> DEFINE b == (w.lid \div DispatchSize) % 2
             one == c.stride * c.size
  <2>1. Place(p, c, w).result = Global(w.group * c.stride * c.size + b * DispatchSize * c.interval)
    BY <1>5 DEF Place, LauncherBased
  <2>2. b * DispatchSize * c.interval \in 0 .. one - 1
    <3>0. one \in Nat \ {0}
      <4>1. c.stride * c.size >= 1 * c.size
        BY <1>0, MulMonotone
      <4>2. QED
        BY <1>0, <4>1, Product
    <3>1. b \in {0, 1}
      <4>1. w.lid \div DispatchSize \in Nat
        BY <1>0, DispatchAssumption
      <4>2. QED
        BY <4>1
    <3>2. CASE b = 0
      <4>1. 0 * DispatchSize * c.interval = 0
        BY <1>0, DispatchAssumption
      <4> HIDE DEF b, one
      <4>2. QED
        BY <3>0, <3>2, <4>1
    <3>3. CASE b = 1
      <4>1. c.items > DispatchSize
        <5>1. SUFFICES ASSUME w.lid < DispatchSize PROVE FALSE
          BY <1>0, DispatchAssumption
        <5>2. w.lid = 0 * DispatchSize + w.lid /\ w.lid \in 0 .. DispatchSize - 1
          BY <1>0, <5>1, DispatchAssumption
        <5>3. w.lid \div DispatchSize = 0
          BY <5>2, DivModUnique, DispatchAssumption
        <5>4. QED
          BY <3>3, <5>3
      <4>2. DispatchSize * c.interval < one
        BY <1>5, <4>1 DEF Room
      <4>3. 1 * DispatchSize * c.interval = DispatchSize * c.interval /\ DispatchSize * c.interval \in Nat
        BY <1>0, DispatchAssumption, Product
      <4> HIDE DEF b, one
      <4>4. QED
        BY <3>0, <3>3, <4>2, <4>3
    <3>4. QED
      BY <3>1, <3>2, <3>3
  <2>3. w.group * c.stride * c.size = w.group * one /\ c.stride * c.size * c.groups = c.groups * one
    BY <1>0
  <2>4. one \in Nat \ {0}
    BY <1>0, <2>2
  <2>5. w.group * one + b * DispatchSize * c.interval \in 0 .. c.groups * one - 1
    <3>1. \A e \in Nat \ {0}, x \in Nat : x \in 0 .. e - 1 => w.group * e + x \in 0 .. c.groups * e - 1
      BY <1>0, GidBound
    <3> HIDE DEF b, one
    <3>2. QED
      BY <2>2, <2>4, <3>1
  <2>6. Words(p, c) = c.stride * c.size * c.groups
    BY <1>5 DEF Words, InLocalMemory
  <2> HIDE DEF b, one
  <2>7. QED
    BY <2>1, <2>3, <2>5, <2>6 DEF Buffer
<1>6. CASE InLocalMemory(p)
  <2>1. PICK n \in 0 .. c.groups * c.items * c.chains - 1 : Place(p, c, w).result = Global(n)
    <3>1. Gid(c, w) \in 0 .. c.groups * c.items - 1
      BY <1>0, GidBound DEF Gid
    <3>2. c.groups * c.items \in Nat \ {0}
      BY <1>0, <3>1, Product
    <3>3. \A e \in Nat \ {0} : e <= e * c.chains /\ c.chains <= e * c.chains /\ e * c.chains \in Nat
      <4>1. \A e \in Nat \ {0} : 1 * c.chains <= e * c.chains /\ 1 * e <= c.chains * e /\ e * c.chains \in Nat
        BY <1>0, MulMonotone, Product
      <4>2. QED
        BY <1>0, <4>1
    <3>4. Gid(c, w) \in 0 .. c.groups * c.items * c.chains - 1
      BY <3>1, <3>2, <3>3
    <3>5. w.chain \in 0 .. c.groups * c.items * c.chains - 1
      BY <1>0, <3>2, <3>3
    <3>6. Place(p, c, w).result = Global(Gid(c, w)) \/ Place(p, c, w).result = Global(w.chain)
      BY <1>6 DEF Place, InLocalMemory, LocalWorkGroupBased, LocalLauncherBased, LocalInFlight
    <3>7. QED
      BY <3>4, <3>5, <3>6
  <2>2. Words(p, c) = c.groups * c.items * c.chains
    BY <1>6 DEF Words, InLocalMemory
  <2>3. QED
    BY <2>1, <2>2 DEF Buffer
<1>7. QED
  BY <1>2, <1>4, <1>5, <1>6 DEF Programs, InLocalMemory

\* No launch of the programs writes outside of what the host allocated.
LEMMA LaunchInBuffer ==
  ASSUME NEW p \in Programs, NEW c \in CommandLine, Room(p, c)
  PROVE  LET l == LaunchOf(p, c)
         IN /\ l.memory = l.buffer
            /\ \A w \in l.walker : /\ l.result[w] \in l.buffer
                                   /\ \A k \in 0 .. l.num - 1 : l.cell[w][k] \in l.buffer
<1>1. ASSUME NEW w \in Walkers(p, c)
      PROVE  /\ Place(p, c, w).result \in Buffer(p, c)
             /\ \A k \in 0 .. c.size - 1 : CellAt(p, c, w, k) \in Buffer(p, c)
  <2>1. w \in Item(c) /\ TakesPart(p, c, w)
    BY DEF Walkers, Item
  <2>2. QED
    BY <2>1, CellsInBuffer, AddressOfCell, ResultInBuffer
<1>2. Touched(p, c) \subseteq Buffer(p, c)
  BY <1>1 DEF Touched
<1>3. QED
  BY <1>1, <1>2 DEF LaunchOf

\* The launches of the programs are what module PointerChase assumes: the
\* cells of a ring are different, and two rings are the same or disjoint.
THEOREM LaunchesWellFormed ==
  ASSUME NEW p \in Programs, NEW c \in CommandLine, Room(p, c), Null \notin Nat \X Nat
  PROVE  WellFormed(LaunchOf(p, c))
<1>1. /\ c.stride \in Nat \ {0} /\ c.size \in Nat \ {0} /\ c.hops \in Nat
      /\ c.groups \in Nat \ {0}
  BY DEF CommandLine
<1>2. \A w \in Walkers(p, c) : \A k : CellAt(p, c, w, k) = Address(p, c, w, k)
  BY AddressOfCell DEF Walkers, Item
<1>3. \A w \in Walkers(p, c) : Block(p, c, w) \in Nat /\ Offset(p, c, w) \in 0 .. c.stride - 1
  BY PlaceOfRing DEF Walkers, Item
<1>4. ASSUME NEW v \in Walkers(p, c), NEW w \in Walkers(p, c),
             NEW j \in 0 .. c.size - 1, NEW k \in 0 .. c.size - 1,
             CellAt(p, c, v, j) = CellAt(p, c, w, k)
      PROVE  j = k /\ \A m : CellAt(p, c, v, m) = CellAt(p, c, w, m)
  <2>1. /\ Space(p, v) = Space(p, w)
        /\ Word(c.stride, c.size, Block(p, c, v), Offset(p, c, v), j)
             = Word(c.stride, c.size, Block(p, c, w), Offset(p, c, w), k)
    BY <1>2, <1>4 DEF Address
  <2>3. Block(p, c, v) = Block(p, c, w) /\ Offset(p, c, v) = Offset(p, c, w) /\ j = k
    <3>1. /\ c.stride \in Nat \ {0} /\ c.size \in Nat \ {0}
          /\ Block(p, c, v) \in Nat /\ Block(p, c, w) \in Nat
          /\ Offset(p, c, v) \in 0 .. c.stride - 1 /\ Offset(p, c, w) \in 0 .. c.stride - 1
          /\ j \in 0 .. c.size - 1 /\ k \in 0 .. c.size - 1
      BY <1>1, <1>3, <1>4
    <3>2. PICK s \in Nat \ {0}, n \in Nat \ {0} : s = c.stride /\ n = c.size
      BY <3>1
    <3>3. PICK a \in Nat, b \in Nat : a = Block(p, c, v) /\ b = Block(p, c, w)
      BY <3>1
    <3>4. PICK x \in 0 .. s - 1, y \in 0 .. s - 1 : x = Offset(p, c, v) /\ y = Offset(p, c, w)
      BY <3>1, <3>2
    <3>5. j \in 0 .. n - 1 /\ k \in 0 .. n - 1
      BY <3>1, <3>2
    <3>6. Word(s, n, a, x, j) = Word(s, n, b, y, k)
      BY <2>1, <3>2, <3>3, <3>4
    <3>7. a = b /\ x = y /\ j = k
      BY <3>5, <3>6, SameCell
    <3>8. QED
      BY <3>3, <3>4, <3>7
  <2>4. QED
    BY <1>2, <2>1, <2>3 DEF Address
<1> DEFINE l == LaunchOf(p, c)
<1>5. /\ l.walker = Walkers(p, c) /\ l.num = c.size /\ l.hops = c.hops
      /\ l.twoKernels = ~InLocalMemory(p)
      /\ l.cell = [w \in Walkers(p, c) |-> [k \in 0 .. c.size - 1 |-> CellAt(p, c, w, k)]]
      /\ l.result = [w \in Walkers(p, c) |-> Place(p, c, w).result]
      /\ l.buffer = Buffer(p, c)
  BY DEF LaunchOf
<1>6. /\ l.memory = l.buffer
      /\ \A w \in l.walker : /\ l.result[w] \in l.buffer
                             /\ \A k \in 0 .. l.num - 1 : l.cell[w][k] \in l.buffer
  BY LaunchInBuffer
<1> HIDE DEF l
<1>7. ASSUME NEW v \in l.walker, NEW w \in l.walker, NEW j \in 0 .. l.num - 1, NEW k \in 0 .. l.num - 1,
             l.cell[v][j] = l.cell[w][k]
      PROVE  j = k /\ l.cell[v] = l.cell[w]
  <2>1. CellAt(p, c, v, j) = CellAt(p, c, w, k)
    BY <1>5, <1>7
  <2>2. j = k /\ \A m : CellAt(p, c, v, m) = CellAt(p, c, w, m)
    BY <1>4, <1>5, <2>1
  <2>3. QED
    BY <1>5, <2>2
<1>8. Null \notin l.memory
  <2>1. Buffer(p, c) \subseteq Nat \X Nat
    <3>1. \A g \in 0 .. c.groups - 1 : g + 1 \in Nat
      BY <1>1
    <3>2. QED
      BY <3>1 DEF Buffer, Global, Local
  <2>2. QED
    BY <1>5, <1>6, <2>1
<1>9. l.cell \in [l.walker -> [0 .. l.num - 1 -> l.memory]]
  <2>1. ASSUME NEW w \in l.walker PROVE l.cell[w] \in [0 .. l.num - 1 -> l.memory]
    <3>1. l.cell[w] = [k \in 0 .. l.num - 1 |-> CellAt(p, c, w, k)]
      BY <1>5
    <3>2. \A k \in 0 .. l.num - 1 : l.cell[w][k] \in l.memory
      BY <1>6
    <3>3. QED
      BY <3>1, <3>2
  <2>2. l.cell = [w \in l.walker |-> l.cell[w]]
    BY <1>5
  <2>3. QED
    BY <2>1, <2>2
<1>10. l.result \in [l.walker -> l.memory]
  BY <1>5, <1>6
<1>11. l.num \in Nat \ {0} /\ l.hops \in Nat /\ l.twoKernels \in BOOLEAN
  BY <1>1, <1>5
<1>12. \A w \in l.walker : \A j, k \in 0 .. l.num - 1 : l.cell[w][j] = l.cell[w][k] => j = k
  BY <1>7
<1>13. \A v, w \in l.walker : \A j, k \in 0 .. l.num - 1 :
         l.cell[v][j] = l.cell[w][k] => l.cell[v] = l.cell[w]
  BY <1>7
<1>14. WellFormed(l)
  BY <1>8, <1>9, <1>10, <1>11, <1>12, <1>13 DEF WellFormed
<1>15. QED
  BY <1>14 DEF l

\* Every launch of one of the programs, on any command line that leaves room
\* for the rings, writes only to what the host allocated.
THEOREM ProgramsStayInBuffer ==
  ASSUME \A l \in Launches : \E p \in Programs, c \in CommandLine :
           Room(p, c) /\ l = LaunchOf(p, c)
  PROVE  Spec => []InBuffer
<1>1. \A l \in Launches : l.memory = l.buffer
  BY LaunchInBuffer
<1>2. ChaseInv => InBuffer
  BY <1>1 DEF ChaseInv, TypeOK, InBuffer
<1>3. QED
  BY <1>2, ChaseInvariant, PTL
=============================================================================

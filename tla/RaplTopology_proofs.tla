------------------------ MODULE RaplTopology_proofs ------------------------
(***************************************************************************)
(* Proofs about module RaplTopology, for every set of machines: how many   *)
(* packages, cores and threads there are, which processors may be used and *)
(* what the process is bound to when it starts.                            *)
(***************************************************************************)
EXTENDS RaplTopology, TLAPS

\* Multiplication with a natural number keeps the order.
LEMMA MulMonotone ==
  ASSUME NEW a \in Int, NEW b \in Int, NEW n \in Nat, a <= b
  PROVE  a * n <= b * n
<1>1. (b - a) * n >= 0
  OBVIOUS
<1>2. QED
  BY <1>1

\* A flat index a * n + b is taken apart again by \div and %.
LEMMA DivModUnique ==
  ASSUME NEW a \in Nat, NEW n \in Nat \ {0}, NEW b \in 0 .. n - 1
  PROVE  /\ a * n + b \in Nat
         /\ (a * n + b) \div n = a
         /\ (a * n + b) % n = b
<1>1. a * n \in Nat
  BY MulMonotone
<1>2. QED
  BY <1>1

\* So two flat indices are equal only if their parts are.
LEMMA FlatInjective ==
  ASSUME NEW n \in Nat \ {0}, NEW a \in Nat, NEW b \in 0 .. n - 1,
         NEW c \in Nat, NEW d \in 0 .. n - 1, a * n + b = c * n + d
  PROVE  a = c /\ b = d
BY DivModUnique

\* Division with remainder.
LEMMA DivMod ==
  ASSUME NEW a \in Nat, NEW n \in Nat \ {0}
  PROVE  /\ a \div n \in Nat
         /\ a % n \in 0 .. n - 1
         /\ a = (a \div n) * n + (a % n)
OBVIOUS


-----------------------------------------------------------------------------
(* The inductive invariant.                                                *)

\* While the process is bound to processor i it can be nowhere else.  From the
\* first answer of sched_getaffinity on it knows how to go back.
Pinned ==
  /\ pc \in {"level0", "level1", "restore"} /\ i \in machine.allowed => mask = {i}
  /\ pc = "bind" /\ i = 0 => mask = machine.affinity
  /\ saved => prev = machine.affinity
  /\ saved /\ pc \in {"bind", "fill", "done"} => mask = machine.affinity
  /\ smt < machine.coreThreads
  /\ pc = "level1" /\ i \in machine.allowed => smt = apic[i].smt

Recorded(c) == c < i \/ pc \in {"fill", "done"} \/ (pc = "restore" /\ c = i)

\* An id that was recorded has the core of a processor and a thread, maybe of
\* another; that of a processor that could be bound is its own.
Entry(c) ==
  /\ os_map[c] \in [pkg : Nat, core : Nat, smt : Nat]
  /\ os_map[c].pkg <= max_pkg
  /\ os_map[c].smt < machine.coreThreads
  /\ \E d \in Cpu : os_map[c].core = apic[d].core
  /\ c \in machine.allowed => os_map[c] = apic[c]

Entries == \A c \in Cpu : Recorded(c) => Entry(c)

\* What is in the slots comes from os_map.
Slots ==
  /\ pc \notin {"fill", "done"} => DOMAIN pkg_map = {} /\ ~overrun
  /\ pc \in {"fill", "done"} =>
       DOMAIN pkg_map = (0 .. max_pkg) \X (0 .. machine.pkgThreads - 1)
  /\ \A s \in DOMAIN pkg_map : pkg_map[s] # Unset => s = Slot(os_map[pkg_map[s]])

\* No slot that was filled is overwritten.
Filled ==
  /\ pc = "done" => i = machine.count
  /\ pc \in {"fill", "done"} /\ machine.allowed = Cpu /\ Contiguous =>
       \A c \in Cpu : c < i =>
         Slot(apic[c]) \in DOMAIN pkg_map /\ pkg_map[Slot(apic[c])] = c

TopologyInv == TypeOK /\ Pinned /\ Entries /\ Slots /\ InBounds /\ Filled

-----------------------------------------------------------------------------
\* The slot of a thread lies in the array of its package.
LEMMA SlotInside ==
  ASSUME TypeOK, NEW id \in [pkg : Nat, core : Nat, smt : Nat],
         id.pkg <= max_pkg, id.smt < machine.coreThreads, id.core < num_pkg_cores
  PROVE  Slot(id) \in (0 .. max_pkg) \X (0 .. machine.pkgThreads - 1)
<1> DEFINE P == num_pkg_cores
           T == machine.coreThreads
           N == machine.pkgThreads
<1>1. T \in Nat \ {0} /\ N \in Nat /\ max_pkg \in Nat
  BY MachineAssumption DEF TypeOK
<1>2. id.pkg \in Nat /\ id.core \in Nat /\ id.smt \in Nat
  OBVIOUS
<1>3. P \in Nat /\ P * T <= N
  <2>1. P = N \div T
    BY DEF num_pkg_cores
  <2>2. /\ N \div T \in Nat
        /\ N % T \in 0 .. T - 1
        /\ N = (N \div T) * T + (N % T)
    BY <1>1, DivMod
  <2> HIDE DEF P, T, N
  <2>3. QED
    BY <1>1, <2>1, <2>2
<1>4. (id.smt + 1) * P <= T * P
  BY <1>1, <1>2, <1>3, MulMonotone
<1>5. id.smt * P + P = (id.smt + 1) * P
  BY <1>2, <1>3
<1>6. id.smt * P \in Nat
  BY <1>2, <1>3
<1>7. id.smt * P + id.core \in 0 .. N - 1
  <2>1. T * P = P * T
    BY <1>1, <1>3
  <2>2. id.core < P
    OBVIOUS
  <2> HIDE DEF P, T, N
  <2>3. QED
    BY <1>1, <1>2, <1>3, <1>4, <1>5, <1>6, <2>1, <2>2
<1>8. QED
  BY <1>1, <1>2, <1>7 DEF Slot

\* Two processors don't have the same slot.
LEMMA SlotsDiffer ==
  ASSUME TypeOK, Contiguous, NEW c \in Cpu, NEW d \in Cpu, Slot(apic[c]) = Slot(apic[d])
  PROVE  c = d
<1>1. /\ apic[c] \in [pkg : Nat, core : Nat, smt : Nat]
      /\ apic[d] \in [pkg : Nat, core : Nat, smt : Nat]
  BY MachineAssumption DEF TypeOK, Cpu, apic
<1>2. num_pkg_cores \in Nat
  BY MachineAssumption, DivMod DEF TypeOK, num_pkg_cores
<1>3. apic[c].core < num_pkg_cores /\ apic[d].core < num_pkg_cores
  BY DEF Contiguous
<1>4. num_pkg_cores \in Nat \ {0}
  BY <1>1, <1>2, <1>3
<1>5. /\ apic[c].pkg = apic[d].pkg
      /\ apic[c].smt * num_pkg_cores + apic[c].core
           = apic[d].smt * num_pkg_cores + apic[d].core
  BY DEF Slot
<1>6. apic[c].smt = apic[d].smt /\ apic[c].core = apic[d].core
  <2> DEFINE P == num_pkg_cores
             k == apic[c].smt
             l == apic[d].smt
             m == apic[c].core
             n == apic[d].core
  <2>1. /\ P \in Nat \ {0} /\ k \in Nat /\ l \in Nat
        /\ m \in 0 .. P - 1 /\ n \in 0 .. P - 1
        /\ k * P + m = l * P + n
    BY <1>1, <1>3, <1>4, <1>5
  <2> HIDE DEF P, k, l, m, n
  <2>2. k = l /\ m = n
    BY <2>1, FlatInjective
  <2>3. QED
    BY <2>2 DEF k, l, m, n
<1>7. apic[c] = apic[d]
  BY <1>1, <1>5, <1>6
<1>8. QED
  BY <1>7, MachineAssumption DEF TypeOK, Cpu, apic

-----------------------------------------------------------------------------
LEMMA TopologyInit == Init => TopologyInv
<1> SUFFICES ASSUME Init PROVE TopologyInv
  OBVIOUS
<1>1. /\ machine.count \in Nat \ {0}
      /\ machine.affinity \subseteq machine.allowed /\ machine.affinity # {}
      /\ machine.coreThreads \in Nat \ {0}
      /\ i = 0 /\ pc = "bind" /\ Unset \notin Cpu
  BY MachineAssumption DEF Init, Cpu
<1>2. TypeOK
  <2>1. pkg_map \in [DOMAIN pkg_map -> Cpu \cup {Unset}]
    BY DEF Init
  <2>2. os_map \in [Cpu -> [pkg : Nat, core : Nat, smt : Nat] \cup {Unset}]
    BY DEF Init
  <2>3. /\ machine \in Machines /\ mask = machine.affinity /\ prev \subseteq Cpu
        /\ saved = FALSE /\ err = 0 /\ smt = 0 /\ max_pkg = 0 /\ overrun = FALSE
    BY DEF Init
  <2>4. i \in 0 .. machine.count
    BY <1>1
  <2>5. QED
    BY <1>1, <2>1, <2>2, <2>3, <2>4 DEF TypeOK
<1>3. Pinned
  BY <1>1 DEF Init, Pinned
<1>4. Entries
  BY <1>1 DEF Entries, Recorded, Cpu
<1>5. Slots /\ InBounds /\ Filled
  BY <1>1 DEF Init, Slots, InBounds, Filled
<1>6. QED
  BY <1>2, <1>3, <1>4, <1>5 DEF TopologyInv

\* What no step changes.
Fixed == /\ machine' = machine /\ Cpu' = Cpu /\ apic' = apic
         /\ num_pkg_cores' = num_pkg_cores /\ Contiguous' = Contiguous
         /\ \A id : Slot(id)' = Slot(id)

LEMMA MachineFixed ==
  ASSUME [Next]_vars
  PROVE  Fixed
<1>1. machine' = machine
  BY DEF Next, vars, Bind, Level0, Level1, Restore, Allocate, Fill, Return, Done
<1>2. QED
  BY <1>1 DEF Fixed, Cpu, apic, num_pkg_cores, Contiguous, Slot

\* The ids are recorded once: an entry stays, and so do the slots.
LEMMA EntriesStay ==
  ASSUME TopologyInv, Fixed, os_map' = os_map, max_pkg' = max_pkg, NEW c \in Cpu, Recorded(c)
  PROVE  Entry(c)'
<1>1. Entry(c)
  BY DEF TopologyInv, Entries
<1>2. QED
  BY <1>1 DEF Entry, Fixed

LEMMA TypeCorrectNext ==
  ASSUME TopologyInv, [Next]_vars
  PROVE  TypeOK'
<1> USE DEF TopologyInv, TypeOK
<1>1. Fixed
  BY MachineFixed
<1>2. /\ machine.count \in Nat \ {0}
      /\ machine.apic \in [Cpu -> [pkg : Nat, core : Nat, smt : Nat]]
      /\ machine.allowed \subseteq Cpu
      /\ machine.affinity \subseteq machine.allowed /\ machine.affinity # {}
  BY MachineAssumption DEF Cpu
<1>3. CASE Bind
  <2>1. PICK answers \in BOOLEAN : GetAffinity(mask, answers) /\ SetAffinity({i}, answers)
    BY <1>3 DEF Bind
  <2>2. /\ mask' \subseteq machine.allowed /\ mask' # {}
        /\ prev' \subseteq Cpu /\ saved' \in BOOLEAN /\ err' \in {0, -1}
    BY <1>2, <2>1 DEF GetAffinity, SetAffinity
  <2>3. QED
    BY <1>1, <1>2, <1>3, <2>2 DEF Bind, Fixed, Cpu
<1>4. CASE Level0
  <2>1. PICK c \in mask : smt' = apic[c].smt
    BY <1>4 DEF Level0
  <2>2. c \in Cpu
    BY <1>2
  <2>3. apic[c] \in [pkg : Nat, core : Nat, smt : Nat]
    BY <1>2, <2>2 DEF apic
  <2>4. smt' \in Nat
    BY <2>1, <2>3
  <2>5. QED
    BY <1>1, <1>2, <1>4, <2>4 DEF Level0, Fixed
<1>5. CASE Level1
  <2>1. PICK c \in mask :
          /\ os_map' = [os_map EXCEPT ![i] = [pkg |-> apic[c].pkg, core |-> apic[c].core, smt |-> smt]]
          /\ max_pkg' = IF apic[c].pkg > max_pkg THEN apic[c].pkg ELSE max_pkg
    BY <1>5 DEF Level1
  <2>2. apic[c] \in [pkg : Nat, core : Nat, smt : Nat]
    BY <1>2 DEF apic
  <2>3. QED
    BY <1>1, <1>2, <1>5, <2>1, <2>2 DEF Level1, Fixed, Cpu
<1>6. CASE Restore
  <2>1. mask' \subseteq machine.allowed /\ mask' # {} /\ err' \in {0, -1}
    BY <1>6 DEF Restore, SetAffinity
  <2>2. QED
    BY <1>1, <1>2, <1>6, <2>1 DEF Restore, Fixed, Cpu
<1>7. CASE Allocate
  BY <1>1, <1>2, <1>7 DEF Allocate, Fixed, Cpu
<1>8. CASE Fill
  <2> DEFINE s == Slot(os_map[i])
  <2>1. /\ i \in Cpu /\ i' = i + 1
        /\ pkg_map' = pkg_map \/ pkg_map' = [pkg_map EXCEPT ![s] = i]
    BY <1>2, <1>8 DEF Fill, Cpu
  <2>2. pkg_map' \in [DOMAIN pkg_map' -> Cpu \cup {Unset}]
    <3> HIDE DEF s
    <3>1. QED
      BY <2>1
  <2>3. QED
    <3>1. /\ machine' \in Machines /\ i' \in 0 .. machine'.count
          /\ overrun' \in BOOLEAN
      <4>1. machine' = machine /\ i' = i + 1 /\ i < machine.count
        BY <1>8 DEF Fill
      <4>2. i \in 0 .. machine.count /\ machine \in Machines /\ overrun \in BOOLEAN
        OBVIOUS
      <4>3. i' \in 0 .. machine'.count
        BY <1>2, <4>1, <4>2
      <4>4. overrun' = overrun \/ overrun' = TRUE
        BY <1>8 DEF Fill
      <4>5. overrun' \in BOOLEAN
        BY <4>2, <4>4
      <4>6. QED
        BY <4>1, <4>2, <4>3, <4>5
    <3>2. os_map' \in [Cpu' -> [pkg : Nat, core : Nat, smt : Nat] \cup {Unset}]
      BY <1>1, <1>8 DEF Fill, Fixed
    <3>3. QED
      BY <1>1, <1>8, <2>2, <3>1, <3>2 DEF Fill, Fixed
<1>9. CASE Return \/ UNCHANGED vars
  BY <1>1, <1>2, <1>9 DEF Return, Fixed, vars
<1>10. QED
  BY <1>3, <1>4, <1>5, <1>6, <1>7, <1>8, <1>9 DEF Next, Done

LEMMA PinnedNext ==
  ASSUME TopologyInv, [Next]_vars
  PROVE  Pinned'
<1> USE DEF TopologyInv, TypeOK, Pinned
<1>1. Fixed
  BY MachineFixed
<1>2. /\ machine.coreThreads \in Nat
      /\ machine.apic \in [Cpu -> [pkg : Nat, core : Nat, smt : Nat]]
      /\ \A c \in Cpu : machine.apic[c].smt < machine.coreThreads
      /\ machine.allowed \subseteq Cpu
      /\ machine.affinity \subseteq machine.allowed /\ machine.affinity # {}
  BY MachineAssumption DEF Cpu
<1>3. CASE Bind
  <2>1. PICK answers \in BOOLEAN : GetAffinity(mask, answers) /\ SetAffinity({i}, answers)
    BY <1>3 DEF Bind
  <2>2. i \in machine.allowed => mask' = {i}
    BY <2>1 DEF SetAffinity
  <2>3. saved' => prev' = machine.affinity
    <3>1. CASE i = 0
      BY <1>3, <2>1, <3>1 DEF GetAffinity, Bind
    <3>2. CASE i # 0
      BY <1>3, <2>1, <3>2 DEF GetAffinity, Bind
    <3>3. QED
      BY <3>1, <3>2
  <2>4. QED
    BY <1>1, <1>3, <2>2, <2>3 DEF Bind, Fixed
<1>4. CASE Level0
  BY <1>1, <1>2, <1>4 DEF Level0, Fixed, apic
<1>5. CASE Level1
  BY <1>1, <1>5 DEF Level1, Fixed
<1>6. CASE Restore
  <2>1. saved => mask' = machine.affinity
    BY <1>2, <1>6 DEF Restore, SetAffinity
  <2>2. i' # 0
    BY <1>6 DEF Restore
  <2>3. QED
    BY <1>1, <1>6, <2>1, <2>2 DEF Restore, Fixed
<1>7. CASE Allocate \/ Fill \/ Return \/ UNCHANGED vars
  BY <1>1, <1>7 DEF Allocate, Fill, Return, Fixed, vars
<1>8. QED
  BY <1>3, <1>4, <1>5, <1>6, <1>7 DEF Next, Done

LEMMA EntriesNext ==
  ASSUME TopologyInv, [Next]_vars
  PROVE  Entries'
<1>1. Fixed
  BY MachineFixed
<1>2. /\ machine.count \in Nat \ {0}
      /\ machine.apic \in [Cpu -> [pkg : Nat, core : Nat, smt : Nat]]
      /\ machine.allowed \subseteq Cpu
  BY MachineAssumption DEF TopologyInv, TypeOK, Cpu
<1> SUFFICES ASSUME NEW c \in Cpu, Recorded(c)'
             PROVE  Entry(c)'
  BY <1>1 DEF Entries, Fixed
<1>3. CASE Bind \/ Level0 \/ Restore \/ Allocate \/ Fill \/ Return \/ UNCHANGED vars
  <2>1. Recorded(c) /\ os_map' = os_map /\ max_pkg' = max_pkg
    <3>1. CASE Bind \/ Level0 \/ UNCHANGED vars
      BY <1>1, <3>1 DEF Recorded, Bind, Level0, vars
    <3>2. CASE Restore
      BY <1>1, <1>2, <3>2 DEF TopologyInv, TypeOK, Recorded, Cpu, Restore
    <3>3. CASE Allocate \/ Fill \/ Return
      BY <1>1, <1>2, <3>3 DEF TopologyInv, TypeOK, Recorded, Cpu, Allocate, Fill, Return
    <3>4. QED
      BY <1>3, <3>1, <3>2, <3>3
  <2>2. QED
    BY <1>1, <2>1, EntriesStay
<1>4. CASE Level1
  <2>1. PICK d \in mask :
          /\ os_map' = [os_map EXCEPT ![i] = [pkg |-> apic[d].pkg, core |-> apic[d].core, smt |-> smt]]
          /\ max_pkg' = IF apic[d].pkg > max_pkg THEN apic[d].pkg ELSE max_pkg
    BY <1>4 DEF Level1
  <2>2. apic[d] \in [pkg : Nat, core : Nat, smt : Nat] /\ d \in Cpu /\ i \in Cpu
    <3>1. d \in Cpu
      BY <1>2 DEF TopologyInv, TypeOK
    <3>2. i \in Cpu
      BY <1>2, <1>4 DEF TopologyInv, TypeOK, Level1, Cpu
    <3>3. QED
      BY <1>2, <3>1, <3>2 DEF apic
  <2>3. /\ os_map \in [Cpu -> [pkg : Nat, core : Nat, smt : Nat] \cup {Unset}]
        /\ smt \in Nat /\ smt < machine.coreThreads /\ max_pkg \in Nat
        /\ i' = i /\ pc = "level1" /\ pc' = "restore"
    BY <1>4 DEF TopologyInv, TypeOK, Pinned, Level1
  <2>4. max_pkg' \in Nat /\ max_pkg <= max_pkg' /\ apic[d].pkg <= max_pkg'
    BY <2>1, <2>2, <2>3
  <2>5. CASE c = i
    <3>1. os_map'[c] = [pkg |-> apic[d].pkg, core |-> apic[d].core, smt |-> smt]
      BY <2>1, <2>2, <2>3, <2>5
    <3>2. c \in machine.allowed => d = c /\ smt = apic[c].smt
      BY <2>3, <2>5 DEF TopologyInv, Pinned
    <3>3. c \in machine.allowed => os_map'[c] = apic[c]
      BY <2>2, <3>1, <3>2
    <3>4. QED
      BY <1>1, <2>2, <2>3, <2>4, <3>1, <3>3 DEF Entry, Fixed
  <2>6. CASE c # i
    <3>1. os_map'[c] = os_map[c] /\ Recorded(c)
      BY <1>1, <2>1, <2>2, <2>3, <2>6 DEF Recorded
    <3>2. Entry(c)
      BY <3>1 DEF TopologyInv, Entries
    <3>3. os_map[c].pkg <= max_pkg'
      BY <2>3, <2>4, <3>2 DEF Entry
    <3>4. QED
      BY <1>1, <3>1, <3>2, <3>3 DEF Entry, Fixed
  <2>7. QED
    BY <2>5, <2>6
<1>5. QED
  BY <1>3, <1>4 DEF Next, Done

LEMMA SlotsNext ==
  ASSUME TopologyInv, [Next]_vars
  PROVE  Slots'
<1>1. Fixed
  BY MachineFixed
<1>2. CASE Bind \/ Level0 \/ Level1 \/ Restore
  <2>1. pc \notin {"fill", "done"} /\ pc' \notin {"fill", "done"}
        /\ pkg_map' = pkg_map /\ overrun' = overrun
    BY <1>2 DEF Bind, Level0, Level1, Restore
  <2>2. QED
    BY <2>1 DEF TopologyInv, Slots
<1>3. CASE Allocate
  <2>1. /\ pkg_map' = [s \in (0 .. max_pkg) \X (0 .. machine.pkgThreads - 1) |-> Unset]
        /\ pc' = "fill" /\ max_pkg' = max_pkg
    BY <1>3 DEF Allocate
  <2>2. QED
    BY <1>1, <2>1 DEF Slots, Fixed
<1>4. CASE Fill
  <2> DEFINE s == Slot(os_map[i])
  <2>1. /\ pc = "fill" /\ pc' = pc /\ os_map' = os_map /\ max_pkg' = max_pkg
        /\ pkg_map' = pkg_map \/ pkg_map' = [pkg_map EXCEPT ![s] = i]
    BY <1>4 DEF Fill
  <2>2. DOMAIN pkg_map' = DOMAIN pkg_map
    BY <2>1
  <2>3. ASSUME NEW t \in DOMAIN pkg_map, pkg_map'[t] # Unset
        PROVE  t = Slot(os_map[pkg_map'[t]])
    <3> HIDE DEF s
    <3>1. pkg_map'[t] = pkg_map[t] \/ (t = s /\ pkg_map'[t] = i)
      BY <2>1
    <3>2. QED
      BY <2>3, <3>1 DEF TopologyInv, Slots, s
  <2>4. QED
    BY <1>1, <2>1, <2>2, <2>3 DEF TopologyInv, Slots, Fixed
<1>5. CASE Return \/ UNCHANGED vars
  <2>1. /\ pkg_map' = pkg_map /\ os_map' = os_map /\ max_pkg' = max_pkg
        /\ overrun' = overrun
        /\ pc' = pc \/ (pc = "fill" /\ pc' = "done")
    BY <1>5 DEF Return, vars
  <2>2. QED
    BY <1>1, <2>1 DEF TopologyInv, Slots, Fixed
<1>6. QED
  BY <1>2, <1>3, <1>4, <1>5 DEF Next, Done

\* Where the next id is put, if cores are numbered without gaps.
LEMMA NextSlotInside ==
  ASSUME TopologyInv, Contiguous, pc = "fill", i < machine.count
  PROVE  i \in Cpu /\ Entry(i) /\ Slot(os_map[i]) \in DOMAIN pkg_map
<1>1. i \in Cpu
  BY MachineAssumption DEF TopologyInv, TypeOK, Cpu
<1>2. Entry(i)
  BY <1>1 DEF TopologyInv, Entries, Recorded
<1>3. os_map[i].core < num_pkg_cores
  BY <1>2 DEF Entry, Contiguous
<1>4. Slot(os_map[i]) \in (0 .. max_pkg) \X (0 .. machine.pkgThreads - 1)
  BY <1>2, <1>3, SlotInside DEF Entry, TopologyInv
<1>5. QED
  BY <1>1, <1>2, <1>4 DEF TopologyInv, Slots

LEMMA InBoundsNext ==
  ASSUME TopologyInv, [Next]_vars
  PROVE  InBounds'
<1>1. Fixed
  BY MachineFixed
<1>2. CASE Fill
  <2>1. SUFFICES ASSUME Contiguous PROVE ~overrun'
    BY <1>1 DEF InBounds, Fixed
  <2>2. Slot(os_map[i]) \in DOMAIN pkg_map
    BY <1>2, <2>1, NextSlotInside DEF Fill
  <2>3. overrun' = overrun
    BY <1>2, <2>2 DEF Fill
  <2>4. QED
    BY <2>1, <2>3 DEF TopologyInv, InBounds
<1>3. CASE ~Fill
  <2>1. overrun' = overrun
    BY <1>3 DEF Next, vars, Bind, Level0, Level1, Restore, Allocate, Return, Done
  <2>2. QED
    BY <1>1, <2>1 DEF TopologyInv, InBounds, Fixed
<1>4. QED
  BY <1>2, <1>3

LEMMA FilledNext ==
  ASSUME TopologyInv, [Next]_vars
  PROVE  Filled'
<1>1. Fixed
  BY MachineFixed
<1>2. CASE Bind \/ Level0 \/ Level1 \/ Restore
  BY <1>2 DEF Bind, Level0, Level1, Restore, Filled
<1>3. CASE Allocate
  <2>1. i' = 0 /\ pc' = "fill"
    BY <1>3 DEF Allocate
  <2>2. \A c \in Cpu : ~(c < 0)
    BY DEF Cpu
  <2>3. QED
    BY <1>1, <2>1, <2>2 DEF Filled, Fixed
<1>4. CASE Fill
  <2>1. /\ pc = "fill" /\ pc' = "fill" /\ i < machine.count /\ i' = i + 1
        /\ i \in Nat
    BY <1>4, MachineAssumption DEF Fill, TopologyInv, TypeOK
  <2> SUFFICES ASSUME machine.allowed = Cpu, Contiguous, NEW c \in Cpu, c < i'
               PROVE  Slot(apic[c]) \in DOMAIN pkg_map' /\ pkg_map'[Slot(apic[c])] = c
    BY <1>1, <2>1 DEF Filled, Fixed
  <2>2. i \in Cpu /\ Entry(i) /\ Slot(os_map[i]) \in DOMAIN pkg_map
    BY <2>1, NextSlotInside
  <2>3. os_map[i] = apic[i]
    BY <2>2 DEF Entry
  <2>4. pkg_map' = [pkg_map EXCEPT ![Slot(apic[i])] = i]
    BY <1>4, <2>2, <2>3 DEF Fill
  <2>5. CASE c = i
    BY <2>2, <2>3, <2>4, <2>5
  <2>6. CASE c # i
    <3>1. c < i
      BY <2>1, <2>6 DEF Cpu
    <3>2. Slot(apic[c]) \in DOMAIN pkg_map /\ pkg_map[Slot(apic[c])] = c
      BY <2>1, <3>1 DEF TopologyInv, Filled
    <3>3. Slot(apic[c]) # Slot(apic[i])
      BY <2>2, <2>6, SlotsDiffer DEF TopologyInv
    <3>4. QED
      BY <2>4, <3>2, <3>3
  <2>7. QED
    BY <2>5, <2>6
<1>5. CASE Return \/ UNCHANGED vars
  <2>1. /\ pkg_map' = pkg_map /\ i' = i
        /\ pc' = pc \/ (pc = "fill" /\ pc' = "done" /\ i = machine.count)
    BY <1>5 DEF Return, vars
  <2>2. QED
    BY <1>1, <2>1 DEF TopologyInv, Filled, Fixed
<1>6. QED
  BY <1>2, <1>3, <1>4, <1>5 DEF Next, Done

-----------------------------------------------------------------------------
LEMMA TopologyInvariant == Spec => []TopologyInv
<1>1. Init => TopologyInv
  BY TopologyInit
<1>2. TopologyInv /\ [Next]_vars => TopologyInv'
  BY TypeCorrectNext, PinnedNext, EntriesNext, SlotsNext, InBoundsNext, FilledNext
     DEF TopologyInv
<1>3. QED
  BY <1>1, <1>2, PTL DEF Spec

\* All variables keep their types: the process is never bound to nothing or
\* to a processor it may not use.
THEOREM TopologyTypeOK == Spec => []TypeOK
<1>1. TopologyInv => TypeOK
  BY DEF TopologyInv
<1>2. QED
  BY <1>1, TopologyInvariant, PTL

\* Whatever cannot be bound, build_topology writes into its arrays only, if
\* cores are numbered without gaps.
THEOREM NoOverrun == Spec => []InBounds
<1>1. TopologyInv => InBounds
  BY DEF TopologyInv
<1>2. QED
  BY <1>1, TopologyInvariant, PTL

\* Processors that could be bound are not put into another's slot.
THEOREM BoundSlotsRight == Spec => []SlotsRight
<1>1. ASSUME TopologyInv PROVE SlotsRight
  <2> SUFFICES ASSUME NEW s \in DOMAIN pkg_map, pkg_map[s] \in machine.allowed
               PROVE  s = Slot(apic[pkg_map[s]])
    BY DEF SlotsRight
  <2>1. machine.allowed \subseteq Cpu /\ Unset \notin Cpu
    BY <1>1, MachineAssumption DEF TopologyInv, TypeOK, Cpu
  <2>2. s = Slot(os_map[pkg_map[s]])
    BY <1>1, <2>1 DEF TopologyInv, Slots
  <2>3. pc \in {"fill", "done"}
    BY <1>1 DEF TopologyInv, Slots
  <2>4. Entry(pkg_map[s])
    BY <1>1, <2>1, <2>3 DEF TopologyInv, Entries, Recorded
  <2>5. QED
    BY <2>2, <2>4 DEF Entry
<1>2. QED
  BY <1>1, TopologyInvariant, PTL

\* If all processors can be bound, the map is a bijection between them and the
\* slots of their packages.
THEOREM MapsComplete == Spec => []MapsRight
<1>1. ASSUME TopologyInv PROVE MapsRight
  <2> SUFFICES ASSUME pc = "done", machine.allowed = Cpu, Contiguous, NEW c \in Cpu
               PROVE  Slot(apic[c]) \in DOMAIN pkg_map /\ pkg_map[Slot(apic[c])] = c
    BY DEF MapsRight
  <2>1. i = machine.count
    BY <1>1 DEF TopologyInv, Filled
  <2>2. c < i
    BY <1>1, <2>1, MachineAssumption DEF Cpu, TopologyInv, TypeOK
  <2>3. QED
    BY <1>1, <2>2 DEF TopologyInv, Filled
<1>2. QED
  BY <1>1, TopologyInvariant, PTL

\* Once the affinity has been saved for the first processor, no later failure
\* leaves the process bound to anything else: an affinity that could not be
\* asked for again is the one that is held already.
THEOREM AffinityRestored == Spec => []AffinityKept
<1>1. TopologyInv => AffinityKept
  BY DEF TopologyInv, Pinned, AffinityKept
<1>2. QED
  BY <1>1, TopologyInvariant, PTL
=============================================================================

---------------------------- MODULE PointerChase ----------------------------
(***************************************************************************)
(* The pointer-chase benchmarks CacheHierarchyTest_*: a work item links    *)
(* cells of a buffer to a ring, each cell holding the address of the next  *)
(* one, then follows the ring for a given number of hops, whose time is    *)
(* what the benchmark measures, and in the end stores where it arrived.    *)
(*                                                                         *)
(* Some programs give every item a ring of its own, others let several     *)
(* items share one, and the final store goes to the first cell of a ring,  *)
(* not always the item's own, while other items may still be chasing.      *)
(* Items interleave freely.  With global memory the ring is built by one   *)
(* kernel and chased by the next; with local memory one kernel does both,  *)
(* and there is no barrier.                                                *)
(*                                                                         *)
(* A walker is a chain of pointers of a work item: the in-flight tests     *)
(* chase several of them at once, the others one.  A launch says which     *)
(* walkers there are and where their cells are; module ChaseLayouts has    *)
(* the launches of each program.                                           *)
(***************************************************************************)
EXTENDS Integers

CONSTANTS
  Launches, \* the launches that are looked at
  Null      \* what a cell holds before it is written, no cell's address

(* A launch l has                                                          *)
(*   walker      the walkers                                               *)
(*   item[w]     the work item of a walker                                 *)
(*   cell[w][k]  the address of the k-th cell of its ring                  *)
(*   result[w]   the address the final store goes to                       *)
(*   num         the cells of a ring                                       *)
(*   hops        the pointers a walker follows, 100 * iter in the programs *)
(*   twoKernels  whether all rings are built before the first is chased    *)
(*   memory      all addresses, and buffer, those the host allocated.      *)
(* Two rings are the same or have no cell in common: the host's options    *)
(* must leave room, (items - 1) * interval < stride, which it doesn't test.*)
WellFormed(l) ==
  /\ l.num \in Nat \ {0}
  /\ l.hops \in Nat
  /\ l.twoKernels \in BOOLEAN
  /\ l.cell \in [l.walker -> [0 .. l.num - 1 -> l.memory]]
  /\ l.result \in [l.walker -> l.memory]
  /\ \A w \in l.walker : \A j, k \in 0 .. l.num - 1 :
       l.cell[w][j] = l.cell[w][k] => j = k
  /\ \A v, w \in l.walker : \A j, k \in 0 .. l.num - 1 :
       l.cell[v][j] = l.cell[w][k] => l.cell[v] = l.cell[w]
  /\ Null \notin l.memory

ASSUME LaunchAssumption == \A l \in Launches : WellFormed(l)

VARIABLES
  launch, \* the program and its options
  mem,    \* what is at each address
  pc,     \* pc[w]: "link", "chase" or "done"
  i,      \* the loop counter: cells linked, or hops made
  ptr     \* currPtr

vars == <<launch, mem, pc, i, ptr>>

Walker == launch.walker
cell == launch.cell
Num == launch.num
Index == 0 .. Num - 1
Ring(w) == {cell[w][k] : k \in Index}

Init ==
  /\ launch \in Launches
  /\ mem = [a \in launch.memory |-> Null]
  /\ pc = [w \in launch.walker |-> "link"]
  /\ i = [w \in launch.walker |-> 0]
  /\ ptr = [w \in launch.walker |-> Null]

-----------------------------------------------------------------------------

\* currArray[idx] = (ulong)(&currArray[idx + stride]); idx = idx + stride;
Link(w) ==
  /\ pc[w] = "link"
  /\ i[w] < Num - 1
  /\ mem' = [mem EXCEPT ![cell[w][i[w]]] = cell[w][i[w] + 1]]
  /\ i' = [i EXCEPT ![w] = @ + 1]
  /\ UNCHANGED <<launch, pc, ptr>>

\* Mutant of Close: the last cell points to itself.
MutClose(w) ==
  /\ pc[w] = "link"
  /\ i[w] = Num - 1
  /\ mem' = [mem EXCEPT ![cell[w][Num - 1]] = cell[w][Num - 1]]
  /\ ptr' = [ptr EXCEPT ![w] = cell[w][0]]
  /\ pc' = [pc EXCEPT ![w] = "chase"]
  /\ i' = [i EXCEPT ![w] = 0]
  /\ UNCHANGED launch

\* Mutant of Close: the last cell is left as it is.
MutCloseNot(w) ==
  /\ pc[w] = "link"
  /\ i[w] = Num - 1
  /\ ptr' = [ptr EXCEPT ![w] = cell[w][0]]
  /\ pc' = [pc EXCEPT ![w] = "chase"]
  /\ i' = [i EXCEPT ![w] = 0]
  /\ UNCHANGED <<launch, mem>>

\* currArray[idx] = (ulong)currArray; the chase starts there.
Close(w) ==
  /\ pc[w] = "link"
  /\ i[w] = Num - 1
  /\ mem' = [mem EXCEPT ![cell[w][Num - 1]] = cell[w][0]]
  /\ ptr' = [ptr EXCEPT ![w] = cell[w][0]]
  /\ pc' = [pc EXCEPT ![w] = "chase"]
  /\ i' = [i EXCEPT ![w] = 0]
  /\ UNCHANGED launch

\* The host calls clFinish between the two kernels.
Running(w) ==
  /\ pc[w] = "chase"
  /\ launch.twoKernels => \A v \in Walker : pc[v] # "link"

\* currPtr = (__global ulong *)(*currPtr);
\* The loads of the chains of an item don't depend on each other.
Hop(w) ==
  /\ Running(w)
  /\ i[w] < launch.hops
  /\ ptr[w] \in launch.memory
  /\ ptr' = [ptr EXCEPT ![w] = mem[ptr[w]]]
  /\ i' = [i EXCEPT ![w] = @ + 1]
  /\ UNCHANGED <<launch, mem, pc>>

\* dataArray[...] = (ulong)(currPtr), after the loop: all chains of the item
\* have made their hops.
StoreResult(w) ==
  /\ Running(w)
  /\ \A v \in Walker : launch.item[v] = launch.item[w] =>
       pc[v] = "done" \/ (pc[v] = "chase" /\ i[v] = launch.hops)
  /\ mem' = [mem EXCEPT ![launch.result[w]] = ptr[w]]
  /\ pc' = [pc EXCEPT ![w] = "done"]
  /\ UNCHANGED <<launch, i, ptr>>

\* clFinish returns, and the host reads the buffer back.
Finished == (\A w \in Walker : pc[w] = "done") /\ UNCHANGED vars

Step(w) == Link(w) \/ Close(w) \/ Hop(w) \/ StoreResult(w)

Next == (\E w \in Walker : Step(w)) \/ Finished

Spec == Init /\ [][Next]_vars

-----------------------------------------------------------------------------
TypeOK ==
  /\ launch \in Launches
  /\ mem \in [launch.memory -> launch.memory \cup {Null}]
  /\ pc \in [Walker -> {"link", "chase", "done"}]
  /\ i \in [Walker -> Nat]
  /\ ptr \in [Walker -> launch.memory \cup {Null}]
  /\ \A w \in Walker :
       /\ pc[w] = "link" => i[w] < Num
       /\ pc[w] # "link" => i[w] <= launch.hops

\* Only what the host allocated is written: the addresses the kernels compute
\* and the size the host computes agree (line 140 of the hosts).
InBuffer == \A a \in launch.memory \ launch.buffer : mem[a] = Null

\* As long as nobody has stored a result into the ring of a walker, hop n of
\* the walker is at cell n modulo the length of the ring: the strides between
\* the accesses that are timed are the ones asked for, although items that
\* share the ring build it a second time.  Once a result is stored there, the
\* items that are still chasing take a short cut to it.
Stored(w) == \E v \in Walker : pc[v] = "done" /\ launch.result[v] \in Ring(w)

InStep ==
  \A w \in Walker :
    pc[w] = "chase" /\ ~Stored(w) => ptr[w] = cell[w][i[w] % Num]

\* Nobody but those who chase the same ring stores a result into it.
Undisturbed(w) ==
  \A v \in Walker : launch.result[v] \in Ring(w) => cell[v] = cell[w]

\* A walker in such a ring never leaves it, whenever the others finish, and
\* never follows a pointer that is not there.
OwnRing ==
  \A w \in Walker : pc[w] # "link" /\ Undisturbed(w) => ptr[w] \in Ring(w)
=============================================================================

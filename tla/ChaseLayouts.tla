---------------------------- MODULE ChaseLayouts ----------------------------
(***************************************************************************)
(* Where the pointer-chase programs put their rings.  A command line c has *)
(* the fields size (-n, cells of a ring), stride (-s), interval (-v, the   *)
(* distance between the rings of neighbours), groups (-g / -l), items (-l, *)
(* per group), chains (-k), slice (-w, the items of every DispatchSize     *)
(* that take part) and hops (-i, 100 to an iteration in the programs).     *)
(*                                                                         *)
(* An address is <<0, n>> for word n of the buffer in global memory and    *)
(* <<g + 1, n>> for word n of the local memory of group g.  For each       *)
(* program there is the place of a walker: the first cell of its ring, and *)
(* where its result goes.                                                  *)
(***************************************************************************)
EXTENDS Integers

CONSTANT DispatchSize \* DISPATCH_SIZE, a power of two: 32

ASSUME DispatchAssumption == DispatchSize \in Nat \ {0}

Global(n) == <<0, n>>
Local(g, n) == <<g + 1, n>>

\* get_global_id(0)
Gid(c, w) == w.group * c.items + w.lid

\* A ring per item.  The vector variants differ in the size of a word.
WorkItemBased(c, w) ==
  LET base == Global(Gid(c, w) * c.stride * c.size)
  IN [base |-> base, result |-> base]

\* A ring per position in the group, shared by all groups.
WorkGroupBased(c, w) ==
  LET base == Global(w.lid * c.interval)
  IN [base |-> base, result |-> base]

DeviceBased(c, w) ==
  LET base == Global(Gid(c, w) * c.interval)
  IN [base |-> base, result |-> base]

\* Items that are DispatchSize apart share a ring.  The store has & instead
\* of %: everybody's result goes to the first or to another fixed word.
LauncherBased(c, w) ==
  [base   |-> Global(w.group * c.stride * c.size + (w.lid % DispatchSize) * c.interval),
   result |-> Global(w.group * c.stride * c.size
                       + ((w.lid \div DispatchSize) % 2) * DispatchSize * c.interval)]

\* The store leaves out the group.
InFlight(c, w) ==
  [base   |-> Global(w.chain * c.interval + w.group * c.size * c.stride),
   result |-> Global(w.chain * c.interval)]

\* Mutant of CUDA: blocks are counted from one.
MutCUDA(c, w) ==
  LET base == Global((w.group + 1) * c.stride * c.size + w.lid * c.interval)
  IN [base |-> base, result |-> base]

CUDA(c, w) ==
  LET base == Global(w.group * c.stride * c.size + w.lid * c.interval)
  IN [base |-> base, result |-> base]

\* All threads of all blocks chase the same rings.
CUDAInFlight(c, w) ==
  LET base == Global(w.chain * c.interval)
  IN [base |-> base, result |-> base]

LocalWorkGroupBased(c, w) ==
  [base |-> Local(w.group, w.lid * c.interval), result |-> Global(Gid(c, w))]

LocalLauncherBased(c, w) ==
  [base   |-> Local(w.group, (w.lid \div DispatchSize) * c.interval),
   result |-> Global(Gid(c, w))]

\* Local memory is addressed with the number of the group, too.
LocalInFlight(c, w) ==
  [base   |-> Local(w.group, w.chain * c.interval + w.group * c.size * c.stride),
   result |-> Global(w.chain)]

Place(p, c, w) ==
  CASE p = "WorkItemBased" -> WorkItemBased(c, w)
    [] p = "WorkGroupBased" -> WorkGroupBased(c, w)
    [] p = "DeviceBased" -> DeviceBased(c, w)
    [] p = "LauncherBased" -> LauncherBased(c, w)
    [] p = "InFlight" -> InFlight(c, w)
    [] p = "CUDA" -> CUDA(c, w)
    [] p = "CUDAInFlight" -> CUDAInFlight(c, w)
    [] p = "LocalWorkGroupBased" -> LocalWorkGroupBased(c, w)
    [] p = "LocalLauncherBased" -> LocalLauncherBased(c, w)
    [] p = "LocalInFlight" -> LocalInFlight(c, w)

InLocalMemory(p) == p \in {"LocalWorkGroupBased", "LocalLauncherBased", "LocalInFlight"}

\* The items a kernel leaves out at once have no part in what follows.
TakesPart(p, c, w) ==
  CASE p = "LauncherBased" -> w.lid % DispatchSize < c.slice
    [] p = "LocalLauncherBased" -> w.lid % DispatchSize = 0
    [] OTHER -> TRUE

\* The words of the buffer in global memory.
Words(p, c) ==
  CASE p = "WorkItemBased" -> c.stride * c.size * c.groups * c.items
    [] p = "DeviceBased" -> c.stride * c.size
    [] p \in {"WorkGroupBased", "LauncherBased", "InFlight", "CUDA", "CUDAInFlight"} ->
         c.stride * c.size * c.groups
    [] InLocalMemory(p) -> c.groups * c.items * c.chains

\* What the host allocates: a buffer in global memory and, as a kernel
\* argument without a value, local memory for every group.
Buffer(p, c) ==
  {Global(n) : n \in 0 .. Words(p, c) - 1} \cup
    (IF InLocalMemory(p)
     THEN {Local(g, n) : g \in 0 .. c.groups - 1, n \in 0 .. c.stride * c.size - 1}
     ELSE {})

\* The walkers of a launch, and the cells they write and read.
Walkers(p, c) ==
  {w \in [group : 0 .. c.groups - 1, lid : 0 .. c.items - 1, chain : 0 .. c.chains - 1] :
     TakesPart(p, c, w)}

CellAt(p, c, w, k) ==
  LET base == Place(p, c, w).base IN <<base[1], base[2] + k * c.stride>>

Touched(p, c) ==
  {CellAt(p, c, w, k) : w \in Walkers(p, c), k \in 0 .. c.size - 1} \cup
    {Place(p, c, w).result : w \in Walkers(p, c)}

LaunchOf(p, c) ==
  [walker     |-> Walkers(p, c),
   item       |-> [w \in Walkers(p, c) |-> <<w.group, w.lid>>],
   cell       |-> [w \in Walkers(p, c) |-> [k \in 0 .. c.size - 1 |-> CellAt(p, c, w, k)]],
   result     |-> [w \in Walkers(p, c) |-> Place(p, c, w).result],
   num        |-> c.size,
   hops       |-> c.hops,
   twoKernels |-> ~InLocalMemory(p),
   memory     |-> Touched(p, c) \cup Buffer(p, c),
   buffer     |-> Buffer(p, c)]
=============================================================================

# Specifications of the GPGPU micro-benchmark suite

The suite is a collection of small programs: OpenCL and CUDA kernels with the
host programs that launch them and time them, simulators and parsers that help
to interpret the times, and samplers of the power that is drawn meanwhile.
There are no tests, and the documentation is a line of README, the comments,
`OpenCL_Parser/TODO` and the `-V` option of the matrix programs, which checks
a kernel's output against a loop nest on the host. This directory holds TLA+
models of the parts with logic of their own, what TLC found out about them on
small instances, and what TLAPS proves about them for all.

Paths are relative to `src/`. Tools: TLC for the runs, TLAPS 1.4.5 with Z3,
Zenon and LS4 for the proofs. `PROJECT.json` lists the runs, a mutant of the
code for every property of a passing run, the lines every definition was
translated from, the hazards, and the theorems.


## 1. Inventory

### Modelled

**Cache simulator** (`MemoryTest/GlobalMemory/CacheSim/CacheSim.cpp`).
State: the lines of a set-associative cache (empty flag, tag, time stamp), a
clock, hit and miss counters, a flag that says whether they count. Operations:
`Access`; `main` walks over `size` addresses one `stride` apart to warm up,
then over the same ones for `iteration` logged accesses. Hard: the replacement
order is implicit in time stamps that were written many accesses earlier; the
walk starts over in the middle of the logged phase. Correct when it is an LRU
cache, and when the counts are the ones the benchmark is interpreted by: a
walk that fits never misses, a set with more blocks than ways always does.

**Symbol table** (`OpenCL_Parser/symbolTable.c`), called by the **parser
actions** (`kernelParser.y`) and the **lexer** (`kernelParser.l`, `check_type`).
State: a stack of levels, each with a singly linked list of entries sorted by
name. Operations: create and release the table and a level, add the names of a
parameter list or a declaration, find a symbol's type, find its entry. The
parser opens a level for a function and for every compound statement; the
lexer asks on every identifier whether it is a type name, so look-ups and
additions alternate. Hard: the searches stop at the first greater name, so
they are right only as long as the insertion, which carries two pointers along
the list, puts every name into its place; release frees one level and relies
on the parser having closed the others. Correct when the table is a stack of
scopes, no entry outlives its level, and no loop runs for ever.

**Operations of the parser** (`kernelParser.y`, `UpdateSymbolTable`). State: the
operations of the current function, linked by `next` and by the operations they
wait for; lists of them for the expressions on the parser's stack, which
become statements, and lists of statements for what is nested; in every symbol's
entry the operation that wrote it last. Each reduction joins lists and frees
the headers it no longer needs; the end of a function prints and frees all its
operations. Hard: which header of two survives depends on which of the lists
are empty; `x++` waits for the end of the statement; adjacent expression
statements are merged across the ends of nested lists; the entries of outer
levels outlive the operations. Correct when every operation is printed and
freed exactly once, and when what it waits for is there.

**Tiled matrix multiplication** (`MatrixMultiplication/Tiling_1/matrix.cl`,
`Tiling_2/matrix.cl`, host programs `matrix.cpp`). State per work item: two loop
counters and a sum; per work group: one or two tiles in local memory; global:
the matrices. Items interleave freely but for two barriers per tile. Hard: the
tile is reused, and each of the barriers protects one of two directions.
Correct when there is no data race in local memory, every item passes its
barriers, and the output is the one the host computes.

**Intel power gadget, sampling loop** (`IntelPowerGadget/PowerUsage.c`,
`do_print_energy_info`). State: the previous sample of every supported domain of
every package, the times of the last readings. Reads hardware counters that
run on and wrap around while it sleeps, reads the clock before some readings
and after others, and ignores the errors of a reading. Correct when the
energies and times it divides belong together, and when it stops.

**Intel power gadget, life cycle** (`PowerUsage.c`, `main` and
`sigint_handler`; `rapl.c`, `init_rapl`, `build_topology`, `terminate_rapl`).
State: four kinds of tables on the heap. `main` allocates, reads and frees them;
the handler of SIGINT frees them too, wherever `main` happens to be, and exits.
Correct when what is read is there, everything is freed on every way out, and
nothing is freed twice or before it was allocated.

**RAPL topology** (`IntelPowerGadget/rapl.c`, `build_topology` and
`bind_context`). State: the affinity of the process, the APIC id recorded for
each processor, a map from the threads of each package to processors. The
process binds itself to one processor after the other and asks it for its id in
two instructions. Hard: nobody looks at the error of a binding that failed, and
then the two halves of an id may come from different processors; nor at that of
`sched_getaffinity`, after which the process goes back to what a variable
happens to hold; the slot of a
thread is computed as if the cores of a package were numbered without gaps.
Correct when the map is not overrun, names processors of the right package, and
the process has its affinity back.

**Struct descriptors** (`kernelParser.y`, lines 829 to 1035, and the copy of a
descriptor in `symbolTable.c`). State: lists of members sorted by name, a table
of finished lists, the copies in the entries of variables. Each declaration
inside a struct makes a list that is merged into the list so far. Hard: the
merge walks along pointers it has just overwritten; the type of `x.m` is looked
up in the sorted list, its entry in the unsorted way in the copy. Correct when
the lists stay sorted and complete, the merge ends, and both look-ups agree.

**Pointer-chase benchmarks** (`MemoryTest/*/CacheHierarchyTest_*`,
`CudaCode/CacheHierarchyTest`). State: a buffer in global or local memory, and
per item a pointer and a loop counter. An item links cells to a ring, one kernel
or loop later it follows the ring, and then stores where it is. Hard: ten
programs place rings and results by ten formulas, the hosts compute the size of
the buffer by others, and several programs let items share a ring or store into
each other's. Correct when only the buffer is written, and when the hops that
are timed are the strides that were asked for.

### Partly modelled, or not at all

| Component | State, operations | Why |
|---|---|---|
| Parser: types, the do statement, releasing the struct table | expressions and their types, which the operations do not depend on | types are computed without a state; what the do statement does is undefined (its condition is passed as another type of list, `kernelParser.y:1624`) |
| RAPL library: supported registers, power limits | a table filled once; read-modify-write of a register | no other writer is in this code; planned with a second process |
| CUDA programs | as their OpenCL counterparts | both pointer-chase programs are launches of `PointerChase`; `3_Tiling.cu` has the loop and the barriers of `Tiling2` for square matrices; `4_Hierarchically.cu` and `5_Ultimate.cu` keep tiles in registers, planned |
| `LaunchOrder` | a counter incremented atomically and read without | planned |
| Vector and transposing matrix kernels | items without shared memory | planned, against `MatMul` |
| NVML and CodeXL samplers | polling loops over a vendor's library | planned, after `RaplSampler` |
| `GPUWorkGroupInterleavingTest`, `ArithmeticPipelineTest` | independent items, straight-line arithmetic | only the time they take is observable |
| PAPI wrapper | an event set, and its four calls in order | planned |
| `OpenCLInfo`, buffer address and stride tools | none | they print |
| C99 grammars | none | no actions |
| PAPI, AMD's libraries in `CodeXL` | not looked at | third party |

Three hazards of the power gadget are left to review: `gettimeofday` may be set
back (`PowerUsage.c:145`), `free` is not async-signal-safe (`PowerUsage.c:284`),
and a power limit is read, modified and written without a lock (`rapl.c:736`).


## 2. Modules

| Module | Models |
|---|---|
| `LRU` | abstract: a cache that keeps the resident tags of each set and their order of use |
| `CacheSim` | `Cache_Template` and `main` |
| `Scopes` | abstract: a stack of functions from names to what they are bound to, and the questions asked of it |
| `SymbolTable` | `symbolTable.c`, called in every order the parser and the lexer may |
| `OpGraph` | the reductions of `kernelParser.y`, with the operations, lists and dependences they make |
| `MatMul` | abstract: the host's loop nest; every cell is written once, with its dot product |
| `Tiling`, `Tiling2` | the kernels; `Tiling2` extends `Tiling` by the second tile |
| `RaplSampler` | `do_print_energy_info`, the clock and the counters |
| `PowerGadget` | `main`, the handler, allocation and deallocation |
| `RaplTopology` | `build_topology` and the bindings it makes |
| `StructTable` | struct descriptors: declarations, the merge, the table, variables and look-ups |
| `PointerChase` | the kernels of the pointer-chase programs, for any placement of their rings |
| `ChaseLayouts` | where each program places rings and results, and the buffer its host allocates |
| `MC*` | constants for TLC |
| `*_proofs` | lemmas and proofs |

`CacheSim` implements `LRU`, `SymbolTable` implements `Scopes`, `Tiling` and
`Tiling2` implement `MatMul`; each refinement mapping is the last section of
the detailed module. `PowerGadget` has the call of `do_print_energy_info` as
one step, which `RaplSampler` models in detail, and `build_topology` without
what it finds out, which `RaplTopology` models. `MCPointerChase` composes
`PointerChase` with `ChaseLayouts`.

**CacheSim.** `Hit`, `Fill` and `Replace` are the three ways through `Access`,
each with the time stamp and the counter it writes; `WarmUp` and `LoggedAccess`
are the two loops of `main`, one iteration per step. The command line is
chosen in `Init`. Integers have no width: `currTime` and the counters would
overflow after 2^31 accesses, the addresses at strides above 2^28.

**SymbolTable.** One iteration of a loop of a C function is one step, and the
functions' local variables (`prev`, `iter`, `tmp`, `level`) are variables:
`InsertFirst`, `InsertBefore`, `InsertLast`, `Redefine` and `ScanOn` are the
branches of the insertion, `WalkOn`, `NextLevel`, `Found` and `NotFound` those
of the searches. `AddNames` and `LookUp` start a call; `owner` is not in the
code, it records which list an entry is in so that loss and use after free can
be seen. A name is a number, `strcmp` is `<`. `PopLevel` frees what a walk from
the head reaches, `Chain`, and not what `owner` says. `entry_tail` is modelled,
with the value `AddIDListToSymbolTable` gives it (the entry before the last,
line 190); nothing reads it. Bounds: `MaxDepth`, and `AddNames` starts only if
there is a free cell per name, so that `malloc` does not fail. `Release` is
possible at any depth: `yyparse` returns from the middle of a function after a
syntax error.

**OpGraph.** An action per kind of reduction, named for the rule; the parser's
stack is in the model, with the semantic values of the rules being read, so
that the order of the reductions is the grammar's. A header is a record of the
ends of its list; `next` and `issue_dep` are functions from operations to
operations, as the pointers are; `Join` is the header of two joined lists and
`Tie` the pointers the join writes, and what puts lists of statements together
returns the pointers it leaves too (`ptrs`). `OpsOf`, what a walk visits, is the
least set with its head that is closed under `next`.
A `STMT_List` is flat: nested lists are put between a type and an "end". `scopes`
is the abstract table of `Scopes` with the field `op` as what a name is bound
to. `dropped` is not in the code: it collects what a rule never puts into a
list (conditions of `while` and `switch`, arguments of calls, branches of `?:`,
returned expressions, labeled statements, initializers outside of functions).
Those are never printed nor freed, as some TODOs say (lines 1119, 1269, 1622).
An operation is freed once and its number not used again, so a stale pointer
stays visible. To keep instances small, `Complete` clears the entry of a
finished expression, which the code does later (line 636), and `Forget` the
fields of operations that are dropped, which nothing reads any more. Bounds: `MaxOps`, `MaxStack`
and `MaxIds`, the names in one declaration.

**Tiling.** `Load`, `Add`, `Store` are steps of an item, one access of local
memory each; `LoadBarrier` and `AddBarrier` let a group pass once all its
items wait. Only which elements are multiplied is kept, as pairs of an index
in A and what was read as the element of B; the float and the double kernel
keep their tile in `__local int*`, so there the element is recorded as
truncated.

**RaplSampler.** `Tick` is the world: the clock, `usleep` and the counters of
all meters, between any two statements. A meter is a supported domain of a
package. Ghost variables record what a meter really consumed since its last
reading, and when that was. The code's joules are a power of two times the
counter's units, so its arithmetic on doubles is exact and is done in units
here. A reading may fail and then leaves any value of `Garbage`. `gettimeofday`
is assumed not to be set back.

**PowerGadget.** `main` and `terminate_rapl` statement by statement, as far as
they allocate, free or branch; `Signal` may come between any two of them.
`Free` of a pointer that is not valid is undefined: the process may abort or
go on.


**RaplTopology.** A machine is the APIC ids of its processors, the processors
the process may be bound to and its affinity at the start. `Bind`, `Level0`,
`Level1`, `Restore` are the calls for one processor; each of the two CPUID
instructions runs on some processor of the mask. `GetAffinity` and
`SetAffinity` are the two system calls of `bind_context`, and both may fail.
`sched_getaffinity` does so at any time and leaves `prev_context` as it is: at
first, whatever the stack holds (any set of processors). `sched_setaffinity`
leaves out what the process may not use and fails if nothing is left. The
affinity is set all the same when asking for it failed. `Bind` and `Restore`
write `err`; `Restore` overwrites the error of `Bind`, as the code does. `Fill`
is an iteration of the second loop. `saved`, that the first call of
`sched_getaffinity` answered, is not in the code. `overrun` is not in the code: it says that a slot
was outside of the package's array. Processors do not go off line meanwhile.

**StructTable.** A cell is a call of `CreateStructMember`; `next` is the pointer
in it. `NextID` and `MergeNext` are one iteration each of the loops of
`CreateStructDescriptor` and `MergeStructDescriptor`. A walk along pointers is
the set of the members it reads, `Visits`; `Prev` and `Iter` are what the search
inside `AddToStructDescriptor` ends with, the last member it has left behind and
the one it stops at. `MergeNext` reads
`next'`, the pointer the insertion has left, as line 843 does. `declared` and
`several` are ghosts. Of a variable only the copy of its members is kept,
`CopyOf`.
`Declare` needs a struct of that name, since what the code does without one is
undefined. Bounds: `MaxMembers`, `MaxVars`, and the lists of names.

**PointerChase.** A walker is a chain of pointers of a work item; the in-flight
tests have several per item. `Link` and `Close` are the loop that builds the
ring and the store behind it, `Hop` and `StoreResult` the timed loop and the
store behind that. With two kernels no walker hops before all have linked, with
one (`twoKernels` false) there is no such barrier. A launch is a record of
cells, results and buffer, which `LaunchOf` of `ChaseLayouts` computes from a
command line by the formulas of the kernel (`Place`) and of the host (`Words`).
The three kernels of `WorkItemBased_Vector` chase the rings of `WorkItemBased`
with wider elements and have no layout of their own.
What a cell holds before it is written is `Null`, no address: the hosts clear a
part of the buffer only, and local memory not at all.

## 3. What is checked

All runs check deadlock but `structtable` and `struct_merge`: there the parser
may stop, because the bounds leave no member or variable to declare. Every
property of a passing run is violated by a
mutant (`Mut...` in the modules), a plausible slip in the lines it is about.

| Run | Instance | Shows |
|---|---|---|
| `cachesim` | 2 ways, 2 sets, blocks of 16 bytes; strides 1, 2, 3, 4, 8, sizes 1 to 7, 0, 5 or 15 accesses | `TagsUnique`, `StampsUnique`, `MissesAreConflictMisses`, `ImplementsLRU` |
| `symboltable` | 3 names, 3 cells, 3 levels, 5 lists of names | `ListsSorted`, `ScanInPlace`, `NoEntryLost`, `ImplementsScopes`, `CallsReturn` |
| `opgraph` | 1 name, 3 operations, a stack of 3 elements, 2 names per declaration | `ListsAreChains`, `HeldOnce`, `LocalsLive` |
| `structtable` | 3 names, 5 members, 2 structs, 1 variable, up to 3 names per declaration | `ListsSorted`, `LookupsAgree`, `NoneLostOneByOne`, `FirstCounts`, `MergeReturns` |
| `tiling` | W = 2, H = 4, M = 4, L = 2: 2 groups of 4 items, 2 tiles | `InBuffers`, `NoRace`, `PartialSums`, `ImplementsMatMul`, `Terminates` |
| `tiling2` | W = 4, H = 2, M = 4, L = 2 | `InBuffers2`, `NoRace2`, `PartialSums2`, `ImplementsMatMul2`, `Terminates` |
| `sampler` | 2 meters, counters modulo 3, delay 2, duration 3, at most 1 unit per tick and 1 tick per iteration outside of `usleep` | `DeltaWithinOneUnit`, `IntervalBounded`, `Terminates` |
| `gadget` | up to 3 packages | `NoUseAfterFree`, `NoLeak`, `FreesAreValid` |
| `topology` | 4 machines of up to 6 processors, every set of allowed processors, every content of the stack and, up to 4 processors, every affinity | `InBounds`, `SlotsRight`, `MapsRight`, `AffinityKept` |
| `chase` | 15 launches of 10 programs, rings of 2 to 4 cells, 5 hops, `DISPATCH_SIZE` 2 | `InBuffer`, `InStep`, `OwnRing` |

The type invariants are not repeated by a run: they are proved (section 4).

Why the bounds are enough:

- `cachesim`: with strides of half a block to four blocks and up to seven
  addresses there are walks that fit, that overflow one set only, that overflow
  both, and that start over inside a block.
- `symboltable`: three entries are enough to insert before, between and behind
  others; the lists include one that redefines its own name; three levels are
  the global one, a function and a block. A mutant that keeps `prev` behind
  needs a third entry to show.
- `opgraph`: with three operations both operands of an operator can have one,
  and a statement can be merged between two others; a stack of three holds a
  function, a block, loop or branch in it and an expression or statement inside,
  and all header forms. One name can be bound in all levels at once.
- `tiling`: an item can be overtaken by its neighbours at both barriers only if
  there are two tiles, and no more than two tiles are in play at a time.
- `sampler`: readings are up to four ticks apart, so that a counter makes less
  than a turn, one turn and more. Two meters are read at different times.
- `gadget`: with three packages the loops have a first, a middle and a last.
- `structtable`: the lists of a declaration have all orders of three names, with
  repetitions, so that a merge inserts in front, between and behind, and meets
  names that are there; five members make a list of two or more with a list of
  three or two. Two structs, because look-ups stop at a struct's own list.
- `topology`: packages first or threads first in the numbering, with and without
  a second thread, and a gap in the core numbers. Either system call may fail
  for every processor, in every combination.
- `chase`: five hops go around every ring at least once; each program has a
  launch with at least two walkers, those whose groups or items share rings
  (`WorkGroupBased`, `LauncherBased`, an interval of 0, `CUDAInFlight`) have
  two that share, and those that store into another's ring (`LauncherBased`,
  `InFlight`) have two that do.

Fairness. The parser is one thread, so a function that can go on does (weak
fairness of `Steps` in `SymbolTable` and of `Step` in `StructTable`); nothing
forces the parser to make another call. An
OpenCL device runs every work item of a launched kernel to the end (weak
fairness of each item's steps and of each group's barriers, `FairSpec` and
`FairSpec2`), in any order. The
power gadget's process is scheduled and `usleep` returns (weak fairness of
`Statement` and of the clock while asleep). Energy need not be consumed.

### Where code and comments disagree

Each is a run that TLC ends with a counterexample.

| Run | Disagreement |
|---|---|
| `opgraph_dangling` | `GetTableEntry` is there "to find the dependency due to RAW data hazard of specific identifier" (`symbolTable.c:15`): if a function writes a variable of the program scope and the next one reads it, the dependence is on an operation that has been freed, and printing it (`kernelParser.y:329`) reads freed memory |
| `struct_merge` | "Identifier %s does not defined in struct %s" (`kernelParser.y:1013`) is said of a declared member: in `struct { int b; int a, c; }` the walk over `a, c` goes from a, which has been inserted before b, to b, reports "Redefine symbol b" (line 915), and ends; c is lost |

More is visible in the models without a run of its own:

- The float and the double kernel keep their tile in `__local int*`
  (`Tiling_1/matrix.cl:24`): fractions are truncated, and `-V` fails. `Load` of
  `Tiling` truncates for these types, and `TilingImplementsMatMul` asks for
  integers.
- The two-tile kernel addresses A with the width of B (`Tiling_2/matrix.cl:12`);
  `Tiling2ImplementsMatMul` asks for W = M, and `InBuffers2` leaves open where
  the kernel reads A if B is the wider matrix: behind its end.
- "Clean up if we're told to exit" (`PowerUsage.c:295`): SIGINT while `pkg_map` is
  filled (`rapl.c:197`), or during `terminate_rapl` (`rapl.c:343`), makes the
  handler free pointers that are not valid. `FreesAreValid` says that there is
  no other way.
- "0 on success" (`rapl.c:220`): the errors 1 and -1 add up to 0 (line 322).
- The error of `bind_cpu` is overwritten by the next call (`rapl.c:185`), so
  what `build_topology` returns is whether the last processor could be left
  again, and 0 if the affinity had been saved, whatever else failed. The id recorded is then that of
  another processor, or a mixture: slot 0 of a package may stay uninitialized
  or name a processor that is off line, and the package is read through it
  (`rapl.c:460`). `SlotsRight` and `MapsRight` state what is left.
- `bind_context` goes on when `sched_getaffinity` fails (`rapl.c:107`). If that
  happens for the first processor, line 185 binds the process to what the stack
  held, or leaves it on that processor; `AffinityKept` begins after it.
- On processors whose core numbers have gaps `pkg_map[p]` is overrun
  (`rapl.c:203`), and with gaps in the package numbers some nodes stay unset;
  `InBounds` and `MapsRight` assume that there are no gaps between cores.
- The members of a struct that a merge drops are not freed, and `member_tail`
  may be left in the middle of the list; nothing but `AddToStructDescriptor`
  reads it. After `struct s {...} x` the variable uses the descriptor itself
  and not what a look-up of `s` finds, which differs if `s` is declared twice.
- `LauncherBased` stores with `&` in place of `%` (`cacheHierarchyTest.cl:109`):
  everybody's result goes to two words, one of them in the first item's ring,
  and `InFlightAccessTest` leaves the group out of the address (line 107): all
  groups store into the first one's rings. In `WorkGroupBased` groups share
  rings, and the first to finish shortens the others' chase. `InStep` is
  stated up to the first store into a ring, and `OwnRing` of rings nobody else
  stores to.
- The warning of the host of `InFlightAccessTest` is commented out (lines 107 to
  109), so that the `if` swallows the `break` and `-g 1` falls through to the
  next option. `LocalMemory/CacheHierarchyTest_InFlightTest` adds the number of
  the group to an address in local memory, outside of what the host asks for if
  there is more than one group: the launches have one. No host tests that
  (items - 1) * interval < stride; `LaunchAssumption` asks for it.
- The matrix kernels drop the last columns of A if the local size does not
  divide its width (`matrix.cl:10`), which the host does not refuse; `Tiling`
  computes `Tiles` by the same division.
- "The computed elapsed time between samples" (`PowerUsage.c:162`) leaves out
  the time the readings take, because it runs from the end of one round of
  readings to a time before the next; `IntervalBounded` therefore states an
  upper bound and not an equation.
- "Handle wraparound" (`PowerUsage.c:155`) adds the largest value of the counter,
  not the number of its values; `DeltaWithinOneUnit` therefore allows a unit.
- "Release the global level" (`kernelParser.y:26`): after a syntax error inside a
  function `release` pops an inner level, and the table is never freed.
- An assignment without an operation, `x = y`, leaves no operation for x, and
  `a[i * 2] = v` updates the entry of i and not of a, because a join keeps the
  entry of the list that has operations (a TODO, line 1276). `AddToOPList` frees
  the left side before `UpdateSymbolTable` reads it (line 1279); what it reads
  there, at an offset of 24 bytes, glibc's `free` leaves alone.
- `--x` uses `DECREASEN_OP` (line 1162), which is declared nowhere: the grammar
  as committed does not compile. `OpGraph` takes it for `DECREASE_OP`.


## 4. What is proved

For every value of the constants that satisfies the module's assumption
(`CacheAssumption`, `SymbolAssumption`, `OpAssumption`, `TilingAssumption`,
`SamplerAssumption`, `GadgetAssumption`, `LaunchAssumption`,
`MachineAssumption`, `StructAssumption`). Each proof follows one pattern: an
inductive invariant, a lemma that the initial states satisfy it, a lemma with
one step per action that it is preserved, and temporal theorems that read the
properties off it.

- **`CacheSim_proofs`.** `CacheInv` is `TypeOK`, `TagsUnique` and
  `StampsUnique`. Uniqueness of tags is inductive because a tag is written to
  another way only if no way matches; uniqueness of stamps because every stamp
  is taken from a clock that then advances. `CacheImplementsLRU` needs all of
  it: with equal stamps the victim would not be the least element of the order.
  `WalkInv` adds what ties the lines to the walk: a line is the block that was
  accessed when it was stamped and not since (`LastUses`); an accessed block is
  there, unless all lines of its set have been used since (`MostRecent`); and
  where `main` is (`OnWalk`). So an access misses just when its set has more
  blocks than ways and the access before was to another block (`MissesThrash`):
  if the block is gone, it and the blocks of the lines are more than the ways
  (`OneLeftOut`); if it is there although all other blocks of its set were
  accessed since (`OthersSince`), all are there, and are no more than the ways
  (`AllHeld`). `ConflictMissesCounted` is the counters of the benchmark for every
  cache, stride, size and number of iterations.
- **`SymbolTable_proofs`.** `SymInv` is `TypeOK`, `ListsSorted`, `ScanInPlace`
  and `NoEntryLost`. Neither part is inductive alone: an insertion keeps a list
  sorted because the scan is in place, the scan moves to a neighbour because
  the list is sorted, and closing a level loses nothing because the entries it
  owns are those the walk reaches. That last fact is the lemma `ChainIsList`:
  if a set closed under `next` left an entry out, the last entry of the set in
  front of it would have to be followed by it. Lists may have any length, and
  there may be any number of levels. `SymbolTableImplementsScopes` adds `RefInv`:
  an entry that is or will be in a list has its info, no answer is kept while a
  call runs, and a search has passed no entry of the name it looks for, neither
  in the inner levels nor in the one it is in. The step that links an entry is
  the abstract `Declare`, the end of a search `AskEntry` or `AskType`; all other
  steps of a call stutter or forget the last answer.
- **`Tiling_proofs`.** `TilingInv` adds three facts to what is checked: an item
  that waits has finished its inner loop (`InPlace`), the items of a group are
  in the same tile and never on both sides of a barrier (`Together`), and a
  slot holds the element of the current tile once its item has passed `Load`
  (`TileLoaded`). From these follow `NoRace` and `PartialSums`, for any size and
  group size. `StaysInBuffers` is about the addresses the items compute, against
  the sizes the host allocates, not about the domains of the model's functions;
  it needs that the loops end where they should (`InPlace`) and that a row and a
  column below their bounds make a flat index below the product (`FlatBound`). `TilingImplementsMatMul` is proved for integer elements and
  M % L = 0, the two conditions without which it is false. `TilingInv2` adds
  the same facts about the second tile, and the five theorems hold of `Tiling2`
  (with W = M in the refinement, and W <= M for the addresses in A); what both kernels do alike, the counters and
  the barriers, is proved once, in `Control`, `AddedStays` and `DoneStays`. The
  index
  arithmetic (a slot determines its item, a cell its row and column) rests on
  lemmas about quotients and remainders.
- **`PowerGadget_proofs`** is about both models of the power gadget (the names of
  `RaplSampler` that would collide have the prefix `Sampler`, so that one module
  can extend both). `SamplerInv` adds `Tracked`, that a counter is its
  last good reading plus what was used since, modulo the width, and `Timing`,
  where in the loop the times stand to one another. `WraparoundHandled`: less
  than one turn apart, a delta is the energy consumed or one unit less;
  `IntervalsBounded`.
  `GadgetInv` says for each statement which tables are
  allocated (`Allocated`, `Entries`, `NumNodesSet`), who may run (`Contexts`),
  what has been freed (`Freed`), and that a pointer is invalid only after a
  signal in one of two windows (`Valid`). `TablesThere`, `EverythingFreed` and
  `OnlySignalsInvalidate` follow, for any number of packages.
- **`PointerChase_proofs`.** `ChaseInv` adds to `InStep` and `OwnRing` what the
  cells hold. `Linked`: a cell that was linked points to the next one until a
  result is stored there; sharing does no harm, because sharers link the same
  cells the same way. `Closed`: in a ring nobody else stores to, a linked cell
  points into the ring, because what is stored there is the pointer of a walker
  that never left it. `StridesAreTimed` and `ChasersStay` follow, for any number
  of walkers, cells and hops. `ProgramsStayInBuffer` is about the formulas of the
  ten programs: for every command line with `Room`, the cells and results of all
  walkers are words the host has allocated. `Room` is what the hosts do not test:
  that the rings which start side by side fit between two cells of the first
  one, and, for the launcher-based program and the in-flight test in local
  memory, what their oddities need (section 3). It is close to exact: of 8640
  small command lines TLC finds none with `Room` outside of its buffer, and few
  without `Room` inside, 40 of `WorkGroupBased` and 24 of `CUDAInFlight`. `LaunchesWellFormed` shows that the launches are what `LaunchAssumption`
  asks for, so the theorem is not about an empty set.
- **`RaplTopology_proofs`.** `TopologyInv` adds to `TypeOK` and `InBounds` what is
  known of the mask while an id is read, and that `prev_context` holds the
  affinity of the start from the first answer on, also where a later one fails
  and it is stale (`Pinned`); that a recorded id has the
  core of a processor that exists, and is the processor's own if it could be
  bound (`Entries`); that slots hold what the ids say (`Slots`), and no slot that
  was filled is overwritten (`Filled`), for two processors never have the same
  one. `NoOverrun`, `BoundSlotsRight`, `MapsComplete` and `AffinityRestored`
  follow, for any machine, whatever the stack holds and whichever calls fail.

- **`StructTable_proofs`.** A walk is computed by a recursive function, `Reads`;
  `VisitsLeast` and `VisitsClosed` show, by a least counterexample and by
  counting cells, that what it has read at its bound is the least set with the
  start of the walk and whatever follows it. From then on only that is used.
  `IInv` says that every pointer leads to a greater name (`Grows`), which makes
  all lists finite and sorted however merges tie them together, that lists
  start at members that exist (`HeadsThere`), that there is a cell for every name
  to come (`Fits`), that finished
  descriptors share no member with the lists being changed (`Apart`), that
  the copies in the entries are still true (`CopiesHold`), and where the names
  are that were declared one by one (`OneByOne`). `AddOutcome` says what `AddToStructDescriptor`
  makes of a list, for any two lists with growing pointers. The theorems are all
  the safety properties of the run: `StructTypes`, `StructListsSorted`,
  `StructLookupsAgree`, `StructNoneLost`, `StructFirstCounts`.
- **`OpGraph_proofs`.** No invariant of a run is inductive here, because a rule
  consumes lists that the one before it has left on the parser's stack.
  `GraphInv` therefore speaks of every list in every element of the stack:
  `GoodStack`, each is linked from its head to its tail, with each operation but
  the first issued after the one before it, and no two have an operation in
  common; `Accounted`, they and the operations freed or left out are all there
  are; `Fresh`, nothing points from operations still to come; `Shaped` and
  `Ordered`, which lists the elements of a sort have and what they lie on, which
  is what lets a rule find what the grammar promises it; `EntriesOpen` and
  `IdsLive`, that the entries and declarators read so far are there. A walk is the
  least closed set (`VisitedClosed`, `VisitedLeast`), so that what it visits is
  found by exhibiting a closed set, without induction. `JoinTie` says what becomes
  of two lists that are joined, `AddListGood` and `AddStmtsMakes` carry it to
  `AddToOPList` and `AddToSTMTList`, and `RewriteInv` says once what a rule may
  do to the stack, so that the lemma of a rule only shows that it does no more.
  The theorems are all properties of the run, for any names and bounds:
  `GraphTypes`, `GraphListsAreChains`, `GraphHeldOnce`, `GraphLocalsLive`.

Only model-checked: liveness (`CallsReturn`, `MergeReturns`, `Terminates`), which
TLAPS cannot prove under fairness.


## 5. Plan

1. `OpGraph` for several names, composed with `SymbolTable` in place of the
   abstract scopes, and members of structs. A property of the dependences
   themselves: which writes a read is ordered after.
2. **`LaunchOrder`**, both kernels: which orders the counter can show.
3. The vector and the transposing matrix kernels against `MatMul`, and the CUDA
   kernels with tiles in registers.
4. The NVML and CodeXL samplers, the PAPI wrapper, the power limits with two
   writers.

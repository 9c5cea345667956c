---------------------------- MODULE PowerGadget ----------------------------
(***************************************************************************)
(* The life of a power_gadget process (IntelPowerGadget): main, init_rapl  *)
(* and terminate_rapl, which own the tables the library keeps on the heap, *)
(* and the handler of SIGINT, which calls terminate_rapl wherever main is  *)
(* and exits.  Main never goes on after the handler has started.           *)
(*                                                                         *)
(* A signal arrives between two statements.  What it interrupts within     *)
(* malloc or free is the C library's business and is not modelled.         *)
(***************************************************************************)
EXTENDS Integers

CONSTANT MaxNodes \* bound: the number of packages

ASSUME GadgetAssumption == MaxNodes \in Nat \ {0}

\* The pointers to the heap, by the names of the variables.
Table  == <<"msr_support_table">>
OsMap  == <<"os_map">>
PkgMap == <<"pkg_map">>
Pkg(n) == <<"pkg_map", n>>

Pointer == {Table, OsMap, PkgMap} \cup {Pkg(n) : n \in 0 .. MaxNodes - 1}

\* Who executes terminate_rapl.
Context == {"main", "handler"}

VARIABLES
  pc,          \* the statement of main that is next
  active,      \* the context that runs
  at,          \* at[c]: the statement of terminate_rapl that is next in context c
  i,           \* i[c]: its loop counter
  next,        \* the loop counter of build_topology
  numNodes,    \* num_nodes
  block,       \* block[p]: "null", "garbage", "live" or "freed"
  unitsErr,    \* what read_rapl_units returned
  initErr,     \* what init_rapl returned
  status,      \* "running", "exited", "aborted"
  interrupted, \* ghost: where main was when the signal arrived
  invalid      \* ghost: the pointers freed although not live

vars == <<pc, active, at, i, next, numNodes, block, unitsErr, initErr, status,
          interrupted, invalid>>

Init ==
  /\ pc = "main" /\ active = "main"
  /\ at = [c \in Context |-> "idle"]
  /\ i = [c \in Context |-> 0]
  /\ next = 0 /\ numNodes = 0
  /\ block = [p \in Pointer |-> IF p \in {Table, OsMap, PkgMap} THEN "null" ELSE "garbage"]
  /\ unitsErr = 0 /\ initErr = 0
  /\ status = "running" /\ interrupted = <<"nowhere", "idle">> /\ invalid = {}

-----------------------------------------------------------------------------
(* main and init_rapl.                                                     *)

\* Main is at statement s, and nothing but what the action names changes.
At(s) ==
  /\ status = "running" /\ active = "main" /\ pc = s
  /\ UNCHANGED <<active, i, status, interrupted, invalid>>

\* Main calls terminate_rapl and then returns.
CallTerminate ==
  /\ pc' = "terminate"
  /\ at' = [at EXCEPT !["main"] = "os_map"]

Goto(s) == pc' = s /\ UNCHANGED at

Allocate(p) == block' = [block EXCEPT ![p] = "live"]

\* The handler is installed; without arguments the process ends.
Main ==
  /\ At("main")
  /\ CallTerminate \/ Goto("calloc")
  /\ UNCHANGED <<next, numNodes, block, unitsErr, initErr>>

Calloc ==
  /\ At("calloc")
  /\ Allocate(Table)
  /\ Goto("switch")
  /\ UNCHANGED <<next, numNodes, unitsErr, initErr>>

\* A processor that is not known.
Unsupported ==
  /\ At("switch")
  /\ initErr' = -1
  /\ Goto("initialized")
  /\ UNCHANGED <<next, numNodes, block, unitsErr>>

\* read_msr fails with 1 if /dev/cpu/0/msr cannot be read.
ReadUnits ==
  /\ At("switch")
  /\ unitsErr' \in {0, 1}
  /\ Goto("os_map")
  /\ UNCHANGED <<next, numNodes, block, initErr>>

AllocateOsMap ==
  /\ At("os_map")
  /\ Allocate(OsMap)
  /\ Goto("topology")
  /\ UNCHANGED <<next, numNodes, unitsErr, initErr>>

\* The processors are visited, and num_nodes is set.
CountNodes ==
  /\ At("topology")
  /\ numNodes' \in 1 .. MaxNodes
  /\ Goto("pkg_map")
  /\ UNCHANGED <<next, block, unitsErr, initErr>>

AllocatePkgMap ==
  /\ At("pkg_map")
  /\ Allocate(PkgMap)
  /\ Goto("pkgs")
  /\ UNCHANGED <<next, numNodes, unitsErr, initErr>>

\* Mutant of AllocatePkg: the loop ends one package early.
MutAllocatePkg ==
  /\ At("pkgs")
  /\ Allocate(Pkg(next))
  /\ next' = next + 1
  /\ Goto(IF next + 2 < numNodes THEN "pkgs" ELSE "fill")
  /\ UNCHANGED <<numNodes, unitsErr, initErr>>

AllocatePkg ==
  /\ At("pkgs")
  /\ Allocate(Pkg(next))
  /\ next' = next + 1
  /\ Goto(IF next + 1 < numNodes THEN "pkgs" ELSE "fill")
  /\ UNCHANGED <<numNodes, unitsErr, initErr>>

\* build_topology fills the maps and returns the error of the last call that
\* binds the process to a processor, -1; init_rapl returns the sum of the two.
Fill ==
  /\ At("fill")
  /\ \E err \in {0, -1} : initErr' = unitsErr + err
  /\ Goto("initialized")
  /\ UNCHANGED <<next, numNodes, block, unitsErr>>

\* Mutant of Initialized: main returns at once if init_rapl fails.
MutInitialized ==
  /\ At("initialized")
  /\ IF initErr # 0
     THEN pc' = "terminate" /\ at' = [at EXCEPT !["main"] = "end"]
     ELSE Goto("cmdline")
  /\ UNCHANGED <<next, numNodes, block, unitsErr, initErr>>

Initialized ==
  /\ At("initialized")
  /\ IF initErr # 0 THEN CallTerminate ELSE Goto("cmdline")
  /\ UNCHANGED <<next, numNodes, block, unitsErr, initErr>>

\* Options that are refused end the process.
Cmdline ==
  /\ At("cmdline")
  /\ CallTerminate \/ Goto("sample")
  /\ UNCHANGED <<next, numNodes, block, unitsErr, initErr>>

\* do_print_energy_info returns (module RaplSampler).
Sampled ==
  /\ At("sample")
  /\ CallTerminate
  /\ UNCHANGED <<next, numNodes, block, unitsErr, initErr>>

-----------------------------------------------------------------------------
(* SIGINT and terminate_rapl.                                              *)

\* SIGINT is blocked while its handler runs.
Signal ==
  /\ status = "running" /\ active = "main" /\ pc # "main"
  /\ active' = "handler"
  /\ at' = [at EXCEPT !["handler"] = "os_map"]
  /\ interrupted' = <<pc, at["main"]>>
  /\ UNCHANGED <<pc, i, next, numNodes, block, unitsErr, initErr, status, invalid>>

\* The context that runs is at statement s of terminate_rapl.
InTerminate(s) ==
  /\ status = "running" /\ at[active] = s
  /\ UNCHANGED <<pc, active, next, numNodes, unitsErr, initErr, interrupted>>

\* free(p): freeing what is not live is undefined; the library may abort.
Free(p) ==
  IF block[p] = "live"
  THEN block' = [block EXCEPT ![p] = "freed"] /\ UNCHANGED <<status, invalid>>
  ELSE /\ invalid' = invalid \cup {p}
       /\ status' \in {"running", "aborted"}
       /\ UNCHANGED block

Keep == UNCHANGED <<block, status, invalid>>

Continue(s) == at' = [at EXCEPT ![active] = s]

FreeOsMap ==
  /\ InTerminate("os_map")
  /\ IF block[OsMap] # "null" THEN Free(OsMap) ELSE Keep
  /\ Continue(IF block[PkgMap] = "null" THEN "table" ELSE "pkgs")
  /\ i' = [i EXCEPT ![active] = 0]

FreePkg ==
  /\ InTerminate("pkgs")
  /\ Free(Pkg(i[active]))
  /\ i' = [i EXCEPT ![active] = @ + 1]
  /\ Continue(IF i[active] + 1 < numNodes THEN "pkgs" ELSE "pkg_map")

FreePkgMap ==
  /\ InTerminate("pkg_map")
  /\ Free(PkgMap)
  /\ Continue("table")
  /\ UNCHANGED i

FreeTable ==
  /\ InTerminate("table")
  /\ IF block[Table] # "null" THEN Free(Table) ELSE Keep
  /\ Continue("end")
  /\ UNCHANGED i

\* Mutant of Exit: the handler returns, and main goes on.
MutExit ==
  /\ status = "running" /\ at[active] = "end"
  /\ IF active = "handler"
     THEN active' = "main" /\ at' = [at EXCEPT !["handler"] = "idle"] /\ UNCHANGED status
     ELSE status' = "exited" /\ UNCHANGED <<active, at>>
  /\ UNCHANGED <<pc, i, next, numNodes, block, unitsErr, initErr, interrupted, invalid>>

\* exit(0) in the handler, a return in main.
Exit ==
  /\ status = "running" /\ at[active] = "end"
  /\ status' = "exited"
  /\ UNCHANGED <<pc, active, at, i, next, numNodes, block, unitsErr, initErr,
                 interrupted, invalid>>

Ended == status # "running" /\ UNCHANGED vars

Next ==
  \/ Main \/ Calloc \/ Unsupported \/ ReadUnits \/ AllocateOsMap \/ CountNodes
  \/ AllocatePkgMap \/ AllocatePkg \/ Fill \/ Initialized \/ Cmdline \/ Sampled
  \/ Signal \/ FreeOsMap \/ FreePkg \/ FreePkgMap \/ FreeTable \/ Exit \/ Ended

Spec == Init /\ [][Next]_vars

-----------------------------------------------------------------------------
TypeOK ==
  /\ pc \in {"main", "calloc", "switch", "os_map", "topology", "pkg_map", "pkgs", "fill",
             "initialized", "cmdline", "sample", "terminate"}
  /\ active \in Context
  /\ at \in [Context -> {"idle", "os_map", "pkgs", "pkg_map", "table", "end"}]
  /\ i \in [Context -> 0 .. MaxNodes]
  /\ \A c \in Context : at[c] = "pkgs" => i[c] < numNodes
  /\ next \in 0 .. MaxNodes /\ numNodes \in 0 .. MaxNodes
  /\ pc = "pkgs" => next < numNodes
  /\ block \in [Pointer -> {"null", "garbage", "live", "freed"}]
  /\ unitsErr \in {0, 1} /\ initErr \in {-1, 0, 1}
  /\ status \in {"running", "exited", "aborted"}
  /\ invalid \subseteq Pointer

\* The tables that do_print_energy_info reads.
InUse == {Table, OsMap, PkgMap} \cup {Pkg(n) : n \in 0 .. numNodes - 1}

\* While main samples, all tables are there: the handler frees them and does
\* not return (PowerUsage.c:283-287).
NoUseAfterFree ==
  (status = "running" /\ active = "main" /\ pc = "sample")
    => \A p \in InUse : block[p] = "live"

\* On every way out, also of an initialization that failed or was interrupted
\* half way, everything allocated has been freed (PowerUsage.c:298-320).
NoLeak == status = "exited" => \A p \in Pointer : block[p] # "live"

\* The statements of main at which a signal finds the tables neither all
\* valid nor all null: the loop that allocates pkg_map[i], and what follows
\* the first free.
Vulnerable ==
  {<<"pkgs", "idle">>} \cup ({"terminate"} \X {"pkgs", "pkg_map", "table", "end"})

\* Nothing else than a signal at these statements makes terminate_rapl free a
\* pointer that is not valid.
FreesAreValid == invalid # {} => interrupted \in Vulnerable
=============================================================================

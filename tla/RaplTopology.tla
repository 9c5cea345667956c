---------------------------- MODULE RaplTopology ----------------------------
(***************************************************************************)
(* build_topology of the RAPL library (rapl.c, lines 101 to 214): which    *)
(* processors of the operating system belong to which package, a node of   *)
(* the library, and through which one a node's registers are read.         *)
(*                                                                         *)
(* The process binds itself to every configured processor in turn, asks    *)
(* the one it runs on for its APIC id, in two instructions, and goes back  *)
(* to where it was.  Binding fails for processors that are offline or not  *)
(* in the process' cpuset; nobody looks at the error, and it runs on,      *)
(* wherever the scheduler puts it.  Asking where it was may fail, too:     *)
(* then prev_context keeps what it held, at first whatever the stack       *)
(* holds, and the way back leads there.  The ids are sorted into pkg_map,  *)
(* an array for each package with a slot for each thread, computed as if   *)
(* the cores of a package were numbered without gaps.                      *)
(*                                                                         *)
(* Processors are not taken off line while this goes on.                   *)
(***************************************************************************)
EXTENDS Integers

CONSTANTS
  Machines, \* the machines that are looked at
  Unset     \* what malloc leaves

(* A machine m has                                                         *)
(*   count        os_cpu_count: the configured processors 0 .. count - 1   *)
(*   apic[c]      the APIC id of a processor: package, core and thread     *)
(*   coreThreads  threads of a core, and pkgThreads, of a package          *)
(*   allowed      the processors the process may be bound to               *)
(*   affinity     those it is bound to when it is started.                 *)
ASSUME MachineAssumption ==
  \A m \in Machines :
    /\ m.count \in Nat \ {0}
    /\ m.apic \in [0 .. m.count - 1 -> [pkg : Nat, core : Nat, smt : Nat]]
    /\ \A c, d \in 0 .. m.count - 1 : m.apic[c] = m.apic[d] => c = d
    /\ m.coreThreads \in Nat \ {0}
    /\ m.pkgThreads \in Nat \ {0}
    /\ \A c \in 0 .. m.count - 1 : m.apic[c].smt < m.coreThreads
    /\ m.allowed \subseteq 0 .. m.count - 1
    /\ m.affinity \subseteq m.allowed
    /\ m.affinity # {}
    /\ Unset \notin 0 .. m.count - 1

VARIABLES
  machine,
  pc,       \* "bind", "level0", "level1", "restore", "fill" or "done"
  i,
  mask,     \* the affinity of the process
  prev,     \* prev_context
  saved,    \* sched_getaffinity answered for the first processor
  err,
  smt,      \* info_l0
  os_map,
  max_pkg,
  pkg_map,  \* pkg_map[<<p, t>>]: the os_id of a slot
  overrun   \* something behind the end of pkg_map[p] was overwritten

vars == <<machine, pc, i, mask, prev, saved, err, smt, os_map, max_pkg, pkg_map, overrun>>

Cpu == 0 .. machine.count - 1
apic == machine.apic
num_pkg_cores == machine.pkgThreads \div machine.coreThreads

Init ==
  /\ machine \in Machines
  /\ pc = "bind" /\ i = 0
  /\ mask = machine.affinity
  /\ prev \in SUBSET Cpu \* not initialized
  /\ saved = FALSE
  /\ err = 0
  /\ smt = 0
  /\ os_map = [c \in Cpu |-> Unset]
  /\ max_pkg = 0
  /\ pkg_map = [s \in {} |-> Unset]
  /\ overrun = FALSE

-----------------------------------------------------------------------------
\* sched_getaffinity of affinity m, which may fail: prev_context then keeps
\* what it held.
GetAffinity(m, answers) ==
  /\ prev' = IF answers THEN m ELSE prev
  /\ saved' = IF i = 0 THEN answers ELSE saved

\* sched_setaffinity: the kernel leaves out of cs what the process may not use,
\* and refuses if nothing is left.  The error counts an earlier failure, too.
SetAffinity(cs, answered) ==
  LET usable == cs \cap machine.allowed
  IN  /\ mask' = IF usable # {} THEN usable ELSE mask
      /\ err' = IF usable # {} /\ answered THEN 0 ELSE -1

\* Mutant of Bind: the old affinity is asked for after the new one is set.
MutBind ==
  /\ pc = "bind" /\ i < machine.count
  /\ \E answers \in BOOLEAN :
       SetAffinity({i}, answers) /\ GetAffinity(mask', answers)
  /\ pc' = "level0"
  /\ UNCHANGED <<machine, i, smt, os_map, max_pkg, pkg_map, overrun>>

\* err = bind_cpu(i, &prev_context): the affinity is set whether or not the
\* old one is known.
Bind ==
  /\ pc = "bind" /\ i < machine.count
  /\ \E answers \in BOOLEAN :
       GetAffinity(mask, answers) /\ SetAffinity({i}, answers)
  /\ pc' = "level0"
  /\ UNCHANGED <<machine, i, smt, os_map, max_pkg, pkg_map, overrun>>

\* The level of threads.  The scheduler may move the process to another
\* processor of its mask before and after.
Level0 ==
  /\ pc = "level0"
  /\ \E c \in mask : smt' = apic[c].smt
  /\ pc' = "level1"
  /\ UNCHANGED <<machine, i, mask, prev, saved, err, os_map, max_pkg, pkg_map, overrun>>

\* Mutant of Level1: the affinity has already been restored.
MutLevel1 ==
  /\ pc = "level1"
  /\ \E c \in prev :
       /\ os_map' = [os_map EXCEPT ![i] = [pkg |-> apic[c].pkg, core |-> apic[c].core, smt |-> smt]]
       /\ max_pkg' = IF apic[c].pkg > max_pkg THEN apic[c].pkg ELSE max_pkg
  /\ pc' = "restore"
  /\ UNCHANGED <<machine, i, mask, prev, saved, err, smt, pkg_map, overrun>>

\* The level of cores, and parse_apic_id.
Level1 ==
  /\ pc = "level1"
  /\ \E c \in mask :
       /\ os_map' = [os_map EXCEPT ![i] = [pkg |-> apic[c].pkg, core |-> apic[c].core, smt |-> smt]]
       /\ max_pkg' = IF apic[c].pkg > max_pkg THEN apic[c].pkg ELSE max_pkg
  /\ pc' = "restore"
  /\ UNCHANGED <<machine, i, mask, prev, saved, err, smt, pkg_map, overrun>>

\* err = bind_context(&prev_context, NULL); the error of bind_cpu is gone.
Restore ==
  /\ pc = "restore"
  /\ SetAffinity(prev, TRUE)
  /\ i' = i + 1
  /\ pc' = "bind"
  /\ UNCHANGED <<machine, prev, saved, smt, os_map, max_pkg, pkg_map, overrun>>

\* Mutant of Allocate: num_nodes is the greatest number of a package.
MutAllocate ==
  /\ pc = "bind" /\ i = machine.count
  /\ pkg_map' = [s \in (0 .. max_pkg - 1) \X (0 .. machine.pkgThreads - 1) |-> Unset]
  /\ i' = 0
  /\ pc' = "fill"
  /\ UNCHANGED <<machine, mask, prev, saved, err, smt, os_map, max_pkg, overrun>>

\* num_nodes = max_pkg + 1;
Allocate ==
  /\ pc = "bind" /\ i = machine.count
  /\ pkg_map' = [s \in (0 .. max_pkg) \X (0 .. machine.pkgThreads - 1) |-> Unset]
  /\ i' = 0
  /\ pc' = "fill"
  /\ UNCHANGED <<machine, mask, prev, saved, err, smt, os_map, max_pkg, overrun>>

\* Mutant of Slot: threads of a core aren't told apart.
MutSlot(id) == <<id.pkg, id.core>>

\* p and t
Slot(id) == <<id.pkg, id.smt * num_pkg_cores + id.core>>

\* pkg_map[p][t] = os_map[i];
Fill ==
  /\ pc = "fill" /\ i < machine.count
  /\ IF Slot(os_map[i]) \in DOMAIN pkg_map
     THEN pkg_map' = [pkg_map EXCEPT ![Slot(os_map[i])] = i] /\ UNCHANGED overrun
     ELSE overrun' = TRUE /\ UNCHANGED pkg_map
  /\ i' = i + 1
  /\ UNCHANGED <<machine, pc, mask, prev, saved, err, smt, os_map, max_pkg>>

Return ==
  /\ pc = "fill" /\ i = machine.count
  /\ pc' = "done"
  /\ UNCHANGED <<machine, i, mask, prev, saved, err, smt, os_map, max_pkg, pkg_map, overrun>>

Done == pc = "done" /\ UNCHANGED vars

Next == Bind \/ Level0 \/ Level1 \/ Restore \/ Allocate \/ Fill \/ Return \/ Done

Spec == Init /\ [][Next]_vars

-----------------------------------------------------------------------------
TypeOK ==
  /\ machine \in Machines
  /\ pc \in {"bind", "level0", "level1", "restore", "fill", "done"}
  /\ i \in 0 .. machine.count
  /\ pc \in {"level0", "level1", "restore"} => i < machine.count
  /\ mask \subseteq machine.allowed /\ mask # {}
  /\ prev \subseteq Cpu
  /\ saved \in BOOLEAN
  /\ err \in {0, -1}
  /\ smt \in Nat
  /\ os_map \in [Cpu -> [pkg : Nat, core : Nat, smt : Nat] \cup {Unset}]
  /\ max_pkg \in Nat
  /\ pkg_map \in [DOMAIN pkg_map -> Cpu \cup {Unset}]
  /\ overrun \in BOOLEAN

\* The cores of the packages are numbered without gaps: the division by
\* which the slots are computed (line 203) is right.
Contiguous == \A c \in Cpu : apic[c].core < num_pkg_cores

\* On such a machine nothing behind pkg_map[p] is written, also when
\* processors could not be bound and the id recorded for them is put together
\* from those of two others.
InBounds == Contiguous => ~overrun

\* A slot that names a processor the process could be bound to names the right
\* one, whatever went wrong with others: line 460 hands it out as a processor
\* of the node.
SlotsRight ==
  \A s \in DOMAIN pkg_map :
    pkg_map[s] \in machine.allowed => s = Slot(apic[pkg_map[s]])

\* If all processors could be bound and cores are numbered without gaps, every
\* processor has its slot: no slot is taken by two, and the processor a node
\* is read through (line 460) is thread 0 of core 0 of that package.
MapsRight ==
  pc = "done" /\ machine.allowed = Cpu /\ Contiguous =>
    \A c \in Cpu : Slot(apic[c]) \in DOMAIN pkg_map /\ pkg_map[Slot(apic[c])] = c

\* If sched_getaffinity answers for the first processor, the process is bound
\* to what it was bound to at the start between any two processors and in the
\* end, whichever other calls fail in bind_context: what prev_context still
\* holds is the right affinity.  If it fails for the first, line 185 binds the
\* process to what the stack held.
AffinityKept == saved /\ pc \in {"bind", "fill", "done"} => mask = machine.affinity
=============================================================================

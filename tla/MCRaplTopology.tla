--------------------------- MODULE MCRaplTopology ---------------------------
(* Four machines of up to six processors, with every set of processors     *)
(* that may be used and every affinity the process may be started with.    *)
EXTENDS RaplTopology

Id(p, c, t) == [pkg |-> p, core |-> c, smt |-> t]

\* One package of two cores of two threads, numbered thread by thread.
Desktop == [count |-> 4, coreThreads |-> 2, pkgThreads |-> 4,
            apic |-> [c \in 0 .. 3 |-> Id(0, c % 2, c \div 2)]]

\* Two packages of a core of two threads.
Server == [count |-> 4, coreThreads |-> 2, pkgThreads |-> 2,
           apic |-> [c \in 0 .. 3 |-> Id(c % 2, 0, c \div 2)]]

\* Two packages of three cores without a second thread.
NoThreads == [count |-> 6, coreThreads |-> 1, pkgThreads |-> 3,
              apic |-> [c \in 0 .. 5 |-> Id(c \div 3, c % 3, 0)]]

\* A package of two cores that are numbered 0 and 2.
WithGap == [count |-> 4, coreThreads |-> 2, pkgThreads |-> 4,
            apic |-> [c \in 0 .. 3 |-> Id(0, 2 * (c % 2), c \div 2)]]

Started(m, al, af) ==
  [count |-> m.count, apic |-> m.apic, coreThreads |-> m.coreThreads,
   pkgThreads |-> m.pkgThreads, allowed |-> al, affinity |-> af]

MCMachines ==
  UNION {UNION {{Started(m, al, af) : af \in SUBSET al \ {{}}} :
                  al \in SUBSET (0 .. m.count - 1) \ {{}}} :
           m \in {Desktop, Server, WithGap}}
  \cup {Started(NoThreads, al, al) : al \in SUBSET (0 .. 5) \ {{}}}
=============================================================================

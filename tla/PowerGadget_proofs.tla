------------------------- MODULE PowerGadget_proofs -------------------------
(***************************************************************************)
(* Theorems about the power gadget: the life of a process (PowerGadget),   *)
(* for any number of packages, and its sampling loop (RaplSampler), for    *)
(* every number of meters, width of the counters, delay and duration.      *)
(*                                                                         *)
(* The inductive invariant of the first has three parts: what main has     *)
(* allocated when it is at a statement (Allocated), what terminate_rapl    *)
(* has freed when it is at one of its own, whoever called it (Freed), and  *)
(* that what is left to free is valid unless the signal came at a bad      *)
(* moment (Valid).  The two parts of the second's do not depend on each    *)
(* other: Tracked relates a counter to the last reading kept of it, Timing *)
(* the clock of the code to the time that has passed since each reading.   *)
(***************************************************************************)
EXTENDS PowerGadget, RaplSampler, TLAPS

-----------------------------------------------------------------------------
(* The life of a process.                                                  *)

Nodes == 0 .. numNodes - 1

NothingBuilt == block[OsMap] = "null" /\ block[PkgMap] = "null"

AllBuilt ==
  /\ block[Table] = "live" /\ block[OsMap] = "live" /\ block[PkgMap] = "live"
  /\ \A n \in Nodes : block[Pkg(n)] = "live"
  /\ numNodes > 0

\* Main and the handler each are where the other allows.
Contexts ==
  /\ active = "main" => at["handler"] = "idle"
  /\ active = "handler" => at["handler"] # "idle"
  /\ pc = "terminate" <=> at["main"] # "idle"
  /\ active = "main" => interrupted = <<"nowhere", "idle">>
  /\ at["main"] = "idle" /\ active = "main" => status = "running"

Allocated ==
  active = "main" =>
    /\ pc \in {"main", "calloc"} => block[Table] = "null" /\ NothingBuilt
    /\ pc \in {"switch", "os_map"} => block[Table] = "live" /\ NothingBuilt
    /\ pc \in {"topology", "pkg_map"} =>
         block[Table] = "live" /\ block[OsMap] = "live" /\ block[PkgMap] = "null"
    /\ pc \in {"pkg_map", "pkgs"} => numNodes > 0
    /\ pc \in {"main", "calloc", "switch", "os_map", "topology", "pkg_map"} => next = 0
    /\ pc = "pkgs" =>
         /\ block[Table] = "live" /\ block[OsMap] = "live" /\ block[PkgMap] = "live"
         /\ \A n \in 0 .. next - 1 : block[Pkg(n)] = "live"
    /\ pc \in {"fill", "cmdline", "sample"} => AllBuilt
    /\ pc = "initialized" =>
         AllBuilt \/ (block[Table] = "live" /\ NothingBuilt /\ initErr = -1)

\* Entries of pkg_map are live only where and when there is a pkg_map.
Entries ==
  \A n \in 0 .. MaxNodes - 1 :
    block[Pkg(n)] = "live" => n < numNodes /\ block[PkgMap] # "null"

Freed ==
  LET s == at[active]
  IN /\ s \notin {"idle", "os_map"} => block[OsMap] # "live"
     /\ s = "pkgs" => \A n \in 0 .. i[active] - 1 : block[Pkg(n)] # "live"
     /\ s \in {"pkgs", "pkg_map"} => block[PkgMap] # "null"
     /\ s \in {"pkg_map", "table", "end"} => \A n \in Nodes : block[Pkg(n)] # "live"
     /\ s \in {"table", "end"} => block[PkgMap] # "live"
     /\ s = "end" => block[Table] # "live"
     /\ status = "exited" => s = "end"

Valid ==
  interrupted \notin Vulnerable =>
    LET s == at[active]
    IN /\ invalid = {}
       /\ s \in {"os_map", "pkgs", "pkg_map", "table"} => block[Table] \in {"null", "live"}
       /\ s = "os_map" =>
            /\ block[OsMap] \in {"null", "live"}
            /\ block[PkgMap] = "null"
                 \/ (block[PkgMap] = "live" /\ \A n \in Nodes : block[Pkg(n)] = "live")
       /\ s = "pkgs" => \A n \in i[active] .. numNodes - 1 : block[Pkg(n)] = "live"
       /\ s \in {"pkgs", "pkg_map"} => block[PkgMap] = "live"

NumNodesSet == block[PkgMap] # "null" => numNodes > 0

GadgetInv ==
  TypeOK /\ Contexts /\ Allocated /\ Entries /\ NumNodesSet /\ Freed /\ Valid

-----------------------------------------------------------------------------
\* The pointers are different, so that freeing one leaves the others alone.
LEMMA Pointers ==
  /\ Table \in Pointer /\ OsMap \in Pointer /\ PkgMap \in Pointer
  /\ \A n \in 0 .. MaxNodes - 1 : Pkg(n) \in Pointer
  /\ Table # OsMap /\ Table # PkgMap /\ OsMap # PkgMap
  /\ \A n \in Int : Pkg(n) # Table /\ Pkg(n) # OsMap /\ Pkg(n) # PkgMap
  /\ \A k, n \in Int : Pkg(k) = Pkg(n) => k = n
BY DEF Table, OsMap, PkgMap, Pkg, Pointer

\* No pointer is set when the process starts.
LEMMA InitEstablishes == Init => GadgetInv
<1> SUFFICES ASSUME Init PROVE GadgetInv
  OBVIOUS
<1>1. \A n \in 0 .. MaxNodes - 1 : block[Pkg(n)] = "garbage"
  BY Pointers DEF Init
<1>2. block[Table] = "null" /\ NothingBuilt
  BY Pointers DEF Init, NothingBuilt
<1>3. TypeOK
  BY GadgetAssumption DEF Init, TypeOK, Context
<1>4. Contexts /\ Allocated /\ Entries /\ NumNodesSet
  BY <1>1, <1>2 DEF Init, Context, Contexts, Allocated, Entries, NumNodesSet, NothingBuilt
<1>5. Freed /\ Valid
  BY <1>1, <1>2 DEF Init, Context, Freed, Valid
<1>6. QED
  BY <1>3, <1>4, <1>5 DEF GadgetInv

\* Without arguments there is nothing to free.
LEMMA MainPreserves == GadgetInv /\ Main => GadgetInv'
<1> SUFFICES ASSUME GadgetInv, Main PROVE GadgetInv'
  OBVIOUS
<1> USE GadgetAssumption, Pointers
<1>0. TypeOK /\ Contexts /\ Allocated /\ Entries /\ NumNodesSet /\ Freed /\ Valid
  BY DEF GadgetInv
<1>1. TypeOK'
  BY <1>0
  DEF Main, At, Goto, CallTerminate, TypeOK, Context, Contexts, Allocated, AllBuilt,
      NothingBuilt, Nodes
<1>2. Contexts'
  BY <1>0 DEF Main, At, Goto, CallTerminate, Contexts, Context, TypeOK
<1>3. Allocated'
  BY <1>0
  DEF Main, At, Goto, CallTerminate, Allocated, AllBuilt, NothingBuilt, Nodes, TypeOK,
      Context, Contexts
<1>4. Entries'
  BY <1>0
  DEF Main, At, Goto, CallTerminate, Entries, Nodes, TypeOK, Context, Contexts, Allocated,
      AllBuilt, NothingBuilt
<1>5. NumNodesSet'
  BY <1>0
  DEF Main, At, Goto, CallTerminate, NumNodesSet, TypeOK, Context, Contexts, Allocated,
      AllBuilt, NothingBuilt, Nodes
<1>6. Freed'
  BY <1>0 DEF Main, At, Goto, CallTerminate, Freed, Nodes, TypeOK, Context, Contexts
<1>7. Valid'
  BY <1>0
  DEF Main, At, Goto, CallTerminate, Valid, Nodes, TypeOK, Context, Contexts, Allocated,
      AllBuilt, NothingBuilt
<1>8. QED
  BY <1>1, <1>2, <1>3, <1>4, <1>5, <1>6, <1>7 DEF GadgetInv

\* The support table comes first.
LEMMA CallocPreserves == GadgetInv /\ Calloc => GadgetInv'
<1> SUFFICES ASSUME GadgetInv, Calloc PROVE GadgetInv'
  OBVIOUS
<1> USE GadgetAssumption, Pointers
<1>0. TypeOK /\ Contexts /\ Allocated /\ Entries /\ NumNodesSet /\ Freed /\ Valid
  BY DEF GadgetInv
<1>1. TypeOK'
  BY <1>0
  DEF Calloc, At, Goto, Allocate, TypeOK, Context, Contexts, Allocated, AllBuilt,
      NothingBuilt, Nodes
<1>2. Contexts'
  BY <1>0 DEF Calloc, At, Goto, Allocate, Contexts, Context, TypeOK
<1>3. Allocated'
  BY <1>0
  DEF Calloc, At, Goto, Allocate, Allocated, AllBuilt, NothingBuilt, Nodes, TypeOK,
      Context, Contexts
<1>4. Entries'
  BY <1>0
  DEF Calloc, At, Goto, Allocate, Entries, Nodes, TypeOK, Context, Contexts, Allocated,
      AllBuilt, NothingBuilt
<1>5. NumNodesSet'
  BY <1>0
  DEF Calloc, At, Goto, Allocate, NumNodesSet, TypeOK, Context, Contexts, Allocated,
      AllBuilt, NothingBuilt, Nodes
<1>6. Freed'
  BY <1>0 DEF Calloc, At, Goto, Allocate, Freed, Nodes, TypeOK, Context, Contexts
<1>7. Valid'
  BY <1>0
  DEF Calloc, At, Goto, Allocate, Valid, Nodes, TypeOK, Context, Contexts, Allocated,
      AllBuilt, NothingBuilt
<1>8. QED
  BY <1>1, <1>2, <1>3, <1>4, <1>5, <1>6, <1>7 DEF GadgetInv

\* An unknown processor leaves only the support table.
LEMMA UnsupportedPreserves == GadgetInv /\ Unsupported => GadgetInv'
<1> SUFFICES ASSUME GadgetInv, Unsupported PROVE GadgetInv'
  OBVIOUS
<1> USE GadgetAssumption, Pointers
<1>0. TypeOK /\ Contexts /\ Allocated /\ Entries /\ NumNodesSet /\ Freed /\ Valid
  BY DEF GadgetInv
<1>1. TypeOK'
  BY <1>0
  DEF Unsupported, At, Goto, TypeOK, Context, Contexts, Allocated, AllBuilt, NothingBuilt,
      Nodes
<1>2. Contexts'
  BY <1>0 DEF Unsupported, At, Goto, Contexts, Context, TypeOK
<1>3. Allocated'
  BY <1>0
  DEF Unsupported, At, Goto, Allocated, AllBuilt, NothingBuilt, Nodes, TypeOK, Context,
      Contexts
<1>4. Entries'
  BY <1>0
  DEF Unsupported, At, Goto, Entries, Nodes, TypeOK, Context, Contexts, Allocated,
      AllBuilt, NothingBuilt
<1>5. NumNodesSet'
  BY <1>0
  DEF Unsupported, At, Goto, NumNodesSet, TypeOK, Context, Contexts, Allocated, AllBuilt,
      NothingBuilt, Nodes
<1>6. Freed'
  BY <1>0 DEF Unsupported, At, Goto, Freed, Nodes, TypeOK, Context, Contexts
<1>7. Valid'
  BY <1>0
  DEF Unsupported, At, Goto, Valid, Nodes, TypeOK, Context, Contexts, Allocated, AllBuilt,
      NothingBuilt
<1>8. QED
  BY <1>1, <1>2, <1>3, <1>4, <1>5, <1>6, <1>7 DEF GadgetInv

\* A failure to read the units is remembered, and the maps are built all the same.
LEMMA ReadUnitsPreserves == GadgetInv /\ ReadUnits => GadgetInv'
<1> SUFFICES ASSUME GadgetInv, ReadUnits PROVE GadgetInv'
  OBVIOUS
<1> USE GadgetAssumption, Pointers
<1>0. TypeOK /\ Contexts /\ Allocated /\ Entries /\ NumNodesSet /\ Freed /\ Valid
  BY DEF GadgetInv
<1>1. TypeOK'
  BY <1>0
  DEF ReadUnits, At, Goto, TypeOK, Context, Contexts, Allocated, AllBuilt, NothingBuilt,
      Nodes
<1>2. Contexts'
  BY <1>0 DEF ReadUnits, At, Goto, Contexts, Context, TypeOK
<1>3. Allocated'
  BY <1>0
  DEF ReadUnits, At, Goto, Allocated, AllBuilt, NothingBuilt, Nodes, TypeOK, Context,
      Contexts
<1>4. Entries'
  BY <1>0
  DEF ReadUnits, At, Goto, Entries, Nodes, TypeOK, Context, Contexts, Allocated, AllBuilt,
      NothingBuilt
<1>5. NumNodesSet'
  BY <1>0
  DEF ReadUnits, At, Goto, NumNodesSet, TypeOK, Context, Contexts, Allocated, AllBuilt,
      NothingBuilt, Nodes
<1>6. Freed'
  BY <1>0 DEF ReadUnits, At, Goto, Freed, Nodes, TypeOK, Context, Contexts
<1>7. Valid'
  BY <1>0
  DEF ReadUnits, At, Goto, Valid, Nodes, TypeOK, Context, Contexts, Allocated, AllBuilt,
      NothingBuilt
<1>8. QED
  BY <1>1, <1>2, <1>3, <1>4, <1>5, <1>6, <1>7 DEF GadgetInv

\* The map of the processors is the second table.
LEMMA AllocateOsMapPreserves == GadgetInv /\ AllocateOsMap => GadgetInv'
<1> SUFFICES ASSUME GadgetInv, AllocateOsMap PROVE GadgetInv'
  OBVIOUS
<1> USE GadgetAssumption, Pointers
<1>0. TypeOK /\ Contexts /\ Allocated /\ Entries /\ NumNodesSet /\ Freed /\ Valid
  BY DEF GadgetInv
<1>1. TypeOK'
  BY <1>0
  DEF AllocateOsMap, At, Goto, Allocate, TypeOK, Context, Contexts, Allocated, AllBuilt,
      NothingBuilt, Nodes
<1>2. Contexts'
  BY <1>0 DEF AllocateOsMap, At, Goto, Allocate, Contexts, Context, TypeOK
<1>3. Allocated'
  BY <1>0
  DEF AllocateOsMap, At, Goto, Allocate, Allocated, AllBuilt, NothingBuilt, Nodes, TypeOK,
      Context, Contexts
<1>4. Entries'
  BY <1>0
  DEF AllocateOsMap, At, Goto, Allocate, Entries, Nodes, TypeOK, Context, Contexts,
      Allocated, AllBuilt, NothingBuilt
<1>5. NumNodesSet'
  BY <1>0
  DEF AllocateOsMap, At, Goto, Allocate, NumNodesSet, TypeOK, Context, Contexts,
      Allocated, AllBuilt, NothingBuilt, Nodes
<1>6. Freed'
  BY <1>0 DEF AllocateOsMap, At, Goto, Allocate, Freed, Nodes, TypeOK, Context, Contexts
<1>7. Valid'
  BY <1>0
  DEF AllocateOsMap, At, Goto, Allocate, Valid, Nodes, TypeOK, Context, Contexts,
      Allocated, AllBuilt, NothingBuilt
<1>8. QED
  BY <1>1, <1>2, <1>3, <1>4, <1>5, <1>6, <1>7 DEF GadgetInv

\* The number of packages is known before pkg_map exists.
LEMMA CountNodesPreserves == GadgetInv /\ CountNodes => GadgetInv'
<1> SUFFICES ASSUME GadgetInv, CountNodes PROVE GadgetInv'
  OBVIOUS
<1> USE GadgetAssumption, Pointers
<1>0. TypeOK /\ Contexts /\ Allocated /\ Entries /\ NumNodesSet /\ Freed /\ Valid
  BY DEF GadgetInv
<1>1. TypeOK'
  BY <1>0
  DEF CountNodes, At, Goto, TypeOK, Context, Contexts, Allocated, AllBuilt, NothingBuilt,
      Nodes
<1>2. Contexts'
  BY <1>0 DEF CountNodes, At, Goto, Contexts, Context, TypeOK
<1>3. Allocated'
  BY <1>0
  DEF CountNodes, At, Goto, Allocated, AllBuilt, NothingBuilt, Nodes, TypeOK, Context,
      Contexts
<1>4. Entries'
  BY <1>0
  DEF CountNodes, At, Goto, Entries, Nodes, TypeOK, Context, Contexts, Allocated,
      AllBuilt, NothingBuilt
<1>5. NumNodesSet'
  BY <1>0
  DEF CountNodes, At, Goto, NumNodesSet, TypeOK, Context, Contexts, Allocated, AllBuilt,
      NothingBuilt, Nodes
<1>6. Freed'
  BY <1>0 DEF CountNodes, At, Goto, Freed, Nodes, TypeOK, Context, Contexts
<1>7. Valid'
  BY <1>0
  DEF CountNodes, At, Goto, Valid, Nodes, TypeOK, Context, Contexts, Allocated, AllBuilt,
      NothingBuilt
<1>8. QED
  BY <1>1, <1>2, <1>3, <1>4, <1>5, <1>6, <1>7 DEF GadgetInv

\* The entries of a new pkg_map are garbage.
LEMMA AllocatePkgMapPreserves == GadgetInv /\ AllocatePkgMap => GadgetInv'
<1> SUFFICES ASSUME GadgetInv, AllocatePkgMap PROVE GadgetInv'
  OBVIOUS
<1> USE GadgetAssumption, Pointers
<1>0. TypeOK /\ Contexts /\ Allocated /\ Entries /\ NumNodesSet /\ Freed /\ Valid
  BY DEF GadgetInv
<1>1. TypeOK'
  BY <1>0
  DEF AllocatePkgMap, At, Goto, Allocate, TypeOK, Context, Contexts, Allocated, AllBuilt,
      NothingBuilt, Nodes
<1>2. Contexts'
  BY <1>0 DEF AllocatePkgMap, At, Goto, Allocate, Contexts, Context, TypeOK
<1>3. Allocated'
  BY <1>0
  DEF AllocatePkgMap, At, Goto, Allocate, Allocated, AllBuilt, NothingBuilt, Nodes,
      TypeOK, Context, Contexts
<1>4. Entries'
  BY <1>0
  DEF AllocatePkgMap, At, Goto, Allocate, Entries, Nodes, TypeOK, Context, Contexts,
      Allocated, AllBuilt, NothingBuilt
<1>5. NumNodesSet'
  BY <1>0
  DEF AllocatePkgMap, At, Goto, Allocate, NumNodesSet, TypeOK, Context, Contexts,
      Allocated, AllBuilt, NothingBuilt, Nodes
<1>6. Freed'
  BY <1>0 DEF AllocatePkgMap, At, Goto, Allocate, Freed, Nodes, TypeOK, Context, Contexts
<1>7. Valid'
  BY <1>0
  DEF AllocatePkgMap, At, Goto, Allocate, Valid, Nodes, TypeOK, Context, Contexts,
      Allocated, AllBuilt, NothingBuilt
<1>8. QED
  BY <1>1, <1>2, <1>3, <1>4, <1>5, <1>6, <1>7 DEF GadgetInv

\* The entries become valid one by one.
LEMMA AllocatePkgPreserves == GadgetInv /\ AllocatePkg => GadgetInv'
<1> SUFFICES ASSUME GadgetInv, AllocatePkg PROVE GadgetInv'
  OBVIOUS
<1> USE GadgetAssumption, Pointers
<1>0. TypeOK /\ Contexts /\ Allocated /\ Entries /\ NumNodesSet /\ Freed /\ Valid
  BY DEF GadgetInv
<1>1. TypeOK'
  BY <1>0
  DEF AllocatePkg, At, Goto, Allocate, TypeOK, Context, Contexts, Allocated, AllBuilt,
      NothingBuilt, Nodes
<1>2. Contexts'
  BY <1>0 DEF AllocatePkg, At, Goto, Allocate, Contexts, Context, TypeOK
<1>3. Allocated'
  BY <1>0
  DEF AllocatePkg, At, Goto, Allocate, Allocated, AllBuilt, NothingBuilt, Nodes, TypeOK,
      Context, Contexts
<1>4. Entries'
  BY <1>0
  DEF AllocatePkg, At, Goto, Allocate, Entries, Nodes, TypeOK, Context, Contexts,
      Allocated, AllBuilt, NothingBuilt
<1>5. NumNodesSet'
  BY <1>0
  DEF AllocatePkg, At, Goto, Allocate, NumNodesSet, TypeOK, Context, Contexts, Allocated,
      AllBuilt, NothingBuilt, Nodes
<1>6. Freed'
  BY <1>0 DEF AllocatePkg, At, Goto, Allocate, Freed, Nodes, TypeOK, Context, Contexts
<1>7. Valid'
  BY <1>0
  DEF AllocatePkg, At, Goto, Allocate, Valid, Nodes, TypeOK, Context, Contexts, Allocated,
      AllBuilt, NothingBuilt
<1>8. QED
  BY <1>1, <1>2, <1>3, <1>4, <1>5, <1>6, <1>7 DEF GadgetInv

\* After the loop every entry is valid.
LEMMA FillPreserves == GadgetInv /\ Fill => GadgetInv'
<1> SUFFICES ASSUME GadgetInv, Fill PROVE GadgetInv'
  OBVIOUS
<1> USE GadgetAssumption, Pointers
<1>0. TypeOK /\ Contexts /\ Allocated /\ Entries /\ NumNodesSet /\ Freed /\ Valid
  BY DEF GadgetInv
<1>1. TypeOK'
  BY <1>0
  DEF Fill, At, Goto, TypeOK, Context, Contexts, Allocated, AllBuilt, NothingBuilt, Nodes
<1>2. Contexts'
  BY <1>0 DEF Fill, At, Goto, Contexts, Context, TypeOK
<1>3. Allocated'
  BY <1>0
  DEF Fill, At, Goto, Allocated, AllBuilt, NothingBuilt, Nodes, TypeOK, Context, Contexts
<1>4. Entries'
  BY <1>0
  DEF Fill, At, Goto, Entries, Nodes, TypeOK, Context, Contexts, Allocated, AllBuilt,
      NothingBuilt
<1>5. NumNodesSet'
  BY <1>0
  DEF Fill, At, Goto, NumNodesSet, TypeOK, Context, Contexts, Allocated, AllBuilt,
      NothingBuilt, Nodes
<1>6. Freed'
  BY <1>0 DEF Fill, At, Goto, Freed, Nodes, TypeOK, Context, Contexts
<1>7. Valid'
  BY <1>0
  DEF Fill, At, Goto, Valid, Nodes, TypeOK, Context, Contexts, Allocated, AllBuilt,
      NothingBuilt
<1>8. QED
  BY <1>1, <1>2, <1>3, <1>4, <1>5, <1>6, <1>7 DEF GadgetInv

\* Main goes on with all tables, or frees what there is.
LEMMA InitializedPreserves == GadgetInv /\ Initialized => GadgetInv'
<1> SUFFICES ASSUME GadgetInv, Initialized PROVE GadgetInv'
  OBVIOUS
<1> USE GadgetAssumption, Pointers
<1>0. TypeOK /\ Contexts /\ Allocated /\ Entries /\ NumNodesSet /\ Freed /\ Valid
  BY DEF GadgetInv
<1>1. TypeOK'
  BY <1>0
  DEF Initialized, At, Goto, CallTerminate, TypeOK, Context, Contexts, Allocated,
      AllBuilt, NothingBuilt, Nodes
<1>2. Contexts'
  BY <1>0 DEF Initialized, At, Goto, CallTerminate, Contexts, Context, TypeOK
<1>3. Allocated'
  BY <1>0
  DEF Initialized, At, Goto, CallTerminate, Allocated, AllBuilt, NothingBuilt, Nodes,
      TypeOK, Context, Contexts
<1>4. Entries'
  BY <1>0
  DEF Initialized, At, Goto, CallTerminate, Entries, Nodes, TypeOK, Context, Contexts,
      Allocated, AllBuilt, NothingBuilt
<1>5. NumNodesSet'
  BY <1>0
  DEF Initialized, At, Goto, CallTerminate, NumNodesSet, TypeOK, Context, Contexts,
      Allocated, AllBuilt, NothingBuilt, Nodes
<1>6. Freed'
  BY <1>0 DEF Initialized, At, Goto, CallTerminate, Freed, Nodes, TypeOK, Context, Contexts
<1>7. Valid'
  BY <1>0
  DEF Initialized, At, Goto, CallTerminate, Valid, Nodes, TypeOK, Context, Contexts,
      Allocated, AllBuilt, NothingBuilt
<1>8. QED
  BY <1>1, <1>2, <1>3, <1>4, <1>5, <1>6, <1>7 DEF GadgetInv

\* Refused options find all tables in place.
LEMMA CmdlinePreserves == GadgetInv /\ Cmdline => GadgetInv'
<1> SUFFICES ASSUME GadgetInv, Cmdline PROVE GadgetInv'
  OBVIOUS
<1> USE GadgetAssumption, Pointers
<1>0. TypeOK /\ Contexts /\ Allocated /\ Entries /\ NumNodesSet /\ Freed /\ Valid
  BY DEF GadgetInv
<1>1. TypeOK'
  BY <1>0
  DEF Cmdline, At, Goto, CallTerminate, TypeOK, Context, Contexts, Allocated, AllBuilt,
      NothingBuilt, Nodes
<1>2. Contexts'
  BY <1>0 DEF Cmdline, At, Goto, CallTerminate, Contexts, Context, TypeOK
<1>3. Allocated'
  BY <1>0
  DEF Cmdline, At, Goto, CallTerminate, Allocated, AllBuilt, NothingBuilt, Nodes, TypeOK,
      Context, Contexts
<1>4. Entries'
  BY <1>0
  DEF Cmdline, At, Goto, CallTerminate, Entries, Nodes, TypeOK, Context, Contexts,
      Allocated, AllBuilt, NothingBuilt
<1>5. NumNodesSet'
  BY <1>0
  DEF Cmdline, At, Goto, CallTerminate, NumNodesSet, TypeOK, Context, Contexts, Allocated,
      AllBuilt, NothingBuilt, Nodes
<1>6. Freed'
  BY <1>0 DEF Cmdline, At, Goto, CallTerminate, Freed, Nodes, TypeOK, Context, Contexts
<1>7. Valid'
  BY <1>0
  DEF Cmdline, At, Goto, CallTerminate, Valid, Nodes, TypeOK, Context, Contexts,
      Allocated, AllBuilt, NothingBuilt
<1>8. QED
  BY <1>1, <1>2, <1>3, <1>4, <1>5, <1>6, <1>7 DEF GadgetInv

\* The end of sampling finds all tables in place.
LEMMA SampledPreserves == GadgetInv /\ Sampled => GadgetInv'
<1> SUFFICES ASSUME GadgetInv, Sampled PROVE GadgetInv'
  OBVIOUS
<1> USE GadgetAssumption, Pointers
<1>0. TypeOK /\ Contexts /\ Allocated /\ Entries /\ NumNodesSet /\ Freed /\ Valid
  BY DEF GadgetInv
<1>1. TypeOK'
  BY <1>0
  DEF Sampled, At, CallTerminate, TypeOK, Context, Contexts, Allocated, AllBuilt,
      NothingBuilt, Nodes
<1>2. Contexts'
  BY <1>0 DEF Sampled, At, CallTerminate, Contexts, Context, TypeOK
<1>3. Allocated'
  BY <1>0
  DEF Sampled, At, CallTerminate, Allocated, AllBuilt, NothingBuilt, Nodes, TypeOK,
      Context, Contexts
<1>4. Entries'
  BY <1>0
  DEF Sampled, At, CallTerminate, Entries, Nodes, TypeOK, Context, Contexts, Allocated,
      AllBuilt, NothingBuilt
<1>5. NumNodesSet'
  BY <1>0
  DEF Sampled, At, CallTerminate, NumNodesSet, TypeOK, Context, Contexts, Allocated,
      AllBuilt, NothingBuilt, Nodes
<1>6. Freed'
  BY <1>0 DEF Sampled, At, CallTerminate, Freed, Nodes, TypeOK, Context, Contexts
<1>7. Valid'
  BY <1>0
  DEF Sampled, At, CallTerminate, Valid, Nodes, TypeOK, Context, Contexts, Allocated,
      AllBuilt, NothingBuilt
<1>8. QED
  BY <1>1, <1>2, <1>3, <1>4, <1>5, <1>6, <1>7 DEF GadgetInv

\* The handler starts to free what main has built so far.
LEMMA SignalPreserves == GadgetInv /\ Signal => GadgetInv'
<1> SUFFICES ASSUME GadgetInv, Signal PROVE GadgetInv'
  OBVIOUS
<1> USE GadgetAssumption, Pointers
<1>0. TypeOK /\ Contexts /\ Allocated /\ Entries /\ NumNodesSet /\ Freed /\ Valid
  BY DEF GadgetInv
<1>1. TypeOK'
  BY <1>0 DEF Signal, TypeOK, Context, NumNodesSet
<1>2. Contexts'
  BY <1>0 DEF Signal, Contexts, Context, TypeOK
<1>3. Allocated'
  BY <1>0 DEF Signal, Allocated, AllBuilt, NothingBuilt, Nodes, TypeOK, Context, Contexts
<1>4. Entries'
  BY <1>0 DEF Signal, Entries, Nodes, TypeOK, Context
<1>5. NumNodesSet'
  BY <1>0 DEF Signal, NumNodesSet, TypeOK, Context
<1>6. Freed'
  BY <1>0 DEF Signal, Freed, Nodes, TypeOK, Context, Entries, NumNodesSet
<1>7. Valid'
  BY <1>0
  DEF Signal, Valid, Nodes, TypeOK, Context, Contexts, Allocated, AllBuilt, NothingBuilt,
      Vulnerable, NumNodesSet
<1>8. QED
  BY <1>1, <1>2, <1>3, <1>4, <1>5, <1>6, <1>7 DEF GadgetInv

\* Freeing os_map; without a pkg_map its loop is skipped.
LEMMA FreeOsMapPreserves == GadgetInv /\ FreeOsMap => GadgetInv'
<1> SUFFICES ASSUME GadgetInv, FreeOsMap PROVE GadgetInv'
  OBVIOUS
<1> USE GadgetAssumption, Pointers
<1>0. TypeOK /\ Contexts /\ Allocated /\ Entries /\ NumNodesSet /\ Freed /\ Valid
  BY DEF GadgetInv
<1>1. TypeOK'
  BY <1>0 DEF FreeOsMap, InTerminate, Free, Keep, Continue, TypeOK, Context, NumNodesSet
<1>2. Contexts'
  BY <1>0 DEF FreeOsMap, InTerminate, Free, Keep, Continue, Contexts, Context, TypeOK
<1>3. Allocated'
  BY <1>0
  DEF FreeOsMap, InTerminate, Free, Keep, Continue, Allocated, AllBuilt, NothingBuilt,
      Nodes, TypeOK, Context, Contexts
<1>4. Entries'
  BY <1>0 DEF FreeOsMap, InTerminate, Free, Keep, Continue, Entries, Nodes, TypeOK, Context
<1>5. NumNodesSet'
  BY <1>0 DEF FreeOsMap, InTerminate, Free, Keep, Continue, NumNodesSet, TypeOK, Context
<1>6. Freed'
  BY <1>0
  DEF FreeOsMap, InTerminate, Free, Keep, Continue, Freed, Nodes, TypeOK, Context,
      Entries, NumNodesSet
<1>7. Valid'
  BY <1>0
  DEF FreeOsMap, InTerminate, Free, Keep, Continue, Valid, Nodes, TypeOK, Context,
      Contexts, Allocated, AllBuilt, NothingBuilt, Vulnerable, NumNodesSet
<1>8. QED
  BY <1>1, <1>2, <1>3, <1>4, <1>5, <1>6, <1>7 DEF GadgetInv

\* The entries are freed in order.
LEMMA FreePkgPreserves == GadgetInv /\ FreePkg => GadgetInv'
<1> SUFFICES ASSUME GadgetInv, FreePkg PROVE GadgetInv'
  OBVIOUS
<1> USE GadgetAssumption, Pointers
<1>0. TypeOK /\ Contexts /\ Allocated /\ Entries /\ NumNodesSet /\ Freed /\ Valid
  BY DEF GadgetInv
<1>1. TypeOK'
  BY <1>0 DEF FreePkg, InTerminate, Free, Continue, TypeOK, Context, NumNodesSet
<1>2. Contexts'
  BY <1>0 DEF FreePkg, InTerminate, Free, Continue, Contexts, Context, TypeOK
<1>3. Allocated'
  BY <1>0
  DEF FreePkg, InTerminate, Free, Continue, Allocated, AllBuilt, NothingBuilt, Nodes,
      TypeOK, Context, Contexts
<1>4. Entries'
  BY <1>0 DEF FreePkg, InTerminate, Free, Continue, Entries, Nodes, TypeOK, Context
<1>5. NumNodesSet'
  BY <1>0 DEF FreePkg, InTerminate, Free, Continue, NumNodesSet, TypeOK, Context
<1>6. Freed'
  BY <1>0
  DEF FreePkg, InTerminate, Free, Continue, Freed, Nodes, TypeOK, Context, Entries,
      NumNodesSet
<1>7. Valid'
  BY <1>0
  DEF FreePkg, InTerminate, Free, Continue, Valid, Nodes, TypeOK, Context, Contexts,
      Allocated, AllBuilt, NothingBuilt, Vulnerable, NumNodesSet
<1>8. QED
  BY <1>1, <1>2, <1>3, <1>4, <1>5, <1>6, <1>7 DEF GadgetInv

\* pkg_map is freed after its entries.
LEMMA FreePkgMapPreserves == GadgetInv /\ FreePkgMap => GadgetInv'
<1> SUFFICES ASSUME GadgetInv, FreePkgMap PROVE GadgetInv'
  OBVIOUS
<1> USE GadgetAssumption, Pointers
<1>0. TypeOK /\ Contexts /\ Allocated /\ Entries /\ NumNodesSet /\ Freed /\ Valid
  BY DEF GadgetInv
<1>1. TypeOK'
  BY <1>0 DEF FreePkgMap, InTerminate, Free, Continue, TypeOK, Context, NumNodesSet
<1>2. Contexts'
  BY <1>0 DEF FreePkgMap, InTerminate, Free, Continue, Contexts, Context, TypeOK
<1>3. Allocated'
  BY <1>0
  DEF FreePkgMap, InTerminate, Free, Continue, Allocated, AllBuilt, NothingBuilt, Nodes,
      TypeOK, Context, Contexts
<1>4. Entries'
  BY <1>0 DEF FreePkgMap, InTerminate, Free, Continue, Entries, Nodes, TypeOK, Context
<1>5. NumNodesSet'
  BY <1>0 DEF FreePkgMap, InTerminate, Free, Continue, NumNodesSet, TypeOK, Context
<1>6. Freed'
  BY <1>0
  DEF FreePkgMap, InTerminate, Free, Continue, Freed, Nodes, TypeOK, Context, Entries,
      NumNodesSet
<1>7. Valid'
  BY <1>0
  DEF FreePkgMap, InTerminate, Free, Continue, Valid, Nodes, TypeOK, Context, Contexts,
      Allocated, AllBuilt, NothingBuilt, Vulnerable, NumNodesSet
<1>8. QED
  BY <1>1, <1>2, <1>3, <1>4, <1>5, <1>6, <1>7 DEF GadgetInv

\* The support table is freed last.
LEMMA FreeTablePreserves == GadgetInv /\ FreeTable => GadgetInv'
<1> SUFFICES ASSUME GadgetInv, FreeTable PROVE GadgetInv'
  OBVIOUS
<1> USE GadgetAssumption, Pointers
<1>0. TypeOK /\ Contexts /\ Allocated /\ Entries /\ NumNodesSet /\ Freed /\ Valid
  BY DEF GadgetInv
<1>1. TypeOK'
  BY <1>0 DEF FreeTable, InTerminate, Free, Keep, Continue, TypeOK, Context, NumNodesSet
<1>2. Contexts'
  BY <1>0 DEF FreeTable, InTerminate, Free, Keep, Continue, Contexts, Context, TypeOK
<1>3. Allocated'
  BY <1>0
  DEF FreeTable, InTerminate, Free, Keep, Continue, Allocated, AllBuilt, NothingBuilt,
      Nodes, TypeOK, Context, Contexts
<1>4. Entries'
  BY <1>0 DEF FreeTable, InTerminate, Free, Keep, Continue, Entries, Nodes, TypeOK, Context
<1>5. NumNodesSet'
  BY <1>0 DEF FreeTable, InTerminate, Free, Keep, Continue, NumNodesSet, TypeOK, Context
<1>6. Freed'
  BY <1>0
  DEF FreeTable, InTerminate, Free, Keep, Continue, Freed, Nodes, TypeOK, Context,
      Entries, NumNodesSet
<1>7. Valid'
  BY <1>0
  DEF FreeTable, InTerminate, Free, Keep, Continue, Valid, Nodes, TypeOK, Context,
      Contexts, Allocated, AllBuilt, NothingBuilt, Vulnerable, NumNodesSet
<1>8. QED
  BY <1>1, <1>2, <1>3, <1>4, <1>5, <1>6, <1>7 DEF GadgetInv

\* The process exits at the end of terminate_rapl.
LEMMA ExitPreserves == GadgetInv /\ Exit => GadgetInv'
<1> SUFFICES ASSUME GadgetInv, Exit PROVE GadgetInv'
  OBVIOUS
<1> USE GadgetAssumption, Pointers
<1>0. TypeOK /\ Contexts /\ Allocated /\ Entries /\ NumNodesSet /\ Freed /\ Valid
  BY DEF GadgetInv
<1>1. TypeOK'
  BY <1>0 DEF Exit, TypeOK, Context, NumNodesSet
<1>2. Contexts'
  BY <1>0 DEF Exit, Contexts, Context, TypeOK
<1>3. Allocated'
  BY <1>0 DEF Exit, Allocated, AllBuilt, NothingBuilt, Nodes, TypeOK, Context, Contexts
<1>4. Entries'
  BY <1>0 DEF Exit, Entries, Nodes, TypeOK, Context
<1>5. NumNodesSet'
  BY <1>0 DEF Exit, NumNodesSet, TypeOK, Context
<1>6. Freed'
  BY <1>0 DEF Exit, Freed, Nodes, TypeOK, Context, Entries, NumNodesSet
<1>7. Valid'
  BY <1>0
  DEF Exit, Valid, Nodes, TypeOK, Context, Contexts, Allocated, AllBuilt, NothingBuilt,
      Vulnerable, NumNodesSet
<1>8. QED
  BY <1>1, <1>2, <1>3, <1>4, <1>5, <1>6, <1>7 DEF GadgetInv

\* Stuttering keeps the invariant.
LEMMA StutterPreserves == GadgetInv /\ UNCHANGED vars => GadgetInv'
BY DEF GadgetInv, TypeOK, Contexts, Allocated, AllBuilt, NothingBuilt, Nodes, Entries,
       NumNodesSet, Freed, Valid, vars

-----------------------------------------------------------------------------
\* GadgetInv holds throughout.
THEOREM Invariance == Spec => []GadgetInv
<1>1. GadgetInv /\ [Next]_vars => GadgetInv'
  BY MainPreserves, CallocPreserves, UnsupportedPreserves, ReadUnitsPreserves,
     AllocateOsMapPreserves, CountNodesPreserves, AllocatePkgMapPreserves,
     AllocatePkgPreserves, FillPreserves, InitializedPreserves, CmdlinePreserves,
     SampledPreserves, SignalPreserves, FreeOsMapPreserves, FreePkgPreserves,
     FreePkgMapPreserves, FreeTablePreserves, ExitPreserves, StutterPreserves
  DEF Next, Ended
<1>2. QED
  BY InitEstablishes, <1>1, PTL DEF Spec

\* Type correctness: no loop over pkg_map leaves it.
THEOREM TypeCorrect == Spec => []TypeOK
<1>1. GadgetInv => TypeOK
  BY DEF GadgetInv
<1>2. QED
  BY Invariance, <1>1, PTL

\* Sampling finds all tables allocated, at any number of packages.
THEOREM TablesThere == Spec => []NoUseAfterFree
<1>1. GadgetInv => NoUseAfterFree
  BY DEF GadgetInv, Allocated, AllBuilt, Nodes, NoUseAfterFree, InUse
<1>2. QED
  BY Invariance, <1>1, PTL

\* Nothing is leaked, wherever a signal interrupts main.
THEOREM EverythingFreed == Spec => []NoLeak
<1>1. ASSUME GadgetInv, status = "exited", NEW p \in Pointer
      PROVE  block[p] # "live"
  <2>1. at[active] = "end"
    BY <1>1 DEF GadgetInv, Freed
  <2>2. CASE p \in {Table, OsMap, PkgMap}
    BY <1>1, <2>1, <2>2 DEF GadgetInv, Freed
  <2>3. CASE \E n \in 0 .. MaxNodes - 1 : p = Pkg(n)
    BY <1>1, <2>1, <2>3, GadgetAssumption
    DEF GadgetInv, Freed, Entries, Nodes, TypeOK
  <2>4. QED
    BY <2>2, <2>3 DEF Pointer
<1>2. GadgetInv => NoLeak
  BY <1>1 DEF NoLeak
<1>3. QED
  BY Invariance, <1>2, PTL

\* A pointer that is not valid is freed only after a signal in one of the two
\* windows.
THEOREM OnlySignalsInvalidate == Spec => []FreesAreValid
<1>1. GadgetInv => FreesAreValid
  BY DEF GadgetInv, Valid, FreesAreValid
<1>2. QED
  BY Invariance, <1>1, PTL

-----------------------------------------------------------------------------
(* The sampling loop.                                                      *)

\* Multiplication with a natural number keeps the order.
LEMMA MulMonotone ==
  ASSUME NEW a \in Int, NEW b \in Int, NEW n \in Nat, a <= b
  PROVE  a * n <= b * n
<1>1. (b - a) * n >= 0
  OBVIOUS
<1>2. QED
  BY <1>1

\* A flat index a * n + b is taken apart again by \div and %.
LEMMA DivModUnique ==
  ASSUME NEW a \in Nat, NEW n \in Nat \ {0}, NEW b \in 0 .. n - 1
  PROVE  /\ a * n + b \in Nat
         /\ (a * n + b) \div n = a
         /\ (a * n + b) % n = b
<1>1. a * n \in Nat
  BY MulMonotone
<1>2. QED
  BY <1>1

\* Division with remainder.
LEMMA DivMod ==
  ASSUME NEW a \in Nat, NEW n \in Nat \ {0}
  PROVE  /\ a \div n \in Nat
         /\ a % n \in 0 .. n - 1
         /\ a = (a \div n) * n + (a % n)
OBVIOUS


\* A counter has moved on from its last good reading by what was used.
Tracked ==
  \A k \in Meter :
    good[k] => /\ prev[k] \in 0 .. Modulus - 1
               /\ counter[k] = (prev[k] + used[k]) % Modulus

\* The first loop reads every meter once.  While the program sleeps, every
\* reading lies before the time in end; while it samples, the meters to come
\* were last read before that time.
Timing ==
  /\ stage \notin {"initial", "sample"} => m = 1
  /\ stage = "initial" => \A k \in m .. N : ~good[k]
  /\ stage \in {"print", "sleep"} => \A k \in Meter : lag <= since[k]
  /\ stage = "sleep" => Delay <= lag + asleep
  /\ stage = "sample" => Delay <= interval /\ \A k \in m .. N : interval <= since[k]

SamplerInv == SamplerTypeOK /\ Tracked /\ DeltaWithinOneUnit /\ Timing /\ IntervalBounded

-----------------------------------------------------------------------------
(* Arithmetic modulo Modulus.                                              *)

\* A remainder is in the range of a counter.
LEMMA ModulusRange ==
  ASSUME NEW a \in Nat
  PROVE  a % Modulus \in 0 .. Modulus - 1
BY SamplerAssumption, DivMod

\* A counter that advances by less than a turn wraps around at most once.
LEMMA ModulusOnce ==
  ASSUME NEW a \in 0 .. Modulus - 1, NEW b \in 0 .. Modulus - 1
  PROVE  (a + b) % Modulus = IF a + b < Modulus THEN a + b ELSE a + b - Modulus
<1>0. Modulus \in Nat \ {0}
  BY SamplerAssumption
<1>1. CASE a + b < Modulus
  <2>1. (0 * Modulus + (a + b)) % Modulus = a + b
    BY <1>0, <1>1, DivModUnique
  <2>2. QED
    BY <1>0, <1>1, <2>1
<1>2. CASE a + b >= Modulus
  <2>1. (1 * Modulus + (a + b - Modulus)) % Modulus = a + b - Modulus
    BY <1>0, <1>2, DivModUnique
  <2>2. 1 * Modulus + (a + b - Modulus) = a + b
    BY <1>0
  <2>3. QED
    BY <1>0, <1>2, <2>1, <2>2
<1>3. QED
  BY <1>0, <1>1, <1>2

\* Two advances of a counter add up.
LEMMA ModulusAdd ==
  ASSUME NEW a \in Nat, NEW b \in Nat
  PROVE  ((a % Modulus) + b) % Modulus = (a + b) % Modulus
<1>0. Modulus \in Nat \ {0}
  BY SamplerAssumption
<1> DEFINE q == a \div Modulus
           r == a % Modulus
           s == (r + b) \div Modulus
           t == (r + b) % Modulus
<1>1. q \in Nat /\ r \in 0 .. Modulus - 1 /\ a = q * Modulus + r
  BY <1>0, DivMod
<1>2. s \in Nat /\ t \in 0 .. Modulus - 1 /\ r + b = s * Modulus + t
  <2>1. r + b \in Nat
    BY <1>0, <1>1
  <2>2. QED
    BY <1>0, <2>1, DivMod
<1> HIDE DEF q, r, s, t
<1>3. a + b = (q + s) * Modulus + t
  <2>1. (q + s) * Modulus = q * Modulus + s * Modulus
    BY <1>0, <1>1, <1>2
  <2>2. q * Modulus \in Int /\ s * Modulus \in Int
    BY <1>0, <1>1, <1>2
  <2>3. QED
    BY <1>0, <1>1, <1>2, <2>1, <2>2
<1>4. ((q + s) * Modulus + t) % Modulus = t
  <2>1. q + s \in Nat
    BY <1>1, <1>2
  <2>2. QED
    BY <1>0, <1>2, <2>1, DivModUnique
<1>5. (a + b) % Modulus = t
  BY <1>3, <1>4
<1>6. QED
  BY <1>5 DEF r, t

-----------------------------------------------------------------------------
\* The invariant holds before the first reading.
LEMMA SamplerInitEstablishes == SamplerInit => SamplerInv
<1> SUFFICES ASSUME SamplerInit PROVE SamplerInv
  OBVIOUS
<1>1. SamplerTypeOK
  BY SamplerAssumption DEF SamplerInit, SamplerTypeOK, Meter
<1>2. Tracked
  BY DEF SamplerInit, Tracked
<1>3. DeltaWithinOneUnit
  BY DEF SamplerInit, DeltaWithinOneUnit
<1>4. Timing
  BY SamplerAssumption DEF SamplerInit, Timing, Meter
<1>5. IntervalBounded
  BY DEF SamplerInit, IntervalBounded, UpToDate
<1>6. QED
  BY <1>1, <1>2, <1>3, <1>4, <1>5 DEF SamplerInv

\* Time and consumption keep the invariant: counter and ghost advance together.
LEMMA TickPreserves == SamplerInv /\ Tick => SamplerInv'
<1> SUFFICES ASSUME SamplerInv, Tick PROVE SamplerInv'
  OBVIOUS
<1> USE SamplerAssumption
<1>0. SamplerTypeOK /\ Tracked /\ DeltaWithinOneUnit /\ Timing /\ IntervalBounded
  BY DEF SamplerInv
<1>1. PICK units \in [Meter -> 0 .. MaxPower] :
        /\ counter' = [k \in Meter |-> (counter[k] + units[k]) % Modulus]
        /\ used' = [k \in Meter |-> used[k] + units[k]]
  BY DEF Tick
<1>2. \A k \in Meter : units[k] \in Nat /\ counter[k] \in Nat /\ used[k] \in Nat
  BY <1>0 DEF SamplerTypeOK
<1>3. SamplerTypeOK'
  <2>1. counter' \in [Meter -> 0 .. Modulus - 1]
    <3>1. \A k \in Meter : (counter[k] + units[k]) % Modulus \in 0 .. Modulus - 1
      BY <1>2, ModulusRange
    <3>2. QED
      BY <1>1, <3>1
  <2>2. used' \in [Meter -> Nat]
    BY <1>1, <1>2
  <2>3. since' \in [Meter -> Nat]
    BY <1>0 DEF Tick, SamplerTypeOK
  <2>4. lag' \in Nat /\ elapsed' \in 0 .. Duration
    BY <1>0 DEF Tick, SamplerTypeOK, AtMost
  <2>5. asleep' \in 0 .. Delay /\ slack' \in 0 .. MaxSlack
    BY <1>0 DEF Tick, SamplerTypeOK
  <2>6. QED
    BY <1>0, <2>1, <2>2, <2>3, <2>4, <2>5 DEF Tick, SamplerTypeOK
<1>4. Tracked'
  <2>1. SUFFICES ASSUME NEW k \in Meter, good[k]
                 PROVE  /\ prev[k] \in 0 .. Modulus - 1
                        /\ counter'[k] = (prev[k] + used'[k]) % Modulus
    BY DEF Tracked, Tick
  <2>2. prev[k] \in 0 .. Modulus - 1 /\ counter[k] = (prev[k] + used[k]) % Modulus
    BY <1>0, <2>1 DEF Tracked
  <2>3. (((prev[k] + used[k]) % Modulus) + units[k]) % Modulus
          = ((prev[k] + used[k]) + units[k]) % Modulus
    <3>1. prev[k] + used[k] \in Nat
      BY <1>2, <2>2
    <3>2. QED
      BY <1>2, <3>1, ModulusAdd
  <2>4. counter'[k] = (counter[k] + units[k]) % Modulus /\ used'[k] = used[k] + units[k]
    BY <1>1
  <2>5. (prev[k] + used[k]) + units[k] = prev[k] + (used[k] + units[k])
    BY <1>2, <2>2
  <2>6. QED
    BY <2>2, <2>3, <2>4, <2>5
<1>5. DeltaWithinOneUnit'
  BY <1>0 DEF DeltaWithinOneUnit, Tick
<1>6. Timing'
  <2>1. \A k \in Meter : since'[k] = since[k] + 1 /\ since[k] \in Nat
    BY <1>0 DEF Tick, SamplerTypeOK
  <2>2. lag' = lag + 1 /\ lag \in Nat /\ UNCHANGED <<stage, m, interval>>
    BY <1>0 DEF Tick, SamplerTypeOK
  <2>3. asleep' \in {asleep, asleep - 1} /\ asleep \in Nat
    BY <1>0 DEF Tick, SamplerTypeOK
  <2>4. interval \in Nat /\ m \in Meter
    BY <1>0 DEF SamplerTypeOK
  <2>4a. /\ stage' \notin {"initial", "sample"} => m' = 1
         /\ stage' = "initial" => \A k \in m' .. N : ~good'[k]
    BY <1>0, <2>2 DEF Timing, Tick
  <2>5. ASSUME stage' = "sleep" PROVE Delay <= lag' + asleep'
    <3>1. Delay <= lag + asleep /\ Delay \in Nat
      BY <1>0, <2>2, <2>5 DEF Timing
    <3>2. lag' = lag + 1 /\ lag \in Nat /\ asleep \in Nat /\ asleep' \in {asleep, asleep - 1}
      BY <2>2, <2>3
    <3>3. CASE asleep' = asleep
      BY <3>1, <3>2, <3>3
    <3>4. CASE asleep' = asleep - 1
      BY <3>1, <3>2, <3>4
    <3>5. QED
      BY <3>2, <3>3, <3>4
  <2>6. stage' \in {"print", "sleep"} => \A k \in Meter : lag' <= since'[k]
    BY <1>0, <2>1, <2>2 DEF Timing
  <2>7. ASSUME stage' = "sample", NEW k \in m .. N PROVE interval <= since'[k]
    <3>1. k \in Meter
      BY <2>4 DEF Meter
    <3>2. interval <= since[k]
      BY <1>0, <2>2, <2>7 DEF Timing
    <3>3. QED
      BY <2>1, <2>4, <3>1, <3>2
  <2>8. stage' = "sample" => Delay <= interval' /\ \A k \in m' .. N : interval' <= since'[k]
    BY <1>0, <2>2, <2>7 DEF Timing
  <2>9. QED
    BY <2>4a, <2>5, <2>6, <2>8 DEF Timing
<1>7. IntervalBounded'
  BY <1>0 DEF IntervalBounded, UpToDate, Tick
<1>8. QED
  BY <1>3, <1>4, <1>5, <1>6, <1>7 DEF SamplerInv
\* What both loops do when they read meter m.
ReadMeter(v, ok) == Reading(v, ok) /\ prev' = [prev EXCEPT ![m] = v] /\ Observe(ok)

\* A reading, also a failed one, leaves numbers in all variables.
LEMMA ReadingTypes ==
  ASSUME SamplerTypeOK, NEW ok \in BOOLEAN, NEW v \in Garbage \cup {counter[m]}, ReadMeter(v, ok)
  PROVE  /\ v \in Int
         /\ prev' \in [Meter -> Int]
         /\ used' \in [Meter -> Nat]
         /\ since' \in [Meter -> Nat]
         /\ good' \in [Meter -> BOOLEAN]
         /\ truth' \in [Meter -> [energy : Nat, time : Nat, good : BOOLEAN]]
<1>1. v \in Int
  BY SamplerAssumption DEF SamplerTypeOK
<1>2. prev' \in [Meter -> Int]
  BY <1>1 DEF SamplerTypeOK, ReadMeter
<1>3. used' \in [Meter -> Nat] /\ since' \in [Meter -> Nat] /\ good' \in [Meter -> BOOLEAN]
  BY DEF SamplerTypeOK, ReadMeter, Observe
<1>4. [energy |-> used[m], time |-> since[m], good |-> good[m] /\ ok]
        \in [energy : Nat, time : Nat, good : BOOLEAN]
  <2>1. used[m] \in Nat /\ since[m] \in Nat
    BY DEF SamplerTypeOK
  <2>2. (good[m] /\ ok) \in BOOLEAN
    BY DEF SamplerTypeOK
  <2>3. QED
    BY <2>1, <2>2
<1>5. truth' \in [Meter -> [energy : Nat, time : Nat, good : BOOLEAN]]
  BY <1>4 DEF SamplerTypeOK, ReadMeter, Observe
<1>6. QED
  BY <1>1, <1>2, <1>3, <1>5

\* A successful reading starts to track its counter afresh, a failed one stops it.
LEMMA ReadingTracked ==
  ASSUME SamplerTypeOK, Tracked, NEW ok \in BOOLEAN, NEW v, ReadMeter(v, ok), counter' = counter
  PROVE  Tracked'
<1> USE SamplerAssumption
<1>1. SUFFICES ASSUME NEW k \in Meter, good'[k]
               PROVE  /\ prev'[k] \in 0 .. Modulus - 1
                      /\ counter[k] = (prev'[k] + used'[k]) % Modulus
  BY DEF Tracked
<1>2. CASE k = m
  <2>1. prev'[k] = counter[k] /\ used'[k] = 0
    BY <1>1, <1>2 DEF ReadMeter, Reading, Observe, SamplerTypeOK
  <2>2. counter[k] \in 0 .. Modulus - 1
    BY DEF SamplerTypeOK
  <2>3. (counter[k] + 0) % Modulus = counter[k]
    <3>1. (0 * Modulus + counter[k]) % Modulus = counter[k]
      BY <2>2, DivModUnique
    <3>2. 0 * Modulus + counter[k] = counter[k] /\ counter[k] + 0 = counter[k]
      BY <2>2
    <3>3. QED
      BY <3>1, <3>2
  <2>4. QED
    BY <2>1, <2>2, <2>3
<1>3. CASE k # m
  BY <1>1, <1>3 DEF ReadMeter, Observe, Tracked, SamplerTypeOK
<1>4. QED
  BY <1>2, <1>3

\* The loop of the initial readings keeps the invariant.
LEMMA ReadInitialPreserves == SamplerInv /\ ReadInitial => SamplerInv'
<1> SUFFICES ASSUME SamplerInv, ReadInitial PROVE SamplerInv'
  OBVIOUS
<1>0. SamplerTypeOK /\ Tracked /\ DeltaWithinOneUnit /\ Timing
     /\ m \in Meter /\ N \in Nat \ {0}
  BY SamplerAssumption DEF SamplerInv, SamplerTypeOK
<1>1. PICK ok \in BOOLEAN, v \in Garbage \cup {counter[m]} : ReadMeter(v, ok)
  BY DEF ReadInitial, ReadMeter
<1>2. m' \in Meter /\ stage' \in {"initial", "start"} /\ (stage' = "start" => m' = 1)
  BY <1>0 DEF ReadInitial, NextMeter, Meter
<1>3. UNCHANGED <<delta, interval, total, asleep, clocks, counter, slack>>
  BY DEF ReadInitial
<1>4. SamplerTypeOK'
  BY <1>0, <1>1, <1>2, <1>3, ReadingTypes DEF clocks, SamplerTypeOK
<1>5. Tracked'
  BY <1>0, <1>1, <1>3, ReadingTracked
<1>6. DeltaWithinOneUnit'
  <2>1. SUFFICES ASSUME NEW k \in Meter, truth'[k].good, truth'[k].energy < Modulus
                 PROVE  delta'[k] \in {truth'[k].energy, truth'[k].energy - 1}
    BY DEF DeltaWithinOneUnit
  <2>2. ~truth'[m].good
    <3>1. ~good[m]
      BY <1>0 DEF ReadInitial, Timing, Meter
    <3>2. truth'[m].good = (good[m] /\ ok)
      BY <1>0, <1>1 DEF SamplerTypeOK, ReadMeter, Observe
    <3>3. QED
      BY <3>1, <3>2
  <2>3. truth'[k] = truth[k]
    BY <1>0, <1>1, <2>1, <2>2 DEF SamplerTypeOK, ReadMeter, Observe
  <2>4. QED
    BY <1>0, <1>3, <2>1, <2>3 DEF DeltaWithinOneUnit
<1>7. Timing' /\ IntervalBounded'
  <2>1. ASSUME stage' = "initial", NEW k \in m' .. N PROVE ~good'[k]
    <3>1. m' = m + 1 /\ k \in m .. N /\ k # m /\ k \in Meter
      BY <1>0, <2>1 DEF ReadInitial, NextMeter, Meter
    <3>2. good'[k] = good[k]
      BY <1>0, <1>1, <3>1 DEF SamplerTypeOK, ReadMeter, Observe
    <3>3. QED
      BY <1>0, <3>1, <3>2 DEF ReadInitial, Timing
  <2>2. QED
    BY <1>2, <2>1 DEF Timing, IntervalBounded, UpToDate
<1>8. QED
  BY <1>4, <1>5, <1>6, <1>7 DEF SamplerInv
\* The loop of the readings of an interval keeps the invariant.
LEMMA SamplePreserves == SamplerInv /\ Sample => SamplerInv'
<1> SUFFICES ASSUME SamplerInv, Sample PROVE SamplerInv'
  OBVIOUS
<1> USE SamplerAssumption
<1>0. SamplerTypeOK /\ Tracked /\ DeltaWithinOneUnit /\ Timing /\ IntervalBounded /\ m \in Meter
  BY DEF SamplerInv, SamplerTypeOK
<1>1. PICK ok \in BOOLEAN, v \in Garbage \cup {counter[m]} :
        ReadMeter(v, ok) /\ delta' = [delta EXCEPT ![m] = Unwrapped(v - prev[m])]
  BY DEF Sample, ReadMeter
<1>2. /\ m' \in Meter /\ stage' \in {"sample", "stamp"}
      /\ stage' = "stamp" => m = N /\ m' = 1
      /\ stage' = "sample" => m' = m + 1
  BY <1>0 DEF Sample, NextMeter, Meter
<1>3. UNCHANGED <<interval, total, asleep, clocks, counter, slack>>
  BY DEF Sample
<1>4. v \in Int /\ prev[m] \in Int
  BY <1>0, <1>1, ReadingTypes DEF SamplerTypeOK
<1>5. SamplerTypeOK'
  <2>1. delta' \in [Meter -> Int]
    BY <1>0, <1>1, <1>4 DEF SamplerTypeOK, Unwrapped, MaxEnergy
  <2>2. QED
    BY <1>0, <1>1, <1>2, <1>3, <2>1, ReadingTypes DEF clocks, SamplerTypeOK
<1>6. Tracked'
  BY <1>0, <1>1, <1>3, ReadingTracked
<1>7. \A k \in Meter :
        k # m => truth'[k] = truth[k] /\ delta'[k] = delta[k] /\ since'[k] = since[k]
  BY <1>0, <1>1 DEF SamplerTypeOK, ReadMeter, Observe
<1>8. truth'[m] = [energy |-> used[m], time |-> since[m], good |-> good[m] /\ ok]
  BY <1>0, <1>1 DEF SamplerTypeOK, ReadMeter, Observe
<1>9. DeltaWithinOneUnit'
  <2>1. ASSUME good[m], ok, used[m] < Modulus
        PROVE  Unwrapped(v - prev[m]) \in {used[m], used[m] - 1}
    <3>1. /\ prev[m] \in 0 .. Modulus - 1
          /\ v = (prev[m] + used[m]) % Modulus
      BY <1>0, <1>1, <2>1 DEF Tracked, ReadMeter, Reading
    <3>2. used[m] \in 0 .. Modulus - 1
      BY <1>0, <2>1 DEF SamplerTypeOK
    <3>3. v = IF prev[m] + used[m] < Modulus THEN prev[m] + used[m]
              ELSE prev[m] + used[m] - Modulus
      BY <3>1, <3>2, ModulusOnce
    <3>4. QED
      BY <3>1, <3>2, <3>3 DEF Unwrapped, MaxEnergy
  <2>2. SUFFICES ASSUME NEW k \in Meter, truth'[k].good, truth'[k].energy < Modulus
                 PROVE  delta'[k] \in {truth'[k].energy, truth'[k].energy - 1}
    BY DEF DeltaWithinOneUnit
  <2>3. CASE k = m
    <3>0. truth'[m].good = (good[m] /\ ok) /\ truth'[m].energy = used[m]
      BY <1>0, <1>1 DEF SamplerTypeOK, ReadMeter, Observe
    <3>1. good[m] /\ ok /\ used[m] < Modulus
      BY <2>2, <2>3, <3>0
    <3>2. delta'[m] = Unwrapped(v - prev[m])
      BY <1>0, <1>1 DEF SamplerTypeOK
    <3>3. QED
      BY <2>1, <2>3, <3>0, <3>1, <3>2
  <2>4. CASE k # m
    BY <1>0, <1>7, <2>2, <2>4 DEF DeltaWithinOneUnit
  <2>5. QED
    BY <2>3, <2>4
<1>10. Delay <= interval /\ \A k \in m .. N : interval <= since[k]
  BY <1>0 DEF Sample, Timing
<1>11. Timing'
  <2>1. ASSUME stage' = "sample", NEW k \in m' .. N PROVE interval' <= since'[k]
    <3>1. k \in m .. N /\ k # m /\ k \in Meter
      BY <1>0, <1>2, <2>1 DEF Meter
    <3>2. QED
      BY <1>3, <1>7, <1>10, <3>1
  <2>2. QED
    BY <1>2, <1>3, <1>10, <2>1 DEF Timing
<1>12. IntervalBounded'
  <2>1. SUFFICES ASSUME NEW k \in UpToDate' PROVE interval <= truth'[k].time
    BY <1>3, <1>10 DEF IntervalBounded
  <2>2. k \in 1 .. m /\ k \in Meter
    <3>1. CASE stage' = "sample"
      BY <1>0, <1>2, <2>1, <3>1 DEF UpToDate, Meter
    <3>2. CASE stage' = "stamp"
      BY <1>0, <1>2, <2>1, <3>2 DEF UpToDate, Meter
    <3>3. QED
      BY <1>2, <3>1, <3>2
  <2>3. CASE k = m
    <3>1. interval <= since[m]
      BY <1>0, <1>10 DEF Meter
    <3>2. truth'[m].time = since[m]
      BY <1>8
    <3>3. QED
      BY <2>3, <3>1, <3>2
  <2>4. CASE k # m
    <3>1. k \in 1 .. m - 1
      BY <1>0, <2>2, <2>4 DEF Meter
    <3>2. interval <= truth[k].time
      BY <1>0, <3>1 DEF Sample, IntervalBounded, UpToDate
    <3>3. QED
      BY <1>7, <2>2, <2>4, <3>2
  <2>5. QED
    BY <2>3, <2>4
<1>13. QED
  BY <1>5, <1>6, <1>9, <1>11, <1>12 DEF SamplerInv

\* The statements that read no meter.
LEMMA OthersPreserve == SamplerInv /\ (Start \/ Wake \/ Stamp \/ WriteLine) => SamplerInv'
<1> SUFFICES ASSUME SamplerInv, Start \/ Wake \/ Stamp \/ WriteLine PROVE SamplerInv'
  OBVIOUS
<1> USE SamplerAssumption
<1>0. SamplerTypeOK /\ Tracked /\ DeltaWithinOneUnit /\ Timing /\ IntervalBounded
  BY DEF SamplerInv
<1>1. UNCHANGED <<m, prev, delta, counter, used, since, good, truth>>
  BY DEF Start, Wake, Stamp, WriteLine, ghosts
<1>2. Tracked' /\ DeltaWithinOneUnit'
  BY <1>0, <1>1 DEF Tracked, DeltaWithinOneUnit
<1>3. \A k \in Meter : since[k] \in Nat
  BY <1>0 DEF SamplerTypeOK
<1>4. CASE Start
  <2>1. SamplerTypeOK'
    BY <1>0, <1>1, <1>4 DEF SamplerTypeOK, Start
  <2>2. Timing'
    BY <1>0, <1>1, <1>3, <1>4 DEF Timing, Start
  <2>3. IntervalBounded'
    BY <1>4 DEF Start, IntervalBounded, UpToDate
  <2>4. QED
    BY <1>2, <2>1, <2>2, <2>3 DEF SamplerInv
<1>5. CASE Wake
  <2>1. SamplerTypeOK'
    BY <1>0, <1>1, <1>5 DEF SamplerTypeOK, Wake, clocks
  <2>2. Timing'
    <3>1. Delay <= lag /\ (\A k \in Meter : lag <= since[k]) /\ m = 1
      BY <1>0, <1>5 DEF Wake, Timing, SamplerTypeOK
    <3>2. QED
      BY <1>1, <1>5, <3>1 DEF Timing, Wake, Meter
  <2>3. IntervalBounded'
    <3>1. m = 1
      BY <1>0, <1>5 DEF Wake, Timing
    <3>2. QED
      BY <1>1, <1>5, <3>1 DEF Wake, IntervalBounded, UpToDate
  <2>4. QED
    BY <1>2, <2>1, <2>2, <2>3 DEF SamplerInv
<1>6. CASE Stamp
  <2>1. SamplerTypeOK'
    BY <1>0, <1>1, <1>6 DEF SamplerTypeOK, Stamp
  <2>2. Timing'
    BY <1>0, <1>1, <1>3, <1>6 DEF Timing, Stamp
  <2>3. IntervalBounded'
    BY <1>0, <1>1, <1>6 DEF Stamp, IntervalBounded, UpToDate
  <2>4. QED
    BY <1>2, <2>1, <2>2, <2>3 DEF SamplerInv
<1>7. CASE WriteLine
  <2>1. SamplerTypeOK'
    BY <1>0, <1>1, <1>7 DEF SamplerTypeOK, WriteLine, clocks
  <2>2. Timing'
    <3>1. m = 1 /\ (\A k \in Meter : lag <= since[k]) /\ lag \in Nat
      BY <1>0, <1>7 DEF WriteLine, Timing, SamplerTypeOK
    <3>2. QED
      BY <1>1, <1>7, <3>1 DEF Timing, WriteLine, clocks
  <2>3. IntervalBounded'
    BY <1>7 DEF WriteLine, IntervalBounded, UpToDate
  <2>4. QED
    BY <1>2, <2>1, <2>2, <2>3 DEF SamplerInv
<1>8. QED
  BY <1>4, <1>5, <1>6, <1>7

\* Stuttering keeps the invariant.
LEMMA SamplerStutterPreserves == SamplerInv /\ UNCHANGED samplerVars => SamplerInv'
BY DEF SamplerInv, SamplerTypeOK, Tracked, DeltaWithinOneUnit, Timing, IntervalBounded, UpToDate,
       samplerVars, code, clocks, ghosts

-----------------------------------------------------------------------------
\* SamplerInv holds throughout.
THEOREM SamplerInvariance == SamplerSpec => []SamplerInv
<1>1. SamplerInv /\ [SamplerNext]_samplerVars => SamplerInv'
  BY TickPreserves, ReadInitialPreserves, SamplePreserves, OthersPreserve, SamplerStutterPreserves
  DEF SamplerNext, Statement, Returned
<1>2. QED
  BY SamplerInitEstablishes, <1>1, PTL DEF SamplerSpec

\* Type correctness: the loop variable of the sampling loops stays a meter.
THEOREM SamplerTypeCorrect == SamplerSpec => []SamplerTypeOK
<1>1. SamplerInv => SamplerTypeOK
  BY DEF SamplerInv
<1>2. QED
  BY SamplerInvariance, <1>1, PTL

\* Whatever the width of the counters and the length of the intervals, the
\* delta of two successful readings less than a turn of the counter apart is
\* the energy consumed or one unit less.
THEOREM WraparoundHandled == SamplerSpec => []DeltaWithinOneUnit
<1>1. SamplerInv => DeltaWithinOneUnit
  BY DEF SamplerInv
<1>2. QED
  BY SamplerInvariance, <1>1, PTL

\* A power is never computed with a time shorter than the delay or longer
\* than the time in which its energy was consumed.
THEOREM IntervalsBounded == SamplerSpec => []IntervalBounded
<1>1. SamplerInv => IntervalBounded
  BY DEF SamplerInv
<1>2. QED
  BY SamplerInvariance, <1>1, PTL
=============================================================================

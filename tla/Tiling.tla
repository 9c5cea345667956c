------------------------------- MODULE Tiling -------------------------------
(***************************************************************************)
(* The tiled matrix multiplication MatrixMultiplication/Tiling_1: work     *)
(* items in groups of L x L compute one cell of the output each.  For each *)
(* of the M / L tiles of B, every item of a group copies one element of    *)
(* the tile to local memory, waits at a barrier, adds L products of A and  *)
(* the tile to its sum, and waits at a second barrier before the tile is   *)
(* overwritten.  The items of a group interleave freely between barriers.  *)
(*                                                                         *)
(* The three kernels of matrix.cl differ in the type of the elements only; *)
(* all three keep the tile in __local int*, so the float and the double    *)
(* kernel truncate what they store there.                                  *)
(***************************************************************************)
EXTENDS Integers, Sequences

CONSTANTS
  W, H, M,     \* matrixSize, the height of A, matrixWidth
  L,           \* localSize
  ElementType, \* the kernel: "int", "float" or "double"
  Unset        \* contents of memory nobody has written

\* A group size that does not divide the global size is refused by
\* clEnqueueNDRangeKernel, and the host exits.
ASSUME TilingAssumption ==
  /\ W \in Nat \ {0} /\ H \in Nat \ {0} /\ M \in Nat \ {0} /\ L \in Nat \ {0}
  /\ W % L = 0 /\ H % L = 0
  /\ ElementType \in {"int", "float", "double"}

\* A work item is <<get_global_id(0), get_global_id(1)>>.
Item  == (0 .. W - 1) \X (0 .. H - 1)
Group == (0 .. W \div L - 1) \X (0 .. H \div L - 1)
Slot  == 0 .. L * L - 1  \* localB
Cell  == 0 .. W * H - 1  \* output

y(p)  == p[1]
x(p)  == p[2]
ly(p) == p[1] % L
lx(p) == p[2] % L
GroupOf(p) == <<p[1] \div L, p[2] \div L>>
Members(g) == {p \in Item : GroupOf(p) = g}

\* Mutant of Tiles: a tile too many.
MutTiles == M \div L + 1

Tiles == M \div L

VARIABLES
  pc,     \* pc[p]: "load", at the first barrier, "add", at the second one, "done"
  i, j,   \* the loop counters of item p
  sum,    \* sum[p]: the products added up so far, as <<index in A, value from B>>
  localB, \* localB[g]: the tile of group g
  output

vars == <<pc, i, j, sum, localB, output>>

Init ==
  /\ pc = [p \in Item |-> "load"]
  /\ i = [p \in Item |-> 0]
  /\ j = [p \in Item |-> 0]
  /\ sum = [p \in Item |-> <<>>]
  /\ localB = [g \in Group |-> [s \in Slot |-> Unset]]
  /\ output = [c \in Cell |-> Unset]

\* What is left of element n of B in __local int*: the element itself or, as
\* a number that is no index, its integer part.
Stored(n) == IF ElementType = "int" THEN n ELSE -1 - n

\* The addresses the kernel computes: where it puts its element of the tile
\* and which it is, what it adds next, and where the sum goes.
TileSlot(p)   == lx(p) * L + ly(p)
IndexB(p)     == (i[p] * L + lx(p)) * W + y(p)
IndexA(p)     == x(p) * M + i[p] * L + j[p]
ColumnSlot(p) == j[p] * L + ly(p)
IndexOut(p)   == x(p) * W + y(p)

-----------------------------------------------------------------------------

\* localB[lx * localSize + ly] = matrixB[(i * localSize + lx) * matrixSize + y]
Load(p) ==
  /\ pc[p] = "load"
  /\ i[p] < Tiles
  /\ localB' = [localB EXCEPT ![GroupOf(p)][TileSlot(p)] = Stored(IndexB(p))]
  /\ pc' = [pc EXCEPT ![p] = "barrier1"]
  /\ UNCHANGED <<i, j, sum, output>>

\* Every item of the group has to arrive before any goes on (OpenCL).
Waiting(g, b) == \A p \in Members(g) : pc[p] = b

\* Mutant of LoadBarrier: the first item to arrive lets the others go, too.
MutLoadBarrier(g) ==
  /\ \E p \in Members(g) : pc[p] = "barrier1"
  /\ pc' = [p \in Item |-> IF p \in Members(g) /\ pc[p] = "barrier1" THEN "add" ELSE pc[p]]
  /\ j' = [p \in Item |-> IF p \in Members(g) /\ pc[p] = "barrier1" THEN 0 ELSE j[p]]
  /\ UNCHANGED <<i, sum, localB, output>>

LoadBarrier(g) ==
  /\ Waiting(g, "barrier1")
  /\ pc' = [p \in Item |-> IF p \in Members(g) THEN "add" ELSE pc[p]]
  /\ j' = [p \in Item |-> IF p \in Members(g) THEN 0 ELSE j[p]]
  /\ UNCHANGED <<i, sum, localB, output>>

\* sum += matrixA[x * matrixWidth + i * localSize + j] * localB[j * localSize + ly]
Add(p) ==
  /\ pc[p] = "add"
  /\ sum' = [sum EXCEPT ![p] =
               Append(@, <<IndexA(p), localB[GroupOf(p)][ColumnSlot(p)]>>)]
  /\ j' = [j EXCEPT ![p] = @ + 1]
  /\ pc' = [pc EXCEPT ![p] = IF j[p] + 1 < L THEN "add" ELSE "barrier2"]
  /\ UNCHANGED <<i, localB, output>>

\* Mutant of AddBarrier: the second barrier is missing.
MutAddBarrier(g) ==
  /\ \E p \in Members(g) :
       /\ pc[p] = "barrier2"
       /\ pc' = [pc EXCEPT ![p] = "load"]
       /\ i' = [i EXCEPT ![p] = @ + 1]
  /\ UNCHANGED <<j, sum, localB, output>>

AddBarrier(g) ==
  /\ Waiting(g, "barrier2")
  /\ pc' = [p \in Item |-> IF p \in Members(g) THEN "load" ELSE pc[p]]
  /\ i' = [p \in Item |-> IF p \in Members(g) THEN i[p] + 1 ELSE i[p]]
  /\ UNCHANGED <<j, sum, localB, output>>

\* Mutant of Store: the cell is addressed with rows and columns swapped.
MutStore(p) ==
  /\ pc[p] = "load"
  /\ i[p] >= Tiles
  /\ output' = [output EXCEPT ![y(p) * H + x(p)] = sum[p]]
  /\ pc' = [pc EXCEPT ![p] = "done"]
  /\ UNCHANGED <<i, j, sum, localB>>

\* Mutant of Store: the item starts over instead of returning.
MutStoreRestart(p) ==
  /\ pc[p] = "load"
  /\ i[p] >= Tiles
  /\ output' = [output EXCEPT ![IndexOut(p)] = sum[p]]
  /\ i' = [i EXCEPT ![p] = 0]
  /\ sum' = [sum EXCEPT ![p] = <<>>]
  /\ UNCHANGED <<pc, j, localB>>

\* output[x * matrixSize + y] = sum
Store(p) ==
  /\ pc[p] = "load"
  /\ i[p] >= Tiles
  /\ output' = [output EXCEPT ![IndexOut(p)] = sum[p]]
  /\ pc' = [pc EXCEPT ![p] = "done"]
  /\ UNCHANGED <<i, j, sum, localB>>

AllDone == \A p \in Item : pc[p] = "done"

\* clFinish returns to the host.
Finished == AllDone /\ UNCHANGED vars

Step(p) == Load(p) \/ Add(p) \/ Store(p)
Barrier(g) == LoadBarrier(g) \/ AddBarrier(g)

Next ==
  \/ \E p \in Item : Step(p)
  \/ \E g \in Group : Barrier(g)
  \/ Finished

Spec == Init /\ [][Next]_vars

\* The device runs every work item, in whatever order it likes.
FairSpec ==
  /\ Spec
  /\ \A p \in Item : WF_vars(Step(p))
  /\ \A g \in Group : WF_vars(Barrier(g))

-----------------------------------------------------------------------------
PC == {"load", "barrier1", "add", "barrier2", "done"}

Value == {Unset} \cup Int

TypeOK ==
  /\ pc \in [Item -> PC]
  /\ i \in [Item -> 0 .. Tiles]
  /\ j \in [Item -> 0 .. L]
  /\ sum \in [Item -> Seq(Int \X Value)]
  /\ localB \in [Group -> [Slot -> Value]]
  /\ output \in [Cell -> Seq(Int \X Value) \cup {Unset}]

\* No item reads or writes outside of the buffers the host allocates, M x W
\* elements for B, H x M for A (lines 12 and 17), or outside of the tile.
InBuffers ==
  \A p \in Item :
    /\ pc[p] = "load" /\ i[p] < Tiles =>
         TileSlot(p) \in Slot /\ IndexB(p) \in 0 .. M * W - 1
    /\ pc[p] = "add" =>
         ColumnSlot(p) \in Slot /\ IndexA(p) \in 0 .. H * M - 1
    /\ pc[p] = "load" /\ i[p] >= Tiles => IndexOut(p) \in Cell

\* The slots of the tile the next step of an item writes and reads.
Writes(p) == IF pc[p] = "load" /\ i[p] < Tiles THEN {TileSlot(p)} ELSE {}
Reads(p)  == IF pc[p] = "add" THEN {ColumnSlot(p)} ELSE {}

\* Two items of a group never access the same slot at the same time with one
\* of them writing: the two barriers are enough (lines 13, 19).
NoRace ==
  \A p, q \in Item :
    (p # q /\ GroupOf(p) = GroupOf(q)) => Writes(p) \cap (Writes(q) \cup Reads(q)) = {}

\* The position of an item in the loop nest.
Added(p) == IF pc[p] \in {"add", "barrier2"} THEN i[p] * L + j[p] ELSE i[p] * L

Product(p, k) == <<x(p) * M + (k - 1), Stored((k - 1) * W + y(p))>>

\* Every partial sum is the corresponding prefix of the dot product: no item
\* ever adds a slot that still holds the previous tile or already holds the
\* next one (lines 12, 17).
PartialSums == \A p \in Item : sum[p] = [k \in 1 .. Added(p) |-> Product(p, k)]

\* The loop nest by which the host verifies the output.
MM == INSTANCE MatMul

\* Each cell is written once, with its dot product.
ImplementsMatMul == MM!MSpec

\* No barrier waits for ever.
Terminates == <>AllDone
=============================================================================

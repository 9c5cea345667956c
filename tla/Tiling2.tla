------------------------------- MODULE Tiling2 -------------------------------
(***************************************************************************)
(* MatrixMultiplication/Tiling_2: as Tiling_1, but the items of a group    *)
(* copy a tile of A to local memory, too.  What the two kernels share is   *)
(* taken from module Tiling: the geometry, the copy of B, the barriers and *)
(* the store of the result.                                                *)
(*                                                                         *)
(* Here an element of a sum is <<value from A, value from B>>.  The kernel *)
(* addresses row x of A as x * matrixSize, although A has matrixWidth      *)
(* columns, so it reads the right elements only if the two are equal.      *)
(***************************************************************************)
EXTENDS Tiling

VARIABLE localA \* localA[g]: the tile of A of group g

vars2 == <<vars, localA>>

Init2 ==
  /\ Init
  /\ localA = [g \in Group |-> [s \in Slot |-> Unset]]

\* Mutant of StrideIndexA: the two coordinates of the item are swapped.
MutStrideIndexA(p) == y(p) * W + i[p] * L + lx(p)

\* The addresses of what the kernel copies from A, and of what it adds next.
StrideIndexA(p) == x(p) * W + i[p] * L + ly(p)
RowSlot(p)      == lx(p) * L + j[p]

\* Mutant of LoadTiles: the tile of A is stored transposed.
MutLoadTiles(p) ==
  /\ Load(p)
  /\ localA' = [localA EXCEPT ![GroupOf(p)][ly(p) * L + lx(p)] = Stored(StrideIndexA(p))]

\* localA[lx * localSize + ly] = matrixA[x * matrixSize + i * localSize + ly]
\* and the copy of B, before the first barrier.
LoadTiles(p) ==
  /\ Load(p)
  /\ localA' = [localA EXCEPT ![GroupOf(p)][TileSlot(p)] = Stored(StrideIndexA(p))]

\* sum += localA[lx * localSize + j] * localB[j * localSize + ly]
AddTiles(p) ==
  /\ pc[p] = "add"
  /\ sum' = [sum EXCEPT ![p] =
               Append(@, <<localA[GroupOf(p)][RowSlot(p)], localB[GroupOf(p)][ColumnSlot(p)]>>)]
  /\ j' = [j EXCEPT ![p] = @ + 1]
  /\ pc' = [pc EXCEPT ![p] = IF j[p] + 1 < L THEN "add" ELSE "barrier2"]
  /\ UNCHANGED <<i, localB, output, localA>>

Step2(p) == LoadTiles(p) \/ AddTiles(p) \/ (Store(p) /\ UNCHANGED localA)

Next2 ==
  \/ \E p \in Item : Step2(p)
  \/ \E g \in Group : Barrier(g) /\ UNCHANGED localA
  \/ Finished /\ UNCHANGED localA

Spec2 == Init2 /\ [][Next2]_vars2

FairSpec2 ==
  /\ Spec2
  /\ \A p \in Item : WF_vars2(Step2(p))
  /\ \A g \in Group : WF_vars2(Barrier(g) /\ UNCHANGED localA)

-----------------------------------------------------------------------------
TypeOK2 ==
  /\ pc \in [Item -> PC]
  /\ i \in [Item -> 0 .. Tiles]
  /\ j \in [Item -> 0 .. L]
  /\ sum \in [Item -> Seq(Value \X Value)]
  /\ localA \in [Group -> [Slot -> Value]]
  /\ localB \in [Group -> [Slot -> Value]]
  /\ output \in [Cell -> Seq(Value \X Value) \cup {Unset}]

\* No item leaves the tiles or the buffers of B and of the output, and none
\* leaves A, of H x M elements, unless B is wider than A: the width of B as
\* stride (line 12) then leads behind A's last row.
InBuffers2 ==
  \A p \in Item :
    /\ pc[p] = "load" /\ i[p] < Tiles =>
         /\ TileSlot(p) \in Slot /\ IndexB(p) \in 0 .. M * W - 1
         /\ W <= M => StrideIndexA(p) \in 0 .. H * M - 1
    /\ pc[p] = "add" => RowSlot(p) \in Slot /\ ColumnSlot(p) \in Slot
    /\ pc[p] = "load" /\ i[p] >= Tiles => IndexOut(p) \in Cell

\* The slots of localA the next step of an item reads.
ReadsA(p) == IF pc[p] = "add" THEN {RowSlot(p)} ELSE {}

\* A row of localA is shared by the items of a row of the group, a column of
\* localB by those of a column: one pair of barriers protects both.
NoRace2 ==
  \A p, q \in Item :
    (p # q /\ GroupOf(p) = GroupOf(q)) =>
      Writes(p) \cap (Writes(q) \cup Reads(q) \cup ReadsA(q)) = {}

\* Element k of the sum of item p pairs what the kernel takes for column k of
\* row x of A with row k of column y of B.
PartialSums2 ==
  \A p \in Item :
    sum[p] = [k \in 1 .. Added(p) |-> <<Stored(x(p) * W + (k - 1)), Stored((k - 1) * W + y(p))>>]

\* For square matrices every cell is written once, with its dot product.
ImplementsMatMul2 == MM!MSpec
=============================================================================

---------------------------- MODULE Tiling_proofs ----------------------------
(***************************************************************************)
(* Theorems about modules Tiling and Tiling2, for all matrix and group     *)
(* sizes.  What the two kernels have in common is in Control: the items of *)
(* a group are in the same half of the same iteration (Together), which is *)
(* what the barriers are for, and an item past its load finds the element  *)
(* it copied still in place (TileLoaded).  The invariants of the kernels   *)
(* add what each of them sums up.                                          *)
(***************************************************************************)
EXTENDS Tiling2, TLAPS

USE DEF TileSlot, ColumnSlot, RowSlot, IndexA, StrideIndexA, IndexB, IndexOut

\* Multiplication with a natural number keeps the order.
LEMMA MulMonotone ==
  ASSUME NEW a \in Int, NEW b \in Int, NEW n \in Nat, a <= b
  PROVE  a * n <= b * n
<1>1. (b - a) * n >= 0
  OBVIOUS
<1>2. QED
  BY <1>1

\* A flat index a * n + b is taken apart again by \div and %.
LEMMA DivModUnique ==
  ASSUME NEW a \in Nat, NEW n \in Nat \ {0}, NEW b \in 0 .. n - 1
  PROVE  /\ a * n + b \in Nat
         /\ (a * n + b) \div n = a
         /\ (a * n + b) % n = b
<1>1. a * n \in Nat
  BY MulMonotone
<1>2. QED
  BY <1>1

\* So two flat indices are equal only if their parts are.
LEMMA FlatInjective ==
  ASSUME NEW n \in Nat \ {0}, NEW a \in Nat, NEW b \in 0 .. n - 1,
         NEW c \in Nat, NEW d \in 0 .. n - 1, a * n + b = c * n + d
  PROVE  a = c /\ b = d
BY DivModUnique

\* Division with remainder.
LEMMA DivMod ==
  ASSUME NEW a \in Nat, NEW n \in Nat \ {0}
  PROVE  /\ a \div n \in Nat
         /\ a % n \in 0 .. n - 1
         /\ a = (a \div n) * n + (a % n)
OBVIOUS


InPlace ==
  \A p \in Item :
    /\ pc[p] \in {"barrier1", "add", "barrier2"} => i[p] < Tiles
    /\ pc[p] = "add" => j[p] < L
    /\ pc[p] = "barrier2" => j[p] = L
    /\ pc[p] = "done" => i[p] = Tiles

Together ==
  \A p, q \in Item :
    GroupOf(p) = GroupOf(q) =>
      /\ i[p] = i[q]
      /\ pc[p] \in {"add", "barrier2"} => pc[q] \in {"add", "barrier2"}
      /\ pc[p] = "barrier1" => pc[q] \in {"load", "barrier1"}

TileLoaded ==
  \A p \in Item :
    pc[p] \in {"barrier1", "add", "barrier2"} =>
      localB[GroupOf(p)][lx(p) * L + ly(p)] = Stored((i[p] * L + lx(p)) * W + y(p))

OutputOwned ==
  \A p \in Item : output[x(p) * W + y(p)] = IF pc[p] = "done" THEN sum[p] ELSE Unset

Control ==
  /\ pc \in [Item -> PC]
  /\ i \in [Item -> 0 .. Tiles]
  /\ j \in [Item -> 0 .. L]
  /\ localB \in [Group -> [Slot -> Value]]
  /\ InPlace /\ Together /\ TileLoaded

\* The loop nests don't advance, and nobody returns.
AddedStays == \A q \in Item : Added(q)' = Added(q)
DoneStays == \A q \in Item : pc'[q] = "done" <=> pc[q] = "done"

TilingInv == TypeOK /\ Control /\ PartialSums /\ OutputOwned

TileLoadedA ==
  /\ localA \in [Group -> [Slot -> Value]]
  /\ \A p \in Item :
       pc[p] \in {"barrier1", "add", "barrier2"} =>
         localA[GroupOf(p)][lx(p) * L + ly(p)] = Stored(x(p) * W + i[p] * L + ly(p))

TilingInv2 == TypeOK2 /\ Control /\ TileLoadedA /\ PartialSums2 /\ OutputOwned

-----------------------------------------------------------------------------
(* Geometry.                                                               *)

\* The sizes are positive, and groups fill the matrix.
LEMMA Sizes ==
  /\ W \in Nat \ {0} /\ H \in Nat \ {0} /\ M \in Nat \ {0} /\ L \in Nat \ {0}
  /\ Tiles \in Nat /\ Tiles * L <= M
  /\ W \div L \in Nat /\ W = (W \div L) * L
  /\ H \div L \in Nat /\ H = (H \div L) * L
<1>1. Tiles \in Nat /\ M % L \in 0 .. L - 1 /\ M = Tiles * L + (M % L)
  BY TilingAssumption, DivMod DEF Tiles
<1>2. Tiles * L <= M
  <2>1. Tiles * L \in Int
    BY <1>1, TilingAssumption
  <2>2. QED
    BY <1>1, <2>1, TilingAssumption
<1>3. W \div L \in Nat /\ W = (W \div L) * L + (W % L)
  BY TilingAssumption, DivMod
<1>4. H \div L \in Nat /\ H = (H \div L) * L + (H % L)
  BY TilingAssumption, DivMod
<1>5. QED
  BY <1>1, <1>2, <1>3, <1>4, TilingAssumption

\* A quotient by L of a number below n * L is below n.
LEMMA QuotientBound ==
  ASSUME NEW a \in Nat, NEW n \in Nat, a < n * L
  PROVE  a \div L \in 0 .. n - 1
<1>1. a \div L \in Nat /\ a % L \in 0 .. L - 1 /\ a = (a \div L) * L + (a % L)
  BY TilingAssumption, DivMod
<1>2. SUFFICES ASSUME a \div L >= n PROVE FALSE
  BY <1>1
<1>3. n * L <= (a \div L) * L
  BY <1>1, <1>2, TilingAssumption, MulMonotone
<1>4. (a \div L) * L \in Int /\ n * L \in Int
  BY <1>1, TilingAssumption
<1>5. QED
  BY <1>1, <1>3, <1>4, TilingAssumption

\* A flat index into a rows of b columns is below a * b.
LEMMA FlatBound ==
  ASSUME NEW a \in Nat, NEW b \in Nat, NEW r \in 0 .. a - 1, NEW c \in 0 .. b - 1
  PROVE  r * b + c \in 0 .. a * b - 1
<1>1. (r + 1) * b <= a * b
  BY MulMonotone
<1>2. (r + 1) * b = r * b + b /\ r * b \in Nat /\ a * b \in Nat
  <2>1. r * b \in Int /\ a * b \in Int /\ 0 * b <= r * b /\ 0 * b <= a * b
    BY MulMonotone
  <2>2. QED
    BY <2>1
<1>3. QED
  BY <1>1, <1>2

\* The coordinates of an item are in range, globally and in its group.
LEMMA Coordinates ==
  ASSUME NEW p \in Item
  PROVE  /\ y(p) \in 0 .. W - 1 /\ x(p) \in 0 .. H - 1 /\ p = <<y(p), x(p)>>
         /\ ly(p) \in 0 .. L - 1 /\ lx(p) \in 0 .. L - 1
         /\ p[1] \div L \in Nat /\ p[2] \div L \in Nat
         /\ y(p) = (p[1] \div L) * L + ly(p)
         /\ x(p) = (p[2] \div L) * L + lx(p)
<1>1. y(p) \in 0 .. W - 1 /\ x(p) \in 0 .. H - 1 /\ p = <<y(p), x(p)>>
  BY TilingAssumption DEF Item, x, y
<1>2. y(p) \in Nat /\ x(p) \in Nat
  BY <1>1
<1>3. /\ y(p) % L \in 0 .. L - 1 /\ x(p) % L \in 0 .. L - 1
      /\ y(p) \div L \in Nat /\ x(p) \div L \in Nat
      /\ y(p) = (y(p) \div L) * L + (y(p) % L)
      /\ x(p) = (x(p) \div L) * L + (x(p) % L)
  BY <1>2, TilingAssumption, DivMod
<1>4. QED
  BY <1>1, <1>3 DEF x, y, lx, ly

\* Every item is in a group.
LEMMA ItemGroup ==
  ASSUME NEW p \in Item
  PROVE  GroupOf(p) \in Group
<1>1. p[1] \in 0 .. W - 1 /\ p[2] \in 0 .. H - 1
  BY DEF Item
<1>2. p[1] \div L \in 0 .. (W \div L) - 1
  BY <1>1, Sizes, QuotientBound
<1>3. p[2] \div L \in 0 .. (H \div L) - 1
  BY <1>1, Sizes, QuotientBound
<1>4. QED
  BY <1>2, <1>3 DEF GroupOf, Group

\* Every item has a slot of the tile.
LEMMA ItemSlot ==
  ASSUME NEW p \in Item, NEW k \in 0 .. L - 1
  PROVE  /\ lx(p) * L + ly(p) \in Slot
         /\ k * L + ly(p) \in Slot
<1>1. ly(p) \in 0 .. L - 1 /\ lx(p) \in 0 .. L - 1
  BY Coordinates
<1>2. QED
  BY <1>1, FlatBound, TilingAssumption DEF Slot

\* Two items of a group have different slots.
LEMMA SlotsDiffer ==
  ASSUME NEW p \in Item, NEW q \in Item, GroupOf(p) = GroupOf(q),
         lx(p) * L + ly(p) = lx(q) * L + ly(q)
  PROVE  p = q
<1>1. /\ ly(p) \in 0 .. L - 1 /\ lx(p) \in 0 .. L - 1
      /\ ly(q) \in 0 .. L - 1 /\ lx(q) \in 0 .. L - 1
  BY Coordinates
<1>2. lx(p) = lx(q) /\ ly(p) = ly(q)
  <2>1. L \in Nat \ {0} /\ lx(p) \in Nat /\ lx(q) \in Nat
    BY <1>1, TilingAssumption
  <2>2. QED
    BY <1>1, <2>1, FlatInjective
<1>3. p[1] \div L = q[1] \div L /\ p[2] \div L = q[2] \div L
  BY DEF GroupOf
<1>4. y(p) = y(q) /\ x(p) = x(q)
  <2>1. /\ y(p) = (p[1] \div L) * L + ly(p) /\ y(q) = (q[1] \div L) * L + ly(q)
        /\ x(p) = (p[2] \div L) * L + lx(p) /\ x(q) = (q[2] \div L) * L + lx(q)
    BY Coordinates
  <2>2. QED
    BY <1>2, <1>3, <2>1
<1>5. p = <<y(p), x(p)>> /\ q = <<y(q), x(q)>>
  BY Coordinates
<1>6. QED
  BY <1>4, <1>5

\* Row k of the tile was copied by the item of the group above or below p.
LEMMA Column ==
  ASSUME NEW p \in Item, NEW k \in 0 .. L - 1
  PROVE  \E q \in Item : /\ GroupOf(q) = GroupOf(p)
                         /\ lx(q) = k /\ ly(q) = ly(p) /\ y(q) = y(p)
<1> DEFINE r == (p[2] \div L) * L + k
           q == <<p[1], r>>
<1>1. p[2] \div L \in 0 .. (H \div L) - 1 /\ p[1] \in 0 .. W - 1
  BY ItemGroup, Coordinates DEF GroupOf, Group, y
<1>2. r \in 0 .. H - 1
  BY <1>1, Sizes, FlatBound
<1>3. r \div L = p[2] \div L /\ r % L = k
  <2>1. p[2] \div L \in Nat /\ L \in Nat \ {0}
    BY <1>1, TilingAssumption
  <2>2. QED
    BY <2>1, DivModUnique
<1>4. q \in Item
  BY <1>1, <1>2 DEF Item
<1>5. GroupOf(q) = GroupOf(p) /\ lx(q) = k /\ ly(q) = ly(p) /\ y(q) = y(p)
  BY <1>3 DEF GroupOf, lx, ly, y
<1>6. QED
  BY <1>4, <1>5

\* Column k of the tile of A was copied by the item of the group left or right of p.
LEMMA Row ==
  ASSUME NEW p \in Item, NEW k \in 0 .. L - 1
  PROVE  \E q \in Item : /\ GroupOf(q) = GroupOf(p)
                         /\ ly(q) = k /\ lx(q) = lx(p) /\ x(q) = x(p)
<1> DEFINE r == (p[1] \div L) * L + k
           q == <<r, p[2]>>
<1>1. p[1] \div L \in 0 .. (W \div L) - 1 /\ p[2] \in 0 .. H - 1
  BY ItemGroup, Coordinates DEF GroupOf, Group, x
<1>2. r \in 0 .. W - 1
  BY <1>1, Sizes, FlatBound
<1>3. r \div L = p[1] \div L /\ r % L = k
  <2>1. p[1] \div L \in Nat /\ L \in Nat \ {0}
    BY <1>1, TilingAssumption
  <2>2. QED
    BY <2>1, DivModUnique
<1>4. q \in Item
  BY <1>1, <1>2 DEF Item
<1>5. GroupOf(q) = GroupOf(p) /\ ly(q) = k /\ lx(q) = lx(p) /\ x(q) = x(p)
  BY <1>3 DEF GroupOf, lx, ly, x
<1>6. QED
  BY <1>4, <1>5

\* The cell an item computes, and the host's reading of its index.
LEMMA ItemCell ==
  ASSUME NEW p \in Item
  PROVE  /\ x(p) * W + y(p) \in Cell
         /\ (x(p) * W + y(p)) \div W = x(p)
         /\ (x(p) * W + y(p)) % W = y(p)
<1>1. y(p) \in 0 .. W - 1 /\ x(p) \in 0 .. H - 1 /\ x(p) \in Nat
  BY Coordinates, TilingAssumption
<1>2. x(p) * W + y(p) \in 0 .. H * W - 1
  BY <1>1, TilingAssumption, FlatBound
<1>3. H * W = W * H
  BY TilingAssumption
<1>4. QED
  BY <1>1, <1>2, <1>3, TilingAssumption, DivModUnique DEF Cell

\* Different items write different cells.
LEMMA CellsDiffer ==
  ASSUME NEW p \in Item, NEW q \in Item, x(p) * W + y(p) = x(q) * W + y(q)
  PROVE  p = q
<1>1. x(p) = x(q) /\ y(p) = y(q)
  BY ItemCell
<1>2. p = <<y(p), x(p)>> /\ q = <<y(q), x(q)>>
  BY Coordinates
<1>3. QED
  BY <1>1, <1>2

\* What is stored in a tile is a value.
LEMMA StoredValue ==
  ASSUME NEW n \in Int
  PROVE  Stored(n) \in Value
BY DEF Stored, Value

\* The element of B an item copies has an integer index.
LEMMA ItemIndices ==
  ASSUME NEW p \in Item, NEW t \in Nat, NEW k \in 0 .. L - 1
  PROVE  /\ (t * L + k) * W + y(p) \in Int
         /\ x(p) * W + t * L + k \in Int
         /\ x(p) * M + t * L + k \in Int
         /\ t * L + k \in Nat
<1>1. y(p) \in Int /\ x(p) \in Int
  BY Coordinates
<1>2. t * L \in Nat
  BY TilingAssumption, MulMonotone
<1>3. t * L + k \in Nat
  BY <1>2
<1>4. (t * L + k) * W \in Int /\ x(p) * M \in Int /\ x(p) * W \in Int
  BY <1>1, <1>3, TilingAssumption
<1>5. (t * L + k) * W + y(p) \in Int
  BY <1>1, <1>4
<1>6. x(p) * W + t * L + k \in Int /\ x(p) * M + t * L + k \in Int
  BY <1>2, <1>4
<1>7. QED
  BY <1>3, <1>5, <1>6

\* Adding the next term to a prefix of a sum.
LEMMA AppendNext ==
  ASSUME NEW S, NEW f \in [Nat \ {0} -> S], NEW n \in Nat
  PROVE  Append([k \in 1 .. n |-> f[k]], f[n + 1]) = [k \in 1 .. n + 1 |-> f[k]]
<1> DEFINE s == [k \in 1 .. n |-> f[k]]
<1>1. s \in Seq(S) /\ Len(s) = n /\ f[n + 1] \in S
  OBVIOUS
<1>2. \A k \in 1 .. n : s[k] = f[k]
  OBVIOUS
<1> HIDE DEF s
<1>3. /\ Append(s, f[n + 1]) \in Seq(S)
      /\ Len(Append(s, f[n + 1])) = n + 1
      /\ \A k \in 1 .. n : Append(s, f[n + 1])[k] = s[k]
      /\ Append(s, f[n + 1])[n + 1] = f[n + 1]
  BY <1>1
<1>4. \A k \in 1 .. n + 1 : Append(s, f[n + 1])[k] = f[k]
  <2>1. SUFFICES ASSUME NEW k \in 1 .. n + 1
                 PROVE  Append(s, f[n + 1])[k] = f[k]
    OBVIOUS
  <2>2. k \in 1 .. n \/ k = n + 1
    OBVIOUS
  <2>3. QED
    BY <1>2, <1>3, <2>2
<1>5. Append(s, f[n + 1]) = [k \in 1 .. n + 1 |-> Append(s, f[n + 1])[k]]
  BY <1>3
<1>6. QED
  BY <1>4, <1>5 DEF s

\* The first kernel's sum.
LEMMA NextProduct ==
  ASSUME NEW p \in Item, NEW n \in Nat
  PROVE  Append([k \in 1 .. n |-> Product(p, k)], Product(p, n + 1))
           = [k \in 1 .. n + 1 |-> Product(p, k)]
<1> DEFINE f == [k \in Nat \ {0} |-> Product(p, k)]
<1>1. f \in [Nat \ {0} -> {f[k] : k \in Nat \ {0}}]
  OBVIOUS
<1>2. Append([k \in 1 .. n |-> f[k]], f[n + 1]) = [k \in 1 .. n + 1 |-> f[k]]
  <2> HIDE DEF f
  <2>1. QED
    BY <1>1, AppendNext
<1>3. f[n + 1] = Product(p, n + 1) /\ \A k \in 1 .. n + 1 : f[k] = Product(p, k)
  OBVIOUS
<1>4. \A k \in 1 .. n : f[k] = Product(p, k)
  OBVIOUS
<1>5. QED
  BY <1>2, <1>3, <1>4

\* The second kernel's sum, whose terms are values of both tiles.
Product2(p, k) == <<Stored(x(p) * W + (k - 1)), Stored((k - 1) * W + y(p))>>

LEMMA NextProduct2 ==
  ASSUME NEW p \in Item, NEW n \in Nat
  PROVE  Append([k \in 1 .. n |-> Product2(p, k)], Product2(p, n + 1))
           = [k \in 1 .. n + 1 |-> Product2(p, k)]
<1> DEFINE f == [k \in Nat \ {0} |-> Product2(p, k)]
<1>1. f \in [Nat \ {0} -> {f[k] : k \in Nat \ {0}}]
  OBVIOUS
<1>2. Append([k \in 1 .. n |-> f[k]], f[n + 1]) = [k \in 1 .. n + 1 |-> f[k]]
  <2> HIDE DEF f
  <2>1. QED
    BY <1>1, AppendNext
<1>3. f[n + 1] = Product2(p, n + 1) /\ \A k \in 1 .. n + 1 : f[k] = Product2(p, k)
  OBVIOUS
<1>4. \A k \in 1 .. n : f[k] = Product2(p, k)
  OBVIOUS
<1>5. QED
  BY <1>2, <1>3, <1>4

-----------------------------------------------------------------------------
(* The steps of both kernels.                                              *)

\* The common part holds before a kernel starts.
LEMMA ControlInit == Init => Control /\ OutputOwned
<1> SUFFICES ASSUME Init PROVE Control /\ OutputOwned
  OBVIOUS
<1> USE DEF Init
<1>1. /\ pc \in [Item -> PC] /\ i \in [Item -> 0 .. Tiles] /\ j \in [Item -> 0 .. L]
      /\ localB \in [Group -> [Slot -> Value]]
  BY Sizes, TilingAssumption DEF PC, Value
<1>2. InPlace /\ Together /\ TileLoaded
  BY DEF InPlace, Together, TileLoaded
<1>3. OutputOwned
  BY ItemCell DEF OutputOwned
<1>4. QED
  BY <1>1, <1>2, <1>3 DEF Control

\* Nothing has been added yet.
LEMMA NothingAdded == Init => \A p \in Item : Added(p) = 0 /\ sum[p] = <<>>
BY TilingAssumption DEF Init, Added

\* Loading an element.
LEMMA LoadKeepsControl ==
  ASSUME Control, NEW p \in Item, Load(p)
  PROVE  Control' /\ AddedStays /\ DoneStays
<1> DEFINE g == GroupOf(p)
           s == lx(p) * L + ly(p)
           v == Stored((i[p] * L + lx(p)) * W + y(p))
<1> USE DEF Control
<1>0. /\ pc[p] = "load" /\ i[p] < Tiles
      /\ localB' = [localB EXCEPT ![g][s] = v]
      /\ pc' = [pc EXCEPT ![p] = "barrier1"]
      /\ UNCHANGED <<i, j, sum, output>>
  BY DEF Load
<1>1. g \in Group /\ s \in Slot /\ v \in Value
  <2>1. ly(p) \in 0 .. L - 1 /\ lx(p) \in 0 .. L - 1 /\ i[p] \in Nat
    BY Coordinates, Sizes
  <2>2. QED
    BY <2>1, ItemGroup, ItemSlot, ItemIndices, StoredValue
<1> HIDE DEF g, s, v
<1>2. localB' \in [Group -> [Slot -> Value]] /\ pc' \in [Item -> PC]
  BY <1>0, <1>1 DEF PC
<1>3. \A q \in Item : pc'[q] = IF q = p THEN "barrier1" ELSE pc[q]
  BY <1>0
<1>4. InPlace'
  BY <1>0, <1>3 DEF InPlace
<1>5. Together'
  <2>1. ASSUME NEW q \in Item, GroupOf(q) = GroupOf(p)
        PROVE  pc[q] \in {"load", "barrier1"}
    <3>1. i[q] = i[p] /\ pc[q] \notin {"add", "barrier2"}
      BY <1>0, <2>1 DEF Together
    <3>2. pc[q] # "done"
      BY <1>0, <3>1, Sizes DEF InPlace
    <3>3. QED
      BY <1>0, <3>1, <3>2 DEF PC
  <2>2. QED
    BY <1>0, <1>3, <2>1 DEF Together
<1>6. TileLoaded'
  <2>1. SUFFICES ASSUME NEW q \in Item, pc'[q] \in {"barrier1", "add", "barrier2"}
                 PROVE  localB'[GroupOf(q)][lx(q) * L + ly(q)] = Stored((i[q] * L + lx(q)) * W + y(q))
    BY <1>0 DEF TileLoaded
  <2>2. GroupOf(q) \in Group /\ lx(q) * L + ly(q) \in Slot
    <3>1. 0 \in 0 .. L - 1
      BY TilingAssumption
    <3>2. QED
      BY <3>1, ItemGroup, ItemSlot
  <2>3. CASE q = p
    BY <1>0, <1>1, <2>2, <2>3 DEF g, s, v
  <2>4. CASE q # p
    <3>1. localB[GroupOf(q)][lx(q) * L + ly(q)] = Stored((i[q] * L + lx(q)) * W + y(q))
      BY <1>0, <1>3, <2>1, <2>4 DEF TileLoaded
    <3>2. GroupOf(q) # g \/ lx(q) * L + ly(q) # s
      BY <2>4, SlotsDiffer DEF g, s
    <3>3. QED
      BY <1>0, <1>1, <2>2, <3>1, <3>2
  <2>5. QED
    BY <2>3, <2>4
<1>7. AddedStays /\ DoneStays
  BY <1>0, <1>3 DEF AddedStays, DoneStays, Added
<1>8. QED
  BY <1>0, <1>2, <1>4, <1>5, <1>6, <1>7

\* Passing the first barrier.
LEMMA LoadBarrierKeepsControl ==
  ASSUME Control, NEW g \in Group, LoadBarrier(g)
  PROVE  Control' /\ AddedStays /\ DoneStays
<1> USE DEF Control
<1>0. /\ \A p \in Item : GroupOf(p) = g => pc[p] = "barrier1"
      /\ pc' = [p \in Item |-> IF GroupOf(p) = g THEN "add" ELSE pc[p]]
      /\ j' = [p \in Item |-> IF GroupOf(p) = g THEN 0 ELSE j[p]]
      /\ UNCHANGED <<i, sum, localB, output>>
  BY DEF LoadBarrier, Waiting, Members
<1>1. pc' \in [Item -> PC] /\ j' \in [Item -> 0 .. L]
  BY <1>0, TilingAssumption DEF PC
<1>2. InPlace'
  BY <1>0, TilingAssumption DEF InPlace
<1>3. Together'
  BY <1>0 DEF Together
<1>4. TileLoaded'
  BY <1>0 DEF TileLoaded
<1>5. AddedStays
  <2>1. SUFFICES ASSUME NEW p \in Item PROVE Added(p)' = Added(p)
    BY DEF AddedStays
  <2>2. i[p] \in Nat /\ i[p] * L \in Int
    BY Sizes
  <2>3. QED
    BY <1>0, <2>2 DEF Added
<1>6. DoneStays
  BY <1>0 DEF DoneStays
<1>7. QED
  BY <1>0, <1>1, <1>2, <1>3, <1>4, <1>5, <1>6

\* Passing the second barrier.
LEMMA AddBarrierKeepsControl ==
  ASSUME Control, NEW g \in Group, AddBarrier(g)
  PROVE  Control' /\ AddedStays /\ DoneStays
<1> USE DEF Control
<1>0. /\ \A p \in Item : GroupOf(p) = g => pc[p] = "barrier2"
      /\ pc' = [p \in Item |-> IF GroupOf(p) = g THEN "load" ELSE pc[p]]
      /\ i' = [p \in Item |-> IF GroupOf(p) = g THEN i[p] + 1 ELSE i[p]]
      /\ UNCHANGED <<j, sum, localB, output>>
  BY DEF AddBarrier, Waiting, Members
<1>1. pc' \in [Item -> PC] /\ i' \in [Item -> 0 .. Tiles]
  <2>1. pc' \in [Item -> PC]
    BY <1>0 DEF PC
  <2>2. \A p \in Item : GroupOf(p) = g => i[p] + 1 \in 0 .. Tiles
    BY <1>0, Sizes DEF InPlace
  <2>3. QED
    BY <1>0, <2>1, <2>2
<1>2. InPlace'
  BY <1>0 DEF InPlace
<1>3. Together'
  BY <1>0 DEF Together
<1>4. TileLoaded'
  BY <1>0 DEF TileLoaded
<1>5. AddedStays
  <2>1. SUFFICES ASSUME NEW p \in Item PROVE Added(p)' = Added(p)
    BY DEF AddedStays
  <2>2. i[p] \in Nat /\ i[p] * L \in Int /\ (i[p] + 1) * L = i[p] * L + L
    BY Sizes
  <2>3. QED
    BY <1>0, <2>2 DEF Added, InPlace
<1>6. DoneStays
  BY <1>0 DEF DoneStays
<1>7. QED
  BY <1>0, <1>1, <1>2, <1>3, <1>4, <1>5, <1>6

\* Storing a result.
LEMMA StoreKeepsControl ==
  ASSUME Control, NEW p \in Item, Store(p)
  PROVE  Control' /\ AddedStays
<1> USE DEF Control
<1>0. /\ pc[p] = "load" /\ i[p] >= Tiles
      /\ pc' = [pc EXCEPT ![p] = "done"]
      /\ UNCHANGED <<i, j, sum, localB>>
  BY DEF Store
<1>1. i[p] = Tiles
  <2>1. i[p] \in 0 .. Tiles /\ Tiles \in Nat
    BY Sizes
  <2>2. QED
    BY <1>0, <2>1
<1>2. \A q \in Item : pc'[q] = IF q = p THEN "done" ELSE pc[q]
  BY <1>0
<1>3. pc' \in [Item -> PC]
  BY <1>0 DEF PC
<1>4. InPlace'
  BY <1>0, <1>1, <1>2 DEF InPlace
<1>5. Together'
  <2>1. SUFFICES ASSUME NEW q \in Item, NEW r \in Item, GroupOf(q) = GroupOf(r)
                 PROVE  /\ i[q] = i[r]
                        /\ pc'[q] \in {"add", "barrier2"} => pc'[r] \in {"add", "barrier2"}
                        /\ pc'[q] = "barrier1" => pc'[r] \in {"load", "barrier1"}
    BY <1>0 DEF Together
  <2>2. i[q] = i[r]
    BY <1>0, <2>1 DEF Together
  <2>3. ASSUME pc'[q] \in {"add", "barrier2"} PROVE pc'[r] \in {"add", "barrier2"}
    BY <1>0, <1>2, <2>1, <2>3 DEF Together
  <2>4. ASSUME pc'[q] = "barrier1" PROVE pc'[r] \in {"load", "barrier1"}
    <3>1. q # p /\ pc[q] = "barrier1" /\ i[q] < Tiles
      BY <1>0, <1>2, <2>4 DEF InPlace
    <3>2. r # p
      BY <1>0, <1>1, <2>2, <3>1, Sizes
    <3>3. QED
      BY <1>0, <1>2, <2>1, <3>1, <3>2 DEF Together
  <2>5. QED
    BY <2>2, <2>3, <2>4
<1>6. TileLoaded'
  BY <1>0, <1>2 DEF TileLoaded
<1>7. AddedStays
  BY <1>0, <1>2 DEF AddedStays, Added
<1>8. QED
  BY <1>0, <1>3, <1>4, <1>5, <1>6, <1>7

\* Adding a product, whatever is added.
LEMMA AddKeepsControl ==
  ASSUME Control, NEW p \in Item, pc[p] = "add",
         j' = [j EXCEPT ![p] = @ + 1],
         pc' = [pc EXCEPT ![p] = IF j[p] + 1 < L THEN "add" ELSE "barrier2"],
         UNCHANGED <<i, localB>>
  PROVE  /\ Control' /\ DoneStays
         /\ Added(p) = i[p] * L + j[p] /\ Added(p) \in Nat /\ Added(p)' = Added(p) + 1
         /\ \A q \in Item : q # p => Added(q)' = Added(q)
<1> USE DEF Control
<1>1. j[p] \in 0 .. L - 1 /\ i[p] \in Nat /\ i[p] < Tiles
  BY Sizes DEF InPlace
<1>2. /\ \A q \in Item : j'[q] = IF q = p THEN j[p] + 1 ELSE j[q]
      /\ \A q \in Item : pc'[q] = IF q = p THEN (IF j[p] + 1 < L THEN "add" ELSE "barrier2")
                                   ELSE pc[q]
  OBVIOUS
<1>3. j[p] + 1 \in 0 .. L /\ (j[p] + 1 < L \/ j[p] + 1 = L)
  BY <1>1, TilingAssumption
<1>4. j' \in [Item -> 0 .. L] /\ pc' \in [Item -> PC]
  BY <1>3 DEF PC
<1>5. InPlace'
  BY <1>1, <1>2, <1>3 DEF InPlace
<1>6. Together'
  BY <1>2 DEF Together
<1>7. TileLoaded'
  BY <1>2 DEF TileLoaded
<1>8. DoneStays /\ \A q \in Item : q # p => Added(q)' = Added(q)
  BY <1>2 DEF DoneStays, Added
<1>9. Added(p) = i[p] * L + j[p] /\ Added(p) \in Nat /\ Added(p)' = Added(p) + 1
  <2>1. i[p] * L + j[p] \in Nat /\ i[p] * L \in Int
    BY <1>1, ItemIndices, TilingAssumption
  <2>2. Added(p) = i[p] * L + j[p] /\ Added(p)' = i[p] * L + (j[p] + 1)
    BY <1>2 DEF Added
  <2>3. QED
    BY <1>1, <2>1, <2>2
<1>10. QED
  BY <1>4, <1>5, <1>6, <1>7, <1>8, <1>9

\* The slot of the tile of B an item adds holds the element of this
\* iteration: whoever copied it is in the same half of the iteration.
LEMMA AddsElementOfB ==
  ASSUME Control, NEW p \in Item, pc[p] = "add"
  PROVE  localB[GroupOf(p)][j[p] * L + ly(p)] = Stored((i[p] * L + j[p]) * W + y(p))
<1>1. j[p] \in 0 .. L - 1
  BY TilingAssumption DEF Control, InPlace
<1>2. PICK q \in Item : /\ GroupOf(q) = GroupOf(p)
                        /\ lx(q) = j[p] /\ ly(q) = ly(p) /\ y(q) = y(p)
  BY <1>1, Column
<1>3. i[q] = i[p] /\ pc[q] \in {"add", "barrier2"}
  BY <1>2 DEF Control, Together
<1>4. QED
  BY <1>2, <1>3 DEF Control, TileLoaded

\* The output is that of the items that returned.
LEMMA OutputStays ==
  ASSUME OutputOwned, DoneStays, UNCHANGED output,
         \A q \in Item : pc[q] = "done" => sum'[q] = sum[q]
  PROVE  OutputOwned'
BY DEF OutputOwned, DoneStays

LEMMA StoreKeepsOutput ==
  ASSUME Control, OutputOwned, NEW S, output \in [Cell -> S],
         NEW p \in Item, Store(p)
  PROVE  OutputOwned'
<1>0. /\ pc[p] = "load"
      /\ output' = [output EXCEPT ![x(p) * W + y(p)] = sum[p]]
      /\ pc' = [pc EXCEPT ![p] = "done"]
      /\ UNCHANGED sum
  BY DEF Store
<1>1. \A q \in Item : pc'[q] = IF q = p THEN "done" ELSE pc[q]
  BY <1>0 DEF Control
<1>2. SUFFICES ASSUME NEW q \in Item
               PROVE  output'[x(q) * W + y(q)] = IF pc'[q] = "done" THEN sum[q] ELSE Unset
  BY <1>0 DEF OutputOwned
<1>3. x(q) * W + y(q) \in Cell /\ x(p) * W + y(p) \in Cell
  BY ItemCell
<1>4. q # p => x(q) * W + y(q) # x(p) * W + y(p)
  BY CellsDiffer
<1>5. QED
  BY <1>0, <1>1, <1>3, <1>4 DEF OutputOwned

-----------------------------------------------------------------------------
(* The first kernel.                                                       *)

LEMMA InvInit == Init => TilingInv
<1> SUFFICES ASSUME Init PROVE TilingInv
  OBVIOUS
<1>1. Control /\ OutputOwned
  BY ControlInit
<1>2. TypeOK
  BY <1>1 DEF Init, Control, TypeOK
<1>3. PartialSums
  BY NothingAdded DEF PartialSums
<1>4. QED
  BY <1>1, <1>2, <1>3 DEF TilingInv

\* Copies and barriers.
LEMMA MoveKeepsInv ==
  ASSUME TilingInv, \/ \E p \in Item : Load(p)
                    \/ \E g \in Group : Barrier(g)
  PROVE  TilingInv'
<1>0. TypeOK /\ Control /\ PartialSums /\ OutputOwned
  BY DEF TilingInv
<1>1. Control' /\ AddedStays /\ DoneStays
  BY <1>0, LoadKeepsControl, LoadBarrierKeepsControl, AddBarrierKeepsControl DEF Barrier
<1>2. UNCHANGED <<sum, output>>
  BY DEF Load, Barrier, LoadBarrier, AddBarrier
<1>3. TypeOK'
  BY <1>0, <1>1, <1>2 DEF TypeOK, Control
<1>4. PartialSums'
  BY <1>0, <1>1, <1>2 DEF PartialSums, AddedStays
<1>5. OutputOwned'
  BY <1>0, <1>1, <1>2, OutputStays
<1>6. QED
  BY <1>1, <1>3, <1>4, <1>5 DEF TilingInv

\* Adding a product of A and the tile.
LEMMA AddKeepsInv ==
  ASSUME TilingInv, NEW p \in Item, Add(p)
  PROVE  TilingInv'
<1> DEFINE b == localB[GroupOf(p)][j[p] * L + ly(p)]
           a == x(p) * M + i[p] * L + j[p]
           n == Added(p)
<1>0. /\ TypeOK /\ Control /\ PartialSums /\ OutputOwned
      /\ pc[p] = "add"
      /\ sum' = [sum EXCEPT ![p] = Append(@, <<a, b>>)]
      /\ j' = [j EXCEPT ![p] = @ + 1]
      /\ pc' = [pc EXCEPT ![p] = IF j[p] + 1 < L THEN "add" ELSE "barrier2"]
      /\ UNCHANGED <<i, localB, output>>
  BY DEF TilingInv, Add
<1>1. /\ Control' /\ DoneStays
      /\ n = i[p] * L + j[p] /\ n \in Nat /\ n' = n + 1
      /\ \A q \in Item : q # p => Added(q)' = Added(q)
  <2> HIDE DEF a, b
  <2>1. QED
    BY <1>0, AddKeepsControl
<1>indices. x(p) * M \in Int /\ i[p] * L \in Int /\ j[p] \in Int
  <2>1. x(p) \in Int /\ i[p] \in Int /\ j[p] \in Int
    BY <1>0, Coordinates DEF TypeOK
  <2>2. QED
    BY <2>1, TilingAssumption
<1>2. b = Stored(n * W + y(p))
  BY <1>0, <1>1, AddsElementOfB
<1>3. <<a, b>> = Product(p, n + 1)
  <2>1. x(p) * M \in Int /\ i[p] * L \in Int /\ j[p] \in Int
    BY <1>indices
  <2> HIDE DEF n
  <2>2. a = x(p) * M + n
    BY <1>1, <2>1
  <2>3. (n + 1) - 1 = n
    BY <1>1
  <2> HIDE DEF a, b
  <2>4. QED
    BY <1>2, <2>2, <2>3 DEF Product
<1>4. <<a, b>> \in Int \X Value
  <2>1. x(p) * M \in Int /\ i[p] * L \in Int /\ j[p] \in Int
    BY <1>indices
  <2>2. n * W + y(p) \in Int
    <3> HIDE DEF n
    <3>1. y(p) \in Int /\ n * W \in Int
      BY <1>1, Coordinates, TilingAssumption
    <3>2. QED
      BY <3>1
  <2>3. a \in Int
    BY <2>1
  <2>4. b \in Value
    BY <1>2, <2>2, StoredValue
  <2>5. QED
    BY <2>3, <2>4
<1> HIDE DEF a, b, n
<1>5. sum' \in [Item -> Seq(Int \X Value)]
  BY <1>0, <1>4 DEF TypeOK
<1>6. /\ \A q \in Item : q # p => sum'[q] = sum[q]
      /\ sum'[p] = Append(sum[p], <<a, b>>)
  BY <1>0 DEF TypeOK
<1>7. TypeOK'
  BY <1>0, <1>1, <1>5 DEF TypeOK, Control
<1>8. PartialSums'
  <2>1. SUFFICES ASSUME NEW q \in Item
                 PROVE  sum'[q] = [k \in 1 .. Added(q)' |-> Product(q, k)]
    BY DEF PartialSums
  <2>2. CASE q # p
    BY <1>0, <1>1, <1>6, <2>2 DEF PartialSums
  <2>3. CASE q = p
    <3>1. sum[p] = [k \in 1 .. n |-> Product(p, k)]
      BY <1>0 DEF PartialSums, n
    <3>2. sum'[p] = [k \in 1 .. n + 1 |-> Product(p, k)]
      BY <1>1, <1>3, <1>6, <3>1, NextProduct
    <3>3. QED
      BY <1>1, <2>3, <3>2 DEF n
  <2>4. QED
    BY <2>2, <2>3
<1>9. OutputOwned'
  BY <1>0, <1>1, <1>6, OutputStays
<1>10. QED
  BY <1>1, <1>7, <1>8, <1>9 DEF TilingInv

\* Storing the sum.
LEMMA StoreKeepsInv ==
  ASSUME TilingInv, NEW p \in Item, Store(p)
  PROVE  TilingInv'
<1>0. TypeOK /\ Control /\ PartialSums /\ OutputOwned
  BY DEF TilingInv
<1>1. Control' /\ AddedStays
  BY <1>0, StoreKeepsControl
<1>2. UNCHANGED sum /\ output' = [output EXCEPT ![x(p) * W + y(p)] = sum[p]]
  BY DEF Store
<1>3. TypeOK'
  <2>1. output' \in [Cell -> Seq(Int \X Value) \cup {Unset}]
    BY <1>0, <1>2 DEF TypeOK
  <2>2. QED
    BY <1>0, <1>1, <1>2, <2>1 DEF TypeOK, Control
<1>4. PartialSums'
  BY <1>0, <1>1, <1>2 DEF PartialSums, AddedStays
<1>5. OutputOwned'
  <2>1. output \in [Cell -> Seq(Int \X Value) \cup {Unset}]
    BY <1>0 DEF TypeOK
  <2>2. QED
    BY <1>0, <2>1, StoreKeepsOutput
<1>6. QED
  BY <1>1, <1>3, <1>4, <1>5 DEF TilingInv

\* TilingInv is inductive.
THEOREM Invariance == Spec => []TilingInv
<1>1. Init => TilingInv
  BY InvInit
<1>2. TilingInv /\ [Next]_vars => TilingInv'
  <2>1. SUFFICES ASSUME TilingInv, [Next]_vars PROVE TilingInv'
    OBVIOUS
  <2>2. ASSUME NEW p \in Item, Step(p) PROVE TilingInv'
    BY <2>1, <2>2, MoveKeepsInv, AddKeepsInv, StoreKeepsInv DEF Step
  <2>3. ASSUME NEW g \in Group, Barrier(g) PROVE TilingInv'
    BY <2>1, <2>3, MoveKeepsInv
  <2>4. CASE UNCHANGED vars
    BY <2>1, <2>4 DEF vars, TilingInv, TypeOK, Control, InPlace, Together, TileLoaded,
                      PartialSums, Added, OutputOwned
  <2>5. QED
    BY <2>1, <2>2, <2>3, <2>4 DEF Next, Finished
<1>3. QED
  BY <1>1, <1>2, PTL DEF Spec

\* The counters, sums, tiles and output cells keep their types.
THEOREM TypeCorrect == Spec => []TypeOK
BY Invariance, PTL DEF TilingInv

\* The column an item adds next lies in A.
LEMMA ColumnInside ==
  ASSUME NEW n \in 0 .. Tiles - 1, NEW k \in 0 .. L - 1
  PROVE  n * L + k \in 0 .. M - 1
<1>1. Tiles \in Nat /\ Tiles * L <= M
  <2>1. /\ Tiles \in Nat /\ M % L \in 0 .. L - 1
        /\ M = Tiles * L + (M % L)
    BY TilingAssumption, DivMod DEF Tiles
  <2>2. Tiles * L \in Int
    BY <2>1, TilingAssumption
  <2>3. QED
    BY <2>1, <2>2, TilingAssumption
<1>2. n * L + k \in 0 .. Tiles * L - 1
  BY <1>1, TilingAssumption, FlatBound
<1>3. Tiles * L \in Int /\ n * L + k \in Int
  BY <1>1, TilingAssumption
<1>4. QED
  BY <1>1, <1>2, <1>3, TilingAssumption

\* What both kernels address lies where it should.
LEMMA SharedAddresses ==
  ASSUME Control, NEW p \in Item
  PROVE  /\ pc[p] = "load" /\ i[p] < Tiles =>
              TileSlot(p) \in Slot /\ IndexB(p) \in 0 .. M * W - 1
         /\ pc[p] = "add" => ColumnSlot(p) \in Slot
         /\ IndexOut(p) \in Cell
<1>1. /\ y(p) \in 0 .. W - 1 /\ x(p) \in 0 .. H - 1
      /\ ly(p) \in 0 .. L - 1 /\ lx(p) \in 0 .. L - 1
  BY Coordinates
<1>2. W \in Nat /\ H \in Nat /\ M \in Nat /\ L \in Nat /\ Tiles \in Nat
  BY TilingAssumption, DivMod DEF Tiles
<1>3. i[p] \in 0 .. Tiles /\ j[p] \in 0 .. L /\ (pc[p] = "add" => j[p] < L)
  BY DEF Control, InPlace
<1>4. ASSUME i[p] < Tiles
      PROVE  TileSlot(p) \in Slot /\ IndexB(p) \in 0 .. M * W - 1
  <2>0. i[p] \in 0 .. Tiles - 1
    BY <1>2, <1>3, <1>4
  <2>1. i[p] * L + lx(p) \in 0 .. M - 1
    BY <1>1, <2>0, ColumnInside
  <2>2. (i[p] * L + lx(p)) * W + y(p) \in 0 .. M * W - 1
    BY <1>1, <1>2, <2>1, FlatBound
  <2>3. lx(p) * L + ly(p) \in 0 .. L * L - 1
    BY <1>1, <1>2, FlatBound
  <2>4. QED
    BY <2>2, <2>3 DEF Slot
<1>5. ASSUME pc[p] = "add" PROVE ColumnSlot(p) \in Slot
  <2>1. j[p] \in 0 .. L - 1
    BY <1>2, <1>3, <1>5
  <2>2. QED
    BY <1>1, <1>2, <2>1, FlatBound DEF Slot
<1>6. IndexOut(p) \in Cell
  BY <1>1, <1>2, FlatBound, ItemCell DEF Cell
<1>7. QED
  BY <1>4, <1>5, <1>6

\* No item leaves a tile or a buffer, for any sizes the device accepts, also
\* when the group size does not divide the width of A.
THEOREM StaysInBuffers == Spec => []InBuffers
<1>1. ASSUME TilingInv PROVE InBuffers
  <2> SUFFICES ASSUME NEW p \in Item, pc[p] = "add" PROVE IndexA(p) \in 0 .. H * M - 1
    BY <1>1, SharedAddresses DEF TilingInv, InBuffers
  <2>1. i[p] \in 0 .. Tiles - 1 /\ j[p] \in 0 .. L - 1
    <3>1. i[p] \in 0 .. Tiles /\ i[p] < Tiles /\ j[p] \in 0 .. L /\ j[p] < L
      BY <1>1 DEF TilingInv, Control, InPlace
    <3>2. Tiles \in Nat /\ L \in Nat
      BY TilingAssumption, DivMod DEF Tiles
    <3>3. QED
      BY <3>1, <3>2
  <2>2. i[p] * L + j[p] \in 0 .. M - 1
    BY <2>1, ColumnInside
  <2>3. x(p) \in 0 .. H - 1
    BY Coordinates
  <2>4. x(p) * M + (i[p] * L + j[p]) \in 0 .. H * M - 1
    BY <2>2, <2>3, TilingAssumption, FlatBound
  <2>5. x(p) * M \in Int /\ i[p] * L \in Int /\ j[p] \in Int
    BY <2>1, <2>3, TilingAssumption
  <2>6. QED
    BY <2>4, <2>5
<1>2. QED
  BY <1>1, Invariance, PTL

\* Every partial sum is a prefix of the dot product, for all sizes and every
\* interleaving of the items (lines 10-20 of Tiling_1/matrix.cl).
THEOREM SumsArePrefixes == Spec => []PartialSums
BY Invariance, PTL DEF TilingInv

\* While an item is about to copy, nobody in its group adds, and nobody copies
\* to the same slot.
LEMMA WritesAreAlone ==
  ASSUME Control, NEW p \in Item, NEW q \in Item,
         p # q, GroupOf(p) = GroupOf(q), Writes(p) # {}
  PROVE  pc[q] # "add" /\ Writes(p) \cap Writes(q) = {}
<1>1. pc[p] = "load" /\ Writes(p) = {lx(p) * L + ly(p)}
  BY DEF Writes
<1>2. pc[q] # "add"
  BY <1>1 DEF Control, Together
<1>3. lx(p) * L + ly(p) # lx(q) * L + ly(q)
  BY SlotsDiffer
<1>4. QED
  BY <1>1, <1>2, <1>3 DEF Writes

\* The two barriers of the loop keep local memory free of data races.
THEOREM RaceFreedom == Spec => []NoRace
<1>1. TilingInv => NoRace
  BY WritesAreAlone DEF TilingInv, NoRace, Reads
<1>2. QED
  BY <1>1, Invariance, PTL

\* The tiles cover a row of A if L divides its width.
LEMMA FullTiles == ASSUME M % L = 0 PROVE Tiles * L = M
<1>1. Tiles \in Nat /\ M = Tiles * L + (M % L)
  BY TilingAssumption, DivMod DEF Tiles
<1>2. QED
  BY <1>1, TilingAssumption

\* Storing a dot product is a step of the multiplication.
LEMMA StoreComputes ==
  ASSUME Control, OutputOwned, NEW p \in Item, Store(p),
         sum[p] = [k \in 1 .. M |-> <<x(p) * M + (k - 1), (k - 1) * W + y(p)>>]
  PROVE  MM!MNext
<1> DEFINE c == x(p) * W + y(p)
<1>1. /\ c \in MM!Cell /\ c \div W = x(p) /\ c % W = y(p)
  BY ItemCell DEF Cell, MM!Cell
<1>2. output[c] = Unset
  BY DEF OutputOwned, Store
<1>3. sum[p] = MM!Dot(c)
  BY <1>1 DEF MM!Dot, MM!DotPrefix
<1>4. output' = [output EXCEPT ![c] = sum[p]]
  BY DEF Store
<1>5. QED
  BY <1>1, <1>2, <1>3, <1>4 DEF MM!MNext, MM!Compute

\* An item that stores has added every tile.
LEMMA StoresAll ==
  ASSUME Control, M % L = 0, NEW p \in Item, Store(p)
  PROVE  Added(p) = M
<1>1. i[p] \in 0 .. Tiles /\ i[p] >= Tiles /\ Tiles \in Nat /\ pc[p] = "load"
  BY Sizes DEF Control, Store
<1>2. i[p] = Tiles
  BY <1>1
<1>3. QED
  BY <1>1, <1>2, FullTiles DEF Added

\* If L divides M and the elements are integers, the kernel computes what the
\* host's verification computes, each cell once.
THEOREM TilingImplementsMatMul ==
  ASSUME M % L = 0, ElementType = "int"
  PROVE  Spec => ImplementsMatMul
<1>1. Init => MM!MInit
  BY DEF Init, MM!MInit, Cell, MM!Cell
<1>2. TilingInv /\ [Next]_vars => [MM!MNext]_output
  <2>1. SUFFICES ASSUME TilingInv, [Next]_vars PROVE [MM!MNext]_output
    OBVIOUS
  <2>2. ASSUME NEW p \in Item, Store(p) PROVE MM!MNext
    <3>1. sum[p] = [k \in 1 .. M |-> Product(p, k)]
      BY <2>1, <2>2, StoresAll DEF TilingInv, PartialSums
    <3>2. \A k \in 1 .. M : Product(p, k) = <<x(p) * M + (k - 1), (k - 1) * W + y(p)>>
      BY DEF Product, Stored
    <3>3. QED
      BY <2>1, <2>2, <3>1, <3>2, StoreComputes DEF TilingInv
  <2>3. ASSUME NEW p \in Item, Load(p) \/ Add(p) PROVE UNCHANGED output
    BY <2>3 DEF Load, Add
  <2>4. ASSUME NEW g \in Group, Barrier(g) PROVE UNCHANGED output
    BY <2>4 DEF Barrier, LoadBarrier, AddBarrier
  <2>5. QED
    BY <2>1, <2>2, <2>3, <2>4 DEF Next, Step, Finished, vars
<1>3. QED
  BY <1>1, <1>2, Invariance, PTL DEF Spec, ImplementsMatMul, MM!MSpec

-----------------------------------------------------------------------------
(* The second kernel.                                                      *)

LEMMA Inv2Init == Init2 => TilingInv2
<1> SUFFICES ASSUME Init2 PROVE TilingInv2
  OBVIOUS
<1>1. Control /\ OutputOwned
  BY ControlInit DEF Init2
<1>2. TypeOK2
  BY <1>1 DEF Init2, Init, Control, TypeOK2, Value
<1>3. TileLoadedA
  BY DEF Init2, Init, TileLoadedA, Value
<1>4. PartialSums2
  BY NothingAdded DEF Init2, PartialSums2
<1>5. QED
  BY <1>1, <1>2, <1>3, <1>4 DEF TilingInv2

\* Copying an element of A, too.
LEMMA LoadTilesKeepsTileA ==
  ASSUME Control, TileLoadedA, NEW p \in Item, LoadTiles(p)
  PROVE  TileLoadedA'
<1> DEFINE g == GroupOf(p)
           s == lx(p) * L + ly(p)
           v == Stored(x(p) * W + i[p] * L + ly(p))
<1>0. /\ localA \in [Group -> [Slot -> Value]]
      /\ localA' = [localA EXCEPT ![g][s] = v]
      /\ pc' = [pc EXCEPT ![p] = "barrier1"]
      /\ UNCHANGED i
  BY DEF TileLoadedA, LoadTiles, Load
<1>1. g \in Group /\ s \in Slot /\ v \in Value
  <2>1. ly(p) \in 0 .. L - 1 /\ lx(p) \in 0 .. L - 1 /\ i[p] \in Nat
    BY Coordinates, Sizes DEF Control
  <2>2. QED
    BY <2>1, ItemGroup, ItemSlot, ItemIndices, StoredValue
<1> HIDE DEF g, s, v
<1>2. localA' \in [Group -> [Slot -> Value]]
  BY <1>0, <1>1
<1>3. \A q \in Item : pc'[q] = IF q = p THEN "barrier1" ELSE pc[q]
  BY <1>0 DEF Control
<1>4. ASSUME NEW q \in Item, pc'[q] \in {"barrier1", "add", "barrier2"}
      PROVE  localA'[GroupOf(q)][lx(q) * L + ly(q)] = Stored(x(q) * W + i[q] * L + ly(q))
  <2>1. GroupOf(q) \in Group /\ lx(q) * L + ly(q) \in Slot
    <3>1. 0 \in 0 .. L - 1
      BY TilingAssumption
    <3>2. QED
      BY <3>1, ItemGroup, ItemSlot
  <2>2. CASE q = p
    BY <1>0, <1>1, <2>1, <2>2 DEF g, s, v
  <2>3. CASE q # p
    <3>1. localA[GroupOf(q)][lx(q) * L + ly(q)] = Stored(x(q) * W + i[q] * L + ly(q))
      BY <1>3, <1>4, <2>3 DEF TileLoadedA
    <3>2. GroupOf(q) # g \/ lx(q) * L + ly(q) # s
      BY <2>3, SlotsDiffer DEF g, s
    <3>3. QED
      BY <1>0, <1>1, <2>1, <3>1, <3>2
  <2>4. QED
    BY <2>2, <2>3
<1>5. QED
  BY <1>0, <1>2, <1>4 DEF TileLoadedA

\* Nobody passes the first barrier of an iteration without having copied, and
\* the barriers leave the tile of A alone.
LEMMA MoveKeepsTileA ==
  ASSUME Control, TileLoadedA, UNCHANGED localA,
         \/ \E g \in Group : Barrier(g)
         \/ \E p \in Item : Store(p)
  PROVE  TileLoadedA'
<1>1. CASE \E g \in Group : LoadBarrier(g)
  <2>1. PICK g \in Group : LoadBarrier(g)
    BY <1>1
  <2>2. /\ \A p \in Item : GroupOf(p) = g => pc[p] = "barrier1"
        /\ pc' = [p \in Item |-> IF GroupOf(p) = g THEN "add" ELSE pc[p]]
        /\ UNCHANGED i
    BY <2>1 DEF LoadBarrier, Waiting, Members
  <2>3. QED
    BY <2>2 DEF TileLoadedA
<1>2. CASE \E g \in Group : AddBarrier(g)
  <2>1. PICK g \in Group : AddBarrier(g)
    BY <1>2
  <2>2. /\ pc' = [p \in Item |-> IF GroupOf(p) = g THEN "load" ELSE pc[p]]
        /\ i' = [p \in Item |-> IF GroupOf(p) = g THEN i[p] + 1 ELSE i[p]]
    BY <2>1 DEF AddBarrier, Members
  <2>3. QED
    BY <2>2 DEF TileLoadedA
<1>3. CASE \E p \in Item : Store(p)
  <2>1. PICK p \in Item : Store(p)
    BY <1>3
  <2>2. \A q \in Item : pc'[q] = IF q = p THEN "done" ELSE pc[q]
    BY <2>1 DEF Store, Control
  <2>3. UNCHANGED i
    BY <2>1 DEF Store
  <2>4. QED
    BY <2>2, <2>3 DEF TileLoadedA
<1>4. QED
  BY <1>1, <1>2, <1>3 DEF Barrier

\* Copies and barriers.
LEMMA MoveKeepsInv2 ==
  ASSUME TilingInv2, \/ \E p \in Item : LoadTiles(p)
                     \/ \E g \in Group : Barrier(g) /\ UNCHANGED localA
  PROVE  TilingInv2'
<1>0. TypeOK2 /\ Control /\ TileLoadedA /\ PartialSums2 /\ OutputOwned
  BY DEF TilingInv2
<1>1. Control' /\ AddedStays /\ DoneStays
  BY <1>0, LoadKeepsControl, LoadBarrierKeepsControl, AddBarrierKeepsControl
     DEF Barrier, LoadTiles
<1>2. UNCHANGED <<sum, output>>
  BY DEF LoadTiles, Load, Barrier, LoadBarrier, AddBarrier
<1>3. TileLoadedA'
  BY <1>0, LoadTilesKeepsTileA, MoveKeepsTileA
<1>4. TypeOK2'
  BY <1>0, <1>1, <1>2, <1>3 DEF TypeOK2, Control, TileLoadedA
<1>5. PartialSums2'
  BY <1>0, <1>1, <1>2 DEF PartialSums2, AddedStays
<1>6. OutputOwned'
  BY <1>0, <1>1, <1>2, OutputStays
<1>7. QED
  BY <1>1, <1>3, <1>4, <1>5, <1>6 DEF TilingInv2

\* The slot of the tile of A an item multiplies with.
LEMMA AddsElementOfA ==
  ASSUME Control, TileLoadedA, NEW p \in Item, pc[p] = "add"
  PROVE  localA[GroupOf(p)][lx(p) * L + j[p]] = Stored(x(p) * W + i[p] * L + j[p])
<1>1. j[p] \in 0 .. L - 1
  BY TilingAssumption DEF Control, InPlace
<1>2. PICK q \in Item : /\ GroupOf(q) = GroupOf(p)
                        /\ ly(q) = j[p] /\ lx(q) = lx(p) /\ x(q) = x(p)
  BY <1>1, Row
<1>3. i[q] = i[p] /\ pc[q] \in {"add", "barrier2"}
  BY <1>2 DEF Control, Together
<1>4. QED
  BY <1>2, <1>3 DEF TileLoadedA

\* Adding a product of the two tiles.
LEMMA AddTilesKeepsInv2 ==
  ASSUME TilingInv2, NEW p \in Item, AddTiles(p)
  PROVE  TilingInv2'
<1> DEFINE b == localB[GroupOf(p)][j[p] * L + ly(p)]
           a == localA[GroupOf(p)][lx(p) * L + j[p]]
           n == Added(p)
<1>0. /\ TypeOK2 /\ Control /\ TileLoadedA /\ PartialSums2 /\ OutputOwned
      /\ pc[p] = "add"
      /\ sum' = [sum EXCEPT ![p] = Append(@, <<a, b>>)]
      /\ j' = [j EXCEPT ![p] = @ + 1]
      /\ pc' = [pc EXCEPT ![p] = IF j[p] + 1 < L THEN "add" ELSE "barrier2"]
      /\ UNCHANGED <<i, localB, output, localA>>
  BY DEF TilingInv2, AddTiles
<1>1. /\ Control' /\ DoneStays
      /\ n = i[p] * L + j[p] /\ n \in Nat /\ n' = n + 1
      /\ \A q \in Item : q # p => Added(q)' = Added(q)
  <2> HIDE DEF a, b
  <2>1. QED
    BY <1>0, AddKeepsControl
<1>2. b = Stored(n * W + y(p))
  BY <1>0, <1>1, AddsElementOfB
<1>3. a = Stored(x(p) * W + n)
  <2>1. a = Stored(x(p) * W + i[p] * L + j[p])
    BY <1>0, AddsElementOfA
  <2>2. x(p) \in Int /\ i[p] \in Int /\ j[p] \in Int
    BY <1>0, Coordinates DEF Control
  <2>3. x(p) * W \in Int /\ i[p] * L \in Int
    BY <2>2, TilingAssumption
  <2>4. x(p) * W + i[p] * L + j[p] = x(p) * W + n
    <3> HIDE DEF n
    <3>1. QED
      BY <1>1, <2>2, <2>3
  <2> HIDE DEF a, n
  <2>5. QED
    BY <2>1, <2>4
<1> HIDE DEF a, b, n
<1>4. <<a, b>> = Product2(p, n + 1)
  <2>1. (n + 1) - 1 = n
    BY <1>1
  <2>2. QED
    BY <1>2, <1>3, <2>1 DEF Product2
<1>5. <<a, b>> \in Value \X Value
  <2>1. x(p) \in Int /\ y(p) \in Int
    BY Coordinates
  <2>2. x(p) * W \in Int /\ n * W \in Int
    BY <1>1, <2>1, TilingAssumption
  <2>3. x(p) * W + n \in Int /\ n * W + y(p) \in Int
    BY <1>1, <2>1, <2>2
  <2>4. QED
    BY <1>2, <1>3, <2>3, StoredValue
<1>6. sum' \in [Item -> Seq(Value \X Value)]
  BY <1>0, <1>5 DEF TypeOK2
<1>7. /\ \A q \in Item : q # p => sum'[q] = sum[q]
      /\ sum'[p] = Append(sum[p], <<a, b>>)
  BY <1>0 DEF TypeOK2
<1>8. TypeOK2'
  BY <1>0, <1>1, <1>6 DEF TypeOK2, Control
<1>9. TileLoadedA'
  <2>1. \A q \in Item : pc'[q] \in {"add", "barrier2"} \/ pc'[q] = pc[q]
    BY <1>0 DEF Control
  <2>2. \A q \in Item : q # p => pc'[q] = pc[q]
    BY <1>0 DEF Control
  <2>3. QED
    BY <1>0, <2>1, <2>2 DEF TileLoadedA
<1>10. PartialSums2'
  <2>1. SUFFICES ASSUME NEW q \in Item
                 PROVE  sum'[q] = [k \in 1 .. Added(q)' |-> Product2(q, k)]
    BY DEF PartialSums2, Product2
  <2>2. sum[q] = [k \in 1 .. Added(q) |-> Product2(q, k)]
    BY <1>0 DEF PartialSums2, Product2
  <2>3. CASE q # p
    BY <1>1, <1>7, <2>2, <2>3
  <2>4. CASE q = p
    <3>1. sum'[p] = [k \in 1 .. n + 1 |-> Product2(p, k)]
      BY <1>1, <1>4, <1>7, <2>2, <2>4, NextProduct2 DEF n
    <3>2. QED
      BY <1>1, <2>4, <3>1 DEF n
  <2>5. QED
    BY <2>3, <2>4
<1>11. OutputOwned'
  BY <1>0, <1>1, <1>7, OutputStays
<1>12. QED
  BY <1>1, <1>8, <1>9, <1>10, <1>11 DEF TilingInv2

\* Storing the sum.
LEMMA StoreKeepsInv2 ==
  ASSUME TilingInv2, NEW p \in Item, Store(p), UNCHANGED localA
  PROVE  TilingInv2'
<1>0. TypeOK2 /\ Control /\ TileLoadedA /\ PartialSums2 /\ OutputOwned
  BY DEF TilingInv2
<1>1. Control' /\ AddedStays
  BY <1>0, StoreKeepsControl
<1>2. UNCHANGED sum /\ output' = [output EXCEPT ![x(p) * W + y(p)] = sum[p]]
  BY DEF Store
<1>3. TileLoadedA'
  BY <1>0, MoveKeepsTileA
<1>4. TypeOK2'
  <2>1. output' \in [Cell -> Seq(Value \X Value) \cup {Unset}]
    BY <1>0, <1>2 DEF TypeOK2
  <2>2. QED
    BY <1>0, <1>1, <1>2, <2>1 DEF TypeOK2, Control
<1>5. PartialSums2'
  BY <1>0, <1>1, <1>2 DEF PartialSums2, AddedStays
<1>6. OutputOwned'
  <2>1. output \in [Cell -> Seq(Value \X Value) \cup {Unset}]
    BY <1>0 DEF TypeOK2
  <2>2. QED
    BY <1>0, <2>1, StoreKeepsOutput
<1>7. QED
  BY <1>1, <1>3, <1>4, <1>5, <1>6 DEF TilingInv2

\* TilingInv2 is inductive.
THEOREM Invariance2 == Spec2 => []TilingInv2
<1>1. Init2 => TilingInv2
  BY Inv2Init
<1>2. TilingInv2 /\ [Next2]_vars2 => TilingInv2'
  <2>1. SUFFICES ASSUME TilingInv2, [Next2]_vars2 PROVE TilingInv2'
    OBVIOUS
  <2>2. ASSUME NEW p \in Item, Step2(p) PROVE TilingInv2'
    BY <2>1, <2>2, MoveKeepsInv2, AddTilesKeepsInv2, StoreKeepsInv2 DEF Step2
  <2>3. ASSUME NEW g \in Group, Barrier(g), UNCHANGED localA PROVE TilingInv2'
    BY <2>1, <2>3, MoveKeepsInv2
  <2>4. CASE UNCHANGED vars2
    BY <2>1, <2>4 DEF vars2, vars, TilingInv2, TypeOK2, Control, InPlace, Together,
                      TileLoaded, TileLoadedA, PartialSums2, Added, OutputOwned
  <2>5. QED
    BY <2>1, <2>2, <2>3, <2>4 DEF Next2, Finished, vars2
<1>3. QED
  BY <1>1, <1>2, PTL DEF Spec2

\* The counters, sums, both tiles and the output keep their types.
THEOREM TypeCorrect2 == Spec2 => []TypeOK2
BY Invariance2, PTL DEF TilingInv2

\* No item leaves a tile, B or the output, for any sizes the device accepts,
\* and none leaves A if B is not wider than A.
THEOREM StaysInBuffers2 == Spec2 => []InBuffers2
<1>1. ASSUME TilingInv2 PROVE InBuffers2
  <2>1. Control
    BY <1>1 DEF TilingInv2
  <2>2. ASSUME NEW p \in Item, pc[p] = "add" PROVE RowSlot(p) \in Slot
    <3>1. j[p] \in 0 .. L /\ j[p] < L /\ L \in Nat
      BY <2>1, <2>2, TilingAssumption DEF Control, InPlace
    <3>2. j[p] \in 0 .. L - 1 /\ lx(p) \in 0 .. L - 1
      BY <3>1, Coordinates
    <3>3. QED
      BY <3>1, <3>2, FlatBound DEF Slot
  <2>3. ASSUME NEW p \in Item, pc[p] = "load", i[p] < Tiles, W <= M
        PROVE  StrideIndexA(p) \in 0 .. H * M - 1
    <3>1. x(p) \in 0 .. H - 1 /\ ly(p) \in 0 .. L - 1
      BY Coordinates
    <3>2. i[p] \in 0 .. Tiles - 1
      <4>1. i[p] \in 0 .. Tiles /\ Tiles \in Nat
        BY <2>1, TilingAssumption, DivMod DEF Control, Tiles
      <4>2. QED
        BY <2>3, <4>1
    <3>3. i[p] * L + ly(p) \in 0 .. M - 1
      BY <3>1, <3>2, ColumnInside
    <3>4. x(p) * M + (i[p] * L + ly(p)) \in 0 .. H * M - 1
      BY <3>1, <3>3, TilingAssumption, FlatBound
    <3>5. /\ 0 <= x(p) * W /\ x(p) * W <= x(p) * M
          /\ x(p) * W \in Int /\ x(p) * M \in Int /\ H * M \in Int
      <4>1. W * x(p) <= M * x(p) /\ 0 * x(p) <= W * x(p)
        BY <2>3, <3>1, TilingAssumption, MulMonotone
      <4>2. W * x(p) = x(p) * W /\ M * x(p) = x(p) * M /\ 0 * x(p) = 0
        BY <3>1, TilingAssumption
      <4>3. x(p) * W \in Int /\ x(p) * M \in Int /\ H * M \in Int
        BY <3>1, TilingAssumption
      <4>4. QED
        BY <4>1, <4>2, <4>3
    <3>6. x(p) * W + (i[p] * L + ly(p)) \in 0 .. H * M - 1
      <4> DEFINE a == x(p) * W
                 b == x(p) * M
                 c == i[p] * L + ly(p)
                 n == H * M
      <4>1. c \in 0 .. M - 1 /\ b + c \in 0 .. n - 1
        BY <3>3, <3>4
      <4>2. 0 <= a /\ a <= b /\ a \in Int /\ b \in Int /\ n \in Int /\ M \in Int
        BY <3>5, TilingAssumption
      <4> HIDE DEF a, b, c, n
      <4>3. a + c \in 0 .. n - 1
        BY <4>1, <4>2
      <4>4. QED
        BY <4>3 DEF a, c, n
    <3>7. x(p) * W \in Int /\ i[p] * L \in Int /\ ly(p) \in Int
      BY <3>1, <3>2, <3>5, TilingAssumption
    <3>8. QED
      BY <3>6, <3>7
  <2>4. QED
    BY <2>1, <2>2, <2>3, SharedAddresses DEF InBuffers2
<1>2. QED
  BY <1>1, Invariance2, PTL

\* Every partial sum pairs the elements of row x of A, as the kernel addresses
\* it, with those of column y of B, for all sizes and every interleaving
\* (lines 10-21 of Tiling_2/matrix.cl).
THEOREM SumsArePrefixes2 == Spec2 => []PartialSums2
BY Invariance2, PTL DEF TilingInv2

\* The same two barriers keep both tiles free of data races.
THEOREM RaceFreedom2 == Spec2 => []NoRace2
<1>1. TilingInv2 => NoRace2
  BY WritesAreAlone DEF TilingInv2, NoRace2, Reads, ReadsA
<1>2. QED
  BY <1>1, Invariance2, PTL

\* For an A as wide as B, tiles that divide it and integer elements, the second
\* kernel, too, computes each cell once and as the host's verification does.
THEOREM Tiling2ImplementsMatMul ==
  ASSUME M % L = 0, W = M, ElementType = "int"
  PROVE  Spec2 => ImplementsMatMul2
<1>1. Init2 => MM!MInit
  BY DEF Init2, Init, MM!MInit, Cell, MM!Cell
<1>2. TilingInv2 /\ [Next2]_vars2 => [MM!MNext]_output
  <2>1. SUFFICES ASSUME TilingInv2, [Next2]_vars2 PROVE [MM!MNext]_output
    OBVIOUS
  <2>2. ASSUME NEW p \in Item, Store(p) PROVE MM!MNext
    <3>1. sum[p] = [k \in 1 .. M |-> Product2(p, k)]
      BY <2>1, <2>2, StoresAll DEF TilingInv2, PartialSums2, Product2
    <3>2. \A k \in 1 .. M : Product2(p, k) = <<x(p) * M + (k - 1), (k - 1) * W + y(p)>>
      BY DEF Product2, Stored
    <3>3. QED
      BY <2>1, <2>2, <3>1, <3>2, StoreComputes DEF TilingInv2
  <2>3. ASSUME NEW p \in Item, LoadTiles(p) \/ AddTiles(p) PROVE UNCHANGED output
    BY <2>3 DEF LoadTiles, Load, AddTiles
  <2>4. ASSUME NEW g \in Group, Barrier(g) PROVE UNCHANGED output
    BY <2>4 DEF Barrier, LoadBarrier, AddBarrier
  <2>5. QED
    BY <2>1, <2>2, <2>3, <2>4 DEF Next2, Step2, Finished, vars, vars2
<1>3. QED
  BY <1>1, <1>2, Invariance2, PTL DEF Spec2, ImplementsMatMul2, MM!MSpec
=============================================================================

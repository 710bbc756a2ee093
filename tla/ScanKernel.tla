----------------------------- MODULE ScanKernel -----------------------------
(***************************************************************************)
(* Scan: the passes that the host launches and the two kernels.  Each work *)
(* group scans wgSize elements in local memory, with a tree walked up and  *)
(* down again, and leaves their sum; the sums are scanned by the next pass *)
(* and added to the groups at the end.                                     *)
(*                                                                         *)
(* A call c has n elements, work groups for wg elements, and the output    *)
(* buffer out (In when the output is the input vector itself).             *)
(***************************************************************************)
EXTENDS KernelCode

ScanCall(c) ==
  /\ c.n \in Positive /\ c.warp \in Positive
  /\ c.wg \in Nat \ {0, 1}
  /\ c.out \in {In, Out}

\* The number of elements of each pass.
ScanSize(c) ==
  LET size[k \in Nat] == IF k = 0 THEN c.n ELSE CeilDiv(size[k - 1], c.wg) IN size

Passes(c) == CHOOSE p \in 1 .. c.n + 1 :
  /\ ScanSize(c)[p] <= 1
  /\ \A q \in 1 .. p - 1 : ScanSize(c)[q] > 1

ScanItems(c) == c.wg \div 2

\* One item for two elements, but half of an odd number is rounded down.
ScanGroups(c, k) ==
  CeilToMultipleOf(ScanSize(c)[k] \div 2, ScanItems(c)) \div ScanItems(c)

ScanPass(c, k) ==
  [kernel |-> "SCL_SCAN", groups |-> ScanGroups(c, k), items |-> ScanItems(c),
   local  |-> c.wg,
   in     |-> IF k = 0 THEN In ELSE Temporary(k - 1),
   out    |-> IF k = 0 THEN c.out ELSE Temporary(k - 1),
   sums   |-> Temporary(k),
   size   |-> ScanSize(c)[k]]

Combination(c, k) ==
  [kernel |-> "SCL_UNIFORM_COMBINATION",
   groups |-> ScanGroups(c, k), items |-> ScanItems(c), local |-> 1,
   out    |-> IF k = 0 THEN c.out ELSE Temporary(k - 1),
   sums   |-> Temporary(k),
   size   |-> ScanSize(c)[k]]

\* Mistake for ScanLaunches: the sums are added from the first level on.
ScanLaunches_Ascending(c) ==
  [i \in 1 .. Passes(c) |-> ScanPass(c, i - 1)]
    \o [i \in 1 .. Passes(c) - 1 |-> Combination(c, i - 1)]

ScanLaunches(c) ==
  [i \in 1 .. Passes(c) |-> ScanPass(c, i - 1)]
    \o [i \in 1 .. Passes(c) - 1 |-> Combination(c, Passes(c) - 1 - i)]

ScanBuffers(c) ==
  [b \in {In, Out} \cup {Temporary(k) : k \in 0 .. Passes(c) - 1} |->
     CASE b = In  -> Labelled(c.n, 0)
       [] b = Out -> Fresh(c.n)
       [] OTHER   -> Fresh(ScanSize(c)[b - Temporary(0)])]

\* Every pass has an item for each of its elements.
Covered(c) ==
  \A k \in 0 .. Passes(c) - 1 : ScanGroups(c, k) * c.wg >= ScanSize(c)[k]

\* The tree has a leaf for each element of the group.
PowerOfTwo(c) == \E k \in 1 .. c.wg : c.wg = Power[k]

-----------------------------------------------------------------------------
UpSteps(l)   == Cardinality({k \in 0 .. l.items : Power[k] <= l.items})
DownSteps(l) == Cardinality({k \in 0 .. l.items : Power[k] < 2 * l.items})

\* The two nodes of the tree that item t combines.
Left(t, offset)  == Cell(Shared, offset * (2 * t + 1) - 1)
Right(t, offset) == Cell(Shared, offset * (2 * t + 2) - 1)

\* The two elements of item t of group g.
Elements(l, g, t) == {2 * (g * l.items + t), 2 * (g * l.items + t) + 1}
InGroup(l, g, i)  == Cell(Shared, i - 2 * g * l.items)

CacheElements(l, g, t) ==
  [c \in {InGroup(l, g, i) : i \in Elements(l, g, t)} |->
     LET i == c[2] + 2 * g * l.items
     IN  IF i < l.size THEN <<Cell(l.in, i)>> ELSE << >>]

UpSweep(t, d, offset) ==
  IF t < d
  THEN At(Right(t, offset), <<Right(t, offset), Left(t, offset)>>)
  ELSE Nothing

StoreSum(l, g, t) ==
  IF t = 0
  THEN Merged(Copied(Cell(l.sums, g), Cell(Shared, 2 * l.items - 1)),
              At(Cell(Shared, 2 * l.items - 1), << >>))
  ELSE Nothing

DownSweep(t, d, offset) ==
  IF t < d
  THEN Merged(Copied(Left(t, offset), Right(t, offset)),
              At(Right(t, offset), <<Right(t, offset), Left(t, offset)>>))
  ELSE Nothing

\* Mistake for CopyBack: whatever the size, both elements are written.
CopyBack_Unguarded(l, g, t) ==
  [c \in {Cell(l.out, i) : i \in Elements(l, g, t)} |->
     <<InGroup(l, g, c[2])>>]

CopyBack(l, g, t) ==
  [c \in {Cell(l.out, i) : i \in {j \in Elements(l, g, t) : j < l.size}} |->
     <<InGroup(l, g, c[2])>>]

ScanPhases(l) == UpSteps(l) + DownSteps(l) + 3

\* Mistake for ScanBarrier: none between the steps of the down-sweep.
ScanBarrier_UpOnly(l, p) == p > 0 /\ p <= UpSteps(l) + 1

ScanBarrier(l, p) == p > 0

ScanCode(l, g, t, p) ==
  LET up   == UpSteps(l)
      down == DownSteps(l)
  IN  CASE p = 0 -> CacheElements(l, g, t)
        [] p \in 1 .. up -> UpSweep(t, l.items \div Power[p - 1], Power[p - 1])
        [] p = up + 1 -> StoreSum(l, g, t)
        [] p \in up + 2 .. up + down + 1 ->
             DownSweep(t, Power[p - up - 2], Power[up] \div Power[p - up - 1])
        [] p = up + down + 2 -> CopyBack(l, g, t)

-----------------------------------------------------------------------------
CombinationPhases == 2

\* Item 0 fetches the sum of what precedes the group; all add it.
CombinationCode(l, g, t, p) ==
  IF p = 0
  THEN IF t = 0 THEN Copied(Cell(Shared, 0), Cell(l.sums, g)) ELSE Nothing
  ELSE [c \in {Cell(l.out, i) : i \in {j \in Elements(l, g, t) : j < l.size}} |->
          <<c, Cell(Shared, 0)>>]
=============================================================================

-------------------------- MODULE MapOverlapKernel --------------------------
(***************************************************************************)
(* MapOverlap on one device: each work group copies a tile of the matrix   *)
(* and a border of overlap_range elements around it to local memory, and   *)
(* each item applies the user function to its neighbourhood.               *)
(*                                                                         *)
(* A call c has the rows of this device's part and the total number of     *)
(* rows, cols columns, tiles of side by side items, the overlap range, and *)
(* out, the output's buffer.  The input holds range more rows at each end. *)
(***************************************************************************)
EXTENDS KernelCode

OverlapCall(c) ==
  /\ c.rows \in Positive /\ c.total \in Positive /\ c.cols \in Positive
  /\ c.side \in Positive /\ c.range \in Positive /\ c.warp \in Positive
  /\ c.neutral \in BOOLEAN /\ c.out \in {In, Out}

TileWidth(l) == l.side + 2 * l.range

OverlapLaunch(c) ==
  LET elements == c.rows * c.cols
  IN  [kernel |-> "SCL_MAPOVERLAP",
       groups  |-> CeilDiv(c.cols, c.side)
                     * (CeilToMultipleOf(elements \div c.total, c.side) \div c.side),
       items   |-> c.side * c.side,
       local   |-> TileWidth(c) * TileWidth(c),
       across  |-> CeilDiv(c.cols, c.side),
       elements |-> elements,
       cols |-> c.cols, side |-> c.side, range |-> c.range, neutral |-> c.neutral,
       out  |-> c.out]

OverlapLaunches(c) == <<OverlapLaunch(c)>>

OverlapBuffers(c) ==
  LET n == (c.rows + 2 * c.range) * c.cols
  IN  [b \in {In, Out, Constants} |->
         CASE b = In  -> Labelled(n, 0)
           [] b = Out -> Fresh(n)
           [] OTHER   -> At(0, NeutralElement)]

\* Every row has its items.
AllRows(c) == CeilToMultipleOf((c.rows * c.cols) \div c.total, c.side) >= c.rows

\* No tile sticks out over the last column.
WholeTiles(c) == c.cols % c.side = 0

\* The items of a tile's second row can load what is beside it.
Narrow(c) == c.range <= c.side /\ c.side > 1

-----------------------------------------------------------------------------
LocalColumn(l, i) == i % l.side
LocalRow(l, i)    == i \div l.side
Column(l, g, i)   == (g % l.across) * l.side + LocalColumn(l, i)
Row(l, g, i)      == (g \div l.across) * l.side + LocalRow(l, i)

\* localIndex and globalIndex of the kernel.
Tile(l, i, row, col) ==
  Cell(Shared, (row + LocalRow(l, i) + l.range) * TileWidth(l)
                 + l.range + LocalColumn(l, i) + col)

Global(l, b, g, i, row, col) ==
  Cell(b, (row + Row(l, g, i)) * l.cols + col + Column(l, g, i) + l.range * l.cols)

Padding(l, g, i, row, col) ==
  IF l.neutral THEN Cell(Constants, 0) ELSE Global(l, In, g, i, row, col)

\* What a loop copies to the tile, from[o] to the cell at offset o, written as a
\* function of the cells it assigns.
CopiedAt(l, i, from) ==
  [c \in {Tile(l, i, o[1], o[2]) : o \in DOMAIN from} |->
     <<from[CHOOSE o \in DOMAIN from : Tile(l, i, o[1], o[2]) = c]>>]

North(l, g, i) ==
  IF LocalRow(l, i) = 0
  THEN CopiedAt(l, i, [o \in (- l.range .. -1) \X {0} |-> Global(l, In, g, i, o[1], 0)])
  ELSE Nothing

South(l, g, i) ==
  IF LocalRow(l, i) = l.side - 1
  THEN CopiedAt(l, i, [o \in (1 .. l.range) \X {0} |-> Global(l, In, g, i, o[1], 0)])
  ELSE Nothing

\* The rows of the tile and its border, from the second row of items.
Rows(l) == - l.range - 1 .. l.side + l.range - 2

\* Mistake for West: the first column is not padded.
West_Unpadded(l, g, i) ==
  IF LocalRow(l, i) = 1 /\ Column(l, g, i) < l.cols /\ LocalColumn(l, i) < l.range
  THEN CopiedAt(l, i, [o \in Rows(l) \X {- l.range} |->
                           Global(l, In, g, i, o[1], - l.range)])
  ELSE Nothing

West(l, g, i) ==
  LET col == Column(l, g, i)
      to  == Rows(l) \X {- l.range}
  IN  CASE LocalRow(l, i) # 1 \/ col >= l.cols -> Nothing
        [] LocalRow(l, i) = 1 /\ col < l.cols /\ col < l.range ->
             CopiedAt(l, i, [o \in to |-> Padding(l, g, i, o[1], - col)])
        [] LocalRow(l, i) = 1 /\ col \in l.range .. l.cols - 1 ->
             IF LocalColumn(l, i) < l.range
             THEN CopiedAt(l, i, [o \in to |-> Global(l, In, g, i, o[1], - l.range)])
             ELSE Nothing

\* (The differences are unsigned: no column is beyond one that is below zero.)
East(l, g, i) ==
  LET col    == Column(l, g, i)
      to     == Rows(l) \X {l.range}
      padded == l.range <= l.cols /\ col >= l.cols - l.range
      copied == l.range <= l.side /\ LocalColumn(l, i) >= l.side - l.range
  IN  CASE LocalRow(l, i) # 1 \/ col >= l.cols -> Nothing
        [] LocalRow(l, i) = 1 /\ col < l.cols /\ padded ->
             CopiedAt(l, i, [o \in to |-> Padding(l, g, i, o[1], l.cols - col - 1)])
        [] LocalRow(l, i) = 1 /\ col < l.cols /\ ~ padded ->
             IF copied
             THEN CopiedAt(l, i, [o \in to |-> Global(l, In, g, i, o[1], l.range)])
             ELSE Nothing

\* The neighbourhood that getData gives the user function access to.
Window(l, i) ==
  LET w == 2 * l.range + 1
  IN  [k \in 1 .. w * w |->
         Tile(l, i, ((k - 1) \div w) - l.range, ((k - 1) % w) - l.range)]

OverlapPhases == 3

OverlapBarrier(p) == p > 0

OverlapCode(l, g, i, p) ==
  CASE p = 0 -> Copied(Tile(l, i, 0, 0), Global(l, In, g, i, 0, 0))
    [] p = 1 -> Merged(Merged(East(l, g, i), West(l, g, i)),
                       Merged(South(l, g, i), North(l, g, i)))
    [] p = 2 ->
         IF Row(l, g, i) < l.elements \div l.cols /\ Column(l, g, i) < l.cols
         THEN At(Global(l, l.out, g, i, 0, 0), Window(l, i))
         ELSE Nothing
=============================================================================

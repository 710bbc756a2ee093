--------------------------- MODULE AllPairsKernel ---------------------------
(***************************************************************************)
(* AllPairs from a Zip and a Reduce: output[r][c] is the reduction of the  *)
(* zip of row r of the left and column c of the right matrix.  A group of  *)
(* C by R items computes S tiles below each other, in segments of D        *)
(* elements of the rows, with a piece of each matrix in local memory.      *)
(*                                                                         *)
(* A call c has the height and the dimension of the left matrix, the width *)
(* of the right one, and the parameters C, R, S and D.  If it is general,  *)
(* one user function gets a row and a column, there are no segments, and   *)
(* each item has one cell.                                                 *)
(***************************************************************************)
EXTENDS KernelCode

AllPairsCall(c) ==
  /\ c.height \in Positive /\ c.dimension \in Positive /\ c.width \in Positive
  /\ c.C \in Positive /\ c.R \in Positive /\ c.S \in Positive /\ c.D \in Positive
  /\ c.general \in BOOLEAN /\ (c.general => c.S = 1) /\ c.warp \in Positive

AllPairsLaunch(c) ==
  [kernel |-> IF c.general THEN "SCL_ALLPAIRS, general" ELSE "SCL_ALLPAIRS",
   groups |-> CeilDiv(c.width, c.C) * CeilDiv(c.height, c.R * c.S),
   items  |-> c.C * c.R, local |-> c.R * c.D + c.D * c.C,
   across |-> CeilDiv(c.width, c.C),
   height |-> c.height, width |-> c.width, dimension |-> c.dimension,
   C |-> c.C, R |-> c.R, S |-> c.S, D |-> c.D]

AllPairsLaunches(c) == <<AllPairsLaunch(c)>>

AllPairsBuffers(c) ==
  [b \in {In, Second, Out} |->
     CASE b = In     -> Labelled(c.height * c.dimension, 0)
       [] b = Second -> Labelled(c.dimension * c.width, 100)
       [] OTHER      -> Fresh(c.height * c.width)]

-----------------------------------------------------------------------------
l_col(l, i)  == i % l.C
l_row(l, i)  == i \div l.C
col(l, g, i) == (g % l.across) * l.C + l_col(l, i)
row(l, g, i) == (g \div l.across) * l.R * l.S + l_row(l, i)

Ml(l, r, k) == Cell(Shared, r * l.D + k)
Nl(l, k, c) == Cell(Shared, l.R * l.D + k * l.C + c)

M(l, r, k) == Cell(In, r * l.dimension + k)
N(l, k, c) == Cell(Second, k * l.width + c)
P(l, r, c) == Cell(Out, r * l.width + c)

\* a(0), b(0), a(1), b(1), ...
Zipped(n, a(_), b(_)) ==
  [k \in 1 .. 2 * n |-> IF k % 2 = 1 THEN a(k \div 2) ELSE b(k \div 2 - 1)]

\* The segments: the whole ones, and the rest.
Segments(l) ==
  l.dimension \div l.D + (IF l.dimension % l.D # 0 /\ l.D > 1 THEN 1 ELSE 0)

\* The elements of a segment.
Segment(l, q) == q * l.D .. Min({(q + 1) * l.D, l.dimension}) - 1

\* Mistake for Tiles: each item looks at its own row.
Tiles_OwnRow(l, g, i) == Cardinality({s \in 0 .. l.S - 1 : row(l, g, i) + s * l.R < l.height})

\* The tiles the loop over s gets to: it ends where the group's rows end.
Tiles(l, g, i) ==
  Cardinality({s \in 0 .. l.S - 1 : row(l, g, i) - l_row(l, i) + s * l.R < l.height})

Clear(l, g, i) ==
  [p \in {P(l, row(l, g, i) + m * l.R, col(l, g, i)) :
            m \in {m \in 0 .. l.S - 1 : /\ row(l, g, i) + m * l.R < l.height
                                        /\ col(l, g, i) < l.width}} |-> << >>]

LoadN(l, g, i, q) ==
  LET mine == {k \in Segment(l, q) : k % l.R = l_row(l, i) /\ col(l, g, i) < l.width}
  IN  [c \in {Nl(l, k - q * l.D, l_col(l, i)) : k \in mine} |->
         <<N(l, CHOOSE k \in mine : Nl(l, k - q * l.D, l_col(l, i)) = c, col(l, g, i))>>]

\* Mistake for LoadM: the rows of the first tile, in each tile.
LoadM_FirstTile(l, g, i, q, s) ==
  LET mine == {k \in Segment(l, q) :
                 k % l.C = l_col(l, i) /\ row(l, g, i) + s * l.R < l.height}
  IN  [c \in {Ml(l, l_row(l, i), k - q * l.D) : k \in mine} |->
         <<M(l, row(l, g, i),
             CHOOSE k \in mine : Ml(l, l_row(l, i), k - q * l.D) = c)>>]

LoadM(l, g, i, q, s) ==
  LET mine == {k \in Segment(l, q) :
                 k % l.C = l_col(l, i) /\ row(l, g, i) + s * l.R < l.height}
  IN  [c \in {Ml(l, l_row(l, i), k - q * l.D) : k \in mine} |->
         <<M(l, row(l, g, i) + s * l.R,
             CHOOSE k \in mine : Ml(l, l_row(l, i), k - q * l.D) = c)>>]

\* result, read from P and written back to it: the item's own cell.
Accumulate(l, g, i, q, s) ==
  LET r    == row(l, g, i) + s * l.R
      cell == P(l, r, col(l, g, i))
  IN  IF r < l.height /\ col(l, g, i) < l.width
      THEN At(cell, <<cell>> \o Zipped(Cardinality(Segment(l, q)),
             LAMBDA k : Ml(l, l_row(l, i), k), LAMBDA k : Nl(l, k, l_col(l, i))))
      ELSE Nothing

\* The loops over segments and tiles, two phases for each tile.
AllPairsPhases(l, g, i) == 1 + 2 * Segments(l) * Tiles(l, g, i)

AllPairsBarrier(p) == p > 1

AllPairsCode(l, g, i, p) ==
  LET tile == (p - 1) \div 2
      q    == tile \div Tiles(l, g, i)
      s    == tile % Tiles(l, g, i)
  IN  CASE p = 0 -> Clear(l, g, i)
        [] p > 0 /\ p % 2 = 1 ->
             Merged(LoadM(l, g, i, q, s), IF s = 0 THEN LoadN(l, g, i, q) ELSE Nothing)
        [] p > 0 /\ p % 2 = 0 -> Accumulate(l, g, i, q, s)

\* AllPairsKernel2.cl: the user function sees all of its row and its column.
AllPairsGeneralCode(l, g, i) ==
  IF row(l, g, i) < l.height /\ col(l, g, i) < l.width
  THEN At(P(l, row(l, g, i), col(l, g, i)),
          Zipped(l.dimension, LAMBDA k : M(l, row(l, g, i), k),
                              LAMBDA k : N(l, k, col(l, g, i))))
  ELSE Nothing
=============================================================================

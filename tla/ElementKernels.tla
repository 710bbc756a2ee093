--------------------------- MODULE ElementKernels ---------------------------
(***************************************************************************)
(* The skeletons with one work item for each element, and nothing shared:  *)
(* Map in its six forms, Zip, and AllPairs with one user function for a    *)
(* row and a column.  The number of items is rounded up to whole groups,   *)
(* so each kernel has to send the surplus ones away.                       *)
(*                                                                         *)
(* A call c of Map has a form, the parts of all devices, in elements or    *)
(* for a matrix in rows of cols elements, and the device, whose part       *)
(* begins with element or row c.first; the output has c.outSize elements,  *)
(* c.outPart of them on the device.  An index, and a point, is an element  *)
(* of In.  A user function without a result leaves its mark in Out, at the *)
(* place of what it was called with.                                       *)
(***************************************************************************)
EXTENDS KernelCode

OfElements(c) == c.form \in {"elements", "elements, no result"}
OfPoints(c)   == c.form \in {"points", "points, no result"}
OfIndices(c)  == c.form \in {"indices", "indices, no result"}

\* What the devices 1 .. d have together.
PartsUpTo(c, d) ==
  LET sum[k \in 0 .. Len(c.parts)] == IF k = 0 THEN 0 ELSE sum[k - 1] + c.parts[k]
  IN  sum[d]

Total(c) == PartsUpTo(c, Len(c.parts))

\* offset and rowOffset: the parts of the devices before.
Offset(c) == PartsUpTo(c, c.device - 1)

MapForm == {"elements", "elements, no result", "indices", "indices, no result",
            "points", "points, no result"}

\* The output is no smaller than the input.
MapCall(c) ==
  /\ c.form \in MapForm
  /\ c.parts \in Seq(Nat) /\ c.device \in DOMAIN c.parts
  /\ c.first \in Nat /\ c.outPart \in Nat /\ c.outSize \in Nat
  /\ c.cols \in Positive /\ c.side \in Positive /\ c.warp \in Positive
  /\ OfPoints(c) \/ c.cols = 1
  /\ c.outPart >= c.parts[c.device] * c.cols /\ c.outPart <= c.outSize

\* The device's part is what the offsets add up to: no replicas.
OnePart(c) == OfElements(c) \/ Offset(c) = c.first

\* No surplus item is within the whole output and outside of the device's part.
WholeGroups(c) ==
  c.form \in {"indices", "points"} =>
    Min({CeilToMultipleOf(c.parts[c.device], c.side) * c.cols, c.outSize})
      <= c.parts[c.device] * c.cols

\* No surplus item is right of the last column.
WholeColumns(c) == c.form = "points" => c.cols % c.side = 0

-----------------------------------------------------------------------------
Part(c) == c.parts[c.device]

\* The index spaces: side items per group and dimension.
Line(n, side) ==
  [local |-> 0, side |-> side, items |-> side,
   groups |-> CeilToMultipleOf(n, side) \div side]

Area(rows, cols, side) ==
  [local |-> 0, side |-> side, items |-> side * side,
   down   |-> CeilToMultipleOf(rows, side) \div side,
   groups |-> (CeilToMultipleOf(rows, side) \div side) * (CeilToMultipleOf(cols, side) \div side),
   width  |-> CeilToMultipleOf(cols, side)]

ElementsLaunch(c) == Merged(Line(Part(c), c.side), [elements |-> Part(c)])

ElementsVoidLaunch(c) == ElementsLaunch(c)

IndicesLaunch(c) ==
  Merged(Line(Part(c), c.side), [outSize |-> c.outSize, offset |-> Offset(c)])

IndicesVoidLaunch(c) ==
  Merged(Line(Part(c), c.side), [elements |-> Part(c), offset |-> Offset(c)])

PointsLaunch(c) ==
  Merged(Area(Part(c), c.cols, c.side),
         [outSize |-> c.outSize, rowOffset |-> Offset(c), colCount |-> c.cols])

PointsVoidLaunch(c) ==
  Merged(Area(Part(c), c.cols, c.side),
         [colCount |-> c.cols, rowCount |-> Part(c), rowOffset |-> Offset(c)])

MapLaunch(c) ==
  Merged(CASE c.form = "elements"            -> ElementsLaunch(c)
           [] c.form = "elements, no result" -> ElementsVoidLaunch(c)
           [] c.form = "indices"             -> IndicesLaunch(c)
           [] c.form = "indices, no result"  -> IndicesVoidLaunch(c)
           [] c.form = "points"              -> PointsLaunch(c)
           [] c.form = "points, no result"   -> PointsVoidLaunch(c),
         [kernel |-> "SCL_MAP", form |-> c.form])

\* Out is the device's part of the output, or all of an additional argument, which
\* is copied to every device.
MapBuffers(c) ==
  LET all == CeilToMultipleOf(Total(c), c.side) * CeilToMultipleOf(c.cols, c.side)
  IN  [b \in {In, Out} |->
         IF b = In THEN Labelled(IF OfElements(c) THEN Part(c) ELSE 2 * all, 0)
         ELSE Fresh(IF c.form \in {"indices, no result", "points, no result"}
                    THEN Total(c) * c.cols ELSE c.outPart)]

-----------------------------------------------------------------------------
GlobalId(l, g, i) == g * l.side + i

PointRow(l, g, i)    == (g % l.down) * l.side + (i % l.side)
PointColumn(l, g, i) == (g \div l.down) * l.side + (i \div l.side)

\* The IndexPoint of column x and row y.
Point(l, y, x) == Cell(In, y * l.width + x)

ElementsCode(l, id) ==
  IF id < l.elements THEN Copied(Cell(Out, id), Cell(In, id)) ELSE Nothing

ElementsVoidCode(l, id) ==
  IF id < l.elements THEN Copied(Cell(Out, id), Cell(In, id)) ELSE Nothing

IndicesCode(l, id) ==
  IF id < l.outSize THEN Copied(Cell(Out, id), Cell(In, id + l.offset)) ELSE Nothing

\* Mistake for IndicesVoidCode: the indices of the first device.
IndicesVoidCode_NoOffset(l, id) ==
  IF id < l.elements THEN Copied(Cell(Out, id), Cell(In, id)) ELSE Nothing

IndicesVoidCode(l, id) ==
  IF id < l.elements
  THEN Copied(Cell(Out, id + l.offset), Cell(In, id + l.offset)) ELSE Nothing

PointsCode(l, row, col) ==
  IF row * l.colCount + col < l.outSize
  THEN Copied(Cell(Out, row * l.colCount + col), Point(l, row + l.rowOffset, col))
  ELSE Nothing

PointsVoidCode(l, row, col) ==
  IF col < l.colCount /\ row < l.rowCount
  THEN Copied(Cell(Out, (row + l.rowOffset) * l.colCount + col),
              Point(l, row + l.rowOffset, col))
  ELSE Nothing

MapCode(l, g, i) ==
  CASE l.form = "elements"            -> ElementsCode(l, GlobalId(l, g, i))
    [] l.form = "elements, no result" -> ElementsVoidCode(l, GlobalId(l, g, i))
    [] l.form = "indices"             -> IndicesCode(l, GlobalId(l, g, i))
    [] l.form = "indices, no result"  -> IndicesVoidCode(l, GlobalId(l, g, i))
    [] l.form = "points" ->
         PointsCode(l, PointRow(l, g, i), PointColumn(l, g, i))
    [] l.form = "points, no result" ->
         PointsVoidCode(l, PointRow(l, g, i), PointColumn(l, g, i))

-----------------------------------------------------------------------------
(***************************************************************************)
(* A call of Zip has the size n of the device's part of left and right and *)
(* the buffer out of the output, which may be one of theirs.  Without a    *)
(* result, the user function leaves its mark in Out.                       *)
(***************************************************************************)
ZipCall(c) ==
  /\ c.n \in Positive /\ c.side \in Positive /\ c.warp \in Positive
  /\ c.out \in {In, Second, Out} /\ c.result \in BOOLEAN
  /\ c.result \/ c.out = Out

ZipLaunch(c) ==
  Merged(Line(c.n, c.side), [kernel |-> "SCL_ZIP", elements |-> c.n, out |-> c.out])

ZipVoidLaunch(c) ==
  Merged(Line(c.n, c.side), [kernel |-> "SCL_ZIP", elements |-> c.n, out |-> Out])

ZipBuffers(c) ==
  [b \in {In, Second, Out} |->
     CASE b = In     -> Labelled(c.n, 0)
       [] b = Second -> Labelled(c.n, 100)
       [] OTHER      -> Fresh(c.n)]

\* Mistake for ZipCode: both operands are the left one.
ZipCode_LeftTwice(l, g, i) ==
  LET id == GlobalId(l, g, i)
  IN  IF id < l.elements
      THEN At(Cell(l.out, id), <<Cell(In, id), Cell(In, id)>>) ELSE Nothing

ZipCode(l, g, i) ==
  LET id == GlobalId(l, g, i)
  IN  IF id < l.elements
      THEN At(Cell(l.out, id), <<Cell(In, id), Cell(Second, id)>>) ELSE Nothing
=============================================================================

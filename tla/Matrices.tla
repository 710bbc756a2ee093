------------------------------ MODULE Matrices ------------------------------
(***************************************************************************)
(* Matrices and the skeletons that take them: Map, Zip, MapOverlap and     *)
(* AllPairs choose distributions for their operands, bring them to the     *)
(* devices, and have every device compute its part of the output.  What    *)
(* the kernels do on a device is the subject of the module Kernels; here   *)
(* an element of the output is right if all that it is computed from is.   *)
(***************************************************************************)
EXTENDS MatrixOps

KernelCode == INSTANCE KernelCode

CONSTANTS
  Side,       \* work items of MapOverlap along the side of a group, on all devices
  Matrix,     \* bound: the Matrix objects of the client
  Calls,      \* bound: the calls that this client makes
  Shapes,     \* bound: the sizes of matrices, as <<rows, columns>>
  Dists,      \* bound: the distributions the client asks for
  Overlaps,   \* bound: overlap ranges and paddings of the MapOverlap skeletons
  Written,    \* bound: the elements the client writes
  Broken      \* the client rules that this client does not keep

(***************************************************************************)
(* What the library leaves to its clients.                                 *)
(*   fetched   the result of a skeleton is brought to the host before it   *)
(*             is given to MapOverlap while it is overlap-distributed      *)
(*   range     no operand is on the devices for another overlap range;     *)
(*             those of MapOverlap, for another padding neither            *)
(*   tall      every device's part has as many rows as the overlap range   *)
(*   allRows, wholeTiles, narrow                                           *)
(*             the input of MapOverlap is of a shape, and its range of a   *)
(*             size, for which the kernel is right (module Kernels)        *)
(*   plain     the operands of AllPairs are not overlap-distributed        *)
(*   together  two operands in single distributions are on the device that *)
(*             is used, which by default is the first one                  *)
(*   fits      the output of Map or Zip is not larger than the input       *)
(*   hostOnly  erase_row is applied to matrices that live on the host      *)
(*             alone                                                       *)
(*   inner     erase_row is not applied to the last two rows               *)
(*   current   clear is applied to matrices with a current host copy       *)
(*   marked    writes are followed by dataOnHostModified                   *)
(***************************************************************************)
Rule == {"fetched", "range", "tall", "allRows", "wholeTiles", "narrow", "plain",
         "together", "fits", "hostOnly", "inner", "current", "marked"}

Call == {"construct", "move", "resize", "assign", "insert", "pop", "erase", "clear",
         "access", "write", "setDistribution", "copyDataToDevices",
         "map", "zip", "overlap", "allpairs"}

ASSUME CallsAssumption  == Calls \subseteq Call
ASSUME BrokenAssumption == Broken \subseteq Rule
ASSUME ShapesAssumption == Shapes \subseteq (1 .. MaxSize) \X (Nat \ {0})
ASSUME DistsAssumption  == Dists \subseteq DistributionType
ASSUME OverlapsAssumption ==
  \A o \in Overlaps : o.radius \in Nat \ {0} /\ o.padding \in Padding

ASSUME SideAssumption    == Side \in Nat \ {0}
ASSUME WrittenAssumption == Written \subseteq Nat \ {0}

Keeps(rule, condition) == rule \in Broken \/ condition

VARIABLE mat   \* mat[m]: the state of Matrix object m

-----------------------------------------------------------------------------
(***************************************************************************)
(* What the kernels compute.  The copy of the output that is on the host   *)
(* is old from then on.                                                    *)
(***************************************************************************)
BufferOf(m, d) == IF d \in DOMAIN m.buf THEN m.buf[d] ELSE << >>

\* The outcome of kernels that compute the cells in part[d], after the first
\* from cells of each buffer; what they leave alone is of the old contents.
Computed(out, from, part) ==
  DataOnDeviceModified(
    [out EXCEPT
      !.host = Filled(Len(@), Other),
      !.buf = [d \in DOMAIN @ |->
         [i \in DOMAIN @[d] |->
            IF d \in DOMAIN part THEN CellOf(part[d], i - from) ELSE Other]]])

MapPart(in, d) ==
  LET cells == BufferOf(in, d)
  IN  [i \in DOMAIN cells |-> IF cells[i] > 0 THEN cells[i] ELSE Other]

ZipPart(left, right, d) ==
  LET cells == BufferOf(left, d)
  IN  [i \in DOMAIN cells |->
         IF cells[i] > 0 /\ CellOf(BufferOf(right, d), i) = cells[i]
         THEN cells[i] ELSE Other]

Row(cells, r, cols) == [c \in 1 .. cols |-> CellOf(cells, (r - 1) * cols + c)]

Column(cells, c, rows, cols) == [r \in 1 .. rows |-> CellOf(cells, (r - 1) * cols + c)]

\* The elements of d's part, and the rows of work items for them, which are taken
\* from the number of rows of the whole matrix.
PartElements(in, o, d) == Len(BufferOf(in, d)) - 2 * o.radius * in.cols

ItemRows(in, o, d) ==
  KernelCode!CeilToMultipleOf(PartElements(in, o, d) \div in.rows, Side)

\* Every row has its items; no tile sticks out over the last column; the items of
\* a tile's second row can load what is beside it.
AllRows(in, o) ==
  \A d \in Device : PartElements(in, o, d) \div in.cols <= ItemRows(in, o, d)

WholeTiles(in) == in.cols % Side = 0

Narrow(o) == o.radius <= Side /\ Side > 1

\* The rows of the result; row r is f of the 2 * radius + 1 rows from r on.  A row
\* without items stays as it is, and tiles without their border give anything.
OverlapPart(in, o, d) ==
  LET cells  == BufferOf(in, d)
      height == PartElements(in, o, d) \div in.cols
      done(r) == r <= ItemRows(in, o, d) /\ WholeTiles(in) /\ Narrow(o)
      is(r, i) == \A k \in 0 .. 2 * o.radius :
        Row(cells, r + k, in.cols) = PaddedRow(in, i - o.radius + k, o.padding)
      row(r) == {i \in 1 .. in.rows : is(r, i)}
  IN  [e \in 1 .. height * in.cols |->
         LET r == 1 + ((e - 1) \div in.cols)
             c == 1 + ((e - 1) % in.cols)
         IN  IF ~ done(r) \/ row(r) = {} THEN Other
             ELSE RowLabels(in, CHOOSE i \in row(r) : TRUE)[c]]

ProductPart(out, left, right, d) ==
  LET height == Len(BufferOf(out, d)) \div right.cols
      row(r) == {i \in 1 .. left.rows :
                   Row(BufferOf(left, d), r, left.cols) = RowLabels(left, i)}
      column(c) ==
        Column(BufferOf(right, d), c, right.rows, right.cols)
          = Column(Elements(ElemCount(right)), c, right.rows, right.cols)
  IN  [e \in 1 .. height * right.cols |->
         LET r == 1 + ((e - 1) \div right.cols)
             c == 1 + ((e - 1) % right.cols)
         IN  IF row(r) = {} \/ ~ column(c) THEN Other
             ELSE RowLabels(right, CHOOSE i \in row(r) : TRUE)[c]]

-----------------------------------------------------------------------------
(***************************************************************************)
(* prepareInput and prepareOutput of the skeletons.                        *)
(***************************************************************************)
OnDevices(m) == StartUpload(CreateDeviceBuffers(m))

\* MatrixSize::operator< and operator>=, which are not each other's negation.
Smaller(m, n) ==
  IF m.cols = n.cols THEN m.rows < n.rows ELSE m.cols < n.cols /\ m.rows <= n.rows

NotSmaller(m, n) == m.cols >= n.cols /\ m.rows >= n.rows

SameSize(m, n) == m.rows = n.rows /\ m.cols = n.cols

\* createDeviceBuffers can give each device a buffer: there are none of no bytes.
Creatable(m) == HasBuffers(m) \/ \A d \in m.dist.devices : SizeOn(m, d) > 0

Tall(m) ==
  IsOverlap(m.dist) /\ NumDevices > 1 =>
    \A d \in Device : OverlapRows(0, m.rows, d) >= m.dist.radius

Uploadable(m) == ElemCount(m) > 0 /\ Creatable(m) /\ Keeps("tall", Tall(m))

WithDistributionOf(out, in) == CreateDeviceBuffers(SetDistribution(out, in.dist))

\* Map and Zip.
MapOutput(out, in) ==
  WithDistributionOf(IF Smaller(out, in) THEN Resize(out, in.rows, in.cols) ELSE out, in)

OverlapOutput(out, in) ==
  WithDistributionOf(
    IF out.rows # in.rows THEN Resize(out, in.rows, in.cols) ELSE out, in)

ProductOutput(out, left, right) ==
  WithDistributionOf(
    IF out.rows # left.rows \/ out.cols # right.cols
    THEN Resize(out, left.rows, right.cols) ELSE out, left)

Redistributed(S, m, dist) == [S EXCEPT ![m] = SetDistribution(@, dist)]

BothOnDevices(S, l, r) ==
  LET T == [S EXCEPT ![l] = OnDevices(@)] IN [T EXCEPT ![r] = OnDevices(@)]

\* Zip: distributions of one class count as equal.
ZipInput(S, l, r) ==
  LET left  == S[l].dist
      right == S[r].dist
  IN  CASE IsValid(left) /\ ~ IsValid(right) -> Redistributed(S, r, left)
        [] IsValid(right) /\ ~ IsValid(left) -> Redistributed(S, l, right)
        [] left.kind = right.kind /\ IsValid(left) -> S
        [] OTHER -> Redistributed(Redistributed(S, l, Block), r, Block)

\* Mistake for ProductInput: the right matrix is left in blocks.
ProductInput_RightKept(S, l, r) ==
  IF IsValid(S[l].dist) THEN S ELSE Redistributed(S, l, Block)

\* AllPairs: a device needs all of the right matrix.
ProductInput(S, l, r) ==
  LET kinds == <<S[l].dist.kind, S[r].dist.kind>>
      T == CASE kinds \in {"invalid"} \X {"invalid", "copy", "block"} ->
                  Redistributed(S, l, Block)
             [] kinds \in {"invalid", "copy"} \X {"single"} ->
                  Redistributed(S, l, Single(0))
             [] OTHER -> S
  IN  CASE kinds \in {"invalid", "copy", "block"} \X {"invalid", "block"}
             \/ kinds = <<"block", "single">> -> Redistributed(T, r, Copy)
        [] kinds \in {"single"} \X {"invalid", "block"} -> Redistributed(T, r, Single(0))
        [] OTHER -> T

-----------------------------------------------------------------------------
(***************************************************************************)
(* The calls of the client.                                                *)
(***************************************************************************)
Change(call, m, new) ==
  /\ call \in Calls
  /\ Usable(mat[m])
  /\ mat' = [mat EXCEPT ![m] = new]

Construct(m, shape, dist) ==
  /\ "construct" \in Calls
  /\ mat' = [mat EXCEPT ![m] = Constructed(shape[1], shape[2], dist)]

MoveMatrix(m, w) ==
  /\ "move" \in Calls
  /\ m # w /\ Usable(mat[m])
  /\ mat' = [mat EXCEPT ![w] = mat[m], ![m] = MovedFrom]

ResizeMatrix(m, shape) == Change("resize", m, Resize(mat[m], shape[1], shape[2]))

AssignAll(m, shape) == Change("assign", m, Assign(mat[m], shape[1], shape[2]))

InsertRowAt(m, r) ==
  /\ mat[m].rows < MaxSize /\ mat[m].cols > 0 /\ r <= mat[m].rows + 1
  /\ Change("insert", m, InsertRow(mat[m], r))

Pop(m) ==
  /\ mat[m].rows > 0
  /\ Change("pop", m, PopBackRow(mat[m]))

Erase(m, r) ==
  /\ r <= mat[m].rows
  /\ Keeps("hostOnly", ~ mat[m].devUp /\ ~ HasBuffers(mat[m]))
  /\ Keeps("inner", r < mat[m].rows - 1)
  /\ Change("erase", m, EraseRow(mat[m], r))

ClearMatrix(m) ==
  /\ Keeps("current", mat[m].hostUp)
  /\ Change("clear", m, Clear(mat[m]))

\* begin, end, row_begin, row_end, operator(), at, copyDataToHost.
Access(m) == Change("access", m, CopyDataToHost(mat[m]))

Write(m, e) ==
  /\ e <= ElemCount(mat[m])
  /\ \/ Change("write", m, DataOnHostModified(WriteElement(mat[m], e)))
     \/ "marked" \in Broken /\ Change("write", m, WriteElement(mat[m], e))

ChangeDistribution(m, dist) ==
  Change("setDistribution", m, SetDistribution(mat[m], dist))

CopyDataToDevices(m) ==
  /\ mat[m].hostUp /\ ~ mat[m].devUp /\ HasBuffers(mat[m]) /\ Uploadable(mat[m])
  /\ Change("copyDataToDevices", m, StartUpload(mat[m]))

\* A matrix whose buffers stay when it gets another overlap distribution.
SameRange(m, dist) ==
  IsOverlap(m.dist) /\ IsOverlap(dist) /\ HasBuffers(m) => m.dist.radius = dist.radius

MapCall(out, in) ==
  LET S == IF IsValid(mat[in].dist) THEN mat ELSE Redistributed(mat, in, Block)
      T == [S EXCEPT ![in] = OnDevices(@)]
      U == IF out = in THEN T ELSE [T EXCEPT ![out] = MapOutput(@, T[in])]
  IN  /\ "map" \in Calls
      /\ Usable(mat[in]) /\ Usable(mat[out])
      /\ Uploadable(S[in]) /\ NotSmaller(U[out], U[in])
      /\ Keeps("fits", SameSize(U[out], U[in]))
      /\ Keeps("range", SameRange(mat[out], U[in].dist))
      /\ mat' = [U EXCEPT ![out] =
           Computed(@, 0, [d \in U[in].dist.devices |-> MapPart(U[in], d)])]

ZipCall(out, l, r) ==
  LET S == ZipInput(mat, l, r)
      T == BothOnDevices(S, l, r)
      U == IF out \in {l, r} THEN T ELSE [T EXCEPT ![out] = MapOutput(@, T[l])]
  IN  /\ "zip" \in Calls
      /\ \A m \in {out, l, r} : Usable(mat[m])
      /\ SameSize(mat[l], mat[r])
      /\ Uploadable(S[l]) /\ Uploadable(S[r])
      /\ NotSmaller(U[out], U[l])
      /\ Keeps("fits", SameSize(U[out], U[l]))
      /\ Keeps("together", T[l].dist.devices \subseteq T[r].dist.devices)
      /\ Keeps("range", IsOverlap(T[l].dist) => T[l].dist.radius = T[r].dist.radius)
      /\ Keeps("range", SameRange(mat[out], U[l].dist))
      /\ mat' = [U EXCEPT ![out] =
           Computed(@, 0, [d \in U[l].dist.devices |-> ZipPart(U[l], U[r], d)])]

\* Into another matrix: a kernel that writes what others read is not modelled here.
OverlapCall(out, in, o) ==
  LET dist == Overlap(o.radius, o.padding)
      S == Redistributed(mat, in, dist)
      T == [S EXCEPT ![in] = OnDevices(@)]
      U == [T EXCEPT ![out] = OverlapOutput(@, T[in])]
      onDevices(m) == IsOverlap(mat[m].dist) /\ HasBuffers(mat[m])
  IN  /\ "overlap" \in Calls
      /\ out # in /\ Usable(mat[in]) /\ Usable(mat[out])
      /\ Uploadable(S[in])
      /\ U[out].cols = U[in].cols /\ U[out].rows = U[in].rows
      /\ Keeps("range", \A m \in {in, out} : onDevices(m) => mat[m].dist = dist)
      /\ Keeps("fetched", onDevices(in) => ~ MustDownload(mat[in]))
      /\ Keeps("allRows", AllRows(U[in], o))
      /\ Keeps("wholeTiles", WholeTiles(U[in]))
      /\ Keeps("narrow", Narrow(o))
      /\ mat' = [U EXCEPT ![out] =
           Computed(@, o.radius * @.cols, [d \in dist.devices |-> OverlapPart(U[in], o, d)])]

AllPairsCall(out, l, r) ==
  LET S == ProductInput(mat, l, r)
      T == BothOnDevices(S, l, r)
      U == [T EXCEPT ![out] = ProductOutput(@, T[l], T[r])]
      kinds == {mat[l].dist.kind, mat[r].dist.kind}
  IN  /\ "allpairs" \in Calls
      /\ out \notin {l, r} /\ \A m \in {out, l, r} : Usable(mat[m])
      /\ mat[l].cols = mat[r].rows
      /\ ~ {"invalid", "overlap"} \subseteq kinds
      /\ Uploadable(S[l]) /\ Uploadable(S[r])
      /\ Keeps("plain", "overlap" \notin kinds)
      /\ Keeps("together", T[l].dist.devices \subseteq T[r].dist.devices)
      /\ mat' = [U EXCEPT ![out] =
           Computed(@, 0, [d \in U[l].dist.devices |-> ProductPart(U[out], U[l], U[r], d)])]

-----------------------------------------------------------------------------
Init == mat = [m \in Matrix |-> Default]

Next ==
  \E m \in Matrix :
    \/ \E shape \in Shapes, dist \in Dists : Construct(m, shape, dist)
    \/ \E w \in Matrix : MoveMatrix(m, w)
    \/ \E shape \in Shapes : ResizeMatrix(m, shape) \/ AssignAll(m, shape)
    \/ \E r \in 1 .. MaxSize : InsertRowAt(m, r) \/ Erase(m, r)
    \/ Pop(m)
    \/ ClearMatrix(m)
    \/ Access(m)
    \/ \E e \in Written : Write(m, e)
    \/ \E dist \in Dists \ {Invalid} : ChangeDistribution(m, dist)
    \/ CopyDataToDevices(m)
    \/ \E in \in Matrix : MapCall(m, in)
    \/ \E l, r \in Matrix : ZipCall(m, l, r) \/ AllPairsCall(m, l, r)
    \/ \E in \in Matrix, o \in Overlaps : OverlapCall(m, in, o)

Spec == Init /\ [][Next]_mat

-----------------------------------------------------------------------------
\* The rows before those of device d, and its rows.
FirstRow(m, d) ==
  CASE IsOverlap(m.dist)      -> d * (m.rows \div NumDevices)
    [] m.dist.kind = "block"  -> d * Quota(m.rows)
    [] OTHER                  -> 0

OwnCells(m, d) ==
  IF IsOverlap(m.dist)
  THEN SubSeq(m.buf[d], Halo(m) + 1, Len(m.buf[d]) - Halo(m))
  ELSE m.buf[d]

(***************************************************************************)
(* What a matrix consists of.                                              *)
(***************************************************************************)
MatrixType(m) ==
  /\ m.rows \in 0 .. MaxSize /\ m.cols \in Nat
  /\ m.hostUp \in BOOLEAN /\ m.devUp \in BOOLEAN
  /\ m.dist \in DistributionType \cup
       {Overlap(o.radius, o.padding) : o \in Overlaps}
  /\ DOMAIN m.buf \in {{}, m.dist.devices}
  /\ \A cells \in {m.host} \cup {m.buf[d] : d \in DOMAIN m.buf} :
       \A i \in 1 .. Len(cells) : cells[i] \in {Neutral, Other} \cup 1 .. ElemCount(m)

TypeOK == \A m \in Matrix : MatrixType(mat[m])

(***************************************************************************)
(* Where the flags say that the data is current, it is: every element on   *)
(* the host, and on each device those of its part.  This is about all that *)
(* a client can see: what it reads, and what the skeletons compute.        *)
(***************************************************************************)
CurrentOnHost(m) == m.host = Elements(ElemCount(m))

CurrentOnDevices(m) ==
  \A d \in m.dist.devices :
    OwnCells(m, d) = [i \in 1 .. (RowsOn(m.dist, m.rows, d) * m.cols
                        - (IF IsOverlap(m.dist) THEN 2 * Halo(m) ELSE 0)) |->
                        FirstRow(m, d) * m.cols + i]

CurrentWhereMarked ==
  \A m \in Matrix :
    /\ mat[m].hostUp => CurrentOnHost(mat[m])
    /\ mat[m].devUp /\ ElemCount(mat[m]) > 0 => CurrentOnDevices(mat[m])

(***************************************************************************)
(* No call loses the data: it is on the host, or on all of the devices of  *)
(* the distribution.                                                       *)
(***************************************************************************)
DataIsSomewhere ==
  \A m \in Matrix :
    \/ mat[m].hostUp
    \/ mat[m].devUp /\ IsValid(mat[m].dist) /\ DOMAIN mat[m].buf = mat[m].dist.devices
    \/ mat[m] = MovedFrom

(***************************************************************************)
(* After the upload of an overlap distribution every device has, above and *)
(* below its part, the rows that are its neighbours' or the padding        *)
(* (OLDistributionDef.h: the offsets of the first, the inner and the last  *)
(* devices).                                                               *)
(***************************************************************************)
OverlapsAreBorders ==
  \A m \in Matrix :
    LET o == mat[m]
    IN  IsOverlap(o.dist) /\ o.hostUp /\ o.devUp /\ ElemCount(o) > 0 =>
          \A d \in Device : o.buf[d] =
            [i \in 1 .. RowsOn(o.dist, o.rows, d) * o.cols |->
              LET row == FirstRow(o, d) + 1 + ((i - 1) \div o.cols) - o.dist.radius
              IN  PaddedRow(o, row, o.dist.padding)[1 + ((i - 1) % o.cols)]]

(***************************************************************************)
(* The buffers that a matrix has kept are of the size that the next        *)
(* transfer takes them for: no transfer that the flags call for reaches    *)
(* beyond the host memory or the buffer.                                   *)
(***************************************************************************)
InBounds(piece, host, buffer) ==
  /\ piece.size >= 0 /\ piece.onHost >= 0 /\ piece.onDevice >= 0
  /\ piece.onHost + piece.size <= host
  /\ piece.onDevice + piece.size <= buffer

TransfersFit ==
  \A x \in Matrix :
    LET m == mat[x]
    IN  \A d \in DOMAIN m.buf :
          /\ MustDownload(m) => InBounds(DownloadPiece(m, d), ElemCount(m), Len(m.buf[d]))
          /\ m.hostUp /\ ~ m.devUp =>
               InBounds(UploadPiece(m, d), Len(m.host), Len(m.buf[d]))
=============================================================================

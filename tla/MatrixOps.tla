----------------------------- MODULE MatrixOps -----------------------------
(***************************************************************************)
(* A Matrix: the members of the class and the transfers of its             *)
(* distributions, as operators on the state of one object.                 *)
(*                                                                         *)
(* The elements are counted row by row.  A cell, of the host buffer or of  *)
(* a device buffer, does not hold a number: it holds i if it has the value *)
(* that element i has now, Neutral if it has the neutral element of a      *)
(* padding, and Other if it has any other value.  What the elements become *)
(* and which of the copies have become old is all that the members and the *)
(* skeletons are about.                                                    *)
(*                                                                         *)
(* A transfer is done when its call returns.  The client does not change   *)
(* host memory while an upload reads it; that the queues are in-order then *)
(* hides the devices from it, which SkelCL shows for Vector.               *)
(***************************************************************************)
EXTENDS Distribution, FiniteSetsExt, SequencesExt

Other   == 0
Neutral == -1

Padding == {"NEAREST", "NEUTRAL"}

\* The overlap distribution of MapOverlap.
Overlap(radius, padding) ==
  [kind |-> "overlap", devices |-> Device, radius |-> radius, padding |-> padding]

IsOverlap(dist) == dist.kind = "overlap"

\* Mistake for ForcesExchange: an overlap distribution is taken for blocks.
ForcesExchange_NotToBlock(old, new) ==
  IF IsOverlap(old) THEN new.kind \notin {"overlap", "block"} ELSE NeedsExchange(old, new)

\* dataExchangeOnDistributionChange: neither radius nor padding is compared.
ForcesExchange(old, new) ==
  IF IsOverlap(old) THEN ~ IsOverlap(new) ELSE NeedsExchange(old, new)

\* sizeForDevice: the rows of a device's buffer.
OverlapRows(radius, rows, d) ==
  2 * radius + rows \div NumDevices + (IF d = LastDevice THEN rows % NumDevices ELSE 0)

RowsOn(dist, rows, d) ==
  IF IsOverlap(dist) THEN OverlapRows(dist.radius, rows, d)
  ELSE SizeForDevice(dist, rows, d)

-----------------------------------------------------------------------------
(***************************************************************************)
(* m.rows and m.cols are _size, m.host is _hostBuffer, m.hostUp and        *)
(* m.devUp are the two flags, m.dist is _distribution, and m.buf has the   *)
(* contents of the _deviceBuffers of the devices that have one.            *)
(***************************************************************************)
NoBuffers == << >>

ElemCount(m) == m.rows * m.cols

Default ==
  [rows |-> 0, cols |-> 0, host |-> << >>, hostUp |-> TRUE, devUp |-> FALSE,
   dist |-> Invalid, buf |-> NoBuffers]

\* All elements as they should be.
Elements(n) == [i \in 1 .. n |-> i]

Constructed(rows, cols, dist) ==
  [Default EXCEPT !.rows = rows, !.cols = cols, !.host = Elements(rows * cols),
                  !.dist = dist]

\* A moved-from matrix has no distribution: nothing but an assignment works.
MovedFrom == [Default EXCEPT !.hostUp = FALSE]

Usable(m) == m.hostUp \/ m.devUp

HasBuffers(m) == DOMAIN m.buf # {}

\* Mistake for DropBuffers: only the flag is reset.
DropBuffers_Kept(m) == [m EXCEPT !.devUp = FALSE]

DropBuffers(m) == [m EXCEPT !.devUp = FALSE, !.buf = NoBuffers]

\* Each copy of the elements, wherever it is, after they have changed: what was
\* element i is now element to[i], or nothing.
Renumbered(m, to) ==
  LET renumber(cells) ==
        [i \in DOMAIN cells |-> IF cells[i] > 0 THEN to[cells[i]] ELSE cells[i]]
  IN  [m EXCEPT !.host = renumber(@), !.buf = [d \in DOMAIN @ |-> renumber(@[d])]]

\* std::vector::resize to the length of added, of which the new cells are taken.
Lengthened(cells, added) ==
  [i \in DOMAIN added |-> IF i <= Len(cells) THEN cells[i] ELSE added[i]]

Filled(n, cell) == [i \in 1 .. n |-> cell]

CellOf(cells, i) == IF i \in DOMAIN cells THEN cells[i] ELSE Other

-----------------------------------------------------------------------------
(***************************************************************************)
(* Buffers and transfers.  A piece is size cells, of which the first is    *)
(* the one after onDevice in a device buffer and after onHost in the host  *)
(* buffer.                                                                 *)
(***************************************************************************)
SizeOn(m, d) == RowsOn(m.dist, m.rows, d) * m.cols

CreateDeviceBuffers(m) ==
  IF HasBuffers(m) THEN m
  ELSE [m EXCEPT !.buf = [d \in m.dist.devices |-> Filled(SizeOn(m, d), Other)]]

\* to, with a piece of from in place from the cell after at on.
Overwritten(to, at, from, start, size) ==
  [i \in DOMAIN to |->
     IF i - at \in 1 .. size THEN CellOf(from, start + i - at) ELSE to[i]]

\* The cells of the buffers before d's, less the given number of each.
Before(m, d, less) ==
  LET sum[e \in 0 .. d] ==
        IF e = 0 THEN 0
        ELSE sum[e - 1] + (IF e - 1 \in DOMAIN m.buf THEN Len(m.buf[e - 1]) - less ELSE 0)
  IN  sum[d]

Halo(m) == m.dist.radius * m.cols

\* Mistake for OverlapPiece: on every device the part starts where it does on
\* the first one, so that the border above it is left out.
OverlapPiece_NoBorder(m, d) ==
  LET above == IF d = 0 THEN Halo(m) ELSE 0
      below == IF d = LastDevice THEN Halo(m) ELSE 0
  IN  [onDevice |-> above,
       onHost   |-> Before(m, d, 2 * Halo(m)),
       size     |-> Len(m.buf[d]) - above - below]

\* What the upload of an overlap distribution writes: a part and its borders,
\* less the paddings above the first and below the last of the parts.
OverlapPiece(m, d) ==
  LET above == IF d = 0 THEN Halo(m) ELSE 0
      below == IF d = LastDevice THEN Halo(m) ELSE 0
  IN  [onDevice |-> above,
       onHost   |-> IF d = 0 THEN 0 ELSE Before(m, d, 2 * Halo(m)) - Halo(m),
       size     |-> Len(m.buf[d]) - above - below]

WholeBuffer(m, d) ==
  [onDevice |-> 0,
   onHost   |-> IF m.dist.kind = "block" THEN Before(m, d, 0) ELSE 0,
   size     |-> Len(m.buf[d])]

UploadPiece(m, d) == IF IsOverlap(m.dist) THEN OverlapPiece(m, d) ELSE WholeBuffer(m, d)

DownloadPiece(m, d) ==
  IF IsOverlap(m.dist)
  THEN [onDevice |-> Halo(m), onHost |-> Before(m, d, 2 * Halo(m)),
        size |-> Len(m.buf[d]) - 2 * Halo(m)]
  ELSE WholeBuffer(m, d)

\* Row i, or the padding where there is none; in terms of what it should hold.
RowLabels(m, i) == [c \in 1 .. m.cols |-> (i - 1) * m.cols + c]

PaddedRow(m, i, padding) ==
  IF i \in 1 .. m.rows THEN RowLabels(m, i)
  ELSE IF padding = "NEUTRAL" THEN Filled(m.cols, Neutral)
  ELSE RowLabels(m, IF i < 1 THEN 1 ELSE m.rows)

\* paddingTop and paddingBottom: copies of the first and the last row, or neutral.
PaddingCells(m, row) ==
  [i \in 1 .. Halo(m) |->
     IF m.dist.padding = "NEUTRAL" THEN Neutral
     ELSE CellOf(m.host, (row - 1) * m.cols + 1 + ((i - 1) % m.cols))]

Padded(m, d) ==
  LET buffer == m.buf[d]
      top    == IF IsOverlap(m.dist) /\ d = 0
                THEN Overwritten(buffer, 0, PaddingCells(m, 1), 0, Halo(m))
                ELSE buffer
  IN  IF IsOverlap(m.dist) /\ d = LastDevice
      THEN Overwritten(top, Len(top) - Halo(m), PaddingCells(m, m.rows), 0, Halo(m))
      ELSE top

StartUpload(m) ==
  IF m.devUp THEN m
  ELSE [m EXCEPT
         !.devUp = TRUE,
         !.buf = [d \in DOMAIN m.buf |->
            LET piece == UploadPiece(m, d)
            IN  Overwritten(Padded(m, d), piece.onDevice, m.host, piece.onHost, piece.size)]]

DataOnDeviceModified(m) == [m EXCEPT !.hostUp = FALSE, !.devUp = TRUE]
DataOnHostModified(m)   == [m EXCEPT !.hostUp = TRUE, !.devUp = FALSE]

MustDownload(m) == m.devUp /\ ~ m.hostUp

\* The host cells, with a piece of each device; of two that overlap the later.
Joined(cells, buf, piece) ==
  [i \in DOMAIN cells |->
     LET from == {d \in DOMAIN piece : i - piece[d].onHost \in 1 .. piece[d].size}
         last == Max(from)
     IN  IF from = {} THEN cells[i]
         ELSE CellOf(buf[last], piece[last].onDevice + i - piece[last].onHost)]

\* The devices are asked in order, each for its piece.
ReadFrom(m) ==
  Joined(Lengthened(m.host, Filled(ElemCount(m), Other)), m.buf,
         [d \in DownloadDevices(m.dist) |-> DownloadPiece(m, d)])

\* Mistake for StartDownload: also with overlaps, the devices remain current.
StartDownload_OverlapCurrent(m) ==
  [m EXCEPT !.host = ReadFrom(m), !.hostUp = TRUE, !.devUp = m.dist.kind # "copy"]

\* Copy and overlap distributions then mark the data on the devices as out of date.
StartDownload(m) ==
  [m EXCEPT !.host = ReadFrom(m), !.hostUp = TRUE,
            !.devUp = m.dist.kind \notin {"copy", "overlap"}]

CopyDataToHost(m) == IF MustDownload(m) THEN StartDownload(m) ELSE m

\* Mistake for SetDistribution: the data is not fetched before.
SetDistribution_NotFetched(m, dist) ==
  IF IsValid(m.dist) /\ ForcesExchange(m.dist, dist)
  THEN [DropBuffers(m) EXCEPT !.dist = dist]
  ELSE [m EXCEPT !.dist = dist]

SetDistribution(m, dist) ==
  IF IsValid(m.dist) /\ ForcesExchange(m.dist, dist)
  THEN [DropBuffers(CopyDataToHost(m)) EXCEPT !.dist = dist]
  ELSE [m EXCEPT !.dist = dist]

-----------------------------------------------------------------------------
(***************************************************************************)
(* The members that change the elements.                                   *)
(***************************************************************************)
Resized(m, rows, cols) ==
  [DropBuffers(m) EXCEPT
    !.host = Lengthened(@, Elements(rows * cols)), !.rows = rows, !.cols = cols]

Resize(m, rows, cols) == Resized(CopyDataToHost(m), rows, cols)

Assign(m, rows, cols) ==
  [DropBuffers(CopyDataToHost(m)) EXCEPT
    !.host = Elements(rows * cols), !.rows = rows, !.cols = cols]

\* row_begin(r), as the number of cells before it; r is counted from 1.
RowBegin(m, r) ==
  IF (r - 1) * m.cols < ElemCount(m) THEN (r - 1) * m.cols ELSE Len(m.host)

InsertRow(m, r) ==
  LET fetched == CopyDataToHost(m)
      at      == RowBegin(fetched, r)
      moved   == Renumbered(fetched, [e \in Nat |-> IF e > at THEN e + m.cols ELSE e])
  IN  [DropBuffers(moved) EXCEPT
        !.host = SubSeq(@, 1, at) \o [c \in 1 .. m.cols |-> at + c]
                   \o SubSeq(@, at + 1, Len(@)),
        !.rows = @ + 1]

PopBackRow(m) == Resize(CopyDataToHost(m), m.rows - 1, m.cols)

\* _size is reduced first; device copy and flags stay as they are.
EraseRow(m, r) ==
  LET smaller == CopyDataToHost([m EXCEPT !.rows = @ - 1])
      first   == RowBegin(smaller, r)
      last    == RowBegin(smaller, r + 1)
      erased  == [smaller EXCEPT
                   !.host = SubSeq(@, 1, first) \o SubSeq(@, last + 1, Len(@))]
  IN  Renumbered(erased, [e \in Nat |-> CASE e <= (r - 1) * m.cols -> e
                                         [] e > r * m.cols -> e - m.cols
                                         [] OTHER -> Other])

\* The flags stay as they are.
Clear(m) ==
  [m EXCEPT !.host = << >>, !.buf = NoBuffers, !.rows = 0, !.cols = 0]

\* A write through the reference that operator() returns: the copies of the
\* element that are elsewhere become old.
WriteElement(m, e) ==
  LET old == Renumbered(CopyDataToHost(m), [f \in Nat |-> IF f = e THEN Other ELSE f])
  IN  [old EXCEPT !.host[e] = e]
=============================================================================

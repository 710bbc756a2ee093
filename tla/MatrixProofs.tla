---------------------------- MODULE MatrixProofs ----------------------------
(***************************************************************************)
(* No call of a client that clears no matrix whose data is on the devices  *)
(* alone loses the data of a matrix; and if the client keeps all rules,    *)
(* every copy that is marked as current has every element in its place,    *)
(* with the right borders: for any number of matrices and devices, and any *)
(* rows, columns and ranges that the rules admit.                          *)
(***************************************************************************)
EXTENDS Matrices, RecursionProofs

Fields == {"rows", "cols", "host", "hostUp", "devUp", "dist", "buf"}

Known == DistributionType \cup {Overlap(r, p) : r \in Nat, p \in Padding}

\* There are buffers for the devices of the distribution.
Buffered(m) == DOMAIN m.buf = m.dist.devices

Kept(m) == m.hostUp \/ (m.devUp /\ IsValid(m.dist) /\ Buffered(m))

\* What is true of a matrix that can be used.
Sound(m) ==
  /\ DOMAIN m = Fields
  /\ m.dist \in Known
  /\ DOMAIN m.buf = {} \/ Buffered(m)
  /\ Kept(m)

\* ... and of one that the skeletons have prepared.
Prepared(m) == Sound(m) /\ IsValid(m.dist) /\ Buffered(m)

SoundAll(S) ==
  /\ S = [m \in Matrix |-> S[m]]
  /\ \A m \in Matrix : Sound(S[m]) \/ S[m] = MovedFrom

-----------------------------------------------------------------------------
\* A distribution that replaces another without an exchange has its devices.
LEMMA SameDevices ==
  ASSUME NEW old \in Known, NEW new \in Known, IsValid(old), ~ ForcesExchange(old, new)
  PROVE  old.devices = new.devices
<1>1. CASE IsOverlap(old)
  <2>1. IsOverlap(new)
    BY <1>1 DEF ForcesExchange
  <2>2. \A d \in Known : IsOverlap(d) => d.devices = Device
    BY DEF Known, DistributionType, ValidDistribution, Single, Block, Copy, Invalid,
           Overlap, IsOverlap
  <2> QED BY <1>1, <2>1, <2>2
<1>2. CASE ~ IsOverlap(old)
  <2>1. ~ NeedsExchange(old, new)
    BY <1>2 DEF ForcesExchange
  <2>2. old \in {Single(d) : d \in Device} \cup {Block, Copy}
    BY <1>2 DEF Known, DistributionType, ValidDistribution, Invalid, IsValid, Overlap,
                IsOverlap
  <2>3. CASE old = Block
    BY <2>1, <2>3 DEF NeedsExchange, BlockExchanges, Block
  <2>4. CASE old = Copy
    BY <2>1, <2>4 DEF NeedsExchange, Copy
  <2>5. CASE old \in {Single(d) : d \in Device}
    BY <2>1, <2>5 DEF NeedsExchange, SingleExchanges, Single
  <2> QED BY <2>2, <2>3, <2>4, <2>5
<1> QED BY <1>1, <1>2

\* What concerns neither flags, nor distribution, nor which devices have buffers.
LEMMA ContentsSound ==
  ASSUME NEW m, Sound(m), NEW n, DOMAIN n = Fields, n.dist = m.dist,
         DOMAIN n.buf = DOMAIN m.buf, n.hostUp = m.hostUp, n.devUp = m.devUp
  PROVE  Sound(n)
BY DEF Sound, Kept, Buffered

\* A matrix that is renumbered has its flags, distribution and buffers.
LEMMA RenumberedSound ==
  ASSUME NEW m, NEW to, Sound(m)
  PROVE  /\ Sound(Renumbered(m, to))
         /\ Renumbered(m, to).hostUp = m.hostUp /\ Renumbered(m, to).devUp = m.devUp
         /\ Renumbered(m, to).dist = m.dist
<1> DEFINE renumber(cells) ==
      [i \in DOMAIN cells |-> IF cells[i] > 0 THEN to[cells[i]] ELSE cells[i]]
<1>1. Renumbered(m, to) =
        [m EXCEPT !.host = renumber(@), !.buf = [d \in DOMAIN @ |-> renumber(@[d])]]
  BY DEF Renumbered
<1> HIDE DEF renumber
<1> DEFINE n == Renumbered(m, to)
<1>2. DOMAIN n = Fields /\ DOMAIN n.buf = DOMAIN m.buf
  BY <1>1 DEF Sound, Fields
<1>3. n.hostUp = m.hostUp /\ n.devUp = m.devUp /\ n.dist = m.dist
  BY <1>1 DEF Sound, Fields
<1> HIDE DEF n
<1>4. Sound(n)
  BY <1>2, <1>3, ContentsSound
<1> QED BY <1>3, <1>4 DEF n

\* After copyDataToHost the host copy is current.
LEMMA Fetched ==
  ASSUME NEW m, Sound(m)
  PROVE  /\ Sound(CopyDataToHost(m)) /\ CopyDataToHost(m).hostUp
         /\ CopyDataToHost(m).dist = m.dist
<1>1. CASE MustDownload(m)
  <2> DEFINE n == StartDownload(m)
  <2>1. /\ DOMAIN n = Fields /\ n.buf = m.buf /\ n.dist = m.dist
        /\ n.hostUp
    BY DEF StartDownload, Sound, Fields
  <2> HIDE DEF n
  <2>2. Sound(n)
    BY <2>1 DEF Sound, Kept, Buffered
  <2>3. CopyDataToHost(m) = n
    BY <1>1 DEF CopyDataToHost, n
  <2> QED BY <2>1, <2>2, <2>3
<1>2. CASE ~ MustDownload(m)
  <2>1. CopyDataToHost(m) = m
    BY <1>2 DEF CopyDataToHost
  <2>2. m.hostUp
    BY <1>2 DEF MustDownload, Sound, Kept
  <2> QED BY <2>1, <2>2
<1> QED BY <1>1, <1>2

\* Buffers may be dropped when the host copy is current.
LEMMA DroppedSound ==
  ASSUME NEW m, Sound(m), m.hostUp
  PROVE  /\ Sound(DropBuffers(m)) /\ DropBuffers(m).hostUp
         /\ DropBuffers(m).dist = m.dist /\ DOMAIN DropBuffers(m).buf = {}
<1> DEFINE n == DropBuffers(m)
<1>1. DOMAIN n = Fields /\ n.buf = << >> /\ n.dist = m.dist /\ n.hostUp
  BY DEF DropBuffers, NoBuffers, Sound, Fields
<1>2. DOMAIN n.buf = {}
  BY <1>1
<1> HIDE DEF n
<1>3. Sound(n)
  BY <1>1, <1>2 DEF Sound, Kept
<1> QED BY <1>1, <1>2, <1>3 DEF n

\* A matrix without a distribution has no buffers, and its data on the host.
LEMMA InvalidOnHost ==
  ASSUME NEW m, Sound(m), ~ IsValid(m.dist)
  PROVE  DOMAIN m.buf = {} /\ m.hostUp
<1>1. m.dist = Invalid
  BY DEF Sound, Known, DistributionType, ValidDistribution, Single, Block, Copy, Invalid,
         Overlap, IsValid
<1> QED BY <1>1 DEF Sound, Buffered, Kept, Invalid, IsValid

LEMMA SetDistributionSound ==
  ASSUME NEW m, Sound(m), NEW dist \in Known, IsValid(dist)
  PROVE  Sound(SetDistribution(m, dist)) /\ SetDistribution(m, dist).dist = dist
<1>1. CASE IsValid(m.dist) /\ ForcesExchange(m.dist, dist)
  <2> DEFINE f == CopyDataToHost(m)
             e == DropBuffers(f)
             n == [e EXCEPT !.dist = dist]
  <2>1. SetDistribution(m, dist) = n
    BY <1>1 DEF SetDistribution
  <2>2. Sound(f) /\ f.hostUp
    BY Fetched
  <2> HIDE DEF f
  <2>3. Sound(e) /\ e.hostUp /\ DOMAIN e.buf = {}
    BY <2>2, DroppedSound
  <2> HIDE DEF e
  <2>4. DOMAIN n = Fields /\ n.dist = dist /\ n.hostUp /\ DOMAIN n.buf = {}
    BY <2>3 DEF Sound, Fields
  <2> HIDE DEF n
  <2> QED BY <2>1, <2>4 DEF Sound, Kept
<1>2. CASE ~ (IsValid(m.dist) /\ ForcesExchange(m.dist, dist))
  <2> DEFINE n == [m EXCEPT !.dist = dist]
  <2>1. SetDistribution(m, dist) = n
    BY <1>2 DEF SetDistribution
  <2>2. /\ DOMAIN n = Fields /\ n.dist = dist /\ n.buf = m.buf
        /\ n.hostUp = m.hostUp /\ n.devUp = m.devUp
    BY DEF Sound, Fields
  <2> HIDE DEF n
  <2>3. CASE IsValid(m.dist)
    <3>1. m.dist \in Known
      BY DEF Sound
    <3>2. m.dist.devices = dist.devices
      BY <1>2, <2>3, <3>1, SameDevices
    <3> QED BY <2>1, <2>2, <3>2 DEF Sound, Kept, Buffered
  <2>4. CASE ~ IsValid(m.dist)
    <3>1. DOMAIN m.buf = {} /\ m.hostUp
      BY <2>4, InvalidOnHost
    <3> QED BY <2>1, <2>2, <3>1 DEF Sound, Kept
  <2> QED BY <2>3, <2>4
<1> QED BY <1>1, <1>2

-----------------------------------------------------------------------------
(***************************************************************************)
(* The members.                                                            *)
(***************************************************************************)
\* What the members that change the size do last.
LEMMA ReplacedSound ==
  ASSUME NEW m, Sound(m), m.hostUp, NEW host, NEW rows, NEW cols
  PROVE  Sound([DropBuffers(m) EXCEPT !.host = host, !.rows = rows, !.cols = cols])
<1> DEFINE e == DropBuffers(m)
           n == [e EXCEPT !.host = host, !.rows = rows, !.cols = cols]
<1>1. Sound(e)
  BY DroppedSound
<1> HIDE DEF e
<1>2. /\ DOMAIN n = Fields /\ n.dist = e.dist /\ n.buf = e.buf
      /\ n.hostUp = e.hostUp /\ n.devUp = e.devUp
  BY <1>1 DEF Sound, Fields
<1> HIDE DEF n
<1>3. Sound(n)
  BY <1>1, <1>2, ContentsSound
<1> QED BY <1>3 DEF n, e

LEMMA ResizeSound ==
  ASSUME NEW m, Sound(m), NEW rows, NEW cols
  PROVE  Sound(Resize(m, rows, cols))
<1> DEFINE f == CopyDataToHost(m)
<1>1. Sound(f) /\ f.hostUp
  BY Fetched
<1> HIDE DEF f
<1> DEFINE host == Lengthened(DropBuffers(f).host, Elements(rows * cols))
           n == [DropBuffers(f) EXCEPT !.host = host, !.rows = rows, !.cols = cols]
<1>2. Resize(m, rows, cols) = n
  BY DEF Resize, Resized, f
<1> HIDE DEF host
<1>3. Sound(n)
  BY <1>1, ReplacedSound
<1> QED BY <1>2, <1>3

LEMMA AssignSound ==
  ASSUME NEW m, Sound(m), NEW rows, NEW cols
  PROVE  Sound(Assign(m, rows, cols))
<1> DEFINE f == CopyDataToHost(m)
<1>1. Sound(f) /\ f.hostUp
  BY Fetched
<1> HIDE DEF f
<1> DEFINE host == Elements(rows * cols)
           n == [DropBuffers(f) EXCEPT !.host = host, !.rows = rows, !.cols = cols]
<1>2. Assign(m, rows, cols) = n
  BY DEF Assign, f
<1> HIDE DEF host
<1>3. Sound(n)
  BY <1>1, ReplacedSound
<1> QED BY <1>2, <1>3

LEMMA InsertRowSound ==
  ASSUME NEW m, Sound(m), NEW r
  PROVE  Sound(InsertRow(m, r))
<1> DEFINE f  == CopyDataToHost(m)
           at == RowBegin(f, r)
           to == [e \in Nat |-> IF e > at THEN e + m.cols ELSE e]
           moved == Renumbered(f, to)
           d == DropBuffers(moved)
<1>1. Sound(f) /\ f.hostUp
  BY Fetched
<1> HIDE DEF f, to
<1>2. Sound(moved) /\ moved.hostUp
  BY <1>1, RenumberedSound
<1> HIDE DEF moved
<1>3. Sound(d)
  BY <1>2, DroppedSound
<1> HIDE DEF d
<1> DEFINE host == SubSeq(d.host, 1, at) \o [c \in 1 .. m.cols |-> at + c]
                     \o SubSeq(d.host, at + 1, Len(d.host))
           rows == d.rows + 1
           n    == [d EXCEPT !.host = host, !.rows = rows]
<1>4. InsertRow(m, r) = n
  BY DEF InsertRow, f, to, moved, d
<1> HIDE DEF host, rows
<1>5. /\ DOMAIN n = Fields /\ n.dist = d.dist /\ n.buf = d.buf
      /\ n.hostUp = d.hostUp /\ n.devUp = d.devUp
  BY <1>3 DEF Sound, Fields
<1> HIDE DEF n
<1> QED BY <1>3, <1>4, <1>5, ContentsSound

LEMMA EraseRowSound ==
  ASSUME NEW m, Sound(m), NEW r
  PROVE  Sound(EraseRow(m, r))
<1> DEFINE s == [m EXCEPT !.rows = m.rows - 1]
           f == CopyDataToHost(s)
<1>1. /\ DOMAIN s = Fields /\ s.dist = m.dist /\ s.buf = m.buf
      /\ s.hostUp = m.hostUp /\ s.devUp = m.devUp
  BY DEF Sound, Fields
<1> HIDE DEF s
<1>2. Sound(s)
  BY <1>1, ContentsSound
<1>3. Sound(f)
  BY <1>2, Fetched
<1> HIDE DEF f
<1> DEFINE host == SubSeq(f.host, 1, RowBegin(f, r))
                     \o SubSeq(f.host, RowBegin(f, r + 1) + 1, Len(f.host))
           e  == [f EXCEPT !.host = host]
           to == [i \in Nat |-> CASE i <= (r - 1) * m.cols -> i
                                  [] i > r * m.cols -> i - m.cols
                                  [] OTHER -> Other]
<1>4. EraseRow(m, r) = Renumbered(e, to)
  BY DEF EraseRow, f, s
<1> HIDE DEF host, to
<1>5. /\ DOMAIN e = Fields /\ e.dist = f.dist /\ e.buf = f.buf
      /\ e.hostUp = f.hostUp /\ e.devUp = f.devUp
  BY <1>3 DEF Sound, Fields
<1> HIDE DEF e
<1>6. Sound(e)
  BY <1>3, <1>5, ContentsSound
<1> QED BY <1>4, <1>6, RenumberedSound

LEMMA ClearSound ==
  ASSUME NEW m, Sound(m), m.hostUp
  PROVE  Sound(Clear(m))
<1> DEFINE n == Clear(m)
<1>1. DOMAIN n = Fields /\ n.buf = << >> /\ n.dist = m.dist /\ n.hostUp
  BY DEF Clear, NoBuffers, Sound, Fields
<1>2. DOMAIN n.buf = {}
  BY <1>1
<1> HIDE DEF n
<1>3. Sound(n)
  BY <1>1, <1>2 DEF Sound, Kept
<1> QED BY <1>3 DEF n

LEMMA WriteSound ==
  ASSUME NEW m, Sound(m), NEW e
  PROVE  Sound(WriteElement(m, e)) /\ Sound(DataOnHostModified(WriteElement(m, e)))
<1> DEFINE f  == CopyDataToHost(m)
           to == [i \in Nat |-> IF i = e THEN Other ELSE i]
           o  == Renumbered(f, to)
<1>1. Sound(f) /\ f.hostUp
  BY Fetched
<1> HIDE DEF f, to
<1>2. Sound(o) /\ o.hostUp
  BY <1>1, RenumberedSound
<1> HIDE DEF o
<1> DEFINE host == [o.host EXCEPT ![e] = e]
           n == [o EXCEPT !.host = host]
<1>3. WriteElement(m, e) = n
  BY DEF WriteElement, f, to, o
<1> HIDE DEF host
<1>4. /\ DOMAIN n = Fields /\ n.dist = o.dist /\ n.buf = o.buf
      /\ n.hostUp = o.hostUp /\ n.devUp = o.devUp
  BY <1>2 DEF Sound, Fields
<1> HIDE DEF n
<1>5. Sound(n)
  BY <1>2, <1>4, ContentsSound
<1> DEFINE k == DataOnHostModified(n)
<1>6. DOMAIN k = Fields /\ k.dist = n.dist /\ k.buf = n.buf /\ k.hostUp
  BY <1>5 DEF DataOnHostModified, Sound, Fields
<1> HIDE DEF k
<1>7. Sound(k)
  BY <1>5, <1>6 DEF Sound, Kept, Buffered
<1> QED BY <1>3, <1>5, <1>7 DEF k

-----------------------------------------------------------------------------
(***************************************************************************)
(* Preparing an operand.                                                   *)
(***************************************************************************)
LEMMA CreatedSound ==
  ASSUME NEW m, Sound(m), IsValid(m.dist)
  PROVE  Prepared(CreateDeviceBuffers(m))
<1>1. CASE HasBuffers(m)
  <2>1. CreateDeviceBuffers(m) = m
    BY <1>1 DEF CreateDeviceBuffers
  <2> QED BY <1>1, <2>1 DEF HasBuffers, Prepared, Sound
<1>2. CASE ~ HasBuffers(m)
  <2> DEFINE buf == [d \in m.dist.devices |-> Filled(SizeOn(m, d), Other)]
             n   == [m EXCEPT !.buf = buf]
  <2>1. CreateDeviceBuffers(m) = n
    BY <1>2 DEF CreateDeviceBuffers
  <2>2. DOMAIN buf = m.dist.devices
    OBVIOUS
  <2> HIDE DEF buf
  <2>3. /\ DOMAIN n = Fields /\ n.dist = m.dist /\ n.buf = buf
        /\ n.hostUp = m.hostUp /\ n.devUp = m.devUp
    BY DEF Sound, Fields
  <2> HIDE DEF n
  <2> QED BY <2>1, <2>2, <2>3 DEF Prepared, Sound, Kept, Buffered
<1> QED BY <1>1, <1>2

\* An upload marks the data as current on the devices; there must be buffers for it
\* then, unless the host copy is current too.
LEMMA UploadedSound ==
  ASSUME NEW m, Sound(m), m.hostUp \/ IsValid(m.dist)
  PROVE  /\ m.hostUp => Sound(StartUpload(m))
         /\ Prepared(m) => Prepared(StartUpload(m))
<1>1. CASE m.devUp
  BY <1>1 DEF StartUpload
<1>2. CASE ~ m.devUp
  <2> DEFINE buf == [d \in DOMAIN m.buf |->
                       Overwritten(Padded(m, d), UploadPiece(m, d).onDevice, m.host,
                                   UploadPiece(m, d).onHost, UploadPiece(m, d).size)]
             n   == [m EXCEPT !.devUp = TRUE, !.buf = buf]
  <2>1. StartUpload(m) = n
    BY <1>2 DEF StartUpload
  <2>2. DOMAIN buf = DOMAIN m.buf
    OBVIOUS
  <2> HIDE DEF buf
  <2>3. /\ DOMAIN n = Fields /\ n.dist = m.dist /\ n.buf = buf
        /\ n.hostUp = m.hostUp /\ n.devUp
    BY DEF Sound, Fields
  <2> HIDE DEF n
  <2> QED BY <2>1, <2>2, <2>3 DEF Prepared, Sound, Kept, Buffered
<1> QED BY <1>1, <1>2

LEMMA OnDevicesSound ==
  ASSUME NEW m, Sound(m), IsValid(m.dist)
  PROVE  Prepared(OnDevices(m)) /\ OnDevices(m).dist = m.dist
<1> DEFINE c == CreateDeviceBuffers(m)
<1>1. Prepared(c)
  BY CreatedSound
<1>2. c.dist = m.dist
  BY DEF CreateDeviceBuffers, Sound, Fields
<1> HIDE DEF c
<1>3. Sound(c) /\ IsValid(c.dist)
  BY <1>1 DEF Prepared
<1>4. Prepared(StartUpload(c))
  BY <1>1, <1>3, UploadedSound
<1>5. StartUpload(c).dist = c.dist
  BY <1>3 DEF StartUpload, Sound, Fields
<1>6. OnDevices(m) = StartUpload(c)
  BY DEF OnDevices, c
<1> QED BY <1>2, <1>4, <1>5, <1>6

\* An output gets the distribution of the input, and a buffer for each device.
LEMMA WithDistributionSound ==
  ASSUME NEW m, Sound(m), NEW in, Sound(in), IsValid(in.dist)
  PROVE  Prepared(WithDistributionOf(m, in))
<1> DEFINE s == SetDistribution(m, in.dist)
<1>1. in.dist \in Known
  BY DEF Sound
<1>2. Sound(s) /\ s.dist = in.dist
  BY <1>1, SetDistributionSound
<1> HIDE DEF s
<1>3. Prepared(CreateDeviceBuffers(s))
  BY <1>2, CreatedSound
<1> QED BY <1>3 DEF WithDistributionOf, s

LEMMA OutputSound ==
  ASSUME NEW m, Sound(m), NEW in, Sound(in), IsValid(in.dist), NEW right
  PROVE  /\ Prepared(MapOutput(m, in))
         /\ Prepared(OverlapOutput(m, in))
         /\ Prepared(ProductOutput(m, in, right))
<1>1. \A rows, cols : Prepared(WithDistributionOf(Resize(m, rows, cols), in))
  <2> TAKE rows, cols
  <2> DEFINE n == Resize(m, rows, cols)
  <2>1. Sound(n)
    BY ResizeSound
  <2> HIDE DEF n
  <2>2. Prepared(WithDistributionOf(n, in))
    BY <2>1, WithDistributionSound
  <2> QED BY <2>2 DEF n
<1>2. Prepared(WithDistributionOf(m, in))
  BY WithDistributionSound
<1>3. Prepared(MapOutput(m, in))
  BY <1>1, <1>2 DEF MapOutput
<1>4. Prepared(OverlapOutput(m, in))
  BY <1>1, <1>2 DEF OverlapOutput
<1>5. Prepared(ProductOutput(m, in, right))
  BY <1>1, <1>2 DEF ProductOutput
<1> QED BY <1>3, <1>4, <1>5

\* The kernels change what the buffers hold, and mark it as the current copy.
LEMMA ComputedSound ==
  ASSUME NEW m, Prepared(m), NEW from, NEW part
  PROVE  Sound(Computed(m, from, part))
<1> DEFINE host == Filled(Len(m.host), Other)
           buf == [d \in DOMAIN m.buf |->
                     [i \in DOMAIN m.buf[d] |->
                        IF d \in DOMAIN part THEN CellOf(part[d], i - from) ELSE Other]]
           o == [m EXCEPT !.host = host, !.buf = buf]
           n == DataOnDeviceModified(o)
<1>1. Computed(m, from, part) = n
  BY DEF Computed
<1>2. DOMAIN buf = DOMAIN m.buf
  OBVIOUS
<1> HIDE DEF host, buf
<1>3. DOMAIN o = Fields /\ o.dist = m.dist /\ o.buf = buf
  BY DEF Prepared, Sound, Fields
<1> HIDE DEF o
<1>4. DOMAIN n = Fields /\ n.dist = o.dist /\ n.buf = o.buf /\ n.devUp
  BY <1>3 DEF DataOnDeviceModified, Fields
<1> HIDE DEF n
<1> QED BY <1>1, <1>2, <1>3, <1>4 DEF Prepared, Sound, Kept, Buffered

-----------------------------------------------------------------------------
(***************************************************************************)
(* Calls with several operands: states of all matrices.                    *)
(***************************************************************************)
LEMMA Updated ==
  ASSUME NEW S, SoundAll(S), NEW m \in Matrix, NEW x, Sound(x)
  PROVE  /\ SoundAll([S EXCEPT ![m] = x])
         /\ [S EXCEPT ![m] = x][m] = x
         /\ \A k \in Matrix \ {m} : [S EXCEPT ![m] = x][k] = S[k]
<1> DEFINE T == [S EXCEPT ![m] = x]
<1>1. DOMAIN S = Matrix
  BY DEF SoundAll
<1>2. T[m] = x /\ \A k \in Matrix \ {m} : T[k] = S[k]
  BY <1>1
<1>3. T = [k \in Matrix |-> T[k]]
  BY <1>1
<1> HIDE DEF T
<1>4. SoundAll(T)
  BY <1>2, <1>3 DEF SoundAll
<1> QED BY <1>2, <1>4 DEF T

\* A matrix that is in use is sound.
LEMMA UsableSound ==
  ASSUME NEW S, SoundAll(S), NEW m \in Matrix, Usable(S[m])
  PROVE  Sound(S[m])
<1>1. ~ Usable(MovedFrom)
  BY DEF Usable, MovedFrom, Default
<1> QED BY <1>1 DEF SoundAll

LEMMA KnownDistributions ==
  /\ Block \in Known /\ Copy \in Known /\ Single(0) \in Known
  /\ IsValid(Block) /\ IsValid(Copy) /\ IsValid(Single(0))
<1>1. 0 \in Device
  BY NumDevicesAssumption DEF Device
<1> QED BY <1>1 DEF Known, DistributionType, ValidDistribution, IsValid, Block, Copy, Single

LEMMA RedistributedSound ==
  ASSUME NEW S, SoundAll(S), NEW m \in Matrix, Sound(S[m]),
         NEW dist \in Known, IsValid(dist)
  PROVE  /\ SoundAll(Redistributed(S, m, dist))
         /\ Sound(Redistributed(S, m, dist)[m])
         /\ Redistributed(S, m, dist)[m].dist = dist
         /\ \A k \in Matrix \ {m} : Redistributed(S, m, dist)[k] = S[k]
<1> DEFINE x == SetDistribution(S[m], dist)
<1>1. Sound(x) /\ x.dist = dist
  BY SetDistributionSound
<1>2. Redistributed(S, m, dist) = [S EXCEPT ![m] = x]
  BY DEF Redistributed
<1> HIDE DEF x
<1> DEFINE T == [S EXCEPT ![m] = x]
<1>3. SoundAll(T) /\ T[m] = x /\ \A k \in Matrix \ {m} : T[k] = S[k]
  BY <1>1, Updated
<1> HIDE DEF T
<1> QED BY <1>1, <1>2, <1>3 DEF T

\* One operand is brought to the devices.
LEMMA UploadedAll ==
  ASSUME NEW S, SoundAll(S), NEW m \in Matrix, Sound(S[m]), IsValid(S[m].dist)
  PROVE  /\ SoundAll([S EXCEPT ![m] = OnDevices(S[m])])
         /\ Prepared([S EXCEPT ![m] = OnDevices(S[m])][m])
         /\ [S EXCEPT ![m] = OnDevices(S[m])][m].dist = S[m].dist
         /\ \A k \in Matrix \ {m} : [S EXCEPT ![m] = OnDevices(S[m])][k] = S[k]
<1> DEFINE x == OnDevices(S[m])
<1>1. Prepared(x) /\ x.dist = S[m].dist
  BY OnDevicesSound
<1>2. Sound(x)
  BY <1>1 DEF Prepared
<1> HIDE DEF x
<1> DEFINE T == [S EXCEPT ![m] = x]
<1>3. SoundAll(T) /\ T[m] = x /\ \A k \in Matrix \ {m} : T[k] = S[k]
  BY <1>2, Updated
<1> HIDE DEF T
<1> QED BY <1>1, <1>3 DEF T, x

\* The operands of Zip and AllPairs after their distributions are chosen ...
Chosen(S, T, l, r) ==
  /\ SoundAll(T) /\ Sound(T[l]) /\ Sound(T[r])
  /\ IsValid(T[l].dist) /\ IsValid(T[r].dist)
  /\ \A k \in Matrix \ {l, r} : T[k] = S[k]

\* ... and after they are on the devices.
Brought(S, T, l, r) ==
  /\ SoundAll(T) /\ Prepared(T[l]) /\ Prepared(T[r])
  /\ \A k \in Matrix \ {l, r} : T[k] = S[k]

LEMMA BothSound ==
  ASSUME NEW R, NEW S, NEW l \in Matrix, NEW r \in Matrix, Chosen(R, S, l, r)
  PROVE  Brought(R, BothOnDevices(S, l, r), l, r)
<1> DEFINE T == [S EXCEPT ![l] = OnDevices(S[l])]
           U == [T EXCEPT ![r] = OnDevices(T[r])]
<1>1. BothOnDevices(S, l, r) = U
  BY DEF BothOnDevices
<1>2. /\ SoundAll(T) /\ Prepared(T[l]) /\ T[l].dist = S[l].dist
      /\ \A k \in Matrix \ {l} : T[k] = S[k]
  BY UploadedAll DEF Chosen
<1> HIDE DEF T
<1>3. Sound(T[r]) /\ IsValid(T[r].dist)
  BY <1>2 DEF Chosen, Prepared
<1>4. /\ SoundAll(U) /\ Prepared(U[r]) /\ \A k \in Matrix \ {r} : U[k] = T[k]
  BY <1>2, <1>3, UploadedAll
<1> HIDE DEF U
<1>5. Prepared(U[l])
  BY <1>2, <1>4
<1>6. \A k \in Matrix \ {l, r} : U[k] = S[k] /\ S[k] = R[k]
  BY <1>2, <1>4 DEF Chosen
<1> QED BY <1>1, <1>4, <1>5, <1>6 DEF Brought

LEMMA ZipInputSound ==
  ASSUME NEW S, SoundAll(S), NEW l \in Matrix, NEW r \in Matrix, Sound(S[l]), Sound(S[r])
  PROVE  Chosen(S, ZipInput(S, l, r), l, r)
<1> DEFINE left  == S[l].dist
           right == S[r].dist
<1>1. left \in Known /\ right \in Known
  BY DEF Sound
<1>2. CASE IsValid(left) /\ ~ IsValid(right)
  <2> DEFINE T == Redistributed(S, r, left)
  <2>1. ZipInput(S, l, r) = T
    BY <1>2 DEF ZipInput, IsValid
  <2>2. /\ SoundAll(T) /\ Sound(T[r]) /\ T[r].dist = left
        /\ \A k \in Matrix \ {r} : T[k] = S[k]
    BY <1>1, <1>2, RedistributedSound
  <2> HIDE DEF T
  <2>3. Sound(T[l]) /\ IsValid(T[l].dist) /\ IsValid(T[r].dist)
    BY <1>2, <2>2
  <2> QED BY <2>1, <2>2, <2>3 DEF Chosen
<1>3. CASE IsValid(right) /\ ~ IsValid(left)
  <2> DEFINE T == Redistributed(S, l, right)
  <2>1. ZipInput(S, l, r) = T
    BY <1>3 DEF ZipInput
  <2>2. /\ SoundAll(T) /\ Sound(T[l]) /\ T[l].dist = right
        /\ \A k \in Matrix \ {l} : T[k] = S[k]
    BY <1>1, <1>3, RedistributedSound
  <2> HIDE DEF T
  <2>3. Sound(T[r]) /\ IsValid(T[r].dist) /\ IsValid(T[l].dist)
    BY <1>3, <2>2
  <2> QED BY <2>1, <2>2, <2>3 DEF Chosen
<1>4. CASE IsValid(left) /\ IsValid(right) /\ left.kind = right.kind
  <2>1. ZipInput(S, l, r) = S
    BY <1>4 DEF ZipInput
  <2> QED BY <1>4, <2>1 DEF Chosen
<1>5. CASE /\ ~ (IsValid(left) /\ ~ IsValid(right))
           /\ ~ (IsValid(right) /\ ~ IsValid(left))
           /\ ~ (IsValid(left) /\ left.kind = right.kind)
  <2> DEFINE T == Redistributed(S, l, Block)
             U == Redistributed(T, r, Block)
  <2>1. ZipInput(S, l, r) = U
    BY <1>5 DEF ZipInput
  <2>2. /\ SoundAll(T) /\ Sound(T[l]) /\ T[l].dist = Block
        /\ \A k \in Matrix \ {l} : T[k] = S[k]
    BY KnownDistributions, RedistributedSound
  <2> HIDE DEF T
  <2>3. Sound(T[r])
    BY <2>2
  <2>4. /\ SoundAll(U) /\ Sound(U[r]) /\ U[r].dist = Block
        /\ \A k \in Matrix \ {r} : U[k] = T[k]
    BY <2>2, <2>3, KnownDistributions, RedistributedSound
  <2> HIDE DEF U
  <2>5. Sound(U[l]) /\ IsValid(U[l].dist) /\ IsValid(U[r].dist)
    BY <2>2, <2>4, KnownDistributions
  <2> QED BY <2>1, <2>2, <2>4, <2>5 DEF Chosen
<1>6. IsValid(left) /\ left.kind = right.kind => IsValid(right)
  BY DEF IsValid
<1> QED BY <1>2, <1>3, <1>4, <1>5, <1>6

\* The left operand of AllPairs: without a distribution it stays only if the right
\* one is overlap-distributed.
LeftChosen(S, T, l) ==
  /\ SoundAll(T) /\ Sound(T[l])
  /\ \A k \in Matrix \ {l} : T[k] = S[k]

LEMMA ChooseLeft ==
  ASSUME NEW S, SoundAll(S), NEW l \in Matrix, Sound(S[l]),
         NEW dist \in Known, IsValid(dist)
  PROVE  /\ LeftChosen(S, Redistributed(S, l, dist), l)
         /\ IsValid(Redistributed(S, l, dist)[l].dist)
<1> DEFINE T == Redistributed(S, l, dist)
<1>1. /\ SoundAll(T) /\ Sound(T[l]) /\ T[l].dist = dist
      /\ \A k \in Matrix \ {l} : T[k] = S[k]
  BY RedistributedSound
<1> HIDE DEF T
<1>2. LeftChosen(S, T, l) /\ IsValid(T[l].dist)
  BY <1>1 DEF LeftChosen
<1> QED BY <1>2 DEF T

LEMMA ChooseRight ==
  ASSUME NEW S, NEW T, NEW l \in Matrix, NEW r \in Matrix, Sound(S[r]),
         LeftChosen(S, T, l), IsValid(T[l].dist), NEW dist \in Known, IsValid(dist)
  PROVE  Chosen(S, Redistributed(T, r, dist), l, r)
<1> DEFINE U == Redistributed(T, r, dist)
<1>1. SoundAll(T) /\ Sound(T[r])
  BY DEF LeftChosen
<1>2. /\ SoundAll(U) /\ Sound(U[r]) /\ U[r].dist = dist
      /\ \A k \in Matrix \ {r} : U[k] = T[k]
  BY <1>1, RedistributedSound
<1> HIDE DEF U
<1>3. Sound(U[l]) /\ IsValid(U[l].dist) /\ IsValid(U[r].dist)
  BY <1>2 DEF LeftChosen
<1>4. Chosen(S, U, l, r)
  BY <1>2, <1>3 DEF Chosen, LeftChosen
<1> QED BY <1>4 DEF U

LEMMA ProductInputSound ==
  ASSUME NEW S, SoundAll(S), NEW l \in Matrix, NEW r \in Matrix, Sound(S[l]), Sound(S[r]),
         ~ ({"invalid", "overlap"} \subseteq {S[l].dist.kind, S[r].dist.kind})
  PROVE  Chosen(S, ProductInput(S, l, r), l, r)
<1> DEFINE kl == S[l].dist.kind
           kr == S[r].dist.kind
           kinds == <<kl, kr>>
           block  == kinds \in {"invalid"} \X {"invalid", "copy", "block"}
           single == kinds \in {"invalid", "copy"} \X {"single"}
           T == CASE block  -> Redistributed(S, l, Block)
                  [] single -> Redistributed(S, l, Single(0))
                  [] OTHER  -> S
           U == CASE kinds \in {"invalid", "copy", "block"} \X {"invalid", "block"}
                       \/ kinds = <<"block", "single">> -> Redistributed(T, r, Copy)
                  [] kinds \in {"single"} \X {"invalid", "block"} ->
                       Redistributed(T, r, Single(0))
                  [] OTHER -> T
<1>0. ProductInput(S, l, r) = U
  BY DEF ProductInput
<1>1. \A d \in Known : d.kind \in {"invalid", "single", "block", "copy", "overlap"}
  BY DEF Known, DistributionType, ValidDistribution, Invalid, Single, Block, Copy, Overlap
<1>2. /\ kl \in {"invalid", "single", "block", "copy", "overlap"}
      /\ kr \in {"invalid", "single", "block", "copy", "overlap"}
  BY <1>1 DEF Sound
<1>3. ~ (kl = "invalid" /\ kr = "overlap") /\ ~ (kl = "overlap" /\ kr = "invalid")
  OBVIOUS
<1>4. IsValid(S[l].dist) <=> kl # "invalid"
  BY DEF IsValid
<1>5. IsValid(S[r].dist) <=> kr # "invalid"
  BY DEF IsValid
<1> HIDE DEF kl, kr
<1>a. /\ block <=> kl = "invalid" /\ kr \in {"invalid", "copy", "block"}
      /\ single <=> kl \in {"invalid", "copy"} /\ kr = "single"
      /\ kinds \in {"invalid", "copy", "block"} \X {"invalid", "block"}
        <=> kl \in {"invalid", "copy", "block"} /\ kr \in {"invalid", "block"}
      /\ kinds = <<"block", "single">> <=> kl = "block" /\ kr = "single"
      /\ kinds \in {"single"} \X {"invalid", "block"}
        <=> kl = "single" /\ kr \in {"invalid", "block"}
  OBVIOUS
<1> HIDE DEF kinds, block, single
<1>6. \/ T = Redistributed(S, l, Block)
      \/ T = Redistributed(S, l, Single(0))
      \/ T = S /\ kl # "invalid"
  <2>1. CASE kl = "invalid" /\ kr \in {"invalid", "copy", "block"}
    <3>1. block /\ ~ single
      BY <2>1, <1>a
    <3> QED BY <3>1
  <2>2. CASE kl \in {"invalid", "copy"} /\ kr = "single"
    <3>1. ~ block /\ single
      BY <2>2, <1>a
    <3> QED BY <3>1
  <2>3. CASE /\ ~ (kl = "invalid" /\ kr \in {"invalid", "copy", "block"})
             /\ ~ (kl \in {"invalid", "copy"} /\ kr = "single")
    <3>1. T = S
      BY <2>3, <1>a
    <3>2. kl # "invalid"
      BY <2>3, <1>2, <1>3
    <3> QED BY <3>1, <3>2
  <2> QED BY <2>1, <2>2, <2>3
<1>7. S = [m \in Matrix |-> S[m]] => LeftChosen(S, S, l)
  BY DEF LeftChosen
<1>8. LeftChosen(S, T, l) /\ IsValid(T[l].dist)
  BY <1>4, <1>6, <1>7, ChooseLeft, KnownDistributions DEF SoundAll
<1>9. \/ U = Redistributed(T, r, Copy) \/ U = Redistributed(T, r, Single(0))
      \/ U = T /\ kr # "invalid"
  BY <1>2, <1>3, <1>a
<1> HIDE DEF T, U
<1>10. CASE U = Redistributed(T, r, Copy) \/ U = Redistributed(T, r, Single(0))
  <2>1. Chosen(S, Redistributed(T, r, Copy), l, r)
    BY <1>8, ChooseRight, KnownDistributions
  <2>2. Chosen(S, Redistributed(T, r, Single(0)), l, r)
    BY <1>8, ChooseRight, KnownDistributions
  <2> QED BY <1>0, <1>10, <2>1, <2>2
<1>11. CASE U = T /\ kr # "invalid"
  <2>1. Sound(T[r]) /\ IsValid(T[r].dist)
    BY <1>5, <1>8, <1>11 DEF LeftChosen
  <2> QED BY <1>0, <1>8, <1>11, <2>1 DEF Chosen, LeftChosen
<1> QED BY <1>9, <1>10, <1>11

-----------------------------------------------------------------------------
(***************************************************************************)
(* The calls.                                                              *)
(***************************************************************************)
LEMMA InitSound ==
  ASSUME Init
  PROVE  SoundAll(mat)
<1>1. Invalid \in Known /\ Invalid.devices = {}
  BY DEF Known, DistributionType, Invalid
<1>2. DOMAIN Default = Fields /\ Default.hostUp /\ Default.dist = Invalid
      /\ Default.buf = << >>
  BY DEF Default, Fields, NoBuffers
<1>3. DOMAIN Default.buf = {}
  BY <1>2
<1> HIDE DEF Default
<1>4. Sound(Default)
  BY <1>1, <1>2, <1>3 DEF Sound, Kept
<1> QED BY <1>4 DEF Init, SoundAll

\* A call on one matrix that leaves a sound one.
LEMMA ChangeSound ==
  ASSUME SoundAll(mat), NEW call, NEW m \in Matrix, NEW new,
         Sound(mat[m]) => Sound(new), Change(call, m, new)
  PROVE  SoundAll(mat')
<1>1. Sound(mat[m])
  BY UsableSound DEF Change
<1>2. SoundAll([mat EXCEPT ![m] = new])
  BY <1>1, Updated
<1>3. mat' = [mat EXCEPT ![m] = new]
  BY DEF Change
<1> QED BY <1>2, <1>3

LEMMA ConstructSound ==
  ASSUME SoundAll(mat), NEW m \in Matrix, NEW shape \in Shapes, NEW dist \in Dists,
         Construct(m, shape, dist)
  PROVE  SoundAll(mat')
<1> DEFINE n == Constructed(shape[1], shape[2], dist)
<1>1. dist \in Known
  BY DistsAssumption DEF Known
<1>2. DOMAIN n = Fields /\ n.dist = dist /\ n.hostUp /\ n.buf = << >>
  BY DEF Constructed, Default, NoBuffers, Fields
<1>3. DOMAIN n.buf = {}
  BY <1>2
<1>4. mat' = [mat EXCEPT ![m] = n]
  BY DEF Construct
<1> HIDE DEF n
<1>5. Sound(n)
  BY <1>1, <1>2, <1>3 DEF Sound, Kept
<1>6. SoundAll([mat EXCEPT ![m] = n])
  BY <1>5, Updated
<1> QED BY <1>4, <1>6

LEMMA MoveSound ==
  ASSUME SoundAll(mat), NEW m \in Matrix, NEW w \in Matrix, MoveMatrix(m, w)
  PROVE  SoundAll(mat')
<1>1. Sound(mat[m])
  BY UsableSound DEF MoveMatrix
<1>2. mat' = [mat EXCEPT ![w] = mat[m], ![m] = MovedFrom]
  BY DEF MoveMatrix
<1>3. DOMAIN mat = Matrix
  BY DEF SoundAll
<1>4. mat' = [k \in Matrix |-> IF k = m THEN MovedFrom
                               ELSE IF k = w THEN mat[m] ELSE mat[k]]
  BY <1>2, <1>3
<1>5. mat' = [k \in Matrix |-> mat'[k]]
  BY <1>4
<1>6. \A k \in Matrix : Sound(mat'[k]) \/ mat'[k] = MovedFrom
  BY <1>1, <1>4 DEF SoundAll
<1> DEFINE S == mat'
<1> HIDE DEF S
<1>7. SoundAll(S)
  BY <1>5, <1>6 DEF SoundAll, S
<1> QED BY <1>7 DEF S

LEMMA MembersSound ==
  ASSUME SoundAll(mat), NEW m \in Matrix
  PROVE  /\ \A shape \in Shapes : ResizeMatrix(m, shape) => SoundAll(mat')
         /\ \A shape \in Shapes : AssignAll(m, shape) => SoundAll(mat')
         /\ \A r : InsertRowAt(m, r) => SoundAll(mat')
         /\ \A r : Erase(m, r) => SoundAll(mat')
         /\ Pop(m) => SoundAll(mat')
         /\ Access(m) => SoundAll(mat')
         /\ \A e : Write(m, e) => SoundAll(mat')
<1>1. ASSUME NEW shape \in Shapes, ResizeMatrix(m, shape) PROVE SoundAll(mat')
  <2> DEFINE n == Resize(mat[m], shape[1], shape[2])
  <2>1. Change("resize", m, n)
    BY <1>1 DEF ResizeMatrix
  <2>2. Sound(mat[m]) => Sound(n)
    BY ResizeSound
  <2> HIDE DEF n
  <2> QED BY <2>1, <2>2, ChangeSound
<1>2. ASSUME NEW shape \in Shapes, AssignAll(m, shape) PROVE SoundAll(mat')
  <2> DEFINE n == Assign(mat[m], shape[1], shape[2])
  <2>1. Change("assign", m, n)
    BY <1>2 DEF AssignAll
  <2>2. Sound(mat[m]) => Sound(n)
    BY AssignSound
  <2> HIDE DEF n
  <2> QED BY <2>1, <2>2, ChangeSound
<1>3. ASSUME NEW r, InsertRowAt(m, r) PROVE SoundAll(mat')
  <2> DEFINE n == InsertRow(mat[m], r)
  <2>1. Change("insert", m, n)
    BY <1>3 DEF InsertRowAt
  <2>2. Sound(mat[m]) => Sound(n)
    BY InsertRowSound
  <2> HIDE DEF n
  <2> QED BY <2>1, <2>2, ChangeSound
<1>4. ASSUME NEW r, Erase(m, r) PROVE SoundAll(mat')
  <2> DEFINE n == EraseRow(mat[m], r)
  <2>1. Change("erase", m, n)
    BY <1>4 DEF Erase
  <2>2. Sound(mat[m]) => Sound(n)
    BY EraseRowSound
  <2> HIDE DEF n
  <2> QED BY <2>1, <2>2, ChangeSound
<1>5. ASSUME Pop(m) PROVE SoundAll(mat')
  <2> DEFINE f == CopyDataToHost(mat[m])
             n == Resize(f, mat[m].rows - 1, mat[m].cols)
  <2>1. Change("pop", m, n)
    BY <1>5 DEF Pop, PopBackRow
  <2>2. Sound(mat[m]) => Sound(f)
    BY Fetched
  <2> HIDE DEF f
  <2>3. Sound(mat[m]) => Sound(n)
    BY <2>2, ResizeSound
  <2> HIDE DEF n
  <2> QED BY <2>1, <2>3, ChangeSound
<1>6. ASSUME Access(m) PROVE SoundAll(mat')
  <2> DEFINE n == CopyDataToHost(mat[m])
  <2>1. Change("access", m, n)
    BY <1>6 DEF Access
  <2>2. Sound(mat[m]) => Sound(n)
    BY Fetched
  <2> HIDE DEF n
  <2> QED BY <2>1, <2>2, ChangeSound
<1>7. ASSUME NEW e, Write(m, e) PROVE SoundAll(mat')
  <2> DEFINE n == WriteElement(mat[m], e)
             k == DataOnHostModified(n)
  <2>1. Change("write", m, k) \/ Change("write", m, n)
    BY <1>7 DEF Write
  <2>2. Sound(mat[m]) => Sound(n) /\ Sound(k)
    BY WriteSound
  <2> HIDE DEF n, k
  <2> QED BY <2>1, <2>2, ChangeSound
<1> QED BY <1>1, <1>2, <1>3, <1>4, <1>5, <1>6, <1>7

LEMMA ClearMatrixSound ==
  ASSUME SoundAll(mat), NEW m \in Matrix, "current" \notin Broken, ClearMatrix(m)
  PROVE  SoundAll(mat')
<1> DEFINE n == Clear(mat[m])
<1>1. Change("clear", m, n) /\ mat[m].hostUp
  BY DEF ClearMatrix, Keeps
<1>2. Sound(mat[m]) => Sound(n)
  BY <1>1, ClearSound
<1> HIDE DEF n
<1> QED BY <1>1, <1>2, ChangeSound

LEMMA ChangeDistributionSound ==
  ASSUME SoundAll(mat), NEW m \in Matrix, NEW dist \in Dists \ {Invalid},
         ChangeDistribution(m, dist)
  PROVE  SoundAll(mat')
<1> DEFINE n == SetDistribution(mat[m], dist)
<1>1. dist \in Known /\ IsValid(dist)
  BY DistsAssumption DEF Known, DistributionType, ValidDistribution, IsValid, Single,
                         Block, Copy
<1>2. Sound(mat[m]) => Sound(n)
  BY <1>1, SetDistributionSound
<1>3. Change("setDistribution", m, n)
  BY DEF ChangeDistribution
<1> HIDE DEF n
<1> QED BY <1>2, <1>3, ChangeSound

LEMMA CopyDataToDevicesSound ==
  ASSUME SoundAll(mat), NEW m \in Matrix, CopyDataToDevices(m)
  PROVE  SoundAll(mat')
<1> DEFINE n == StartUpload(mat[m])
<1>1. Change("copyDataToDevices", m, n) /\ mat[m].hostUp
  BY DEF CopyDataToDevices
<1>2. Sound(mat[m]) => Sound(n)
  BY <1>1, UploadedSound
<1> HIDE DEF n
<1> QED BY <1>1, <1>2, ChangeSound

\* The last step of the skeletons.
LEMMA ResultSound ==
  ASSUME NEW U, SoundAll(U), NEW out \in Matrix, Prepared(U[out]), NEW from, NEW part
  PROVE  SoundAll([U EXCEPT ![out] = Computed(U[out], from, part)])
<1> DEFINE n == Computed(U[out], from, part)
<1>1. Sound(n)
  BY ComputedSound
<1> HIDE DEF n
<1>2. SoundAll([U EXCEPT ![out] = n])
  BY <1>1, Updated
<1> QED BY <1>2 DEF n

\* The output is replaced by one that has been prepared.
LEMMA PreparedOutput ==
  ASSUME NEW T, SoundAll(T), NEW out \in Matrix, NEW n, Prepared(n)
  PROVE  SoundAll([T EXCEPT ![out] = n]) /\ Prepared([T EXCEPT ![out] = n][out])
<1>1. Sound(n)
  BY DEF Prepared
<1> DEFINE U == [T EXCEPT ![out] = n]
<1>2. SoundAll(U) /\ U[out] = n
  BY <1>1, Updated
<1> HIDE DEF U
<1> QED BY <1>2 DEF U

LEMMA MapSound ==
  ASSUME SoundAll(mat), NEW out \in Matrix, NEW in \in Matrix, MapCall(out, in)
  PROVE  SoundAll(mat')
<1> DEFINE S == IF IsValid(mat[in].dist) THEN mat ELSE Redistributed(mat, in, Block)
           T == [S EXCEPT ![in] = OnDevices(S[in])]
           n == MapOutput(T[out], T[in])
           U == IF out = in THEN T ELSE [T EXCEPT ![out] = n]
           part == [d \in U[in].dist.devices |-> MapPart(U[in], d)]
<1>1. Usable(mat[in]) /\ Usable(mat[out])
  BY DEF MapCall
<1>2. mat' = [U EXCEPT ![out] = Computed(U[out], 0, part)]
  BY DEF MapCall
<1> HIDE DEF part
<1>3. Sound(mat[in]) /\ Sound(mat[out])
  BY <1>1, UsableSound
<1>4. /\ SoundAll(S) /\ Sound(S[in]) /\ IsValid(S[in].dist)
      /\ \A k \in Matrix \ {in} : S[k] = mat[k]
  BY <1>3, RedistributedSound, KnownDistributions
<1> HIDE DEF S
<1>5. /\ SoundAll(T) /\ Prepared(T[in])
      /\ \A k \in Matrix \ {in} : T[k] = S[k]
  BY <1>4, UploadedAll
<1> HIDE DEF T
<1>6. SoundAll(U) /\ Prepared(U[out])
  <2>1. CASE out = in
    BY <1>5, <2>1
  <2>2. CASE out # in
    <3>1. Sound(T[out]) /\ Sound(T[in]) /\ IsValid(T[in].dist)
      BY <1>3, <1>4, <1>5, <2>2 DEF Prepared
    <3>2. Prepared(n)
      BY <3>1, OutputSound
    <3> HIDE DEF n
    <3>3. SoundAll([T EXCEPT ![out] = n]) /\ Prepared([T EXCEPT ![out] = n][out])
      BY <1>5, <3>2, PreparedOutput
    <3> QED BY <2>2, <3>3
  <2> QED BY <2>1, <2>2
<1> HIDE DEF U
<1> QED BY <1>2, <1>6, ResultSound

LEMMA ZipSound ==
  ASSUME SoundAll(mat), NEW out \in Matrix, NEW l \in Matrix, NEW r \in Matrix,
         ZipCall(out, l, r)
  PROVE  SoundAll(mat')
<1> DEFINE S == ZipInput(mat, l, r)
           T == BothOnDevices(S, l, r)
           n == MapOutput(T[out], T[l])
           U == IF out \in {l, r} THEN T ELSE [T EXCEPT ![out] = n]
           part == [d \in U[l].dist.devices |-> ZipPart(U[l], U[r], d)]
<1>1. Usable(mat[out]) /\ Usable(mat[l]) /\ Usable(mat[r])
  BY DEF ZipCall
<1>2. mat' = [U EXCEPT ![out] = Computed(U[out], 0, part)]
  BY DEF ZipCall
<1> HIDE DEF part
<1>3. Sound(mat[out]) /\ Sound(mat[l]) /\ Sound(mat[r])
  BY <1>1, UsableSound
<1>4. Chosen(mat, S, l, r)
  BY <1>3, ZipInputSound
<1> HIDE DEF S
<1>5. Brought(mat, T, l, r)
  BY <1>4, BothSound
<1> HIDE DEF T
<1>6. SoundAll(U) /\ Prepared(U[out])
  <2>1. CASE out \in {l, r}
    BY <1>5, <2>1 DEF Brought
  <2>2. CASE out \notin {l, r}
    <3>1. Sound(T[out]) /\ Sound(T[l]) /\ IsValid(T[l].dist) /\ SoundAll(T)
      BY <1>3, <1>5, <2>2 DEF Brought, Prepared
    <3>2. Prepared(n)
      BY <3>1, OutputSound
    <3> HIDE DEF n
    <3>3. SoundAll([T EXCEPT ![out] = n]) /\ Prepared([T EXCEPT ![out] = n][out])
      BY <3>1, <3>2, PreparedOutput
    <3> QED BY <2>2, <3>3
  <2> QED BY <2>1, <2>2
<1> HIDE DEF U
<1> QED BY <1>2, <1>6, ResultSound

LEMMA OverlapSound ==
  ASSUME SoundAll(mat), NEW out \in Matrix, NEW in \in Matrix, NEW o \in Overlaps,
         OverlapCall(out, in, o)
  PROVE  SoundAll(mat')
<1> DEFINE dist == Overlap(o.radius, o.padding)
           S == Redistributed(mat, in, dist)
           T == [S EXCEPT ![in] = OnDevices(S[in])]
           n == OverlapOutput(T[out], T[in])
           U == [T EXCEPT ![out] = n]
           from == o.radius * U[out].cols
           part == [d \in dist.devices |-> OverlapPart(U[in], o, d)]
<1>1. Usable(mat[in]) /\ Usable(mat[out]) /\ out # in
  BY DEF OverlapCall
<1>2. mat' = [U EXCEPT ![out] = Computed(U[out], from, part)]
  BY DEF OverlapCall
<1> HIDE DEF part, from
<1>3. Sound(mat[in]) /\ Sound(mat[out])
  BY <1>1, UsableSound
<1>4. dist \in Known /\ IsValid(dist)
  BY OverlapsAssumption DEF Known, Overlap, IsValid
<1> HIDE DEF dist
<1>5. /\ SoundAll(S) /\ Sound(S[in]) /\ S[in].dist = dist
      /\ \A k \in Matrix \ {in} : S[k] = mat[k]
  BY <1>3, <1>4, RedistributedSound
<1> HIDE DEF S
<1>6. /\ SoundAll(T) /\ Prepared(T[in])
      /\ \A k \in Matrix \ {in} : T[k] = S[k]
  BY <1>4, <1>5, UploadedAll
<1> HIDE DEF T
<1>7. Sound(T[out]) /\ Sound(T[in]) /\ IsValid(T[in].dist)
  BY <1>1, <1>3, <1>5, <1>6 DEF Prepared
<1>8. Prepared(n)
  BY <1>7, OutputSound
<1> HIDE DEF n
<1>9. SoundAll(U) /\ Prepared(U[out])
  BY <1>6, <1>8, PreparedOutput
<1> HIDE DEF U
<1> QED BY <1>2, <1>9, ResultSound

LEMMA AllPairsSound ==
  ASSUME SoundAll(mat), NEW out \in Matrix, NEW l \in Matrix, NEW r \in Matrix,
         AllPairsCall(out, l, r)
  PROVE  SoundAll(mat')
<1> DEFINE S == ProductInput(mat, l, r)
           T == BothOnDevices(S, l, r)
           n == ProductOutput(T[out], T[l], T[r])
           U == [T EXCEPT ![out] = n]
           part == [d \in U[l].dist.devices |-> ProductPart(U[out], U[l], U[r], d)]
<1>1. /\ Usable(mat[out]) /\ Usable(mat[l]) /\ Usable(mat[r])
      /\ out \notin {l, r}
      /\ ~ ({"invalid", "overlap"} \subseteq {mat[l].dist.kind, mat[r].dist.kind})
  BY DEF AllPairsCall
<1>2. mat' = [U EXCEPT ![out] = Computed(U[out], 0, part)]
  BY DEF AllPairsCall
<1> HIDE DEF part
<1>3. Sound(mat[out]) /\ Sound(mat[l]) /\ Sound(mat[r])
  BY <1>1, UsableSound
<1>4. Chosen(mat, S, l, r)
  BY <1>1, <1>3, ProductInputSound
<1> HIDE DEF S
<1>5. Brought(mat, T, l, r)
  BY <1>4, BothSound
<1> HIDE DEF T
<1>6. Sound(T[out]) /\ Sound(T[l]) /\ IsValid(T[l].dist) /\ SoundAll(T)
  BY <1>1, <1>3, <1>5 DEF Brought, Prepared
<1>7. Prepared(n)
  BY <1>6, OutputSound
<1> HIDE DEF n
<1>8. SoundAll(U) /\ Prepared(U[out])
  BY <1>6, <1>7, PreparedOutput
<1> HIDE DEF U
<1> QED BY <1>2, <1>8, ResultSound

-----------------------------------------------------------------------------
\* The inductive invariant.
DataInvariant == SoundAll(mat)

LEMMA NextSound ==
  ASSUME SoundAll(mat), "current" \notin Broken, [Next]_mat
  PROVE  SoundAll(mat')
<1>1. CASE UNCHANGED mat
  BY <1>1 DEF SoundAll
<1>2. ASSUME NEW m \in Matrix,
             \/ \E shape \in Shapes, dist \in Dists : Construct(m, shape, dist)
             \/ \E w \in Matrix : MoveMatrix(m, w)
             \/ \E shape \in Shapes : ResizeMatrix(m, shape) \/ AssignAll(m, shape)
             \/ \E r \in 1 .. MaxSize : InsertRowAt(m, r) \/ Erase(m, r)
             \/ Pop(m)
             \/ Access(m)
             \/ \E e \in Written : Write(m, e)
      PROVE  SoundAll(mat')
  BY <1>2, ConstructSound, MoveSound, MembersSound
<1>3. ASSUME NEW m \in Matrix,
             \/ ClearMatrix(m)
             \/ \E dist \in Dists \ {Invalid} : ChangeDistribution(m, dist)
             \/ CopyDataToDevices(m)
      PROVE  SoundAll(mat')
  BY <1>3, ClearMatrixSound, ChangeDistributionSound, CopyDataToDevicesSound
<1>4. ASSUME NEW m \in Matrix,
             \/ \E in \in Matrix : MapCall(m, in)
             \/ \E l, r \in Matrix : ZipCall(m, l, r) \/ AllPairsCall(m, l, r)
             \/ \E in \in Matrix, o \in Overlaps : OverlapCall(m, in, o)
      PROVE  SoundAll(mat')
  BY <1>4, MapSound, ZipSound, AllPairsSound, OverlapSound
<1> QED BY <1>1, <1>2, <1>3, <1>4 DEF Next

(***************************************************************************)
(* No call loses the data of a matrix (MatrixDef.h: the two flags and the  *)
(* members that set them; the transfers of the distributions), if no       *)
(* matrix is cleared while its data is on the devices alone.               *)
(***************************************************************************)
THEOREM MatricesKeepData ==
  ASSUME "current" \notin Broken
  PROVE  Spec => []DataIsSomewhere
<1>1. Init => DataInvariant
  BY InitSound DEF DataInvariant
<1>2. DataInvariant /\ [Next]_mat => DataInvariant'
  BY NextSound DEF DataInvariant
<1>3. DataInvariant => DataIsSomewhere
  BY DEF DataInvariant, SoundAll, Sound, Kept, Buffered, DataIsSomewhere
<1> QED BY <1>1, <1>2, <1>3, PTL DEF Spec

-----------------------------------------------------------------------------
(***************************************************************************)
(* Rows and cells.                                                         *)
(***************************************************************************)
LEMMA Division ==
  ASSUME NEW a \in Nat, NEW b \in Nat \ {0}
  PROVE  /\ a \div b \in Nat /\ a % b \in 0 .. b - 1
         /\ a = (a \div b) * b + (a % b)
OBVIOUS

LEMMA Monotone ==
  ASSUME NEW a \in Int, NEW b \in Int, NEW k \in Nat, a <= b
  PROVE  a * k <= b * k
OBVIOUS

LEMMA Distributes ==
  ASSUME NEW a \in Int, NEW b \in Int, NEW k \in Int
  PROVE  /\ (a + b) * k = a * k + b * k
         /\ (a - b) * k = a * k - b * k
         /\ a * k \in Int
         /\ a \in Nat /\ k \in Nat => a * k \in Nat
OBVIOUS

\* The cell of a row and a column, and which they are.
LEMMA CellAt ==
  ASSUME NEW cols \in Nat \ {0}, NEW w \in Int, NEW c \in 1 .. cols,
         NEW rows \in Int
  PROVE  /\ (w - 1) * cols + c \in Int
         /\ (w - 1) * cols + c >= 1 <=> w >= 1
         /\ (w - 1) * cols + c <= rows * cols <=> w <= rows
<1>1. (w - 1) * cols \in Int OBVIOUS
<1>2. w >= 1 => (w - 1) * cols >= 0 * cols BY Monotone
<1>3. w <= 0 => (w - 1) * cols <= (-1) * cols BY Monotone
<1>4. w <= rows => w * cols <= rows * cols BY Monotone
<1>5. w > rows => rows * cols <= (w - 1) * cols BY Monotone
<1>6. (w - 1) * cols = w * cols - cols OBVIOUS
<1>7. (w - 1) * cols + c >= 1 <=> w >= 1
  BY <1>1, <1>2, <1>3
<1>8. (w - 1) * cols + c <= rows * cols <=> w <= rows
  BY <1>1, <1>4, <1>5, <1>6
<1> QED BY <1>1, <1>7, <1>8

LEMMA RowOf ==
  ASSUME NEW cols \in Nat \ {0}, NEW i \in Nat \ {0}
  PROVE  /\ 1 + ((i - 1) \div cols) \in Nat \ {0}
         /\ 1 + ((i - 1) % cols) \in 1 .. cols
         /\ i = (1 + ((i - 1) \div cols) - 1) * cols + (1 + ((i - 1) % cols))
<1> DEFINE a == i - 1
<1>1. a \in Nat OBVIOUS
<1>2. /\ a \div cols \in Nat /\ a % cols \in 0 .. cols - 1
      /\ a = (a \div cols) * cols + (a % cols)
  BY <1>1, Division
<1> QED BY <1>2

LEMMA SomeCell ==
  ASSUME NEW cols \in Nat \ {0}, NEW i \in Nat \ {0}
  PROVE  \E w \in Nat \ {0} : \E c \in 1 .. cols : i = (w - 1) * cols + c
<1> DEFINE v == 1 + ((i - 1) \div cols)
           b == 1 + ((i - 1) % cols)
<1>1. v \in Nat \ {0} /\ b \in 1 .. cols /\ i = (v - 1) * cols + b BY RowOf
<1> HIDE DEF v, b
<1> QED BY <1>1

\* There is one row and one column for a cell.
LEMMA CellUnique ==
  ASSUME NEW cols \in Nat \ {0}, NEW v \in Int, NEW w \in Int,
         NEW b \in 1 .. cols, NEW c \in 1 .. cols,
         (v - 1) * cols + b = (w - 1) * cols + c
  PROVE  v = w /\ b = c
<1>1. \A x, y \in Int, e, f \in 1 .. cols :
        x < y => (x - 1) * cols + e < (y - 1) * cols + f
  <2> TAKE x, y \in Int, e, f \in 1 .. cols
  <2> HAVE x < y
  <2>1. x * cols <= (y - 1) * cols BY Monotone
  <2>2. (x - 1) * cols = x * cols - cols OBVIOUS
  <2>3. x * cols \in Int /\ (y - 1) * cols \in Int OBVIOUS
  <2> QED BY <2>1, <2>2, <2>3
<1>2. v = w BY <1>1
<1>3. (v - 1) * cols \in Int OBVIOUS
<1> QED BY <1>2, <1>3

LEMMA ColumnOf ==
  ASSUME NEW cols \in Nat \ {0}, NEW w \in Nat \ {0}, NEW c \in 1 .. cols
  PROVE  /\ 1 + (((w - 1) * cols + c - 1) \div cols) = w
         /\ 1 + (((w - 1) * cols + c - 1) % cols) = c
<1> DEFINE i == (w - 1) * cols + c
           v == 1 + ((i - 1) \div cols)
           b == 1 + ((i - 1) % cols)
<1>1. i \in Nat \ {0}
  <2>1. (w - 1) * cols \in Nat BY Distributes
  <2> QED BY <2>1
<1> HIDE DEF i
<1>2. v \in Nat \ {0} /\ b \in 1 .. cols /\ i = (v - 1) * cols + b
  BY <1>1, RowOf
<1> HIDE DEF v, b
<1>3. (v - 1) * cols + b = (w - 1) * cols + c BY <1>2 DEF i
<1>4. v = w /\ b = c BY <1>2, <1>3, CellUnique
<1> QED BY <1>4 DEF v, b, i

-----------------------------------------------------------------------------
(***************************************************************************)
(* The parts of the devices, in rows.                                      *)
(***************************************************************************)
MatrixDistribution ==
  DistributionType \cup {Overlap(o.radius, o.padding) : o \in Overlaps}

Radius(m) == IF IsOverlap(m.dist) THEN m.dist.radius ELSE 0

\* The rows in a device's buffer that are its own.
OwnRows(m, d) == RowsOn(m.dist, m.rows, d) - 2 * Radius(m)

LEMMA Kinds ==
  ASSUME NEW dist \in MatrixDistribution
  PROVE  \/ dist = Invalid
         \/ \E d \in Device : dist = Single(d)
         \/ dist = Block
         \/ dist = Copy
         \/ /\ dist.kind = "overlap" /\ dist.devices = Device
            /\ dist.radius \in Nat \ {0} /\ dist.padding \in Padding
            /\ dist = Overlap(dist.radius, dist.padding)
<1>1. CASE dist \in DistributionType
  BY <1>1 DEF DistributionType, ValidDistribution
<1>2. CASE \E o \in Overlaps : dist = Overlap(o.radius, o.padding)
  BY <1>2, OverlapsAssumption DEF Overlap
<1> QED BY <1>1, <1>2 DEF MatrixDistribution

LEMMA Devices ==
  /\ NumDevices \in Nat \ {0} /\ LastDevice \in Nat /\ LastDevice = NumDevices - 1
  /\ 0 \in Device /\ LastDevice \in Device
  /\ \A d \in Device : d \in Nat /\ d <= LastDevice
BY NumDevicesAssumption DEF Device, LastDevice

\* What is multiplied by the number of a device.
LEMMA Share ==
  ASSUME NEW n \in Nat, NEW q \in Nat, LastDevice * q <= n, NEW d \in Device
  PROVE  /\ d * q \in Nat /\ d * q <= n
         /\ d < LastDevice => d * q + q <= n
<1>1. d \in Nat /\ d <= LastDevice /\ LastDevice \in Nat BY Devices
<1>2. d * q \in Nat /\ LastDevice * q \in Nat BY <1>1, Distributes
<1>3. d * q <= LastDevice * q BY <1>1, Monotone
<1>4. ASSUME d < LastDevice PROVE d * q + q <= n
  <2>1. (d + 1) * q <= LastDevice * q BY <1>1, <1>4, Monotone
  <2>2. (d + 1) * q = d * q + q BY <1>1
  <2> QED BY <2>1, <2>2, <1>2
<1> QED BY <1>2, <1>3, <1>4

\* Of equal parts, with a last one that takes the rest, each row is in one.
LEMMA InSomePart ==
  ASSUME NEW n \in Nat, NEW q \in Nat, LastDevice * q <= n, NEW w \in 1 .. n
  PROVE  \E d \in Device :
           w - d * q \in 1 .. (IF d < LastDevice THEN q ELSE n - LastDevice * q)
<1>1. LastDevice \in Nat /\ LastDevice * q \in Nat BY Devices, Distributes
<1>2. CASE w > LastDevice * q
  <2>1. w - LastDevice * q \in 1 .. n - LastDevice * q BY <1>1, <1>2
  <2> QED BY <2>1, Devices
<1>3. CASE w <= LastDevice * q
  <2>1. q # 0 BY <1>1, <1>3
  <2> DEFINE v == 1 + ((w - 1) \div q)
             c == 1 + ((w - 1) % q)
  <2>2. v \in Nat \ {0} /\ c \in 1 .. q /\ w = (v - 1) * q + c BY <2>1, RowOf
  <2> HIDE DEF v, c
  <2>3. v <= LastDevice BY <2>1, <2>2, <1>1, <1>3, CellAt
  <2>4. v - 1 \in Device /\ v - 1 < LastDevice BY <2>2, <2>3, <1>1, Devices DEF Device
  <2>5. w - (v - 1) * q \in 1 .. q
    <3>1. (v - 1) * q \in Int BY <2>2
    <3> QED BY <3>1, <2>2
  <2> QED BY <2>4, <2>5
<1> QED BY <1>1, <1>2, <1>3

LEMMA PartsOfRows ==
  ASSUME NEW m, m.dist \in MatrixDistribution, IsValid(m.dist), m.rows \in 0 .. MaxSize
  PROVE  /\ m.dist.devices \subseteq Device /\ m.dist.devices # {}
         /\ DownloadDevices(m.dist) \subseteq m.dist.devices
         /\ Radius(m) \in Nat
         /\ \A d \in m.dist.devices :
              /\ RowsOn(m.dist, m.rows, d) \in Nat
              /\ FirstRow(m, d) \in Nat /\ OwnRows(m, d) \in Nat
              /\ RowsOn(m.dist, m.rows, d) = OwnRows(m, d) + 2 * Radius(m)
              /\ FirstRow(m, d) + OwnRows(m, d) <= m.rows
         /\ \A w \in 1 .. m.rows :
              \E d \in DownloadDevices(m.dist) : w - FirstRow(m, d) \in 1 .. OwnRows(m, d)
<1> DEFINE n == m.rows
<1>0. n \in Nat /\ n <= MaxSize BY MaxSizeAssumption
<1>1. CASE m.dist.kind = "overlap"
  <2>1. /\ m.dist.devices = Device /\ m.dist.radius \in Nat \ {0} /\ IsOverlap(m.dist)
        /\ m.dist.kind # "copy"
    BY <1>1, Kinds DEF Invalid, Single, Block, Copy, IsOverlap
  <2> DEFINE q == n \div NumDevices
  <2>2. /\ q \in Nat /\ n % NumDevices \in 0 .. NumDevices - 1
        /\ n = q * NumDevices + (n % NumDevices)
    BY <1>0, Devices, Division
  <2>3. /\ q * NumDevices = LastDevice * q + q /\ LastDevice * q \in Nat
    <3> HIDE DEF q, n
    <3>1. q * (LastDevice + 1) = LastDevice * q + q BY <2>2, Devices
    <3>2. NumDevices = LastDevice + 1 BY Devices
    <3>3. LastDevice * q \in Nat BY <2>2, Devices, Distributes
    <3> QED BY <3>1, <3>2, <3>3
  <2>4. LastDevice * q <= n BY <2>2, <2>3
  <2>5. \A d \in Device : FirstRow(m, d) = d * q BY <2>1 DEF FirstRow, IsOverlap
  <2>6. \A d \in Device :
          /\ RowsOn(m.dist, n, d)
               = 2 * m.dist.radius + (IF d < LastDevice THEN q ELSE n - LastDevice * q)
          /\ OwnRows(m, d) = (IF d < LastDevice THEN q ELSE n - LastDevice * q)
    <3> TAKE d \in Device
    <3>1. d < LastDevice <=> d # LastDevice BY Devices
    <3>2. n - LastDevice * q = q + (n % NumDevices) BY <2>2, <2>3
    <3>3. RowsOn(m.dist, n, d)
            = 2 * m.dist.radius + q + (IF d = LastDevice THEN n % NumDevices ELSE 0)
      BY <2>1 DEF RowsOn, OverlapRows
    <3>4. Radius(m) = m.dist.radius BY <2>1 DEF Radius
    <3> HIDE DEF q
    <3>5. RowsOn(m.dist, n, d)
            = 2 * m.dist.radius + (IF d < LastDevice THEN q ELSE n - LastDevice * q)
      BY <3>1, <3>2, <3>3, <2>1, <2>2
    <3> QED BY <3>4, <3>5, <2>1, <2>2, <2>3, <1>0 DEF OwnRows
  <2>7. Radius(m) = m.dist.radius /\ DownloadDevices(m.dist) = Device
    BY <2>1 DEF Radius, DownloadDevices
  <2> HIDE DEF q, n
  <2>8. \A d \in Device : d * q \in Nat /\ d * q <= n /\ (d < LastDevice => d * q + q <= n)
    BY <1>0, <2>2, <2>4, Share
  <2>9. \A d \in Device : d <= LastDevice BY Devices
  <2>10. \A d \in Device : d < LastDevice \/ d = LastDevice BY Devices
  <2>11. \A w \in 1 .. n : \E d \in Device :
           w - d * q \in 1 .. (IF d < LastDevice THEN q ELSE n - LastDevice * q)
    BY <1>0, <2>2, <2>4, InSomePart
  <2>12. ASSUME NEW d \in Device
         PROVE  /\ RowsOn(m.dist, n, d) \in Nat
                /\ FirstRow(m, d) \in Nat /\ OwnRows(m, d) \in Nat
                /\ RowsOn(m.dist, n, d) = OwnRows(m, d) + 2 * Radius(m)
                /\ FirstRow(m, d) + OwnRows(m, d) <= n
    BY <2>1, <2>2, <2>3, <2>4, <2>5, <2>6, <2>7, <2>8, <2>10, <1>0
  <2>13. Device # {} BY Devices
  <2>14. \A w \in 1 .. n : \E d \in Device : w - FirstRow(m, d) \in 1 .. OwnRows(m, d)
    BY <2>5, <2>6, <2>11
  <2> QED BY <2>1, <2>7, <2>12, <2>13, <2>14 DEF n
<1>2. CASE m.dist = Block
  <2>1. m.dist.devices = Device /\ ~ IsOverlap(m.dist) /\ m.dist.kind = "block"
    BY <1>2 DEF Block, IsOverlap
  <2> DEFINE q == Quota(n)
  <2>2. q \in Nat /\ LastDevice * q <= n BY QuotaAssumption
  <2>3. LastDevice * q \in Nat BY <2>2, Devices, Distributes
  <2>4. \A d \in Device : FirstRow(m, d) = d * q BY <2>1 DEF FirstRow
  <2>5. Radius(m) = 0 /\ DownloadDevices(m.dist) = Device
    BY <2>1 DEF Radius, DownloadDevices
  <2>6. \A d \in Device :
          RowsOn(m.dist, n, d) = (IF d < LastDevice THEN q ELSE n - LastDevice * q)
    BY <2>1 DEF RowsOn, SizeForDevice, BlockSize
  <2> HIDE DEF q, n
  <2>7. \A d \in Device :
          OwnRows(m, d) = (IF d < LastDevice THEN q ELSE n - LastDevice * q)
    BY <2>2, <2>3, <2>5, <2>6, <1>0 DEF OwnRows, n
  <2>8. \A d \in Device : d * q \in Nat /\ d * q <= n /\ (d < LastDevice => d * q + q <= n)
    BY <1>0, <2>2, Share
  <2>9. \A d \in Device : d < LastDevice \/ d = LastDevice BY Devices
  <2>10. \A w \in 1 .. n : \E d \in Device :
           w - d * q \in 1 .. (IF d < LastDevice THEN q ELSE n - LastDevice * q)
    BY <1>0, <2>2, InSomePart
  <2>11. ASSUME NEW d \in Device
         PROVE  /\ RowsOn(m.dist, n, d) \in Nat
                /\ FirstRow(m, d) \in Nat /\ OwnRows(m, d) \in Nat
                /\ RowsOn(m.dist, n, d) = OwnRows(m, d) + 2 * Radius(m)
                /\ FirstRow(m, d) + OwnRows(m, d) <= n
    BY <2>2, <2>3, <2>4, <2>5, <2>6, <2>7, <2>8, <2>9, <1>0
  <2>12. Device # {} BY Devices
  <2>13. \A w \in 1 .. n : \E d \in Device : w - FirstRow(m, d) \in 1 .. OwnRows(m, d)
    BY <2>4, <2>7, <2>10
  <2> QED BY <2>1, <2>5, <2>11, <2>12, <2>13 DEF n
<1>3. CASE m.dist = Copy \/ \E d \in Device : m.dist = Single(d)
  <2>1. /\ m.dist.devices \subseteq Device /\ m.dist.devices # {} /\ ~ IsOverlap(m.dist)
        /\ m.dist.kind \in {"copy", "single"}
    <3>1. CASE m.dist = Copy
      BY <3>1, Devices DEF Copy, IsOverlap
    <3>2. ASSUME NEW d \in Device, m.dist = Single(d)
          PROVE  /\ m.dist.devices \subseteq Device /\ m.dist.devices # {}
                 /\ ~ IsOverlap(m.dist) /\ m.dist.kind \in {"copy", "single"}
      <4>1. m.dist.devices = {d} /\ m.dist.kind = "single" BY <3>2 DEF Single
      <4> QED BY <4>1 DEF IsOverlap
    <3> QED BY <1>3, <3>1, <3>2
  <2>2. DownloadDevices(m.dist) \subseteq m.dist.devices /\ DownloadDevices(m.dist) # {}
    <3>1. m.dist.kind = "copy" => m.dist.devices = Device
      <4>1. \A d : Single(d).kind = "single" BY DEF Single
      <4>2. Copy.devices = Device BY DEF Copy
      <4> QED BY <1>3, <4>1, <4>2
    <3>2. 0 \in Device BY Devices
    <3> QED BY <2>1, <3>1, <3>2 DEF DownloadDevices
  <2>3. Radius(m) = 0 BY <2>1 DEF Radius
  <2>4. \A d : FirstRow(m, d) = 0 /\ RowsOn(m.dist, n, d) = n
    BY <2>1 DEF FirstRow, RowsOn, SizeForDevice
  <2>5. \A d : OwnRows(m, d) = n BY <2>3, <2>4, <1>0 DEF OwnRows
  <2> QED BY <2>1, <2>2, <2>3, <2>4, <2>5, <1>0
<1>4. m.dist.kind = "overlap" \/ m.dist = Block \/ m.dist = Copy
      \/ \E d \in Device : m.dist = Single(d)
  BY Kinds DEF IsValid, Invalid
<1> QED BY <1>1, <1>2, <1>3, <1>4

-----------------------------------------------------------------------------
(***************************************************************************)
(* The buffers before a device's: their sum is defined by recursion.       *)
(***************************************************************************)
LEMMA BeforeIs ==
  ASSUME NEW m, DOMAIN m.buf = Device, NEW less \in Int, NEW size \in Int,
         \A e \in Device : e < LastDevice => Len(m.buf[e]) = size,
         NEW d \in Device
  PROVE  Before(m, d, less) = d * (size - less)
<1> DEFINE add(e) == IF e - 1 \in DOMAIN m.buf THEN Len(m.buf[e - 1]) - less ELSE 0
           Eq(f) == f = [e \in 0 .. d |-> IF e = 0 THEN 0 ELSE f[e - 1] + add(e)]
           S == CHOOSE f : Eq(f)
           s == size - less
           step == [x \in Nat \X Int |-> x[2] + s]
<1>1. Before(m, d, less) = S[d] BY DEF Before
<1>2. d \in Nat /\ d <= LastDevice /\ s \in Int BY Devices
<1>3. \A e \in 0 .. d : e # 0 => add(e) = s
  <2> TAKE e \in 0 .. d
  <2> HAVE e # 0
  <2>1. e - 1 \in Device /\ e - 1 < LastDevice BY <1>2, Devices DEF Device
  <2> QED BY <2>1
<1> HIDE DEF add, s
<1>4. step \in [Nat \X Int -> Int] BY <1>2
<1>5. Initial(0 .. d) BY <1>2 DEF Initial
<1>6. PICK f \in [0 .. d -> Int] : Follows(f, 0 .. d, 0, step)
  <2> HIDE DEF step
  <2>1. 0 \in Int OBVIOUS
  <2> QED BY <2>1, <1>4, <1>5, Recursion
<1>7. Eq(f)
  <2>1. \A n \in 0 .. d : n # 0 => step[<<n, f[n - 1]>>] = f[n - 1] + add(n)
    BY <1>2, <1>3
  <2> HIDE DEF step
  <2>2. f = [n \in 0 .. d |-> IF n = 0 THEN 0 ELSE step[<<n, f[n - 1]>>]]
    BY <1>6 DEF Follows
  <2> QED BY <2>1, <2>2
<1>8. Eq(S)
  <2> HIDE DEF Eq
  <2> QED BY <1>7
<1> HIDE DEF S
<1>9. S[0] = 0 BY <1>2, <1>8
<1>10. \A e \in 0 .. d : e # 0 => S[e] = S[e - 1] + s BY <1>3, <1>8
<1> DEFINE A == {n \in Nat : n <= d => S[n] = n * s}
<1>11. \A n \in Nat : n \in A
  <2>1. 0 \in A BY <1>2, <1>9
  <2>2. ASSUME NEW n \in Nat, n \in A PROVE n + 1 \in A
    <3> SUFFICES ASSUME n + 1 <= d PROVE S[n + 1] = (n + 1) * s OBVIOUS
    <3>1. S[n] = n * s BY <2>2, <1>2
    <3>2. n + 1 \in 0 .. d /\ n + 1 # 0 /\ (n + 1) - 1 = n BY <1>2
    <3>3. S[n + 1] = S[n] + s BY <3>2, <1>10
    <3>4. (n + 1) * s = n * s + s BY <1>2, Distributes
    <3> QED BY <3>1, <3>3, <3>4
  <2> HIDE DEF A
  <2> QED BY <2>1, <2>2, Naturals
<1> QED BY <1>1, <1>2, <1>11 DEF s

-----------------------------------------------------------------------------
(***************************************************************************)
(* What holds of each matrix.                                              *)
(***************************************************************************)
Label(n) == {Neutral, Other} \cup 1 .. n

Typed(m) ==
  /\ DOMAIN m = Fields
  /\ m.rows \in 0 .. MaxSize /\ m.cols \in Nat
  /\ m.hostUp \in BOOLEAN /\ m.devUp \in BOOLEAN
  /\ m.dist \in MatrixDistribution
  /\ m.host \in [1 .. ElemCount(m) -> Label(ElemCount(m))]
  /\ DOMAIN m.buf = {} \/ Buffered(m)
  /\ \A d \in DOMAIN m.buf : m.buf[d] \in [1 .. SizeOn(m, d) -> Label(ElemCount(m))]

\* Buffers are only made for elements, of which each device gets enough.
Roomy(m) == DOMAIN m.buf # {} => ElemCount(m) > 0 /\ Tall(m)

\* In cells: the border in a buffer, a device's own part, and where it begins.
Lead(m)      == Radius(m) * m.cols
Own(m, d)    == OwnRows(m, d) * m.cols
Origin(m, d) == FirstRow(m, d) * m.cols

OwnRight(m) ==
  \A d \in m.dist.devices : \A i \in 1 .. Own(m, d) :
    m.buf[d][Lead(m) + i] = Origin(m, d) + i

\* Where the flags say that the data is current, it is.
Held(m) ==
  /\ m.hostUp => m.host = Elements(ElemCount(m))
  /\ m.devUp /\ ElemCount(m) > 0 => IsValid(m.dist) /\ Buffered(m) /\ OwnRight(m)
  /\ m.devUp => m.hostUp \/ ElemCount(m) > 0

\* What a cell of an overlap distribution should hold.
Wanted(m, d, i) ==
  PaddedRow(m, FirstRow(m, d) + 1 + ((i - 1) \div m.cols) - m.dist.radius, m.dist.padding)
    [1 + ((i - 1) % m.cols)]

Bordered(m) ==
  IsOverlap(m.dist) /\ m.hostUp /\ m.devUp /\ ElemCount(m) > 0 =>
    \A d \in Device : \A i \in 1 .. SizeOn(m, d) : m.buf[d][i] = Wanted(m, d, i)

Placed(m) == Typed(m) /\ Roomy(m) /\ Held(m)
Right(m)  == Placed(m) /\ Bordered(m)

-----------------------------------------------------------------------------
(***************************************************************************)
(* The parts of the devices, in cells.                                     *)
(***************************************************************************)
LEMMA Counts ==
  ASSUME NEW m, Typed(m)
  PROVE  /\ m.rows \in Nat /\ m.cols \in Nat /\ ElemCount(m) \in Nat
         /\ ElemCount(m) = m.rows * m.cols
         /\ ElemCount(m) > 0 <=> m.rows > 0 /\ m.cols > 0
<1>1. m.rows \in Nat /\ m.cols \in Nat BY MaxSizeAssumption DEF Typed
<1>2. m.rows * m.cols \in Nat BY <1>1, Distributes
<1>3. m.rows > 0 /\ m.cols > 0 => 1 * m.cols <= m.rows * m.cols BY <1>1, Monotone
<1>4. m.rows = 0 => m.rows * m.cols = 0 BY <1>1
<1>5. m.cols = 0 => m.rows * m.cols = 0 BY <1>1
<1> QED BY <1>1, <1>2, <1>3, <1>4, <1>5 DEF ElemCount

LEMMA PartsOfCells ==
  ASSUME NEW m, Typed(m), IsValid(m.dist)
  PROVE  /\ Lead(m) \in Nat
         /\ IsOverlap(m.dist) => Halo(m) = Lead(m)
         /\ ~ IsOverlap(m.dist) => Lead(m) = 0
         /\ \A d \in m.dist.devices :
              /\ SizeOn(m, d) \in Nat /\ Own(m, d) \in Nat /\ Origin(m, d) \in Nat
              /\ SizeOn(m, d) = Own(m, d) + 2 * Lead(m)
              /\ Origin(m, d) + Own(m, d) <= ElemCount(m)
         /\ \A p \in 1 .. ElemCount(m) :
              \E d \in DownloadDevices(m.dist) : p - Origin(m, d) \in 1 .. Own(m, d)
<1>1. /\ m.dist \in MatrixDistribution /\ m.rows \in 0 .. MaxSize /\ m.cols \in Nat
      /\ m.rows \in Nat
  BY Counts DEF Typed
<1>2. /\ DownloadDevices(m.dist) \subseteq m.dist.devices
      /\ Radius(m) \in Nat
      /\ \A d \in m.dist.devices :
           /\ RowsOn(m.dist, m.rows, d) \in Nat
           /\ FirstRow(m, d) \in Nat /\ OwnRows(m, d) \in Nat
           /\ RowsOn(m.dist, m.rows, d) = OwnRows(m, d) + 2 * Radius(m)
           /\ FirstRow(m, d) + OwnRows(m, d) <= m.rows
      /\ \A w \in 1 .. m.rows :
           \E d \in DownloadDevices(m.dist) : w - FirstRow(m, d) \in 1 .. OwnRows(m, d)
  BY <1>1, PartsOfRows
<1>3. Lead(m) \in Nat /\ (~ IsOverlap(m.dist) => Lead(m) = 0)
  BY <1>1, <1>2, Distributes DEF Lead, Radius
<1>4. IsOverlap(m.dist) => Halo(m) = Lead(m)
  BY DEF Halo, Lead, Radius
<1>5. ASSUME NEW d \in m.dist.devices
      PROVE  /\ SizeOn(m, d) \in Nat /\ Own(m, d) \in Nat /\ Origin(m, d) \in Nat
             /\ SizeOn(m, d) = Own(m, d) + 2 * Lead(m)
             /\ Origin(m, d) + Own(m, d) <= ElemCount(m)
  <2> DEFINE o == OwnRows(m, d)
             f == FirstRow(m, d)
             r == Radius(m)
             c == m.cols
             n == m.rows
  <2>1. o \in Nat /\ f \in Nat /\ r \in Nat /\ c \in Nat /\ n \in Nat /\ f + o <= n
    BY <1>1, <1>2
  <2>2. SizeOn(m, d) = (o + 2 * r) * c BY <1>2 DEF SizeOn
  <2>3. Own(m, d) = o * c /\ Origin(m, d) = f * c /\ Lead(m) = r * c
        /\ ElemCount(m) = n * c
    BY DEF Own, Origin, Lead, ElemCount
  <2> HIDE DEF o, f, r, c, n
  <2>4. (o + 2 * r) * c = o * c + (2 * r) * c /\ (2 * r) * c = 2 * (r * c)
    BY <2>1, Distributes
  <2>5. (f + o) * c = f * c + o * c /\ (f + o) * c <= n * c
    BY <2>1, Distributes, Monotone
  <2>6. o * c \in Nat /\ f * c \in Nat /\ r * c \in Nat BY <2>1, Distributes
  <2> QED BY <2>2, <2>3, <2>4, <2>5, <2>6
<1>6. ASSUME NEW p \in 1 .. ElemCount(m)
      PROVE  \E d \in DownloadDevices(m.dist) : p - Origin(m, d) \in 1 .. Own(m, d)
  <2>1. ElemCount(m) \in Nat /\ ElemCount(m) = m.rows * m.cols /\ m.cols > 0
    BY Counts
  <2>a. m.cols \in Nat \ {0} /\ p \in Nat \ {0} BY <2>1, <1>1
  <2>b. \E w \in Nat \ {0} : \E b \in 1 .. m.cols : p = (w - 1) * m.cols + b
    BY <2>a, SomeCell, Zenon
  <2>2. PICK w \in Nat \ {0} : \E b \in 1 .. m.cols : p = (w - 1) * m.cols + b
    BY <2>b
  <2>c. PICK b \in 1 .. m.cols : p = (w - 1) * m.cols + b BY <2>2
  <2>3. w \in 1 .. m.rows BY <1>1, <2>a, <2>1, <2>c, CellAt
  <2>4. PICK d \in DownloadDevices(m.dist) : w - FirstRow(m, d) \in 1 .. OwnRows(m, d)
    BY <1>2, <2>3
  <2> DEFINE o == OwnRows(m, d)
             f == FirstRow(m, d)
             c == m.cols
  <2>5. o \in Nat /\ f \in Nat /\ c \in Nat \ {0} BY <1>2, <2>a, <2>4
  <2>6. Own(m, d) = o * c /\ Origin(m, d) = f * c BY DEF Own, Origin
  <2>7. w - f \in 1 .. o /\ p = (w - 1) * c + b /\ b \in 1 .. c BY <2>c, <2>4
  <2> HIDE DEF o, f, c
  <2>8. ((w - f) - 1) * c + b >= 1 /\ ((w - f) - 1) * c + b <= o * c
    BY <2>5, <2>7, CellAt
  <2>9. ((w - f) - 1) * c = (w - 1) * c - f * c
    <3>1. (w - f) - 1 = (w - 1) - f BY <2>2, <2>5
    <3>2. ((w - 1) - f) * c = (w - 1) * c - f * c BY <2>2, <2>5, Distributes
    <3> QED BY <3>1, <3>2
  <2>10. p - f * c \in 1 .. o * c
    <3>1. (w - 1) * c \in Int /\ f * c \in Int /\ o * c \in Int
      BY <2>2, <2>5, Distributes
    <3> QED BY <2>7, <2>8, <2>9, <3>1
  <2> QED BY <2>4, <2>6, <2>10
<1> QED BY <1>3, <1>4, <1>5, <1>6

-----------------------------------------------------------------------------
(***************************************************************************)
(* Pieces.                                                                 *)
(***************************************************************************)
LEMMA LengthOf ==
  ASSUME NEW S, NEW n \in Nat, NEW f \in [1 .. n -> S]
  PROVE  f \in Seq(S) /\ Len(f) = n /\ DOMAIN f = 1 .. n
<1>1. f \in Seq(S) OBVIOUS
<1>2. DOMAIN f = 1 .. n OBVIOUS
<1>3. Len(f) \in Nat /\ DOMAIN f = 1 .. Len(f) BY <1>1
<1>4. Len(f) = n BY <1>2, <1>3
<1> QED BY <1>1, <1>2, <1>4

LEMMA Lengths ==
  ASSUME NEW m, Typed(m)
  PROVE  /\ Len(m.host) = ElemCount(m) /\ DOMAIN m.host = 1 .. ElemCount(m)
         /\ IsValid(m.dist) /\ Buffered(m) =>
              \A d \in m.dist.devices :
                /\ Len(m.buf[d]) = SizeOn(m, d) /\ DOMAIN m.buf[d] = 1 .. SizeOn(m, d)
<1> DEFINE n == ElemCount(m)
           L == Label(n)
<1>1. n \in Nat BY Counts
<1>2. m.host \in [1 .. n -> L] BY DEF Typed
<1> HIDE DEF n, L
<1>3. Len(m.host) = n /\ DOMAIN m.host = 1 .. n BY <1>1, <1>2, LengthOf
<1>4. ASSUME IsValid(m.dist), Buffered(m), NEW d \in m.dist.devices
      PROVE  Len(m.buf[d]) = SizeOn(m, d) /\ DOMAIN m.buf[d] = 1 .. SizeOn(m, d)
  <2> DEFINE s == SizeOn(m, d)
             b == m.buf[d]
  <2>1. s \in Nat BY <1>4, PartsOfCells
  <2>2. b \in [1 .. s -> L] BY <1>4 DEF Typed, Buffered, n, L
  <2> HIDE DEF s, b
  <2>3. Len(b) = s /\ DOMAIN b = 1 .. s BY <2>1, <2>2, LengthOf
  <2> QED BY <2>3 DEF s, b
<1> QED BY <1>3, <1>4 DEF n

\* With enough rows, the borders of the inner devices are inside the matrix.
LEMMA OverlapParts ==
  ASSUME NEW m, Typed(m), IsOverlap(m.dist), Tall(m), NEW d \in Device
  PROVE  /\ Origin(m, d) = d * ((m.rows \div NumDevices) * m.cols)
         /\ d < LastDevice => Own(m, d) = (m.rows \div NumDevices) * m.cols
         /\ d = 0 => Origin(m, d) = 0
         /\ d > 0 => Origin(m, d) >= Lead(m)
         /\ d = LastDevice => Origin(m, d) + Own(m, d) = ElemCount(m)
         /\ d < LastDevice => Origin(m, d) + Own(m, d) + Lead(m) <= ElemCount(m)
<1> DEFINE n == m.rows
           c == m.cols
           q == m.rows \div NumDevices
           rest == m.rows % NumDevices
           r == m.dist.radius
           o == OwnRows(m, d)
           f == FirstRow(m, d)
<1>0. n \in Nat /\ c \in Nat BY Counts
<1>1. /\ q \in Nat /\ rest \in 0 .. NumDevices - 1 /\ n = q * NumDevices + rest
  BY <1>0, Devices, Division
<1>2. r \in Nat /\ Radius(m) = r /\ m.dist.devices = Device
  BY Kinds DEF Typed, IsOverlap, Invalid, Single, Block, Copy, Radius
<1>3. f = d * q BY DEF FirstRow, IsOverlap
<1>4. RowsOn(m.dist, m.rows, d) = 2 * r + q + (IF d = LastDevice THEN rest ELSE 0)
  BY DEF RowsOn, OverlapRows
<1>5. o = q + (IF d = LastDevice THEN rest ELSE 0)
  <2> HIDE DEF q, rest, r
  <2> QED BY <1>1, <1>2, <1>4 DEF OwnRows
<1>6. NumDevices > 1 =>
        \A e \in Device : q + (IF e = LastDevice THEN rest ELSE 0) >= r
  <2>1. \A e : OverlapRows(0, m.rows, e) = 0 + q + (IF e = LastDevice THEN rest ELSE 0)
    BY DEF OverlapRows
  <2>2. NumDevices > 1 => \A e \in Device : OverlapRows(0, m.rows, e) >= r BY DEF Tall
  <2> HIDE DEF q, rest, r
  <2>3. \A e : 0 + q + (IF e = LastDevice THEN rest ELSE 0)
                 = q + (IF e = LastDevice THEN rest ELSE 0) BY <1>1
  <2> QED BY <2>1, <2>2, <2>3
<1>7. Origin(m, d) = f * c /\ Own(m, d) = o * c /\ Lead(m) = r * c
      /\ ElemCount(m) = n * c
  BY <1>2 DEF Origin, Own, Lead, ElemCount
<1> HIDE DEF n, c, q, rest, r, o, f
<1>8. d \in Nat /\ d <= LastDevice /\ LastDevice \in Nat /\ NumDevices = LastDevice + 1
  BY Devices
<1>9. n = LastDevice * q + q + rest
  <2>1. q * (LastDevice + 1) = LastDevice * q + q BY <1>1, <1>8
  <2> QED BY <2>1, <1>1, <1>8
<1>10. LastDevice * q \in Nat /\ d * q \in Nat BY <1>1, <1>8, Distributes
<1>11. d > 0 => f >= r
  <2> HAVE d > 0
  <2>1. 0 \in Device /\ 0 # LastDevice /\ NumDevices > 1 BY <1>8, Devices
  <2>2. q >= r BY <2>1, <1>6, <1>1
  <2>3. 1 * q <= d * q BY <1>1, <1>8, Monotone
  <2>4. 1 * q = q BY <1>1
  <2> QED BY <2>2, <2>3, <2>4, <1>1, <1>2, <1>3, <1>10
<1>12. d = LastDevice => f + o = n BY <1>1, <1>3, <1>5, <1>9, <1>10
<1>13. d < LastDevice => f + o + r <= n
  <2> HAVE d < LastDevice
  <2>1. LastDevice \in Device /\ NumDevices > 1 BY <1>8, Devices
  <2>2. q + rest >= r BY <2>1, <1>6
  <2>3. (d + 1) * q <= LastDevice * q BY <1>1, <1>8, Monotone
  <2>4. (d + 1) * q = d * q + q BY <1>1, <1>8
  <2>5. o = q BY <1>1, <1>5, <1>8
  <2> QED BY <2>2, <2>3, <2>4, <2>5, <1>1, <1>2, <1>3, <1>9, <1>10
<1>14. o \in Nat /\ f \in Nat BY <1>1, <1>3, <1>5, <1>10
<1>15. f * c = d * (q * c)
  BY <1>0, <1>1, <1>3, <1>8
<1>16. d = 0 => f * c = 0 BY <1>0, <1>3, <1>1
<1>17. d > 0 => f * c >= r * c BY <1>0, <1>2, <1>11, <1>14, Monotone
<1>18. (f + o) * c = f * c + o * c BY <1>0, <1>14, Distributes
<1>19. (f + o + r) * c = f * c + o * c + r * c
  <2>1. ((f + o) + r) * c = (f + o) * c + r * c BY <1>0, <1>2, <1>14, Distributes
  <2> QED BY <2>1, <1>18
<1>20. d < LastDevice => (f + o + r) * c <= n * c
  <2>1. f + o + r \in Int BY <1>2, <1>14
  <2> QED BY <2>1, <1>0, <1>13, Monotone
<1>21. d < LastDevice => o = q BY <1>1, <1>5, <1>8
<1> QED BY <1>7, <1>12, <1>15, <1>16, <1>17, <1>18, <1>19, <1>20, <1>21 DEF n, c, q

LEMMA DownloadPieces ==
  ASSUME NEW m, Typed(m), IsValid(m.dist), Buffered(m), Tall(m),
         NEW d \in m.dist.devices
  PROVE  DownloadPiece(m, d)
           = [onDevice |-> Lead(m), onHost |-> Origin(m, d), size |-> Own(m, d)]
<1>1. /\ Lead(m) \in Nat /\ SizeOn(m, d) \in Nat /\ Own(m, d) \in Nat
      /\ Origin(m, d) \in Nat /\ SizeOn(m, d) = Own(m, d) + 2 * Lead(m)
      /\ IsOverlap(m.dist) => Halo(m) = Lead(m)
      /\ ~ IsOverlap(m.dist) => Lead(m) = 0
  BY PartsOfCells
<1>2. \A e \in m.dist.devices : Len(m.buf[e]) = SizeOn(m, e) BY Lengths
<1>3. m.dist.devices \subseteq Device BY PartsOfRows DEF Typed
<1>4. m.rows \in Nat /\ m.cols \in Nat BY Counts
<1>5. CASE IsOverlap(m.dist)
  <2> DEFINE q == (m.rows \div NumDevices) * m.cols
             size == q + 2 * Lead(m)
  <2>1. m.dist.devices = Device /\ DOMAIN m.buf = Device
    BY <1>5, Kinds DEF Typed, IsOverlap, Invalid, Single, Block, Copy, Buffered
  <2>2. q \in Nat
    <3>1. m.rows \div NumDevices \in Nat BY <1>4, Devices, Division
    <3> QED BY <3>1, <1>4, Distributes
  <2>3. \A e \in Device : e < LastDevice => Own(m, e) = q BY <1>5, OverlapParts
  <2>4. \A e \in Device : SizeOn(m, e) = Own(m, e) + 2 * Lead(m)
    BY <2>1, PartsOfCells
  <2>5. Origin(m, d) = d * q BY <1>3, <1>5, OverlapParts
  <2> HIDE DEF q
  <2>6. \A e \in Device : e < LastDevice => Len(m.buf[e]) = size
    BY <1>2, <2>1, <2>3, <2>4
  <2>7. size \in Int /\ 2 * Halo(m) \in Int /\ size - 2 * Halo(m) = q
    BY <1>1, <1>5, <2>2
  <2> HIDE DEF size
  <2>8. Before(m, d, 2 * Halo(m)) = d * (size - 2 * Halo(m))
    BY <1>3, <2>1, <2>6, <2>7, BeforeIs
  <2>9. Len(m.buf[d]) - 2 * Halo(m) = Own(m, d) BY <1>1, <1>2, <1>5
  <2> QED BY <1>1, <1>5, <2>5, <2>7, <2>8, <2>9 DEF DownloadPiece
<1>6. CASE m.dist.kind = "block"
  <2>1. m.dist = Block BY <1>6, Kinds DEF Typed, Invalid, Single, Copy
  <2>2. m.dist.devices = Device /\ DOMAIN m.buf = Device /\ ~ IsOverlap(m.dist)
    BY <2>1 DEF Block, IsOverlap, Buffered
  <2> DEFINE q == Quota(m.rows) * m.cols
  <2>3. Quota(m.rows) \in Nat BY QuotaAssumption DEF Typed
  <2>4. q \in Nat BY <2>3, <1>4, Distributes
  <2>5. \A e \in Device : e < LastDevice => SizeOn(m, e) = q
    BY <2>2, <1>6 DEF SizeOn, RowsOn, SizeForDevice, BlockSize
  <2>6. Origin(m, d) = d * q
    <3>1. Origin(m, d) = (d * Quota(m.rows)) * m.cols
      BY <1>6, <2>2 DEF Origin, FirstRow
    <3>2. d \in Nat BY <1>3, Devices
    <3> QED BY <3>1, <3>2, <2>3, <1>4
  <2> HIDE DEF q
  <2>7. \A e \in Device : e < LastDevice => Len(m.buf[e]) = q BY <1>2, <2>2, <2>5
  <2>8. Before(m, d, 0) = d * (q - 0) BY <1>3, <2>2, <2>4, <2>7, BeforeIs
  <2>9. Len(m.buf[d]) = Own(m, d) /\ Lead(m) = 0 /\ q - 0 = q
    BY <1>1, <1>2, <2>2, <2>4
  <2> QED BY <1>6, <2>2, <2>6, <2>8, <2>9 DEF DownloadPiece, WholeBuffer
<1>7. CASE ~ IsOverlap(m.dist) /\ m.dist.kind # "block"
  <2>1. Origin(m, d) = 0 BY <1>4, <1>7 DEF Origin, FirstRow
  <2>2. Len(m.buf[d]) = Own(m, d) /\ Lead(m) = 0 BY <1>1, <1>2, <1>7
  <2> QED BY <1>7, <2>1, <2>2 DEF DownloadPiece, WholeBuffer
<1> QED BY <1>5, <1>6, <1>7

\* The piece of an upload begins and ends where the matrix does, and is in place.
LEMMA UploadPieces ==
  ASSUME NEW m, Typed(m), IsValid(m.dist), Buffered(m), Tall(m),
         NEW d \in m.dist.devices
  PROVE  LET piece == UploadPiece(m, d)
         IN  /\ piece.onDevice \in Nat /\ piece.onHost \in Nat /\ piece.size \in Nat
             /\ piece.onHost - piece.onDevice = Origin(m, d) - Lead(m)
             /\ piece.onDevice =
                  (IF IsOverlap(m.dist) /\ d = 0 THEN Lead(m) ELSE 0)
             /\ piece.onDevice + piece.size =
                  (IF IsOverlap(m.dist) /\ d = LastDevice THEN SizeOn(m, d) - Lead(m)
                   ELSE SizeOn(m, d))
             /\ piece.onHost + piece.size <= ElemCount(m)
<1>1. /\ Lead(m) \in Nat /\ SizeOn(m, d) \in Nat /\ Own(m, d) \in Nat
      /\ Origin(m, d) \in Nat /\ SizeOn(m, d) = Own(m, d) + 2 * Lead(m)
      /\ IsOverlap(m.dist) => Halo(m) = Lead(m)
      /\ ~ IsOverlap(m.dist) => Lead(m) = 0
      /\ Origin(m, d) + Own(m, d) <= ElemCount(m)
  BY PartsOfCells
<1>2. Len(m.buf[d]) = SizeOn(m, d) BY Lengths
<1>3. DownloadPiece(m, d)
        = [onDevice |-> Lead(m), onHost |-> Origin(m, d), size |-> Own(m, d)]
  BY DownloadPieces
<1>4. d \in Device /\ d \in Nat /\ d <= LastDevice
  BY PartsOfRows, Devices DEF Typed
<1>5. CASE IsOverlap(m.dist)
  <2>1. Before(m, d, 2 * Halo(m)) = Origin(m, d) BY <1>3, <1>5 DEF DownloadPiece
  <2> DEFINE above == IF d = 0 THEN Halo(m) ELSE 0
             below == IF d = LastDevice THEN Halo(m) ELSE 0
             onHost == IF d = 0 THEN 0 ELSE Before(m, d, 2 * Halo(m)) - Halo(m)
             size == Len(m.buf[d]) - above - below
  <2>2. UploadPiece(m, d) = [onDevice |-> above, onHost |-> onHost, size |-> size]
    BY <1>5 DEF UploadPiece, OverlapPiece
  <2>3. /\ d = 0 => Origin(m, d) = 0
        /\ d > 0 => Origin(m, d) >= Lead(m)
        /\ d = LastDevice => Origin(m, d) + Own(m, d) = ElemCount(m)
        /\ d < LastDevice => Origin(m, d) + Own(m, d) + Lead(m) <= ElemCount(m)
    BY <1>4, <1>5, OverlapParts
  <2>4. above = (IF d = 0 THEN Lead(m) ELSE 0) BY <1>1, <1>5
  <2>5. below = (IF d = LastDevice THEN Lead(m) ELSE 0) BY <1>1, <1>5
  <2>6. onHost = (IF d = 0 THEN 0 ELSE Origin(m, d) - Lead(m)) BY <1>1, <1>5, <2>1
  <2>7. size = SizeOn(m, d) - above - below BY <1>2
  <2> HIDE DEF above, below, onHost, size
  <2>8. above \in Nat /\ onHost \in Nat /\ size \in Nat
    BY <1>1, <1>4, <2>3, <2>4, <2>5, <2>6, <2>7
  <2>9. onHost - above = Origin(m, d) - Lead(m)
    BY <1>1, <2>3, <2>4, <2>6
  <2>10. above + size = (IF d = LastDevice THEN SizeOn(m, d) - Lead(m) ELSE SizeOn(m, d))
    BY <1>1, <2>4, <2>5, <2>7
  <2>11. onHost + size <= ElemCount(m)
    <3>1. ElemCount(m) \in Nat BY Counts
    <3>2. CASE d = LastDevice
      <4>1. onHost + size = Origin(m, d) + Own(m, d)
        BY <1>1, <2>8, <2>9, <2>10, <3>2
      <4> QED BY <3>1, <4>1, <2>3, <3>2
    <3>3. CASE d # LastDevice
      <4>1. onHost + size = Origin(m, d) + Own(m, d) + Lead(m)
        BY <1>1, <2>8, <2>9, <2>10, <3>3
      <4>2. d < LastDevice BY <1>4, <3>3, Devices
      <4> QED BY <3>1, <4>1, <4>2, <2>3
    <3> QED BY <3>2, <3>3
  <2> DEFINE piece == UploadPiece(m, d)
  <2>12. piece.onDevice = above /\ piece.onHost = onHost /\ piece.size = size BY <2>2
  <2> HIDE DEF piece
  <2>13. /\ piece.onDevice \in Nat /\ piece.onHost \in Nat /\ piece.size \in Nat
         /\ piece.onHost - piece.onDevice = Origin(m, d) - Lead(m)
         /\ piece.onDevice = (IF IsOverlap(m.dist) /\ d = 0 THEN Lead(m) ELSE 0)
         /\ piece.onDevice + piece.size =
              (IF IsOverlap(m.dist) /\ d = LastDevice THEN SizeOn(m, d) - Lead(m)
               ELSE SizeOn(m, d))
         /\ piece.onHost + piece.size <= ElemCount(m)
    BY <1>5, <2>4, <2>8, <2>9, <2>10, <2>11, <2>12
  <2> QED BY <2>13 DEF piece
<1>6. CASE ~ IsOverlap(m.dist)
  <2>1. UploadPiece(m, d) = DownloadPiece(m, d)
    BY <1>6 DEF UploadPiece, DownloadPiece
  <2> QED BY <1>1, <1>3, <1>6, <2>1
<1> QED BY <1>5, <1>6

-----------------------------------------------------------------------------
(***************************************************************************)
(* Transfers.                                                              *)
(***************************************************************************)
LEMMA Greatest ==
  ASSUME NEW n \in Nat, NEW T \in SUBSET (0 .. n), T # {}
  PROVE  Max(T) \in T
<1> DEFINE U == {k \in Nat : n - k \in T}
<1>1. U # {}
  <2>1. PICK x \in T : TRUE OBVIOUS
  <2>2. n - x \in Nat /\ n - (n - x) = x BY <2>1
  <2> QED BY <2>1, <2>2
<1>2. PICK k \in U : \A j \in U : k <= j
  <2>1. U \in SUBSET Nat OBVIOUS
  <2> HIDE DEF U
  <2> QED BY <1>1, <2>1, Least
<1>3. n - k \in T /\ k \in Nat BY <1>2
<1>4. \A y \in T : n - k >= y
  <2> TAKE y \in T
  <2>1. n - y \in Nat /\ n - (n - y) = y OBVIOUS
  <2>2. n - y \in U BY <2>1
  <2> HIDE DEF U
  <2>3. k <= n - y BY <1>2, <2>2
  <2> QED BY <2>1, <2>3, <1>3
<1>5. \E x \in T : \A y \in T : x >= y BY <1>3, <1>4
<1> QED BY <1>5 DEF Max

LEMMA DownloadRight ==
  ASSUME NEW m, Placed(m), MustDownload(m)
  PROVE  ReadFrom(m) = Elements(ElemCount(m))
<1>1. Typed(m) /\ m.devUp /\ ElemCount(m) > 0 BY DEF Placed, Held, MustDownload
<1>2. IsValid(m.dist) /\ Buffered(m) /\ OwnRight(m) BY <1>1 DEF Placed, Held
<1>3. /\ m.dist.devices \subseteq Device /\ m.dist.devices # {}
      /\ DownloadDevices(m.dist) \subseteq m.dist.devices
  BY <1>1, <1>2, PartsOfRows DEF Typed
<1>4. Tall(m) BY <1>2, <1>3 DEF Placed, Roomy, Buffered
<1> DEFINE D == DownloadDevices(m.dist)
           n == ElemCount(m)
           piece == [d \in D |-> DownloadPiece(m, d)]
           to == Lengthened(m.host, Filled(n, Other))
           From(i) == {d \in DOMAIN piece : i - piece[d].onHost \in 1 .. piece[d].size}
           Got(i) == IF From(i) = {} THEN to[i]
                     ELSE CellOf(m.buf[Max(From(i))], piece[Max(From(i))].onDevice
                                                        + i - piece[Max(From(i))].onHost)
<1>5. ReadFrom(m) = [i \in DOMAIN to |-> Got(i)] BY DEF ReadFrom, Joined
<1>6. DOMAIN to = 1 .. n BY DEF Lengthened, Filled
<1>7. \A d \in D : piece[d] = [onDevice |-> Lead(m), onHost |-> Origin(m, d),
                               size |-> Own(m, d)]
  BY <1>1, <1>2, <1>3, <1>4, DownloadPieces
<1>8. DOMAIN piece = D OBVIOUS
<1>9. \A i : From(i) = {d \in D : i - Origin(m, d) \in 1 .. Own(m, d)}
  <2> HIDE DEF piece, D
  <2> QED BY <1>7, <1>8
<1>10. ASSUME NEW i \in 1 .. n PROVE Got(i) = i
  <2> DEFINE e == Max(From(i))
  <2>1. \E d \in D : i - Origin(m, d) \in 1 .. Own(m, d) BY <1>1, <1>2, PartsOfCells
  <2>2. From(i) # {} BY <1>9, <2>1
  <2>3. From(i) \in SUBSET (0 .. LastDevice)
    <3>1. D \subseteq Device BY <1>3
    <3>2. Device = 0 .. LastDevice BY DEF Device, LastDevice
    <3> QED BY <1>9, <3>1, <3>2
  <2>4. e \in From(i)
    <3> HIDE DEF From
    <3> QED BY <2>2, <2>3, Devices, Greatest
  <2>5. Got(i) = CellOf(m.buf[e], piece[e].onDevice + i - piece[e].onHost) BY <2>2
  <2> HIDE DEF e, From, Got
  <2>6. e \in D /\ i - Origin(m, e) \in 1 .. Own(m, e) BY <1>9, <2>4
  <2>7. piece[e].onDevice = Lead(m) /\ piece[e].onHost = Origin(m, e) BY <1>7, <2>6
  <2>8. e \in m.dist.devices BY <1>3, <2>6
  <2>9. /\ Lead(m) \in Nat /\ Own(m, e) \in Nat /\ Origin(m, e) \in Nat
        /\ SizeOn(m, e) \in Nat /\ SizeOn(m, e) = Own(m, e) + 2 * Lead(m)
    BY <1>1, <1>2, <2>8, PartsOfCells
  <2> DEFINE j == i - Origin(m, e)
  <2>10. j \in 1 .. Own(m, e) BY <2>6
  <2>11. m.buf[e][Lead(m) + j] = Origin(m, e) + j BY <1>2, <2>8, <2>10 DEF OwnRight
  <2>12. i \in Nat /\ Origin(m, e) + j = i /\ Lead(m) + i - Origin(m, e) = Lead(m) + j
    BY <2>9, <1>1
  <2>13. DOMAIN m.buf[e] = 1 .. SizeOn(m, e) BY <1>1, <1>2, <2>8, Lengths
  <2>14. Lead(m) + j \in DOMAIN m.buf[e]
    <3> HIDE DEF j
    <3> QED BY <2>9, <2>10, <2>13
  <2> HIDE DEF j
  <2> QED BY <2>5, <2>7, <2>11, <2>12, <2>14 DEF CellOf
<1> HIDE DEF Got, to
<1> QED BY <1>5, <1>6, <1>10 DEF Elements

-----------------------------------------------------------------------------
(***************************************************************************)
(* Uploads.                                                                *)
(***************************************************************************)
\* The cell of the matrix that a cell of a buffer stands for.
Stands(m, d, i) == Origin(m, d) - Lead(m) + i

\* What the cells of a border are, by where they are.
LEMMA WantedIs ==
  ASSUME NEW m, Typed(m), IsOverlap(m.dist), ElemCount(m) > 0,
         NEW d \in Device, NEW i \in 1 .. SizeOn(m, d)
  PROVE  LET p == Stands(m, d, i)
             c == 1 + ((i - 1) % m.cols)
         IN  /\ p \in Int /\ c \in 1 .. m.cols
             /\ p \in 1 .. ElemCount(m) => Wanted(m, d, i) = p
             /\ p < 1 => Wanted(m, d, i) =
                           (IF m.dist.padding = "NEUTRAL" THEN Neutral ELSE c)
             /\ p > ElemCount(m) => Wanted(m, d, i) =
                  (IF m.dist.padding = "NEUTRAL" THEN Neutral
                   ELSE (m.rows - 1) * m.cols + c)
<1> DEFINE cols == m.cols
           rows == m.rows
           v == 1 + ((i - 1) \div cols)
           c == 1 + ((i - 1) % cols)
           f == FirstRow(m, d)
           r == m.dist.radius
           w == f + v - r
           s == SizeOn(m, d)
<1>1. /\ m.dist.devices = Device /\ r \in Nat /\ Radius(m) = r /\ IsValid(m.dist)
      /\ m.dist.padding \in Padding
  BY Kinds DEF Typed, IsOverlap, Invalid, Single, Block, Copy, Radius, IsValid
<1>2. rows \in Nat /\ cols \in Nat \ {0} /\ rows > 0 /\ ElemCount(m) = rows * cols
      /\ ElemCount(m) \in Nat
  BY Counts
<1>3. f \in Nat BY <1>1, PartsOfRows DEF Typed
<1>4. s \in Nat BY <1>1, PartsOfCells
<1>5. Origin(m, d) = f * cols /\ Lead(m) = r * cols BY <1>1 DEF Origin, Lead
<1>6. Wanted(m, d, i) = PaddedRow(m, w, m.dist.padding)[c]
  <2>1. f + 1 + ((i - 1) \div cols) - r = w
    <3> DEFINE k == (i - 1) \div cols
    <3>1. k \in Nat
      <4>1. i - 1 \in Nat BY <1>4
      <4> QED BY <4>1, <1>2, Division
    <3> HIDE DEF k
    <3> QED BY <3>1, <1>1, <1>3 DEF k
  <2> QED BY <2>1 DEF Wanted
<1>7. i \in Nat \ {0}
  <2> HIDE DEF s
  <2>1. i \in 1 .. s BY DEF s
  <2> QED BY <2>1, <1>4
<1>8. v \in Nat \ {0} /\ c \in 1 .. cols /\ i = (v - 1) * cols + c
  <2> HIDE DEF cols
  <2> QED BY <1>2, <1>7, RowOf
<1>9. PaddedRow(m, w, m.dist.padding)[c] =
        IF w \in 1 .. rows THEN (w - 1) * cols + c
        ELSE IF m.dist.padding = "NEUTRAL" THEN Neutral
        ELSE ((IF w < 1 THEN 1 ELSE rows) - 1) * cols + c
  <2>1. \A x : RowLabels(m, x)[c] = (x - 1) * cols + c BY <1>8 DEF RowLabels
  <2>2. Filled(cols, Neutral)[c] = Neutral BY <1>8 DEF Filled
  <2> HIDE DEF w, c, rows, cols
  <2>3. cols = m.cols /\ rows = m.rows BY DEF cols, rows
  <2> QED BY <2>1, <2>2, <2>3 DEF PaddedRow
<1> DEFINE p == Stands(m, d, i)
<1> HIDE DEF v, c, f, r, s, cols, rows
<1>10. p = (w - 1) * cols + c /\ w \in Int
  <2>1. w - 1 = (f - r) + (v - 1) /\ w \in Int BY <1>1, <1>3, <1>8
  <2>2. ((f - r) + (v - 1)) * cols = (f - r) * cols + (v - 1) * cols
    BY <1>1, <1>2, <1>3, <1>8, Distributes
  <2>3. (f - r) * cols = f * cols - r * cols BY <1>1, <1>2, <1>3, Distributes
  <2>4. f * cols \in Int /\ r * cols \in Int /\ (v - 1) * cols \in Int
    BY <1>1, <1>2, <1>3, <1>8, Distributes
  <2>5. p = f * cols - r * cols + i BY <1>5 DEF Stands
  <2> HIDE DEF p, w
  <2> QED BY <2>1, <2>2, <2>3, <2>4, <2>5, <1>8
<1> HIDE DEF w, p
<1>11. p \in Int /\ (p >= 1 <=> w >= 1) /\ (p <= ElemCount(m) <=> w <= rows)
  BY <1>2, <1>8, <1>10, CellAt
<1>12. (1 - 1) * cols + c = c BY <1>2, <1>8
<1> DEFINE W == Wanted(m, d, i)
           n == ElemCount(m)
<1>13. W = IF w \in 1 .. rows THEN p
           ELSE IF m.dist.padding = "NEUTRAL" THEN Neutral
           ELSE ((IF w < 1 THEN 1 ELSE rows) - 1) * cols + c
  BY <1>6, <1>9, <1>10
<1> HIDE DEF W, n
<1>14. p \in 1 .. n => W = p
  BY <1>2, <1>10, <1>11, <1>13 DEF n
<1>15. p < 1 => W = (IF m.dist.padding = "NEUTRAL" THEN Neutral ELSE c)
  <2> HAVE p < 1
  <2>1. w < 1 /\ w \notin 1 .. rows BY <1>10, <1>11
  <2> QED BY <2>1, <1>12, <1>13
<1>16. p > n => W = (IF m.dist.padding = "NEUTRAL" THEN Neutral
                     ELSE (rows - 1) * cols + c)
  <2> HAVE p > n
  <2>1. ~ (p <= ElemCount(m)) BY <1>2, <1>11 DEF n
  <2>2. ~ (w < 1) /\ w \notin 1 .. rows BY <1>2, <1>10, <1>11, <2>1
  <2> QED BY <2>2, <1>13
<1> QED BY <1>8, <1>11, <1>14, <1>15, <1>16 DEF p, c, W, n, cols, rows

\* What is in a buffer before the piece of an upload is written.
LEMMA PaddedCells ==
  ASSUME NEW m, Typed(m), IsValid(m.dist), Buffered(m), NEW d \in m.dist.devices
  PROVE  /\ DOMAIN Padded(m, d) = 1 .. SizeOn(m, d)
         /\ \A i \in 1 .. SizeOn(m, d) :
              IsOverlap(m.dist) =>
                /\ d = 0 /\ i <= Lead(m) => Padded(m, d)[i] = PaddingCells(m, 1)[i]
                /\ d = LastDevice /\ i > SizeOn(m, d) - Lead(m) =>
                     Padded(m, d)[i] =
                       PaddingCells(m, m.rows)[i - (SizeOn(m, d) - Lead(m))]
<1> DEFINE s == SizeOn(m, d)
           h == Lead(m)
           b == m.buf[d]
           first == IsOverlap(m.dist) /\ d = 0
           last == IsOverlap(m.dist) /\ d = LastDevice
           upper == PaddingCells(m, 1)
           lower == PaddingCells(m, m.rows)
           top == IF first THEN Overwritten(b, 0, upper, 0, Halo(m)) ELSE b
<1>1. /\ h \in Nat /\ s \in Nat /\ Own(m, d) \in Nat /\ s = Own(m, d) + 2 * h
      /\ IsOverlap(m.dist) => Halo(m) = h
  BY PartsOfCells
<1>2. Len(b) = s /\ DOMAIN b = 1 .. s BY Lengths
<1>3. Padded(m, d) =
        IF last THEN Overwritten(top, Len(top) - Halo(m), lower, 0, Halo(m)) ELSE top
  BY DEF Padded
<1>4. IsOverlap(m.dist) => DOMAIN upper = 1 .. h /\ DOMAIN lower = 1 .. h
  BY <1>1 DEF PaddingCells
<1> HIDE DEF s, h, upper, lower
<1>5. ASSUME first
      PROVE  /\ DOMAIN top = 1 .. s /\ Len(top) = s
             /\ \A i \in 1 .. s : top[i] = IF i <= h THEN upper[i] ELSE b[i]
  <2>1. top = [i \in 1 .. s |->
                 IF i - 0 \in 1 .. h THEN CellOf(upper, 0 + i - 0) ELSE b[i]]
    BY <1>1, <1>2, <1>5 DEF Overwritten
  <2> HIDE DEF top
  <2>2. \A i \in 1 .. s : top[i] = IF i <= h THEN upper[i] ELSE b[i]
    <3> TAKE i \in 1 .. s
    <3>1. i - 0 = i /\ 0 + i - 0 = i BY <1>1
    <3>2. i \in 1 .. h <=> i <= h BY <1>1
    <3>3. i \in 1 .. h => CellOf(upper, i) = upper[i] BY <1>4, <1>5 DEF CellOf
    <3> QED BY <2>1, <3>1, <3>2, <3>3
  <2>3. DOMAIN top = 1 .. s BY <2>1
  <2>4. top \in [1 .. s -> {top[i] : i \in 1 .. s}]
    <3>1. top = [i \in 1 .. s |-> top[i]] BY <2>1
    <3> QED BY <3>1
  <2>5. Len(top) = s BY <2>4, <1>1, LengthOf
  <2> QED BY <2>2, <2>3, <2>5
<1>6. ASSUME ~ first PROVE top = b BY <1>6
<1>7. DOMAIN top = 1 .. s /\ Len(top) = s BY <1>2, <1>5, <1>6
<1> DEFINE P == Padded(m, d)
<1> HIDE DEF top, P
<1>8. ASSUME last
      PROVE  /\ DOMAIN P = 1 .. s
             /\ \A i \in 1 .. s : P[i] = IF i > s - h THEN lower[i - (s - h)] ELSE top[i]
  <2>1. P = [i \in 1 .. s |->
               IF i - (s - h) \in 1 .. h THEN CellOf(lower, 0 + i - (s - h)) ELSE top[i]]
    BY <1>1, <1>3, <1>7, <1>8 DEF Overwritten, P
  <2>2. \A i \in 1 .. s : P[i] = IF i > s - h THEN lower[i - (s - h)] ELSE top[i]
    <3> TAKE i \in 1 .. s
    <3>1. 0 + i - (s - h) = i - (s - h) BY <1>1
    <3>2. i - (s - h) \in 1 .. h <=> i > s - h BY <1>1
    <3>3. i - (s - h) \in 1 .. h => CellOf(lower, i - (s - h)) = lower[i - (s - h)]
      BY <1>4, <1>8 DEF CellOf
    <3> QED BY <2>1, <3>1, <3>2, <3>3
  <2> QED BY <2>1, <2>2
<1>9. ASSUME ~ last PROVE P = top BY <1>3, <1>9 DEF P
<1>10. DOMAIN P = 1 .. s BY <1>7, <1>8, <1>9
<1>11. ASSUME NEW i \in 1 .. s, IsOverlap(m.dist)
       PROVE  /\ d = 0 /\ i <= h => P[i] = upper[i]
              /\ d = LastDevice /\ i > s - h => P[i] = lower[i - (s - h)]
  <2>1. i <= h => ~ (i > s - h) BY <1>1
  <2>2. CASE last BY <1>5, <1>8, <1>11, <2>1, <2>2
  <2>3. CASE ~ last BY <1>5, <1>9, <1>11, <2>3
  <2> QED BY <2>2, <2>3
<1> QED BY <1>10, <1>11 DEF P, s, h, upper, lower

\* What the paddings are made of.
LEMMA PaddingOf ==
  ASSUME NEW m, Typed(m), IsOverlap(m.dist), m.hostUp, Held(m), ElemCount(m) > 0,
         NEW row \in 1 .. m.rows, NEW i \in 1 .. Lead(m)
  PROVE  PaddingCells(m, row)[i] =
           IF m.dist.padding = "NEUTRAL" THEN Neutral
           ELSE (row - 1) * m.cols + (1 + ((i - 1) % m.cols))
<1> DEFINE n == ElemCount(m)
           cols == m.cols
           c == 1 + ((i - 1) % cols)
           p == (row - 1) * cols + c
<1>1. n \in Nat /\ n = m.rows * cols /\ m.rows \in Nat /\ cols \in Nat \ {0} BY Counts
<1>2. IsValid(m.dist) BY DEF IsOverlap, IsValid
<1>3. Lead(m) \in Nat /\ Halo(m) = Lead(m) BY <1>2, PartsOfCells
<1>4. i \in Nat \ {0} BY <1>3
<1>5. c \in 1 .. cols
  <2> HIDE DEF cols
  <2> QED BY <1>1, <1>4, RowOf
<1> HIDE DEF c
<1>6. p \in 1 .. n BY <1>1, <1>5, CellAt
<1>7. CellOf(m.host, p) = p
  <2>1. m.host = Elements(n) BY DEF Held
  <2> HIDE DEF p, n
  <2> QED BY <2>1, <1>6 DEF Elements, CellOf
<1>8. (row - 1) * cols + 1 + ((i - 1) % cols) = p
  <2>1. (row - 1) * cols \in Int BY <1>1
  <2>2. (i - 1) % cols \in Int
    <3> HIDE DEF cols
    <3>1. i - 1 \in Nat BY <1>4
    <3>2. (i - 1) % cols \in 0 .. cols - 1 BY <1>1, <3>1, Division
    <3> QED BY <3>2, <1>1
  <2> QED BY <2>1, <2>2 DEF c
<1>9. PaddingCells(m, row)[i] =
        IF m.dist.padding = "NEUTRAL" THEN Neutral
        ELSE CellOf(m.host, (row - 1) * cols + 1 + ((i - 1) % cols))
  BY <1>3 DEF PaddingCells
<1> QED BY <1>7, <1>8, <1>9 DEF c

LEMMA SameColumn ==
  ASSUME NEW cols \in Nat \ {0}, NEW k \in Nat, NEW i \in Nat, i > k * cols
  PROVE  1 + ((i - k * cols - 1) % cols) = 1 + ((i - 1) % cols)
<1> DEFINE j == i - k * cols
<1>0. k * cols \in Nat BY Distributes
<1>1. i \in Nat \ {0} /\ j \in Nat \ {0} BY <1>0
<1> HIDE DEF j
<1>2. PICK v \in Nat \ {0} : \E c \in 1 .. cols : j = (v - 1) * cols + c
  BY <1>1, SomeCell, Zenon
<1>3. PICK c \in 1 .. cols : j = (v - 1) * cols + c BY <1>2
<1>4. i = (v + k - 1) * cols + c
  <2>1. (v - 1) + k = v + k - 1 BY <1>2
  <2>2. ((v - 1) + k) * cols = (v - 1) * cols + k * cols BY <1>2, Distributes
  <2>3. (v - 1) * cols \in Int BY <1>2
  <2>4. i = j + k * cols BY <1>0, <1>1 DEF j
  <2> QED BY <2>1, <2>2, <2>3, <2>4, <1>0, <1>3
<1>5. v + k \in Nat \ {0} BY <1>2
<1>6. 1 + ((i - 1) % cols) = c BY <1>3, <1>4, <1>5, ColumnOf
<1>7. 1 + ((j - 1) % cols) = c
  <2>1. 1 + (((v - 1) * cols + c - 1) % cols) = c BY <1>2, ColumnOf
  <2> DEFINE g == (v - 1) * cols + c
  <2>2. j = g BY <1>3
  <2>3. 1 + ((g - 1) % cols) = c BY <2>1
  <2> HIDE DEF g
  <2> QED BY <2>2, <2>3
<1> QED BY <1>6, <1>7 DEF j

\* What an upload puts into the buffers.
LEMMA UploadedCells ==
  ASSUME NEW m, Typed(m), Held(m), IsValid(m.dist), Buffered(m), Tall(m),
         m.hostUp, ElemCount(m) > 0, NEW d \in m.dist.devices,
         NEW i \in 1 .. SizeOn(m, d), NEW piece, piece = UploadPiece(m, d)
  PROVE  LET cell == Overwritten(Padded(m, d), piece.onDevice, m.host, piece.onHost,
                                 piece.size)[i]
             p == Stands(m, d, i)
         IN  /\ p \in 1 .. ElemCount(m) => cell = p
             /\ IsOverlap(m.dist) => cell = Wanted(m, d, i)
             /\ cell \in Label(ElemCount(m))
<1> DEFINE s == SizeOn(m, d)
           h == Lead(m)
           w == Own(m, d)
           o == Origin(m, d)
           n == ElemCount(m)
           P == Padded(m, d)
           at == piece.onDevice
           start == piece.onHost
           size == piece.size
           p == Stands(m, d, i)
           cell == Overwritten(P, at, m.host, start, size)[i]
           cols == m.cols
           c == 1 + ((i - 1) % cols)
           W == Wanted(m, d, i)
<1>1. /\ h \in Nat /\ s \in Nat /\ w \in Nat /\ o \in Nat /\ s = w + 2 * h
      /\ ~ IsOverlap(m.dist) => h = 0
      /\ o + w <= n
  BY PartsOfCells
<1>2. n \in Nat /\ n = m.rows * cols /\ m.rows \in Nat \ {0} /\ cols \in Nat \ {0}
  BY Counts
<1>3. /\ at \in Nat /\ start \in Nat /\ size \in Nat /\ start - at = o - h
      /\ at = (IF IsOverlap(m.dist) /\ d = 0 THEN h ELSE 0)
      /\ at + size = (IF IsOverlap(m.dist) /\ d = LastDevice THEN s - h ELSE s)
      /\ start + size <= n
  BY UploadPieces
<1>4. d \in Device BY PartsOfRows DEF Typed
<1>5. DOMAIN P = 1 .. s BY PaddedCells
<1>6. p = o - h + i BY DEF Stands
<1>7. cell = IF i - at \in 1 .. size THEN CellOf(m.host, start + i - at) ELSE P[i]
  <2> HIDE DEF P
  <2> QED BY <1>5 DEF Overwritten
<1>8. \A x \in 1 .. n : CellOf(m.host, x) = x
  <2>1. m.host = Elements(n) BY DEF Held
  <2> HIDE DEF n
  <2> QED BY <2>1 DEF Elements, CellOf
<1>9. IsOverlap(m.dist) =>
        /\ p \in Int /\ c \in 1 .. cols
        /\ p \in 1 .. n => W = p
        /\ p < 1 => W = (IF m.dist.padding = "NEUTRAL" THEN Neutral ELSE c)
        /\ p > n => W = (IF m.dist.padding = "NEUTRAL" THEN Neutral
                         ELSE (m.rows - 1) * cols + c)
  BY <1>4, WantedIs
<1>10. i \in 1 .. s /\ i \in Int
  <2> HIDE DEF s
  <2>1. i \in 1 .. s BY DEF s
  <2> QED BY <2>1, <1>1
<1>11. CASE i - at \in 1 .. size
  <2> HIDE DEF s, h, w, o, n, P, at, start, size, p, cell, W
  <2>1. start + i - at = p BY <1>1, <1>3, <1>6, <1>10
  <2>2. p \in 1 .. n BY <2>1, <1>2, <1>3, <1>10, <1>11
  <2>3. cell = p BY <2>1, <2>2, <1>7, <1>8, <1>11
  <2>4. cell \in Label(n) BY <2>2, <2>3 DEF Label
  <2>5. IsOverlap(m.dist) => cell = W BY <2>2, <2>3, <1>9
  <2> QED BY <2>3, <2>4, <2>5 DEF cell, p, n, W, P, at, start, size
<1>12. CASE i - at \notin 1 .. size
  <2>1. IsOverlap(m.dist) /\ (\/ d = 0 /\ i <= h
                              \/ d = LastDevice /\ i > s - h)
    <3> HIDE DEF s, h, w, o, n, P, at, start, size, p, cell, W
    <3> QED BY <1>1, <1>3, <1>10, <1>12
  <2>2. /\ d = 0 => o = 0
        /\ d = LastDevice => o + w = n
    BY <1>4, <2>1, OverlapParts
  <2>3. /\ d = 0 /\ i <= h => P[i] = PaddingCells(m, 1)[i]
        /\ d = LastDevice /\ i > s - h => P[i] = PaddingCells(m, m.rows)[i - (s - h)]
    BY <2>1, PaddedCells
  <2>4. cell = P[i] BY <1>7, <1>12
  <2>5. CASE d = 0 /\ i <= h
    <3>1. i \in 1 .. h BY <1>1, <1>10, <2>5
    <3>2. 1 \in 1 .. m.rows BY <1>2
    <3>3. PaddingCells(m, 1)[i] = IF m.dist.padding = "NEUTRAL" THEN Neutral
                                  ELSE (1 - 1) * cols + c
      BY <2>1, <3>1, <3>2, PaddingOf
    <3> HIDE DEF s, h, w, o, n, P, at, start, size, p, cell, W, c, cols
    <3>4. (1 - 1) * cols + c = c BY <1>2, <1>9, <2>1
    <3>5. p < 1 BY <1>1, <1>6, <1>10, <2>2, <2>5
    <3>6. cell = W BY <1>9, <2>1, <2>3, <2>4, <2>5, <3>3, <3>4, <3>5
    <3>7. 1 * cols <= m.rows * cols /\ 1 * cols = cols BY <1>2, Monotone
    <3>8. c \in 1 .. n BY <1>2, <1>9, <2>1, <3>7
    <3>9. cell \in Label(n)
      BY <2>3, <2>4, <2>5, <3>3, <3>4, <3>8 DEF Label
    <3>10. p \notin 1 .. n BY <1>2, <3>5
    <3> QED BY <2>1, <3>6, <3>9, <3>10 DEF cell, p, n, W, P, at, start, size
  <2>6. CASE d = LastDevice /\ i > s - h
    <3> DEFINE j == i - (s - h)
               k == OwnRows(m, d) + Radius(m)
    <3>1. j \in 1 .. h BY <1>1, <1>10, <2>6
    <3>2. m.rows \in 1 .. m.rows BY <1>2
    <3>3. PaddingCells(m, m.rows)[j] =
            IF m.dist.padding = "NEUTRAL" THEN Neutral
            ELSE (m.rows - 1) * cols + (1 + ((j - 1) % cols))
      BY <2>1, <3>1, <3>2, PaddingOf
    <3>4. k \in Nat /\ k * cols = s - h
      <4>1. OwnRows(m, d) \in Nat /\ Radius(m) \in Nat BY PartsOfRows DEF Typed
      <4>2. w = OwnRows(m, d) * cols /\ h = Radius(m) * cols BY DEF Own, Lead
      <4> HIDE DEF w, h, cols, s
      <4>3. k * cols = OwnRows(m, d) * cols + Radius(m) * cols
        BY <4>1, <1>2, Distributes
      <4>4. s - h = w + h BY <1>1
      <4> QED BY <4>1, <4>2, <4>3, <4>4
    <3> HIDE DEF k
    <3>5. 1 + ((i - k * cols - 1) % cols) = 1 + ((i - 1) % cols)
      <4> HIDE DEF cols, s, h
      <4>1. i \in Nat /\ i > k * cols BY <1>1, <1>10, <2>6, <3>4
      <4> QED BY <4>1, <1>2, <3>4, SameColumn
    <3>6. 1 + ((j - 1) % cols) = c
      <4>1. i - k * cols = j BY <3>4
      <4> QED BY <3>5, <4>1
    <3>a. c \in 1 .. cols BY <1>9, <2>1
    <3> HIDE DEF s, h, w, o, n, P, at, start, size, p, cell, W, c, cols
    <3>7. p > n BY <1>1, <1>2, <1>6, <1>10, <2>2, <2>6
    <3>8. cell = W
      BY <1>9, <2>1, <2>3, <2>4, <2>6, <3>3, <3>6, <3>7 DEF j
    <3>9. (m.rows - 1) * cols + c \in 1 .. n
      <4> DEFINE r == m.rows
                 x == (r - 1) * cols + c
      <4>1. r \in Int /\ r >= 1 BY <1>2
      <4>2. x \in Int /\ x >= 1 /\ x <= r * cols
        <5>1. cols \in Nat \ {0} BY <1>2
        <5> HIDE DEF r, c, cols
        <5>2. /\ x \in Int
              /\ x >= 1 <=> r >= 1
              /\ x <= r * cols <=> r <= r
          BY <3>a, <4>1, <5>1, CellAt
        <5>3. r <= r BY <4>1
        <5> QED BY <4>1, <5>2, <5>3
      <4>3. r * cols = n BY <1>2
      <4> HIDE DEF r, x
      <4>4. x \in 1 .. n BY <1>2, <4>2, <4>3
      <4> QED BY <4>4 DEF r, x
    <3>10. cell \in Label(n)
      BY <2>3, <2>4, <2>6, <3>3, <3>6, <3>9 DEF Label, j
    <3>11. p \notin 1 .. n BY <1>2, <3>7
    <3> QED BY <2>1, <3>8, <3>10, <3>11 DEF cell, p, n, W, P, at, start, size
  <2> QED BY <2>1, <2>5, <2>6
<1> QED BY <1>11, <1>12

\* All of these are about the size and the distribution alone.
SameShape(m, n) == n.rows = m.rows /\ n.cols = m.cols /\ n.dist = m.dist

LEMMA Shape ==
  ASSUME NEW m, NEW n, SameShape(m, n)
  PROVE  /\ ElemCount(n) = ElemCount(m) /\ Lead(n) = Lead(m) /\ Radius(n) = Radius(m)
         /\ Tall(n) <=> Tall(m)
         /\ \A d : /\ SizeOn(n, d) = SizeOn(m, d) /\ Own(n, d) = Own(m, d)
                   /\ Origin(n, d) = Origin(m, d)
                   /\ \A i : Wanted(n, d, i) = Wanted(m, d, i)
<1>1. ElemCount(n) = ElemCount(m) BY DEF SameShape, ElemCount
<1>2. Radius(n) = Radius(m) BY DEF SameShape, Radius
<1>3. Lead(n) = Lead(m) BY <1>2 DEF SameShape, Lead
<1>4. Tall(n) <=> Tall(m) BY DEF SameShape, Tall
<1>5. ASSUME NEW d
      PROVE  /\ SizeOn(n, d) = SizeOn(m, d) /\ Own(n, d) = Own(m, d)
             /\ Origin(n, d) = Origin(m, d)
             /\ \A i : Wanted(n, d, i) = Wanted(m, d, i)
  <2>1. RowsOn(n.dist, n.rows, d) = RowsOn(m.dist, m.rows, d) BY DEF SameShape
  <2>2. SizeOn(n, d) = SizeOn(m, d) BY <2>1 DEF SizeOn, SameShape
  <2>3. OwnRows(n, d) = OwnRows(m, d) BY <1>2, <2>1 DEF OwnRows
  <2>4. Own(n, d) = Own(m, d) BY <2>3 DEF Own, SameShape
  <2>5. FirstRow(n, d) = FirstRow(m, d) BY DEF FirstRow, SameShape
  <2>6. Origin(n, d) = Origin(m, d) BY <2>5 DEF Origin, SameShape
  <2>7. \A x : RowLabels(n, x) = RowLabels(m, x) BY DEF RowLabels, SameShape
  <2>8. \A x, y : PaddedRow(n, x, y) = PaddedRow(m, x, y)
    BY <2>7 DEF PaddedRow, SameShape
  <2>9. ASSUME NEW i PROVE Wanted(n, d, i) = Wanted(m, d, i)
    <3> DEFINE w == FirstRow(m, d) + 1 + ((i - 1) \div m.cols) - m.dist.radius
    <3>1. Wanted(m, d, i) = PaddedRow(m, w, m.dist.padding)[1 + ((i - 1) % m.cols)]
      BY DEF Wanted
    <3>2. Wanted(n, d, i) = PaddedRow(n, w, m.dist.padding)[1 + ((i - 1) % m.cols)]
      BY <2>5 DEF Wanted, SameShape
    <3> QED BY <2>8, <3>1, <3>2
  <2> QED BY <2>2, <2>4, <2>6, <2>9
<1> QED BY <1>1, <1>2, <1>3, <1>4, <1>5

\* Two matrices whose copies are the same, at the same place.
LEMMA SameTyped ==
  ASSUME NEW m, NEW n, Typed(m), DOMAIN n = Fields, SameShape(m, n),
         n.hostUp \in BOOLEAN, n.devUp \in BOOLEAN,
         n.host \in [1 .. ElemCount(m) -> Label(ElemCount(m))],
         DOMAIN n.buf = {} \/ DOMAIN n.buf = m.dist.devices,
         \A d \in DOMAIN n.buf : n.buf[d] \in [1 .. SizeOn(m, d) -> Label(ElemCount(m))]
  PROVE  Typed(n)
<1>1. n.rows \in 0 .. MaxSize /\ n.cols \in Nat /\ n.dist \in MatrixDistribution
  BY DEF Typed, SameShape
<1>2. n.host \in [1 .. ElemCount(n) -> Label(ElemCount(n))]
  <2>1. ElemCount(n) = ElemCount(m) BY Shape
  <2> QED BY <2>1
<1>3. DOMAIN n.buf = {} \/ Buffered(n) BY DEF Buffered, SameShape
<1>4. \A d \in DOMAIN n.buf : n.buf[d] \in [1 .. SizeOn(n, d) -> Label(ElemCount(n))]
  BY Shape
<1> QED BY <1>1, <1>2, <1>3, <1>4 DEF Typed

LEMMA UploadRight ==
  ASSUME NEW m, Placed(m), IsValid(m.dist), Buffered(m), m.hostUp, ~ m.devUp
  PROVE  LET n == StartUpload(m)
         IN  /\ Right(n) /\ SameShape(m, n) /\ n.host = m.host
             /\ n.hostUp /\ n.devUp /\ Buffered(n)
<1>1. Typed(m) /\ Held(m) BY DEF Placed
<1>2. m.dist.devices \subseteq Device /\ m.dist.devices # {}
  BY <1>1, PartsOfRows DEF Typed
<1>3. ElemCount(m) > 0 /\ Tall(m) BY <1>2 DEF Placed, Roomy, Buffered
<1> DEFINE cells(d) == Overwritten(Padded(m, d), UploadPiece(m, d).onDevice, m.host,
                                   UploadPiece(m, d).onHost, UploadPiece(m, d).size)
           buf == [d \in DOMAIN m.buf |-> cells(d)]
           n   == [m EXCEPT !.devUp = TRUE, !.buf = buf]
<1>4. StartUpload(m) = n BY DEF StartUpload
<1>5. ASSUME NEW d \in m.dist.devices
      PROVE  /\ DOMAIN cells(d) = 1 .. SizeOn(m, d)
             /\ \A i \in 1 .. SizeOn(m, d) :
                  /\ Stands(m, d, i) \in 1 .. ElemCount(m) => cells(d)[i] = Stands(m, d, i)
                  /\ IsOverlap(m.dist) => cells(d)[i] = Wanted(m, d, i)
                  /\ cells(d)[i] \in Label(ElemCount(m))
  <2>1. DOMAIN Padded(m, d) = 1 .. SizeOn(m, d) BY <1>1, PaddedCells
  <2>2. DOMAIN cells(d) = 1 .. SizeOn(m, d) BY <2>1 DEF Overwritten
  <2>3. \A i \in 1 .. SizeOn(m, d) :
                  /\ Stands(m, d, i) \in 1 .. ElemCount(m) => cells(d)[i] = Stands(m, d, i)
                  /\ IsOverlap(m.dist) => cells(d)[i] = Wanted(m, d, i)
                  /\ cells(d)[i] \in Label(ElemCount(m))
    BY <1>1, <1>3, UploadedCells
  <2> QED BY <2>2, <2>3
<1>6. ASSUME NEW d \in m.dist.devices
      PROVE  cells(d) \in [1 .. SizeOn(m, d) -> Label(ElemCount(m))]
  <2>1. cells(d) = [i \in DOMAIN cells(d) |-> cells(d)[i]] BY DEF Overwritten
  <2> HIDE DEF cells
  <2> QED BY <1>5, <2>1
<1> HIDE DEF cells
<1>7. /\ DOMAIN n = Fields /\ SameShape(m, n) /\ n.host = m.host
      /\ n.hostUp /\ n.devUp /\ n.hostUp \in BOOLEAN /\ n.devUp \in BOOLEAN
      /\ n.buf = buf
  BY <1>1 DEF Typed, Fields, SameShape
<1>8. DOMAIN buf = m.dist.devices /\ \A d \in m.dist.devices : buf[d] = cells(d)
  BY DEF Buffered
<1> HIDE DEF n, buf
<1>9. Buffered(n) BY <1>7, <1>8 DEF Buffered, SameShape
<1>10. Typed(n)
  <2>1. \A d \in DOMAIN n.buf : n.buf[d] \in [1 .. SizeOn(m, d) -> Label(ElemCount(m))]
    BY <1>6, <1>7, <1>8
  <2>2. n.host \in [1 .. ElemCount(m) -> Label(ElemCount(m))] BY <1>1, <1>7 DEF Typed
  <2> QED BY <1>1, <1>7, <1>8, <2>1, <2>2, SameTyped
<1>11. OwnRight(n)
  <2> SUFFICES ASSUME NEW d \in m.dist.devices, NEW i \in 1 .. Own(m, d)
               PROVE  buf[d][Lead(m) + i] = Origin(m, d) + i
    BY <1>7, Shape DEF OwnRight, SameShape
  <2> DEFINE s == SizeOn(m, d)
             h == Lead(m)
             w == Own(m, d)
             o == Origin(m, d)
             e == ElemCount(m)
             p == Stands(m, d, h + i)
  <2>1. /\ h \in Nat /\ s \in Nat /\ w \in Nat /\ o \in Nat /\ s = w + 2 * h
        /\ o + w <= e
    BY <1>1, PartsOfCells
  <2>2. e \in Nat BY <1>1, Counts
  <2>3. p = o - h + (h + i) BY DEF Stands
  <2>4. i \in 1 .. w OBVIOUS
  <2>a. \A x \in 1 .. s : Stands(m, d, x) \in 1 .. e => cells(d)[x] = Stands(m, d, x)
    BY <1>5
  <2> HIDE DEF s, h, w, o, e, p
  <2>5. h + i \in 1 .. s /\ p = o + i /\ p \in 1 .. e BY <2>1, <2>2, <2>3, <2>4
  <2>6. cells(d)[h + i] = p BY <2>5, <2>a DEF p
  <2> QED BY <1>8, <2>5, <2>6 DEF h, o
<1>12. Held(n)
  <2>1. ElemCount(n) = ElemCount(m) BY <1>7, Shape
  <2>2. n.host = Elements(ElemCount(n)) BY <1>1, <1>7, <2>1 DEF Held
  <2> QED BY <1>7, <1>9, <1>11, <2>2 DEF Held, SameShape
<1>13. Bordered(n)
  <2> SUFFICES ASSUME IsOverlap(n.dist), NEW d \in Device, NEW i \in 1 .. SizeOn(n, d)
               PROVE  n.buf[d][i] = Wanted(n, d, i)
    BY DEF Bordered
  <2>1. IsOverlap(m.dist) BY <1>7 DEF SameShape
  <2>2. m.dist.devices = Device
    BY <1>1, <2>1, Kinds DEF Typed, IsOverlap, Invalid, Single, Block, Copy
  <2>3. i \in 1 .. SizeOn(m, d) /\ Wanted(n, d, i) = Wanted(m, d, i) BY <1>7, Shape
  <2> QED BY <1>5, <1>7, <1>8, <2>1, <2>2, <2>3
<1>14. Roomy(n) BY <1>3, <1>7, Shape DEF Roomy
<1> QED BY <1>4, <1>7, <1>9, <1>10, <1>12, <1>13, <1>14 DEF Right, Placed

-----------------------------------------------------------------------------
(***************************************************************************)
(* Members.                                                                *)
(***************************************************************************)
LEMMA ElementsTyped ==
  ASSUME NEW n \in Nat
  PROVE  Elements(n) \in [1 .. n -> Label(n)]
BY DEF Elements, Label

\* A matrix that has its data on the host and no buffers.
LEMMA HostRight ==
  ASSUME NEW n, DOMAIN n = Fields, n.rows \in 0 .. MaxSize, n.cols \in Nat,
         n.dist \in MatrixDistribution, n.hostUp = TRUE, n.devUp \in BOOLEAN,
         n.devUp => ElemCount(n) = 0, DOMAIN n.buf = {},
         n.host = Elements(ElemCount(n))
  PROVE  Right(n)
<1>1. n.rows \in Nat /\ ElemCount(n) \in Nat
  <2>1. n.rows \in Nat BY MaxSizeAssumption
  <2> QED BY <2>1, Distributes DEF ElemCount
<1>2. n.host \in [1 .. ElemCount(n) -> Label(ElemCount(n))] BY <1>1, ElementsTyped
<1>3. Typed(n) BY <1>2 DEF Typed
<1>4. Roomy(n) BY DEF Roomy
<1>5. Held(n) BY <1>1 DEF Held
<1>6. Bordered(n) BY <1>1 DEF Bordered
<1> QED BY <1>3, <1>4, <1>5, <1>6 DEF Right, Placed

LEMMA FetchedRight ==
  ASSUME NEW m, Right(m), Usable(m)
  PROVE  LET n == CopyDataToHost(m)
         IN  /\ Right(n) /\ SameShape(m, n) /\ n.buf = m.buf
             /\ n.hostUp /\ n.host = Elements(ElemCount(m))
<1>0. Placed(m) /\ Typed(m) /\ Held(m) BY DEF Right, Placed
<1>1. CASE MustDownload(m)
  <2> DEFINE n == StartDownload(m)
             up == m.dist.kind \notin {"copy", "overlap"}
  <2>1. CopyDataToHost(m) = n BY <1>1 DEF CopyDataToHost
  <2>2. /\ DOMAIN n = Fields /\ SameShape(m, n) /\ n.buf = m.buf
        /\ n.hostUp = TRUE /\ n.devUp = up /\ n.host = ReadFrom(m)
    BY <1>0 DEF StartDownload, Typed, Fields, SameShape
  <2>3. n.host = Elements(ElemCount(m)) BY <1>0, <1>1, <2>2, DownloadRight
  <2> HIDE DEF n
  <2>4. ElemCount(m) \in Nat BY <1>0, Counts
  <2>5. n.host \in [1 .. ElemCount(m) -> Label(ElemCount(m))] BY <2>3, <2>4, ElementsTyped
  <2>6. Typed(n)
    <3>1. DOMAIN n.buf = {} \/ DOMAIN n.buf = m.dist.devices
      BY <1>0, <2>2 DEF Typed, Buffered
    <3>2. \A d \in DOMAIN n.buf : n.buf[d] \in [1 .. SizeOn(m, d) -> Label(ElemCount(m))]
      BY <1>0, <2>2 DEF Typed
    <3>3. n.hostUp \in BOOLEAN /\ n.devUp \in BOOLEAN BY <2>2
    <3> QED BY <1>0, <2>2, <2>5, <3>1, <3>2, <3>3, SameTyped
  <2>7. Roomy(n) BY <1>0, <2>2, Shape DEF Roomy, Placed
  <2>8. Held(n)
    <3>1. ElemCount(n) = ElemCount(m) BY <2>2, Shape
    <3>2. m.devUp BY <1>1 DEF MustDownload
    <3>3. ElemCount(m) > 0 => IsValid(n.dist) /\ Buffered(n) /\ OwnRight(n)
      <4> HAVE ElemCount(m) > 0
      <4>1. IsValid(m.dist) /\ Buffered(m) /\ OwnRight(m) BY <1>0, <3>2 DEF Held
      <4>2. OwnRight(n)
        BY <2>2, <4>1, Shape DEF OwnRight, SameShape
      <4> QED BY <2>2, <4>1, <4>2 DEF SameShape, Buffered
    <3> QED BY <2>2, <2>3, <3>1, <3>3 DEF Held
  <2>9. Bordered(n)
    <3>1. IsOverlap(n.dist) => ~ n.devUp BY <2>2 DEF IsOverlap, SameShape
    <3> QED BY <3>1 DEF Bordered
  <2> QED BY <2>1, <2>2, <2>3, <2>6, <2>7, <2>8, <2>9 DEF Right, Placed
<1>2. CASE ~ MustDownload(m)
  <2>1. CopyDataToHost(m) = m BY <1>2 DEF CopyDataToHost
  <2>2. m.hostUp BY <1>2 DEF MustDownload, Usable
  <2>3. m.host = Elements(ElemCount(m)) BY <1>0, <2>2 DEF Held
  <2> QED BY <2>1, <2>2, <2>3 DEF SameShape
<1> QED BY <1>1, <1>2

LEMMA DroppedRight ==
  ASSUME NEW m, Right(m), m.hostUp
  PROVE  LET n == DropBuffers(m)
         IN  /\ Right(n) /\ SameShape(m, n) /\ n.hostUp = TRUE /\ n.devUp = FALSE
             /\ DOMAIN n.buf = {} /\ n.host = Elements(ElemCount(m))
<1> DEFINE n == DropBuffers(m)
<1>1. Typed(m) /\ Held(m) BY DEF Right, Placed
<1>2. /\ DOMAIN n = Fields /\ SameShape(m, n) /\ n.buf = << >> /\ n.host = m.host
      /\ n.hostUp = m.hostUp /\ n.devUp = FALSE
  BY <1>1 DEF DropBuffers, NoBuffers, Typed, Fields, SameShape
<1>3. m.host = Elements(ElemCount(m)) /\ m.hostUp = TRUE BY <1>1 DEF Held, Typed
<1> HIDE DEF n
<1>4. DOMAIN n.buf = {} BY <1>2
<1>5. ElemCount(n) = ElemCount(m) BY <1>2, Shape
<1>6. n.rows \in 0 .. MaxSize /\ n.cols \in Nat /\ n.dist \in MatrixDistribution
  BY <1>1, <1>2 DEF Typed, SameShape
<1>7. Right(n) BY <1>2, <1>3, <1>4, <1>5, <1>6, HostRight
<1> QED BY <1>2, <1>3, <1>4, <1>7 DEF n

\* What the members that change the size do last.
LEMMA ReplacedRight ==
  ASSUME NEW m, Right(m), m.hostUp, NEW rows \in 0 .. MaxSize, NEW cols \in Nat,
         NEW host, host = Elements(rows * cols), NEW n,
         n = [DropBuffers(m) EXCEPT !.host = host, !.rows = rows, !.cols = cols]
  PROVE  /\ Right(n) /\ n.rows = rows /\ n.cols = cols /\ n.dist = m.dist
         /\ n.hostUp = TRUE /\ DOMAIN n.buf = {}
<1> DEFINE e == DropBuffers(m)
<1>1. /\ Right(e) /\ SameShape(m, e) /\ e.hostUp = TRUE /\ e.devUp = FALSE
      /\ DOMAIN e.buf = {}
  BY DroppedRight
<1>2. DOMAIN e = Fields /\ e.dist \in MatrixDistribution
  BY <1>1 DEF Right, Placed, Typed
<1> HIDE DEF e
<1>3. /\ DOMAIN n = Fields /\ n.dist = e.dist /\ n.buf = e.buf /\ n.host = host
      /\ n.hostUp = TRUE /\ n.devUp = FALSE /\ n.rows = rows /\ n.cols = cols
  BY <1>1, <1>2 DEF Fields, e
<1>4. n.host = Elements(ElemCount(n)) BY <1>3 DEF ElemCount
<1>5. Right(n) BY <1>1, <1>2, <1>3, <1>4, HostRight
<1> QED BY <1>1, <1>3, <1>5 DEF e, SameShape

\* Right, of a size, on the host alone.
Emptied(n, rows, cols, dist) ==
  /\ Right(n) /\ n.rows = rows /\ n.cols = cols /\ n.dist = dist
  /\ n.hostUp = TRUE /\ DOMAIN n.buf = {}

LEMMA ResizeRight ==
  ASSUME NEW m, Right(m), Usable(m), NEW rows \in 0 .. MaxSize, NEW cols \in Nat
  PROVE  Emptied(Resize(m, rows, cols), rows, cols, m.dist)
<1> DEFINE f == CopyDataToHost(m)
           host == Lengthened(DropBuffers(f).host, Elements(rows * cols))
           n == [DropBuffers(f) EXCEPT !.host = host, !.rows = rows, !.cols = cols]
<1>1. Right(f) /\ SameShape(m, f) /\ f.hostUp BY FetchedRight
<1>2. Resize(m, rows, cols) = n BY DEF Resize, Resized
<1>3. host = Elements(rows * cols)
  <2>1. DropBuffers(f).host = Elements(ElemCount(f)) BY <1>1, DroppedRight
  <2> DEFINE k == ElemCount(f)
             old == Elements(k)
             c == rows * cols
  <2>2. k \in Nat BY <1>1, Counts DEF Right, Placed
  <2>3. c \in Nat
    <3>1. rows \in Nat BY MaxSizeAssumption
    <3> QED BY <3>1, Distributes
  <2> HIDE DEF c, k
  <2>4. old \in [1 .. k -> Label(k)] BY <2>2, ElementsTyped
  <2> HIDE DEF old
  <2>5. Len(old) = k BY <2>2, <2>4, LengthOf
  <2>6. \A i \in 1 .. c : (IF i <= Len(old) THEN old[i] ELSE Elements(c)[i]) = i
    <3> TAKE i \in 1 .. c
    <3>1. i <= k => old[i] = i BY <2>2, <2>3 DEF old, Elements
    <3>2. Elements(c)[i] = i BY DEF Elements
    <3> QED BY <2>5, <3>1, <3>2
  <2>7. Lengthened(old, Elements(c)) = [i \in 1 .. c |-> i]
    <3>1. DOMAIN Elements(c) = 1 .. c BY DEF Elements
    <3> QED BY <2>6, <3>1 DEF Lengthened
  <2>8. host = Lengthened(old, Elements(c)) BY <2>1 DEF old, k, c
  <2> HIDE DEF host, f
  <2> QED BY <2>7, <2>8 DEF Elements, c
<1> HIDE DEF host, f
<1>4. /\ Right(n) /\ n.rows = rows /\ n.cols = cols /\ n.dist = f.dist
      /\ n.hostUp = TRUE /\ DOMAIN n.buf = {}
  BY <1>1, <1>3, ReplacedRight
<1> QED BY <1>1, <1>2, <1>4 DEF SameShape, Emptied

LEMMA AssignRight ==
  ASSUME NEW m, Right(m), Usable(m), NEW rows \in 0 .. MaxSize, NEW cols \in Nat
  PROVE  Right(Assign(m, rows, cols))
<1> DEFINE f == CopyDataToHost(m)
           host == Elements(rows * cols)
           n == [DropBuffers(f) EXCEPT !.host = host, !.rows = rows, !.cols = cols]
<1>1. Right(f) /\ f.hostUp BY FetchedRight
<1>2. Assign(m, rows, cols) = n BY DEF Assign
<1> HIDE DEF f
<1>3. Right(n) BY <1>1, ReplacedRight
<1> QED BY <1>2, <1>3

-----------------------------------------------------------------------------
(***************************************************************************)
(* Members that move elements.                                             *)
(***************************************************************************)
LEMMA PopRight ==
  ASSUME NEW m, Right(m), Usable(m), m.rows > 0
  PROVE  Right(PopBackRow(m))
<1> DEFINE f == CopyDataToHost(m)
<1>1. Right(f) /\ f.hostUp BY FetchedRight
<1>2. Usable(f) BY <1>1 DEF Usable
<1>3. m.rows - 1 \in 0 .. MaxSize /\ m.cols \in Nat
  BY MaxSizeAssumption DEF Right, Placed, Typed
<1> HIDE DEF f
<1>4. Right(Resize(f, m.rows - 1, m.cols)) BY <1>1, <1>2, <1>3, ResizeRight DEF Emptied
<1> QED BY <1>4 DEF PopBackRow, f

\* Parts of a sequence of numbers.
LEMMA PartOf ==
  ASSUME NEW n \in Nat, NEW s \in [1 .. n -> Int],
         NEW a \in Nat, NEW b \in Nat, a <= b, b <= n
  PROVE  /\ SubSeq(s, a + 1, b) \in Seq(Int)
         /\ Len(SubSeq(s, a + 1, b)) = b - a
         /\ \A i \in 1 .. b - a : SubSeq(s, a + 1, b)[i] = s[a + i]
<1>1. s \in Seq(Int) /\ Len(s) = n BY LengthOf
<1>2. a + 1 \in 1 .. n + 1 /\ b \in 0 .. n OBVIOUS
<1>3. SubSeq(s, a + 1, b) \in Seq(Int) BY <1>1, <1>2
<1>4. Len(SubSeq(s, a + 1, b)) = b - a BY <1>1, <1>2
<1>5. ASSUME NEW i \in 1 .. b - a PROVE SubSeq(s, a + 1, b)[i] = s[a + i]
  BY <1>1, <1>2
<1> QED BY <1>3, <1>4, <1>5

LEMMA Joining ==
  ASSUME NEW s \in Seq(Int), NEW t \in Seq(Int)
  PROVE  /\ s \o t \in Seq(Int) /\ Len(s \o t) = Len(s) + Len(t)
         /\ \A i \in 1 .. Len(s) : (s \o t)[i] = s[i]
         /\ \A i \in 1 .. Len(t) : (s \o t)[Len(s) + i] = t[i]
OBVIOUS

LEMMA AsElements ==
  ASSUME NEW s \in Seq(Int), NEW n \in Nat, Len(s) = n, \A i \in 1 .. n : s[i] = i
  PROVE  s = Elements(n)
<1>1. s \in [1 .. n -> Int]
  <2>1. DOMAIN s = 1 .. n /\ s = [i \in DOMAIN s |-> s[i]] OBVIOUS
  <2> QED BY <2>1
<1>2. Elements(n) \in [1 .. n -> Int] BY DEF Elements
<1>3. \A i \in 1 .. n : Elements(n)[i] = s[i] BY DEF Elements
<1> QED BY <1>1, <1>2, <1>3

LEMMA Inserted ==
  ASSUME NEW n \in Nat, NEW at \in 0 .. n, NEW c \in Nat, NEW s \in [1 .. n -> Int],
         \A i \in 1 .. n : s[i] = IF i > at THEN i + c ELSE i
  PROVE  SubSeq(s, 1, at) \o [k \in 1 .. c |-> at + k] \o SubSeq(s, at + 1, Len(s))
           = Elements(n + c)
<1> DEFINE A == SubSeq(s, 1, at)
           B == [k \in 1 .. c |-> at + k]
           C == SubSeq(s, at + 1, Len(s))
<1>1. Len(s) = n BY LengthOf
<1>2. A \in Seq(Int) /\ Len(A) = at /\ \A i \in 1 .. at : A[i] = i
  <2>1. SubSeq(s, 0 + 1, at) \in Seq(Int) /\ Len(SubSeq(s, 0 + 1, at)) = at - 0
        /\ \A i \in 1 .. at - 0 : SubSeq(s, 0 + 1, at)[i] = s[0 + i]
    <3>1. 0 \in Nat /\ at \in Nat /\ 0 <= at /\ at <= n OBVIOUS
    <3> QED BY <3>1, PartOf
  <2>2. 0 + 1 = 1 /\ at - 0 = at OBVIOUS
  <2>3. \A i \in 1 .. at : A[i] = s[i] BY <2>1, <2>2
  <2> QED BY <2>1, <2>2, <2>3
<1>3. C \in Seq(Int) /\ Len(C) = n - at /\ \A i \in 1 .. n - at : C[i] = at + i + c
  <2>1. at \in Nat /\ at <= n OBVIOUS
  <2>2. C \in Seq(Int) /\ Len(C) = n - at /\ \A i \in 1 .. n - at : C[i] = s[at + i]
    BY <1>1, <2>1, PartOf
  <2> QED BY <2>2
<1>4. B \in Seq(Int) /\ Len(B) = c /\ \A i \in 1 .. c : B[i] = at + i
  <2>1. B \in [1 .. c -> Int] OBVIOUS
  <2> HIDE DEF B
  <2>2. B \in Seq(Int) /\ Len(B) = c BY <2>1, LengthOf
  <2> QED BY <2>2 DEF B
<1> HIDE DEF A, B, C
<1>5. PICK p : p = A \o B OBVIOUS
<1>6. /\ p \in Seq(Int) /\ Len(p) = at + c
      /\ \A i \in 1 .. at : p[i] = A[i]
      /\ \A i \in 1 .. c : p[at + i] = B[i]
  <2>1. /\ A \o B \in Seq(Int) /\ Len(A \o B) = Len(A) + Len(B)
        /\ \A i \in 1 .. Len(A) : (A \o B)[i] = A[i]
        /\ \A i \in 1 .. Len(B) : (A \o B)[Len(A) + i] = B[i]
    BY <1>2, <1>4, Joining, Zenon
  <2> QED BY <1>2, <1>4, <1>5, <2>1
<1>7. PICK q : q = p \o C OBVIOUS
<1>8. /\ q \in Seq(Int) /\ Len(q) = at + c + (n - at)
      /\ \A i \in 1 .. at + c : q[i] = p[i]
      /\ \A i \in 1 .. n - at : q[at + c + i] = C[i]
  <2>1. /\ p \o C \in Seq(Int) /\ Len(p \o C) = Len(p) + Len(C)
        /\ \A i \in 1 .. Len(p) : (p \o C)[i] = p[i]
        /\ \A i \in 1 .. Len(C) : (p \o C)[Len(p) + i] = C[i]
    BY <1>3, <1>6, Joining, Zenon
  <2> QED BY <1>3, <1>6, <1>7, <2>1
<1>9. ASSUME NEW i \in 1 .. n + c PROVE q[i] = i
  <2>1. CASE i <= at
    <3>1. i \in 1 .. at /\ i \in 1 .. at + c BY <2>1
    <3> QED BY <3>1, <1>2, <1>6, <1>8
  <2>2. CASE i > at /\ i <= at + c
    <3>1. i - at \in 1 .. c /\ at + (i - at) = i /\ i \in 1 .. at + c BY <2>2
    <3>2. p[i] = i BY <3>1, <1>4, <1>6
    <3> QED BY <3>1, <3>2, <1>8
  <2>3. CASE i > at + c
    <3>1. i - (at + c) \in 1 .. n - at /\ at + c + (i - (at + c)) = i BY <2>3
    <3>2. C[i - (at + c)] = at + (i - (at + c)) + c BY <3>1, <1>3
    <3>3. q[i] = C[i - (at + c)] BY <3>1, <1>8
    <3> QED BY <3>1, <3>2, <3>3
  <2>4. i \in Int /\ at \in Int /\ c \in Int OBVIOUS
  <2> QED BY <2>1, <2>2, <2>3, <2>4
<1>10. q = Elements(n + c)
  <2>1. Len(q) = n + c /\ n + c \in Nat BY <1>8
  <2> QED BY <1>8, <1>9, <2>1, AsElements
<1>11. q = (A \o B) \o C BY <1>5, <1>7
<1> QED BY <1>10, <1>11 DEF A, B, C

\* The elements but for those after a and up to b.
Without(n, a, b) == SubSeq(Elements(n), 1, a) \o SubSeq(Elements(n), b + 1, n)

LEMMA Removed ==
  ASSUME NEW n \in Nat, NEW a \in Nat, NEW b \in Nat, a <= b, b <= n
  PROVE  /\ DOMAIN Without(n, a, b) = 1 .. n - (b - a)
         /\ \A i \in 1 .. n - (b - a) :
              Without(n, a, b)[i] = IF i <= a THEN i ELSE i + (b - a)
<1> DEFINE E == Elements(n)
           A == SubSeq(E, 1, a)
           C == SubSeq(E, b + 1, n)
<1>1. E \in [1 .. n -> Int] /\ \A i \in 1 .. n : E[i] = i BY DEF Elements
<1> HIDE DEF E
<1>2. A \in Seq(Int) /\ Len(A) = a /\ \A i \in 1 .. a : A[i] = i
  <2>1. SubSeq(E, 0 + 1, a) \in Seq(Int) /\ Len(SubSeq(E, 0 + 1, a)) = a - 0
        /\ \A i \in 1 .. a - 0 : SubSeq(E, 0 + 1, a)[i] = E[0 + i]
    <3>1. 0 \in Nat /\ 0 <= a /\ a <= n OBVIOUS
    <3> QED BY <1>1, <3>1, PartOf
  <2>2. 0 + 1 = 1 /\ a - 0 = a OBVIOUS
  <2>3. \A i \in 1 .. a : A[i] = E[i] BY <2>1, <2>2
  <2> QED BY <2>1, <2>2, <2>3, <1>1
<1>3. C \in Seq(Int) /\ Len(C) = n - b /\ \A i \in 1 .. n - b : C[i] = b + i
  <2>2. C \in Seq(Int) /\ Len(C) = n - b /\ \A i \in 1 .. n - b : C[i] = E[b + i]
    BY <1>1, PartOf
  <2> QED BY <1>1, <2>2
<1> HIDE DEF A, C
<1>4. PICK s : s = A \o C OBVIOUS
<1>a. /\ s \in Seq(Int) /\ Len(s) = a + (n - b)
      /\ \A i \in 1 .. a : s[i] = A[i]
      /\ \A i \in 1 .. n - b : s[a + i] = C[i]
  <2>1. /\ A \o C \in Seq(Int) /\ Len(A \o C) = Len(A) + Len(C)
        /\ \A i \in 1 .. Len(A) : (A \o C)[i] = A[i]
        /\ \A i \in 1 .. Len(C) : (A \o C)[Len(A) + i] = C[i]
    BY <1>2, <1>3, Joining, Zenon
  <2> QED BY <1>2, <1>3, <1>4, <2>1
<1>5. DOMAIN s = 1 .. n - (b - a)
  <2>1. DOMAIN s = 1 .. Len(s) BY <1>a
  <2>2. a + (n - b) = n - (b - a) OBVIOUS
  <2> QED BY <1>a, <2>1, <2>2
<1>6. ASSUME NEW i \in 1 .. n - (b - a) PROVE s[i] = IF i <= a THEN i ELSE i + (b - a)
  <2>1. CASE i <= a
    <3>1. i \in 1 .. a BY <2>1
    <3> QED BY <3>1, <2>1, <1>2, <1>a
  <2>2. CASE i > a
    <3>1. i - a \in 1 .. n - b /\ a + (i - a) = i BY <2>2
    <3>2. s[i] = b + (i - a) BY <1>3, <1>a, <3>1
    <3> QED BY <3>2, <2>2
  <2> QED BY <2>1, <2>2
<1>7. s = Without(n, a, b) BY <1>4 DEF Without, A, C, E
<1> QED BY <1>5, <1>6, <1>7

\* The copies of renumbered elements.
LEMMA RenumberedFields ==
  ASSUME NEW m, DOMAIN m = Fields, NEW to
  PROVE  LET n == Renumbered(m, to)
         IN  /\ DOMAIN n = Fields /\ SameShape(m, n)
             /\ n.hostUp = m.hostUp /\ n.devUp = m.devUp
             /\ n.host = [i \in DOMAIN m.host |->
                            IF m.host[i] > 0 THEN to[m.host[i]] ELSE m.host[i]]
             /\ DOMAIN n.buf = DOMAIN m.buf
             /\ \A d \in DOMAIN m.buf :
                  n.buf[d] = [i \in DOMAIN m.buf[d] |->
                    IF m.buf[d][i] > 0 THEN to[m.buf[d][i]] ELSE m.buf[d][i]]
<1> DEFINE renumber(cells) ==
      [i \in DOMAIN cells |-> IF cells[i] > 0 THEN to[cells[i]] ELSE cells[i]]
           n == Renumbered(m, to)
           buf == [d \in DOMAIN m.buf |-> renumber(m.buf[d])]
<1>1. n = [m EXCEPT !.host = renumber(m.host), !.buf = buf] BY DEF Renumbered
<1> HIDE DEF renumber, n, buf
<1>2. /\ DOMAIN n = Fields /\ SameShape(m, n)
      /\ n.hostUp = m.hostUp /\ n.devUp = m.devUp
      /\ n.host = renumber(m.host) /\ n.buf = buf
  BY <1>1 DEF SameShape, Fields
<1>3. DOMAIN buf = DOMAIN m.buf /\ \A d \in DOMAIN m.buf : buf[d] = renumber(m.buf[d])
  BY DEF buf
<1>4. \A cells : renumber(cells) =
        [i \in DOMAIN cells |-> IF cells[i] > 0 THEN to[cells[i]] ELSE cells[i]]
  BY DEF renumber
<1> QED BY <1>2, <1>3, <1>4 DEF n

LEMMA InsertRight ==
  ASSUME NEW m, Right(m), Usable(m), m.rows < MaxSize, NEW r \in 1 .. MaxSize,
         r <= m.rows + 1
  PROVE  Right(InsertRow(m, r))
<1> DEFINE f  == CopyDataToHost(m)
           at == RowBegin(f, r)
           to == [e \in Nat |-> IF e > at THEN e + m.cols ELSE e]
           x  == Renumbered(f, to)
           d  == DropBuffers(x)
           n  == ElemCount(m)
           c  == m.cols
           host == SubSeq(d.host, 1, at) \o [k \in 1 .. m.cols |-> at + k]
                     \o SubSeq(d.host, at + 1, Len(d.host))
           g  == [d EXCEPT !.host = host, !.rows = d.rows + 1]
<1>1. Right(f) /\ SameShape(m, f) /\ f.hostUp /\ f.host = Elements(n) BY FetchedRight
<1>2. InsertRow(m, r) = g BY DEF InsertRow
<1>3. Typed(m) /\ DOMAIN f = Fields BY <1>1 DEF Right, Placed, Typed
<1>4. n \in Nat /\ c \in Nat /\ n = m.rows * c /\ m.rows \in Nat BY <1>3, Counts
<1>5. at \in 0 .. n
  <2>1. Len(f.host) = n BY <1>1, <1>4, ElementsTyped, LengthOf
  <2>2. f.cols = c /\ ElemCount(f) = n BY <1>1, Shape DEF SameShape
  <2>3. (r - 1) * c \in Nat
    <3>1. r - 1 \in Nat BY MaxSizeAssumption
    <3> QED BY <3>1, <1>4, Distributes
  <2>4. at = IF (r - 1) * c < n THEN (r - 1) * c ELSE n
    BY <2>1, <2>2 DEF RowBegin
  <2> HIDE DEF at, n, c
  <2> QED BY <2>3, <2>4, <1>4
<1> HIDE DEF f, at, to
<1>6. /\ DOMAIN x = Fields /\ SameShape(f, x) /\ x.hostUp = f.hostUp
      /\ x.host = [i \in DOMAIN f.host |-> IF f.host[i] > 0 THEN to[f.host[i]] ELSE f.host[i]]
  BY <1>3, RenumberedFields
<1> HIDE DEF x
<1>7. /\ DOMAIN d = Fields /\ d.host = x.host /\ d.hostUp = x.hostUp /\ d.devUp = FALSE
      /\ d.buf = << >> /\ d.rows = x.rows /\ d.cols = x.cols /\ d.dist = x.dist
  BY <1>6 DEF DropBuffers, NoBuffers, Fields
<1> HIDE DEF d
<1>8. d.host \in [1 .. n -> Int] /\ \A i \in 1 .. n : d.host[i] = IF i > at THEN i + c ELSE i
  <2>1. f.host = [i \in 1 .. n |-> i] BY <1>1 DEF Elements
  <2> HIDE DEF n
  <2>2. x.host = [i \in 1 .. n |-> to[i]] BY <1>4, <1>6, <2>1
  <2>3. \A i \in 1 .. n : to[i] = (IF i > at THEN i + c ELSE i) BY <1>4 DEF to
  <2>4. \A i \in 1 .. n : to[i] \in Int BY <1>4, <2>3
  <2> QED BY <1>7, <2>2, <2>3, <2>4
<1>9. host = Elements(n + c)
  <2> DEFINE s == d.host
  <2>1. host = SubSeq(s, 1, at) \o [k \in 1 .. c |-> at + k] \o SubSeq(s, at + 1, Len(s))
    OBVIOUS
  <2>2. s \in [1 .. n -> Int] /\ \A i \in 1 .. n : s[i] = IF i > at THEN i + c ELSE i
    BY <1>8
  <2> HIDE DEF s, n, c, host
  <2>3. SubSeq(s, 1, at) \o [k \in 1 .. c |-> at + k] \o SubSeq(s, at + 1, Len(s))
          = Elements(n + c)
    BY <1>4, <1>5, <2>2, Inserted
  <2> QED BY <2>1, <2>3
<1> HIDE DEF host
<1>10. /\ DOMAIN g = Fields /\ g.host = Elements(n + c) /\ g.hostUp = f.hostUp
       /\ g.devUp = FALSE /\ g.buf = << >> /\ g.rows = m.rows + 1 /\ g.cols = c
       /\ g.dist = m.dist
  <2>1. /\ DOMAIN g = Fields /\ g.host = host /\ g.hostUp = d.hostUp /\ g.devUp = d.devUp
        /\ g.buf = d.buf /\ g.rows = d.rows + 1 /\ g.cols = d.cols /\ g.dist = d.dist
    BY <1>7 DEF Fields
  <2> HIDE DEF g
  <2> QED BY <2>1, <1>1, <1>6, <1>7, <1>9 DEF SameShape
<1> HIDE DEF g
<1>11. DOMAIN g.buf = {} /\ g.hostUp = TRUE
  BY <1>1, <1>10 DEF Right, Placed, Typed
<1>12. ElemCount(g) = n + c
  <2>1. (m.rows + 1) * c = m.rows * c + 1 * c /\ 1 * c = c BY <1>4, Distributes
  <2> HIDE DEF n, c
  <2> QED BY <2>1, <1>4, <1>10 DEF ElemCount
<1>13. g.rows \in 0 .. MaxSize /\ g.dist \in MatrixDistribution /\ g.cols \in Nat
  BY <1>3, <1>4, <1>10, MaxSizeAssumption DEF Typed
<1>14. Right(g) BY <1>10, <1>11, <1>12, <1>13, HostRight
<1> QED BY <1>2, <1>14

LEMMA EraseRight ==
  ASSUME NEW m, Right(m), Usable(m), ~ m.devUp, ~ HasBuffers(m),
         NEW r \in 1 .. MaxSize, r < m.rows - 1
  PROVE  Right(EraseRow(m, r))
<1> DEFINE s == [m EXCEPT !.rows = @ - 1]
           f == CopyDataToHost(s)
           first == RowBegin(f, r)
           last == RowBegin(f, r + 1)
           host == SubSeq(f.host, 1, first) \o SubSeq(f.host, last + 1, Len(f.host))
           e == [f EXCEPT !.host = host]
           to == [i \in Nat |-> CASE i <= (r - 1) * m.cols -> i
                                  [] i > r * m.cols -> i - m.cols
                                  [] OTHER -> Other]
           g == Renumbered(e, to)
           n == ElemCount(m)
           c == m.cols
           a == (r - 1) * c
           b == r * c
<1>1. EraseRow(m, r) = g BY DEF EraseRow
<1>2. Typed(m) /\ Held(m) /\ m.hostUp /\ m.host = Elements(n)
  BY DEF Right, Placed, Usable, Held
<1>3. n \in Nat /\ c \in Nat /\ n = m.rows * c /\ m.rows \in Nat BY <1>2, Counts
<1>4. a \in Nat /\ b \in Nat /\ b = a + c /\ b <= n - c /\ (b < n - c \/ c = 0)
  <2>1. r \in Nat /\ r - 1 \in Nat /\ r + 1 <= m.rows - 1 BY <1>3, MaxSizeAssumption
  <2> HIDE DEF c, n
  <2>2. a \in Nat /\ b \in Nat BY <2>1, <1>3, Distributes
  <2>3. r * c - 1 * c = (r - 1) * c /\ 1 * c = c BY <2>1, <1>3, Distributes
  <2>4. (r + 1) * c <= (m.rows - 1) * c BY <2>1, <1>3, Monotone
  <2>5. (r + 1) * c = r * c + c /\ (m.rows - 1) * c = m.rows * c - c
    BY <2>1, <2>3, <1>3, Distributes
  <2> QED BY <2>2, <2>3, <2>4, <2>5, <1>3
<1>5. /\ f = s /\ DOMAIN s = Fields /\ s.host = Elements(n) /\ s.rows = m.rows - 1
      /\ s.cols = c /\ s.dist = m.dist /\ s.buf = m.buf /\ s.hostUp = m.hostUp
      /\ s.devUp = m.devUp
  <2>1. /\ DOMAIN s = Fields /\ s.host = Elements(n) /\ s.rows = m.rows - 1
        /\ s.cols = c /\ s.dist = m.dist /\ s.buf = m.buf /\ s.hostUp = m.hostUp
        /\ s.devUp = m.devUp
    BY <1>2 DEF Typed, Fields
  <2> HIDE DEF s
  <2> QED BY <2>1 DEF CopyDataToHost, MustDownload
<1> HIDE DEF s, f, to
<1>6. Len(f.host) = n BY <1>3, <1>5, ElementsTyped, LengthOf
<1>7. ElemCount(f) = n - c
  <2>1. (m.rows - 1) * c = m.rows * c - c
    <3>1. m.rows * c - 1 * c = (m.rows - 1) * c /\ 1 * c = c BY <1>3, Distributes
    <3> QED BY <3>1
  <2> QED BY <2>1, <1>3, <1>5 DEF ElemCount
<1>8. first = a /\ last = b
  <2>1. first = IF a < n - c THEN a ELSE n BY <1>5, <1>6, <1>7 DEF RowBegin
  <2>2. last = IF b < n - c THEN b ELSE n
    <3>1. (r + 1) - 1 = r BY MaxSizeAssumption
    <3> QED BY <3>1, <1>5, <1>6, <1>7 DEF RowBegin
  <2>3. c = 0 => a = 0 /\ b = 0 /\ n = 0 BY <1>3, MaxSizeAssumption
  <2> HIDE DEF first, last, a, b, c, n
  <2> QED BY <1>3, <1>4, <2>1, <2>2, <2>3
<1> DEFINE k == n - c
<1>9. /\ DOMAIN host = 1 .. k
      /\ \A i \in 1 .. k : host[i] = IF i <= a THEN i ELSE i + c
  <2>1. host = Without(n, a, b) BY <1>5, <1>6, <1>8 DEF Without
  <2> HIDE DEF host, a, b, c, n
  <2>2. a <= b /\ b <= n /\ b - a = c BY <1>3, <1>4
  <2>3. /\ DOMAIN Without(n, a, b) = 1 .. n - (b - a)
        /\ \A i \in 1 .. n - (b - a) :
             Without(n, a, b)[i] = IF i <= a THEN i ELSE i + (b - a)
    <3>1. n \in Nat /\ a \in Nat /\ b \in Nat BY <1>3, <1>4
    <3> QED BY <3>1, <2>2, Removed
  <2> QED BY <2>1, <2>2, <2>3
<1>10. /\ DOMAIN e = Fields /\ e.host = host /\ e.rows = m.rows - 1 /\ e.cols = c
       /\ e.dist = m.dist /\ e.buf = m.buf /\ e.hostUp = m.hostUp /\ e.devUp = m.devUp
  <2> HIDE DEF host
  <2> QED BY <1>5 DEF Fields
<1> HIDE DEF e, host
<1>11. /\ DOMAIN g = Fields /\ SameShape(e, g) /\ g.hostUp = e.hostUp /\ g.devUp = e.devUp
       /\ g.host = [i \in DOMAIN e.host |->
                      IF e.host[i] > 0 THEN to[e.host[i]] ELSE e.host[i]]
       /\ DOMAIN g.buf = DOMAIN e.buf
  BY <1>10, RenumberedFields
<1> HIDE DEF g
<1>12. \A i \in 1 .. k :
         (IF e.host[i] > 0 THEN to[e.host[i]] ELSE e.host[i]) = i
  <2> TAKE i \in 1 .. k
  <2>1. \A x \in Nat : to[x] = CASE x <= a -> x [] x > b -> x - c [] OTHER -> Other
    BY DEF to
  <2> HIDE DEF a, b, c, n
  <2>2. e.host[i] = IF i <= a THEN i ELSE i + c BY <1>9, <1>10
  <2>3. i \in Nat /\ i > 0 BY <1>3
  <2>4. CASE i <= a BY <1>3, <1>4, <2>1, <2>2, <2>3, <2>4
  <2>5. CASE i > a
    <3>1. e.host[i] = i + c /\ i + c \in Nat /\ i + c > 0 /\ i + c > b /\ ~ (i + c <= a)
      BY <1>3, <1>4, <2>2, <2>3, <2>5
    <3>2. to[i + c] = (i + c) - c BY <2>1, <3>1
    <3> QED BY <1>3, <2>3, <3>1, <3>2
  <2> QED BY <1>4, <2>3, <2>4, <2>5
<1>13. g.host = Elements(k)
  <2>1. DOMAIN e.host = 1 .. k BY <1>9, <1>10
  <2> HIDE DEF k
  <2> QED BY <1>11, <1>12, <2>1 DEF Elements
<1>14. ElemCount(g) = k
  <2>1. g.rows = f.rows /\ g.cols = f.cols BY <1>5, <1>10, <1>11 DEF SameShape
  <2> QED BY <2>1, <1>7 DEF ElemCount
<1>15. g.rows \in 0 .. MaxSize /\ g.cols \in Nat /\ g.dist \in MatrixDistribution
  BY <1>2, <1>3, <1>10, <1>11, MaxSizeAssumption DEF Typed, SameShape
<1>16. g.hostUp = TRUE /\ g.devUp = FALSE BY <1>2, <1>10, <1>11 DEF Typed
<1>17. DOMAIN g.buf = {} BY <1>10, <1>11 DEF HasBuffers
<1>18. Right(g) BY <1>11, <1>13, <1>14, <1>15, <1>16, <1>17, HostRight
<1> QED BY <1>1, <1>18

LEMMA ClearRight ==
  ASSUME NEW m, Right(m), m.hostUp
  PROVE  Right(Clear(m))
<1> DEFINE n == Clear(m)
<1>1. Typed(m) BY DEF Right, Placed
<1>2. /\ DOMAIN n = Fields /\ n.host = << >> /\ n.buf = << >> /\ n.rows = 0 /\ n.cols = 0
      /\ n.dist = m.dist /\ n.hostUp = TRUE /\ n.devUp \in BOOLEAN
  BY <1>1 DEF Clear, NoBuffers, Typed, Fields
<1> HIDE DEF n
<1>3. ElemCount(n) = 0 BY <1>2 DEF ElemCount
<1>4. Elements(0) = << >>
  BY DEF Elements
<1>5. /\ DOMAIN n.buf = {} /\ n.rows \in 0 .. MaxSize /\ n.cols \in Nat
      /\ n.dist \in MatrixDistribution
  BY <1>1, <1>2, MaxSizeAssumption DEF Typed
<1>a. n.host = Elements(ElemCount(n)) BY <1>2, <1>3, <1>4
<1>6. Right(n) BY <1>2, <1>3, <1>a, <1>5, HostRight
<1> QED BY <1>6 DEF n

\* A write that is followed by dataOnHostModified.
LEMMA WriteRight ==
  ASSUME NEW m, Right(m), Usable(m), NEW e \in 1 .. ElemCount(m)
  PROVE  Right(DataOnHostModified(WriteElement(m, e)))
<1> DEFINE f  == CopyDataToHost(m)
           to == [i \in Nat |-> IF i = e THEN Other ELSE i]
           x  == Renumbered(f, to)
           host == [x.host EXCEPT ![e] = e]
           w  == [x EXCEPT !.host = host]
           g  == DataOnHostModified(w)
           n  == ElemCount(m)
<1>1. Right(f) /\ SameShape(m, f) /\ f.hostUp /\ f.host = Elements(n) BY FetchedRight
<1>2. WriteElement(m, e) = w BY DEF WriteElement
<1>3. Typed(m) /\ Typed(f) /\ Roomy(f) /\ DOMAIN f = Fields
  BY <1>1 DEF Right, Placed, Typed
<1>4. n \in Nat /\ ElemCount(f) = n /\ \A d : SizeOn(f, d) = SizeOn(m, d)
  BY <1>1, <1>3, Counts, Shape
<1>5. \A i \in Nat : to[i] = (IF i = e THEN Other ELSE i) OBVIOUS
<1> HIDE DEF f, to
<1>6. /\ DOMAIN x = Fields /\ SameShape(f, x) /\ x.hostUp = f.hostUp
      /\ x.host = [i \in DOMAIN f.host |-> IF f.host[i] > 0 THEN to[f.host[i]] ELSE f.host[i]]
      /\ DOMAIN x.buf = DOMAIN f.buf
      /\ \A d \in DOMAIN f.buf :
           x.buf[d] = [i \in DOMAIN f.buf[d] |->
                         IF f.buf[d][i] > 0 THEN to[f.buf[d][i]] ELSE f.buf[d][i]]
  BY <1>3, RenumberedFields
<1> HIDE DEF x
<1>7. host = Elements(n)
  <2>1. f.host = [i \in 1 .. n |-> i] BY <1>1 DEF Elements
  <2>2. x.host = [i \in 1 .. n |-> to[i]] BY <1>4, <1>6, <2>1
  <2>3. \A i \in 1 .. n : to[i] = (IF i = e THEN Other ELSE i) BY <1>4, <1>5
  <2>4. host = [i \in 1 .. n |-> IF i = e THEN e ELSE to[i]] BY <2>2
  <2>5. \A i \in 1 .. n : (IF i = e THEN e ELSE to[i]) = i BY <2>3
  <2> QED BY <2>4, <2>5 DEF Elements
<1> HIDE DEF host
<1>8. /\ DOMAIN w = Fields /\ w.host = Elements(n) /\ SameShape(f, w) /\ w.buf = x.buf
  BY <1>6, <1>7 DEF Fields, SameShape
<1> HIDE DEF w
<1>9. /\ DOMAIN g = Fields /\ g.host = Elements(n) /\ SameShape(f, g) /\ g.buf = x.buf
      /\ g.hostUp = TRUE /\ g.devUp = FALSE
  BY <1>8 DEF DataOnHostModified, Fields, SameShape
<1> HIDE DEF g
<1>10. g.host \in [1 .. n -> Label(n)] BY <1>4, <1>9, ElementsTyped
<1>11. ASSUME NEW d \in DOMAIN f.buf PROVE g.buf[d] \in [1 .. SizeOn(f, d) -> Label(n)]
  <2> DEFINE b == f.buf[d]
             s == SizeOn(f, d)
  <2>1. b \in [1 .. s -> Label(n)] BY <1>3, <1>4 DEF Typed
  <2>2. g.buf[d] = [i \in DOMAIN b |-> IF b[i] > 0 THEN to[b[i]] ELSE b[i]]
    BY <1>6, <1>9
  <2> HIDE DEF b, s, n
  <2>3. \A y \in Label(n) : (IF y > 0 THEN to[y] ELSE y) \in Label(n)
    BY <1>4, <1>5 DEF Label, Neutral, Other
  <2> QED BY <2>1, <2>2, <2>3 DEF s
<1>12. Typed(g)
  <2>1. DOMAIN g.buf = {} \/ DOMAIN g.buf = f.dist.devices
    BY <1>3, <1>6, <1>9 DEF Typed, Buffered
  <2> HIDE DEF n
  <2> QED BY <1>3, <1>4, <1>6, <1>9, <1>10, <1>11, <2>1, SameTyped
<1>13. Roomy(g)
  <2>1. ElemCount(g) = ElemCount(f) /\ (Tall(g) <=> Tall(f)) BY <1>9, Shape
  <2> QED BY <1>3, <1>6, <1>9, <2>1 DEF Roomy
<1>14. Held(g)
  <2>1. ElemCount(g) = n BY <1>4, <1>9, Shape
  <2> QED BY <1>9, <2>1 DEF Held
<1>15. Bordered(g) BY <1>9 DEF Bordered
<1> QED BY <1>2, <1>12, <1>13, <1>14, <1>15 DEF Right, Placed, g

-----------------------------------------------------------------------------
(***************************************************************************)
(* Distributions and buffers.                                              *)
(***************************************************************************)
\* What follows from the flags for a matrix that lacks buffers.
LEMMA WithoutBuffers ==
  ASSUME NEW m, Placed(m), Usable(m), ~ HasBuffers(m) \/ ~ IsValid(m.dist)
  PROVE  /\ m.hostUp = TRUE /\ DOMAIN m.buf = {} /\ (m.devUp => ElemCount(m) = 0)
         /\ m.host = Elements(ElemCount(m))
<1>1. Typed(m) /\ Held(m) BY DEF Placed
<1>2. ElemCount(m) \in Nat BY <1>1, Counts
<1>3. IsValid(m.dist) => m.dist.devices # {} BY <1>1, PartsOfRows DEF Typed
<1>4. ~ IsValid(m.dist) => m.dist.devices = {}
  <2>1. m.dist \in MatrixDistribution BY <1>1 DEF Typed
  <2>2. \A d : IsValid(Single(d)) BY DEF Single, IsValid
  <2>3. IsValid(Block) /\ IsValid(Copy) BY DEF Block, Copy, IsValid
  <2>4. m.dist.kind = "overlap" => IsValid(m.dist) BY DEF IsValid
  <2>5. Invalid.devices = {} BY DEF Invalid
  <2> QED BY <2>1, <2>2, <2>3, <2>4, <2>5, Kinds
<1>5. DOMAIN m.buf = {} BY <1>1, <1>4 DEF Typed, Buffered, HasBuffers
<1>6. m.devUp => ~ (ElemCount(m) > 0) BY <1>1, <1>3, <1>5 DEF Held, Buffered
<1>7. m.hostUp BY <1>1, <1>6 DEF Held, Usable
<1>8. m.hostUp = TRUE BY <1>1, <1>7 DEF Typed
<1> QED BY <1>1, <1>2, <1>5, <1>6, <1>7, <1>8 DEF Held

\* A distribution that replaces another without an exchange: the buffers remain.
LEMMA NoExchange ==
  ASSUME NEW m, NEW dist, m.dist \in MatrixDistribution, dist \in MatrixDistribution,
         IsValid(m.dist), ~ ForcesExchange(m.dist, dist)
  PROVE  \/ m.dist = dist
         \/ /\ IsOverlap(m.dist) /\ IsOverlap(dist)
            /\ m.dist.devices = Device /\ dist.devices = Device
<1>1. CASE IsOverlap(m.dist)
  <2>1. IsOverlap(dist) BY <1>1 DEF ForcesExchange
  <2>2. \A x \in MatrixDistribution : IsOverlap(x) => x.devices = Device
    BY Kinds DEF IsOverlap, Invalid, Single, Block, Copy
  <2> QED BY <1>1, <2>1, <2>2
<1>2. CASE ~ IsOverlap(m.dist)
  <2>1. ~ NeedsExchange(m.dist, dist) BY <1>2 DEF ForcesExchange
  <2>2. CASE m.dist = Block
    BY <2>1, <2>2 DEF NeedsExchange, BlockExchanges, Block
  <2>3. CASE m.dist = Copy
    BY <2>1, <2>3 DEF NeedsExchange, Copy
  <2>4. ASSUME NEW d \in Device, m.dist = Single(d) PROVE m.dist = dist
    <3>1. m.dist.kind = "single" BY <2>4 DEF Single
    <3> QED BY <2>1, <3>1 DEF NeedsExchange, SingleExchanges
  <2>5. m.dist # Invalid BY DEF IsValid, Invalid
  <2> QED BY <1>2, <2>2, <2>3, <2>4, <2>5, Kinds DEF IsOverlap
<1> QED BY <1>1, <1>2

\* All that a matrix consists of.
LEMMA SameFields ==
  ASSUME NEW m, NEW n, Placed(m), DOMAIN n = Fields, SameShape(m, n), n.host = m.host,
         n.buf = m.buf, n.hostUp = m.hostUp, n.devUp = m.devUp
  PROVE  Placed(n) /\ (Right(m) => Right(n))
<1>1. Typed(m) /\ Roomy(m) /\ Held(m) BY DEF Placed
<1>2. /\ ElemCount(n) = ElemCount(m) /\ Lead(n) = Lead(m) /\ (Tall(n) <=> Tall(m))
      /\ \A d : /\ SizeOn(n, d) = SizeOn(m, d) /\ Own(n, d) = Own(m, d)
                /\ Origin(n, d) = Origin(m, d)
                /\ \A i : Wanted(n, d, i) = Wanted(m, d, i)
  BY Shape
<1>3. Typed(n) BY <1>1, <1>2 DEF Typed, SameShape, Buffered
<1>4. Roomy(n) BY <1>1, <1>2 DEF Roomy
<1>5. Held(n)
  <2>1. OwnRight(m) => OwnRight(n) BY <1>2 DEF OwnRight, SameShape
  <2>2. Buffered(m) => Buffered(n) BY DEF Buffered, SameShape
  <2> QED BY <1>1, <1>2, <2>1, <2>2 DEF Held, SameShape
<1>6. Bordered(m) => Bordered(n) BY <1>2 DEF Bordered, SameShape
<1> QED BY <1>3, <1>4, <1>5, <1>6 DEF Placed, Right

LEMMA SetDistributionRight ==
  ASSUME NEW m, Right(m), Usable(m), NEW dist \in MatrixDistribution, IsValid(dist),
         SameRange(m, dist)
  PROVE  LET n == SetDistribution(m, dist)
         IN  /\ Placed(n) /\ Usable(n) /\ n.dist = dist
             /\ n.rows = m.rows /\ n.cols = m.cols
             /\ m.hostUp => n.hostUp
             /\ (IsOverlap(m.dist) /\ IsOverlap(dist) /\ HasBuffers(m) => m.dist = dist) =>
                  Right(n)
             /\ IsOverlap(dist) /\ (IsOverlap(m.dist) /\ HasBuffers(m) => m.hostUp) =>
                  n.hostUp
<1> SUFFICES ASSUME NEW n, n = SetDistribution(m, dist)
             PROVE  /\ Placed(n) /\ Usable(n) /\ n.dist = dist
                    /\ n.rows = m.rows /\ n.cols = m.cols
                    /\ m.hostUp => n.hostUp
                    /\ (IsOverlap(m.dist) /\ IsOverlap(dist) /\ HasBuffers(m) =>
                          m.dist = dist) => Right(n)
                    /\ IsOverlap(dist) /\ (IsOverlap(m.dist) /\ HasBuffers(m) => m.hostUp) =>
                         n.hostUp
  OBVIOUS
<1>0. Placed(m) /\ Typed(m) /\ Held(m) /\ m.dist \in MatrixDistribution
  BY DEF Right, Placed, Typed
\* ... from the host
<1>1. CASE IsValid(m.dist) /\ ForcesExchange(m.dist, dist)
  <2> DEFINE f == CopyDataToHost(m)
             e == DropBuffers(f)
             g == [e EXCEPT !.dist = dist]
  <2>1. n = g BY <1>1 DEF SetDistribution
  <2>2. Right(f) /\ SameShape(m, f) /\ f.hostUp BY FetchedRight
  <2> HIDE DEF f
  <2>3. /\ Right(e) /\ SameShape(f, e) /\ e.hostUp = TRUE /\ e.devUp = FALSE
        /\ DOMAIN e.buf = {} /\ e.host = Elements(ElemCount(f))
    BY <2>2, DroppedRight
  <2>4. DOMAIN e = Fields /\ e.rows \in 0 .. MaxSize /\ e.cols \in Nat
    BY <2>3 DEF Right, Placed, Typed
  <2> HIDE DEF e
  <2>5. /\ DOMAIN g = Fields /\ g.dist = dist /\ g.rows = e.rows /\ g.cols = e.cols
        /\ g.hostUp = TRUE /\ g.devUp = FALSE /\ g.buf = e.buf /\ g.host = e.host
    BY <2>3, <2>4 DEF Fields
  <2> HIDE DEF g
  <2>6. ElemCount(g) = ElemCount(f) BY <2>3, <2>5 DEF ElemCount, SameShape
  <2>7. Right(g) BY <2>3, <2>4, <2>5, <2>6, HostRight
  <2> QED BY <2>1, <2>2, <2>3, <2>5, <2>7 DEF Right, Usable, SameShape
<1>2. CASE ~ (IsValid(m.dist) /\ ForcesExchange(m.dist, dist))
  <2>0. n = [m EXCEPT !.dist = dist] BY <1>2 DEF SetDistribution
  <2>1. /\ DOMAIN n = Fields /\ n.dist = dist /\ n.rows = m.rows /\ n.cols = m.cols
        /\ n.hostUp = m.hostUp /\ n.devUp = m.devUp /\ n.buf = m.buf /\ n.host = m.host
    BY <1>0, <2>0 DEF Typed, Fields
  <2>2. ElemCount(n) = ElemCount(m) BY <2>1 DEF ElemCount
  <2>3. Usable(n) BY <2>1 DEF Usable
  \* ... without buffers
  <2>4. CASE ~ HasBuffers(m) \/ ~ IsValid(m.dist)
    <3>1. /\ m.hostUp = TRUE /\ DOMAIN m.buf = {} /\ (m.devUp => ElemCount(m) = 0)
          /\ m.host = Elements(ElemCount(m))
      BY <1>0, <2>4, WithoutBuffers
    <3>2. n.rows \in 0 .. MaxSize /\ n.cols \in Nat /\ n.devUp \in BOOLEAN
      BY <1>0, <2>1 DEF Typed
    <3>3. Right(n) BY <2>1, <2>2, <3>1, <3>2, HostRight
    <3> QED BY <2>1, <2>3, <3>1, <3>3 DEF Right
  \* ... the same
  <2>5. CASE m.dist = dist
    <3>1. Right(n) /\ Placed(n) BY <1>0, <2>1, <2>5, SameFields DEF SameShape
    <3>2. IsOverlap(dist) /\ (IsOverlap(m.dist) /\ HasBuffers(m) => m.hostUp) => m.hostUp
      <4>1. ~ HasBuffers(m) => m.hostUp BY <1>0, WithoutBuffers
      <4> QED BY <2>5, <4>1
    <3> QED BY <1>0, <2>1, <2>3, <3>1, <3>2
  \* ... another overlap distribution
  <2>6. CASE HasBuffers(m) /\ IsValid(m.dist) /\ m.dist # dist
    <3>1. /\ IsOverlap(m.dist) /\ IsOverlap(dist)
          /\ m.dist.devices = Device /\ dist.devices = Device
      BY <1>0, <1>2, <2>6, NoExchange
    <3>2. m.dist.radius = dist.radius BY <2>6, <3>1 DEF SameRange
    <3>3. Radius(n) = Radius(m) BY <2>1, <3>1, <3>2 DEF Radius
    <3>4. \A d : RowsOn(n.dist, n.rows, d) = RowsOn(m.dist, m.rows, d)
      BY <2>1, <3>1, <3>2 DEF RowsOn
    <3>5. \A d : SizeOn(n, d) = SizeOn(m, d) /\ OwnRows(n, d) = OwnRows(m, d)
      BY <2>1, <3>3, <3>4 DEF SizeOn, OwnRows
    <3>6. \A d : FirstRow(n, d) = FirstRow(m, d) BY <2>1, <3>1 DEF FirstRow
    <3>7. Lead(n) = Lead(m) /\ \A d : Own(n, d) = Own(m, d) /\ Origin(n, d) = Origin(m, d)
      BY <2>1, <3>3, <3>5, <3>6 DEF Lead, Own, Origin
    <3>8. Tall(n) <=> Tall(m) BY <2>1, <3>1, <3>2 DEF Tall
    <3>9. Typed(n)
      <4>1. DOMAIN n.buf = {} \/ Buffered(n) BY <1>0, <2>1, <3>1 DEF Typed, Buffered
      <4>2. \A d \in DOMAIN n.buf : n.buf[d] \in [1 .. SizeOn(n, d) -> Label(ElemCount(n))]
        BY <1>0, <2>1, <2>2, <3>5 DEF Typed
      <4> QED BY <1>0, <2>1, <2>2, <4>1, <4>2 DEF Typed
    <3>10. Roomy(n) BY <1>0, <2>1, <2>2, <3>8 DEF Placed, Roomy
    <3>11. Held(n)
      <4>1. OwnRight(m) => OwnRight(n) BY <2>1, <3>1, <3>7 DEF OwnRight
      <4>2. Buffered(m) => Buffered(n) BY <2>1, <3>1 DEF Buffered
      <4>3. IsValid(n.dist) BY <2>1
      <4> QED BY <1>0, <2>1, <2>2, <4>1, <4>2, <4>3 DEF Held
    <3> QED BY <2>1, <2>3, <2>6, <3>1, <3>9, <3>10, <3>11 DEF Placed
  <2> QED BY <2>4, <2>5, <2>6
<1> QED BY <1>1, <1>2

LEMMA CreatedRight ==
  ASSUME NEW m, Placed(m), Usable(m), IsValid(m.dist), ElemCount(m) > 0, Tall(m),
         NEW n, n = CreateDeviceBuffers(m)
  PROVE  /\ Placed(n) /\ (Right(m) => Right(n)) /\ SameShape(m, n) /\ Buffered(n)
         /\ n.hostUp = m.hostUp /\ n.devUp = m.devUp /\ n.host = m.host
<1>0. Typed(m) /\ Held(m) BY DEF Placed
<1>1. CASE HasBuffers(m)
  <2>1. n = m BY <1>1 DEF CreateDeviceBuffers
  <2>2. Buffered(m) BY <1>0, <1>1 DEF HasBuffers, Typed
  <2> QED BY <2>1, <2>2 DEF SameShape
<1>2. CASE ~ HasBuffers(m)
  <2> DEFINE buf == [d \in m.dist.devices |-> Filled(SizeOn(m, d), Other)]
             k == ElemCount(m)
  <2>1. n = [m EXCEPT !.buf = buf] BY <1>2 DEF CreateDeviceBuffers
  <2>2. ~ m.devUp /\ m.hostUp = TRUE /\ m.host = Elements(ElemCount(m))
    <3>1. m.devUp => ElemCount(m) = 0 BY <1>2, WithoutBuffers
    <3>2. m.hostUp = TRUE /\ m.host = Elements(ElemCount(m)) BY <1>2, WithoutBuffers
    <3>3. m.devUp \in BOOLEAN BY <1>0 DEF Typed
    <3>4. ElemCount(m) # 0 OBVIOUS
    <3> QED BY <3>1, <3>2, <3>3, <3>4
  <2>3. DOMAIN buf = m.dist.devices OBVIOUS
  <2>4. \A d \in m.dist.devices : buf[d] \in [1 .. SizeOn(m, d) -> Label(k)]
    <3> TAKE d \in m.dist.devices
    <3>1. Other \in Label(k) BY DEF Label
    <3>2. buf[d] = [i \in 1 .. SizeOn(m, d) |-> Other] BY DEF Filled
    <3> HIDE DEF buf
    <3> QED BY <3>1, <3>2
  <2> HIDE DEF buf
  <2>5. /\ DOMAIN n = Fields /\ SameShape(m, n) /\ n.buf = buf /\ n.host = m.host
        /\ n.hostUp = m.hostUp /\ n.devUp = m.devUp
    BY <1>0, <2>1 DEF Typed, Fields, SameShape
  <2>6. Typed(n)
    <3>1. \A d \in DOMAIN n.buf : n.buf[d] \in [1 .. SizeOn(m, d) -> Label(ElemCount(m))]
      BY <2>3, <2>4, <2>5
    <3>2. DOMAIN n.buf = m.dist.devices BY <2>3, <2>5
    <3>3. n.host \in [1 .. ElemCount(m) -> Label(ElemCount(m))] /\ n.hostUp \in BOOLEAN
          /\ n.devUp \in BOOLEAN
      BY <1>0, <2>5 DEF Typed
    <3> QED BY <1>0, <2>5, <3>1, <3>2, <3>3, SameTyped
  <2>7. ElemCount(n) = ElemCount(m) /\ Tall(n) BY <2>5, Shape
  <2>8. Roomy(n) BY <2>7 DEF Roomy
  <2>9. Held(n) BY <2>2, <2>5, <2>7 DEF Held
  <2>10. Bordered(n) BY <2>2, <2>5 DEF Bordered
  <2>11. Buffered(n) BY <2>3, <2>5 DEF Buffered, SameShape
  <2> QED BY <2>5, <2>6, <2>8, <2>9, <2>10, <2>11 DEF Placed, Right
<1> QED BY <1>1, <1>2

\* An operand that has been brought to the devices.
Ready(m) == Right(m) /\ IsValid(m.dist) /\ m.devUp /\ Buffered(m) /\ OwnRight(m)
              /\ ElemCount(m) > 0

LEMMA OnDevicesRight ==
  ASSUME NEW m, Right(m), Usable(m), IsValid(m.dist), ElemCount(m) > 0, Tall(m),
         NEW n, n = OnDevices(m)
  PROVE  Ready(n) /\ SameShape(m, n) /\ n.hostUp = m.hostUp
<1> DEFINE c == CreateDeviceBuffers(m)
<1>1. /\ Right(c) /\ SameShape(m, c) /\ Buffered(c)
      /\ c.hostUp = m.hostUp /\ c.devUp = m.devUp
  BY CreatedRight DEF Right
<1>2. n = StartUpload(c) BY DEF OnDevices
<1> HIDE DEF c
<1>3. IsValid(c.dist) /\ ElemCount(c) > 0 BY <1>1, Shape DEF SameShape
<1>4. ASSUME NEW x, Right(x), x.devUp, ElemCount(x) > 0 PROVE OwnRight(x)
  BY <1>4 DEF Right, Placed, Held
<1>5. CASE m.devUp
  <2>1. n = c BY <1>1, <1>2, <1>5 DEF StartUpload
  <2> QED BY <1>1, <1>3, <1>4, <1>5, <2>1 DEF Ready
<1>6. CASE ~ m.devUp
  <2>1. c.hostUp /\ ~ c.devUp BY <1>1, <1>6 DEF Usable
  <2>2. Placed(c) BY <1>1 DEF Right
  <2>3. /\ Right(n) /\ SameShape(c, n) /\ n.hostUp /\ n.devUp /\ Buffered(n)
    BY <1>1, <1>2, <1>3, <2>1, <2>2, UploadRight
  <2>4. IsValid(n.dist) /\ ElemCount(n) > 0 BY <1>3, <2>3, Shape DEF SameShape
  <2>5. SameShape(m, n) BY <1>1, <2>3 DEF SameShape
  <2>6. n.hostUp = m.hostUp
    <3>1. n.hostUp \in BOOLEAN /\ m.hostUp \in BOOLEAN
      BY <2>3 DEF Right, Placed, Typed
    <3> QED BY <3>1, <2>1, <2>3, <1>1
  <2> QED BY <1>4, <2>3, <2>4, <2>5, <2>6 DEF Ready
<1> QED BY <1>5, <1>6

\* The cells of an operand.
LEMMA ReadyCells ==
  ASSUME NEW m, Ready(m), NEW d \in m.dist.devices
  PROVE  /\ BufferOf(m, d) \in [1 .. SizeOn(m, d) -> Label(ElemCount(m))]
         /\ \A i \in 1 .. Own(m, d) :
              /\ Lead(m) + i \in 1 .. SizeOn(m, d)
              /\ BufferOf(m, d)[Lead(m) + i] = Origin(m, d) + i
              /\ Origin(m, d) + i \in 1 .. ElemCount(m)
<1>1. Typed(m) /\ Buffered(m) /\ OwnRight(m) /\ IsValid(m.dist)
  BY DEF Ready, Right, Placed
<1>2. BufferOf(m, d) = m.buf[d] BY <1>1 DEF BufferOf, Buffered
<1>3. BufferOf(m, d) \in [1 .. SizeOn(m, d) -> Label(ElemCount(m))]
  BY <1>1, <1>2 DEF Typed, Buffered
<1>4. /\ Lead(m) \in Nat /\ SizeOn(m, d) \in Nat /\ Own(m, d) \in Nat
      /\ Origin(m, d) \in Nat /\ SizeOn(m, d) = Own(m, d) + 2 * Lead(m)
      /\ Origin(m, d) + Own(m, d) <= ElemCount(m)
  BY <1>1, PartsOfCells
<1>5. ElemCount(m) \in Nat BY <1>1, Counts
<1>6. \A i \in 1 .. Own(m, d) : BufferOf(m, d)[Lead(m) + i] = Origin(m, d) + i
  BY <1>1, <1>2 DEF OwnRight
<1> QED BY <1>3, <1>4, <1>5, <1>6

\* What kernels leave: right if each device's own part is.
LEMMA ComputedRight ==
  ASSUME NEW m, Placed(m), IsValid(m.dist), Buffered(m), ElemCount(m) > 0,
         NEW from \in Int, NEW part, DOMAIN part = m.dist.devices,
         \A d \in m.dist.devices :
           /\ \A i \in 1 .. SizeOn(m, d) :
                CellOf(part[d], i - from) \in Label(ElemCount(m))
           /\ \A i \in 1 .. Own(m, d) :
                CellOf(part[d], (Lead(m) + i) - from) = Origin(m, d) + i
  PROVE  Right(Computed(m, from, part))
<1> DEFINE cell(d, i) == IF d \in DOMAIN part THEN CellOf(part[d], i - from) ELSE Other
           host == Filled(Len(m.host), Other)
           buf == [d \in DOMAIN m.buf |-> [i \in DOMAIN m.buf[d] |-> cell(d, i)]]
           g == [m EXCEPT !.host = host, !.buf = buf]
           n == DataOnDeviceModified(g)
           k == ElemCount(m)
<1>0. Typed(m) /\ Roomy(m) /\ k \in Nat BY Counts DEF Placed
<1>1. Computed(m, from, part) = n BY DEF Computed
<1>2. \A d \in m.dist.devices : \A i : cell(d, i) = CellOf(part[d], i - from) OBVIOUS
<1>3. DOMAIN m.buf = m.dist.devices BY DEF Buffered
<1>4. \A d \in m.dist.devices : DOMAIN m.buf[d] = 1 .. SizeOn(m, d)
  BY <1>0, <1>3 DEF Typed
<1> HIDE DEF cell
<1>5. \A d \in m.dist.devices : buf[d] = [i \in 1 .. SizeOn(m, d) |-> cell(d, i)]
  BY <1>3, <1>4
<1>6. DOMAIN buf = m.dist.devices BY <1>3
<1>7. host \in [1 .. k -> Label(k)]
  <2>1. Len(m.host) = k BY <1>0, Lengths
  <2>2. Other \in Label(k) BY DEF Label
  <2> HIDE DEF k
  <2> QED BY <2>1, <2>2 DEF Filled
<1> HIDE DEF buf, host
<1>8. DOMAIN g = Fields /\ SameShape(m, g) /\ g.host = host /\ g.buf = buf
  BY <1>0 DEF Typed, Fields, SameShape
<1> HIDE DEF g
<1>9. /\ DOMAIN n = Fields /\ SameShape(m, n) /\ n.host = host /\ n.buf = buf
      /\ n.hostUp = FALSE /\ n.devUp = TRUE
  BY <1>8 DEF DataOnDeviceModified, Fields, SameShape
<1> HIDE DEF n
<1>10. Typed(n)
  <2>1. \A d \in DOMAIN n.buf : n.buf[d] \in [1 .. SizeOn(m, d) -> Label(k)]
    <3> TAKE d \in DOMAIN n.buf
    <3>1. d \in m.dist.devices /\ n.buf[d] = buf[d] BY <1>6, <1>9
    <3>2. \A i \in 1 .. SizeOn(m, d) : cell(d, i) \in Label(k) BY <1>2, <3>1
    <3>3. buf[d] = [i \in 1 .. SizeOn(m, d) |-> cell(d, i)] BY <1>5, <3>1
    <3> HIDE DEF k
    <3> QED BY <3>1, <3>2, <3>3
  <2>2. DOMAIN n.buf = m.dist.devices BY <1>6, <1>9
  <2> QED BY <1>0, <1>7, <1>9, <2>1, <2>2, SameTyped
<1>11. /\ ElemCount(n) = k /\ (Tall(n) <=> Tall(m)) /\ Lead(n) = Lead(m)
       /\ \A d : Own(n, d) = Own(m, d) /\ Origin(n, d) = Origin(m, d)
  BY <1>9, Shape
<1>12. Roomy(n) BY <1>0, <1>3, <1>6, <1>9, <1>11 DEF Roomy
<1>13. OwnRight(n)
  <2> SUFFICES ASSUME NEW d \in m.dist.devices, NEW i \in 1 .. Own(m, d)
               PROVE  buf[d][Lead(m) + i] = Origin(m, d) + i
    BY <1>9, <1>11 DEF OwnRight, SameShape
  <2>1. /\ Lead(m) \in Nat /\ SizeOn(m, d) \in Nat /\ Own(m, d) \in Nat
        /\ SizeOn(m, d) = Own(m, d) + 2 * Lead(m)
    BY <1>0, PartsOfCells
  <2>2. Lead(m) + i \in 1 .. SizeOn(m, d) BY <2>1
  <2>3. buf[d][Lead(m) + i] = cell(d, Lead(m) + i) BY <1>5, <2>2
  <2> QED BY <1>2, <2>3
<1>14. Held(n)
  <2>1. Buffered(n) /\ IsValid(n.dist) BY <1>6, <1>9 DEF Buffered, SameShape
  <2> QED BY <1>9, <1>11, <1>13, <2>1 DEF Held
<1>15. Bordered(n) BY <1>9 DEF Bordered
<1> QED BY <1>1, <1>10, <1>12, <1>14, <1>15 DEF Right, Placed

-----------------------------------------------------------------------------
(***************************************************************************)
(* Outputs, and the skeletons that compute cell by cell.                   *)
(***************************************************************************)
\* Two matrices of one size of which every device has the same part.
Alike(m, n) ==
  /\ n.rows = m.rows /\ n.cols = m.cols
  /\ n.dist.kind = m.dist.kind /\ n.dist.devices = m.dist.devices
  /\ Radius(n) = Radius(m)

LEMMA AlikeParts ==
  ASSUME NEW m, NEW n, Alike(m, n)
  PROVE  /\ ElemCount(n) = ElemCount(m) /\ Lead(n) = Lead(m)
         /\ (IsValid(n.dist) <=> IsValid(m.dist))
         /\ \A d : /\ SizeOn(n, d) = SizeOn(m, d) /\ Own(n, d) = Own(m, d)
                   /\ Origin(n, d) = Origin(m, d)
<1>1. /\ n.rows = m.rows /\ n.cols = m.cols /\ Radius(n) = Radius(m)
      /\ n.dist.kind = m.dist.kind /\ (IsOverlap(n.dist) <=> IsOverlap(m.dist))
  BY DEF Alike, IsOverlap
<1>2. IsOverlap(m.dist) => n.dist.radius = m.dist.radius BY <1>1 DEF Radius
<1>3. \A d : RowsOn(n.dist, n.rows, d) = RowsOn(m.dist, m.rows, d)
  BY <1>1, <1>2 DEF RowsOn, SizeForDevice, OverlapRows
<1>4. \A d : FirstRow(n, d) = FirstRow(m, d) BY <1>1 DEF FirstRow
<1>5. \A d : OwnRows(n, d) = OwnRows(m, d) BY <1>1, <1>3 DEF OwnRows
<1> QED BY <1>1, <1>3, <1>4, <1>5 DEF ElemCount, Lead, IsValid, SizeOn, Own, Origin

LEMMA ShapeAlike ==
  ASSUME NEW m, NEW n, SameShape(m, n)
  PROVE  Alike(m, n)
BY DEF Alike, SameShape, Radius

\* The output, in the input's distribution: what its buffers hold does not matter.
LEMMA OutputPlaced ==
  ASSUME NEW x, Right(x), Usable(x), ElemCount(x) > 0,
         NEW in, IsValid(in.dist), in.dist \in MatrixDistribution, Tall(in),
         x.rows = in.rows, SameRange(x, in.dist),
         NEW n, n = WithDistributionOf(x, in)
  PROVE  /\ Placed(n) /\ Buffered(n) /\ ElemCount(n) > 0
         /\ n.rows = x.rows /\ n.cols = x.cols /\ n.dist = in.dist
<1> DEFINE y == SetDistribution(x, in.dist)
<1>1. Placed(y) /\ Usable(y) /\ y.dist = in.dist /\ y.rows = x.rows /\ y.cols = x.cols
  BY SetDistributionRight
<1>2. n = CreateDeviceBuffers(y) BY DEF WithDistributionOf
<1> HIDE DEF y
<1>3. Tall(y) BY <1>1 DEF Tall
<1>4. ElemCount(y) > 0 BY <1>1 DEF ElemCount
<1>5. Placed(n) /\ SameShape(y, n) /\ Buffered(n)
  BY <1>1, <1>2, <1>3, <1>4, CreatedRight
<1>6. ElemCount(n) > 0 BY <1>4, <1>5, Shape
<1> QED BY <1>1, <1>5, <1>6 DEF SameShape

LEMMA SizeAfter ==
  ASSUME NEW x, Right(x), Usable(x),
         NEW in, IsValid(in.dist), in.dist \in MatrixDistribution, SameRange(x, in.dist)
  PROVE  /\ WithDistributionOf(x, in).rows = x.rows
         /\ WithDistributionOf(x, in).cols = x.cols
<1> DEFINE y == SetDistribution(x, in.dist)
           buf == [d \in y.dist.devices |-> Filled(SizeOn(y, d), Other)]
<1>1. Placed(y) /\ y.rows = x.rows /\ y.cols = x.cols BY SetDistributionRight
<1>2. WithDistributionOf(x, in) = IF HasBuffers(y) THEN y ELSE [y EXCEPT !.buf = buf]
  BY DEF WithDistributionOf, CreateDeviceBuffers
<1> HIDE DEF y, buf
<1>3. DOMAIN y = Fields BY <1>1 DEF Placed, Typed
<1> QED BY <1>1, <1>2, <1>3 DEF Fields

LEMMA MapOutputPlaced ==
  ASSUME NEW out, Right(out), Usable(out),
         NEW in, Ready(in), Tall(in), SameRange(out, in.dist),
         NEW n, n = MapOutput(out, in), SameSize(n, in)
  PROVE  Placed(n) /\ Buffered(n) /\ ElemCount(n) > 0 /\ SameShape(in, n)
<1>1. /\ IsValid(in.dist) /\ in.dist \in MatrixDistribution /\ ElemCount(in) > 0
      /\ in.rows \in 0 .. MaxSize /\ in.cols \in Nat
  BY DEF Ready, Right, Placed, Typed
<1>2. n.rows = in.rows /\ n.cols = in.cols BY DEF SameSize
<1>3. CASE Smaller(out, in)
  <2> DEFINE x == Resize(out, in.rows, in.cols)
  <2>1. Right(x) /\ x.rows = in.rows /\ x.cols = in.cols /\ x.hostUp = TRUE
        /\ DOMAIN x.buf = {}
    <3>1. in.rows \in 0 .. MaxSize /\ in.cols \in Nat BY <1>1
    <3>2. Emptied(x, in.rows, in.cols, out.dist) BY <3>1, ResizeRight
    <3> HIDE DEF x
    <3> QED BY <3>2 DEF Emptied
  <2>2. n = WithDistributionOf(x, in) BY <1>3 DEF MapOutput
  <2> HIDE DEF x
  <2>3. Usable(x) /\ SameRange(x, in.dist) BY <2>1 DEF Usable, SameRange, HasBuffers
  <2>4. ElemCount(x) > 0 BY <1>1, <2>1 DEF ElemCount
  <2>5. Placed(n) /\ Buffered(n) /\ ElemCount(n) > 0 /\ n.dist = in.dist
    BY <1>1, <2>1, <2>2, <2>3, <2>4, OutputPlaced
  <2> QED BY <1>2, <2>5 DEF SameShape
<1>4. CASE ~ Smaller(out, in)
  <2>1. n = WithDistributionOf(out, in) BY <1>4 DEF MapOutput
  <2>2. n.rows = out.rows /\ n.cols = out.cols BY <1>1, <2>1, SizeAfter
  <2>3. ElemCount(out) > 0 /\ out.rows = in.rows
    <3>1. out.rows = in.rows /\ out.cols = in.cols BY <1>2, <2>2
    <3> QED BY <1>1, <3>1 DEF ElemCount
  <2>4. Placed(n) /\ Buffered(n) /\ ElemCount(n) > 0 /\ n.dist = in.dist
    BY <1>1, <2>1, <2>3, OutputPlaced
  <2> QED BY <1>2, <2>4 DEF SameShape
<1> QED BY <1>3, <1>4

LEMMA ReadyPlaced ==
  ASSUME NEW m, Ready(m)
  PROVE  Placed(m) /\ Buffered(m) /\ ElemCount(m) > 0 /\ IsValid(m.dist)
BY DEF Ready, Right

\* Map and Zip: cell by cell.
LEMMA PointwiseRight ==
  ASSUME NEW in, Ready(in), NEW out, Placed(out), Buffered(out), Alike(in, out),
         NEW part, DOMAIN part = in.dist.devices,
         \A d \in in.dist.devices :
           /\ \A i \in DOMAIN part[d] :
                part[d][i] = Other
                  \/ (i \in 1 .. SizeOn(in, d) /\ part[d][i] = BufferOf(in, d)[i])
           /\ \A i \in 1 .. Own(in, d) :
                /\ Lead(in) + i \in DOMAIN part[d]
                /\ part[d][Lead(in) + i] = Origin(in, d) + i
  PROVE  Right(Computed(out, 0, part))
<1>1. /\ ElemCount(out) = ElemCount(in) /\ Lead(out) = Lead(in) /\ IsValid(out.dist)
      /\ out.dist.devices = in.dist.devices
      /\ \A d : /\ SizeOn(out, d) = SizeOn(in, d) /\ Own(out, d) = Own(in, d)
                /\ Origin(out, d) = Origin(in, d)
  BY AlikeParts, ReadyPlaced DEF Alike
<1>2. ElemCount(out) > 0 BY <1>1, ReadyPlaced
<1>3. ASSUME NEW d \in in.dist.devices, NEW i \in 1 .. SizeOn(in, d)
      PROVE  CellOf(part[d], i - 0) \in Label(ElemCount(in))
  <2>1. BufferOf(in, d) \in [1 .. SizeOn(in, d) -> Label(ElemCount(in))] BY ReadyCells
  <2>2. BufferOf(in, d)[i] \in Label(ElemCount(in)) BY <2>1
  <2>3. Other \in Label(ElemCount(in)) BY DEF Label
  <2>4. i - 0 = i OBVIOUS
  <2>5. CellOf(part[d], i) = Other \/ CellOf(part[d], i) = BufferOf(in, d)[i]
    BY DEF CellOf
  <2> QED BY <2>2, <2>3, <2>4, <2>5
<1>4. ASSUME NEW d \in in.dist.devices, NEW i \in 1 .. Own(in, d)
      PROVE  CellOf(part[d], (Lead(in) + i) - 0) = Origin(in, d) + i
  <2>1. Lead(in) \in Nat BY ReadyPlaced, PartsOfCells DEF Placed
  <2>2. (Lead(in) + i) - 0 = Lead(in) + i BY <2>1
  <2>3. CellOf(part[d], Lead(in) + i) = Origin(in, d) + i BY DEF CellOf
  <2> QED BY <2>2, <2>3
<1> QED BY <1>1, <1>2, <1>3, <1>4, ComputedRight

LEMMA MapRight ==
  ASSUME NEW in, Ready(in), NEW out, Placed(out), Buffered(out), Alike(in, out)
  PROVE  Right(Computed(out, 0, [d \in in.dist.devices |-> MapPart(in, d)]))
<1> DEFINE part == [d \in in.dist.devices |-> MapPart(in, d)]
<1>1. ASSUME NEW d \in in.dist.devices
      PROVE  /\ \A i \in DOMAIN part[d] :
                part[d][i] = Other
                  \/ (i \in 1 .. SizeOn(in, d) /\ part[d][i] = BufferOf(in, d)[i])
             /\ \A i \in 1 .. Own(in, d) :
                /\ Lead(in) + i \in DOMAIN part[d]
                /\ part[d][Lead(in) + i] = Origin(in, d) + i
  <2> DEFINE cells == BufferOf(in, d)
  <2>1. DOMAIN cells = 1 .. SizeOn(in, d) BY ReadyCells
  <2>2. \A i \in 1 .. Own(in, d) :
          /\ Lead(in) + i \in 1 .. SizeOn(in, d)
          /\ cells[Lead(in) + i] = Origin(in, d) + i
          /\ Origin(in, d) + i \in 1 .. ElemCount(in)
    BY ReadyCells
  <2>3. part[d] = [i \in DOMAIN cells |-> IF cells[i] > 0 THEN cells[i] ELSE Other]
    BY DEF MapPart
  <2> HIDE DEF cells, part
  <2>4. \A i \in 1 .. Own(in, d) : cells[Lead(in) + i] > 0 BY <2>2
  <2> QED BY <2>1, <2>2, <2>3, <2>4 DEF cells
<1>2. DOMAIN part = in.dist.devices OBVIOUS
<1> HIDE DEF part
<1>3. Right(Computed(out, 0, part)) BY <1>1, <1>2, PointwiseRight
<1> QED BY <1>3 DEF part

LEMMA ZipRight ==
  ASSUME NEW l, Ready(l), NEW r, Ready(r), Alike(l, r),
         NEW out, Placed(out), Buffered(out), Alike(l, out)
  PROVE  Right(Computed(out, 0, [d \in l.dist.devices |-> ZipPart(l, r, d)]))
<1> DEFINE part == [d \in l.dist.devices |-> ZipPart(l, r, d)]
<1>1. ASSUME NEW d \in l.dist.devices
      PROVE  /\ \A i \in DOMAIN part[d] :
                part[d][i] = Other
                  \/ (i \in 1 .. SizeOn(l, d) /\ part[d][i] = BufferOf(l, d)[i])
             /\ \A i \in 1 .. Own(l, d) :
                /\ Lead(l) + i \in DOMAIN part[d]
                /\ part[d][Lead(l) + i] = Origin(l, d) + i
  <2> DEFINE cells == BufferOf(l, d)
             other == BufferOf(r, d)
  <2>1. DOMAIN cells = 1 .. SizeOn(l, d) BY ReadyCells
  <2>2. \A i \in 1 .. Own(l, d) :
          /\ Lead(l) + i \in 1 .. SizeOn(l, d)
          /\ cells[Lead(l) + i] = Origin(l, d) + i
          /\ Origin(l, d) + i \in 1 .. ElemCount(l)
    BY ReadyCells
  <2>3. /\ Lead(r) = Lead(l) /\ SizeOn(r, d) = SizeOn(l, d) /\ Own(r, d) = Own(l, d)
        /\ Origin(r, d) = Origin(l, d) /\ d \in r.dist.devices
    BY AlikeParts DEF Alike
  <2>4. DOMAIN other = 1 .. SizeOn(l, d) BY <2>3, ReadyCells
  <2>5. \A i \in 1 .. Own(l, d) : other[Lead(l) + i] = Origin(l, d) + i
    BY <2>3, ReadyCells
  <2>6. part[d] = [i \in DOMAIN cells |->
                     IF cells[i] > 0 /\ CellOf(other, i) = cells[i]
                     THEN cells[i] ELSE Other]
    BY DEF ZipPart
  <2> HIDE DEF cells, other, part
  <2>7. \A i \in 1 .. Own(l, d) :
          cells[Lead(l) + i] > 0 /\ CellOf(other, Lead(l) + i) = cells[Lead(l) + i]
    BY <2>2, <2>4, <2>5 DEF CellOf
  <2> QED BY <2>1, <2>2, <2>6, <2>7 DEF cells
<1>2. DOMAIN part = l.dist.devices OBVIOUS
<1> HIDE DEF part
<1>3. Right(Computed(out, 0, part)) BY <1>1, <1>2, PointwiseRight
<1> QED BY <1>3 DEF part

-----------------------------------------------------------------------------
(***************************************************************************)
(* MapOverlap, row by row.                                                 *)
(***************************************************************************)
LEMMA Quotient ==
  ASSUME NEW a \in Nat, NEW b \in Nat \ {0}
  PROVE  (a * b) \div b = a
<1> DEFINE i == ((a + 1) - 1) * b + 1
<1>1. 1 + ((i - 1) \div b) = a + 1
  <2>1. a + 1 \in Nat \ {0} /\ 1 \in 1 .. b OBVIOUS
  <2> QED BY <2>1, ColumnOf
<1>2. a * b \in Nat BY Distributes
<1>3. i - 1 = a * b
  <2>1. (a + 1) - 1 = a OBVIOUS
  <2>2. i = a * b + 1 BY <2>1
  <2> HIDE DEF i
  <2> QED BY <1>2, <2>2
<1> HIDE DEF i
<1>4. (a * b) \div b \in Int
  <2> DEFINE n == a * b
  <2> HIDE DEF n
  <2> QED BY <1>2, Division DEF n
<1> DEFINE x == (a * b) \div b
<1>5. 1 + x = a + 1 /\ x \in Int BY <1>1, <1>3, <1>4
<1> HIDE DEF x
<1> QED BY <1>5 DEF x

LEMMA PaddedRowFcn ==
  ASSUME NEW m, NEW v, NEW padding
  PROVE  PaddedRow(m, v, padding)
           = [c \in 1 .. m.cols |-> PaddedRow(m, v, padding)[c]]
<1>1. CASE v \in 1 .. m.rows BY <1>1 DEF PaddedRow, RowLabels
<1>2. CASE v \notin 1 .. m.rows /\ padding = "NEUTRAL"
  BY <1>2 DEF PaddedRow, Filled
<1>3. CASE v \notin 1 .. m.rows /\ padding # "NEUTRAL"
  <2>1. PaddedRow(m, v, padding) = RowLabels(m, IF v < 1 THEN 1 ELSE m.rows)
    BY <1>3 DEF PaddedRow
  <2> DEFINE w == IF v < 1 THEN 1 ELSE m.rows
  <2> HIDE DEF w
  <2>2. RowLabels(m, w) = [c \in 1 .. m.cols |-> RowLabels(m, w)[c]] BY DEF RowLabels
  <2> QED BY <2>1, <2>2 DEF w
<1> QED BY <1>1, <1>2, <1>3

\* The rows of an operand: those of a device, and one that is its own.
LEMMA ReadyRows ==
  ASSUME NEW m, Ready(m), NEW d \in m.dist.devices
  PROVE  /\ m.rows \in Nat \ {0} /\ m.cols \in Nat \ {0}
         /\ Radius(m) \in Nat /\ FirstRow(m, d) \in Nat /\ OwnRows(m, d) \in Nat
         /\ FirstRow(m, d) + OwnRows(m, d) <= m.rows
         /\ SizeOn(m, d) = (OwnRows(m, d) + 2 * Radius(m)) * m.cols
         /\ Len(BufferOf(m, d)) = SizeOn(m, d)
         /\ DOMAIN BufferOf(m, d) = 1 .. SizeOn(m, d)
<1>1. Typed(m) /\ Buffered(m) /\ IsValid(m.dist) /\ ElemCount(m) > 0
  BY ReadyPlaced DEF Placed
<1>2. m.rows \in Nat \ {0} /\ m.cols \in Nat \ {0} BY <1>1, Counts
<1>3. m.dist \in MatrixDistribution /\ m.rows \in 0 .. MaxSize BY <1>1 DEF Typed
<1>4. /\ Radius(m) \in Nat /\ FirstRow(m, d) \in Nat /\ OwnRows(m, d) \in Nat
      /\ FirstRow(m, d) + OwnRows(m, d) <= m.rows
      /\ RowsOn(m.dist, m.rows, d) = OwnRows(m, d) + 2 * Radius(m)
  BY <1>1, <1>3, PartsOfRows
<1>5. SizeOn(m, d) = (OwnRows(m, d) + 2 * Radius(m)) * m.cols BY <1>4 DEF SizeOn
<1>6. Len(m.buf[d]) = SizeOn(m, d) /\ DOMAIN m.buf[d] = 1 .. SizeOn(m, d)
  BY <1>1, Lengths
<1>7. BufferOf(m, d) = m.buf[d] BY <1>1 DEF BufferOf, Buffered
<1> QED BY <1>2, <1>4, <1>5, <1>6, <1>7

\* A row and a column for a cell of the first rows.
LEMMA InRows ==
  ASSUME NEW cols \in Nat \ {0}, NEW own \in Nat, NEW e \in 1 .. own * cols
  PROVE  /\ 1 + ((e - 1) \div cols) \in 1 .. own
         /\ 1 + ((e - 1) % cols) \in 1 .. cols
         /\ e = (1 + ((e - 1) \div cols) - 1) * cols + (1 + ((e - 1) % cols))
<1> DEFINE r == 1 + ((e - 1) \div cols)
           c == 1 + ((e - 1) % cols)
<1>1. e \in Nat \ {0} OBVIOUS
<1>2. r \in Nat \ {0} /\ c \in 1 .. cols /\ e = (r - 1) * cols + c BY <1>1, RowOf
<1> HIDE DEF r, c
<1>3. (r - 1) * cols + c <= own * cols BY <1>2
<1>4. r <= own
  <2>1. r \in Int /\ own \in Int BY <1>2
  <2> QED BY <1>2, <1>3, <2>1, CellAt
<1> QED BY <1>2, <1>4 DEF r, c

\* The cells of a row, by where it is among all of them.
LEMMA CellOfRow ==
  ASSUME NEW cols \in Nat, NEW first \in Nat, NEW r \in Nat, NEW c \in Nat
  PROVE  ((first + r) - 1) * cols + c = first * cols + ((r - 1) * cols + c)
<1>1. (first + (r - 1)) * cols = first * cols + (r - 1) * cols BY Distributes
<1>2. first * cols \in Int /\ (r - 1) * cols \in Int BY Distributes
<1>3. (first + r) - 1 = first + (r - 1) OBVIOUS
<1> DEFINE x == first * cols
           y == (r - 1) * cols
           z == ((first + r) - 1) * cols
<1>4. z = x + y /\ x \in Int /\ y \in Int BY <1>1, <1>2, <1>3
<1> HIDE DEF x, y, z
<1>5. z + c = x + (y + c) BY <1>4
<1> QED BY <1>5 DEF x, y, z

LEMMA ItemRowsInt ==
  ASSUME NEW in, NEW o, NEW d, PartElements(in, o, d) \in Nat, in.rows \in Nat \ {0}
  PROVE  ItemRows(in, o, d) \in Int
<1> DEFINE a == PartElements(in, o, d) \div in.rows
<1>1. a \in Nat
  <2> DEFINE n == PartElements(in, o, d)
  <2> HIDE DEF n
  <2>1. n \in Nat => n \div in.rows \in Nat BY Division
  <2> QED BY <2>1 DEF n
<1>2. ItemRows(in, o, d) = KernelCode!CeilToMultipleOf(a, Side) BY DEF ItemRows
<1> HIDE DEF a
<1>3. KernelCode!CeilToMultipleOf(a, Side) \in Int
  BY <1>1, SideAssumption DEF KernelCode!CeilToMultipleOf, KernelCode!CeilDiv
<1> QED BY <1>2, <1>3

\* What a device computes for a shape that the kernel is right for.
LEMMA OverlapPartIs ==
  ASSUME NEW in, Ready(in), in.hostUp, IsOverlap(in.dist),
         NEW o, o.radius = in.dist.radius, o.padding = in.dist.padding,
         AllRows(in, o), WholeTiles(in), Narrow(o),
         NEW d \in in.dist.devices, d \in Device
  PROVE  /\ DOMAIN OverlapPart(in, o, d) = 1 .. Own(in, d)
         /\ \A e \in 1 .. Own(in, d) : OverlapPart(in, o, d)[e] = Origin(in, d) + e
<1> DEFINE cells == BufferOf(in, d)
           cols == in.cols
           q == o.radius
           first == FirstRow(in, d)
           own == OwnRows(in, d)
           wide == own + 2 * q
           height == PartElements(in, o, d) \div in.cols
           done(r) == r <= ItemRows(in, o, d) /\ WholeTiles(in) /\ Narrow(o)
           is(r, i) == \A k \in 0 .. 2 * o.radius :
             Row(cells, r + k, in.cols) = PaddedRow(in, i - o.radius + k, o.padding)
           row(r) == {i \in 1 .. in.rows : is(r, i)}
           labels(i) == RowLabels(in, i)
<1>1. /\ in.rows \in Nat \ {0} /\ cols \in Nat \ {0} /\ q \in Nat /\ first \in Nat
      /\ own \in Nat /\ first + own <= in.rows
      /\ SizeOn(in, d) = wide * cols /\ Len(cells) = SizeOn(in, d)
      /\ DOMAIN cells = 1 .. SizeOn(in, d)
  BY ReadyRows DEF Radius
<1>2. \A i \in 1 .. SizeOn(in, d) : cells[i] = Wanted(in, d, i)
  <2>1. in.devUp /\ ElemCount(in) > 0 /\ Bordered(in) /\ Buffered(in)
    BY DEF Ready, Right
  <2>2. cells = in.buf[d] BY <2>1 DEF BufferOf, Buffered
  <2> HIDE DEF cells
  <2> QED BY <2>1, <2>2 DEF Bordered
<1>3. height = own /\ PartElements(in, o, d) = own * cols
  <2>1. wide \in Nat BY <1>1
  <2>2. PartElements(in, o, d) = wide * cols - (2 * q) * cols
    BY <1>1 DEF PartElements
  <2>3. (wide - 2 * q) * cols = wide * cols - (2 * q) * cols
    <3>1. wide \in Int /\ 2 * q \in Int /\ cols \in Int BY <1>1, <2>1
    <3> HIDE DEF wide, cols, q
    <3> QED BY <3>1, Distributes
  <2>4. wide - 2 * q = own BY <1>1
  <2>5. PartElements(in, o, d) = own * cols BY <2>2, <2>3, <2>4
  <2>6. (own * cols) \div cols = own
    <3> HIDE DEF own, cols
    <3> QED BY <1>1, Quotient
  <2> QED BY <2>5, <2>6
<1>4. Own(in, d) = own * cols /\ Origin(in, d) = first * cols BY DEF Own, Origin
<1>5. OverlapPart(in, o, d) =
        [e \in 1 .. height * in.cols |->
           IF ~ done(1 + ((e - 1) \div in.cols)) \/ row(1 + ((e - 1) \div in.cols)) = {}
           THEN Other
           ELSE labels(CHOOSE i \in row(1 + ((e - 1) \div in.cols)) : TRUE)
                  [1 + ((e - 1) % in.cols)]]
  BY DEF OverlapPart
<1>12. \A r \in 1 .. own : done(r)
  <2>1. height <= ItemRows(in, o, d) BY DEF AllRows
  <2>2. own <= ItemRows(in, o, d) BY <1>3, <2>1
  <2>3. own * cols \in Nat
    <3> HIDE DEF own, cols
    <3> QED BY <1>1, Distributes
  <2>4. ItemRows(in, o, d) \in Int BY <1>1, <1>3, <2>3, ItemRowsInt
  <2> HIDE DEF own
  <2>5. \A r \in 1 .. own : r <= ItemRows(in, o, d)
    <3> HIDE DEF own
    <3> QED BY <1>1, <2>2, <2>4
  <2> QED BY <2>5
<1> HIDE DEF height, done
<1>6. ASSUME NEW w \in 1 .. wide, NEW c \in 1 .. cols
      PROVE  CellOf(cells, (w - 1) * cols + c)
               = PaddedRow(in, (first + w) - q, o.padding)[c]
  <2> DEFINE i == (w - 1) * cols + c
  <2>1. i \in 1 .. wide * cols
    <3>1. w \in Int /\ wide \in Int /\ w >= 1 /\ w <= wide /\ cols \in Nat \ {0}
      BY <1>1
    <3> HIDE DEF wide, cols
    <3>2. /\ i \in Int /\ wide * cols \in Int
          /\ i >= 1 <=> w >= 1
          /\ i <= wide * cols <=> w <= wide
      BY <3>1, CellAt, Distributes
    <3> HIDE DEF i
    <3> QED BY <3>1, <3>2
  <2>2. 1 + ((i - 1) \div cols) = w /\ 1 + ((i - 1) % cols) = c
    <3>1. w \in Nat \ {0} /\ cols \in Nat \ {0} BY <1>1
    <3> HIDE DEF cols
    <3> QED BY <3>1, ColumnOf
  <2> HIDE DEF i
  <2>3. CellOf(cells, i) = Wanted(in, d, i)
    <3> HIDE DEF wide, cells
    <3> QED BY <1>1, <1>2, <2>1 DEF CellOf
  <2> DEFINE x == (i - 1) \div cols
  <2>4. x \in Int
    <3>1. i - 1 \in Nat BY <2>1
    <3> HIDE DEF cols
    <3> QED BY <1>1, <3>1, Division
  <2>5. first + 1 + x - q = (first + w) - q
    <3>1. 1 + x = w BY <2>2
    <3> HIDE DEF x, first, q
    <3> QED BY <1>1, <2>4, <3>1
  <2>6. Wanted(in, d, i)
          = PaddedRow(in, first + 1 + x - q, o.padding)[1 + ((i - 1) % cols)]
    BY DEF Wanted
  <2> HIDE DEF x
  <2> QED BY <2>2, <2>3, <2>5, <2>6 DEF i
<1>7. ASSUME NEW r \in 1 .. own PROVE is(r, first + r)
  <2> SUFFICES ASSUME NEW k \in 0 .. 2 * q
               PROVE  Row(cells, r + k, cols)
                        = PaddedRow(in, (first + r) - q + k, o.padding)
    OBVIOUS
  <2> DEFINE w == r + k
             padded == PaddedRow(in, (first + w) - q, o.padding)
  <2>1. w \in 1 .. wide
    <3>1. own \in Nat /\ q \in Nat /\ r \in 1 .. own /\ k \in 0 .. 2 * q BY <1>1
    <3> HIDE DEF own, q
    <3> QED BY <3>1
  <2>2. (first + r) - q + k = (first + w) - q BY <1>1
  <2> HIDE DEF w
  <2>3. padded = [c \in 1 .. cols |-> padded[c]]
    <3> DEFINE v == (first + w) - q
    <3> HIDE DEF v
    <3>1. PaddedRow(in, v, o.padding) = [c \in 1 .. cols |-> PaddedRow(in, v, o.padding)[c]]
      BY PaddedRowFcn
    <3> QED BY <3>1 DEF v
  <2>4. Row(cells, w, cols) = [c \in 1 .. cols |-> CellOf(cells, (w - 1) * cols + c)]
    BY DEF Row
  <2>5. \A c \in 1 .. cols : CellOf(cells, (w - 1) * cols + c) = padded[c]
    BY <1>6, <2>1
  <2>6. Row(cells, w, cols) = padded
    <3> HIDE DEF padded, cells, cols
    <3> QED BY <2>3, <2>4, <2>5
  <2> QED BY <2>2, <2>6 DEF w
<1>8. ASSUME NEW r \in 1 .. own, NEW i \in row(r)
      PROVE  labels(i) = labels(first + r)
  <2>1. q \in 0 .. 2 * q BY <1>1
  <2>2. i \in 1 .. in.rows /\ first + r \in 1 .. in.rows BY <1>1
  <2>3. i - q + q = i /\ (first + r) - q + q = first + r BY <1>1, <2>2
  <2>4. Row(cells, r + q, cols) = PaddedRow(in, i, o.padding) BY <2>1, <2>3
  <2>5. Row(cells, r + q, cols) = PaddedRow(in, first + r, o.padding)
    <3>1. is(r, first + r) BY <1>7
    <3> QED BY <2>1, <2>3, <3>1
  <2> QED BY <2>2, <2>4, <2>5 DEF PaddedRow
<1>9. \A r \in 1 .. own : first + r \in row(r)
  <2> TAKE r \in 1 .. own
  <2>1. first + r \in 1 .. in.rows BY <1>1
  <2>2. is(r, first + r) BY <1>7
  <2> HIDE DEF is
  <2> QED BY <2>1, <2>2
<1> HIDE DEF row
<1>10. ASSUME NEW e \in 1 .. own * cols
       PROVE  OverlapPart(in, o, d)[e] = first * cols + e
  <2> DEFINE r == 1 + ((e - 1) \div cols)
             c == 1 + ((e - 1) % cols)
  <2>1. r \in 1 .. own /\ c \in 1 .. cols /\ e = (r - 1) * cols + c
    <3>1. own \in Nat /\ cols \in Nat \ {0} BY <1>1
    <3> HIDE DEF cols, own
    <3> QED BY <3>1, InRows
  <2>2. OverlapPart(in, o, d)[e]
          = IF ~ done(r) \/ row(r) = {} THEN Other
            ELSE labels(CHOOSE i \in row(r) : TRUE)[c]
    <3> HIDE DEF own, labels
    <3> QED BY <1>3, <1>5
  <2> HIDE DEF r, c
  <2>3. (CHOOSE i \in row(r) : TRUE) \in row(r) /\ row(r) # {} BY <1>9, <2>1
  <2>4. OverlapPart(in, o, d)[e] = labels(first + r)[c]
    <3> HIDE DEF labels
    <3> QED BY <1>8, <1>12, <2>1, <2>2, <2>3
  <2>5. labels(first + r)[c] = ((first + r) - 1) * cols + c BY <2>1 DEF RowLabels
  <2>6. ((first + r) - 1) * cols + c = first * cols + ((r - 1) * cols + c)
    <3>1. r \in Nat /\ c \in Nat /\ cols \in Nat /\ first \in Nat BY <1>1, <2>1
    <3> HIDE DEF cols, first
    <3> QED BY <3>1, CellOfRow
  <2> QED BY <2>1, <2>4, <2>5, <2>6
<1>11. DOMAIN OverlapPart(in, o, d) = 1 .. own * cols
  <2> HIDE DEF labels, own
  <2> QED BY <1>3, <1>5
<1> QED BY <1>4, <1>10, <1>11

\* What has been computed row by row.
LEMMA ByRowsRight ==
  ASSUME NEW out, Placed(out), Buffered(out), IsValid(out.dist), ElemCount(out) > 0,
         NEW from, from = Lead(out), NEW part, DOMAIN part = out.dist.devices,
         \A d \in out.dist.devices :
           /\ DOMAIN part[d] = 1 .. Own(out, d)
           /\ \A e \in 1 .. Own(out, d) : part[d][e] = Origin(out, d) + e
  PROVE  Right(Computed(out, from, part))
<1>0. Typed(out) /\ ElemCount(out) \in Nat BY Counts DEF Placed
<1>1. /\ Lead(out) \in Nat
      /\ \A d \in out.dist.devices :
           /\ SizeOn(out, d) \in Nat /\ Own(out, d) \in Nat /\ Origin(out, d) \in Nat
           /\ Origin(out, d) + Own(out, d) <= ElemCount(out)
  BY <1>0, PartsOfCells
<1>2. from \in Int BY <1>1
<1>3. ASSUME NEW d \in out.dist.devices, NEW i \in 1 .. SizeOn(out, d)
      PROVE  CellOf(part[d], i - from) \in Label(ElemCount(out))
  <2> DEFINE e == i - from
  <2>1. CASE e \in 1 .. Own(out, d)
    <3>1. CellOf(part[d], e) = Origin(out, d) + e BY <2>1 DEF CellOf
    <3>2. Origin(out, d) + e \in 1 .. ElemCount(out) BY <1>0, <1>1, <2>1
    <3> HIDE DEF e
    <3> QED BY <3>1, <3>2 DEF Label, e
  <2>2. CASE e \notin 1 .. Own(out, d)
    <3>1. CellOf(part[d], e) = Other BY <2>2 DEF CellOf
    <3> QED BY <3>1 DEF Label
  <2> QED BY <2>1, <2>2
<1>4. ASSUME NEW d \in out.dist.devices, NEW i \in 1 .. Own(out, d)
      PROVE  CellOf(part[d], (Lead(out) + i) - from) = Origin(out, d) + i
  <2>1. (Lead(out) + i) - from = i BY <1>1
  <2> QED BY <2>1 DEF CellOf
<1> QED BY <1>2, <1>3, <1>4, ComputedRight

LEMMA OverlapRight ==
  ASSUME NEW in, Ready(in), in.hostUp, IsOverlap(in.dist), in.dist.devices = Device,
         NEW o, o.radius = in.dist.radius, o.padding = in.dist.padding,
         AllRows(in, o), WholeTiles(in), Narrow(o),
         NEW out, Placed(out), Buffered(out), SameShape(in, out)
  PROVE  Right(Computed(out, o.radius * out.cols,
                        [d \in in.dist.devices |-> OverlapPart(in, o, d)]))
<1> DEFINE part == [d \in in.dist.devices |-> OverlapPart(in, o, d)]
<1>1. /\ ElemCount(out) = ElemCount(in) /\ Lead(out) = Lead(in)
      /\ \A d : Own(out, d) = Own(in, d) /\ Origin(out, d) = Origin(in, d)
  BY Shape
<1>2. IsValid(out.dist) /\ ElemCount(out) > 0 /\ out.dist.devices = in.dist.devices
  BY <1>1, ReadyPlaced DEF SameShape
<1>3. o.radius * out.cols = Lead(out) BY <1>1 DEF Lead, Radius, SameShape
<1>4. DOMAIN part = out.dist.devices BY <1>2
<1>5. ASSUME NEW d \in out.dist.devices
      PROVE  /\ DOMAIN part[d] = 1 .. Own(out, d)
             /\ \A e \in 1 .. Own(out, d) : part[d][e] = Origin(out, d) + e
  <2>1. part[d] = OverlapPart(in, o, d) BY <1>2
  <2> QED BY <1>1, <1>2, <2>1, OverlapPartIs
<1> HIDE DEF part
<1>6. Right(Computed(out, o.radius * out.cols, part))
  BY <1>2, <1>3, <1>4, <1>5, ByRowsRight
<1> QED BY <1>6 DEF part

-----------------------------------------------------------------------------
(***************************************************************************)
(* AllPairs.                                                               *)
(***************************************************************************)
\* The matrix that every device has as a whole.
LEMMA WholeOperand ==
  ASSUME NEW m, Ready(m), m.dist.kind \in {"single", "copy"},
         NEW d \in m.dist.devices
  PROVE  BufferOf(m, d) = Elements(ElemCount(m))
<1>1. ~ IsOverlap(m.dist) /\ IsValid(m.dist) BY DEF IsOverlap, IsValid
<1>2. Typed(m) /\ ElemCount(m) \in Nat BY ReadyPlaced, Counts DEF Placed
<1>3. Lead(m) = 0 BY <1>1, <1>2, PartsOfCells
<1>4. SizeOn(m, d) = ElemCount(m)
  <2>1. RowsOn(m.dist, m.rows, d) = m.rows BY <1>1 DEF RowsOn, SizeForDevice, IsOverlap
  <2> QED BY <2>1 DEF SizeOn, ElemCount
<1>5. Own(m, d) = ElemCount(m)
  <2>1. SizeOn(m, d) = Own(m, d) + 2 * Lead(m) /\ Own(m, d) \in Nat
    BY <1>1, <1>2, PartsOfCells
  <2> QED BY <1>3, <1>4, <2>1
<1>6. Origin(m, d) = 0
  <2>1. FirstRow(m, d) = 0 BY <1>1 DEF FirstRow
  <2>2. m.cols \in Nat BY <1>2 DEF Typed
  <2> QED BY <2>1, <2>2 DEF Origin
<1> DEFINE n == ElemCount(m)
           b == BufferOf(m, d)
<1>7. b \in [1 .. n -> Label(n)]
  <2>1. BufferOf(m, d) \in [1 .. SizeOn(m, d) -> Label(ElemCount(m))] BY ReadyCells
  <2> QED BY <1>4, <2>1
<1>8. \A i \in 1 .. n : b[i] = i
  <2> TAKE i \in 1 .. n
  <2>1. BufferOf(m, d)[Lead(m) + i] = Origin(m, d) + i BY <1>5, ReadyCells
  <2>2. 0 + i = i OBVIOUS
  <2> QED BY <1>3, <1>6, <2>1, <2>2
<1> HIDE DEF n, b
<1>9. b = Elements(n) BY <1>7, <1>8 DEF Elements
<1> QED BY <1>9 DEF b, n

LEMMA ProductPartIs ==
  ASSUME NEW l, Ready(l), ~ IsOverlap(l.dist),
         NEW r, Ready(r), r.dist.kind \in {"single", "copy"},
         l.dist.devices \subseteq r.dist.devices,
         NEW out, Placed(out), Buffered(out), ElemCount(out) > 0,
         out.dist = l.dist, out.rows = l.rows, out.cols = r.cols,
         NEW d \in out.dist.devices
  PROVE  /\ DOMAIN ProductPart(out, l, r, d) = 1 .. Own(out, d)
         /\ \A e \in 1 .. Own(out, d) :
              ProductPart(out, l, r, d)[e] = Origin(out, d) + e
<1> DEFINE cells == BufferOf(l, d)
           wide == l.cols
           cols == r.cols
           first == FirstRow(out, d)
           own == OwnRows(out, d)
           height == Len(BufferOf(out, d)) \div r.cols
           row(w) == {i \in 1 .. l.rows :
                        Row(BufferOf(l, d), w, l.cols) = RowLabels(l, i)}
           column(c) ==
             Column(BufferOf(r, d), c, r.rows, r.cols)
               = Column(Elements(ElemCount(r)), c, r.rows, r.cols)
           labels(i) == RowLabels(r, i)
<1>1. /\ l.rows \in Nat \ {0} /\ wide \in Nat \ {0} /\ first \in Nat /\ own \in Nat
      /\ first + own <= l.rows
      /\ SizeOn(l, d) = own * wide /\ DOMAIN cells = 1 .. SizeOn(l, d)
      /\ RowsOn(l.dist, l.rows, d) = own
  <2>1. Radius(l) = 0 /\ Radius(out) = 0 BY DEF Radius
  <2>2. FirstRow(l, d) = first BY DEF FirstRow
  <2>3. OwnRows(l, d) = own BY <2>1 DEF OwnRows
  <2>4. /\ l.rows \in Nat \ {0} /\ l.cols \in Nat \ {0} /\ FirstRow(l, d) \in Nat
        /\ OwnRows(l, d) \in Nat /\ FirstRow(l, d) + OwnRows(l, d) <= l.rows
        /\ SizeOn(l, d) = (OwnRows(l, d) + 2 * Radius(l)) * l.cols
        /\ DOMAIN BufferOf(l, d) = 1 .. SizeOn(l, d)
    BY ReadyRows
  <2>5. OwnRows(l, d) + 2 * Radius(l) = own BY <2>1, <2>3, <2>4
  <2>6. RowsOn(l.dist, l.rows, d) = own
    <3>1. RowsOn(l.dist, l.rows, d) \in Nat
      <4>1. l.dist \in MatrixDistribution /\ l.rows \in 0 .. MaxSize /\ IsValid(l.dist)
        BY ReadyPlaced DEF Placed, Typed
      <4> QED BY <4>1, PartsOfRows
    <3>2. OwnRows(l, d) = RowsOn(l.dist, l.rows, d) - 2 * 0 BY <2>1 DEF OwnRows
    <3> QED BY <2>3, <3>1, <3>2
  <2> QED BY <2>2, <2>3, <2>4, <2>5, <2>6
<1>2. cols \in Nat \ {0}
  <2>1. d \in r.dist.devices OBVIOUS
  <2> QED BY <2>1, ReadyRows
<1>3. height = own
  <2>1. Typed(out) /\ IsValid(out.dist) BY ReadyPlaced DEF Placed
  <2>2. Len(out.buf[d]) = SizeOn(out, d) BY <2>1, Lengths
  <2>3. BufferOf(out, d) = out.buf[d] BY DEF BufferOf, Buffered
  <2>4. SizeOn(out, d) = own * cols BY <1>1 DEF SizeOn
  <2>5. own \in Nat /\ cols \in Nat \ {0} BY <1>1, <1>2
  <2>6. height = (own * cols) \div cols BY <2>2, <2>3, <2>4
  <2> HIDE DEF height, own, cols
  <2> QED BY <2>5, <2>6, Quotient
<1>4. Own(out, d) = own * cols /\ Origin(out, d) = first * cols BY DEF Own, Origin
<1>5. \A c : column(c)
  <2>1. d \in r.dist.devices OBVIOUS
  <2>2. BufferOf(r, d) = Elements(ElemCount(r)) BY <2>1, WholeOperand
  <2> QED BY <2>2
<1>6. ProductPart(out, l, r, d) =
        [e \in 1 .. height * r.cols |->
           IF row(1 + ((e - 1) \div r.cols)) = {} \/ ~ column(1 + ((e - 1) % r.cols))
           THEN Other
           ELSE labels(CHOOSE i \in row(1 + ((e - 1) \div r.cols)) : TRUE)
                  [1 + ((e - 1) % r.cols)]]
  BY DEF ProductPart
<1> HIDE DEF height, column
<1>7. ASSUME NEW w \in 1 .. own PROVE first + w \in row(w)
  <2>1. first + w \in 1 .. l.rows BY <1>1
  <2>2. \A c \in 1 .. wide :
          CellOf(cells, (w - 1) * wide + c) = ((first + w) - 1) * wide + c
    <3> TAKE c \in 1 .. wide
    <3> DEFINE i == (w - 1) * wide + c
    <3>1. w \in Nat /\ c \in Nat /\ own \in Nat /\ wide \in Nat \ {0} /\ first \in Nat
          /\ w >= 1 /\ w <= own
      BY <1>1
    <3>2. i \in 1 .. own * wide
      <4> HIDE DEF own, wide
      <4>1. /\ i \in Int /\ own * wide \in Int
            /\ i >= 1 <=> w >= 1
            /\ i <= own * wide <=> w <= own
        BY <3>1, CellAt, Distributes
      <4> HIDE DEF i
      <4> QED BY <3>1, <4>1
    <3>3. ((first + w) - 1) * wide + c = first * wide + i
      <4> HIDE DEF first, wide
      <4> QED BY <3>1, CellOfRow
    <3>4. Own(l, d) = own * wide /\ Origin(l, d) = first * wide /\ Lead(l) = 0
      <4>1. Radius(l) = 0 /\ Radius(out) = 0 BY DEF Radius
      <4>2. FirstRow(l, d) = first BY DEF FirstRow
      <4>3. OwnRows(l, d) = own BY <4>1 DEF OwnRows
      <4>4. Lead(l) = 0 BY <4>1, <3>1 DEF Lead
      <4> QED BY <4>2, <4>3, <4>4 DEF Own, Origin
    <3> HIDE DEF i
    <3>5. /\ BufferOf(l, d)[Lead(l) + i] = Origin(l, d) + i
          /\ Lead(l) + i \in 1 .. SizeOn(l, d)
      BY <3>2, <3>4, ReadyCells
    <3>6. 0 + i = i BY <3>2
    <3>7. cells[i] = first * wide + i /\ i \in DOMAIN cells
      <4>1. Lead(l) + i = i BY <3>4, <3>6
      <4> QED BY <1>1, <3>4, <3>5, <4>1
    <3> HIDE DEF cells
    <3>8. CellOf(cells, i) = first * wide + i BY <3>7 DEF CellOf
    <3> QED BY <3>3, <3>8 DEF i
  <2>3. Row(cells, w, wide) = [c \in 1 .. wide |-> CellOf(cells, (w - 1) * wide + c)]
    BY DEF Row
  <2>4. RowLabels(l, first + w) = [c \in 1 .. wide |-> ((first + w) - 1) * wide + c]
    BY DEF RowLabels
  <2>5. Row(cells, w, wide) = RowLabels(l, first + w)
    <3> HIDE DEF cells, wide, first
    <3> QED BY <2>2, <2>3, <2>4
  <2> QED BY <2>1, <2>5
<1>8. ASSUME NEW w \in 1 .. own, NEW i \in row(w) PROVE i = first + w
  <2> DEFINE j == first + w
  <2>1. j \in row(w) /\ i \in 1 .. l.rows BY <1>7
  <2>2. RowLabels(l, i) = RowLabels(l, j) BY <2>1
  <2>3. 1 \in 1 .. wide /\ i \in Int /\ j \in Int /\ wide \in Nat \ {0} BY <1>1, <2>1
  <2> HIDE DEF j
  <2>4. RowLabels(l, i)[1] = (i - 1) * wide + 1 /\ RowLabels(l, j)[1] = (j - 1) * wide + 1
    BY <2>3 DEF RowLabels
  <2>5. (i - 1) * wide + 1 = (j - 1) * wide + 1 BY <2>2, <2>4
  <2> HIDE DEF wide
  <2>6. i = j BY <2>3, <2>5, CellUnique
  <2> QED BY <2>6 DEF j
<1> HIDE DEF row
<1>9. ASSUME NEW e \in 1 .. own * cols
      PROVE  ProductPart(out, l, r, d)[e] = first * cols + e
  <2> DEFINE w == 1 + ((e - 1) \div cols)
             c == 1 + ((e - 1) % cols)
  <2>1. w \in 1 .. own /\ c \in 1 .. cols /\ e = (w - 1) * cols + c
    <3>1. own \in Nat /\ cols \in Nat \ {0} BY <1>1, <1>2
    <3> HIDE DEF cols, own
    <3> QED BY <3>1, InRows
  <2>2. ProductPart(out, l, r, d)[e]
          = IF row(w) = {} \/ ~ column(c) THEN Other
            ELSE labels(CHOOSE i \in row(w) : TRUE)[c]
    <3> HIDE DEF own, labels
    <3> QED BY <1>3, <1>6
  <2> HIDE DEF w, c
  <2>3. (CHOOSE i \in row(w) : TRUE) \in row(w) /\ row(w) # {} BY <1>7, <2>1
  <2>4. ProductPart(out, l, r, d)[e] = labels(first + w)[c]
    <3>1. (CHOOSE i \in row(w) : TRUE) = first + w BY <1>8, <2>1, <2>3
    <3> HIDE DEF labels
    <3> QED BY <1>5, <2>2, <2>3, <3>1
  <2>5. labels(first + w)[c] = ((first + w) - 1) * cols + c BY <2>1 DEF RowLabels
  <2>6. ((first + w) - 1) * cols + c = first * cols + ((w - 1) * cols + c)
    <3>1. w \in Nat /\ c \in Nat /\ cols \in Nat /\ first \in Nat BY <1>1, <1>2, <2>1
    <3> HIDE DEF cols, first
    <3> QED BY <3>1, CellOfRow
  <2> QED BY <2>1, <2>4, <2>5, <2>6
<1>10. DOMAIN ProductPart(out, l, r, d) = 1 .. own * cols
  <2> HIDE DEF labels, own
  <2> QED BY <1>3, <1>6
<1> QED BY <1>4, <1>9, <1>10

LEMMA ProductRight ==
  ASSUME NEW l, Ready(l), ~ IsOverlap(l.dist),
         NEW r, Ready(r), r.dist.kind \in {"single", "copy"},
         l.dist.devices \subseteq r.dist.devices,
         NEW out, Placed(out), Buffered(out), ElemCount(out) > 0,
         out.dist = l.dist, out.rows = l.rows, out.cols = r.cols
  PROVE  Right(Computed(out, 0, [d \in l.dist.devices |-> ProductPart(out, l, r, d)]))
<1> DEFINE part == [d \in l.dist.devices |-> ProductPart(out, l, r, d)]
<1>1. IsValid(out.dist) /\ ~ IsOverlap(out.dist) BY ReadyPlaced
<1>2. Lead(out) = 0
  <2>1. Typed(out) BY DEF Placed
  <2> QED BY <1>1, <2>1, PartsOfCells
<1>3. DOMAIN part = out.dist.devices OBVIOUS
<1>4. ASSUME NEW d \in out.dist.devices
      PROVE  /\ DOMAIN part[d] = 1 .. Own(out, d)
             /\ \A e \in 1 .. Own(out, d) : part[d][e] = Origin(out, d) + e
  <2>1. part[d] = ProductPart(out, l, r, d) OBVIOUS
  <2> HIDE DEF part
  <2>2. /\ DOMAIN ProductPart(out, l, r, d) = 1 .. Own(out, d)
        /\ \A e \in 1 .. Own(out, d) :
             ProductPart(out, l, r, d)[e] = Origin(out, d) + e
    BY ProductPartIs
  <2> QED BY <2>1, <2>2
<1> HIDE DEF part
<1>5. Right(Computed(out, 0, part)) BY <1>1, <1>2, <1>3, <1>4, ByRowsRight
<1> QED BY <1>5 DEF part

-----------------------------------------------------------------------------
(***************************************************************************)
(* All matrices: the preparation of the operands, and the calls.           *)
(***************************************************************************)
AllRight(S) == S = [m \in Matrix |-> S[m]] /\ \A m \in Matrix : Right(S[m])

\* The matrices, with another state of one; they are the same but for it.
With(S, m, x) == [S EXCEPT ![m] = x]

SameBut(S, T, m) == \A k \in Matrix \ {m} : T[k] = S[k]

LEMMA WithIs ==
  ASSUME NEW S, S = [k \in Matrix |-> S[k]], NEW m \in Matrix, NEW x
  PROVE  /\ With(S, m, x) = [k \in Matrix |-> With(S, m, x)[k]]
         /\ With(S, m, x)[m] = x /\ SameBut(S, With(S, m, x), m)
<1> DEFINE T == With(S, m, x)
<1>1. T = [k \in Matrix |-> IF k = m THEN x ELSE S[k]] BY DEF With
<1> HIDE DEF T
<1> QED BY <1>1 DEF SameBut, T

LEMMA UpdatedRight ==
  ASSUME NEW S, AllRight(S), NEW m \in Matrix, NEW x, Right(x)
  PROVE  /\ AllRight(With(S, m, x)) /\ With(S, m, x)[m] = x
         /\ SameBut(S, With(S, m, x), m)
<1> DEFINE T == With(S, m, x)
<1>1. S = [k \in Matrix |-> S[k]] BY DEF AllRight
<1>2. T = [k \in Matrix |-> T[k]] /\ T[m] = x /\ SameBut(S, T, m) BY <1>1, WithIs
<1> HIDE DEF T
<1>3. \A k \in Matrix : Right(T[k]) BY <1>2 DEF AllRight, SameBut
<1>4. AllRight(T) BY <1>2, <1>3 DEF AllRight
<1> QED BY <1>2, <1>4 DEF T

\* A result in place of what an output was before, right or not.
LEMMA ResultRight ==
  ASSUME NEW S, AllRight(S), NEW m \in Matrix, NEW y, NEW x, Right(x)
  PROVE  AllRight(With(With(S, m, y), m, x))
<1> DEFINE U == With(S, m, y)
           T == With(U, m, x)
<1>1. S = [k \in Matrix |-> S[k]] BY DEF AllRight
<1>2. U = [k \in Matrix |-> U[k]] /\ SameBut(S, U, m) BY <1>1, WithIs
<1> HIDE DEF U
<1>3. T = [k \in Matrix |-> T[k]] /\ T[m] = x /\ SameBut(U, T, m) BY <1>2, WithIs
<1> HIDE DEF T
<1>4. \A k \in Matrix : Right(T[k]) BY <1>2, <1>3 DEF AllRight, SameBut
<1>5. AllRight(T) BY <1>3, <1>4 DEF AllRight
<1> QED BY <1>5 DEF T, U

LEMMA MatrixDistributions ==
  /\ Invalid \in MatrixDistribution /\ Block \in MatrixDistribution
  /\ Copy \in MatrixDistribution /\ Single(0) \in MatrixDistribution
  /\ IsValid(Block) /\ IsValid(Copy) /\ IsValid(Single(0))
  /\ ~ IsOverlap(Block) /\ ~ IsOverlap(Copy) /\ ~ IsOverlap(Single(0))
<1>1. 0 \in Device BY Devices
<1> QED BY <1>1 DEF MatrixDistribution, DistributionType, ValidDistribution, IsValid,
                    IsOverlap, Invalid, Block, Copy, Single

LEMMA DefaultRight ==
  /\ Right(Default) /\ Right(MovedFrom)
<1>1. DOMAIN Default = Fields /\ DOMAIN MovedFrom = Fields
  BY DEF Default, MovedFrom, Fields
<1>2. /\ Default.rows = 0 /\ Default.cols = 0 /\ Default.hostUp = TRUE
      /\ Default.devUp = FALSE /\ Default.dist = Invalid /\ DOMAIN Default.buf = {}
      /\ Default.host = << >>
  BY DEF Default, NoBuffers
<1>3. ElemCount(Default) = 0 BY <1>2 DEF ElemCount
<1>4. Elements(0) = << >> BY DEF Elements
<1>5. Right(Default)
  <2>1. Default.rows \in 0 .. MaxSize /\ Default.cols \in Nat /\ Default.devUp \in BOOLEAN
    <3>1. 0 \in 0 .. MaxSize /\ 0 \in Nat /\ FALSE \in BOOLEAN BY MaxSizeAssumption
    <3>2. Default.rows = 0 /\ Default.cols = 0 /\ Default.devUp = FALSE BY DEF Default
    <3> QED BY <3>1, <3>2
  <2>2. Default.host = Elements(ElemCount(Default))
    <3> DEFINE k == ElemCount(Default)
    <3>1. k = 0 BY <1>3
    <3> HIDE DEF k
    <3>2. Elements(k) = Elements(0) BY <3>1
    <3> QED BY <1>2, <1>4, <3>2 DEF k
  <2>3. Default.dist \in MatrixDistribution BY <1>2, MatrixDistributions
  <2> DEFINE n == Default
  <2>4. /\ DOMAIN n = Fields /\ n.rows \in 0 .. MaxSize /\ n.cols \in Nat
        /\ n.dist \in MatrixDistribution /\ n.hostUp = TRUE /\ n.devUp \in BOOLEAN
        /\ (n.devUp => ElemCount(n) = 0) /\ DOMAIN n.buf = {}
        /\ n.host = Elements(ElemCount(n))
    BY <1>1, <1>2, <1>3, <2>1, <2>2, <2>3
  <2> HIDE DEF n
  <2>5. Right(n) BY <2>4, HostRight
  <2> QED BY <2>5 DEF n
<1>6. /\ MovedFrom.rows = Default.rows /\ MovedFrom.cols = Default.cols
      /\ MovedFrom.dist = Default.dist /\ MovedFrom.buf = Default.buf
      /\ MovedFrom.host = Default.host
      /\ MovedFrom.hostUp = FALSE /\ MovedFrom.devUp = FALSE
  BY DEF MovedFrom, Default
<1>7. SameShape(Default, MovedFrom) BY <1>6 DEF SameShape
<1>8. Typed(MovedFrom)
  <2>1. Typed(Default) BY <1>5 DEF Right, Placed
  <2>2. DOMAIN MovedFrom.buf = {} BY <1>2, <1>6
  <2>3. MovedFrom.host \in [1 .. ElemCount(Default) -> Label(ElemCount(Default))]
    BY <1>6, <2>1 DEF Typed
  <2> QED BY <1>1, <1>6, <1>7, <2>1, <2>2, <2>3, SameTyped
<1>9. Right(MovedFrom)
  <2>1. DOMAIN MovedFrom.buf = {} BY <1>2, <1>6
  <2> QED BY <1>6, <1>8, <2>1 DEF Right, Placed, Roomy, Held, Bordered
<1> QED BY <1>5, <1>9

LEMMA ConstructedRight ==
  ASSUME NEW rows \in 0 .. MaxSize, NEW cols \in Nat, NEW dist \in MatrixDistribution
  PROVE  Right(Constructed(rows, cols, dist))
<1> DEFINE n == Constructed(rows, cols, dist)
<1>1. /\ DOMAIN n = Fields /\ n.rows = rows /\ n.cols = cols /\ n.dist = dist
      /\ n.host = Elements(rows * cols) /\ n.hostUp = TRUE /\ n.devUp = FALSE
      /\ DOMAIN n.buf = {}
  BY DEF Constructed, Default, Fields, NoBuffers
<1> HIDE DEF n
<1>2. n.host = Elements(ElemCount(n)) BY <1>1 DEF ElemCount
<1>3. Right(n) BY <1>1, <1>2, HostRight
<1> QED BY <1>3 DEF n

\* A change of distribution that is not from one overlap distribution to another.
LEMMA RedistributedRight ==
  ASSUME NEW S, AllRight(S), NEW m \in Matrix, Usable(S[m]),
         NEW dist \in MatrixDistribution, IsValid(dist),
         IsOverlap(S[m].dist) /\ IsOverlap(dist) /\ HasBuffers(S[m]) => S[m].dist = dist
  PROVE  LET T == Redistributed(S, m, dist)
         IN  /\ AllRight(T) /\ Usable(T[m]) /\ T[m].dist = dist
             /\ T[m].rows = S[m].rows /\ T[m].cols = S[m].cols
             /\ IsOverlap(dist) /\ (IsOverlap(S[m].dist) /\ HasBuffers(S[m]) => S[m].hostUp)
                  => T[m].hostUp
             /\ SameBut(S, T, m)
<1> DEFINE x == S[m]
           n == SetDistribution(x, dist)
           T == Redistributed(S, m, dist)
<1>1. Right(x) BY DEF AllRight
<1>2. SameRange(x, dist) BY DEF SameRange
<1>3. /\ Usable(n) /\ n.dist = dist /\ n.rows = x.rows /\ n.cols = x.cols /\ Right(n)
      /\ IsOverlap(dist) /\ (IsOverlap(x.dist) /\ HasBuffers(x) => x.hostUp) => n.hostUp
  <2> HIDE DEF x
  <2> QED BY <1>1, <1>2, SetDistributionRight DEF x
<1>4. T = With(S, m, n) BY DEF Redistributed, With
<1> HIDE DEF n, T
<1>5. AllRight(T) /\ T[m] = n /\ SameBut(S, T, m)
  BY <1>3, <1>4, UpdatedRight
<1> QED BY <1>3, <1>5 DEF T

\* An operand is brought to the devices.
ToDevices(S, m) == With(S, m, OnDevices(S[m]))

LEMMA BroughtRight ==
  ASSUME NEW S, AllRight(S), NEW m \in Matrix, Usable(S[m]), IsValid(S[m].dist),
         ElemCount(S[m]) > 0, Tall(S[m])
  PROVE  LET T == ToDevices(S, m)
         IN  /\ AllRight(T) /\ Ready(T[m]) /\ SameShape(S[m], T[m])
             /\ T[m].hostUp = S[m].hostUp /\ Usable(T[m]) /\ Tall(T[m])
             /\ SameBut(S, T, m)
<1> DEFINE n == OnDevices(S[m])
           T == ToDevices(S, m)
<1>1. Right(S[m]) BY DEF AllRight
<1>2. Ready(n) /\ SameShape(S[m], n) /\ n.hostUp = S[m].hostUp
  BY <1>1, OnDevicesRight
<1>3. T = With(S, m, n) BY DEF ToDevices
<1> HIDE DEF n, T
<1>4. AllRight(T) /\ T[m] = n /\ SameBut(S, T, m)
  BY <1>2, <1>3, UpdatedRight DEF Ready
<1>5. Tall(n) BY <1>2, Shape
<1>6. Usable(n) BY <1>2 DEF Ready, Usable
<1> QED BY <1>2, <1>4, <1>5, <1>6 DEF T

LEMMA MapCallRight ==
  ASSUME Broken = {}, AllRight(mat), NEW out \in Matrix, NEW in \in Matrix,
         MapCall(out, in)
  PROVE  AllRight(mat')
<1> DEFINE S == IF IsValid(mat[in].dist) THEN mat ELSE Redistributed(mat, in, Block)
           T == ToDevices(S, in)
           U == IF out = in THEN T ELSE With(T, out, MapOutput(T[out], T[in]))
           part == [d \in U[in].dist.devices |-> MapPart(U[in], d)]
<1>1. /\ Usable(mat[in]) /\ Usable(mat[out]) /\ Uploadable(S[in])
      /\ SameSize(U[out], U[in]) /\ SameRange(mat[out], U[in].dist)
      /\ mat' = With(U, out, Computed(U[out], 0, part))
  BY Zenon DEF MapCall, Keeps, With, ToDevices
<1>2. /\ AllRight(S) /\ Usable(S[in]) /\ IsValid(S[in].dist) /\ SameBut(mat, S, in)
  <2>1. CASE IsValid(mat[in].dist)
    <3>1. S = mat BY <2>1
    <3> HIDE DEF S
    <3> QED BY <1>1, <2>1, <3>1 DEF SameBut
  <2>2. CASE ~ IsValid(mat[in].dist)
    <3>1. S = Redistributed(mat, in, Block) BY <2>2
    <3>2. /\ AllRight(Redistributed(mat, in, Block))
          /\ Usable(Redistributed(mat, in, Block)[in])
          /\ Redistributed(mat, in, Block)[in].dist = Block
          /\ SameBut(mat, Redistributed(mat, in, Block), in)
      BY <1>1, RedistributedRight, MatrixDistributions
    <3> HIDE DEF S
    <3> QED BY <3>1, <3>2, MatrixDistributions
  <2> QED BY <2>1, <2>2
<1>3. ElemCount(S[in]) > 0 /\ Tall(S[in]) BY <1>1 DEF Uploadable, Keeps
<1> HIDE DEF S
<1>4. AllRight(T) /\ Ready(T[in]) /\ Tall(T[in]) /\ SameBut(S, T, in)
  BY <1>2, <1>3, BroughtRight
<1> HIDE DEF T
<1>5. T = [k \in Matrix |-> T[k]] BY <1>4 DEF AllRight
<1>6. U[in] = T[in]
  <2>1. CASE out = in BY <2>1
  <2>2. CASE out # in
    <3>1. U = With(T, out, MapOutput(T[out], T[in])) BY <2>2
    <3>2. SameBut(T, U, out) BY <1>5, <3>1, WithIs
    <3> QED BY <2>2, <3>2 DEF SameBut
  <2> QED BY <2>1, <2>2
<1>7. Placed(U[out]) /\ Buffered(U[out]) /\ Alike(U[in], U[out])
  <2>1. CASE out = in
    <3>1. U[out] = T[in] /\ U[in] = T[in] BY <2>1, <1>6
    <3>2. SameShape(T[in], T[in]) BY DEF SameShape
    <3> QED BY <1>4, <3>1, <3>2, ReadyPlaced, ShapeAlike
  <2>2. CASE out # in
    <3>1. T[out] = mat[out] BY <1>2, <1>4, <2>2 DEF SameBut
    <3>2. U = With(T, out, MapOutput(mat[out], T[in])) BY <2>2, <3>1
    <3> DEFINE n == U[out]
    <3>3. n = MapOutput(mat[out], T[in]) BY <1>5, <3>2, WithIs
    <3>4. Right(mat[out]) BY DEF AllRight
    <3>5. SameSize(n, T[in]) /\ SameRange(mat[out], T[in].dist) BY <1>1, <1>6
    <3> HIDE DEF n, U
    <3>6. Placed(n) /\ Buffered(n) /\ SameShape(T[in], n)
      BY <1>1, <1>4, <3>3, <3>4, <3>5, MapOutputPlaced
    <3> QED BY <1>6, <3>6, ShapeAlike DEF n
  <2> QED BY <2>1, <2>2
<1>8. Right(Computed(U[out], 0, part))
  <2>1. Ready(U[in]) BY <1>4, <1>6
  <2> DEFINE i == U[in]
             o == U[out]
  <2>2. part = [d \in i.dist.devices |-> MapPart(i, d)] OBVIOUS
  <2>3. Ready(i) /\ Placed(o) /\ Buffered(o) /\ Alike(i, o) BY <1>7, <2>1
  <2> HIDE DEF U, part, i, o
  <2>4. Right(Computed(o, 0, [d \in i.dist.devices |-> MapPart(i, d)]))
    BY <2>3, MapRight
  <2> QED BY <2>2, <2>4 DEF o
<1> HIDE DEF part
<1>9. CASE out = in
  <2>1. U = T BY <1>9
  <2> HIDE DEF U
  <2> QED BY <1>1, <1>4, <1>8, <2>1, UpdatedRight
<1>10. CASE out # in
  <2>1. U = With(T, out, MapOutput(T[out], T[in])) BY <1>10
  <2> HIDE DEF U
  <2> QED BY <1>1, <1>4, <1>8, <2>1, ResultRight
<1> QED BY <1>9, <1>10

\* Both operands are brought to the devices, the left one first.
LEMMA BothRight ==
  ASSUME NEW S, AllRight(S), NEW l \in Matrix, NEW r \in Matrix,
         \A m \in {l, r} : Usable(S[m]) /\ IsValid(S[m].dist) /\ ElemCount(S[m]) > 0
                             /\ Tall(S[m])
  PROVE  LET T == BothOnDevices(S, l, r)
         IN  /\ AllRight(T)
             /\ \A m \in {l, r} : Ready(T[m]) /\ Tall(T[m]) /\ SameShape(S[m], T[m])
             /\ \A k \in Matrix \ {l, r} : T[k] = S[k]
<1> DEFINE V == ToDevices(S, l)
           T == BothOnDevices(S, l, r)
<1>1. T = ToDevices(V, r) BY DEF BothOnDevices, ToDevices, With
<1>2. /\ AllRight(V) /\ Ready(V[l]) /\ SameShape(S[l], V[l]) /\ Usable(V[l]) /\ Tall(V[l])
      /\ SameBut(S, V, l)
  BY BroughtRight
<1> HIDE DEF V, T
<1>3. /\ Usable(V[r]) /\ IsValid(V[r].dist) /\ ElemCount(V[r]) > 0 /\ Tall(V[r])
      /\ SameShape(S[r], V[r])
  <2>1. CASE r = l BY <1>2, <2>1, ReadyPlaced
  <2>2. CASE r # l
    <3>1. V[r] = S[r] BY <1>2, <2>2 DEF SameBut
    <3> QED BY <3>1 DEF SameShape
  <2> QED BY <2>1, <2>2
<1>4. /\ AllRight(T) /\ Ready(T[r]) /\ SameShape(V[r], T[r]) /\ Tall(T[r])
      /\ SameBut(V, T, r)
  BY <1>1, <1>2, <1>3, BroughtRight
<1>5. SameShape(S[r], T[r]) BY <1>3, <1>4 DEF SameShape
<1>6. Ready(T[l]) /\ Tall(T[l]) /\ SameShape(S[l], T[l])
  <2>1. CASE r = l BY <1>4, <1>5, <2>1
  <2>2. CASE r # l
    <3>1. T[l] = V[l] BY <1>4, <2>2 DEF SameBut
    <3> QED BY <1>2, <3>1
  <2> QED BY <2>1, <2>2
<1>7. \A k \in Matrix \ {l, r} : T[k] = S[k] BY <1>2, <1>4 DEF SameBut
<1> QED BY <1>4, <1>5, <1>6, <1>7 DEF T

\* Operands that were given a distribution.
Given(S, T, l, r) ==
  /\ AllRight(T) /\ \A m \in {l, r} : Usable(T[m]) /\ IsValid(T[m].dist)
  /\ \A m \in {l, r} : T[m].rows = S[m].rows /\ T[m].cols = S[m].cols
  /\ \A k \in Matrix \ {l, r} : T[k] = S[k]

\* One of two is redistributed, from none or to one without overlaps.
LEMMA OneGiven ==
  ASSUME NEW S, AllRight(S), NEW l \in Matrix, NEW r \in Matrix, NEW m \in {l, r},
         Usable(S[l]), Usable(S[r]), NEW dist \in MatrixDistribution, IsValid(dist),
         IsValid(S[l].dist) \/ m = l, IsValid(S[r].dist) \/ m = r,
         ~ IsOverlap(S[m].dist) \/ ~ IsOverlap(dist)
  PROVE  LET T == Redistributed(S, m, dist)
         IN  /\ Given(S, T, l, r) /\ T[m].dist = dist /\ SameBut(S, T, m)
<1> DEFINE T == Redistributed(S, m, dist)
<1>1. m \in Matrix /\ Usable(S[m]) OBVIOUS
<1>2. /\ AllRight(T) /\ Usable(T[m]) /\ T[m].dist = dist
      /\ T[m].rows = S[m].rows /\ T[m].cols = S[m].cols /\ SameBut(S, T, m)
  BY <1>1, RedistributedRight
<1> HIDE DEF T
<1>3. ASSUME NEW k \in {l, r}
      PROVE  /\ Usable(T[k]) /\ IsValid(T[k].dist)
             /\ T[k].rows = S[k].rows /\ T[k].cols = S[k].cols
  <2>1. CASE k = m BY <1>2, <2>1
  <2>2. CASE k # m
    <3>1. T[k] = S[k] /\ IsValid(S[k].dist) BY <1>2, <2>2 DEF SameBut
    <3> QED BY <3>1
  <2> QED BY <2>1, <2>2
<1>4. \A k \in Matrix \ {l, r} : T[k] = S[k] BY <1>2 DEF SameBut
<1> QED BY <1>2, <1>3, <1>4 DEF Given, T

LEMMA TwiceGiven ==
  ASSUME NEW S, NEW T, NEW U, NEW l, NEW r, Given(S, T, l, r), Given(T, U, l, r)
  PROVE  Given(S, U, l, r)
BY DEF Given

LEMMA GivenAlready ==
  ASSUME NEW S, AllRight(S), NEW l, NEW r, Usable(S[l]), Usable(S[r]),
         IsValid(S[l].dist), IsValid(S[r].dist)
  PROVE  Given(S, S, l, r)
BY DEF Given

\* Zip's operands end in distributions of one class.
LEMMA ZipInputRight ==
  ASSUME NEW S, AllRight(S), NEW l \in Matrix, NEW r \in Matrix,
         Usable(S[l]), Usable(S[r])
  PROVE  LET T == ZipInput(S, l, r)
         IN  Given(S, T, l, r) /\ T[l].dist.kind = T[r].dist.kind
<1> DEFINE left == S[l].dist
           right == S[r].dist
           T == ZipInput(S, l, r)
           A == IsValid(left) /\ ~ IsValid(right)
           B == IsValid(right) /\ ~ IsValid(left)
           C == left.kind = right.kind /\ IsValid(left)
<1>1. left \in MatrixDistribution /\ right \in MatrixDistribution
  BY DEF AllRight, Right, Placed, Typed
<1>2. \A dist \in {left, right} : ~ IsValid(dist) => ~ IsOverlap(dist)
  BY DEF IsValid, IsOverlap
<1>3. /\ A => T = Redistributed(S, r, left)
      /\ B => T = Redistributed(S, l, right)
      /\ C => T = S
      /\ ~ A /\ ~ B /\ ~ C => T = Redistributed(Redistributed(S, l, Block), r, Block)
  <2>1. ~ (A /\ B) /\ ~ (A /\ C) /\ ~ (B /\ C) BY DEF IsValid
  <2>2. T = CASE A -> Redistributed(S, r, left)
              [] B -> Redistributed(S, l, right)
              [] C -> S
              [] OTHER -> Redistributed(Redistributed(S, l, Block), r, Block)
    BY DEF ZipInput
  <2> HIDE DEF A, B, C, T
  <2> QED BY <2>1, <2>2
<1> HIDE DEF T
<1>4. CASE A
  <2> DEFINE V == Redistributed(S, r, left)
  <2>1. Given(S, V, l, r) /\ V[r].dist = left /\ SameBut(S, V, r)
    BY <1>1, <1>2, <1>4, OneGiven
  <2> HIDE DEF V
  <2>2. r # l BY <1>4
  <2>3. V[l].dist = left BY <2>1, <2>2 DEF SameBut
  <2> QED BY <1>3, <1>4, <2>1, <2>3 DEF V, T
<1>5. CASE B
  <2> DEFINE V == Redistributed(S, l, right)
  <2>1. Given(S, V, l, r) /\ V[l].dist = right /\ SameBut(S, V, l)
    BY <1>1, <1>2, <1>5, OneGiven
  <2> HIDE DEF V
  <2>2. r # l BY <1>5
  <2>3. V[r].dist = right BY <2>1, <2>2 DEF SameBut
  <2> QED BY <1>3, <1>5, <2>1, <2>3 DEF V, T
<1>6. CASE C
  <2>1. IsValid(right) BY <1>6 DEF IsValid
  <2>2. Given(S, S, l, r) BY <1>6, <2>1, GivenAlready
  <2> QED BY <1>3, <1>6, <2>2 DEF T
<1>7. CASE ~ A /\ ~ B /\ ~ C
  <2> DEFINE V == Redistributed(S, l, Block)
             W == Redistributed(V, r, Block)
  <2>1. /\ AllRight(V) /\ Usable(V[l]) /\ V[l].dist = Block
        /\ V[l].rows = S[l].rows /\ V[l].cols = S[l].cols /\ SameBut(S, V, l)
    BY MatrixDistributions, RedistributedRight
  <2> HIDE DEF V
  <2>2. Usable(V[r]) /\ V[r].rows = S[r].rows /\ V[r].cols = S[r].cols
    <3>1. CASE r = l BY <2>1, <3>1
    <3>2. CASE r # l
      <4>1. V[r] = S[r] BY <2>1, <3>2 DEF SameBut
      <4> QED BY <4>1
    <3> QED BY <3>1, <3>2
  <2>3. IsValid(V[l].dist) BY <2>1, MatrixDistributions
  <2>4. Given(V, W, l, r) /\ W[r].dist = Block /\ SameBut(V, W, r)
    BY <2>1, <2>2, <2>3, MatrixDistributions, OneGiven
  <2> HIDE DEF W
  <2>5. W[l].dist = Block
    <3>1. CASE r = l BY <2>4, <3>1
    <3>2. CASE r # l BY <2>1, <2>4, <3>2 DEF SameBut
    <3> QED BY <3>1, <3>2
  <2>6. Given(S, W, l, r)
    <3>1. \A m \in {l, r} : V[m].rows = S[m].rows /\ V[m].cols = S[m].cols BY <2>1, <2>2
    <3>2. \A k \in Matrix \ {l, r} : V[k] = S[k] BY <2>1 DEF SameBut
    <3> QED BY <2>4, <3>1, <3>2 DEF Given
  <2>7. T = W BY <1>3, <1>7 DEF V, W
  <2> QED BY <2>4, <2>5, <2>6, <2>7 DEF T
<1> QED BY <1>4, <1>5, <1>6, <1>7

\* Parts of matrices whose distributions are of one class.
LEMMA OneClass ==
  ASSUME NEW l, NEW r, Ready(l), Ready(r), l.rows = r.rows, l.cols = r.cols,
         l.dist.kind = r.dist.kind, l.dist.devices \subseteq r.dist.devices,
         IsOverlap(l.dist) => l.dist.radius = r.dist.radius
  PROVE  Alike(l, r) /\ Alike(r, l)
<1>1. /\ l.dist \in MatrixDistribution /\ r.dist \in MatrixDistribution
      /\ IsValid(l.dist) /\ IsValid(r.dist)
  BY ReadyPlaced DEF Placed, Typed
<1>2. IsOverlap(l.dist) <=> IsOverlap(r.dist) BY DEF IsOverlap
<1>3. \A m : Radius(m) = IF IsOverlap(m.dist) THEN m.dist.radius ELSE 0 BY DEF Radius
<1>4. Radius(l) = Radius(r) BY <1>2, <1>3
<1>5. l.dist.devices = r.dist.devices
  <2>1. ASSUME NEW x \in MatrixDistribution, IsValid(x)
        PROVE  \/ x.kind = "single" /\ \E d \in Device : x.devices = {d}
               \/ x.kind # "single" /\ x.devices = Device
    <3>1. CASE \E d \in Device : x = Single(d)
      <4>1. PICK d \in Device : x = Single(d) BY <3>1
      <4> QED BY <4>1 DEF Single
    <3>2. CASE x = Block BY <3>2 DEF Block
    <3>3. CASE x = Copy BY <3>3 DEF Copy
    <3>4. x # Invalid BY <2>1 DEF Invalid, IsValid
    <3> QED BY <3>1, <3>2, <3>3, <3>4, Kinds
  <2>2. CASE l.dist.kind = "single"
    <3>1. PICK a \in Device : l.dist.devices = {a} BY <1>1, <2>1, <2>2
    <3>2. PICK b \in Device : r.dist.devices = {b} BY <1>1, <2>1, <2>2
    <3> QED BY <3>1, <3>2
  <2>3. CASE l.dist.kind # "single" BY <1>1, <2>1, <2>3
  <2> QED BY <2>2, <2>3
<1> QED BY <1>4, <1>5 DEF Alike

LEMMA OverlapOutputPlaced ==
  ASSUME NEW out, Right(out), Usable(out),
         NEW in, Ready(in), Tall(in), SameRange(out, in.dist),
         NEW n, n = OverlapOutput(out, in), n.cols = in.cols
  PROVE  Placed(n) /\ Buffered(n) /\ ElemCount(n) > 0 /\ SameShape(in, n)
<1>1. /\ IsValid(in.dist) /\ in.dist \in MatrixDistribution /\ ElemCount(in) > 0
      /\ in.rows \in 0 .. MaxSize /\ in.cols \in Nat
  BY DEF Ready, Right, Placed, Typed
<1>2. CASE out.rows # in.rows
  <2> DEFINE x == Resize(out, in.rows, in.cols)
  <2>1. Right(x) /\ x.rows = in.rows /\ x.cols = in.cols /\ x.hostUp = TRUE
        /\ DOMAIN x.buf = {}
    <3>1. in.rows \in 0 .. MaxSize /\ in.cols \in Nat BY <1>1
    <3>2. Emptied(x, in.rows, in.cols, out.dist) BY <3>1, ResizeRight
    <3> HIDE DEF x
    <3> QED BY <3>2 DEF Emptied
  <2>2. n = WithDistributionOf(x, in) BY <1>2 DEF OverlapOutput
  <2> HIDE DEF x
  <2>3. Usable(x) /\ SameRange(x, in.dist) BY <2>1 DEF Usable, SameRange, HasBuffers
  <2>4. ElemCount(x) > 0 BY <1>1, <2>1 DEF ElemCount
  <2>5. /\ Placed(n) /\ Buffered(n) /\ ElemCount(n) > 0 /\ n.dist = in.dist
        /\ n.rows = x.rows
    BY <1>1, <2>1, <2>2, <2>3, <2>4, OutputPlaced
  <2> QED BY <2>1, <2>5 DEF SameShape
<1>3. CASE out.rows = in.rows
  <2>1. n = WithDistributionOf(out, in) BY <1>3 DEF OverlapOutput
  <2>2. n.rows = out.rows /\ n.cols = out.cols BY <1>1, <2>1, SizeAfter
  <2>3. ElemCount(out) > 0
    <3>1. out.rows = in.rows /\ out.cols = in.cols BY <1>3, <2>2
    <3> QED BY <1>1, <3>1 DEF ElemCount
  <2>4. Placed(n) /\ Buffered(n) /\ ElemCount(n) > 0 /\ n.dist = in.dist
    BY <1>1, <1>3, <2>1, <2>3, OutputPlaced
  <2> QED BY <1>3, <2>2, <2>4 DEF SameShape
<1> QED BY <1>2, <1>3

LEMMA ProductOutputPlaced ==
  ASSUME NEW out, Right(out), Usable(out),
         NEW l, Ready(l), ~ IsOverlap(l.dist), NEW r, Ready(r),
         NEW n, n = ProductOutput(out, l, r)
  PROVE  /\ Placed(n) /\ Buffered(n) /\ ElemCount(n) > 0
         /\ n.dist = l.dist /\ n.rows = l.rows /\ n.cols = r.cols
<1>1. /\ IsValid(l.dist) /\ l.dist \in MatrixDistribution
      /\ l.rows \in 0 .. MaxSize /\ l.rows \in Nat \ {0} /\ r.cols \in Nat \ {0}
  <2>1. /\ IsValid(l.dist) /\ l.dist \in MatrixDistribution /\ l.rows \in 0 .. MaxSize
        /\ Typed(l) /\ Typed(r) /\ ElemCount(l) > 0 /\ ElemCount(r) > 0
    BY DEF Ready, Right, Placed, Typed
  <2> QED BY <2>1, Counts
<1>2. Tall(l) BY DEF Tall
<1>3. \A x : SameRange(x, l.dist) BY DEF SameRange
<1>4. \A x : x.rows = l.rows /\ x.cols = r.cols => ElemCount(x) > 0
  <2> DEFINE a == l.rows
             b == r.cols
  <2>1. a * b > 0
    <3>1. a \in Nat \ {0} /\ b \in Nat \ {0} BY <1>1
    <3> HIDE DEF a, b
    <3> QED BY <3>1
  <2> HIDE DEF a, b
  <2> QED BY <2>1 DEF ElemCount, a, b
<1>5. CASE out.rows # l.rows \/ out.cols # r.cols
  <2> DEFINE x == Resize(out, l.rows, r.cols)
  <2>1. Right(x) /\ x.rows = l.rows /\ x.cols = r.cols /\ x.hostUp = TRUE
    <3>1. l.rows \in 0 .. MaxSize /\ r.cols \in Nat BY <1>1
    <3>2. Emptied(x, l.rows, r.cols, out.dist) BY <3>1, ResizeRight
    <3> HIDE DEF x
    <3> QED BY <3>2 DEF Emptied
  <2>2. n = WithDistributionOf(x, l) BY <1>5 DEF ProductOutput
  <2> HIDE DEF x
  <2>3. Usable(x) BY <2>1 DEF Usable
  <2>4. /\ Placed(n) /\ Buffered(n) /\ ElemCount(n) > 0 /\ n.dist = l.dist
        /\ n.rows = x.rows /\ n.cols = x.cols
    BY <1>1, <1>2, <1>3, <1>4, <2>1, <2>2, <2>3, OutputPlaced
  <2> QED BY <2>1, <2>4
<1>6. CASE ~ (out.rows # l.rows \/ out.cols # r.cols)
  <2>1. n = WithDistributionOf(out, l) BY <1>6 DEF ProductOutput
  <2>2. /\ Placed(n) /\ Buffered(n) /\ ElemCount(n) > 0 /\ n.dist = l.dist
        /\ n.rows = out.rows /\ n.cols = out.cols
    BY <1>1, <1>2, <1>3, <1>4, <1>6, <2>1, OutputPlaced
  <2> QED BY <1>6, <2>2
<1> QED BY <1>5, <1>6

\* A matrix with a distribution without overlaps.
Plain(m) == IsValid(m.dist) /\ ~ IsOverlap(m.dist)

\* As Given, whether or not both have a distribution.
Changed(S, T, l, r) ==
  /\ AllRight(T) /\ Usable(T[l]) /\ Usable(T[r])
  /\ \A m \in {l, r} : T[m].rows = S[m].rows /\ T[m].cols = S[m].cols
  /\ \A k \in Matrix \ {l, r} : T[k] = S[k]

LEMMA OneChanged ==
  ASSUME NEW S, AllRight(S), NEW l \in Matrix, NEW r \in Matrix, NEW m \in {l, r},
         Usable(S[l]), Usable(S[r]), NEW dist \in MatrixDistribution, IsValid(dist),
         ~ IsOverlap(dist)
  PROVE  LET T == Redistributed(S, m, dist)
         IN  /\ Changed(S, T, l, r) /\ T[m].dist = dist /\ SameBut(S, T, m)
<1> DEFINE T == Redistributed(S, m, dist)
<1>1. m \in Matrix /\ Usable(S[m]) OBVIOUS
<1>2. /\ AllRight(T) /\ Usable(T[m]) /\ T[m].dist = dist
      /\ T[m].rows = S[m].rows /\ T[m].cols = S[m].cols /\ SameBut(S, T, m)
  BY <1>1, RedistributedRight
<1> HIDE DEF T
<1>3. ASSUME NEW k \in {l, r}
      PROVE  Usable(T[k]) /\ T[k].rows = S[k].rows /\ T[k].cols = S[k].cols
  <2>1. CASE k = m BY <1>2, <2>1
  <2>2. CASE k # m
    <3>1. T[k] = S[k] BY <1>2, <2>2 DEF SameBut
    <3> QED BY <3>1
  <2> QED BY <2>1, <2>2
<1>4. \A k \in Matrix \ {l, r} : T[k] = S[k] BY <1>2 DEF SameBut
<1> QED BY <1>2, <1>3, <1>4 DEF Changed, T

LEMMA TwiceChanged ==
  ASSUME NEW S, NEW T, NEW U, NEW l, NEW r, Changed(S, T, l, r), Changed(T, U, l, r)
  PROVE  Changed(S, U, l, r)
BY DEF Changed

\* AllPairs' operands: the right one ends as a whole.
LEMMA ProductInputRight ==
  ASSUME NEW S, AllRight(S), NEW l \in Matrix, NEW r \in Matrix,
         Usable(S[l]), Usable(S[r]), ~ IsOverlap(S[l].dist), ~ IsOverlap(S[r].dist)
  PROVE  LET T == ProductInput(S, l, r)
         IN  /\ Changed(S, T, l, r) /\ Plain(T[l])
             /\ T[r].dist.kind \in {"single", "copy"}
<1> DEFINE kl == S[l].dist.kind
           kr == S[r].dist.kind
           A == kl = "invalid" /\ kr \in {"invalid", "copy", "block"}
           B == kl \in {"invalid", "copy"} /\ kr = "single"
           C == \/ kl \in {"invalid", "copy", "block"} /\ kr \in {"invalid", "block"}
                \/ kl = "block" /\ kr = "single"
           D == kl = "single" /\ kr \in {"invalid", "block"}
           V == IF A THEN Redistributed(S, l, Block)
                ELSE IF B THEN Redistributed(S, l, Single(0)) ELSE S
           T == ProductInput(S, l, r)
<1>1. kl \in {"invalid", "single", "block", "copy"} /\ kr \in {"invalid", "single", "block", "copy"}
  <2>1. \A dist \in MatrixDistribution : ~ IsOverlap(dist) =>
          dist.kind \in {"invalid", "single", "block", "copy"}
    <3> SUFFICES ASSUME NEW dist \in MatrixDistribution, ~ IsOverlap(dist)
                 PROVE  dist.kind \in {"invalid", "single", "block", "copy"}
      OBVIOUS
    <3>1. \A d : Single(d).kind = "single" BY DEF Single
    <3>2. Invalid.kind = "invalid" /\ Block.kind = "block" /\ Copy.kind = "copy"
      BY DEF Invalid, Block, Copy
    <3>3. dist.kind # "overlap" BY DEF IsOverlap
    <3> QED BY <3>1, <3>2, <3>3, Kinds
  <2>2. S[l].dist \in MatrixDistribution /\ S[r].dist \in MatrixDistribution
    BY DEF AllRight, Right, Placed, Typed
  <2> QED BY <2>1, <2>2
<1>2. T = IF C THEN Redistributed(V, r, Copy)
          ELSE IF D THEN Redistributed(V, r, Single(0)) ELSE V
  <2> DEFINE kinds == <<kl, kr>>
             a == kinds \in {"invalid"} \X {"invalid", "copy", "block"}
             b == kinds \in {"invalid", "copy"} \X {"single"}
             c == kinds \in {"invalid", "copy", "block"} \X {"invalid", "block"}
                    \/ kinds = <<"block", "single">>
             e == kinds \in {"single"} \X {"invalid", "block"}
             W == CASE a -> Redistributed(S, l, Block)
                    [] b -> Redistributed(S, l, Single(0))
                    [] OTHER -> S
  <2>1. a <=> A OBVIOUS
  <2>2. b <=> B OBVIOUS
  <2>3. c <=> C OBVIOUS
  <2>4. e <=> D OBVIOUS
  <2>5. T = CASE c -> Redistributed(W, r, Copy)
              [] e -> Redistributed(W, r, Single(0))
              [] OTHER -> W
    BY Zenon DEF ProductInput
  <2>6. ~ (A /\ B) /\ ~ (C /\ D) OBVIOUS
  <2> HIDE DEF a, b, c, e, A, B, C, D, T
  <2>7. W = V BY <2>1, <2>2, <2>6
  <2> HIDE DEF W, V
  <2> QED BY <2>3, <2>4, <2>5, <2>6, <2>7
<1> HIDE DEF T
<1>3. /\ Changed(S, V, l, r) /\ Plain(V[l])
      /\ A \/ V[r].dist.kind = kr
  <2>1. CASE A
    <3> DEFINE X == Redistributed(S, l, Block)
    <3>1. Changed(S, X, l, r) /\ X[l].dist = Block
      BY OneChanged, MatrixDistributions
    <3>2. V = X BY <2>1
    <3> HIDE DEF X, V
    <3> QED BY <2>1, <3>1, <3>2, MatrixDistributions DEF Plain
  <2>2. CASE B
    <3> DEFINE X == Redistributed(S, l, Single(0))
    <3>1. Changed(S, X, l, r) /\ X[l].dist = Single(0) /\ SameBut(S, X, l)
      BY OneChanged, MatrixDistributions
    <3>2. V = X BY <2>2
    <3>3. r # l BY <2>2
    <3> HIDE DEF X, V
    <3> QED BY <3>1, <3>2, <3>3, MatrixDistributions DEF Plain, SameBut
  <2>3. CASE ~ A /\ ~ B
    <3>1. V = S BY <2>3
    <3>2. kl # "invalid" BY <1>1, <2>3
    <3> HIDE DEF V
    <3> QED BY <3>1, <3>2 DEF Plain, IsValid, Changed
  <2> QED BY <2>1, <2>2, <2>3
<1> HIDE DEF V
<1>4. AllRight(V) /\ Usable(V[l]) /\ Usable(V[r]) BY <1>3 DEF Changed
<1>5. ASSUME NEW dist \in {Copy, Single(0)}
      PROVE  LET X == Redistributed(V, r, dist)
             IN  /\ Changed(S, X, l, r) /\ Plain(X[l])
                 /\ X[r].dist.kind \in {"single", "copy"}
  <2> DEFINE X == Redistributed(V, r, dist)
  <2>1. dist \in MatrixDistribution /\ IsValid(dist) /\ ~ IsOverlap(dist)
    BY MatrixDistributions
  <2>2. Changed(V, X, l, r) /\ X[r].dist = dist /\ SameBut(V, X, r)
    BY <1>4, <2>1, OneChanged
  <2> HIDE DEF X
  <2>3. Changed(S, X, l, r) BY <1>3, <2>2, TwiceChanged
  <2>4. dist.kind \in {"single", "copy"} BY DEF Copy, Single
  <2>5. Plain(X[l])
    <3>1. CASE r = l BY <2>1, <2>2, <3>1 DEF Plain
    <3>2. CASE r # l BY <1>3, <2>2, <3>2 DEF SameBut
    <3> QED BY <3>1, <3>2
  <2> QED BY <2>2, <2>3, <2>4, <2>5 DEF X
<1>6. CASE C
  <2>1. T = Redistributed(V, r, Copy) BY <1>2, <1>6
  <2> QED BY <1>5, <2>1 DEF T
<1>7. CASE ~ C /\ D
  <2>1. T = Redistributed(V, r, Single(0)) BY <1>2, <1>7
  <2> QED BY <1>5, <2>1 DEF T
<1>8. CASE ~ C /\ ~ D
  <2>1. T = V BY <1>2, <1>8
  <2>2. kr \in {"single", "copy"} BY <1>1, <1>8
  <2>3. V[r].dist.kind = kr \/ (A /\ kr = "copy") BY <1>3, <2>2
  <2>4. A /\ kr = "copy" => V[r].dist.kind = kr
    <3> SUFFICES ASSUME A, kr = "copy" PROVE V[r].dist.kind = kr OBVIOUS
    <3> DEFINE X == Redistributed(S, l, Block)
    <3>1. SameBut(S, X, l) BY OneChanged, MatrixDistributions
    <3>2. V = X BY DEF V
    <3>3. r # l OBVIOUS
    <3> HIDE DEF X
    <3> QED BY <3>1, <3>2, <3>3 DEF SameBut
  <2> QED BY <1>3, <2>1, <2>2, <2>3, <2>4 DEF T
<1> QED BY <1>6, <1>7, <1>8

LEMMA ZipCallRight ==
  ASSUME Broken = {}, AllRight(mat), NEW out \in Matrix, NEW l \in Matrix,
         NEW r \in Matrix, ZipCall(out, l, r)
  PROVE  AllRight(mat')
<1> DEFINE S == ZipInput(mat, l, r)
           T == BothOnDevices(S, l, r)
           U == IF out \in {l, r} THEN T ELSE With(T, out, MapOutput(T[out], T[l]))
           part == [d \in U[l].dist.devices |-> ZipPart(U[l], U[r], d)]
<1>1. /\ Usable(mat[out]) /\ Usable(mat[l]) /\ Usable(mat[r])
      /\ SameSize(mat[l], mat[r]) /\ Uploadable(S[l]) /\ Uploadable(S[r])
      /\ SameSize(U[out], U[l])
      /\ T[l].dist.devices \subseteq T[r].dist.devices
      /\ (IsOverlap(T[l].dist) => T[l].dist.radius = T[r].dist.radius)
      /\ SameRange(mat[out], U[l].dist)
      /\ mat' = With(U, out, Computed(U[out], 0, part))
  BY Zenon DEF ZipCall, Keeps, With
<1>2. Given(mat, S, l, r) /\ S[l].dist.kind = S[r].dist.kind BY <1>1, ZipInputRight
<1>3. \A m \in {l, r} : ElemCount(S[m]) > 0 /\ Tall(S[m])
  BY <1>1 DEF Uploadable, Keeps
<1> HIDE DEF S
<1>4. /\ AllRight(T)
      /\ \A m \in {l, r} : Ready(T[m]) /\ Tall(T[m]) /\ SameShape(S[m], T[m])
      /\ \A k \in Matrix \ {l, r} : T[k] = S[k]
  BY <1>2, <1>3, BothRight DEF Given
<1> HIDE DEF T
<1>5. T[l].rows = T[r].rows /\ T[l].cols = T[r].cols /\ T[l].dist.kind = T[r].dist.kind
  <2>1. SameShape(S[l], T[l]) /\ SameShape(S[r], T[r]) BY <1>4
  <2>2. S[l].rows = mat[l].rows /\ S[r].rows = mat[r].rows
        /\ S[l].cols = mat[l].cols /\ S[r].cols = mat[r].cols
    BY <1>2 DEF Given
  <2> QED BY <1>1, <1>2, <2>1, <2>2 DEF SameShape, SameSize
<1>6. Alike(T[l], T[r]) /\ Alike(T[r], T[l]) BY <1>1, <1>4, <1>5, OneClass
<1>7. T = [k \in Matrix |-> T[k]] BY <1>4 DEF AllRight
<1>8. U[l] = T[l] /\ U[r] = T[r]
  <2>1. CASE out \in {l, r} BY <2>1
  <2>2. CASE out \notin {l, r}
    <3>1. U = With(T, out, MapOutput(T[out], T[l])) BY <2>2
    <3>2. SameBut(T, U, out) BY <1>7, <3>1, WithIs
    <3> QED BY <2>2, <3>2 DEF SameBut
  <2> QED BY <2>1, <2>2
<1>9. Placed(U[out]) /\ Buffered(U[out]) /\ Alike(U[l], U[out])
  <2>1. CASE out = l
    <3>1. U[out] = T[l] BY <2>1, <1>8
    <3>2. SameShape(T[l], T[l]) BY DEF SameShape
    <3> QED BY <1>4, <1>8, <3>1, <3>2, ReadyPlaced, ShapeAlike
  <2>2. CASE out = r
    <3>1. U[out] = T[r] BY <2>2, <1>8
    <3> QED BY <1>4, <1>6, <1>8, <3>1, ReadyPlaced
  <2>3. CASE out \notin {l, r}
    <3>1. T[out] = mat[out] BY <1>2, <1>4, <2>3 DEF Given
    <3>2. U = With(T, out, MapOutput(mat[out], T[l])) BY <2>3, <3>1
    <3> DEFINE n == U[out]
    <3>3. n = MapOutput(mat[out], T[l]) BY <1>7, <3>2, WithIs
    <3>4. Right(mat[out]) BY DEF AllRight
    <3>5. SameSize(n, T[l]) /\ SameRange(mat[out], T[l].dist) BY <1>1, <1>8
    <3> HIDE DEF n, U
    <3>6. Placed(n) /\ Buffered(n) /\ SameShape(T[l], n)
      BY <1>1, <1>4, <3>3, <3>4, <3>5, MapOutputPlaced
    <3> QED BY <1>8, <3>6, ShapeAlike DEF n
  <2> QED BY <2>1, <2>2, <2>3
<1>10. Right(Computed(U[out], 0, part))
  <2> DEFINE i == U[l]
             j == U[r]
             o == U[out]
  <2>1. part = [d \in i.dist.devices |-> ZipPart(i, j, d)] OBVIOUS
  <2>2. /\ Ready(i) /\ Ready(j) /\ Alike(i, j)
        /\ Placed(o) /\ Buffered(o) /\ Alike(i, o)
    BY <1>4, <1>6, <1>8, <1>9
  <2> HIDE DEF U, part, i, j, o
  <2>3. Right(Computed(o, 0, [d \in i.dist.devices |-> ZipPart(i, j, d)]))
    BY <2>2, ZipRight
  <2> QED BY <2>1, <2>3 DEF o
<1> HIDE DEF part
<1>11. CASE out \in {l, r}
  <2>1. U = T BY <1>11
  <2> HIDE DEF U
  <2> QED BY <1>1, <1>4, <1>10, <2>1, UpdatedRight
<1>12. CASE out \notin {l, r}
  <2>1. U = With(T, out, MapOutput(T[out], T[l])) BY <1>12
  <2> HIDE DEF U
  <2> QED BY <1>1, <1>4, <1>10, <2>1, ResultRight
<1> QED BY <1>11, <1>12

LEMMA OverlapCallRight ==
  ASSUME Broken = {}, AllRight(mat), NEW out \in Matrix, NEW in \in Matrix,
         NEW o \in Overlaps, OverlapCall(out, in, o)
  PROVE  AllRight(mat')
<1> DEFINE dist == Overlap(o.radius, o.padding)
           S == Redistributed(mat, in, dist)
           T == ToDevices(S, in)
           U == With(T, out, OverlapOutput(T[out], T[in]))
           onDevices(m) == IsOverlap(mat[m].dist) /\ HasBuffers(mat[m])
           part == [d \in dist.devices |-> OverlapPart(U[in], o, d)]
<1>1. /\ out # in /\ Usable(mat[in]) /\ Usable(mat[out]) /\ Uploadable(S[in])
      /\ U[out].cols = U[in].cols
      /\ (\A m \in {in, out} : onDevices(m) => mat[m].dist = dist)
      /\ (onDevices(in) => ~ MustDownload(mat[in]))
      /\ AllRows(U[in], o) /\ WholeTiles(U[in]) /\ Narrow(o)
      /\ mat' = With(U, out, Computed(U[out], o.radius * U[out].cols, part))
  BY Zenon DEF OverlapCall, Keeps, With, ToDevices
<1>2. /\ dist \in MatrixDistribution /\ IsValid(dist) /\ IsOverlap(dist)
      /\ dist.radius = o.radius /\ dist.padding = o.padding /\ dist.devices = Device
  <2>1. dist \in MatrixDistribution BY DEF MatrixDistribution
  <2> QED BY <2>1 DEF Overlap, IsValid, IsOverlap
<1> HIDE DEF dist
<1>3. onDevices(in) => mat[in].hostUp BY <1>1 DEF MustDownload, Usable
<1>4. /\ AllRight(S) /\ Usable(S[in]) /\ S[in].dist = dist /\ S[in].hostUp
      /\ SameBut(mat, S, in)
  <2>1. IsOverlap(mat[in].dist) /\ HasBuffers(mat[in]) => mat[in].dist = dist BY <1>1
  <2>2. IsOverlap(mat[in].dist) /\ HasBuffers(mat[in]) => mat[in].hostUp BY <1>3
  <2> QED BY <1>1, <1>2, <2>1, <2>2, RedistributedRight
<1>5. ElemCount(S[in]) > 0 /\ Tall(S[in]) BY <1>1 DEF Uploadable, Keeps
<1> HIDE DEF S
<1>6. /\ AllRight(T) /\ Ready(T[in]) /\ Tall(T[in]) /\ SameShape(S[in], T[in])
      /\ T[in].hostUp = S[in].hostUp /\ SameBut(S, T, in)
  BY <1>2, <1>4, <1>5, BroughtRight
<1> HIDE DEF T
<1>7. T = [k \in Matrix |-> T[k]] BY <1>6 DEF AllRight
<1>8. T[in].dist = dist /\ T[in].hostUp BY <1>4, <1>6 DEF SameShape
<1>9. T[out] = mat[out] BY <1>1, <1>4, <1>6 DEF SameBut
<1>10. U[in] = T[in] /\ U[out] = OverlapOutput(mat[out], T[in])
  <2>1. SameBut(T, U, out) /\ U[out] = OverlapOutput(T[out], T[in]) BY <1>7, WithIs
  <2> QED BY <1>1, <1>9, <2>1 DEF SameBut
<1>11. Placed(U[out]) /\ Buffered(U[out]) /\ SameShape(T[in], U[out])
  <2> DEFINE n == U[out]
  <2>1. n = OverlapOutput(mat[out], T[in]) /\ n.cols = T[in].cols BY <1>1, <1>10
  <2>2. Right(mat[out]) BY DEF AllRight
  <2>3. SameRange(mat[out], T[in].dist) BY <1>1, <1>8 DEF SameRange
  <2> HIDE DEF n, U
  <2>4. Placed(n) /\ Buffered(n) /\ SameShape(T[in], n)
    BY <1>1, <1>6, <2>1, <2>2, <2>3, OverlapOutputPlaced
  <2> QED BY <2>4 DEF n
<1>12. Right(Computed(U[out], o.radius * U[out].cols, part))
  <2> DEFINE i == T[in]
             n == U[out]
  <2>1. part = [d \in i.dist.devices |-> OverlapPart(i, o, d)] BY <1>8, <1>10
  <2>2. /\ Ready(i) /\ i.hostUp /\ IsOverlap(i.dist) /\ i.dist.devices = Device
        /\ o.radius = i.dist.radius /\ o.padding = i.dist.padding
        /\ Placed(n) /\ Buffered(n) /\ SameShape(i, n)
        /\ AllRows(i, o) /\ WholeTiles(i) /\ Narrow(o)
    BY <1>1, <1>2, <1>6, <1>8, <1>10, <1>11
  <2> HIDE DEF U, part, i, n
  <2>3. Right(Computed(n, o.radius * n.cols,
                       [d \in i.dist.devices |-> OverlapPart(i, o, d)]))
    BY <2>2, OverlapRight
  <2> QED BY <2>1, <2>3 DEF n
<1>13. \E y : U = With(T, out, y) OBVIOUS
<1> HIDE DEF U, part
<1> QED BY <1>1, <1>6, <1>12, <1>13, ResultRight

LEMMA AllPairsCallRight ==
  ASSUME Broken = {}, AllRight(mat), NEW out \in Matrix, NEW l \in Matrix,
         NEW r \in Matrix, AllPairsCall(out, l, r)
  PROVE  AllRight(mat')
<1> DEFINE S == ProductInput(mat, l, r)
           T == BothOnDevices(S, l, r)
           U == With(T, out, ProductOutput(T[out], T[l], T[r]))
           kinds == {mat[l].dist.kind, mat[r].dist.kind}
           part == [d \in U[l].dist.devices |-> ProductPart(U[out], U[l], U[r], d)]
<1>1. /\ out \notin {l, r}
      /\ Usable(mat[out]) /\ Usable(mat[l]) /\ Usable(mat[r])
      /\ Uploadable(S[l]) /\ Uploadable(S[r]) /\ "overlap" \notin kinds
      /\ T[l].dist.devices \subseteq T[r].dist.devices
      /\ mat' = With(U, out, Computed(U[out], 0, part))
  BY Zenon DEF AllPairsCall, Keeps, With
<1>2. ~ IsOverlap(mat[l].dist) /\ ~ IsOverlap(mat[r].dist) BY <1>1 DEF IsOverlap
<1>3. /\ Changed(mat, S, l, r) /\ Plain(S[l]) /\ S[r].dist.kind \in {"single", "copy"}
  BY <1>1, <1>2, ProductInputRight
<1>4. \A m \in {l, r} : Usable(S[m]) /\ IsValid(S[m].dist) /\ ElemCount(S[m]) > 0
                          /\ Tall(S[m])
  BY <1>1, <1>3 DEF Uploadable, Keeps, Changed, Plain, IsValid
<1> HIDE DEF S
<1>5. /\ AllRight(T)
      /\ \A m \in {l, r} : Ready(T[m]) /\ Tall(T[m]) /\ SameShape(S[m], T[m])
      /\ \A k \in Matrix \ {l, r} : T[k] = S[k]
  BY <1>3, <1>4, BothRight DEF Changed
<1> HIDE DEF T
<1>6. ~ IsOverlap(T[l].dist) /\ T[r].dist.kind \in {"single", "copy"}
  <2>1. SameShape(S[l], T[l]) /\ SameShape(S[r], T[r]) BY <1>5
  <2> QED BY <1>3, <2>1 DEF SameShape, Plain
<1>7. T = [k \in Matrix |-> T[k]] BY <1>5 DEF AllRight
<1>8. T[out] = mat[out] BY <1>1, <1>3, <1>5 DEF Changed
<1>9. /\ U[l] = T[l] /\ U[r] = T[r]
      /\ U[out] = ProductOutput(mat[out], T[l], T[r])
  <2>1. SameBut(T, U, out) /\ U[out] = ProductOutput(T[out], T[l], T[r])
    BY <1>7, WithIs
  <2> QED BY <1>1, <1>8, <2>1 DEF SameBut
<1>10. Right(Computed(U[out], 0, part))
  <2> DEFINE i == T[l]
             j == T[r]
             n == U[out]
  <2>1. part = [d \in i.dist.devices |-> ProductPart(n, i, j, d)] BY <1>9
  <2>2. /\ Ready(i) /\ ~ IsOverlap(i.dist) /\ Ready(j)
        /\ j.dist.kind \in {"single", "copy"}
        /\ i.dist.devices \subseteq j.dist.devices
        /\ n = ProductOutput(mat[out], i, j)
    BY <1>1, <1>5, <1>6, <1>9
  <2>3. Right(mat[out]) BY DEF AllRight
  <2> HIDE DEF U, part, i, j, n
  <2>4. /\ Placed(n) /\ Buffered(n) /\ ElemCount(n) > 0
        /\ n.dist = i.dist /\ n.rows = i.rows /\ n.cols = j.cols
    BY <1>1, <2>2, <2>3, ProductOutputPlaced
  <2>5. Right(Computed(n, 0, [d \in i.dist.devices |-> ProductPart(n, i, j, d)]))
    BY <2>2, <2>4, ProductRight
  <2> QED BY <2>1, <2>5 DEF n
<1>11. \E y : U = With(T, out, y) OBVIOUS
<1> HIDE DEF U, part
<1> QED BY <1>1, <1>5, <1>10, <1>11, ResultRight

-----------------------------------------------------------------------------
(***************************************************************************)
(* The invariant.                                                          *)
(***************************************************************************)
LEMMA ChangeRight ==
  ASSUME AllRight(mat), NEW m \in Matrix, NEW call, NEW new, Change(call, m, new),
         Right(new)
  PROVE  AllRight(mat')
<1>1. mat' = With(mat, m, new) BY DEF Change, With
<1> QED BY <1>1, UpdatedRight

LEMMA RightInit ==
  ASSUME Init
  PROVE  AllRight(mat)
<1>1. mat = [m \in Matrix |-> Default] BY DEF Init
<1>2. \A m \in Matrix : mat[m] = Default BY <1>1
<1>3. mat = [m \in Matrix |-> mat[m]] BY <1>1
<1> QED BY <1>2, <1>3, DefaultRight DEF AllRight

LEMMA RightNext ==
  ASSUME Broken = {}, AllRight(mat), [Next]_mat
  PROVE  AllRight(mat')
<1>1. CASE UNCHANGED mat BY <1>1
<1> SUFFICES ASSUME NEW m \in Matrix,
                    \/ \E shape \in Shapes, dist \in Dists : Construct(m, shape, dist)
                    \/ \E w \in Matrix : MoveMatrix(m, w)
                    \/ \E shape \in Shapes : ResizeMatrix(m, shape) \/ AssignAll(m, shape)
                    \/ \E r \in 1 .. MaxSize : InsertRowAt(m, r) \/ Erase(m, r)
                    \/ Pop(m)
                    \/ ClearMatrix(m)
                    \/ Access(m)
                    \/ \E e \in Written : Write(m, e)
                    \/ \E dist \in Dists \ {Invalid} : ChangeDistribution(m, dist)
                    \/ CopyDataToDevices(m)
                    \/ \E in \in Matrix : MapCall(m, in)
                    \/ \E l, r \in Matrix : ZipCall(m, l, r) \/ AllPairsCall(m, l, r)
                    \/ \E in \in Matrix, o \in Overlaps : OverlapCall(m, in, o)
             PROVE  AllRight(mat')
  BY <1>1 DEF Next
<1> DEFINE x == mat[m]
<1>2. Right(x) /\ Typed(x) /\ x.rows \in 0 .. MaxSize /\ x.cols \in Nat
  BY DEF AllRight, Right, Placed, Typed
<1>3. ASSUME NEW dist \in Dists PROVE dist \in MatrixDistribution /\ ~ IsOverlap(dist)
  <2>1. dist \in DistributionType BY DistsAssumption
  <2>2. ~ IsOverlap(dist)
    BY <2>1 DEF DistributionType, ValidDistribution, IsOverlap, Single, Block, Copy, Invalid
  <2> QED BY <2>1, <2>2 DEF MatrixDistribution
<1>4. ASSUME NEW shape \in Shapes PROVE shape[1] \in 0 .. MaxSize /\ shape[2] \in Nat
  <2>1. shape \in (1 .. MaxSize) \X (Nat \ {0}) BY ShapesAssumption
  <2>2. shape[1] \in 1 .. MaxSize /\ shape[2] \in Nat \ {0} BY <2>1
  <2> QED BY <2>2
<1>5. ASSUME NEW shape \in Shapes, NEW dist \in Dists, Construct(m, shape, dist)
      PROVE  AllRight(mat')
  <2>1. mat' = With(mat, m, Constructed(shape[1], shape[2], dist))
    BY <1>5 DEF Construct, With
  <2>2. Right(Constructed(shape[1], shape[2], dist)) BY <1>3, <1>4, ConstructedRight
  <2> QED BY <2>1, <2>2, UpdatedRight
<1>6. ASSUME NEW w \in Matrix, MoveMatrix(m, w) PROVE AllRight(mat')
  <2>1. mat' = With(With(mat, w, mat[m]), m, MovedFrom) BY <1>6 DEF MoveMatrix, With
  <2>2. AllRight(With(mat, w, mat[m])) BY <1>2, UpdatedRight
  <2> QED BY <2>1, <2>2, DefaultRight, UpdatedRight
<1>7. ASSUME NEW shape \in Shapes, ResizeMatrix(m, shape) PROVE AllRight(mat')
  <2>1. Change("resize", m, Resize(x, shape[1], shape[2])) BY <1>7 DEF ResizeMatrix
  <2>2. Usable(x) BY <2>1 DEF Change
  <2> HIDE DEF x
  <2>3. Right(Resize(x, shape[1], shape[2])) BY <1>2, <1>4, <2>2, ResizeRight DEF Emptied
  <2> QED BY <2>1, <2>3, ChangeRight
<1>8. ASSUME NEW shape \in Shapes, AssignAll(m, shape) PROVE AllRight(mat')
  <2>1. Change("assign", m, Assign(x, shape[1], shape[2])) BY <1>8 DEF AssignAll
  <2>2. Usable(x) BY <2>1 DEF Change
  <2> HIDE DEF x
  <2>3. Right(Assign(x, shape[1], shape[2])) BY <1>2, <1>4, <2>2, AssignRight
  <2> QED BY <2>1, <2>3, ChangeRight
<1>9. ASSUME NEW r \in 1 .. MaxSize, InsertRowAt(m, r) PROVE AllRight(mat')
  <2>1. /\ x.rows < MaxSize /\ r <= x.rows + 1 /\ Change("insert", m, InsertRow(x, r))
    BY <1>9 DEF InsertRowAt
  <2>2. Usable(x) BY <2>1 DEF Change
  <2> HIDE DEF x
  <2>3. Right(InsertRow(x, r)) BY <1>2, <2>1, <2>2, InsertRight
  <2> QED BY <2>1, <2>3, ChangeRight
<1>10. ASSUME NEW r \in 1 .. MaxSize, Erase(m, r) PROVE AllRight(mat')
  <2>1. /\ ~ x.devUp /\ ~ HasBuffers(x) /\ r < x.rows - 1
        /\ Change("erase", m, EraseRow(x, r))
    BY <1>10 DEF Erase, Keeps
  <2>2. Usable(x) BY <2>1 DEF Change
  <2> HIDE DEF x
  <2>3. Right(EraseRow(x, r)) BY <1>2, <2>1, <2>2, EraseRight
  <2> QED BY <2>1, <2>3, ChangeRight
<1>11. ASSUME Pop(m) PROVE AllRight(mat')
  <2>1. x.rows > 0 /\ Change("pop", m, PopBackRow(x)) BY <1>11 DEF Pop
  <2>2. Usable(x) BY <2>1 DEF Change
  <2> HIDE DEF x
  <2>3. Right(PopBackRow(x)) BY <1>2, <2>1, <2>2, PopRight
  <2> QED BY <2>1, <2>3, ChangeRight
<1>12. ASSUME ClearMatrix(m) PROVE AllRight(mat')
  <2>1. x.hostUp /\ Change("clear", m, Clear(x)) BY <1>12 DEF ClearMatrix, Keeps
  <2> HIDE DEF x
  <2>2. Right(Clear(x)) BY <1>2, <2>1, ClearRight
  <2> QED BY <2>1, <2>2, ChangeRight
<1>13. ASSUME Access(m) PROVE AllRight(mat')
  <2>1. Change("access", m, CopyDataToHost(x)) BY <1>13 DEF Access
  <2>2. Usable(x) BY <2>1 DEF Change
  <2> HIDE DEF x
  <2>3. Right(CopyDataToHost(x)) BY <1>2, <2>2, FetchedRight
  <2> QED BY <2>1, <2>3, ChangeRight
<1>14. ASSUME NEW e \in Written, Write(m, e) PROVE AllRight(mat')
  <2>1. /\ Change("write", m, DataOnHostModified(WriteElement(x, e)))
        /\ e <= ElemCount(x)
    BY <1>14 DEF Write
  <2>2. Usable(x) BY <2>1 DEF Change
  <2> HIDE DEF x
  <2>3. e \in 1 .. ElemCount(x)
    <3>1. e \in Nat \ {0} BY WrittenAssumption
    <3>2. ElemCount(x) \in Nat BY <1>2, Counts
    <3> QED BY <2>1, <3>1, <3>2
  <2>4. Right(DataOnHostModified(WriteElement(x, e))) BY <1>2, <2>2, <2>3, WriteRight
  <2> QED BY <2>1, <2>4, ChangeRight
<1>15. ASSUME NEW dist \in Dists \ {Invalid}, ChangeDistribution(m, dist)
       PROVE  AllRight(mat')
  <2>1. Change("setDistribution", m, SetDistribution(x, dist))
    BY <1>15 DEF ChangeDistribution
  <2>2. Usable(x) BY <2>1 DEF Change
  <2>3. dist \in MatrixDistribution /\ ~ IsOverlap(dist) BY <1>3
  <2>4. IsValid(dist)
    <3>1. dist \in ValidDistribution BY DistsAssumption DEF DistributionType
    <3> QED BY <3>1 DEF ValidDistribution, IsValid, Single, Block, Copy
  <2>5. SameRange(x, dist) BY <2>3 DEF SameRange
  <2> HIDE DEF x
  <2>6. Right(SetDistribution(x, dist))
    BY <1>2, <2>2, <2>3, <2>4, <2>5, SetDistributionRight
  <2> QED BY <2>1, <2>6, ChangeRight
<1>16. ASSUME CopyDataToDevices(m) PROVE AllRight(mat')
  <2>1. /\ x.hostUp /\ ~ x.devUp /\ HasBuffers(x)
        /\ Change("copyDataToDevices", m, StartUpload(x))
    BY <1>16 DEF CopyDataToDevices
  <2> HIDE DEF x
  <2>2. Buffered(x) BY <1>2, <2>1 DEF Typed, HasBuffers
  <2>3. IsValid(x.dist)
    <3>1. Usable(x) /\ Placed(x) BY <1>2, <2>1 DEF Usable, Right
    <3> QED BY <2>1, <3>1, WithoutBuffers DEF HasBuffers
  <2>4. Right(StartUpload(x)) BY <1>2, <2>1, <2>2, <2>3, UploadRight DEF Right
  <2> QED BY <2>1, <2>4, ChangeRight
<1> QED BY <1>5, <1>6, <1>7, <1>8, <1>9, <1>10, <1>11, <1>12, <1>13, <1>14, <1>15,
           <1>16, MapCallRight, ZipCallRight, AllPairsCallRight, OverlapCallRight

(***************************************************************************)
(* Whatever is called, if the client keeps the rules, also those about the *)
(* shapes that MapOverlap computes completely (MapOverlapDef.h: execute):  *)
(* each matrix has its fields and buffers in shape, buffers only where     *)
(* there are elements and rows enough for the borders, its elements        *)
(* wherever a flag says so, and its borders right when both copies are     *)
(* current (MatrixDef.h, the skeletons' prepareInput and prepareOutput).   *)
(***************************************************************************)
THEOREM MatricesRight == ASSUME Broken = {} PROVE Spec => []AllRight(mat)
<1>1. Init => AllRight(mat) BY RightInit
<1>2. AllRight(mat) /\ [Next]_mat => AllRight(mat)' 
  <2>1. AllRight(mat) /\ [Next]_mat => AllRight(mat') BY RightNext
  <2> QED BY <2>1 DEF AllRight
<1> QED BY <1>1, <1>2, PTL DEF Spec

LEMMA LabelsAreInt ==
  ASSUME NEW n \in Nat
  PROVE  Label(n) \subseteq Int
BY DEF Label, Neutral, Other

LEMMA RightType ==
  ASSUME NEW m, Right(m)
  PROVE  MatrixType(m)
<1>1. Typed(m) BY DEF Right, Placed
<1>2. ElemCount(m) \in Nat BY <1>1, Counts
<1> DEFINE n == ElemCount(m)
           are(cells) == \A i \in 1 .. Len(cells) : cells[i] \in Label(n)
<1>3. ASSUME NEW k \in Nat, NEW cells \in [1 .. k -> Label(n)] PROVE are(cells)
  <2> HIDE DEF n
  <2>1. Len(cells) = k BY LengthOf
  <2> QED BY <2>1
<1>4. are(m.host) BY <1>1, <1>2, <1>3 DEF Typed
<1>5. ASSUME NEW d \in DOMAIN m.buf PROVE are(m.buf[d])
  <2>1. Buffered(m) /\ d \in m.dist.devices BY <1>1 DEF Typed, Buffered
  <2>2. IsValid(m.dist)
    <3>1. ~ IsValid(m.dist) => m.dist = Invalid
      <4>1. m.dist \in MatrixDistribution BY <1>1 DEF Typed
      <4>2. \A e : IsValid(Single(e)) BY DEF Single, IsValid
      <4>3. IsValid(Block) /\ IsValid(Copy) BY DEF Block, Copy, IsValid
      <4>4. m.dist.kind = "overlap" => IsValid(m.dist) BY DEF IsValid
      <4> QED BY <4>1, <4>2, <4>3, <4>4, Kinds
    <3> QED BY <2>1, <3>1 DEF Invalid
  <2>3. SizeOn(m, d) \in Nat BY <1>1, <2>1, <2>2, PartsOfCells
  <2>4. m.buf[d] \in [1 .. SizeOn(m, d) -> Label(n)] BY <1>1 DEF Typed
  <2> QED BY <1>3, <2>3, <2>4
<1>6. \A cells \in {m.host} \cup {m.buf[d] : d \in DOMAIN m.buf} : are(cells)
  <2> HIDE DEF are
  <2> QED BY <1>4, <1>5
<1>7. \A cells \in {m.host} \cup {m.buf[d] : d \in DOMAIN m.buf} :
        \A i \in 1 .. Len(cells) : cells[i] \in {Neutral, Other} \cup 1 .. ElemCount(m)
  BY <1>6 DEF Label
<1>8. /\ m.rows \in 0 .. MaxSize /\ m.cols \in Nat
      /\ m.hostUp \in BOOLEAN /\ m.devUp \in BOOLEAN
      /\ m.dist \in DistributionType \cup
           {Overlap(o.radius, o.padding) : o \in Overlaps}
      /\ DOMAIN m.buf \in {{}, m.dist.devices}
  BY <1>1 DEF Typed, MatrixDistribution, Buffered
<1> QED BY <1>7, <1>8 DEF MatrixType

\* A part of a sequence that is known cell by cell.
Cells(s, a, b) == SubSeq(s, a + 1, b)

Counting(k, o) == [i \in 1 .. k |-> o + i]

\* The part of s between a and b counts from o.
CountsFrom(s, n, a, b, k, o) ==
  /\ n \in Nat /\ a \in Nat /\ k \in Nat /\ b \in Nat /\ o \in Nat
  /\ s \in [1 .. n -> Int] /\ b = a + k /\ b <= n
  /\ \A i \in 1 .. k : s[a + i] = o + i

LEMMA PartIs ==
  ASSUME NEW s, NEW n, NEW a, NEW b, NEW k, NEW o, CountsFrom(s, n, a, b, k, o)
  PROVE  Cells(s, a, b) = Counting(k, o)
<1> USE DEF CountsFrom
<1> DEFINE t == SubSeq(s, a + 1, b)
<1>1. a <= b /\ b - a = k OBVIOUS
<1>2. t \in Seq(Int) /\ Len(t) = k /\ \A i \in 1 .. k : t[i] = s[a + i]
  BY <1>1, PartOf
<1> HIDE DEF t
<1>3. t = [i \in 1 .. Len(t) |-> t[i]]
  <2>1. t \in Seq(Int) BY <1>2
  <2> QED BY <2>1
<1>4. \A i \in 1 .. k : t[i] = o + i BY <1>2
<1>5. t = [i \in 1 .. k |-> o + i] BY <1>2, <1>3, <1>4
<1> QED BY <1>5 DEF t, Cells, Counting

LEMMA RightOnDevices ==
  ASSUME NEW m, Right(m), m.devUp, ElemCount(m) > 0
  PROVE  CurrentOnDevices(m)
<1>1. Typed(m) /\ IsValid(m.dist) /\ Buffered(m) /\ OwnRight(m)
  BY DEF Right, Placed, Held
<1> SUFFICES ASSUME NEW d \in m.dist.devices
             PROVE  OwnCells(m, d) =
               [i \in 1 .. (RowsOn(m.dist, m.rows, d) * m.cols
                  - (IF IsOverlap(m.dist) THEN 2 * Halo(m) ELSE 0)) |->
                    FirstRow(m, d) * m.cols + i]
  BY DEF CurrentOnDevices
<1>2. /\ Lead(m) \in Nat /\ (IsOverlap(m.dist) => Halo(m) = Lead(m))
      /\ (~ IsOverlap(m.dist) => Lead(m) = 0)
      /\ SizeOn(m, d) \in Nat /\ Own(m, d) \in Nat /\ Origin(m, d) \in Nat
      /\ SizeOn(m, d) = Own(m, d) + 2 * Lead(m)
  BY <1>1, PartsOfCells
<1>3. m.buf[d] \in [1 .. SizeOn(m, d) -> Label(ElemCount(m))] BY <1>1 DEF Typed, Buffered
<1>4. m.buf[d] \in [1 .. SizeOn(m, d) -> Int]
  <2>1. Label(ElemCount(m)) \subseteq Int BY <1>1, Counts, LabelsAreInt
  <2> QED BY <1>3, <2>1
<1>5. Len(m.buf[d]) = SizeOn(m, d) BY <1>1, Lengths
<1>6. \A i \in 1 .. Own(m, d) : m.buf[d][Lead(m) + i] = Origin(m, d) + i
  BY <1>1 DEF OwnRight
<1> DEFINE s == m.buf[d]
           a == Lead(m)
           k == Own(m, d)
           n == SizeOn(m, d)
           o == Origin(m, d)
           right == [i \in 1 .. k |-> o + i]
<1>7. CASE IsOverlap(m.dist)
  <2>1. OwnCells(m, d) = SubSeq(s, a + 1, n - a) BY <1>2, <1>5, <1>7 DEF OwnCells
  <2>2. SubSeq(s, a + 1, n - a) = right
    <3> DEFINE b == n - a
    <3>1. b = a + k /\ b <= n /\ b \in Nat BY <1>2
    <3> HIDE DEF b, s, a, k, n, o
    <3>2. n \in Nat /\ s \in [1 .. n -> Int] /\ a \in Nat /\ k \in Nat /\ o \in Nat
      BY <1>2, <1>4 DEF s, a, k, n, o
    <3>3. \A i \in 1 .. k : s[a + i] = o + i BY <1>6 DEF s, a, k, o
    <3>4. CountsFrom(s, n, a, b, k, o) BY <3>1, <3>2, <3>3, <1>4 DEF CountsFrom
    <3>5. Cells(s, a, b) = Counting(k, o) BY <3>4, PartIs
    <3> QED BY <3>5 DEF b, Cells, Counting
  <2>3. n - 2 * a = k BY <1>2
  <2>4. RowsOn(m.dist, m.rows, d) * m.cols
          - (IF IsOverlap(m.dist) THEN 2 * Halo(m) ELSE 0) = k
    BY <1>2, <1>7, <2>3 DEF SizeOn
  <2> QED BY <2>1, <2>2, <2>4 DEF Origin
<1>8. CASE ~ IsOverlap(m.dist)
  <2>1. OwnCells(m, d) = s BY <1>8 DEF OwnCells
  <2>2. a = 0 /\ n = k BY <1>2, <1>8
  <2>3. s = right
    <3>1. \A i \in 1 .. k : s[i] = o + i
      <4> TAKE i \in 1 .. k
      <4>1. a + i = i BY <2>2
      <4>2. s[a + i] = o + i BY <1>6
      <4> HIDE DEF a, s, o, k
      <4> QED BY <4>1, <4>2
    <3>2. s \in [1 .. k -> Int] BY <1>4, <2>2
    <3> HIDE DEF s, k, o
    <3> QED BY <3>1, <3>2
  <2>4. RowsOn(m.dist, m.rows, d) * m.cols
          - (IF IsOverlap(m.dist) THEN 2 * Halo(m) ELSE 0) = k
    <3>1. RowsOn(m.dist, m.rows, d) * m.cols = k BY <2>2 DEF SizeOn
    <3> HIDE DEF k
    <3>2. k - 0 = k BY <1>2 DEF k
    <3> QED BY <1>8, <3>1, <3>2
  <2> QED BY <2>1, <2>3, <2>4 DEF Origin
<1> QED BY <1>7, <1>8

LEMMA RightBorders ==
  ASSUME NEW m, Right(m), IsOverlap(m.dist), m.hostUp, m.devUp, ElemCount(m) > 0,
         NEW d \in Device
  PROVE  m.buf[d] =
    [i \in 1 .. RowsOn(m.dist, m.rows, d) * m.cols |->
       PaddedRow(m, FirstRow(m, d) + 1 + ((i - 1) \div m.cols) - m.dist.radius,
                 m.dist.padding)[1 + ((i - 1) % m.cols)]]
<1>1. Typed(m) /\ Buffered(m) /\ Bordered(m) BY DEF Right, Placed, Held
<1>2. m.dist.devices = Device
  <2>1. m.dist \in MatrixDistribution BY <1>1 DEF Typed
  <2>2. \A e : ~ IsOverlap(Single(e)) BY DEF Single, IsOverlap
  <2>3. ~ IsOverlap(Block) /\ ~ IsOverlap(Copy) /\ ~ IsOverlap(Invalid)
    BY DEF Block, Copy, Invalid, IsOverlap
  <2> QED BY <2>1, <2>2, <2>3, Kinds
<1>3. m.buf[d] \in [1 .. SizeOn(m, d) -> Label(ElemCount(m))]
  BY <1>1, <1>2 DEF Typed, Buffered
<1>4. \A i \in 1 .. SizeOn(m, d) : m.buf[d][i] = Wanted(m, d, i) BY <1>1 DEF Bordered
<1>5. m.buf[d] = [i \in 1 .. SizeOn(m, d) |-> Wanted(m, d, i)] BY <1>3, <1>4
<1> QED BY <1>5 DEF SizeOn, Wanted

LEMMA RightFits ==
  ASSUME NEW m, Right(m), NEW d \in DOMAIN m.buf
  PROVE  /\ InBounds(DownloadPiece(m, d), ElemCount(m), Len(m.buf[d]))
         /\ InBounds(UploadPiece(m, d), Len(m.host), Len(m.buf[d]))
<1>1. Typed(m) /\ Buffered(m) /\ d \in m.dist.devices /\ Tall(m)
  BY DEF Right, Placed, Typed, Buffered, Roomy
<1>2. IsValid(m.dist)
  <2>1. m.dist \in MatrixDistribution /\ m.dist.devices # {} BY <1>1 DEF Typed
  <2>2. \A e : IsValid(Single(e)) BY DEF Single, IsValid
  <2>3. IsValid(Block) /\ IsValid(Copy) BY DEF Block, Copy, IsValid
  <2>4. m.dist.kind = "overlap" => IsValid(m.dist) BY DEF IsValid
  <2>5. Invalid.devices = {} BY DEF Invalid
  <2> QED BY <2>1, <2>2, <2>3, <2>4, <2>5, Kinds
<1>3. /\ Lead(m) \in Nat /\ SizeOn(m, d) \in Nat /\ Own(m, d) \in Nat
      /\ Origin(m, d) \in Nat /\ SizeOn(m, d) = Own(m, d) + 2 * Lead(m)
      /\ Origin(m, d) + Own(m, d) <= ElemCount(m)
  BY <1>1, <1>2, PartsOfCells
<1>4. Len(m.host) = ElemCount(m) /\ Len(m.buf[d]) = SizeOn(m, d)
  BY <1>1, <1>2, Lengths
<1>5. InBounds(DownloadPiece(m, d), ElemCount(m), Len(m.buf[d]))
  <2>1. DownloadPiece(m, d)
          = [onDevice |-> Lead(m), onHost |-> Origin(m, d), size |-> Own(m, d)]
    BY <1>1, <1>2, DownloadPieces
  <2> DEFINE p == DownloadPiece(m, d)
  <2>2. p.onDevice = Lead(m) /\ p.onHost = Origin(m, d) /\ p.size = Own(m, d) BY <2>1
  <2> HIDE DEF p
  <2>3. InBounds(p, ElemCount(m), Len(m.buf[d])) BY <1>3, <1>4, <2>2 DEF InBounds
  <2> QED BY <2>3 DEF p
<1>6. InBounds(UploadPiece(m, d), Len(m.host), Len(m.buf[d]))
  <2> DEFINE p == UploadPiece(m, d)
  <2>1. /\ p.onDevice \in Nat /\ p.onHost \in Nat /\ p.size \in Nat
        /\ p.onDevice + p.size =
             (IF IsOverlap(m.dist) /\ d = LastDevice THEN SizeOn(m, d) - Lead(m)
              ELSE SizeOn(m, d))
        /\ p.onHost + p.size <= ElemCount(m)
    BY <1>1, <1>2, UploadPieces
  <2> HIDE DEF p
  <2>2. p.onDevice + p.size <= SizeOn(m, d) BY <1>3, <2>1
  <2>3. InBounds(p, Len(m.host), Len(m.buf[d])) BY <1>4, <2>1, <2>2 DEF InBounds
  <2> QED BY <2>3 DEF p
<1> QED BY <1>5, <1>6

(***************************************************************************)
(* Each matrix stays of its type: its copies are of its elements, and its  *)
(* buffers those of none or of all devices of its distribution             *)
(* (MatrixDef.h).                                                          *)
(***************************************************************************)
THEOREM MatricesTypeCorrect == ASSUME Broken = {} PROVE Spec => []TypeOK
<1>1. AllRight(mat) => TypeOK BY RightType DEF AllRight, TypeOK
<1> QED BY <1>1, MatricesRight, PTL

(***************************************************************************)
(* Where a flag says that the host or the devices have the current data,   *)
(* they have every element in its place: after each exchange of a          *)
(* distribution, each transfer and each skeleton that a client calls who   *)
(* keeps the rules (MatrixDef.h: copyDataToDevices, copyDataToHost,        *)
(* dataOnDeviceModified and dataOnHostModified).                           *)
(***************************************************************************)
THEOREM MatricesCurrent == ASSUME Broken = {} PROVE Spec => []CurrentWhereMarked
<1>1. AllRight(mat) => CurrentWhereMarked
  <2> SUFFICES ASSUME AllRight(mat), NEW m \in Matrix
               PROVE  /\ mat[m].hostUp => CurrentOnHost(mat[m])
                      /\ mat[m].devUp /\ ElemCount(mat[m]) > 0 => CurrentOnDevices(mat[m])
    BY DEF CurrentWhereMarked
  <2>1. Right(mat[m]) BY DEF AllRight
  <2>2. mat[m].hostUp => CurrentOnHost(mat[m])
    BY <2>1 DEF Right, Placed, Held, CurrentOnHost
  <2> QED BY <2>1, <2>2, RightOnDevices
<1> QED BY <1>1, MatricesRight, PTL

(***************************************************************************)
(* The buffers of an overlap distribution hold the rows of the neighbours, *)
(* or the padding, around each device's own rows (OLDistributionDef.h:     *)
(* startUpload).                                                           *)
(***************************************************************************)
THEOREM MatricesBordered == ASSUME Broken = {} PROVE Spec => []OverlapsAreBorders
<1>1. AllRight(mat) => OverlapsAreBorders
  <2> SUFFICES ASSUME AllRight(mat), NEW m \in Matrix,
                      IsOverlap(mat[m].dist), mat[m].hostUp, mat[m].devUp,
                      ElemCount(mat[m]) > 0, NEW d \in Device
               PROVE  mat[m].buf[d] =
                 [i \in 1 .. RowsOn(mat[m].dist, mat[m].rows, d) * mat[m].cols |->
                    PaddedRow(mat[m], FirstRow(mat[m], d) + 1 + ((i - 1) \div mat[m].cols)
                                        - mat[m].dist.radius,
                              mat[m].dist.padding)[1 + ((i - 1) % mat[m].cols)]]
    BY Zenon DEF OverlapsAreBorders
  <2>1. Right(mat[m]) BY DEF AllRight
  <2> QED BY <2>1, RightBorders
<1> QED BY <1>1, MatricesRight, PTL

(***************************************************************************)
(* No transfer between the host and a device reaches outside the host's    *)
(* elements or the buffer (BlockDistributionDef.h and OLDistributionDef.h: *)
(* startUpload, startDownload).                                            *)
(***************************************************************************)
THEOREM MatrixTransfersFit == ASSUME Broken = {} PROVE Spec => []TransfersFit
<1>1. AllRight(mat) => TransfersFit BY RightFits DEF AllRight, TransfersFit
<1> QED BY <1>1, MatricesRight, PTL
=============================================================================

----------------------------- MODULE VectorOps ------------------------------
(***************************************************************************)
(* The member functions of Vector<T>: which of its two copies of the data  *)
(* (host buffer, device buffers) is current, and how a call moves data     *)
(* between them.  Each operator maps the machine S before the call to the  *)
(* machine after it; a function that waits is cut at its wait, and the     *)
(* module SkelCL runs the second half when the events have completed.      *)
(***************************************************************************)
EXTENDS DeviceQueue, FiniteSetsExt, SequencesExt

CONSTANT Zero  \* T(): what std::vector::resize(n) fills with

ASSUME ZeroAssumption == Zero \in Value

VectorType ==
  [size   : Nat,                  \* _size
   dist   : DistributionType,     \* _distribution
   hostUp : BOOLEAN,              \* _hostBufferUpToDate
   devUp  : BOOLEAN,              \* _deviceBuffersUpToDate
   host   : Seq(Elem),            \* _hostBuffer
   buf    : [Device -> BufferId \cup {NoBuffer}]]   \* _deviceBuffers

Machine ==
  [vec   : [Vector -> VectorType],
   mem   : [Device -> [BufferId -> Seq(Elem)]],  \* the buffers' contents
   queue : [Device -> Seq(Command)]]             \* commands not completed

NoBuffers == [d \in Device |-> NoBuffer]

HasBuffers(S, v) == \E d \in Device : S.vec[v].buf[d] # NoBuffer

Filled(n, x) == [i \in 1 .. n |-> x]

\* std::vector::resize(n, x).
Resized(s, n, x) == [i \in 1 .. n |-> IF i <= Len(s) THEN s[i] ELSE x]

\* Vector()
Default ==
  [size |-> 0, dist |-> Invalid, hostUp |-> TRUE, devUp |-> TRUE,
   host |-> << >>, buf |-> NoBuffers]

\* Vector(first, last, distribution); Vector(size, value, ...) is s = Filled(...).
Constructed(s, dist) ==
  [size |-> Len(s), dist |-> dist, hostUp |-> TRUE, devUp |-> FALSE,
   host |-> s, buf |-> NoBuffers]

\* A vector that was moved from.
MovedFrom ==
  [size |-> 0, dist |-> Invalid, hostUp |-> FALSE, devUp |-> FALSE,
   host |-> << >>, buf |-> NoBuffers]

-----------------------------------------------------------------------------
\* A longer host buffer is a new allocation, and pointers into the old one
\* dangle.  (A vector's capacity is taken to be its length: the worst case.)
SetHost(S, v, s) ==
  LET T == IF Len(s) > Len(S.vec[v].host)
           THEN Redirect(S, [Identity EXCEPT ![v] = Nobody]) ELSE S
  IN  [T EXCEPT !.vec[v].host = s]

\* The destructor, followed by the construction of r in the same place.
Replace(S, v, r) ==
  [Redirect(S, [Identity EXCEPT ![v] = Nobody]) EXCEPT !.vec[v] = r]

DropBuffers(S, v) == [S EXCEPT !.vec[v].buf = NoBuffers]

\* New buffers of the sizes in len (a function of the devices that get one).
NewBuffers(S, v, len) ==
  LET fresh == [d \in DOMAIN len |-> <<v, CHOOSE s \in FreeSlots(S, v, d) : TRUE>>]
  IN  [S EXCEPT
        !.vec[v].buf = [d \in Device |->
           IF d \in DOMAIN len THEN fresh[d] ELSE NoBuffer],
        !.mem = [d \in Device |->
           IF d \in DOMAIN len
           THEN [S.mem[d] EXCEPT ![fresh[d]] = Filled(len[d], Junk)]
           ELSE S.mem[d]]]

ForceCreateDeviceBuffers(S, v) ==
  LET r == S.vec[v]
  IN  NewBuffers(DropBuffers(S, v), v,
                 [d \in r.dist.devices |-> SizeForDevice(r.dist, r.size, d)])

CreateDeviceBuffers(S, v) ==
  IF HasBuffers(S, v) THEN S ELSE ForceCreateDeviceBuffers(S, v)

-----------------------------------------------------------------------------
\* Elements held by the devices before d: the running offset of the transfer.
ElementsBefore(S, v, d) ==
  Cardinality({x \in (0 .. d - 1) \X (1 .. MaxSize) :
                 x[2] <= Len(Contents(S, x[1], S.vec[v].buf[x[1]]))})


HostOffset(S, v, d) ==
  IF S.vec[v].dist.kind = "block" THEN ElementsBefore(S, v, d) ELSE 0

StartUpload(S, v) ==
  IF S.vec[v].devUp THEN S ELSE
  [EnqueueEach(S, [d \in S.vec[v].dist.devices |->
      WriteCommand(S.vec[v].buf[d], v, HostOffset(S, v, d))])
    EXCEPT !.vec[v].devUp = TRUE]

\* A copy distribution marks the devices out of date once it has been read.
StartDownload(S, v) ==
  IF S.vec[v].hostUp THEN S ELSE
  LET r == S.vec[v]
      T == SetHost(S, v, Resized(r.host, r.size, Zero))
  IN  [EnqueueEach(T, [d \in DownloadDevices(r.dist) |->
          ReadCommand(r.buf[d], v, HostOffset(S, v, d))])
        EXCEPT !.vec[v].hostUp = TRUE,
               !.vec[v].devUp  = @ /\ r.dist.kind # "copy"]

\* Mistake for MustDownload: the flags are the wrong way round.
MustDownload_FlagsSwapped(S, v) == S.vec[v].hostUp /\ ~ S.vec[v].devUp

\* copyDataToHost: must a download be started, and waited for?
MustDownload(S, v) == S.vec[v].devUp /\ ~ S.vec[v].hostUp

\* copyDataToDevices: must an upload be started, and waited for?
MustUpload(S, v) == S.vec[v].hostUp /\ ~ S.vec[v].devUp

DataOnDeviceModified(S, v) ==
  [S EXCEPT !.vec[v].hostUp = FALSE, !.vec[v].devUp = TRUE]

DataOnHostModified(S, v) ==
  [S EXCEPT !.vec[v].hostUp = TRUE, !.vec[v].devUp = FALSE]

\* Mistake for AssignDistribution: _deviceBuffersUpToDate is not reset.
AssignDistribution_DevicesKept(S, v, dist) ==
  IF NeedsExchange(S.vec[v].dist, dist)
  THEN [DropBuffers(S, v) EXCEPT !.vec[v].dist = dist]
  ELSE [S EXCEPT !.vec[v].dist = dist]

\* setDistribution, from after its copyDataToHost on.
AssignDistribution(S, v, dist) ==
  IF NeedsExchange(S.vec[v].dist, dist)
  THEN [DropBuffers(S, v) EXCEPT !.vec[v].devUp = FALSE, !.vec[v].dist = dist]
  ELSE [S EXCEPT !.vec[v].dist = dist]

-----------------------------------------------------------------------------
\* Mistakes for Resize: the device buffers survive, or still count as current.
Resize_BuffersKept(S, v, n, x) ==
  LET T == [S EXCEPT !.vec[v].size = n]
  IN  IF S.vec[v].hostUp
      THEN [SetHost(T, v, Resized(T.vec[v].host, n, x)) EXCEPT !.vec[v].devUp = FALSE]
      ELSE T

Resize_DevicesKept(S, v, n, x) ==
  LET T == [S EXCEPT !.vec[v].size = n]
  IN  IF S.vec[v].hostUp
      THEN DropBuffers(SetHost(T, v, Resized(T.vec[v].host, n, x)), v)
      ELSE T

\* resize: a vector whose host copy is stale only gets a new _size.
Resize(S, v, n, x) ==
  LET T == [S EXCEPT !.vec[v].size = n]
  IN  IF S.vec[v].hostUp
      THEN [DropBuffers(SetHost(T, v, Resized(T.vec[v].host, n, x)), v)
              EXCEPT !.vec[v].devUp = FALSE]
      ELSE T

\* push_back and the insert functions; i is the position of the new element.
Insert(S, v, i, x) ==
  [SetHost(S, v, InsertAt(S.vec[v].host, i, x)) EXCEPT !.vec[v].size = @ + 1]

\* Mistakes for Erase: the wrong element goes, or _size is decremented twice.
Erase_Last(S, v, i) ==
  [SetHost(S, v, RemoveAt(S.vec[v].host, Len(S.vec[v].host)))
    EXCEPT !.vec[v].size = @ - 1]

Erase_Twice(S, v, i) ==
  [SetHost(S, v, RemoveAt(S.vec[v].host, i)) EXCEPT !.vec[v].size = @ - 2]

\* pop_back and the erase functions.
Erase(S, v, i) ==
  [SetHost(S, v, RemoveAt(S.vec[v].host, i)) EXCEPT !.vec[v].size = @ - 1]

\* assign(n, x): the host buffer only.
Assign(S, v, n, x) == SetHost(S, v, Filled(n, x))

\* Mistake for Clear: _size is left alone.
Clear_SizeKept(S, v) == SetHost(S, v, << >>)

Clear(S, v) == [SetHost(S, v, << >>) EXCEPT !.vec[v].size = 0]

\* swap: host buffers and sizes; flags, distributions and device buffers stay.
Swap(S, v, w) ==
  [Redirect(S, [Identity EXCEPT ![v] = w, ![w] = v]) EXCEPT
     !.vec[v].host = S.vec[w].host, !.vec[v].size = S.vec[w].size,
     !.vec[w].host = S.vec[v].host, !.vec[w].size = S.vec[v].size]

\* Mistake for CopyConstruct: the copy shares the device buffers.
CopyConstruct_Shared(S, v, w) == Replace(S, w, S.vec[v])

\* Mistake for CopyConstruct: the device data is copied when the copy is made, and
\* not when the device has worked off what was queued before.
CopyConstruct_AtOnce(S, v, w) ==
  LET T    == Replace(S, w, [S.vec[v] EXCEPT !.buf = NoBuffers])
      held == {d \in Device : S.vec[v].buf[d] # NoBuffer}
      U    == NewBuffers(T, w, [d \in held |-> Len(Contents(S, d, S.vec[v].buf[d]))])
  IN  [U EXCEPT !.mem = [d \in Device |->
         IF d \in held
         THEN [@[d] EXCEPT ![U.vec[w].buf[d]] = Contents(S, d, S.vec[v].buf[d])]
         ELSE @[d]]]

\* Vector(const Vector&) in the place of w: device buffers are copied deeply,
\* by a copy command in each device's queue.
CopyConstruct(S, v, w) ==
  LET T    == Replace(S, w, [S.vec[v] EXCEPT !.buf = NoBuffers])
      held == {d \in Device : S.vec[v].buf[d] # NoBuffer}
      U    == NewBuffers(T, w, [d \in held |-> Len(Contents(S, d, S.vec[v].buf[d]))])
  IN  EnqueueEach(U, [d \in held |-> CopyCommand(S.vec[v].buf[d], U.vec[w].buf[d])])

\* Mistake for Move: the host memory is copied and freed, not handed over.
Move_HostFreed(S, v, w) ==
  [Redirect(S, [Identity EXCEPT ![v] = Nobody, ![w] = Nobody]) EXCEPT
     !.vec[w] = S.vec[v], !.vec[v] = MovedFrom]

\* Vector(Vector&&) and the move assignment: w takes over all that v owns.
Move(S, v, w) ==
  [Redirect(S, [Identity EXCEPT ![v] = w, ![w] = Nobody]) EXCEPT
     !.vec[w] = S.vec[v], !.vec[v] = MovedFrom]

\* A write through a reference obtained from operator[], begin(), ...
StoreElement(S, v, i, x) == [S EXCEPT !.vec[v].host[i] = x]
=============================================================================

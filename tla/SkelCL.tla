------------------------------- MODULE SkelCL -------------------------------
(***************************************************************************)
(* The core of the library at run time: one host thread calling Vector     *)
(* members and the Map skeleton, and the devices working off their command *)
(* queues at their own pace.                                               *)
(*                                                                         *)
(* A call that does not wait is one action.  A call that waits (it needs   *)
(* data that is only on the devices, or it is copyDataToDevices) is two:   *)
(* the part up to the wait leaves a continuation in pc, and Resume runs    *)
(* the rest once the commands it waits for have completed.  The device     *)
(* steps of other queues that could fall inside one action touch nothing   *)
(* that action touches.                                                    *)
(***************************************************************************)
EXTENDS VectorOps

CONSTANTS
  Calls,      \* bound: the calls that this client makes
  Ranges,     \* bound: the contents a vector is constructed with
  Sizes,      \* bound: sizes a vector is resized or assigned to
  Inputs,     \* bound: values the client resizes with, inserts or writes
  Dists,      \* bound: distributions the client asks for
  Backlog,    \* bound: commands in flight when the next call starts
  Broken      \* the client rules that this client does not keep

(***************************************************************************)
(* What the library leaves to its clients.                                 *)
(*   quiet    host memory is not changed or freed while an upload reads it *)
(*   current  resize is called with a current host copy only               *)
(*   hostOnly insert, erase, assign and clear are applied to vectors that  *)
(*            live on the host alone                                       *)
(*   bare     swap is applied to vectors that live on the host alone       *)
(*   length   assign keeps the length                                      *)
(*   fits     the output of a skeleton is not larger than its input        *)
(*   awaited  the event of startDownload is waited for                     *)
(*   spare    forceCreateDeviceBuffers is not applied to a vector that is  *)
(*            current on the devices                                       *)
(*   settled  no download overtakes an upload of the same vector that was  *)
(*            started under an earlier distribution                        *)
(***************************************************************************)
Call == {"default", "construct", "copy", "move", "swap", "resize", "insert",
         "erase", "assign", "clear", "access", "write", "setDistribution",
         "createBuffers", "forceCreateBuffers", "startUpload",
         "copyDataToDevices", "startDownload", "dataOnDeviceModified",
         "dataOnHostModified", "map"}

Rule == {"quiet", "current", "hostOnly", "bare", "length", "fits", "awaited",
         "spare", "settled"}

ASSUME BoundAssumption ==
  /\ Calls \subseteq Call
  /\ \A s \in Ranges : s \in Seq(Value) /\ Len(s) \in 1 .. MaxSize
  /\ Sizes \subseteq 1 .. MaxSize
  /\ Inputs \subseteq Value
  /\ Dists \subseteq DistributionType
  /\ Backlog \in Nat
ASSUME BrokenAssumption == Broken \subseteq Rule

Keeps(rule, condition) == rule \in Broken \/ condition

VARIABLES
  vec,    \* vec[v]: the state of Vector object v
  mem,    \* mem[d][b]: the contents of buffer b of device d
  queue,  \* queue[d]: the commands device d has not completed
  pc      \* what the host thread is doing: Idle, or a continuation

vars == <<vec, mem, queue, pc>>

Now == [vec |-> vec, mem |-> mem, queue |-> queue]

Commit(S) ==
  LET T == Release(S)
  IN  vec' = T.vec /\ mem' = T.mem /\ queue' = T.queue

Idle == [op |-> "idle"]

Continuation ==
  [op : {"access", "upload"}, v : Vector]
    \cup [op : {"write"}, v : Vector, i : Nat, x : Value]
    \cup [op : {"setDistribution"}, v : Vector, dist : ValidDistribution]
    \cup [op : {"map"}, v : Vector, w : Vector]

-----------------------------------------------------------------------------
\* MapHelper::prepareInput.
PrepareInput(S, in) ==
  LET T == IF IsValid(S.vec[in].dist) THEN S ELSE AssignDistribution(S, in, Block)
  IN  StartUpload(CreateDeviceBuffers(T, in), in)

\* MapHelper::prepareOutput, before its setDistribution ...
EnlargeOutput(S, out, in) ==
  IF S.vec[out].size < S.vec[in].size
  THEN Resize(S, out, S.vec[in].size, Zero) ELSE S

\* ... and from it on, after the wait that setDistribution may contain.
AdoptDistribution(S, out, in) ==
  IF out = in THEN S
  ELSE CreateDeviceBuffers(AssignDistribution(S, out, S.vec[in].dist), out)

\* Mistake for Execute: of a copy distribution only the first device is used.
Execute_FirstDevice(S, out, in) ==
  DataOnDeviceModified(
    EnqueueEach(S, [d \in DownloadDevices(S.vec[in].dist) |->
      KernelCommand(S.vec[in].buf[d], S.vec[out].buf[d])]), out)

\* Map::execute and updateModifiedStatus.
Execute(S, out, in) ==
  DataOnDeviceModified(
    EnqueueEach(S, [d \in S.vec[in].dist.devices |->
      KernelCommand(S.vec[in].buf[d], S.vec[out].buf[d])]), out)

\* What a call still has to do when its transfers have completed.
Finish(S, k) ==
  CASE k.op \in {"access", "upload"} -> S
    [] k.op = "write" ->
         DataOnHostModified(StoreElement(S, k.v, k.i, k.x), k.v)
    [] k.op = "setDistribution" -> AssignDistribution(S, k.v, k.dist)
    [] k.op = "map" -> Execute(AdoptDistribution(S, k.v, k.w), k.v, k.w)

\* Mistakes for Awaited: nothing is waited for, or the first device only.
Awaited_Nothing(S, k, d) == {}

Awaited_FirstDevice(S, k, d) ==
  {c \in Queued(S, d) :
     /\ d = 0
     /\ c.op = (IF k.op = "upload" THEN "write" ELSE "read")
     /\ c.vec = k.v}

\* The commands a continuation waits for.
Awaited(S, k, d) ==
  {c \in Queued(S, d) :
     /\ c.op = (IF k.op = "upload" THEN "write" ELSE "read")
     /\ c.vec = k.v
     /\ S.vec[k.v].buf[d] \in {c.from, c.to}}

\* Runs k after copyDataToHost(k.v) where need says that it is called.
After(S, need, k) ==
  IF need /\ MustDownload(S, k.v)
  THEN Commit(StartDownload(S, k.v)) /\ pc' = k
  ELSE Commit(Finish(S, k)) /\ pc' = Idle

-----------------------------------------------------------------------------
(***************************************************************************)
(* Preconditions.                                                          *)
(***************************************************************************)
\* The host thread may start a call; the bounds leave room for its commands.
Ready(call) ==
  /\ call \in Calls
  /\ pc = Idle
  /\ Cardinality(UNION {{d} \X DOMAIN queue[d] : d \in Device}) <= Backlog
  /\ \A v \in Vector, d \in Device : FreeSlots(Now, v, d) # {}

Intact(v) == vec[v].hostUp \/ vec[v].devUp    \* not moved from

Uploading(v) == Pending(Now, "write", v)

\* An upload into buffers the vector has given up since.
Overtaken(v) ==
  \E d \in Device : \E c \in Queued(Now, d) :
    c.op = "write" /\ c.vec = v /\ c.to # vec[v].buf[d]

HostOnly(v) == /\ vec[v].hostUp /\ ~ vec[v].devUp /\ ~ HasBuffers(Now, v)

\* A download of v, if need be, finds what it asserts.
CanFetch(v) ==
  MustDownload(Now, v) =>
    /\ vec[v].size > 0 /\ IsValid(vec[v].dist) /\ HasBuffers(Now, v)
    /\ Keeps("settled", ~ Overtaken(v))

-----------------------------------------------------------------------------
(***************************************************************************)
(* The calls of the host thread.                                           *)
(***************************************************************************)
DefaultConstruct(v) ==
  /\ Ready("default")
  /\ Keeps("quiet", ~ Uploading(v))
  /\ Commit(Replace(Now, v, Default))
  /\ UNCHANGED pc

ConstructVector(v, s, dist) ==
  /\ Ready("construct")
  /\ Keeps("quiet", ~ Uploading(v))
  /\ Commit(Replace(Now, v, Constructed(s, dist)))
  /\ UNCHANGED pc

CopyVector(v, w) ==
  /\ Ready("copy")
  /\ v # w /\ Intact(v)
  /\ Keeps("quiet", ~ Uploading(w))
  /\ Commit(CopyConstruct(Now, v, w))
  /\ UNCHANGED pc

MoveVector(v, w) ==
  /\ Ready("move")
  /\ v # w /\ Intact(v)
  /\ Keeps("quiet", ~ Uploading(w))
  /\ Commit(Move(Now, v, w))
  /\ UNCHANGED pc

SwapVectors(v, w) ==
  /\ Ready("swap")
  /\ v # w /\ Intact(v) /\ Intact(w)
  /\ Keeps("bare", HostOnly(v) /\ HostOnly(w))
  /\ Commit(Swap(Now, v, w))
  /\ UNCHANGED pc

ResizeVector(v, n, x) ==
  /\ Ready("resize")
  /\ Intact(v)
  /\ Keeps("current", vec[v].hostUp)
  /\ Keeps("quiet", ~ Uploading(v))
  /\ Commit(Resize(Now, v, n, x))
  /\ UNCHANGED pc

InsertElement(v, i, x) ==
  /\ Ready("insert")
  /\ Intact(v) /\ vec[v].size < MaxSize
  /\ Keeps("hostOnly", HostOnly(v))
  /\ Keeps("quiet", ~ Uploading(v))
  /\ i \in 1 .. Len(vec[v].host) + 1
  /\ Commit(Insert(Now, v, i, x))
  /\ UNCHANGED pc

EraseElement(v, i) ==
  /\ Ready("erase")
  /\ Intact(v)
  /\ Keeps("hostOnly", HostOnly(v))
  /\ Keeps("quiet", ~ Uploading(v))
  /\ i \in 1 .. Len(vec[v].host)
  /\ Commit(Erase(Now, v, i))
  /\ UNCHANGED pc

AssignAll(v, n, x) ==
  /\ Ready("assign")
  /\ Intact(v)
  /\ Keeps("hostOnly", HostOnly(v))
  /\ Keeps("quiet", ~ Uploading(v))
  /\ Keeps("length", n = vec[v].size)
  /\ Commit(Assign(Now, v, n, x))
  /\ UNCHANGED pc

ClearVector(v) ==
  /\ Ready("clear")
  /\ Intact(v)
  /\ Keeps("hostOnly", HostOnly(v))
  /\ Keeps("quiet", ~ Uploading(v))
  /\ Commit(Clear(Now, v))
  /\ UNCHANGED pc

\* begin, end, operator[], at, front, back, copyDataToHost.
Access(v) ==
  /\ Ready("access")
  /\ Intact(v) /\ CanFetch(v)
  /\ After(Now, TRUE, [op |-> "access", v |-> v])

\* A write through the reference, then dataOnHostModified.
WriteElement(v, i, x) ==
  /\ Ready("write")
  /\ Intact(v) /\ CanFetch(v)
  /\ Keeps("quiet", ~ Uploading(v))
  /\ i \in 1 .. vec[v].size
  /\ After(Now, TRUE, [op |-> "write", v |-> v, i |-> i, x |-> x])

SetDistribution(v, dist) ==
  /\ Ready("setDistribution")
  /\ Intact(v)
  /\ NeedsExchange(vec[v].dist, dist) => CanFetch(v)
  /\ After(Now, NeedsExchange(vec[v].dist, dist),
           [op |-> "setDistribution", v |-> v, dist |-> dist])

CreateBuffers(v) ==
  /\ Ready("createBuffers")
  /\ Intact(v)
  /\ vec[v].size > 0 /\ IsValid(vec[v].dist)
  /\ Allocatable(vec[v].dist, vec[v].size)
  /\ Commit(CreateDeviceBuffers(Now, v))
  /\ UNCHANGED pc

ForceCreateBuffers(v) ==
  /\ Ready("forceCreateBuffers")
  /\ Intact(v)
  /\ Keeps("spare", ~ vec[v].devUp)
  /\ vec[v].size > 0 /\ IsValid(vec[v].dist)
  /\ Allocatable(vec[v].dist, vec[v].size)
  /\ Commit(ForceCreateDeviceBuffers(Now, v))
  /\ UNCHANGED pc

BeginUpload(v) ==
  /\ Ready("startUpload")
  /\ Intact(v) /\ vec[v].size > 0 /\ HasBuffers(Now, v)
  /\ Commit(StartUpload(Now, v))
  /\ UNCHANGED pc

CopyDataToDevices(v) ==
  /\ Ready("copyDataToDevices")
  /\ Intact(v) /\ vec[v].size > 0 /\ HasBuffers(Now, v)
  /\ MustUpload(Now, v)
  /\ Commit(StartUpload(Now, v))
  /\ pc' = [op |-> "upload", v |-> v]

\* startDownload; its event is waited for, or dropped.
BeginDownload(v) ==
  /\ Ready("startDownload")
  /\ MustDownload(Now, v) /\ CanFetch(v)
  /\ Commit(StartDownload(Now, v))
  /\ pc' = IF "awaited" \in Broken THEN Idle ELSE [op |-> "access", v |-> v]

MarkDeviceModified(v) ==
  /\ Ready("dataOnDeviceModified")
  /\ vec[v].devUp /\ HasBuffers(Now, v)
  /\ Commit(DataOnDeviceModified(Now, v))
  /\ UNCHANGED pc

MarkHostModified(v) ==
  /\ Ready("dataOnHostModified")
  /\ vec[v].hostUp
  /\ Commit(DataOnHostModified(Now, v))
  /\ UNCHANGED pc

\* Map::operator()(out(output), input).
MapCall(out, in) ==
  LET dist == IF IsValid(vec[in].dist) THEN vec[in].dist ELSE Block
      grows == vec[out].size < vec[in].size
      exchange == out # in /\ NeedsExchange(vec[out].dist, dist)
  IN  /\ Ready("map")
      /\ Intact(in) /\ Intact(out)
      /\ vec[in].size > 0 /\ Allocatable(dist, vec[in].size)
      /\ Keeps("fits", vec[out].size <= vec[in].size)
      /\ Allocatable(dist, vec[out].size) \/ grows
      /\ grows => Keeps("current", vec[out].hostUp) /\ Keeps("quiet", ~ Uploading(out))
      /\ exchange => CanFetch(out)
      /\ After(EnlargeOutput(PrepareInput(Now, in), out, in), exchange,
               [op |-> "map", v |-> out, w |-> in])

Resume ==
  /\ pc # Idle
  /\ \A d \in Device : Awaited(Now, pc, d) = {}
  /\ Commit(Finish(Now, pc))
  /\ pc' = Idle

\* A device completes its oldest command.
DeviceStep(d) ==
  /\ queue[d] # << >>
  /\ Commit(RunHead(Now, d))
  /\ UNCHANGED pc

-----------------------------------------------------------------------------
Init ==
  /\ vec = [v \in Vector |-> Default]
  /\ mem = [d \in Device |-> [b \in BufferId |-> << >>]]
  /\ queue = [d \in Device |-> << >>]
  /\ pc = Idle

HostStep ==
  \E v \in Vector :
    \/ DefaultConstruct(v)
    \/ \E s \in Ranges, dist \in Dists :
         ConstructVector(v, s, dist)
    \/ \E w \in Vector : CopyVector(v, w)
    \/ \E w \in Vector : MoveVector(v, w)
    \/ \E w \in Vector : SwapVectors(v, w)
    \/ \E n \in Sizes, x \in Inputs : ResizeVector(v, n, x)
    \/ \E i \in 1 .. MaxSize, x \in Inputs : InsertElement(v, i, x)
    \/ \E i \in 1 .. MaxSize : EraseElement(v, i)
    \/ \E n \in Sizes, x \in Inputs : AssignAll(v, n, x)
    \/ ClearVector(v)
    \/ Access(v)
    \/ \E i \in 1 .. MaxSize, x \in Inputs : WriteElement(v, i, x)
    \/ \E dist \in Dists \ {Invalid} : SetDistribution(v, dist)
    \/ CreateBuffers(v)
    \/ ForceCreateBuffers(v)
    \/ BeginUpload(v)
    \/ CopyDataToDevices(v)
    \/ BeginDownload(v)
    \/ MarkDeviceModified(v)
    \/ MarkHostModified(v)
    \/ \E w \in Vector : MapCall(v, w)

Next == HostStep \/ Resume \/ (\E d \in Device : DeviceStep(d))

(***************************************************************************)
(* A flushed OpenCL queue makes progress, and a host thread whose events   *)
(* have completed returns from its wait.  Nothing makes the client call.   *)
(***************************************************************************)
Fairness == WF_vars(Resume) /\ \A d \in Device : WF_vars(DeviceStep(d))

Spec == Init /\ [][Next]_vars /\ Fairness
=============================================================================

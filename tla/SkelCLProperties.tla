-------------------------- MODULE SkelCLProperties --------------------------
(***************************************************************************)
(* What is claimed of the module SkelCL.                                   *)
(***************************************************************************)
EXTENDS SkelCL

(***************************************************************************)
(* Type correctness.                                                       *)
(***************************************************************************)
TypeOK ==
  /\ Now \in Machine
  /\ pc \in Continuation \cup {Idle}

(***************************************************************************)
(* The two flags never lose the data: a vector that has elements has a     *)
(* copy that is marked current, and where only the device copy is, there   *)
(* is a buffer on every device of the distribution (setDistribution,       *)
(* startUpload, startDownload, dataOn...Modified).                         *)
(***************************************************************************)
CurrentCopyExists ==
  \A v \in Vector :
    /\ vec[v].hostUp \/ vec[v].devUp \/ vec[v].size = 0
    /\ vec[v].devUp /\ ~ vec[v].hostUp =>
         /\ IsValid(vec[v].dist)
         /\ \A d \in vec[v].dist.devices : vec[v].buf[d] # NoBuffer

(***************************************************************************)
(* _size is the length of a current host copy: what size() reports is what *)
(* begin() and end() delimit.                                              *)
(***************************************************************************)
SizeIsCurrent ==
  \A v \in Vector : vec[v].hostUp => Len(vec[v].host) = vec[v].size

(***************************************************************************)
(* Device buffers, where there are any, are those of the distribution, and *)
(* have the sizes it gives for the present size: they are never left over  *)
(* from an earlier size or distribution (createDeviceBuffers keeps what it *)
(* finds).                                                                 *)
(***************************************************************************)
BuffersFit ==
  \A v \in Vector : HasBuffers(Now, v) =>
    \A d \in Device :
      IF d \in vec[v].dist.devices
      THEN /\ vec[v].buf[d] # NoBuffer
           /\ Len(mem[d][vec[v].buf[d]]) = SizeForDevice(vec[v].dist, vec[v].size, d)
      ELSE vec[v].buf[d] = NoBuffer

(***************************************************************************)
(* No two vectors share a device buffer.                                   *)
(***************************************************************************)
BuffersAreOwned ==
  \A v, w \in Vector, d \in Device :
    v # w /\ vec[v].buf[d] # NoBuffer => vec[v].buf[d] # vec[w].buf[d]

(***************************************************************************)
(* No command in flight reads or writes outside the host memory and the    *)
(* buffers it was given, and none uses host memory that was freed.         *)
(***************************************************************************)
TransfersInBounds ==
  \A d \in Device : \A c \in Queued(Now, d) :
    c.op \in {"read", "kernel", "copy"} \/ c.vec \in Vector => InBounds(Now, d, c)

NoDanglingUpload ==
  \A d \in Device : \A c \in Queued(Now, d) : c.op = "write" => c.vec \in Vector

(***************************************************************************)
(* begin() and the other accessors block until the transfer is complete:   *)
(* while the client runs, no vector whose host copy counts as current has  *)
(* a download in flight.                                                   *)
(***************************************************************************)
AccessIsComplete ==
  pc = Idle => \A v \in Vector : vec[v].hostUp => ~ Pending(Now, "read", v)

-----------------------------------------------------------------------------
\* All queues worked off, lower device first.
Drained[S \in Machine] ==
  LET busy == {d \in Device : S.queue[d] # << >>}
  IN  IF busy = {} THEN S
      ELSE Drained[RunHead(S, CHOOSE d \in busy : \A e \in busy : d <= e)]

\* The elements v has on its devices, as seen from device d.
OnDevices(S, v, d) ==
  LET part(e) == Contents(S, e, S.vec[v].buf[e])
  IN  IF S.vec[v].dist.kind = "block"
      THEN FlattenSeq([i \in 1 .. NumDevices |-> part(i - 1)])
      ELSE part(d)

\* What an access to each vector finds: its host copy if that is current, and
\* else what a download puts there.
Held[S \in Machine] ==
  [v \in Vector |->
     LET r == S.vec[v]
     IN  IF r.hostUp \/ ~ r.devUp THEN r.host
         ELSE Overlay(Resized(r.host, r.size, Zero),
                OnDevices(S, v, CHOOSE d \in DownloadDevices(r.dist) : TRUE), 0)]

\* ... once the commands in flight have completed.
Content == Held[Drained[Now]]

(***************************************************************************)
(* Copies that are marked current are equal: the host's and that of every  *)
(* device, so that skipping a download, or an upload, is right; and those  *)
(* of the devices of a copy distribution, so that asking only the first of *)
(* them is.                                                                *)
(***************************************************************************)
CopiesAgree ==
  LET S == Drained[Now]
  IN  \A v \in Vector :
        /\ vec[v].hostUp /\ vec[v].devUp =>
             \A d \in vec[v].dist.devices : OnDevices(S, v, d) = S.vec[v].host
        /\ vec[v].devUp /\ vec[v].dist.kind = "copy" =>
             \A d \in Device : OnDevices(S, v, d) = OnDevices(S, v, 0)

Abstract == INSTANCE Containers WITH content <- Content

(***************************************************************************)
(* Every step of the library is a step of the sequential containers.       *)
(***************************************************************************)
ImplementsContainers == Abstract!Spec

(***************************************************************************)
(* When a device completes a command changes nothing that a client can     *)
(* observe: the asynchronous transfers and kernels are invisible.          *)
(***************************************************************************)
DevicesAreInvisible ==
  [][(\E d \in Device : Len(queue'[d]) < Len(queue[d])) => UNCHANGED Content]_vars

(***************************************************************************)
(* Each call does to the elements what its documentation says, and nothing *)
(* else: those that only move data or mark it leave every vector's         *)
(* contents alone, however the transfers and kernels in flight are spread  *)
(* over the queues.                                                        *)
(***************************************************************************)
Does(action, after) == action => Content' = after

MovesDataOnly(v) ==
  \/ Access(v) \/ BeginUpload(v) \/ CopyDataToDevices(v) \/ BeginDownload(v)
  \/ CreateBuffers(v) \/ ForceCreateBuffers(v)
  \/ MarkDeviceModified(v) \/ MarkHostModified(v)
  \/ \E dist \in Dists \ {Invalid} : SetDistribution(v, dist)

CallsDoWhatTheySay ==
  [][\A v \in Vector :
       /\ Does(DefaultConstruct(v), Abstract!Clear(Content, v))
       /\ Does(ClearVector(v), Abstract!Clear(Content, v))
       /\ \A s \in Ranges, dist \in Dists :
            Does(ConstructVector(v, s, dist), Abstract!Construct(Content, v, s))
       /\ \A n \in Sizes, x \in Inputs :
            /\ Does(ResizeVector(v, n, x), Abstract!Resize(Content, v, n, x))
            /\ Does(AssignAll(v, n, x), Abstract!Assign(Content, v, n, x))
       /\ \A i \in 1 .. MaxSize :
            /\ \A x \in Inputs :
                 Does(InsertElement(v, i, x), Abstract!Insert(Content, v, i, x))
            /\ Does(EraseElement(v, i), Abstract!Erase(Content, v, i))
       /\ \A w \in Vector :
            /\ Does(CopyVector(v, w), Abstract!CopyTo(Content, v, w))
            /\ Does(MoveVector(v, w), Abstract!MoveTo(Content, v, w))
            /\ Does(SwapVectors(v, w), Abstract!Swap(Content, v, w))
       /\ Does(MovesDataOnly(v), Content)
       /\ Does(Resume /\ pc.op \in {"access", "upload", "setDistribution"}, Content)]_vars

\* A write through a reference takes effect when the download it waits for, if
\* any, has completed.
WritesLand ==
  [][\A v \in Vector, i \in 1 .. MaxSize, x \in Inputs :
       /\ Does(WriteElement(v, i, x) /\ pc' = Idle, Abstract!Write(Content, v, i, x))
       /\ Does(Resume /\ pc = [op |-> "write", v |-> v, i |-> i, x |-> x],
               Abstract!Write(Content, v, i, x))]_vars

\* A step that hands a device a kernel from a buffer of in to one of out.
Launches(out, in) ==
  \E d \in Device :
    /\ Len(queue'[d]) > Len(queue[d])
    /\ queue'[d][Len(queue'[d])] = KernelCommand(vec'[in].buf[d], vec'[out].buf[d])

(***************************************************************************)
(* A Map call computes f(c[i]) for every i, of what the input held when it *)
(* was called, however late the devices come to it.                        *)
(***************************************************************************)
MapComputesAll ==
  [][\A out, in \in Vector :
       Launches(out, in) => Content' = Abstract!Map(Content, out, in)]_vars
=============================================================================

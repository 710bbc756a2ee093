---------------------------- MODULE SkelCLProofs ----------------------------
(***************************************************************************)
(* Theorems about SkelCL, for any number of devices and vectors, any       *)
(* values, sizes and distributions, and commands in flight without limit.  *)
(*                                                                         *)
(* They are about clients that keep three of the rules: insert, erase,     *)
(* assign, clear and swap are applied to vectors that live on the host     *)
(* alone, and assign keeps the length.  Whether a client keeps the other   *)
(* rules makes no difference to what is proved here.                       *)
(***************************************************************************)
EXTENDS SkelCLProperties, FiniteSetTheorems, SequenceTheorems, TLAPS

-----------------------------------------------------------------------------
(***************************************************************************)
(* What each operator of DeviceQueue and VectorOps does to a well-typed    *)
(* machine: it stays well typed, of the vectors only the ones named in the *)
(* call change, in the way stated, and no buffer handle becomes used but   *)
(* those that the call allocates.                                          *)
(***************************************************************************)

(***************************************************************************)
(* Sequences.                                                              *)
(***************************************************************************)
\* A sequence padded or cut to length n.
LEMMA ResizedType ==
  ASSUME NEW s \in Seq(Elem), NEW n \in Nat, NEW x \in Elem
  PROVE  Resized(s, n, x) \in Seq(Elem) /\ Len(Resized(s, n, x)) = n
BY DEF Resized

\* A constant sequence.
LEMMA FilledType ==
  ASSUME NEW n \in Nat, NEW x \in Elem
  PROVE  Filled(n, x) \in Seq(Elem) /\ Len(Filled(n, x)) = n
BY DEF Filled

\* Laying one sequence over another changes neither the type nor the length.
LEMMA OverlayType ==
  ASSUME NEW dst \in Seq(Elem), NEW src \in Seq(Elem), NEW off \in Nat
  PROVE  /\ Overlay(dst, src, off) \in Seq(Elem)
         /\ Len(Overlay(dst, src, off)) = Len(dst)
BY DEF Overlay

\* Concatenation and subsequences of element sequences.
LEMMA ConcatType ==
  ASSUME NEW s \in Seq(Elem), NEW t \in Seq(Elem)
  PROVE  s \o t \in Seq(Elem) /\ Len(s \o t) = Len(s) + Len(t)
BY ConcatProperties

LEMMA SubSeqType ==
  ASSUME NEW s \in Seq(Elem), NEW m \in 1 .. Len(s) + 1, NEW n \in m - 1 .. Len(s)
  PROVE  SubSeq(s, m, n) \in Seq(Elem) /\ Len(SubSeq(s, m, n)) = n - m + 1
<1>1. m \in Int /\ n \in Int /\ Len(s) \in Nat
  BY LenProperties
<1>2. \A i \in m .. n : i \in 1 .. Len(s)
  BY <1>1
<1>3. \A i \in m .. n : s[i] \in Elem
  BY <1>2, ElementOfSeq
<1>4. /\ SubSeq(s, m, n) \in Seq(Elem)
      /\ Len(SubSeq(s, m, n)) = IF m <= n THEN n - m + 1 ELSE 0
  BY <1>1, <1>3, SubSeqProperties
<1> QED BY <1>1, <1>4

\* What insertion and removal do to the length.
LEMMA InsertAtType ==
  ASSUME NEW s \in Seq(Elem), NEW i \in 1 .. Len(s) + 1, NEW x \in Elem
  PROVE  InsertAt(s, i, x) \in Seq(Elem) /\ Len(InsertAt(s, i, x)) = Len(s) + 1
<1>1. Len(s) \in Nat
  BY LenProperties
<1>2. SubSeq(s, 1, i - 1) \in Seq(Elem) /\ Len(SubSeq(s, 1, i - 1)) = i - 1
  BY <1>1, SubSeqType
<1>3. /\ SubSeq(s, i, Len(s)) \in Seq(Elem)
      /\ Len(SubSeq(s, i, Len(s))) = Len(s) - i + 1
  BY <1>1, SubSeqType
<1>4. <<x>> \in Seq(Elem) /\ Len(<<x>>) = 1
  OBVIOUS
<1>5. /\ SubSeq(s, 1, i - 1) \o <<x>> \in Seq(Elem)
      /\ Len(SubSeq(s, 1, i - 1) \o <<x>>) = i
  BY <1>2, <1>4, ConcatType
<1>6. ASSUME NEW t \in Seq(Elem), NEW u \in Seq(Elem),
             Len(t) = i, Len(u) = Len(s) - i + 1
      PROVE  t \o u \in Seq(Elem) /\ Len(t \o u) = Len(s) + 1
  BY <1>1, <1>6, ConcatType
<1> QED BY <1>3, <1>5, <1>6, Zenon DEF InsertAt

LEMMA RemoveAtType ==
  ASSUME NEW s \in Seq(Elem), NEW i \in 1 .. Len(s)
  PROVE  RemoveAt(s, i) \in Seq(Elem) /\ Len(RemoveAt(s, i)) = Len(s) - 1
<1>1. Len(s) \in Nat
  BY LenProperties
<1>2. SubSeq(s, 1, i - 1) \in Seq(Elem) /\ Len(SubSeq(s, 1, i - 1)) = i - 1
  BY <1>1, SubSeqType
<1>3. /\ SubSeq(s, i + 1, Len(s)) \in Seq(Elem)
      /\ Len(SubSeq(s, i + 1, Len(s))) = Len(s) - i
  BY <1>1, SubSeqType
<1>4. ASSUME NEW t \in Seq(Elem), NEW u \in Seq(Elem),
             Len(t) = i - 1, Len(u) = Len(s) - i
      PROVE  t \o u \in Seq(Elem) /\ Len(t \o u) = Len(s) - 1
  BY <1>1, <1>4, ConcatType
<1> QED BY <1>2, <1>3, <1>4, Zenon DEF RemoveAt

-----------------------------------------------------------------------------
(***************************************************************************)
(* The parts of a machine.                                                 *)
(***************************************************************************)
\* What the members of Machine look like, and how to show membership.
LEMMA MachineParts ==
  ASSUME NEW S \in Machine
  PROVE  /\ S.vec \in [Vector -> VectorType]
         /\ S.mem \in [Device -> [BufferId -> Seq(Elem)]]
         /\ S.queue \in [Device -> Seq(Command)]
BY DEF Machine

\* The three ways to change a machine: its vectors, its memory, its queues.
LEMMA VecUpdate ==
  ASSUME NEW S \in Machine, NEW f \in [Vector -> VectorType]
  PROVE  /\ [S EXCEPT !.vec = f] \in Machine
         /\ [S EXCEPT !.vec = f].vec = f
         /\ [S EXCEPT !.vec = f].mem = S.mem
         /\ [S EXCEPT !.vec = f].queue = S.queue
BY DEF Machine

LEMMA MemUpdate ==
  ASSUME NEW S \in Machine, NEW m \in [Device -> [BufferId -> Seq(Elem)]]
  PROVE  /\ [S EXCEPT !.mem = m] \in Machine
         /\ [S EXCEPT !.mem = m].vec = S.vec
         /\ [S EXCEPT !.mem = m].mem = m
         /\ [S EXCEPT !.mem = m].queue = S.queue
BY DEF Machine

LEMMA QueueUpdate ==
  ASSUME NEW S \in Machine, NEW q \in [Device -> Seq(Command)]
  PROVE  /\ [S EXCEPT !.queue = q] \in Machine
         /\ [S EXCEPT !.queue = q].vec = S.vec
         /\ [S EXCEPT !.queue = q].mem = S.mem
         /\ [S EXCEPT !.queue = q].queue = q
BY DEF Machine

\* One vector is replaced.
LEMMA OneVec ==
  ASSUME NEW S \in Machine, NEW v \in Vector, NEW r \in VectorType
  PROVE  /\ [S EXCEPT !.vec[v] = r] \in Machine
         /\ [S EXCEPT !.vec[v] = r].vec = [S.vec EXCEPT ![v] = r]
         /\ [S EXCEPT !.vec[v] = r].mem = S.mem
         /\ [S EXCEPT !.vec[v] = r].queue = S.queue
<1>1. [S.vec EXCEPT ![v] = r] \in [Vector -> VectorType]
  BY MachineParts
<1>2. [S EXCEPT !.vec[v] = r] = [S EXCEPT !.vec = [S.vec EXCEPT ![v] = r]]
  OBVIOUS
<1> QED BY <1>1, <1>2, VecUpdate

\* Contents of buffers and of host memory are element sequences.
LEMMA ContentsType ==
  ASSUME NEW S \in Machine, NEW d \in Device, NEW b
  PROVE  Contents(S, d, b) \in Seq(Elem)
BY MachineParts DEF Contents

LEMMA HostType ==
  ASSUME NEW S \in Machine, NEW v
  PROVE  Host(S, v) \in Seq(Elem)
BY MachineParts DEF Host, VectorType

\* Every command in a queue is one.
LEMMA QueuedType ==
  ASSUME NEW S \in Machine, NEW d \in Device
  PROVE  Queued(S, d) \subseteq Command
<1>1. S.queue[d] \in Seq(Command)
  BY MachineParts
<1> QED BY <1>1 DEF Queued

\* The constructors of commands.
LEMMA CommandTypes ==
  ASSUME NEW v \in Vector, NEW off \in Nat,
         NEW b \in BufferId \cup {NoBuffer}, NEW c \in BufferId \cup {NoBuffer}
  PROVE  /\ WriteCommand(b, v, off) \in Command
         /\ ReadCommand(b, v, off) \in Command
         /\ KernelCommand(b, c) \in Command
         /\ CopyCommand(b, c) \in Command
BY DEF WriteCommand, ReadCommand, KernelCommand, CopyCommand, Command

-----------------------------------------------------------------------------
(***************************************************************************)
(* The queue operators.                                                    *)
(***************************************************************************)
\* EnqueueEach only appends to queues; the buffers that are newly in use are
\* those of the commands.
LEMMA EnqueueEachType ==
  ASSUME NEW S \in Machine, NEW cmds, DOMAIN cmds \subseteq Device,
         \A d \in DOMAIN cmds : cmds[d] \in Command
  PROVE  /\ EnqueueEach(S, cmds) \in Machine
         /\ EnqueueEach(S, cmds).vec = S.vec
         /\ EnqueueEach(S, cmds).mem = S.mem
         /\ \A d \in Device :
              Queued(EnqueueEach(S, cmds), d) \subseteq
                Queued(S, d) \cup {cmds[e] : e \in DOMAIN cmds \cap {d}}
<1> DEFINE q == [d \in Device |->
                   IF d \in DOMAIN cmds THEN Append(S.queue[d], cmds[d]) ELSE S.queue[d]]
<1>1. q \in [Device -> Seq(Command)]
  BY MachineParts, AppendProperties
<1>2. EnqueueEach(S, cmds) = [S EXCEPT !.queue = q]
  BY DEF EnqueueEach
<1>3. /\ EnqueueEach(S, cmds) \in Machine
      /\ EnqueueEach(S, cmds).vec = S.vec
      /\ EnqueueEach(S, cmds).mem = S.mem
      /\ EnqueueEach(S, cmds).queue = q
  <2> HIDE DEF q
  <2> QED BY <1>1, <1>2, QueueUpdate
<1>4. ASSUME NEW d \in Device
      PROVE  Queued(EnqueueEach(S, cmds), d) \subseteq
               Queued(S, d) \cup {cmds[e] : e \in DOMAIN cmds \cap {d}}
  <2>1. S.queue[d] \in Seq(Command)
    BY MachineParts
  <2>2. CASE d \in DOMAIN cmds
    <3>1. q[d] = Append(S.queue[d], cmds[d])
      BY <2>2
    <3> HIDE DEF q
    <3>2. /\ Len(S.queue[d]) \in Nat
          /\ DOMAIN S.queue[d] = 1 .. Len(S.queue[d])
          /\ DOMAIN q[d] = 1 .. Len(S.queue[d]) + 1
      BY <2>1, <2>2, <3>1, AppendProperties, LenProperties
    <3>3. /\ \A i \in 1 .. Len(S.queue[d]) : q[d][i] = S.queue[d][i]
          /\ q[d][Len(S.queue[d]) + 1] = cmds[d]
      BY <2>1, <2>2, <3>1, AppendProperties
    <3>4. \A i \in DOMAIN q[d] : q[d][i] \in Queued(S, d) \cup {cmds[d]}
      BY <3>2, <3>3 DEF Queued
    <3> QED BY <1>3, <2>2, <3>4 DEF Queued
  <2>3. CASE d \notin DOMAIN cmds
    BY <1>3, <2>3 DEF Queued
  <2> QED BY <2>2, <2>3
<1> QED BY <1>3, <1>4

\* Release only forgets the contents of buffers nobody uses.
LEMMA ReleaseType ==
  ASSUME NEW S \in Machine
  PROVE  /\ Release(S) \in Machine
         /\ Release(S).vec = S.vec
         /\ Release(S).queue = S.queue
<1> DEFINE m == [d \in Device |-> [b \in BufferId |->
                    IF b \in Live(S, d) THEN S.mem[d][b] ELSE << >>]]
<1>1. m \in [Device -> [BufferId -> Seq(Elem)]]
  <2>1. ASSUME NEW d \in Device, NEW b \in BufferId
        PROVE  (IF b \in Live(S, d) THEN S.mem[d][b] ELSE << >>) \in Seq(Elem)
    BY MachineParts
  <2> QED BY <2>1
<1>2. Release(S) = [S EXCEPT !.mem = m]
  BY DEF Release
<1> HIDE DEF m
<1> QED BY <1>1, <1>2, MemUpdate

\* Redirect changes nothing but the host memory that commands refer to: the
\* buffers in use stay the same.
LEMMA RedirectType ==
  ASSUME NEW S \in Machine, NEW owner \in [Vector -> Vector \cup {Nobody}]
  PROVE  /\ Redirect(S, owner) \in Machine
         /\ Redirect(S, owner).vec = S.vec
         /\ Redirect(S, owner).mem = S.mem
         /\ \A d \in Device : \A c \in Queued(Redirect(S, owner), d) :
              \E e \in Queued(S, d) : c.from = e.from /\ c.to = e.to
<1> DEFINE moved(c) == [c EXCEPT !.vec = IF @ \in Vector THEN owner[@] ELSE @]
           q == [d \in Device |-> [i \in 1 .. Len(S.queue[d]) |-> moved(S.queue[d][i])]]
<1>1. ASSUME NEW c \in Command
      PROVE  moved(c) \in Command /\ moved(c).from = c.from /\ moved(c).to = c.to
  BY DEF Command
<1>2. ASSUME NEW d \in Device
      PROVE  /\ q[d] \in Seq(Command)
             /\ DOMAIN q[d] = DOMAIN S.queue[d]
             /\ \A i \in DOMAIN q[d] : S.queue[d][i] \in Command
             /\ \A i \in DOMAIN q[d] : q[d][i] = moved(S.queue[d][i])
  <2>1. S.queue[d] \in Seq(Command)
    BY MachineParts
  <2>2. /\ Len(S.queue[d]) \in Nat
        /\ DOMAIN S.queue[d] = 1 .. Len(S.queue[d])
        /\ \A i \in 1 .. Len(S.queue[d]) : S.queue[d][i] \in Command
    BY <2>1, LenProperties, ElementOfSeq
  <2>3. q[d] = [i \in 1 .. Len(S.queue[d]) |-> moved(S.queue[d][i])]
    OBVIOUS
  <2> HIDE DEF q
  <2>4. \A i \in 1 .. Len(S.queue[d]) : moved(S.queue[d][i]) \in Command
    BY <1>1, <2>2
  <2> HIDE DEF moved
  <2> QED BY <2>2, <2>3, <2>4
<1>3. q \in [Device -> Seq(Command)]
  BY <1>2
<1>4. Redirect(S, owner) = [S EXCEPT !.queue = q]
  BY DEF Redirect
<1> HIDE DEF q, moved
<1>5. /\ Redirect(S, owner) \in Machine
      /\ Redirect(S, owner).vec = S.vec
      /\ Redirect(S, owner).mem = S.mem
      /\ Redirect(S, owner).queue = q
  BY <1>3, <1>4, QueueUpdate
<1>6. ASSUME NEW d \in Device, NEW c \in Queued(Redirect(S, owner), d)
      PROVE  \E e \in Queued(S, d) : c.from = e.from /\ c.to = e.to
  <2>1. PICK i \in DOMAIN q[d] : c = moved(S.queue[d][i])
    BY <1>2, <1>5 DEF Queued
  <2>2. S.queue[d][i] \in Queued(S, d) /\ S.queue[d][i] \in Command
    BY <1>2, <2>1 DEF Queued
  <2> QED BY <1>1, <2>1, <2>2
<1> QED BY <1>5, <1>6

-----------------------------------------------------------------------------
(***************************************************************************)
(* The buffers in use.                                                     *)
(***************************************************************************)
\* From S to T no buffers come into use but new ones created by vectors in V.
NewUse(S, T, V) ==
  \A d \in Device : Live(T, d) \subseteq Live(S, d) \cup {NoBuffer} \cup (V \X Slot)

\* v can be given another buffer on every device.
Room(S, v) == \A d \in Device : FreeSlots(S, v, d) # {}

\* How to show NewUse.
LEMMA NewUseFromParts ==
  ASSUME NEW S, NEW T, NEW V,
         \A d \in Device, w \in Vector :
           T.vec[w].buf[d] \in Live(S, d) \cup {NoBuffer} \cup (V \X Slot),
         \A d \in Device : \A c \in Queued(T, d) :
           {c.from, c.to} \subseteq Live(S, d) \cup {NoBuffer} \cup (V \X Slot)
  PROVE  NewUse(S, T, V)
BY DEF NewUse, Live

\* The buffers of vectors and commands are in use.
LEMMA InUse ==
  ASSUME NEW S, NEW d \in Device
  PROVE  /\ \A w \in Vector : S.vec[w].buf[d] \in Live(S, d)
         /\ \A c \in Queued(S, d) : c.from \in Live(S, d) /\ c.to \in Live(S, d)
BY DEF Live

\* The two ends of a sequence of steps.
LEMMA NewUseTransitive ==
  ASSUME NEW S, NEW T, NEW U, NEW V, NEW W, NewUse(S, T, V), NewUse(T, U, W)
  PROVE  NewUse(S, U, V \cup W)
BY DEF NewUse

\* Vectors that are not in V keep their room.
LEMMA RoomStays ==
  ASSUME NEW S, NEW T, NEW V \in SUBSET Vector, NEW v \in Vector \ V,
         NewUse(S, T, V), Room(S, v)
  PROVE  Room(T, v)
<1> SUFFICES ASSUME NEW d \in Device
             PROVE  FreeSlots(T, v, d) # {}
  BY DEF Room
<1>1. PICK s \in Slot : <<v, s>> \notin Live(S, d)
  BY DEF Room, FreeSlots
<1>2. <<v, s>> \in BufferId /\ <<v, s>> # NoBuffer /\ <<v, s>> \notin V \X Slot
  BY BufferAssumption DEF BufferId
<1>3. <<v, s>> \notin Live(T, d)
  BY <1>1, <1>2 DEF NewUse
<1> QED BY <1>3 DEF FreeSlots

-----------------------------------------------------------------------------
(***************************************************************************)
(* The parts that the member functions are built from.                     *)
(***************************************************************************)
\* A new host buffer for v.
LEMMA SetHostType ==
  ASSUME NEW S \in Machine, NEW v \in Vector, NEW s \in Seq(Elem)
  PROVE  /\ SetHost(S, v, s) \in Machine
         /\ SetHost(S, v, s).vec = [S.vec EXCEPT ![v].host = s]
         /\ SetHost(S, v, s).mem = S.mem
         /\ NewUse(S, SetHost(S, v, s), {})
<1> DEFINE T == IF Len(s) > Len(S.vec[v].host)
                THEN Redirect(S, [Identity EXCEPT ![v] = Nobody]) ELSE S
           r == [S.vec[v] EXCEPT !.host = s]
<1>0. S.vec[v] \in VectorType
  BY MachineParts
<1>1. [Identity EXCEPT ![v] = Nobody] \in [Vector -> Vector \cup {Nobody}]
  BY DEF Identity
<1>2. /\ T \in Machine /\ T.vec = S.vec /\ T.mem = S.mem
      /\ \A d \in Device : \A c \in Queued(T, d) :
           \E e \in Queued(S, d) : c.from = e.from /\ c.to = e.to
  <2>1. CASE T = S
    BY <2>1
  <2>2. CASE T = Redirect(S, [Identity EXCEPT ![v] = Nobody])
    <3> HIDE DEF T
    <3> QED BY <1>1, <2>2, RedirectType
  <2> QED BY <2>1, <2>2
<1> HIDE DEF T
<1>3. r \in VectorType /\ \A d \in Device : r.buf[d] = S.vec[v].buf[d]
  BY <1>0 DEF VectorType
<1>4. SetHost(S, v, s) = [T EXCEPT !.vec[v] = r]
  <2>1. SetHost(S, v, s) = [T EXCEPT !.vec[v].host = s]
    BY DEF SetHost, T
  <2> QED BY <1>2, <2>1
<1> DEFINE U == SetHost(S, v, s)
<1>5. /\ U \in Machine /\ U.vec = [S.vec EXCEPT ![v] = r]
      /\ U.mem = S.mem /\ U.queue = T.queue
  BY <1>2, <1>3, <1>4, OneVec
<1> HIDE DEF U, r
<1>6. \A d \in Device, w \in Vector : U.vec[w].buf[d] = S.vec[w].buf[d]
  BY <1>3, <1>5, MachineParts
<1>7. \A d \in Device : Queued(U, d) = Queued(T, d)
  BY <1>5 DEF Queued
<1>8. NewUse(S, U, {})
  BY <1>2, <1>6, <1>7, InUse, NewUseFromParts
<1> QED BY <1>5, <1>8 DEF U, r

\* A new object in the place of v.
LEMMA ReplaceType ==
  ASSUME NEW S \in Machine, NEW v \in Vector, NEW r \in VectorType,
         r.buf = NoBuffers
  PROVE  /\ Replace(S, v, r) \in Machine
         /\ Replace(S, v, r).vec = [S.vec EXCEPT ![v] = r]
         /\ Replace(S, v, r).mem = S.mem
         /\ NewUse(S, Replace(S, v, r), {})
<1> DEFINE T == Redirect(S, [Identity EXCEPT ![v] = Nobody])
           U == Replace(S, v, r)
<1>1. [Identity EXCEPT ![v] = Nobody] \in [Vector -> Vector \cup {Nobody}]
  BY DEF Identity
<1>2. /\ T \in Machine /\ T.vec = S.vec /\ T.mem = S.mem
      /\ \A d \in Device : \A c \in Queued(T, d) :
           \E e \in Queued(S, d) : c.from = e.from /\ c.to = e.to
  BY <1>1, RedirectType
<1>3. U = [T EXCEPT !.vec[v] = r]
  BY DEF Replace
<1> HIDE DEF T, U
<1>4. /\ U \in Machine /\ U.vec = [S.vec EXCEPT ![v] = r]
      /\ U.mem = S.mem /\ U.queue = T.queue
  BY <1>2, <1>3, OneVec
<1>5. \A d \in Device, w \in Vector :
        U.vec[w].buf[d] = NoBuffer \/ U.vec[w].buf[d] = S.vec[w].buf[d]
  BY <1>4, MachineParts DEF NoBuffers
<1>6. \A d \in Device : Queued(U, d) = Queued(T, d)
  BY <1>4 DEF Queued
<1>7. NewUse(S, U, {})
  BY <1>2, <1>5, <1>6, InUse, NewUseFromParts
<1> QED BY <1>4, <1>7 DEF U

\* A new record for v.
WithRecord(S, v, r) == [S EXCEPT !.vec[v] = r]

\* A change to v's record that gives it no new buffer.
LEMMA RecordChange ==
  ASSUME NEW S \in Machine, NEW v \in Vector, NEW r \in VectorType,
         \A d \in Device : r.buf[d] \in {NoBuffer, S.vec[v].buf[d]}
  PROVE  /\ WithRecord(S, v, r) \in Machine
         /\ WithRecord(S, v, r).vec = [S.vec EXCEPT ![v] = r]
         /\ NewUse(S, WithRecord(S, v, r), {})
<1> DEFINE U == WithRecord(S, v, r)
<1>1. /\ U \in Machine /\ U.vec = [S.vec EXCEPT ![v] = r]
      /\ U.mem = S.mem /\ U.queue = S.queue
  BY OneVec DEF WithRecord
<1> HIDE DEF U
<1>2. \A d \in Device, w \in Vector :
        U.vec[w].buf[d] = NoBuffer \/ U.vec[w].buf[d] = S.vec[w].buf[d]
  BY <1>1, MachineParts
<1>3. \A d \in Device : Queued(U, d) = Queued(S, d)
  BY <1>1 DEF Queued
<1>4. NewUse(S, U, {})
  BY <1>2, <1>3, InUse, NewUseFromParts
<1> QED BY <1>1, <1>4 DEF U

-----------------------------------------------------------------------------
(***************************************************************************)
(* Allocation.                                                             *)
(***************************************************************************)
\* The share of a device is a number of elements.
LEMMA SizeForDeviceType ==
  ASSUME NEW dist \in DistributionType, NEW n \in 0 .. MaxSize, NEW d \in Device
  PROVE  SizeForDevice(dist, n, d) \in Nat
<1>1. NumDevices \in Nat \ {0} /\ MaxSize \in Nat
  BY NumDevicesAssumption, MaxSizeAssumption
<1>2. Quota(n) \in Nat /\ LastDevice * Quota(n) <= n /\ LastDevice * Quota(n) \in Nat
  BY <1>1, QuotaAssumption DEF LastDevice
<1>3. BlockSize(n, d) \in Nat
  BY <1>1, <1>2 DEF BlockSize
<1> QED BY <1>1, <1>3 DEF SizeForDevice

\* The devices of a distribution are devices.
LEMMA DistributionDevices ==
  ASSUME NEW dist \in DistributionType
  PROVE  /\ dist.devices \subseteq Device
         /\ DownloadDevices(dist) \subseteq Device
         /\ IsValid(dist) <=> dist # Invalid
         /\ ~ IsValid(dist) => dist.devices = {} /\ DownloadDevices(dist) = {}
         /\ IsValid(dist) => dist.devices # {}
<1>1. 0 \in Device
  BY NumDevicesAssumption DEF Device
<1> QED BY <1>1 DEF DistributionType, ValidDistribution, Invalid, Single, Block,
          Copy, DownloadDevices, IsValid

\* New buffers on the devices in the domain of len, none on the others; every
\* one has a handle that was free.
LEMMA NewBuffersType ==
  ASSUME NEW S \in Machine, NEW v \in Vector, Room(S, v),
         NEW len, DOMAIN len \subseteq Device, \A d \in DOMAIN len : len[d] \in Nat
  PROVE  /\ NewBuffers(S, v, len) \in Machine
         /\ NewUse(S, NewBuffers(S, v, len), {v})
         /\ NewBuffers(S, v, len).queue = S.queue
         /\ \E b \in [Device -> BufferId \cup {NoBuffer}] :
              /\ NewBuffers(S, v, len).vec = [S.vec EXCEPT ![v].buf = b]
              /\ \A d \in Device : b[d] # NoBuffer <=> d \in DOMAIN len
              /\ \A d \in DOMAIN len : b[d] \notin Live(S, d)
<1> DEFINE D == DOMAIN len
           fresh == [d \in D |-> <<v, CHOOSE s \in FreeSlots(S, v, d) : TRUE>>]
           b == [d \in Device |-> IF d \in D THEN fresh[d] ELSE NoBuffer]
           m == [d \in Device |-> IF d \in D
                   THEN [S.mem[d] EXCEPT ![fresh[d]] = Filled(len[d], Junk)]
                   ELSE S.mem[d]]
           r == [S.vec[v] EXCEPT !.buf = b]
           T == [S EXCEPT !.mem = m]
           U == NewBuffers(S, v, len)
<1>1. ASSUME NEW d \in D
      PROVE  fresh[d] \in {v} \X Slot /\ fresh[d] \in BufferId /\ fresh[d] \notin Live(S, d)
  <2>1. FreeSlots(S, v, d) # {}
    BY DEF Room
  <2>2. PICK s : s = CHOOSE t \in FreeSlots(S, v, d) : TRUE
    OBVIOUS
  <2>3. s \in FreeSlots(S, v, d)
    BY <2>1, <2>2
  <2>4. fresh[d] = <<v, s>>
    BY <2>2
  <2> QED BY <2>3, <2>4 DEF FreeSlots, BufferId
<1>2. U = [S EXCEPT !.vec[v].buf = b, !.mem = m]
  BY DEF NewBuffers
<1> HIDE DEF fresh
<1>3. b \in [Device -> BufferId \cup {NoBuffer}]
  BY <1>1
<1>4. m \in [Device -> [BufferId -> Seq(Elem)]]
  <2>1. ASSUME NEW d \in D
        PROVE  [S.mem[d] EXCEPT ![fresh[d]] = Filled(len[d], Junk)] \in [BufferId -> Seq(Elem)]
    BY <1>1, MachineParts, FilledType DEF Elem
  <2> QED BY <2>1, MachineParts
<1>5. \A d \in Device : b[d] # NoBuffer <=> d \in D
  BY <1>1, BufferAssumption
<1>6. \A d \in D : b[d] \notin Live(S, d) /\ b[d] \in {v} \X Slot
  BY <1>1
<1>7. \A d \in Device \ D : b[d] = NoBuffer
  OBVIOUS
<1> HIDE DEF b, m, U
<1>8. r \in VectorType /\ r.buf = b
  <2>1. S.vec[v] \in VectorType
    BY MachineParts
  <2> QED BY <1>3, <2>1 DEF VectorType
<1>9. T \in Machine /\ T.vec = S.vec /\ T.mem = m /\ T.queue = S.queue
  BY <1>4, MemUpdate
<1>10. U = [T EXCEPT !.vec[v] = r]
  BY <1>2, <1>9
<1> HIDE DEF T
<1>11. /\ U \in Machine /\ U.vec = [S.vec EXCEPT ![v] = r] /\ U.queue = S.queue
  BY <1>8, <1>9, <1>10, OneVec
<1>12. NewUse(S, U, {v})
  <2>1. ASSUME NEW d \in Device, NEW w \in Vector
        PROVE  U.vec[w].buf[d] \in Live(S, d) \cup {NoBuffer} \cup ({v} \X Slot)
    <3>1. CASE w = v
      BY <1>6, <1>7, <1>8, <1>11, <3>1, MachineParts
    <3>2. CASE w # v
      BY <1>11, <3>2, InUse, MachineParts
    <3> QED BY <3>1, <3>2
  <2>2. \A d \in Device : Queued(U, d) = Queued(S, d)
    BY <1>11 DEF Queued
  <2> QED BY <2>1, <2>2, InUse, NewUseFromParts
<1>13. U.vec = [S.vec EXCEPT ![v].buf = b]
  BY <1>11 DEF r
<1> QED BY <1>3, <1>5, <1>6, <1>11, <1>12, <1>13 DEF U

\* The devices of a valid distribution all have a buffer, or none has.
Fitted(r) ==
  (\E d \in Device : r.buf[d] # NoBuffer) =>
    \A d \in Device : r.buf[d] # NoBuffer <=> d \in r.dist.devices

\* After forceCreateDeviceBuffers each device of the distribution has a buffer.
LEMMA ForceCreateDeviceBuffersType ==
  ASSUME NEW S \in Machine, NEW v \in Vector, Room(S, v),
         S.vec[v].size \in 0 .. MaxSize
  PROVE  /\ ForceCreateDeviceBuffers(S, v) \in Machine
         /\ NewUse(S, ForceCreateDeviceBuffers(S, v), {v})
         /\ \E b \in [Device -> BufferId \cup {NoBuffer}] :
              /\ ForceCreateDeviceBuffers(S, v).vec = [S.vec EXCEPT ![v].buf = b]
              /\ \A d \in Device : b[d] # NoBuffer <=> d \in S.vec[v].dist.devices
<1> DEFINE r == S.vec[v]
           D == r.dist.devices
           e == [r EXCEPT !.buf = NoBuffers]
           T == DropBuffers(S, v)
           len == [d \in D |-> SizeForDevice(r.dist, r.size, d)]
           U == ForceCreateDeviceBuffers(S, v)
<1>1. r \in VectorType
  BY MachineParts
<1>2. D \in SUBSET Device
  BY <1>1, DistributionDevices DEF VectorType
<1>3. len \in [D -> Nat]
  BY <1>1, <1>2, SizeForDeviceType DEF VectorType
<1>4. e \in VectorType /\ e.buf = NoBuffers
  BY <1>1 DEF VectorType, NoBuffers
<1>5. T = WithRecord(S, v, e)
  BY DEF DropBuffers, WithRecord
<1>6. U = NewBuffers(T, v, len)
  BY DEF ForceCreateDeviceBuffers
<1> HIDE DEF e, T, len, U, D
<1>7. T \in Machine /\ T.vec = [S.vec EXCEPT ![v] = e] /\ NewUse(S, T, {})
  BY <1>4, <1>5, RecordChange DEF NoBuffers
<1>8. Room(T, v)
  BY <1>7, RoomStays
<1>9. /\ U \in Machine /\ NewUse(T, U, {v})
      /\ \E b \in [Device -> BufferId \cup {NoBuffer}] :
            /\ U.vec = [T.vec EXCEPT ![v].buf = b]
            /\ \A d \in Device : b[d] # NoBuffer <=> d \in D
  <2>1. T \in Machine /\ Room(T, v)
    BY <1>7, <1>8
  <2>2. DOMAIN len = D /\ D \subseteq Device /\ \A d \in D : len[d] \in Nat
    BY <1>2, <1>3
  <2>3. U \in Machine /\ NewUse(T, U, {v})
    BY <1>6, <2>1, <2>2, NewBuffersType
  <2>4. \E b \in [Device -> BufferId \cup {NoBuffer}] :
            /\ NewBuffers(T, v, len).vec = [T.vec EXCEPT ![v].buf = b]
            /\ \A d \in Device : b[d] # NoBuffer <=> d \in DOMAIN len
            /\ \A d \in DOMAIN len : b[d] \notin Live(T, d)
    BY <2>1, <2>2, NewBuffersType
  <2>5. PICK b \in [Device -> BufferId \cup {NoBuffer}] :
            /\ NewBuffers(T, v, len).vec = [T.vec EXCEPT ![v].buf = b]
            /\ \A d \in Device : b[d] # NoBuffer <=> d \in DOMAIN len
    BY <2>4, Zenon
  <2> QED BY <1>6, <2>2, <2>3, <2>5, Zenon
<1>10. ASSUME NEW b
       PROVE  [T.vec EXCEPT ![v].buf = b] = [S.vec EXCEPT ![v].buf = b]
  <2>1. [e EXCEPT !.buf = b] = [S.vec[v] EXCEPT !.buf = b]
    BY <1>1 DEF e, VectorType
  <2>2. T.vec[v] = e
    BY <1>7, MachineParts
  <2>3. [T.vec EXCEPT ![v].buf = b] = [S.vec EXCEPT ![v] = [e EXCEPT !.buf = b]]
    BY <1>7, <2>2, MachineParts
  <2> QED BY <2>1, <2>3
<1>11. NewUse(S, U, {v})
  BY <1>7, <1>9, NewUseTransitive
<1> QED BY <1>9, <1>10, <1>11 DEF D, U

\* createDeviceBuffers keeps the buffers it finds: they fit.
LEMMA CreateDeviceBuffersType ==
  ASSUME NEW S \in Machine, NEW v \in Vector, Room(S, v),
         S.vec[v].size \in 0 .. MaxSize, Fitted(S.vec[v])
  PROVE  /\ CreateDeviceBuffers(S, v) \in Machine
         /\ NewUse(S, CreateDeviceBuffers(S, v), {v})
         /\ \E b \in [Device -> BufferId \cup {NoBuffer}] :
              /\ CreateDeviceBuffers(S, v).vec = [S.vec EXCEPT ![v].buf = b]
              /\ \A d \in Device : b[d] # NoBuffer <=> d \in S.vec[v].dist.devices
<1>1. CASE HasBuffers(S, v)
  <2>1. CreateDeviceBuffers(S, v) = S
    BY <1>1 DEF CreateDeviceBuffers
  <2>2. S.vec[v] \in VectorType /\ S.vec = [S.vec EXCEPT ![v].buf = S.vec[v].buf]
    BY MachineParts DEF VectorType
  <2>3. /\ S.vec[v].buf \in [Device -> BufferId \cup {NoBuffer}]
        /\ \A d \in Device : S.vec[v].buf[d] # NoBuffer <=> d \in S.vec[v].dist.devices
    BY <1>1, <2>2 DEF HasBuffers, Fitted, VectorType
  <2>4. NewUse(S, S, {v})
    BY DEF NewUse
  <2> QED BY <2>1, <2>2, <2>3, <2>4
<1>2. CASE ~ HasBuffers(S, v)
  BY <1>2, ForceCreateDeviceBuffersType DEF CreateDeviceBuffers
<1> QED BY <1>1, <1>2

-----------------------------------------------------------------------------
(***************************************************************************)
(* A device's step.                                                        *)
(***************************************************************************)
\* A buffer gets new contents.
LEMMA MemAt ==
  ASSUME NEW S \in Machine, NEW d \in Device, NEW b, NEW x \in Seq(Elem)
  PROVE  [S EXCEPT !.mem[d][b] = x] \in Machine
<1> DEFINE m == [S.mem EXCEPT ![d] = [S.mem[d] EXCEPT ![b] = x]]
<1>1. m \in [Device -> [BufferId -> Seq(Elem)]]
  <2>1. S.mem \in [Device -> [BufferId -> Seq(Elem)]]
    BY MachineParts
  <2>2. [S.mem[d] EXCEPT ![b] = x] \in [BufferId -> Seq(Elem)]
    BY <2>1
  <2> QED BY <2>1, <2>2
<1>2. [S EXCEPT !.mem[d][b] = x] = [S EXCEPT !.mem = m]
  OBVIOUS
<1> HIDE DEF m
<1> QED BY <1>1, <1>2, MemUpdate

\* What is written to memory is a sequence of elements.
LEMMA TransferTypes ==
  ASSUME NEW host \in Seq(Elem), NEW n \in Nat, NEW off \in Nat
  PROVE  /\ [i \in 1 .. n |-> IF off + i \in 1 .. Len(host) THEN host[off + i] ELSE Junk]
              \in Seq(Elem)
         /\ [i \in 1 .. Len(host) |-> F(host[i])] \in Seq(Elem)
<1>1. /\ Len(host) \in Nat
      /\ \A i \in 1 .. Len(host) : host[i] \in Elem
  BY LenProperties, ElementOfSeq
<1>2. \A i \in 1 .. Len(host) : F(host[i]) \in Elem
  BY <1>1, FAssumption DEF Elem
<1>3. \A i \in 1 .. n : (IF off + i \in 1 .. Len(host) THEN host[off + i] ELSE Junk) \in Elem
  BY <1>1 DEF Elem
<1> QED BY <1>1, <1>2, <1>3

\* A device step moves data only: of the vectors it can change the elements
\* of a host buffer, and no buffer comes into use.
LEMMA RunHeadType ==
  ASSUME NEW S \in Machine, NEW d \in Device, S.queue[d] # << >>
  PROVE  /\ RunHead(S, d) \in Machine
         /\ NewUse(S, RunHead(S, d), {})
         /\ \A e \in Device : Queued(RunHead(S, d), e) \subseteq Queued(S, e)
         /\ \E h \in [Vector -> Seq(Elem)] :
              \A v \in Vector :
                /\ RunHead(S, d).vec[v] = [S.vec[v] EXCEPT !.host = h[v]]
                /\ Len(h[v]) = Len(S.vec[v].host)
<1> DEFINE c == Head(S.queue[d])
           T == [S EXCEPT !.queue[d] = Tail(@)]
           U == RunHead(S, d)
<1>1. S.queue[d] \in Seq(Command)
  BY MachineParts
<1>2. c \in Command /\ Tail(S.queue[d]) \in Seq(Command)
  BY <1>1, HeadTailProperties
<1>3. /\ T \in Machine /\ T.vec = S.vec
      /\ \A e \in Device : Queued(T, e) \subseteq Queued(S, e)
  <2> DEFINE q == [S.queue EXCEPT ![d] = Tail(S.queue[d])]
  <2>1. q \in [Device -> Seq(Command)]
    BY <1>2, MachineParts
  <2>2. T = [S EXCEPT !.queue = q]
    OBVIOUS
  <2>3. T \in Machine /\ T.vec = S.vec /\ T.queue = q
    <3> HIDE DEF q, T
    <3> QED BY <2>1, <2>2, QueueUpdate
  <2>4. /\ Len(S.queue[d]) \in Nat /\ DOMAIN S.queue[d] = 1 .. Len(S.queue[d])
        /\ DOMAIN Tail(S.queue[d]) = 1 .. Len(S.queue[d]) - 1
        /\ \A i \in 1 .. Len(S.queue[d]) - 1 : Tail(S.queue[d])[i] = S.queue[d][i + 1]
    BY <1>1, <1>2, HeadTailProperties, LenProperties
  <2>5. \A i \in DOMAIN Tail(S.queue[d]) : Tail(S.queue[d])[i] \in Queued(S, d)
    <3> SUFFICES ASSUME NEW i \in 1 .. Len(S.queue[d]) - 1
                 PROVE  S.queue[d][i + 1] \in {S.queue[d][k] : k \in DOMAIN S.queue[d]}
      BY <2>4 DEF Queued
    <3>1. i + 1 \in DOMAIN S.queue[d]
      BY <2>4
    <3> QED BY <3>1
  <2>6. q[d] = Tail(S.queue[d]) /\ \A e \in Device \ {d} : q[e] = S.queue[e]
    BY MachineParts
  <2> HIDE DEF q, T
  <2>7. ASSUME NEW e \in Device
        PROVE  Queued(T, e) \subseteq Queued(S, e)
    <3>1. CASE e = d
      <4>1. Queued(T, d) = {Tail(S.queue[d])[i] : i \in DOMAIN Tail(S.queue[d])}
        BY <2>3, <2>6 DEF Queued
      <4>2. Queued(T, d) \subseteq Queued(S, d)
        BY <2>5, <4>1
      <4> QED BY <3>1, <4>2
    <3>2. CASE e # d
      BY <2>3, <2>6, <3>2 DEF Queued
    <3> QED BY <3>1, <3>2
  <2> QED BY <2>3, <2>7
<1>4. U = CASE c.op = "write"  -> RunWrite(T, d, c)
            [] c.op = "read"   -> RunRead(T, d, c)
            [] c.op = "kernel" -> RunKernel(T, d, c)
            [] c.op = "copy"   -> RunCopy(T, d, c)
  BY DEF RunHead
<1>5. c.op \in {"write", "read", "kernel", "copy"} /\ c.off \in Nat
  BY <1>2 DEF Command
<1> HIDE DEF c, T, U
<1> DEFINE Moved == /\ U \in Machine /\ U.queue = T.queue
                    /\ \E h \in [Vector -> Seq(Elem)] :
                         \A v \in Vector :
                           /\ U.vec[v] = [S.vec[v] EXCEPT !.host = h[v]]
                           /\ Len(h[v]) = Len(S.vec[v].host)
<1>6. ASSUME U \in Machine, U.queue = T.queue, U.vec = S.vec
      PROVE  Moved
  <2> DEFINE h == [v \in Vector |-> S.vec[v].host]
  <2>1. ASSUME NEW v \in Vector
        PROVE  h[v] \in Seq(Elem) /\ S.vec[v] = [S.vec[v] EXCEPT !.host = h[v]]
    <3>1. S.vec[v] \in VectorType
      BY MachineParts
    <3> QED BY <3>1 DEF VectorType
  <2>2. h \in [Vector -> Seq(Elem)]
    BY <2>1
  <2>3. \A v \in Vector : Len(h[v]) = Len(S.vec[v].host)
    OBVIOUS
  <2> HIDE DEF h
  <2> QED BY <1>6, <2>1, <2>2, <2>3
<1> HIDE DEF Moved
<1>7. ASSUME c.op = "write" PROVE Moved
  <2> DEFINE host == Host(T, c.vec)
             buf == Contents(T, d, c.to)
             x == [i \in 1 .. Len(buf) |->
                     IF c.off + i \in 1 .. Len(host) THEN host[c.off + i] ELSE Junk]
  <2>1. host \in Seq(Elem) /\ buf \in Seq(Elem)
    BY <1>3, ContentsType, HostType
  <2>2. Len(buf) \in Nat
    BY <2>1, LenProperties
  <2>3. x \in Seq(Elem)
    <3> HIDE DEF host, buf
    <3> QED BY <1>5, <2>1, <2>2, TransferTypes
  <2>4. U = [T EXCEPT !.mem[d][c.to] = x]
    BY <1>4, <1>7 DEF RunWrite
  <2> HIDE DEF x
  <2>5. U \in Machine
    BY <1>3, <2>3, <2>4, MemAt
  <2>6. U.vec = T.vec /\ U.queue = T.queue
    BY <1>3, <2>4 DEF Machine
  <2> QED BY <1>3, <1>6, <2>5, <2>6
<1>8. ASSUME c.op = "read" PROVE Moved
  <2>1. U = RunRead(T, d, c)
    BY <1>4, <1>8
  <2>2. CASE c.vec \notin Vector
    BY <1>3, <1>6, <2>1, <2>2 DEF RunRead
  <2>3. CASE c.vec \in Vector
    <3> DEFINE w == c.vec
               x == Overlay(T.vec[w].host, Contents(T, d, c.from), c.off)
               r == [S.vec[w] EXCEPT !.host = x]
               h == [v \in Vector |-> IF v = w THEN x ELSE S.vec[v].host]
    <3>1. \A v \in Vector : S.vec[v] \in VectorType /\ S.vec[v].host \in Seq(Elem)
      BY MachineParts DEF VectorType
    <3>2. Contents(T, d, c.from) \in Seq(Elem)
      BY <1>3, ContentsType
    <3>3. x \in Seq(Elem) /\ Len(x) = Len(S.vec[w].host)
      BY <1>3, <1>5, <2>3, <3>1, <3>2, OverlayType
    <3>4. U = [T EXCEPT !.vec[w] = [T.vec[w] EXCEPT !.host = x]]
      BY <2>1, <2>3 DEF RunRead
    <3> HIDE DEF x
    <3>5. r \in VectorType
      BY <2>3, <3>1, <3>3 DEF VectorType
    <3>6. U = [T EXCEPT !.vec[w] = r]
      BY <1>3, <3>4
    <3>7. U \in Machine /\ U.vec = [S.vec EXCEPT ![w] = r] /\ U.queue = T.queue
      <4> HIDE DEF r
      <4> QED BY <1>3, <2>3, <3>5, <3>6, OneVec
    <3>8. \A v \in Vector : U.vec[v] = IF v = w THEN r ELSE S.vec[v]
      BY <2>3, <3>7, MachineParts
    <3>9. ASSUME NEW v \in Vector
          PROVE  /\ U.vec[v] = [S.vec[v] EXCEPT !.host = h[v]]
                 /\ Len(h[v]) = Len(S.vec[v].host)
                 /\ h[v] \in Seq(Elem)
      BY <3>1, <3>3, <3>8 DEF VectorType
    <3>10. h \in [Vector -> Seq(Elem)]
      BY <3>9
    <3> HIDE DEF h, w, r
    <3> QED BY <3>7, <3>9, <3>10 DEF Moved
  <2> QED BY <2>2, <2>3
<1>9. ASSUME c.op = "kernel" PROVE Moved
  <2> DEFINE in == Contents(T, d, c.from)
             y == [i \in 1 .. Len(in) |-> F(in[i])]
             x == Overlay(T.mem[d][c.to], y, 0)
  <2>1. U = [T EXCEPT !.mem[d] = [T.mem[d] EXCEPT ![c.to] = x]]
    BY <1>4, <1>9 DEF RunKernel
  <2>2. in \in Seq(Elem)
    BY <1>3, ContentsType
  <2>3. y \in Seq(Elem)
    <3> HIDE DEF in
    <3> QED BY <2>2, TransferTypes
  <2>4. CASE c.to \in BufferId
    <3>1. T.mem[d][c.to] \in Seq(Elem)
      BY <1>3, <2>4, MachineParts
    <3> HIDE DEF y
    <3>2. x \in Seq(Elem)
      BY <2>3, <3>1, OverlayType
    <3> HIDE DEF x
    <3>3. U = [T EXCEPT !.mem[d][c.to] = x]
      BY <2>1
    <3>4. U \in Machine
      BY <1>3, <3>2, <3>3, MemAt
    <3>5. U.vec = T.vec /\ U.queue = T.queue
      BY <1>3, <3>3 DEF Machine
    <3> QED BY <1>3, <1>6, <3>4, <3>5
  <2>5. CASE c.to \notin BufferId
    <3> HIDE DEF x
    <3>1. T.mem \in [Device -> [BufferId -> Seq(Elem)]]
      BY <1>3, MachineParts
    <3>2. [T.mem[d] EXCEPT ![c.to] = x] = T.mem[d]
      BY <2>5, <3>1
    <3>3. U = [T EXCEPT !.mem = T.mem]
      BY <2>1, <3>1, <3>2
    <3> QED BY <1>3, <1>6, <3>1, <3>3, MemUpdate
  <2> QED BY <2>4, <2>5
<1>10. ASSUME c.op = "copy" PROVE Moved
  <2> DEFINE x == Overlay(T.mem[d][c.to], Contents(T, d, c.from), 0)
  <2>1. U = [T EXCEPT !.mem[d] = [T.mem[d] EXCEPT ![c.to] = x]]
    BY <1>4, <1>10 DEF RunCopy
  <2>2. Contents(T, d, c.from) \in Seq(Elem)
    BY <1>3, ContentsType
  <2>3. CASE c.to \in BufferId
    <3>1. T.mem[d][c.to] \in Seq(Elem)
      BY <1>3, <2>3, MachineParts
    <3>2. x \in Seq(Elem)
      BY <2>2, <3>1, OverlayType
    <3> HIDE DEF x
    <3>3. U = [T EXCEPT !.mem[d][c.to] = x]
      BY <2>1
    <3>4. U \in Machine
      BY <1>3, <3>2, <3>3, MemAt
    <3>5. U.vec = T.vec /\ U.queue = T.queue
      BY <1>3, <3>3 DEF Machine
    <3> QED BY <1>3, <1>6, <3>4, <3>5
  <2>4. CASE c.to \notin BufferId
    <3> HIDE DEF x
    <3>1. T.mem \in [Device -> [BufferId -> Seq(Elem)]]
      BY <1>3, MachineParts
    <3>2. [T.mem[d] EXCEPT ![c.to] = x] = T.mem[d]
      BY <2>4, <3>1
    <3>3. U = [T EXCEPT !.mem = T.mem]
      BY <2>1, <3>1, <3>2
    <3> QED BY <1>3, <1>6, <3>1, <3>3, MemUpdate
  <2> QED BY <2>3, <2>4
<1>11. Moved
  BY <1>5, <1>7, <1>8, <1>9, <1>10
<1>12. \A e \in Device : Queued(U, e) = Queued(T, e)
  BY <1>11 DEF Queued, Moved
<1>13. NewUse(S, U, {})
  <2>2. ASSUME NEW e \in Device, NEW v \in Vector
        PROVE  U.vec[v].buf[e] = S.vec[v].buf[e]
    <3>1. S.vec[v] \in VectorType
      BY MachineParts
    <3> QED BY <1>11, <3>1 DEF VectorType, Moved
  <2> QED BY <1>3, <1>12, <2>2, InUse, NewUseFromParts
<1> QED BY <1>3, <1>11, <1>12, <1>13 DEF U, Moved

-----------------------------------------------------------------------------
(***************************************************************************)
(* The member functions of Vector keep the two flags, the size, the host   *)
(* buffer and the device buffers of each vector consistent, when they are  *)
(* called as their clients are told to.                                    *)
(***************************************************************************)

(***************************************************************************)
(* What the flags of a vector promise of the rest of it.                   *)
(***************************************************************************)
Sound(r) ==
  /\ r.size <= MaxSize
  /\ r.hostUp => Len(r.host) = r.size
  /\ r.hostUp \/ r.devUp \/ r.size = 0
  /\ r.devUp /\ ~ r.hostUp =>
       IsValid(r.dist) /\ \A d \in r.dist.devices : r.buf[d] # NoBuffer
  /\ Fitted(r)

Good(S) == S \in Machine /\ \A v \in Vector : Sound(S.vec[v])

\* Steps that change the record of one vector, or of none.
LEMMA GoodChange ==
  ASSUME NEW S, Good(S), NEW T \in Machine, NEW v \in Vector, NEW r,
         T.vec = [S.vec EXCEPT ![v] = r], Sound(r)
  PROVE  Good(T)
<1>1. S.vec \in [Vector -> VectorType]
  BY MachineParts DEF Good
<1>2. \A w \in Vector : T.vec[w] = IF w = v THEN r ELSE S.vec[w]
  BY <1>1
<1> QED BY <1>2 DEF Good

\* The record of a vector is a vector record.
LEMMA GoodRecord ==
  ASSUME NEW S, Good(S), NEW v \in Vector
  PROVE  /\ S \in Machine /\ S.vec[v] \in VectorType /\ Sound(S.vec[v])
         /\ S.vec[v].host \in Seq(Elem) /\ S.vec[v].size \in 0 .. MaxSize
         /\ S.vec[v].dist \in DistributionType
<1>1. S \in Machine /\ S.vec[v] \in VectorType /\ Sound(S.vec[v])
  BY MachineParts DEF Good
<1> QED BY <1>1, MaxSizeAssumption DEF VectorType, Sound

\* Commands that use only buffers in use bring no buffer into use.
LEMMA EnqueueNewUse ==
  ASSUME NEW S \in Machine, NEW cmds, DOMAIN cmds \subseteq Device,
         \A d \in DOMAIN cmds : cmds[d] \in Command,
         \A d \in DOMAIN cmds :
           {cmds[d].from, cmds[d].to} \subseteq Live(S, d) \cup {NoBuffer}
  PROVE  NewUse(S, EnqueueEach(S, cmds), {})
<1> DEFINE T == EnqueueEach(S, cmds)
<1>1. /\ T.vec = S.vec
      /\ \A d \in Device : Queued(T, d) \subseteq
           Queued(S, d) \cup {cmds[e] : e \in DOMAIN cmds \cap {d}}
  BY EnqueueEachType
<1> HIDE DEF T
<1>2. ASSUME NEW d \in Device, NEW c \in Queued(T, d)
      PROVE  {c.from, c.to} \subseteq Live(S, d) \cup {NoBuffer}
  <2>1. CASE c \in Queued(S, d)
    BY <2>1, InUse
  <2>2. CASE d \in DOMAIN cmds /\ c = cmds[d]
    BY <2>2
  <2> QED BY <1>1, <2>1, <2>2
<1>3. NewUse(S, T, {})
  BY <1>1, <1>2, InUse, NewUseFromParts
<1> QED BY <1>3 DEF T

\* The offset of a transfer is a number of elements.
LEMMA HostOffsetType ==
  ASSUME NEW S, NEW v \in Vector, NEW d \in Device
  PROVE  HostOffset(S, v, d) \in Nat
<1> DEFINE X == (0 .. d - 1) \X (1 .. MaxSize)
           Y == {x \in X : x[2] <= Len(Contents(S, x[1], S.vec[v].buf[x[1]]))}
<1>1. d \in Int /\ d - 1 \in Int /\ MaxSize \in Int
  BY NumDevicesAssumption, MaxSizeAssumption DEF Device
<1>2. IsFiniteSet(0 .. d - 1) /\ IsFiniteSet(1 .. MaxSize)
  BY <1>1, FS_Interval
<1>3. IsFiniteSet(X)
  BY <1>2, FS_Product
<1>4. Y \in SUBSET X
  OBVIOUS
<1> HIDE DEF X, Y
<1>5. Cardinality(Y) \in Nat
  BY <1>3, <1>4, FS_Subset, FS_CardinalityType
<1>6. ElementsBefore(S, v, d) \in Nat
  BY <1>5 DEF ElementsBefore, X, Y
<1> QED BY <1>6 DEF HostOffset

-----------------------------------------------------------------------------
\* startUpload of a vector with a current copy somewhere.
LEMMA StartUploadGood ==
  ASSUME NEW S, Good(S), NEW v \in Vector, S.vec[v].hostUp \/ S.vec[v].devUp
  PROVE  /\ Good(StartUpload(S, v))
         /\ StartUpload(S, v).vec = [S.vec EXCEPT ![v].devUp = TRUE]
         /\ NewUse(S, StartUpload(S, v), {})
<1> DEFINE r == S.vec[v]
           cmds == [d \in r.dist.devices |->
                      WriteCommand(r.buf[d], v, HostOffset(S, v, d))]
           T == EnqueueEach(S, cmds)
           e == [r EXCEPT !.devUp = TRUE]
           U == StartUpload(S, v)
<1>1. S \in Machine /\ r \in VectorType /\ Sound(r) /\ S.vec \in [Vector -> VectorType]
  BY GoodRecord, MachineParts
<1>2. CASE r.devUp
  <2>1. U = S
    BY <1>2 DEF StartUpload
  <2>2. e = r
    BY <1>1, <1>2 DEF VectorType
  <2>3. S.vec = [S.vec EXCEPT ![v] = e]
    BY <1>1, <2>2
  <2> QED BY <2>1, <2>3 DEF NewUse
<1>3. CASE ~ r.devUp
  <2>1. r.dist.devices \subseteq Device
    BY <1>1, DistributionDevices DEF VectorType
  <2>2. ASSUME NEW d \in DOMAIN cmds
        PROVE  /\ cmds[d] \in Command
               /\ {cmds[d].from, cmds[d].to} \subseteq Live(S, d) \cup {NoBuffer}
    <3>1. d \in Device /\ r.buf[d] \in BufferId \cup {NoBuffer} /\ r.buf[d] \in Live(S, d)
      BY <1>1, <2>1, InUse DEF VectorType
    <3>2. HostOffset(S, v, d) \in Nat
      BY <3>1, HostOffsetType
    <3>3. cmds[d] = WriteCommand(r.buf[d], v, HostOffset(S, v, d))
      OBVIOUS
    <3> HIDE DEF cmds
    <3> QED BY <3>1, <3>2, <3>3, CommandTypes DEF WriteCommand
  <2>3. DOMAIN cmds \subseteq Device
    BY <2>1
  <2>4. U = [T EXCEPT !.vec[v].devUp = TRUE]
    BY <1>3 DEF StartUpload
  <2> HIDE DEF cmds
  <2>5. T \in Machine /\ T.vec = S.vec /\ NewUse(S, T, {})
    BY <1>1, <2>2, <2>3, EnqueueEachType, EnqueueNewUse
  <2>6. U = WithRecord(T, v, e)
    BY <2>4, <2>5 DEF WithRecord
  <2> HIDE DEF T, U
  <2>7. /\ e \in VectorType
        /\ \A d \in Device : e.buf[d] \in {NoBuffer, T.vec[v].buf[d]}
    BY <1>1, <2>5 DEF VectorType
  <2>8. U \in Machine /\ U.vec = [S.vec EXCEPT ![v] = e] /\ NewUse(T, U, {})
    <3> HIDE DEF e, r
    <3> QED BY <2>5, <2>6, <2>7, RecordChange
  <2>9. Sound(e)
    BY <1>1, <1>3 DEF Sound, Fitted, VectorType
  <2>10. Good(U)
    <3> HIDE DEF e
    <3> QED BY <2>8, <2>9, GoodChange
  <2>11. NewUse(S, U, {})
    BY <2>5, <2>8, NewUseTransitive
  <2> QED BY <2>8, <2>10, <2>11 DEF U
<1> QED BY <1>2, <1>3

\* startDownload of a vector that is current on its devices only: afterwards
\* it counts as current on the host.
LEMMA StartDownloadGood ==
  ASSUME NEW S, Good(S), NEW v \in Vector, MustDownload(S, v)
  PROVE  /\ Good(StartDownload(S, v))
         /\ NewUse(S, StartDownload(S, v), {})
         /\ \A w \in Vector \ {v} : StartDownload(S, v).vec[w] = S.vec[w]
         /\ StartDownload(S, v).vec[v].hostUp
         /\ StartDownload(S, v).vec[v].dist = S.vec[v].dist
         /\ StartDownload(S, v).vec[v].size = S.vec[v].size
<1> DEFINE r == S.vec[v]
           s == Resized(r.host, r.size, Zero)
           T == SetHost(S, v, s)
           cmds == [d \in DownloadDevices(r.dist) |->
                      ReadCommand(r.buf[d], v, HostOffset(S, v, d))]
           U == EnqueueEach(T, cmds)
           e == [r EXCEPT !.host = s, !.hostUp = TRUE,
                          !.devUp = r.devUp /\ r.dist.kind # "copy"]
           W == StartDownload(S, v)
<1>1. /\ S \in Machine /\ r \in VectorType /\ Sound(r)
      /\ S.vec \in [Vector -> VectorType] /\ r.devUp /\ ~ r.hostUp
      /\ r.host \in Seq(Elem) /\ r.size \in Nat
  BY GoodRecord, MachineParts DEF MustDownload, VectorType
<1>2. s \in Seq(Elem) /\ Len(s) = r.size
  BY <1>1, ResizedType, ZeroAssumption DEF Elem
<1>3. W = [U EXCEPT !.vec[v].hostUp = TRUE,
                    !.vec[v].devUp = @ /\ r.dist.kind # "copy"]
  BY <1>1 DEF StartDownload
<1> HIDE DEF s
<1>4. T \in Machine /\ T.vec = [S.vec EXCEPT ![v].host = s] /\ NewUse(S, T, {})
  BY <1>1, <1>2, SetHostType
<1>5. T.vec[v] = [r EXCEPT !.host = s]
  BY <1>1, <1>4
<1> HIDE DEF T
<1>6. DownloadDevices(r.dist) \subseteq Device
  BY <1>1, DistributionDevices DEF VectorType
<1>7. ASSUME NEW d \in DOMAIN cmds
      PROVE  /\ cmds[d] \in Command
             /\ {cmds[d].from, cmds[d].to} \subseteq Live(T, d) \cup {NoBuffer}
  <2>1. d \in Device /\ r.buf[d] \in BufferId \cup {NoBuffer}
    BY <1>1, <1>6 DEF VectorType
  <2>2. r.buf[d] \in Live(T, d)
    <3>1. T.vec[v].buf[d] = r.buf[d]
      BY <1>1, <1>5 DEF VectorType
    <3> QED BY <2>1, <3>1, InUse
  <2>3. HostOffset(S, v, d) \in Nat
    BY <2>1, HostOffsetType
  <2>4. cmds[d] = ReadCommand(r.buf[d], v, HostOffset(S, v, d))
    OBVIOUS
  <2> HIDE DEF cmds
  <2> QED BY <2>1, <2>2, <2>3, <2>4, CommandTypes DEF ReadCommand
<1>8. DOMAIN cmds \subseteq Device
  BY <1>6
<1> HIDE DEF cmds
<1>9. U \in Machine /\ U.vec = T.vec /\ NewUse(T, U, {})
  BY <1>4, <1>7, <1>8, EnqueueEachType, EnqueueNewUse
<1> HIDE DEF U
<1>10. e \in VectorType /\ \A d \in Device : e.buf[d] \in {NoBuffer, U.vec[v].buf[d]}
  BY <1>1, <1>2, <1>5, <1>9 DEF VectorType
<1>11. W = WithRecord(U, v, e)
  <2>1. [U.vec[v] EXCEPT !.hostUp = TRUE, !.devUp = @ /\ r.dist.kind # "copy"] = e
    BY <1>1, <1>5, <1>9 DEF VectorType
  <2> HIDE DEF e
  <2>2. W = [U EXCEPT !.vec[v] =
               [U.vec[v] EXCEPT !.hostUp = TRUE, !.devUp = @ /\ r.dist.kind # "copy"]]
    BY <1>3, <1>9, MachineParts
  <2> QED BY <2>1, <2>2 DEF WithRecord
<1> HIDE DEF W
<1>12. W \in Machine /\ W.vec = [U.vec EXCEPT ![v] = e] /\ NewUse(U, W, {})
  <2> HIDE DEF e, r
  <2> QED BY <1>9, <1>10, <1>11, RecordChange
<1>13. W.vec = [S.vec EXCEPT ![v] = e]
  BY <1>1, <1>4, <1>9, <1>12
<1>14. Sound(e)
  BY <1>1, <1>2 DEF Sound, Fitted, VectorType
<1>15. Good(W)
  <2> HIDE DEF e
  <2> QED BY <1>12, <1>13, <1>14, GoodChange
<1>16. NewUse(S, W, {})
  BY <1>4, <1>9, <1>12, NewUseTransitive
<1>17. e.hostUp /\ e.dist = r.dist /\ e.size = r.size
  BY <1>1 DEF VectorType
<1> QED BY <1>1, <1>13, <1>15, <1>16, <1>17 DEF W

\* A call that amounts to a new record for v, with no new buffers.
LEMMA GoodRecordChange ==
  ASSUME NEW S, Good(S), NEW v \in Vector, NEW r \in VectorType, Sound(r),
         \A d \in Device : r.buf[d] \in {NoBuffer, S.vec[v].buf[d]}
  PROVE  /\ Good(WithRecord(S, v, r)) /\ NewUse(S, WithRecord(S, v, r), {})
         /\ WithRecord(S, v, r).vec = [S.vec EXCEPT ![v] = r]
<1> DEFINE T == WithRecord(S, v, r)
<1>1. S \in Machine
  BY DEF Good
<1>2. T \in Machine /\ T.vec = [S.vec EXCEPT ![v] = r] /\ NewUse(S, T, {})
  BY <1>1, RecordChange
<1> HIDE DEF T
<1>3. Good(T)
  BY <1>2, GoodChange
<1> QED BY <1>2, <1>3 DEF T

\* setDistribution, once the host copy is current if the data has to move.
LEMMA AssignDistributionGood ==
  ASSUME NEW S, Good(S), NEW v \in Vector, NEW dist \in ValidDistribution,
         S.vec[v].hostUp \/ ~ NeedsExchange(S.vec[v].dist, dist)
  PROVE  /\ Good(AssignDistribution(S, v, dist))
         /\ NewUse(S, AssignDistribution(S, v, dist), {})
         /\ \A w \in Vector \ {v} : AssignDistribution(S, v, dist).vec[w] = S.vec[w]
         /\ AssignDistribution(S, v, dist).vec[v].dist = dist
         /\ AssignDistribution(S, v, dist).vec[v].hostUp = S.vec[v].hostUp
         /\ AssignDistribution(S, v, dist).vec[v].size = S.vec[v].size
<1> DEFINE r == S.vec[v]
           T == AssignDistribution(S, v, dist)
           moved == [r EXCEPT !.buf = NoBuffers, !.devUp = FALSE, !.dist = dist]
           kept == [r EXCEPT !.dist = dist]
<1>1. S \in Machine /\ r \in VectorType /\ Sound(r) /\ r.dist \in DistributionType
  BY GoodRecord
<1>2. dist \in DistributionType /\ IsValid(dist)
  BY DEF DistributionType, ValidDistribution, IsValid, Single, Block, Copy
<1>3. CASE NeedsExchange(r.dist, dist)
  <2>1. T = WithRecord(S, v, moved)
    BY <1>1, <1>3, MachineParts DEF AssignDistribution, DropBuffers, WithRecord
  <2>2. /\ moved \in VectorType
        /\ \A d \in Device : moved.buf[d] \in {NoBuffer, S.vec[v].buf[d]}
        /\ moved.dist = dist /\ moved.hostUp = r.hostUp /\ moved.size = r.size
    BY <1>1, <1>2 DEF VectorType, NoBuffers
  <2>3. Sound(moved)
    BY <1>1, <1>3 DEF Sound, Fitted, VectorType, NoBuffers
  <2> HIDE DEF T, moved
  <2>4. Good(T) /\ NewUse(S, T, {})
    BY <2>1, <2>2, <2>3, GoodRecordChange
  <2>5. T.vec = [S.vec EXCEPT ![v] = moved]
    <3>1. WithRecord(S, v, moved).vec = [S.vec EXCEPT ![v] = moved]
      BY <2>2, <2>3, GoodRecordChange
    <3> QED BY <2>1, <3>1
  <2>6. T.vec[v] = moved /\ \A w \in Vector \ {v} : T.vec[w] = S.vec[w]
    BY <1>1, <2>5, MachineParts
  <2> QED BY <2>2, <2>4, <2>6 DEF T
<1>4. CASE ~ NeedsExchange(r.dist, dist)
  <2>1. T = WithRecord(S, v, kept)
    BY <1>1, <1>4, MachineParts DEF AssignDistribution, WithRecord
  <2>2. /\ kept \in VectorType
        /\ \A d \in Device : kept.buf[d] \in {NoBuffer, S.vec[v].buf[d]}
        /\ kept.dist = dist /\ kept.hostUp = r.hostUp /\ kept.size = r.size
        /\ kept.devUp = r.devUp /\ kept.buf = r.buf /\ kept.host = r.host
    BY <1>1, <1>2 DEF VectorType
  <2>3. r.dist = dist \/ r.dist = Invalid
    BY <1>1, <1>4 DEF NeedsExchange, DistributionType, ValidDistribution,
       BlockExchanges, SingleExchanges, Single, Block, Copy
  <2>4. CASE r.dist = dist
    <3>1. kept = r
      BY <1>1, <2>4 DEF VectorType
    <3>2. Sound(kept)
      BY <1>1, <3>1
    <3> HIDE DEF T, kept
    <3>3. Good(T) /\ NewUse(S, T, {})
      BY <2>1, <2>2, <3>2, GoodRecordChange
    <3>4. T.vec = [S.vec EXCEPT ![v] = kept]
      <4>1. WithRecord(S, v, kept).vec = [S.vec EXCEPT ![v] = kept]
        BY <2>2, <3>2, GoodRecordChange
      <4> QED BY <2>1, <4>1
    <3>5. T.vec[v] = kept /\ \A w \in Vector \ {v} : T.vec[w] = S.vec[w]
      BY <1>1, <3>4, MachineParts
    <3> QED BY <2>2, <3>3, <3>5 DEF T
  <2>5. CASE r.dist = Invalid
    <3>1. ~ (r.devUp /\ ~ r.hostUp) /\ \A d \in Device : r.buf[d] = NoBuffer
      BY <1>1, <2>5 DEF Sound, Fitted, IsValid, Invalid
    <3> HIDE DEF kept
    <3>2. Sound(kept)
      BY <1>1, <2>2, <3>1 DEF Sound, Fitted
    <3> HIDE DEF T
    <3>3. Good(T) /\ NewUse(S, T, {})
      BY <2>1, <2>2, <3>2, GoodRecordChange
    <3>4. T.vec = [S.vec EXCEPT ![v] = kept]
      <4>1. WithRecord(S, v, kept).vec = [S.vec EXCEPT ![v] = kept]
        BY <2>2, <3>2, GoodRecordChange
      <4> QED BY <2>1, <4>1
    <3>5. T.vec[v] = kept /\ \A w \in Vector \ {v} : T.vec[w] = S.vec[w]
      BY <1>1, <3>4, MachineParts
    <3> QED BY <2>2, <3>3, <3>5 DEF T
  <2> QED BY <2>3, <2>4, <2>5
<1> QED BY <1>3, <1>4

\* The two ways to say which copy was modified.
LEMMA DataOnDeviceModifiedGood ==
  ASSUME NEW S, Good(S), NEW v \in Vector, IsValid(S.vec[v].dist),
         \A d \in S.vec[v].dist.devices : S.vec[v].buf[d] # NoBuffer
  PROVE  Good(DataOnDeviceModified(S, v))
<1> DEFINE r == S.vec[v]
           e == [r EXCEPT !.hostUp = FALSE, !.devUp = TRUE]
           T == DataOnDeviceModified(S, v)
<1>1. S \in Machine /\ r \in VectorType /\ Sound(r)
  BY GoodRecord
<1>2. T = WithRecord(S, v, e)
  BY <1>1, MachineParts DEF DataOnDeviceModified, WithRecord
<1>3. e \in VectorType /\ \A d \in Device : e.buf[d] \in {NoBuffer, S.vec[v].buf[d]}
  BY <1>1 DEF VectorType
<1>4. Sound(e)
  BY <1>1 DEF Sound, Fitted, VectorType
<1> HIDE DEF e, T
<1>5. Good(T)
  BY <1>2, <1>3, <1>4, GoodRecordChange
<1> QED BY <1>5 DEF T

LEMMA DataOnHostModifiedGood ==
  ASSUME NEW S, Good(S), NEW v \in Vector, S.vec[v].hostUp
  PROVE  Good(DataOnHostModified(S, v))
<1> DEFINE r == S.vec[v]
           e == [r EXCEPT !.hostUp = TRUE, !.devUp = FALSE]
           T == DataOnHostModified(S, v)
<1>1. S \in Machine /\ r \in VectorType /\ Sound(r)
  BY GoodRecord
<1>2. T = WithRecord(S, v, e)
  BY <1>1, MachineParts DEF DataOnHostModified, WithRecord
<1>3. e \in VectorType /\ \A d \in Device : e.buf[d] \in {NoBuffer, S.vec[v].buf[d]}
  BY <1>1 DEF VectorType
<1>4. Sound(e)
  BY <1>1 DEF Sound, Fitted, VectorType
<1> HIDE DEF e, T
<1>5. Good(T)
  BY <1>2, <1>3, <1>4, GoodRecordChange
<1> QED BY <1>5 DEF T

\* A write through a reference, then dataOnHostModified.
LEMMA StoreElementGood ==
  ASSUME NEW S, Good(S), NEW v \in Vector, S.vec[v].hostUp,
         NEW i \in Nat, NEW x \in Elem
  PROVE  Good(StoreElement(S, v, i, x)) /\ StoreElement(S, v, i, x).vec[v].hostUp
<1> DEFINE r == S.vec[v]
           h == [r.host EXCEPT ![i] = x]
           e == [r EXCEPT !.host = h]
           T == StoreElement(S, v, i, x)
<1>1. S \in Machine /\ r \in VectorType /\ Sound(r) /\ r.host \in Seq(Elem)
  BY GoodRecord
<1>2. h \in Seq(Elem) /\ Len(h) = Len(r.host)
  <2>1. CASE i \in 1 .. Len(r.host)
    BY <1>1, <2>1, ExceptSeq
  <2>2. CASE i \notin 1 .. Len(r.host)
    BY <1>1, <2>2, LenProperties
  <2> QED BY <2>1, <2>2
<1>3. T = WithRecord(S, v, e)
  BY <1>1, MachineParts DEF StoreElement, WithRecord
<1> HIDE DEF h
<1>4. /\ e \in VectorType /\ e.hostUp
      /\ \A d \in Device : e.buf[d] \in {NoBuffer, S.vec[v].buf[d]}
  BY <1>1, <1>2 DEF VectorType
<1>5. Sound(e)
  BY <1>1, <1>2 DEF Sound, Fitted, VectorType
<1> HIDE DEF e, T
<1>6. Good(T)
  BY <1>3, <1>4, <1>5, GoodRecordChange
<1>7. T.vec = [S.vec EXCEPT ![v] = e]
  <2>1. WithRecord(S, v, e).vec = [S.vec EXCEPT ![v] = e]
    BY <1>4, <1>5, GoodRecordChange
  <2> QED BY <1>3, <2>1
<1>8. T.vec[v] = e
  BY <1>1, <1>7, MachineParts
<1> QED BY <1>4, <1>6, <1>8 DEF T

-----------------------------------------------------------------------------
\* A new host buffer for v, then a new record with no new device buffers.
LEMMA GoodHostChange ==
  ASSUME NEW S \in Machine, NEW v \in Vector, \A w \in Vector \ {v} : Sound(S.vec[w]),
         NEW s \in Seq(Elem), NEW r \in VectorType, Sound(r),
         \A d \in Device : r.buf[d] \in {NoBuffer, S.vec[v].buf[d]}
  PROVE  /\ Good(WithRecord(SetHost(S, v, s), v, r))
         /\ NewUse(S, WithRecord(SetHost(S, v, s), v, r), {})
         /\ WithRecord(SetHost(S, v, s), v, r).vec = [S.vec EXCEPT ![v] = r]
<1> DEFINE H == SetHost(S, v, s)
           T == WithRecord(H, v, r)
<1>1. H \in Machine /\ H.vec = [S.vec EXCEPT ![v].host = s] /\ NewUse(S, H, {})
  BY SetHostType
<1>2. S.vec \in [Vector -> VectorType]
  BY MachineParts
<1>3. H.vec[v].buf = S.vec[v].buf
  BY <1>1, <1>2 DEF VectorType
<1> HIDE DEF H
<1>4. T \in Machine /\ T.vec = [H.vec EXCEPT ![v] = r] /\ NewUse(H, T, {})
  <2>1. H \in Machine /\ \A d \in Device : r.buf[d] \in {NoBuffer, H.vec[v].buf[d]}
    BY <1>1, <1>3
  <2> QED BY <2>1, RecordChange, Zenon
<1> HIDE DEF T
<1>5. T.vec = [S.vec EXCEPT ![v] = r]
  BY <1>1, <1>2, <1>4
<1>6. \A w \in Vector : Sound(T.vec[w])
  BY <1>2, <1>5
<1>7. NewUse(S, T, {})
  BY <1>1, <1>4, NewUseTransitive
<1> QED BY <1>4, <1>5, <1>6, <1>7 DEF Good, T, H

\* resize.
LEMMA ResizeGood ==
  ASSUME NEW S, Good(S), NEW v \in Vector, S.vec[v].hostUp \/ S.vec[v].devUp,
         NEW n \in 1 .. MaxSize, NEW x \in Elem
  PROVE  /\ Good(Resize(S, v, n, x)) /\ NewUse(S, Resize(S, v, n, x), {})
         /\ \A w \in Vector \ {v} : Resize(S, v, n, x).vec[w] = S.vec[w]
         /\ Resize(S, v, n, x).vec[v].hostUp = S.vec[v].hostUp
         /\ Resize(S, v, n, x).vec[v].dist = S.vec[v].dist
         /\ Resize(S, v, n, x).vec[v].size = n
<1> DEFINE r == S.vec[v]
           s == Resized(r.host, n, x)
           kept == [r EXCEPT !.size = n]
           cut == [r EXCEPT !.size = n, !.host = s, !.buf = NoBuffers, !.devUp = FALSE]
           T == [S EXCEPT !.vec[v].size = n]
           U == Resize(S, v, n, x)
<1>1. /\ S \in Machine /\ r \in VectorType /\ Sound(r) /\ r.host \in Seq(Elem)
      /\ n \in Nat /\ n <= MaxSize /\ S.vec \in [Vector -> VectorType]
  BY GoodRecord, MaxSizeAssumption, MachineParts
<1>2. s \in Seq(Elem) /\ Len(s) = n
  BY <1>1, ResizedType
<1>3. /\ kept \in VectorType /\ kept.buf = r.buf /\ kept.hostUp = r.hostUp
      /\ kept.dist = r.dist /\ kept.host = r.host /\ kept.size = n
  BY <1>1 DEF VectorType
<1>4. T = WithRecord(S, v, kept)
  BY DEF WithRecord
<1> HIDE DEF s
<1>5. CASE ~ r.hostUp
  <2>1. U = T
    BY <1>5 DEF Resize
  <2>2. Sound(kept)
    BY <1>1, <1>5 DEF Sound, Fitted, VectorType
  <2> HIDE DEF T, kept
  <2>3. Good(T) /\ NewUse(S, T, {})
    BY <1>3, <1>4, <2>2, GoodRecordChange
  <2>4. T.vec[v] = kept /\ \A w \in Vector \ {v} : T.vec[w] = S.vec[w]
    <3>1. WithRecord(S, v, kept).vec = [S.vec EXCEPT ![v] = kept]
      BY <1>3, <2>2, GoodRecordChange
    <3> QED BY <1>1, <1>4, <3>1
  <2> QED BY <1>3, <2>1, <2>3, <2>4
<1>6. CASE r.hostUp
  <2>1. T \in Machine /\ T.vec = [S.vec EXCEPT ![v] = kept] /\ NewUse(S, T, {})
    <3> HIDE DEF kept, T
    <3> QED BY <1>1, <1>3, <1>4, RecordChange
  <2>2. T.vec[v] = kept /\ \A w \in Vector \ {v} : T.vec[w] = S.vec[w]
    BY <1>1, <2>1
  <2>3. /\ cut \in VectorType /\ cut.hostUp = r.hostUp /\ cut.dist = r.dist /\ cut.size = n
        /\ \A d \in Device : cut.buf[d] \in {NoBuffer, T.vec[v].buf[d]}
    BY <1>1, <1>2 DEF VectorType, NoBuffers
  <2>4. Sound(cut)
    BY <1>1, <1>2, <1>6 DEF Sound, Fitted, VectorType, NoBuffers
  <2>5. U = WithRecord(SetHost(T, v, s), v, cut)
    <3> DEFINE H == SetHost(T, v, s)
    <3>1. Resized(T.vec[v].host, n, x) = s
      BY <1>3, <2>2 DEF s
    <3> HIDE DEF T, kept
    <3>2. U = [DropBuffers(H, v) EXCEPT !.vec[v].devUp = FALSE]
      BY <1>6, <3>1 DEF Resize, T
    <3>3. H \in Machine /\ H.vec = [T.vec EXCEPT ![v].host = s]
      BY <1>2, <2>1, SetHostType
    <3> HIDE DEF H
    <3>4. H.vec[v] = [kept EXCEPT !.host = s]
      BY <2>2, <3>3, <2>1, MachineParts
    <3>5. [H.vec[v] EXCEPT !.buf = NoBuffers, !.devUp = FALSE] = cut
      BY <1>1, <3>4 DEF VectorType, kept
    <3>6. U = [H EXCEPT !.vec[v] = [H.vec[v] EXCEPT !.buf = NoBuffers, !.devUp = FALSE]]
      BY <3>2, <3>3, MachineParts DEF DropBuffers
    <3> QED BY <3>5, <3>6 DEF H, WithRecord
  <2>6. \A w \in Vector \ {v} : Sound(T.vec[w])
    BY <2>2 DEF Good
  <2> HIDE DEF T, cut, U
  <2>7. Good(U) /\ NewUse(T, U, {}) /\ U.vec = [T.vec EXCEPT ![v] = cut]
    <3> DEFINE V == WithRecord(SetHost(T, v, s), v, cut)
    <3>1. T \in Machine /\ \A d \in Device : cut.buf[d] \in {NoBuffer, T.vec[v].buf[d]}
      BY <2>1, <2>3
    <3>2. Good(V) /\ NewUse(T, V, {}) /\ V.vec = [T.vec EXCEPT ![v] = cut]
      BY <1>2, <2>3, <2>4, <2>6, <3>1, GoodHostChange
    <3> QED BY <2>5, <3>2
  <2>8. NewUse(S, U, {})
    BY <2>1, <2>7, NewUseTransitive
  <2>9. U.vec[v] = cut /\ \A w \in Vector \ {v} : U.vec[w] = S.vec[w]
    BY <2>1, <2>2, <2>7, MachineParts
  <2> QED BY <2>3, <2>7, <2>8, <2>9 DEF U
<1> QED BY <1>5, <1>6

-----------------------------------------------------------------------------
\* A vector that lives on the host alone.
OnHostAlone(r) ==
  r.hostUp /\ ~ r.devUp /\ \A d \in Device : r.buf[d] = NoBuffer

\* A host buffer of n elements.
HostRecord(r, s, n) == [r EXCEPT !.host = s, !.size = n]

WithSize(S, v, n) == [S EXCEPT !.vec[v].size = n]

\* setting the host buffer, and then _size or not.
LEMMA SetHostThenSize ==
  ASSUME NEW S \in Machine, NEW v \in Vector, NEW s \in Seq(Elem), NEW n
  PROVE  /\ SetHost(S, v, s).vec[v].size = S.vec[v].size
         /\ WithSize(SetHost(S, v, s), v, n) =
              WithRecord(SetHost(S, v, s), v, HostRecord(S.vec[v], s, n))
         /\ n = S.vec[v].size =>
              SetHost(S, v, s) =
                WithRecord(SetHost(S, v, s), v, HostRecord(S.vec[v], s, n))
<1> DEFINE r == S.vec[v]
           H == SetHost(S, v, s)
           e == HostRecord(r, s, n)
<1>1. r \in VectorType /\ S.vec \in [Vector -> VectorType]
  BY MachineParts
<1>2. H \in Machine /\ H.vec = [S.vec EXCEPT ![v].host = s]
  BY SetHostType
<1> HIDE DEF H
<1>3. H.vec[v] = [r EXCEPT !.host = s]
  BY <1>1, <1>2
<1>4. H.vec[v].size = r.size
  BY <1>1, <1>3 DEF VectorType
<1>5. [H.vec[v] EXCEPT !.size = n] = e
  BY <1>1, <1>3 DEF VectorType, HostRecord
<1>6. [H EXCEPT !.vec[v].size = n] = WithRecord(H, v, e)
  <2>1. [H EXCEPT !.vec[v].size = n] = [H EXCEPT !.vec[v] = [H.vec[v] EXCEPT !.size = n]]
    OBVIOUS
  <2> QED BY <1>5, <2>1 DEF WithRecord
<1>7. ASSUME n = r.size
      PROVE  H = WithRecord(H, v, e)
  <2>1. H.vec[v] = e
    BY <1>1, <1>3, <1>7 DEF VectorType, HostRecord
  <2>2. H.vec \in [Vector -> VectorType]
    BY <1>2, MachineParts
  <2>3. H.vec = [H.vec EXCEPT ![v] = e]
    BY <2>1, <2>2
  <2>4. H = [H EXCEPT !.vec = H.vec]
    BY <1>2 DEF Machine
  <2> HIDE DEF e
  <2> QED BY <2>3, <2>4 DEF WithRecord
<1> QED BY <1>4, <1>6, <1>7 DEF H, WithSize

\* The members that change the elements on the host only: on a vector that
\* lives there alone, they are right if they keep _size the length.
LEMMA HostAloneGood ==
  ASSUME NEW S, Good(S), NEW v \in Vector, OnHostAlone(S.vec[v]),
         NEW s \in Seq(Elem), NEW n \in 0 .. MaxSize, Len(s) = n
  PROVE  Good(WithRecord(SetHost(S, v, s), v, HostRecord(S.vec[v], s, n)))
<1> DEFINE r == S.vec[v]
           e == HostRecord(r, s, n)
<1>1. S \in Machine /\ r \in VectorType /\ Sound(r)
  BY GoodRecord
<1>2. n \in Nat /\ n <= MaxSize
  BY MaxSizeAssumption
<1>3. /\ e \in VectorType
      /\ \A d \in Device : e.buf[d] \in {NoBuffer, S.vec[v].buf[d]}
  BY <1>1, <1>2 DEF VectorType, HostRecord
<1>4. Sound(e)
  BY <1>1, <1>2 DEF Sound, Fitted, VectorType, OnHostAlone, HostRecord
<1>5. \A w \in Vector \ {v} : Sound(S.vec[w])
  BY DEF Good
<1> HIDE DEF e
<1>6. Good(WithRecord(SetHost(S, v, s), v, e))
  BY <1>1, <1>3, <1>4, <1>5, GoodHostChange
<1> QED BY <1>6 DEF e

\* push_back, insert.
LEMMA InsertGood ==
  ASSUME NEW S, Good(S), NEW v \in Vector, OnHostAlone(S.vec[v]),
         S.vec[v].size < MaxSize,
         NEW i \in 1 .. Len(S.vec[v].host) + 1, NEW x \in Elem
  PROVE  Good(Insert(S, v, i, x))
<1> DEFINE r == S.vec[v]
           s == InsertAt(r.host, i, x)
           n == r.size + 1
           T == WithRecord(SetHost(S, v, s), v, HostRecord(r, s, n))
<1>1. /\ S \in Machine /\ r.host \in Seq(Elem)
      /\ r.size \in 0 .. MaxSize /\ Len(r.host) = r.size
  BY GoodRecord DEF Sound, OnHostAlone
<1>2. s \in Seq(Elem) /\ Len(s) = n /\ n \in 0 .. MaxSize
  <2>1. s \in Seq(Elem) /\ Len(s) = Len(r.host) + 1
    BY <1>1, InsertAtType
  <2> QED BY <1>1, <2>1, MaxSizeAssumption
<1> HIDE DEF s
<1>3. Good(T)
  <2> HIDE DEF n
  <2> QED BY <1>2, HostAloneGood
<1>4. Insert(S, v, i, x) = T
  <2>1. SetHost(S, v, s).vec[v].size = r.size
    BY <1>1, <1>2, SetHostThenSize
  <2>2. Insert(S, v, i, x) = [SetHost(S, v, s) EXCEPT !.vec[v].size = @ + 1]
    BY DEF Insert, s
  <2>3. Insert(S, v, i, x) = [SetHost(S, v, s) EXCEPT !.vec[v].size = n]
    BY <2>1, <2>2
  <2>4. WithSize(SetHost(S, v, s), v, n) = T
    BY <1>1, <1>2, SetHostThenSize
  <2> QED BY <2>3, <2>4 DEF WithSize
<1> QED BY <1>3, <1>4

\* pop_back, erase.
LEMMA EraseGood ==
  ASSUME NEW S, Good(S), NEW v \in Vector, OnHostAlone(S.vec[v]),
         NEW i \in 1 .. Len(S.vec[v].host)
  PROVE  Good(Erase(S, v, i))
<1> DEFINE r == S.vec[v]
           s == RemoveAt(r.host, i)
           n == r.size - 1
           T == WithRecord(SetHost(S, v, s), v, HostRecord(r, s, n))
<1>1. /\ S \in Machine /\ r.host \in Seq(Elem)
      /\ r.size \in 0 .. MaxSize /\ Len(r.host) = r.size
  BY GoodRecord DEF Sound, OnHostAlone
<1>2. s \in Seq(Elem) /\ Len(s) = n /\ n \in 0 .. MaxSize
  BY <1>1, RemoveAtType, MaxSizeAssumption
<1> HIDE DEF s
<1>3. Good(T)
  <2> HIDE DEF n
  <2> QED BY <1>2, HostAloneGood
<1>4. Erase(S, v, i) = T
  <2>1. SetHost(S, v, s).vec[v].size = r.size
    BY <1>1, <1>2, SetHostThenSize
  <2>2. Erase(S, v, i) = [SetHost(S, v, s) EXCEPT !.vec[v].size = @ - 1]
    BY DEF Erase, s
  <2>3. Erase(S, v, i) = [SetHost(S, v, s) EXCEPT !.vec[v].size = n]
    BY <2>1, <2>2
  <2>4. WithSize(SetHost(S, v, s), v, n) = T
    BY <1>1, <1>2, SetHostThenSize
  <2> QED BY <2>3, <2>4 DEF WithSize
<1> QED BY <1>3, <1>4

\* assign of as many elements as the vector has.
LEMMA AssignGood ==
  ASSUME NEW S, Good(S), NEW v \in Vector, OnHostAlone(S.vec[v]),
         NEW n \in 0 .. MaxSize, n = S.vec[v].size, NEW x \in Elem
  PROVE  Good(Assign(S, v, n, x))
<1> DEFINE s == Filled(n, x)
           T == WithRecord(SetHost(S, v, s), v, HostRecord(S.vec[v], s, n))
<1>1. S \in Machine /\ n \in Nat
  BY GoodRecord, MaxSizeAssumption
<1>2. s \in Seq(Elem) /\ Len(s) = n
  BY <1>1, FilledType
<1> HIDE DEF s
<1>3. Good(T)
  BY <1>2, HostAloneGood
<1>4. SetHost(S, v, s) = T
  BY <1>1, <1>2, SetHostThenSize
<1> QED BY <1>3, <1>4 DEF Assign, s

\* clear.
LEMMA ClearGood ==
  ASSUME NEW S, Good(S), NEW v \in Vector, OnHostAlone(S.vec[v])
  PROVE  Good(Clear(S, v))
<1> DEFINE s == << >>
           T == WithRecord(SetHost(S, v, s), v, HostRecord(S.vec[v], s, 0))
<1>1. S \in Machine /\ s \in Seq(Elem) /\ Len(s) = 0 /\ 0 \in 0 .. MaxSize
  BY GoodRecord, MaxSizeAssumption
<1> HIDE DEF s
<1>2. Good(T)
  BY <1>1, HostAloneGood
<1>3. WithSize(SetHost(S, v, s), v, 0) = T
  BY <1>1, SetHostThenSize
<1> QED BY <1>2, <1>3 DEF Clear, s, WithSize

-----------------------------------------------------------------------------
\* New buffers on all devices of the distribution and on no others.
GetsBuffers(S, T, v, b) ==
  /\ T.vec = [S.vec EXCEPT ![v].buf = b]
  /\ \A d \in Device : b[d] # NoBuffer <=> d \in S.vec[v].dist.devices

LEMMA BuffersGood ==
  ASSUME NEW S, Good(S), NEW v \in Vector,
         NEW b \in [Device -> BufferId \cup {NoBuffer}],
         NEW T \in Machine, GetsBuffers(S, T, v, b)
  PROVE  Good(T)
<1> DEFINE r == S.vec[v]
           e == [r EXCEPT !.buf = b]
<1>1. r \in VectorType /\ Sound(r) /\ S.vec \in [Vector -> VectorType]
  BY GoodRecord, MachineParts
<1>2. r.dist.devices \subseteq Device
  BY <1>1, DistributionDevices DEF VectorType
<1>3. Sound(e)
  BY <1>1, <1>2 DEF Sound, Fitted, VectorType, GetsBuffers
<1>4. T.vec = [S.vec EXCEPT ![v] = e]
  BY DEF GetsBuffers
<1> HIDE DEF e
<1>5. Good(T)
  BY <1>3, <1>4, GoodChange
<1> QED BY <1>5

\* What createDeviceBuffers leaves.
LEMMA CreateDeviceBuffersGood ==
  ASSUME NEW S, Good(S), NEW v \in Vector, Room(S, v)
  PROVE  /\ Good(CreateDeviceBuffers(S, v))
         /\ NewUse(S, CreateDeviceBuffers(S, v), {v})
         /\ \A w \in Vector \ {v} : CreateDeviceBuffers(S, v).vec[w] = S.vec[w]
         /\ \E b \in [Device -> BufferId \cup {NoBuffer}] :
              /\ CreateDeviceBuffers(S, v).vec[v] = [S.vec[v] EXCEPT !.buf = b]
              /\ \A d \in Device : b[d] # NoBuffer <=> d \in S.vec[v].dist.devices
<1> DEFINE T == CreateDeviceBuffers(S, v)
<1>1. S \in Machine /\ S.vec[v].size \in 0 .. MaxSize /\ Fitted(S.vec[v])
  BY GoodRecord DEF Sound
<1>2. /\ T \in Machine /\ NewUse(S, T, {v})
      /\ \E b \in [Device -> BufferId \cup {NoBuffer}] :
              /\ T.vec = [S.vec EXCEPT ![v].buf = b]
              /\ \A d \in Device : b[d] # NoBuffer <=> d \in S.vec[v].dist.devices
  BY <1>1, CreateDeviceBuffersType
<1> HIDE DEF T
<1>3. PICK b \in [Device -> BufferId \cup {NoBuffer}] : GetsBuffers(S, T, v, b)
  BY <1>2 DEF GetsBuffers
<1>4. Good(T)
  BY <1>2, <1>3, BuffersGood
<1>5. S.vec \in [Vector -> VectorType]
  BY <1>1, MachineParts
<1>6. /\ T.vec[v] = [S.vec[v] EXCEPT !.buf = b]
      /\ \A w \in Vector \ {v} : T.vec[w] = S.vec[w]
  BY <1>3, <1>5 DEF GetsBuffers
<1> QED BY <1>2, <1>3, <1>4, <1>6 DEF T, GetsBuffers

LEMMA ForceCreateDeviceBuffersGood ==
  ASSUME NEW S, Good(S), NEW v \in Vector, Room(S, v)
  PROVE  Good(ForceCreateDeviceBuffers(S, v))
<1> DEFINE T == ForceCreateDeviceBuffers(S, v)
<1>1. S \in Machine /\ S.vec[v].size \in 0 .. MaxSize
  BY GoodRecord DEF Sound
<1>2. /\ T \in Machine /\ NewUse(S, T, {v})
      /\ \E b \in [Device -> BufferId \cup {NoBuffer}] :
              /\ T.vec = [S.vec EXCEPT ![v].buf = b]
              /\ \A d \in Device : b[d] # NoBuffer <=> d \in S.vec[v].dist.devices
  BY <1>1, ForceCreateDeviceBuffersType
<1> HIDE DEF T
<1>3. PICK b \in [Device -> BufferId \cup {NoBuffer}] : GetsBuffers(S, T, v, b)
  BY <1>2 DEF GetsBuffers
<1>4. Good(T)
  BY <1>2, <1>3, BuffersGood
<1> QED BY <1>4 DEF T

-----------------------------------------------------------------------------
\* A new object in the place of v.
LEMMA ReplaceGood ==
  ASSUME NEW S, Good(S), NEW v \in Vector, NEW r \in VectorType, Sound(r),
         r.buf = NoBuffers
  PROVE  Good(Replace(S, v, r))
<1> DEFINE T == Replace(S, v, r)
<1>1. S \in Machine
  BY DEF Good
<1>2. T \in Machine /\ T.vec = [S.vec EXCEPT ![v] = r]
  BY <1>1, ReplaceType
<1> HIDE DEF T
<1>3. Good(T)
  BY <1>2, GoodChange
<1> QED BY <1>3 DEF T

\* The constructors.
LEMMA ConstructedSound ==
  /\ Default \in VectorType /\ Sound(Default) /\ Default.buf = NoBuffers
  /\ \A s \in Seq(Value), dist \in DistributionType :
       Len(s) \in 1 .. MaxSize =>
         /\ Constructed(s, dist) \in VectorType /\ Sound(Constructed(s, dist))
         /\ Constructed(s, dist).buf = NoBuffers
<1>1. \A s \in Seq(Value) : s \in Seq(Elem) /\ Len(s) \in Nat
  BY SeqMonotonic, LenProperties DEF Elem
<1>2. Invalid \in DistributionType /\ 0 <= MaxSize
  BY MaxSizeAssumption DEF DistributionType
<1>3. << >> \in Seq(Elem) /\ Len(<< >>) = 0
  OBVIOUS
<1>4. Default \in VectorType /\ Sound(Default) /\ Default.buf = NoBuffers
  BY <1>2, <1>3 DEF Default, VectorType, Sound, Fitted, NoBuffers
<1>5. ASSUME NEW s \in Seq(Value), NEW dist \in DistributionType, Len(s) \in 1 .. MaxSize
      PROVE  /\ Constructed(s, dist) \in VectorType /\ Sound(Constructed(s, dist))
             /\ Constructed(s, dist).buf = NoBuffers
  <2>1. Len(s) <= MaxSize
    BY <1>5, MaxSizeAssumption
  <2> QED BY <1>1, <2>1 DEF Constructed, VectorType, Sound, Fitted, NoBuffers
<1> QED BY <1>4, <1>5

\* swap of two vectors that live on the host alone.
LEMMA SwapGood ==
  ASSUME NEW S, Good(S), NEW v \in Vector, NEW w \in Vector, v # w,
         OnHostAlone(S.vec[v]), OnHostAlone(S.vec[w])
  PROVE  Good(Swap(S, v, w))
<1> DEFINE owner == [Identity EXCEPT ![v] = w, ![w] = v]
           R == Redirect(S, owner)
           r == HostRecord(S.vec[v], S.vec[w].host, S.vec[w].size)
           q == HostRecord(S.vec[w], S.vec[v].host, S.vec[v].size)
           f == [S.vec EXCEPT ![v] = r, ![w] = q]
           T == Swap(S, v, w)
<1>1. S \in Machine /\ S.vec \in [Vector -> VectorType] /\ \A u \in Vector : Sound(S.vec[u])
  BY MachineParts DEF Good
<1>2. owner \in [Vector -> Vector \cup {Nobody}]
  BY DEF Identity
<1> HIDE DEF owner
<1>3. R \in Machine /\ R.vec = S.vec
  BY <1>1, <1>2, RedirectType
<1>4. r \in VectorType /\ q \in VectorType
  BY <1>1 DEF VectorType, HostRecord
<1>5. Sound(r) /\ Sound(q)
  BY <1>1 DEF Sound, Fitted, VectorType, HostRecord, OnHostAlone
<1> HIDE DEF R
<1>6. T = [R EXCEPT !.vec = f]
  <2> DEFINE g == [S.vec EXCEPT ![v].host = S.vec[w].host, ![v].size = S.vec[w].size,
                                ![w].host = S.vec[v].host, ![w].size = S.vec[v].size]
  <2>1. T = [R EXCEPT !.vec[v].host = S.vec[w].host, !.vec[v].size = S.vec[w].size,
                      !.vec[w].host = S.vec[v].host, !.vec[w].size = S.vec[v].size]
    BY DEF Swap, R, owner
  <2>2. T = [R EXCEPT !.vec = g]
    BY <1>3, <2>1, MachineParts
  <2>3. g[v] = r /\ g[w] = q /\ \A u \in Vector \ {v, w} : g[u] = S.vec[u]
    BY <1>1 DEF HostRecord
  <2>4. f[v] = r /\ f[w] = q /\ \A u \in Vector \ {v, w} : f[u] = S.vec[u]
    BY <1>1
  <2>5. g = [u \in Vector |-> g[u]] /\ f = [u \in Vector |-> f[u]]
    BY <1>1
  <2> HIDE DEF f, g, r, q
  <2>6. g = f
    BY <2>3, <2>4, <2>5
  <2> QED BY <2>2, <2>6
<1>7. f \in [Vector -> VectorType] /\ \A u \in Vector : Sound(f[u])
  <2> HIDE DEF r, q
  <2> QED BY <1>1, <1>4, <1>5
<1> HIDE DEF f, T
<1>8. T \in Machine /\ T.vec = f
  BY <1>3, <1>6, <1>7, VecUpdate
<1> QED BY <1>7, <1>8 DEF Good, T

\* The move constructor and assignment.
LEMMA MoveGood ==
  ASSUME NEW S, Good(S), NEW v \in Vector, NEW w \in Vector, v # w
  PROVE  Good(Move(S, v, w))
<1> DEFINE owner == [Identity EXCEPT ![v] = w, ![w] = Nobody]
           R == Redirect(S, owner)
           f == [S.vec EXCEPT ![w] = S.vec[v], ![v] = MovedFrom]
           T == Move(S, v, w)
<1>1. S \in Machine /\ S.vec \in [Vector -> VectorType] /\ \A u \in Vector : Sound(S.vec[u])
  BY MachineParts DEF Good
<1>2. owner \in [Vector -> Vector \cup {Nobody}]
  BY DEF Identity
<1> HIDE DEF owner
<1>3. R \in Machine /\ R.vec = S.vec
  BY <1>1, <1>2, RedirectType
<1>4. MovedFrom \in VectorType /\ Sound(MovedFrom)
  BY MaxSizeAssumption DEF MovedFrom, VectorType, Sound, Fitted, NoBuffers,
     DistributionType
<1> HIDE DEF R
<1>5. T = [R EXCEPT !.vec = f]
  BY <1>1, <1>3 DEF Move, R, owner
<1>6. f \in [Vector -> VectorType] /\ \A u \in Vector : Sound(f[u])
  BY <1>1, <1>4
<1> HIDE DEF f, T
<1>7. T \in Machine /\ T.vec = f
  BY <1>3, <1>5, <1>6, VecUpdate
<1> QED BY <1>6, <1>7 DEF Good, T

\* The copy constructor: the copy has buffers where the original has.
LEMMA CopyConstructGood ==
  ASSUME NEW S, Good(S), NEW v \in Vector, NEW w \in Vector, v # w, Room(S, w)
  PROVE  Good(CopyConstruct(S, v, w))
<1> DEFINE r == S.vec[v]
           e == [r EXCEPT !.buf = NoBuffers]
           T == Replace(S, w, e)
           held == {d \in Device : r.buf[d] # NoBuffer}
           len == [d \in held |-> Len(Contents(S, d, r.buf[d]))]
           U == NewBuffers(T, w, len)
           cmds == [d \in held |-> CopyCommand(r.buf[d], U.vec[w].buf[d])]
           W == EnqueueEach(U, cmds)
<1>1. S \in Machine /\ r \in VectorType /\ Sound(r) /\ S.vec \in [Vector -> VectorType]
  BY GoodRecord, MachineParts
<1>2. e \in VectorType /\ e.buf = NoBuffers
  BY <1>1 DEF VectorType, NoBuffers
<1>3. /\ DOMAIN len = held /\ DOMAIN len \subseteq Device
      /\ \A d \in DOMAIN len : len[d] \in Nat
  BY <1>1, ContentsType, LenProperties
<1>4. W = CopyConstruct(S, v, w)
  BY DEF CopyConstruct
<1> HIDE DEF len
<1>5. T \in Machine /\ T.vec = [S.vec EXCEPT ![w] = e] /\ NewUse(S, T, {})
  <2> HIDE DEF e
  <2> QED BY <1>1, <1>2, ReplaceType
<1> HIDE DEF T
<1>6. Room(T, w)
  BY <1>5, RoomStays
<1>7. /\ U \in Machine
      /\ \E b \in [Device -> BufferId \cup {NoBuffer}] :
           /\ U.vec = [T.vec EXCEPT ![w].buf = b]
           /\ \A d \in Device : b[d] # NoBuffer <=> d \in DOMAIN len
           /\ \A d \in DOMAIN len : b[d] \notin Live(T, d)
  <2> HIDE DEF held
  <2> QED BY <1>3, <1>5, <1>6, NewBuffersType
<1> HIDE DEF U
<1>8. PICK b \in [Device -> BufferId \cup {NoBuffer}] :
           /\ U.vec = [T.vec EXCEPT ![w].buf = b]
           /\ \A d \in Device : b[d] # NoBuffer <=> d \in DOMAIN len
  BY <1>7
<1> DEFINE g == [r EXCEPT !.buf = b]
<1>9. U.vec = [S.vec EXCEPT ![w] = g]
  <2>1. T.vec[w] = e
    BY <1>1, <1>5
  <2>2. [T.vec[w] EXCEPT !.buf = b] = g
    BY <1>1, <2>1 DEF VectorType
  <2> HIDE DEF e, g
  <2> QED BY <1>1, <1>5, <1>8, <2>2
<1>10. \A d \in Device : b[d] # NoBuffer <=> r.buf[d] # NoBuffer
  BY <1>3, <1>8
<1>11. Sound(g)
  BY <1>1, <1>10, DistributionDevices DEF Sound, Fitted, VectorType
<1> HIDE DEF g
<1>12. Good(U)
  BY <1>7, <1>9, <1>11, GoodChange
<1>13. DOMAIN cmds \subseteq Device /\ \A d \in DOMAIN cmds : cmds[d] \in Command
  <2>1. U.vec[w] \in VectorType
    BY <1>7, MachineParts
  <2>2. ASSUME NEW d \in held
        PROVE  CopyCommand(r.buf[d], U.vec[w].buf[d]) \in Command
    <3>1. /\ r.buf[d] \in BufferId \cup {NoBuffer}
          /\ U.vec[w].buf[d] \in BufferId \cup {NoBuffer}
      BY <1>1, <2>1 DEF VectorType
    <3> QED BY <3>1 DEF CopyCommand, Command
  <2> QED BY <2>2
<1> HIDE DEF cmds
<1>14. W \in Machine /\ W.vec = U.vec
  BY <1>7, <1>13, EnqueueEachType
<1>15. Good(W)
  BY <1>12, <1>14 DEF Good
<1> QED BY <1>4, <1>15

-----------------------------------------------------------------------------
Obedient == Broken \cap {"hostOnly", "bare", "length"} = {}

(***************************************************************************)
(* What a waiting call relies on when it goes on: the download it waits    *)
(* for has marked the host copy current, and the output of a Map can still *)
(* be given buffers.                                                       *)
(***************************************************************************)
PcOK ==
  /\ pc \in Continuation \cup {Idle}
  /\ pc.op \in {"write", "setDistribution"} => vec[pc.v].hostUp
  /\ pc.op = "map" =>
       /\ pc.v # pc.w
       /\ IsValid(vec[pc.w].dist)
       /\ vec[pc.v].hostUp
       /\ Room(Now, pc.v)

\* The inductive invariant.
IInv == Good(Now) /\ PcOK

-----------------------------------------------------------------------------
LEMMA NextRoom ==
  ASSUME NEW S, Now' = S, NEW v \in Vector, Room(S, v)
  PROVE  Room(Now, v)'
<1>1. Room(Now, v)' <=> Room(S, v)
  BY DEF Room, FreeSlots, Live, Queued
<1> QED BY <1>1

\* The machine after a step is the one its call computed, buffers released.
LEMMA CommitGood ==
  ASSUME NEW S, Good(S), Commit(S)
  PROVE  /\ Good(Now') /\ vec' = S.vec
         /\ \A v \in Vector : Room(S, v) => Room(Now, v)'
<1> DEFINE T == Release(S)
<1>1. S \in Machine /\ T \in Machine /\ T.vec = S.vec /\ T.queue = S.queue
  BY ReleaseType DEF Good
<1>2. vec' = T.vec /\ mem' = T.mem /\ queue' = T.queue
  BY DEF Commit
<1>3. T = [vec |-> T.vec, mem |-> T.mem, queue |-> T.queue]
  BY <1>1 DEF Machine
<1>4. Now' = T
  BY <1>2, <1>3 DEF Now
<1>5. Good(T)
  BY <1>1 DEF Good
<1>6. ASSUME NEW v \in Vector, Room(S, v)
      PROVE  Room(Now, v)'
  <2>1. \A d \in Device : Live(T, d) = Live(S, d)
    BY <1>1 DEF Live, Queued
  <2>2. \A d \in Device : FreeSlots(T, v, d) = FreeSlots(S, v, d)
    BY <2>1 DEF FreeSlots
  <2>3. Room(T, v)
    BY <1>6, <2>2 DEF Room
  <2> QED BY <1>4, <2>3, NextRoom
<1>7. Good(Now')
  BY <1>4, <1>5
<1> QED BY <1>1, <1>2, <1>6, <1>7

\* A call that returns at once.
LEMMA Returns ==
  ASSUME NEW S, Good(S), Commit(S), pc' = Idle
  PROVE  IInv'
<1>1. Good(Now')
  BY CommitGood
<1>2. Good(Now)'
  BY <1>1 DEF Good, Now, Machine, Sound, Fitted
<1>3. PcOK'
  BY DEF PcOK, Idle
<1> QED BY <1>2, <1>3 DEF IInv

-----------------------------------------------------------------------------
\* The Map skeleton, part by part.
LEMMA PrepareInputGood ==
  ASSUME NEW S, Good(S), NEW in \in Vector, S.vec[in].hostUp \/ S.vec[in].devUp,
         Room(S, in)
  PROVE  LET P == PrepareInput(S, in)
         IN  /\ Good(P) /\ NewUse(S, P, {in})
             /\ \A w \in Vector \ {in} : P.vec[w] = S.vec[w]
             /\ P.vec[in].size = S.vec[in].size
             /\ P.vec[in].dist = IF IsValid(S.vec[in].dist) THEN S.vec[in].dist
                                 ELSE Block
             /\ \A d \in P.vec[in].dist.devices : P.vec[in].buf[d] # NoBuffer
<1> DEFINE dist == IF IsValid(S.vec[in].dist) THEN S.vec[in].dist ELSE Block
           T == IF IsValid(S.vec[in].dist) THEN S ELSE AssignDistribution(S, in, Block)
           U == CreateDeviceBuffers(T, in)
           P == StartUpload(U, in)
<1>1. /\ Good(T) /\ NewUse(S, T, {}) /\ \A w \in Vector \ {in} : T.vec[w] = S.vec[w]
      /\ T.vec[in].dist = dist
      /\ T.vec[in].size = S.vec[in].size
      /\ T.vec[in].hostUp \/ T.vec[in].devUp
  <2>1. CASE IsValid(S.vec[in].dist)
    <3>1. T = S /\ dist = S.vec[in].dist
      BY <2>1
    <3> QED BY <3>1 DEF NewUse
  <2>2. CASE ~ IsValid(S.vec[in].dist)
    <3>1. T = AssignDistribution(S, in, Block) /\ dist = Block
      BY <2>2
    <3>2. S.vec[in].dist = Invalid
      BY <2>2, GoodRecord, DistributionDevices
    <3>3. ~ NeedsExchange(S.vec[in].dist, Block) /\ Block \in ValidDistribution
      BY <3>2 DEF NeedsExchange, Invalid, ValidDistribution
    <3>4. S.vec[in].hostUp
      BY <3>2, GoodRecord DEF Sound, IsValid, Invalid
    <3> HIDE DEF T, dist
    <3> QED BY <3>1, <3>3, <3>4, AssignDistributionGood
  <2> QED BY <2>1, <2>2
<1>2. Room(T, in)
  BY <1>1, RoomStays
<1> HIDE DEF T, dist
<1>3. /\ Good(U) /\ NewUse(T, U, {in})
      /\ \A w \in Vector \ {in} : U.vec[w] = T.vec[w]
  BY <1>1, <1>2, CreateDeviceBuffersGood
<1>4. PICK b \in [Device -> BufferId \cup {NoBuffer}] :
        /\ U.vec[in] = [T.vec[in] EXCEPT !.buf = b]
        /\ \A d \in Device : b[d] # NoBuffer <=> d \in T.vec[in].dist.devices
  BY <1>1, <1>2, CreateDeviceBuffersGood
<1>5. T.vec[in] \in VectorType
  BY <1>1, GoodRecord
<1>6. /\ U.vec[in].dist = dist /\ U.vec[in].size = S.vec[in].size
      /\ U.vec[in].hostUp \/ U.vec[in].devUp
      /\ U.vec[in].buf = b
  BY <1>1, <1>4, <1>5 DEF VectorType
<1> HIDE DEF U
<1>7. Good(P) /\ P.vec = [U.vec EXCEPT ![in].devUp = TRUE] /\ NewUse(U, P, {})
  BY <1>3, <1>6, StartUploadGood
<1>8. U.vec \in [Vector -> VectorType]
  BY <1>3, MachineParts DEF Good
<1> HIDE DEF P
<1>9. /\ \A w \in Vector \ {in} : P.vec[w] = S.vec[w]
      /\ P.vec[in].size = S.vec[in].size /\ P.vec[in].dist = dist
      /\ P.vec[in].buf = b
  BY <1>1, <1>3, <1>6, <1>7, <1>8 DEF VectorType
<1>10. \A d \in P.vec[in].dist.devices : P.vec[in].buf[d] # NoBuffer
  <2>1. dist \in DistributionType
    BY <1>1, <1>5 DEF VectorType
  <2>2. dist.devices \subseteq Device
    BY <2>1, DistributionDevices
  <2> QED BY <1>1, <1>4, <1>9, <2>2
<1>11. NewUse(S, P, {in})
  <2>1. NewUse(S, U, {} \cup {in})
    BY <1>1, <1>3, NewUseTransitive
  <2>2. NewUse(S, P, ({} \cup {in}) \cup {})
    BY <1>7, <2>1, NewUseTransitive
  <2>3. ({} \cup {in}) \cup {} = {in}
    OBVIOUS
  <2> QED BY <2>2, <2>3
<1>12. P = PrepareInput(S, in)
  BY DEF PrepareInput, P, U, T
<1>13. dist = IF IsValid(S.vec[in].dist) THEN S.vec[in].dist ELSE Block
  BY DEF dist
<1> QED BY <1>7, <1>9, <1>10, <1>11, <1>12, <1>13

LEMMA EnlargeOutputGood ==
  ASSUME NEW S, Good(S), NEW out \in Vector, NEW in \in Vector,
         S.vec[out].hostUp \/ S.vec[out].devUp, S.vec[in].size # 0
  PROVE  LET E == EnlargeOutput(S, out, in)
         IN  /\ Good(E) /\ NewUse(S, E, {})
             /\ out = in => E = S
             /\ \A w \in Vector \ {out} : E.vec[w] = S.vec[w]
             /\ E.vec[out].dist = S.vec[out].dist
             /\ E.vec[out].hostUp \/ E.vec[out].devUp
<1>1. S.vec[in].size \in 1 .. MaxSize /\ S.vec[out].size \in Nat
  <2>1. S.vec[in].size \in 0 .. MaxSize /\ S.vec[out].size \in 0 .. MaxSize
    BY GoodRecord
  <2> QED BY <2>1, MaxSizeAssumption
<1>2. Zero \in Elem
  BY ZeroAssumption DEF Elem
<1> DEFINE E == EnlargeOutput(S, out, in)
<1>3. ASSUME S.vec[out].size < S.vec[in].size
      PROVE  /\ Good(E) /\ NewUse(S, E, {})
             /\ out = in => E = S
             /\ \A w \in Vector \ {out} : E.vec[w] = S.vec[w]
             /\ E.vec[out].dist = S.vec[out].dist
             /\ E.vec[out].hostUp \/ E.vec[out].devUp
  <2> DEFINE R == Resize(S, out, S.vec[in].size, Zero)
  <2>1. E = R
    BY <1>3 DEF EnlargeOutput
  <2>2. out # in
    BY <1>1, <1>3
  <2>3. /\ Good(R) /\ NewUse(S, R, {})
        /\ \A w \in Vector \ {out} : R.vec[w] = S.vec[w]
        /\ R.vec[out].hostUp = S.vec[out].hostUp
        /\ R.vec[out].dist = S.vec[out].dist /\ R.vec[out].size = S.vec[in].size
    BY <1>1, <1>2, ResizeGood
  <2> HIDE DEF E, R
  <2>4. R.vec[out].hostUp \/ R.vec[out].devUp
    BY <1>1, <2>3, GoodRecord DEF Sound
  <2> QED BY <2>1, <2>2, <2>3, <2>4
<1>4. ASSUME ~ (S.vec[out].size < S.vec[in].size)
      PROVE  E = S
  BY <1>4 DEF EnlargeOutput
<1>5. NewUse(S, S, {})
  BY DEF NewUse
<1> HIDE DEF E
<1>6. /\ Good(E) /\ NewUse(S, E, {})
      /\ out = in => E = S
      /\ \A w \in Vector \ {out} : E.vec[w] = S.vec[w]
      /\ E.vec[out].dist = S.vec[out].dist
      /\ E.vec[out].hostUp \/ E.vec[out].devUp
  BY <1>3, <1>4, <1>5
<1> QED BY <1>6 DEF E

\* The kernels write the buffers of the output, which has one on every device.
LEMMA ExecuteGood ==
  ASSUME NEW S, Good(S), NEW out \in Vector, NEW in \in Vector,
         IsValid(S.vec[out].dist),
         \A d \in S.vec[out].dist.devices : S.vec[out].buf[d] # NoBuffer
  PROVE  Good(Execute(S, out, in))
<1> DEFINE cmds == [d \in S.vec[in].dist.devices |->
                      KernelCommand(S.vec[in].buf[d], S.vec[out].buf[d])]
           T == EnqueueEach(S, cmds)
<1>1. S \in Machine /\ S.vec[in] \in VectorType /\ S.vec[out] \in VectorType
  BY GoodRecord
<1>2. S.vec[in].dist.devices \subseteq Device
  BY <1>1, DistributionDevices DEF VectorType
<1>3. DOMAIN cmds \subseteq Device /\ \A d \in DOMAIN cmds : cmds[d] \in Command
  <2>1. ASSUME NEW d \in Device
        PROVE  KernelCommand(S.vec[in].buf[d], S.vec[out].buf[d]) \in Command
    <3>1. /\ S.vec[in].buf[d] \in BufferId \cup {NoBuffer}
          /\ S.vec[out].buf[d] \in BufferId \cup {NoBuffer}
      BY <1>1 DEF VectorType
    <3> QED BY <3>1 DEF KernelCommand, Command
  <2> QED BY <1>2, <2>1
<1> HIDE DEF cmds
<1>4. T \in Machine /\ T.vec = S.vec
  BY <1>1, <1>3, EnqueueEachType
<1> HIDE DEF T
<1>5. Good(T)
  BY <1>4 DEF Good
<1>6. Good(DataOnDeviceModified(T, out))
  BY <1>4, <1>5, DataOnDeviceModifiedGood
<1> QED BY <1>6 DEF Execute, T, cmds

LEMMA FinishMapGood ==
  ASSUME NEW S, Good(S), NEW out \in Vector, NEW in \in Vector, out # in,
         IsValid(S.vec[in].dist), Room(S, out),
         S.vec[out].hostUp \/ ~ NeedsExchange(S.vec[out].dist, S.vec[in].dist)
  PROVE  Good(Execute(AdoptDistribution(S, out, in), out, in))
<1> DEFINE dist == S.vec[in].dist
           T == AssignDistribution(S, out, dist)
           U == CreateDeviceBuffers(T, out)
<1>1. dist \in ValidDistribution
  <2>1. dist \in DistributionType
    BY GoodRecord
  <2> QED BY <2>1, DistributionDevices DEF DistributionType
<1>2. Good(T) /\ NewUse(S, T, {}) /\ T.vec[out].dist = dist
  <2> HIDE DEF dist
  <2>1. S.vec[out].hostUp \/ ~ NeedsExchange(S.vec[out].dist, dist)
    BY DEF dist
  <2> QED BY <1>1, <2>1, AssignDistributionGood
<1> HIDE DEF T
<1>3. Room(T, out)
  BY <1>2, RoomStays
<1>4. Good(U)
  BY <1>2, <1>3, CreateDeviceBuffersGood
<1>5. PICK b \in [Device -> BufferId \cup {NoBuffer}] :
        /\ U.vec[out] = [T.vec[out] EXCEPT !.buf = b]
        /\ \A d \in Device : b[d] # NoBuffer <=> d \in T.vec[out].dist.devices
  BY <1>2, <1>3, CreateDeviceBuffersGood
<1>6. T.vec[out] \in VectorType
  BY <1>2, GoodRecord
<1>7. U.vec[out].dist = dist /\ U.vec[out].buf = b
  BY <1>2, <1>5, <1>6 DEF VectorType
<1>8. IsValid(U.vec[out].dist)
  BY <1>7
<1>9. \A d \in U.vec[out].dist.devices : U.vec[out].buf[d] # NoBuffer
  <2>1. dist.devices \subseteq Device
    BY <1>1, DistributionDevices DEF DistributionType
  <2> QED BY <1>2, <1>5, <1>7, <2>1
<1>10. U = AdoptDistribution(S, out, in)
  BY DEF AdoptDistribution, U, T
<1> HIDE DEF U
<1>11. Good(Execute(U, out, in))
  BY <1>4, <1>8, <1>9, ExecuteGood
<1> QED BY <1>10, <1>11

-----------------------------------------------------------------------------
\* A call that waits for a download of v first, and then does k.
LEMMA Waits ==
  ASSUME NEW S, Good(S), NEW v \in Vector, MustDownload(S, v),
         Commit(StartDownload(S, v))
  PROVE  /\ Good(Now)' /\ (vec[v].hostUp)'
         /\ \A w \in Vector \ {v} : vec'[w] = S.vec[w]
         /\ \A w \in Vector : Room(S, w) => Room(Now, w)'
<1> DEFINE T == StartDownload(S, v)
<1>1. /\ Good(T) /\ NewUse(S, T, {}) /\ T.vec[v].hostUp
      /\ \A w \in Vector \ {v} : T.vec[w] = S.vec[w]
  BY StartDownloadGood
<1> HIDE DEF T
<1>2. /\ Good(Now') /\ vec' = T.vec
      /\ \A w \in Vector : Room(T, w) => Room(Now, w)'
  BY <1>1, CommitGood DEF T
<1>3. \A w \in Vector : Room(S, w) => Room(T, w)
  BY <1>1, RoomStays
<1>4. Good(Now)'
  BY <1>2 DEF Good, Now, Machine, Sound, Fitted
<1> QED BY <1>1, <1>2, <1>3, <1>4

\* What the guards of the calls say, in the terms of the lemmas.
LEMMA Guards ==
  ASSUME IInv
  PROVE  /\ Good(Now)
         /\ \A v \in Vector : Now.vec[v] = vec[v] /\ vec[v].size \in 0 .. MaxSize
         /\ \A v \in Vector : HostOnly(v) => OnHostAlone(vec[v])
         /\ \A call : Ready(call) => \A v \in Vector : Room(Now, v)
<1>1. Good(Now) /\ Now.vec = vec
  BY DEF IInv, Now
<1>2. \A v \in Vector : HostOnly(v) => OnHostAlone(vec[v])
  BY <1>1 DEF HostOnly, HasBuffers, OnHostAlone
<1>3. \A call : Ready(call) => \A v \in Vector : Room(Now, v)
  BY DEF Ready, Room
<1>4. \A v \in Vector : vec[v].size \in 0 .. MaxSize
  BY <1>1, GoodRecord
<1> QED BY <1>1, <1>2, <1>3, <1>4

LEMMA InitIInv == Init => IInv
<1> SUFFICES ASSUME Init
             PROVE  IInv
  OBVIOUS
<1>1. Default \in VectorType /\ Sound(Default)
  BY ConstructedSound
<1>2. vec \in [Vector -> VectorType] /\ \A v \in Vector : Sound(vec[v])
  BY <1>1 DEF Init
<1>3. mem \in [Device -> [BufferId -> Seq(Elem)]]
  BY DEF Init
<1>4. queue \in [Device -> Seq(Command)]
  BY DEF Init
<1>5. Good(Now)
  BY <1>2, <1>3, <1>4 DEF Good, Now, Machine
<1>6. PcOK
  BY DEF PcOK, Init, Idle
<1> QED BY <1>5, <1>6 DEF IInv

-----------------------------------------------------------------------------
\* One lemma per action.
LEMMA ConstructionsGood ==
  ASSUME IInv, NEW v \in Vector
  PROVE  /\ DefaultConstruct(v) => IInv'
         /\ \A s \in Ranges, dist \in Dists : ConstructVector(v, s, dist) => IInv'
<1>1. Good(Now)
  BY Guards
<1>2. ASSUME DefaultConstruct(v)
      PROVE  IInv'
  <2>1. Good(Replace(Now, v, Default))
    BY <1>1, ConstructedSound, ReplaceGood
  <2>2. Commit(Replace(Now, v, Default)) /\ pc' = Idle
    BY <1>2 DEF DefaultConstruct, Ready
  <2> QED BY <2>1, <2>2, Returns
<1>3. ASSUME NEW s \in Ranges, NEW dist \in Dists, ConstructVector(v, s, dist)
      PROVE  IInv'
  <2>1. s \in Seq(Value) /\ Len(s) \in 1 .. MaxSize /\ dist \in DistributionType
    BY BoundAssumption
  <2>2. Good(Replace(Now, v, Constructed(s, dist)))
    BY <1>1, <2>1, ConstructedSound, ReplaceGood
  <2>3. Commit(Replace(Now, v, Constructed(s, dist))) /\ pc' = Idle
    BY <1>3 DEF ConstructVector, Ready
  <2> QED BY <2>2, <2>3, Returns
<1> QED BY <1>2, <1>3

LEMMA CopyMoveSwapGood ==
  ASSUME Obedient, IInv, NEW v \in Vector, NEW w \in Vector
  PROVE  CopyVector(v, w) \/ MoveVector(v, w) \/ SwapVectors(v, w) => IInv'
<1>1. Good(Now) /\ Now.vec[v] = vec[v] /\ Now.vec[w] = vec[w]
  BY Guards
<1>2. ASSUME CopyVector(v, w)
      PROVE  IInv'
  <2>1. v # w /\ Room(Now, w) /\ Commit(CopyConstruct(Now, v, w)) /\ pc' = Idle
    BY <1>2, Guards DEF CopyVector, Ready
  <2>2. Good(CopyConstruct(Now, v, w))
    BY <1>1, <2>1, CopyConstructGood
  <2> QED BY <2>1, <2>2, Returns
<1>3. ASSUME MoveVector(v, w)
      PROVE  IInv'
  <2>1. v # w /\ Commit(Move(Now, v, w)) /\ pc' = Idle
    BY <1>3 DEF MoveVector, Ready
  <2>2. Good(Move(Now, v, w))
    BY <1>1, <2>1, MoveGood
  <2> QED BY <2>1, <2>2, Returns
<1>4. ASSUME SwapVectors(v, w)
      PROVE  IInv'
  <2>1. /\ v # w /\ Commit(Swap(Now, v, w)) /\ pc' = Idle
        /\ HostOnly(v) /\ HostOnly(w)
    BY <1>4 DEF SwapVectors, Ready, Keeps, Obedient
  <2>2. OnHostAlone(Now.vec[v]) /\ OnHostAlone(Now.vec[w])
    BY <1>1, <2>1, Guards
  <2>3. Good(Swap(Now, v, w))
    BY <1>1, <2>1, <2>2, SwapGood
  <2> QED BY <2>1, <2>3, Returns
<1> QED BY <1>2, <1>3, <1>4

LEMMA ResizeVectorGood ==
  ASSUME IInv, NEW v \in Vector, NEW n \in Sizes, NEW x \in Inputs,
         ResizeVector(v, n, x)
  PROVE  IInv'
<1>1. Good(Now) /\ Now.vec[v] = vec[v]
  BY Guards
<1>2. n \in 1 .. MaxSize /\ x \in Elem
  BY BoundAssumption DEF Elem
<1>3. Commit(Resize(Now, v, n, x)) /\ pc' = Idle /\ (vec[v].hostUp \/ vec[v].devUp)
  BY DEF ResizeVector, Ready, Intact
<1>4. Good(Resize(Now, v, n, x))
  BY <1>1, <1>2, <1>3, ResizeGood
<1> QED BY <1>3, <1>4, Returns

\* The members that work on the host buffer of a vector without device copy.
LEMMA HostMembersGood ==
  ASSUME Obedient, IInv, NEW v \in Vector
  PROVE  /\ \A i \in 1 .. MaxSize, x \in Inputs : InsertElement(v, i, x) => IInv'
         /\ \A i \in 1 .. MaxSize : EraseElement(v, i) => IInv'
         /\ \A n \in Sizes, x \in Inputs : AssignAll(v, n, x) => IInv'
         /\ ClearVector(v) => IInv'
<1>1. Good(Now) /\ Now.vec[v] = vec[v]
  BY Guards
<1>2. HostOnly(v) => OnHostAlone(Now.vec[v])
  BY <1>1, Guards
<1>3. Inputs \subseteq Elem /\ Sizes \subseteq 0 .. MaxSize
  BY BoundAssumption, MaxSizeAssumption DEF Elem
<1>4. ASSUME NEW i \in 1 .. MaxSize, NEW x \in Inputs, InsertElement(v, i, x)
      PROVE  IInv'
  <2>1. /\ HostOnly(v) /\ vec[v].size < MaxSize /\ i \in 1 .. Len(vec[v].host) + 1
        /\ Commit(Insert(Now, v, i, x)) /\ pc' = Idle
    BY <1>4 DEF InsertElement, Ready, Keeps, Obedient
  <2>2. Good(Insert(Now, v, i, x))
    BY <1>1, <1>2, <1>3, <2>1, InsertGood
  <2> QED BY <2>1, <2>2, Returns
<1>5. ASSUME NEW i \in 1 .. MaxSize, EraseElement(v, i)
      PROVE  IInv'
  <2>1. /\ HostOnly(v) /\ i \in 1 .. Len(vec[v].host)
        /\ Commit(Erase(Now, v, i)) /\ pc' = Idle
    BY <1>5 DEF EraseElement, Ready, Keeps, Obedient
  <2>2. Good(Erase(Now, v, i))
    BY <1>1, <1>2, <2>1, EraseGood
  <2> QED BY <2>1, <2>2, Returns
<1>6. ASSUME NEW n \in Sizes, NEW x \in Inputs, AssignAll(v, n, x)
      PROVE  IInv'
  <2>1. /\ HostOnly(v) /\ n = vec[v].size
        /\ Commit(Assign(Now, v, n, x)) /\ pc' = Idle
    BY <1>6 DEF AssignAll, Ready, Keeps, Obedient
  <2>2. Good(Assign(Now, v, n, x))
    BY <1>1, <1>2, <1>3, <2>1, AssignGood
  <2> QED BY <2>1, <2>2, Returns
<1>7. ASSUME ClearVector(v)
      PROVE  IInv'
  <2>1. HostOnly(v) /\ Commit(Clear(Now, v)) /\ pc' = Idle
    BY <1>7 DEF ClearVector, Ready, Keeps, Obedient
  <2>2. Good(Clear(Now, v))
    BY <1>1, <1>2, <2>1, ClearGood
  <2> QED BY <2>1, <2>2, Returns
<1> QED BY <1>4, <1>5, <1>6, <1>7

LEMMA BufferCallsGood ==
  ASSUME IInv, NEW v \in Vector
  PROVE  /\ CreateBuffers(v) \/ ForceCreateBuffers(v) => IInv'
         /\ BeginUpload(v) \/ CopyDataToDevices(v) => IInv'
         /\ MarkDeviceModified(v) \/ MarkHostModified(v) => IInv'
<1>1. Good(Now) /\ Now.vec[v] = vec[v]
  BY Guards
<1>2. ASSUME CreateBuffers(v)
      PROVE  IInv'
  <2>1. Room(Now, v) /\ Commit(CreateDeviceBuffers(Now, v)) /\ pc' = Idle
    BY <1>2, Guards DEF CreateBuffers, Ready
  <2>2. Good(CreateDeviceBuffers(Now, v))
    BY <1>1, <2>1, CreateDeviceBuffersGood
  <2> QED BY <2>1, <2>2, Returns
<1>3. ASSUME ForceCreateBuffers(v)
      PROVE  IInv'
  <2>1. Room(Now, v) /\ Commit(ForceCreateDeviceBuffers(Now, v)) /\ pc' = Idle
    BY <1>3, Guards DEF ForceCreateBuffers, Ready
  <2>2. Good(ForceCreateDeviceBuffers(Now, v))
    BY <1>1, <2>1, ForceCreateDeviceBuffersGood
  <2> QED BY <2>1, <2>2, Returns
<1>4. Intact(v) => Good(StartUpload(Now, v))
  BY <1>1, StartUploadGood DEF Intact
<1>5. ASSUME BeginUpload(v)
      PROVE  IInv'
  <2>1. Intact(v) /\ Commit(StartUpload(Now, v)) /\ pc' = Idle
    BY <1>5 DEF BeginUpload, Ready
  <2> QED BY <1>4, <2>1, Returns
<1>6. ASSUME CopyDataToDevices(v)
      PROVE  IInv'
  <2>1. /\ Intact(v) /\ Commit(StartUpload(Now, v))
        /\ pc' = [op |-> "upload", v |-> v]
    BY <1>6 DEF CopyDataToDevices
  <2>2. Good(Now')
    BY <1>4, <2>1, CommitGood
  <2>3. Good(Now)'
    BY <2>2 DEF Good, Now, Machine, Sound, Fitted
  <2>4. PcOK'
    BY <2>1 DEF PcOK, Continuation
  <2> QED BY <2>3, <2>4 DEF IInv
<1>7. ASSUME MarkDeviceModified(v)
      PROVE  IInv'
  <2>1. HasBuffers(Now, v) /\ Commit(DataOnDeviceModified(Now, v)) /\ pc' = Idle
    BY <1>7 DEF MarkDeviceModified, Ready
  <2>2. vec[v].dist \in DistributionType /\ Fitted(vec[v])
    BY <1>1, GoodRecord DEF Sound
  <2>3. \A d \in Device : vec[v].buf[d] # NoBuffer <=> d \in vec[v].dist.devices
    BY <1>1, <2>1, <2>2 DEF Fitted, HasBuffers
  <2>4. vec[v].dist.devices # {} /\ vec[v].dist.devices \subseteq Device
    BY <1>1, <2>1, <2>2, <2>3, DistributionDevices DEF HasBuffers
  <2>5. IsValid(vec[v].dist)
    BY <2>2, <2>4, DistributionDevices
  <2>6. Good(DataOnDeviceModified(Now, v))
    BY <1>1, <2>3, <2>4, <2>5, DataOnDeviceModifiedGood
  <2> QED BY <2>1, <2>6, Returns
<1>8. ASSUME MarkHostModified(v)
      PROVE  IInv'
  <2>1. vec[v].hostUp /\ Commit(DataOnHostModified(Now, v)) /\ pc' = Idle
    BY <1>8 DEF MarkHostModified, Ready
  <2>2. Good(DataOnHostModified(Now, v))
    BY <1>1, <2>1, DataOnHostModifiedGood
  <2> QED BY <2>1, <2>2, Returns
<1> QED BY <1>2, <1>3, <1>5, <1>6, <1>7, <1>8

\* The second halves of the calls that may wait.
LEMMA FinishGood ==
  ASSUME NEW S, Good(S), NEW v \in Vector
  PROVE  /\ Good(Finish(S, [op |-> "access", v |-> v]))
         /\ Good(Finish(S, [op |-> "upload", v |-> v]))
         /\ \A i \in Nat, x \in Value : S.vec[v].hostUp =>
              Good(Finish(S, [op |-> "write", v |-> v, i |-> i, x |-> x]))
         /\ \A dist \in ValidDistribution :
              S.vec[v].hostUp \/ ~ NeedsExchange(S.vec[v].dist, dist) =>
              Good(Finish(S, [op |-> "setDistribution", v |-> v, dist |-> dist]))
<1>1. ASSUME NEW i \in Nat, NEW x \in Value, S.vec[v].hostUp
      PROVE  Good(Finish(S, [op |-> "write", v |-> v, i |-> i, x |-> x]))
  <2> DEFINE T == StoreElement(S, v, i, x)
  <2>1. Good(T) /\ T.vec[v].hostUp
    BY <1>1, StoreElementGood DEF Elem
  <2> HIDE DEF T
  <2>2. Good(DataOnHostModified(T, v))
    BY <2>1, DataOnHostModifiedGood
  <2> QED BY <2>2 DEF Finish, T
<1>2. ASSUME NEW dist \in ValidDistribution,
             S.vec[v].hostUp \/ ~ NeedsExchange(S.vec[v].dist, dist)
      PROVE  Good(Finish(S, [op |-> "setDistribution", v |-> v, dist |-> dist]))
  <2>1. Good(AssignDistribution(S, v, dist))
    BY <1>2, AssignDistributionGood
  <2> QED BY <2>1 DEF Finish
<1>3. /\ Good(Finish(S, [op |-> "access", v |-> v]))
      /\ Good(Finish(S, [op |-> "upload", v |-> v]))
  BY DEF Finish
<1> QED BY <1>1, <1>2, <1>3

LEMMA WaitingCallsGood ==
  ASSUME IInv, NEW v \in Vector
  PROVE  /\ Access(v) => IInv'
         /\ \A i \in 1 .. MaxSize, x \in Inputs : WriteElement(v, i, x) => IInv'
         /\ \A dist \in Dists \ {Invalid} : SetDistribution(v, dist) => IInv'
         /\ BeginDownload(v) => IInv'
<1>1. Good(Now) /\ Now.vec[v] = vec[v]
  BY Guards
<1>2. ASSUME MustDownload(Now, v), Commit(StartDownload(Now, v)),
             pc' \in Continuation \cup {Idle}, pc'.op # "idle" => pc'.v = v, pc'.op # "map"
      PROVE  IInv'
  <2>1. Good(Now)' /\ (vec[v].hostUp)'
    BY <1>1, <1>2, Waits
  <2>2. PcOK'
    BY <1>2, <2>1 DEF PcOK
  <2> QED BY <2>1, <2>2 DEF IInv
<1>3. Intact(v) /\ ~ MustDownload(Now, v) => vec[v].hostUp
  BY <1>1 DEF Intact, MustDownload
<1>4. ASSUME Access(v)
      PROVE  IInv'
  <2> DEFINE k == [op |-> "access", v |-> v]
  <2>1. k \in Continuation
    BY DEF Continuation
  <2>2. CASE MustDownload(Now, v) /\ Commit(StartDownload(Now, v)) /\ pc' = k
    BY <1>2, <2>1, <2>2
  <2>3. CASE Commit(Finish(Now, k)) /\ pc' = Idle
    BY <1>1, <2>3, FinishGood, Returns
  <2> QED BY <1>4, <2>2, <2>3 DEF Access, After
<1>5. ASSUME NEW i \in 1 .. MaxSize, NEW x \in Inputs, WriteElement(v, i, x)
      PROVE  IInv'
  <2> DEFINE k == [op |-> "write", v |-> v, i |-> i, x |-> x]
  <2>1. i \in Nat /\ x \in Value
    BY BoundAssumption, MaxSizeAssumption
  <2>2. k \in Continuation
    BY <2>1 DEF Continuation
  <2>3. CASE MustDownload(Now, v) /\ Commit(StartDownload(Now, v)) /\ pc' = k
    BY <1>2, <2>2, <2>3
  <2>4. CASE ~ MustDownload(Now, v) /\ Commit(Finish(Now, k)) /\ pc' = Idle
    <3>1. Now.vec[v].hostUp
      BY <1>1, <1>3, <1>5, <2>4 DEF WriteElement
    <3>2. Good(Finish(Now, k))
      BY <1>1, <2>1, <3>1, FinishGood
    <3> QED BY <2>4, <3>2, Returns
  <2> QED BY <1>5, <2>3, <2>4 DEF WriteElement, After
<1>6. ASSUME NEW dist \in Dists \ {Invalid}, SetDistribution(v, dist)
      PROVE  IInv'
  <2> DEFINE k == [op |-> "setDistribution", v |-> v, dist |-> dist]
             need == NeedsExchange(vec[v].dist, dist)
  <2>1. dist \in ValidDistribution
    BY BoundAssumption DEF DistributionType
  <2>2. k \in Continuation
    BY <2>1 DEF Continuation
  <2>3. CASE MustDownload(Now, v) /\ Commit(StartDownload(Now, v)) /\ pc' = k
    BY <1>2, <2>2, <2>3
  <2>4. CASE /\ ~ (need /\ MustDownload(Now, v))
             /\ Commit(Finish(Now, k)) /\ pc' = Idle
    <3>1. Now.vec[v].hostUp \/ ~ NeedsExchange(Now.vec[v].dist, dist)
      BY <1>1, <1>3, <1>6, <2>4 DEF SetDistribution
    <3>2. Good(Finish(Now, k))
      BY <1>1, <2>1, <3>1, FinishGood
    <3> QED BY <2>4, <3>2, Returns
  <2> QED BY <1>6, <2>3, <2>4 DEF SetDistribution, After
<1>7. ASSUME BeginDownload(v)
      PROVE  IInv'
  <2>1. /\ MustDownload(Now, v) /\ Commit(StartDownload(Now, v))
        /\ pc' = Idle \/ pc' = [op |-> "access", v |-> v]
    BY <1>7 DEF BeginDownload
  <2>2. pc' \in Continuation \cup {Idle} /\ pc'.op # "map"
    BY <2>1 DEF Continuation, Idle
  <2>3. pc'.op # "idle" => pc'.v = v
    BY <2>1 DEF Idle
  <2> QED BY <1>2, <2>1, <2>2, <2>3
<1> QED BY <1>4, <1>5, <1>6, <1>7

LEMMA MapCallGood ==
  ASSUME IInv, NEW out \in Vector, NEW in \in Vector, MapCall(out, in)
  PROVE  IInv'
<1> DEFINE P == PrepareInput(Now, in)
           E == EnlargeOutput(P, out, in)
           dist == IF IsValid(vec[in].dist) THEN vec[in].dist ELSE Block
           exchange == out # in /\ NeedsExchange(vec[out].dist, dist)
           k == [op |-> "map", v |-> out, w |-> in]
<1>1. Good(Now) /\ Now.vec[in] = vec[in] /\ Now.vec[out] = vec[out]
  BY Guards
<1>2. /\ Room(Now, in) /\ Room(Now, out)
      /\ vec[in].hostUp \/ vec[in].devUp
      /\ vec[out].hostUp \/ vec[out].devUp
      /\ vec[in].size # 0
  BY Guards DEF MapCall, Intact
<1>3. After(E, exchange, k)
  BY DEF MapCall
<1>4. /\ Good(P) /\ NewUse(Now, P, {in})
      /\ \A w \in Vector \ {in} : P.vec[w] = vec[w]
      /\ P.vec[in].size = vec[in].size
      /\ P.vec[in].dist = dist
      /\ \A d \in P.vec[in].dist.devices : P.vec[in].buf[d] # NoBuffer
  <2>1. /\ Good(P) /\ NewUse(Now, P, {in})
        /\ \A w \in Vector \ {in} : P.vec[w] = Now.vec[w]
        /\ P.vec[in].size = Now.vec[in].size
        /\ P.vec[in].dist = IF IsValid(Now.vec[in].dist) THEN Now.vec[in].dist
                            ELSE Block
        /\ \A d \in P.vec[in].dist.devices : P.vec[in].buf[d] # NoBuffer
    BY <1>1, <1>2, PrepareInputGood
  <2>2. Now.vec = vec
    BY DEF Now
  <2> HIDE DEF P
  <2> QED BY <2>1, <2>2
<1>5. IsValid(dist)
  BY DEF IsValid, Block
<1>6. P.vec[out].hostUp \/ P.vec[out].devUp
  <2>1. CASE out # in
    BY <1>2, <1>4, <2>1
  <2>2. CASE out = in
    BY <1>2, <1>4, <2>2, GoodRecord DEF Sound
  <2> QED BY <2>1, <2>2
<1>7. out # in => Room(P, out)
  BY <1>2, <1>4, RoomStays
<1> HIDE DEF P, dist
<1>8. /\ Good(E) /\ NewUse(P, E, {})
      /\ out = in => E = P
      /\ \A w \in Vector \ {out} : E.vec[w] = P.vec[w]
      /\ E.vec[out].dist = P.vec[out].dist
      /\ E.vec[out].hostUp \/ E.vec[out].devUp
  BY <1>2, <1>4, <1>6, EnlargeOutputGood
<1> HIDE DEF E
<1>9. out # in => Room(E, out) /\ E.vec[in].dist = dist /\ E.vec[out].dist = vec[out].dist
  BY <1>4, <1>7, <1>8, RoomStays
<1>10. CASE exchange /\ MustDownload(E, out)
  <2>1. Commit(StartDownload(E, out)) /\ pc' = k
    BY <1>3, <1>10 DEF After
  <2>2. /\ Good(Now)' /\ (vec[out].hostUp)'
        /\ \A w \in Vector \ {out} : vec'[w] = E.vec[w]
        /\ Room(Now, out)'
    BY <1>8, <1>9, <1>10, <2>1, Waits
  <2>3. PcOK'
    <3>1. (vec[in].dist)' = dist
      BY <1>9, <1>10, <2>2
    <3>2. k \in Continuation
      BY DEF Continuation
    <3>3. pc'.op = "map" /\ pc'.v = out /\ pc'.w = in
      BY <2>1
    <3> QED BY <1>5, <1>10, <2>1, <2>2, <3>1, <3>2, <3>3 DEF PcOK, IsValid
  <2> QED BY <2>2, <2>3 DEF IInv
<1>11. CASE ~ (exchange /\ MustDownload(E, out))
  <2>1. Commit(Finish(E, k)) /\ pc' = Idle
    BY <1>3, <1>11 DEF After
  <2>2. Finish(E, k) = Execute(AdoptDistribution(E, out, in), out, in)
    BY DEF Finish
  <2>3. CASE out = in
    <3>1. AdoptDistribution(E, out, in) = P
      BY <1>8, <2>3 DEF AdoptDistribution
    <3>2. Good(Execute(P, out, in))
      BY <1>4, <1>5, <2>3, ExecuteGood
    <3> QED BY <2>1, <2>2, <3>1, <3>2, Returns
  <2>4. CASE out # in
    <3>1. E.vec[out].hostUp \/ ~ NeedsExchange(E.vec[out].dist, E.vec[in].dist)
      BY <1>8, <1>9, <1>11, <2>4 DEF MustDownload
    <3>2. Good(Execute(AdoptDistribution(E, out, in), out, in))
      BY <1>5, <1>8, <1>9, <2>4, <3>1, FinishMapGood
    <3> QED BY <2>1, <2>2, <3>2, Returns
  <2> QED BY <2>3, <2>4
<1> QED BY <1>10, <1>11

LEMMA ResumeGood ==
  ASSUME IInv, Resume
  PROVE  IInv'
<1>1. Good(Now) /\ \A v \in Vector : Now.vec[v] = vec[v]
  BY Guards
<1>2. Commit(Finish(Now, pc)) /\ pc' = Idle /\ pc \in Continuation
  BY DEF Resume, IInv, PcOK
<1>3. Good(Finish(Now, pc))
  <2>1. CASE pc \in [op : {"access", "upload"}, v : Vector]
    BY <1>1, <2>1 DEF Finish
  <2>2. CASE pc \in [op : {"write"}, v : Vector, i : Nat, x : Value]
    <3>1. /\ pc.v \in Vector /\ pc.i \in Nat /\ pc.x \in Value
          /\ pc = [op |-> "write", v |-> pc.v, i |-> pc.i, x |-> pc.x]
      BY <2>2
    <3>2. Now.vec[pc.v].hostUp
      BY <1>1, <2>2 DEF IInv, PcOK
    <3> QED BY <1>1, <3>1, <3>2, FinishGood
  <2>3. CASE pc \in [op : {"setDistribution"}, v : Vector, dist : ValidDistribution]
    <3>1. /\ pc.v \in Vector /\ pc.dist \in ValidDistribution
          /\ pc = [op |-> "setDistribution", v |-> pc.v, dist |-> pc.dist]
      BY <2>3
    <3>2. Now.vec[pc.v].hostUp
      BY <1>1, <2>3 DEF IInv, PcOK
    <3> QED BY <1>1, <3>1, <3>2, FinishGood
  <2>4. CASE pc \in [op : {"map"}, v : Vector, w : Vector]
    <3>1. pc.op = "map" /\ pc.v \in Vector /\ pc.w \in Vector
      BY <2>4
    <3>2. /\ pc.v # pc.w /\ Room(Now, pc.v)
          /\ IsValid(Now.vec[pc.w].dist) /\ Now.vec[pc.v].hostUp
      BY <1>1, <3>1 DEF IInv, PcOK
    <3>3. Good(Execute(AdoptDistribution(Now, pc.v, pc.w), pc.v, pc.w))
      BY <1>1, <3>1, <3>2, FinishMapGood
    <3> QED BY <3>1, <3>3 DEF Finish
  <2> QED BY <1>2, <2>1, <2>2, <2>3, <2>4 DEF Continuation
<1> QED BY <1>2, <1>3, Returns

\* A device changes elements of host copies, and nothing else of a vector.
LEMMA DeviceStepGood ==
  ASSUME IInv, NEW d \in Device, DeviceStep(d)
  PROVE  IInv'
<1> DEFINE T == RunHead(Now, d)
<1>1. Good(Now) /\ Now \in Machine /\ Now.vec = vec /\ Now.queue = queue
  BY DEF IInv, Good, Now
<1>2. Commit(T) /\ pc' = pc /\ queue[d] # << >>
  BY DEF DeviceStep
<1>3. T \in Machine /\ NewUse(Now, T, {})
  BY <1>1, <1>2, RunHeadType
<1>4. PICK h \in [Vector -> Seq(Elem)] :
        \A v \in Vector : /\ T.vec[v] = [Now.vec[v] EXCEPT !.host = h[v]]
                          /\ Len(h[v]) = Len(Now.vec[v].host)
  BY <1>1, <1>2, RunHeadType
<1> HIDE DEF T
<1>5. \A v \in Vector : vec[v] \in VectorType /\ Sound(vec[v])
  BY <1>1, GoodRecord
<1>6. \A v \in Vector : /\ T.vec[v].size = vec[v].size /\ T.vec[v].dist = vec[v].dist
                        /\ T.vec[v].hostUp = vec[v].hostUp /\ T.vec[v].devUp = vec[v].devUp
                        /\ T.vec[v].buf = vec[v].buf
                        /\ Len(T.vec[v].host) = Len(vec[v].host)
  BY <1>1, <1>4, <1>5 DEF VectorType
<1>7. Good(T)
  BY <1>3, <1>5, <1>6 DEF Good, Sound, Fitted
<1>8. Good(Now') /\ vec' = T.vec /\ \A v \in Vector : Room(T, v) => Room(Now, v)'
  BY <1>2, <1>7, CommitGood
<1>9. Good(Now)'
  BY <1>8 DEF Good, Now, Machine, Sound, Fitted
<1>10. PcOK'
  <2>1. pc' \in Continuation \cup {Idle}
    BY <1>2 DEF IInv, PcOK
  <2>2. pc.op \in {"write", "setDistribution"} => pc.v \in Vector /\ vec[pc.v].hostUp
    BY DEF IInv, PcOK, Continuation, Idle
  <2>3. (pc.op \in {"write", "setDistribution"} => vec[pc.v].hostUp)'
    BY <1>2, <1>6, <1>8, <2>2
  <2>4. pc.op = "map" =>
          /\ pc.v \in Vector /\ pc.w \in Vector /\ pc.v # pc.w
          /\ IsValid(vec[pc.w].dist) /\ vec[pc.v].hostUp /\ Room(Now, pc.v)
    BY DEF IInv, PcOK, Continuation, Idle
  <2>5. \A v \in Vector : Room(Now, v) => Room(Now, v)'
    BY <1>3, <1>8, RoomStays
  <2>6. ASSUME pc.op = "map"
        PROVE  /\ pc'.v # pc'.w /\ IsValid(vec'[pc'.w].dist)
               /\ vec'[pc'.v].hostUp /\ Room(Now, pc.v)'
    BY <1>2, <1>6, <1>8, <2>4, <2>5, <2>6
  <2> QED BY <1>2, <2>1, <2>3, <2>6 DEF PcOK, IsValid
<1> QED BY <1>9, <1>10 DEF IInv

LEMMA NextIInv ==
  ASSUME Obedient, IInv, [Next]_vars
  PROVE  IInv'
<1>1. ASSUME HostStep
      PROVE  IInv'
  BY <1>1, ConstructionsGood, CopyMoveSwapGood, ResizeVectorGood, HostMembersGood,
     BufferCallsGood, WaitingCallsGood, MapCallGood DEF HostStep
<1>2. ASSUME UNCHANGED vars
      PROVE  IInv'
  <2>1. Now' = Now /\ vec' = vec /\ pc' = pc
    BY <1>2 DEF vars, Now
  <2>2. Good(Now')
    BY <2>1 DEF IInv
  <2>3. Good(Now)'
    BY <2>2 DEF Good, Now, Machine, Sound, Fitted
  <2>4. ASSUME NEW v \in Vector, Room(Now, v)
        PROVE  Room(Now, v)'
    BY <2>1, <2>4, NextRoom
  <2>5. pc.op = "map" => pc.v \in Vector
    BY DEF IInv, PcOK, Continuation, Idle
  <2>6. PcOK'
    BY <2>1, <2>4, <2>5 DEF IInv, PcOK, IsValid
  <2> QED BY <2>3, <2>6 DEF IInv
<1> QED
  BY <1>1, <1>2, ResumeGood, DeviceStepGood DEF Next

-----------------------------------------------------------------------------
(***************************************************************************)
(* The inductive invariant holds.                                          *)
(***************************************************************************)
THEOREM InvariantHolds == ASSUME Obedient PROVE Spec => []IInv
<1>1. Init => IInv
  BY InitIInv
<1>2. IInv /\ [Next]_vars => IInv'
  BY NextIInv
<1> QED BY <1>1, <1>2, PTL DEF Spec

(***************************************************************************)
(* Every variable has its type: sizes are natural numbers, so no call      *)
(* decrements _size below zero, and a waiting call is one of those that    *)
(* may wait.                                                               *)
(***************************************************************************)
THEOREM TypeCorrect == ASSUME Obedient PROVE Spec => []TypeOK
<1>1. IInv => TypeOK
  BY DEF IInv, PcOK, Good, TypeOK
<1> QED BY <1>1, InvariantHolds, PTL

(***************************************************************************)
(* The _size of a vector whose host copy is current is the length of that  *)
(* copy, after any calls, with any transfers in flight.                    *)
(***************************************************************************)
THEOREM SizeCorrect == ASSUME Obedient PROVE Spec => []SizeIsCurrent
<1>1. IInv => SizeIsCurrent
  BY DEF IInv, Good, Sound, Now, SizeIsCurrent
<1> QED BY <1>1, InvariantHolds, PTL

(***************************************************************************)
(* The flags never lose the data: one copy of a vector's elements is       *)
(* current, and a device copy that is alone in being so has its buffers.   *)
(***************************************************************************)
THEOREM DataNeverLost == ASSUME Obedient PROVE Spec => []CurrentCopyExists
<1>1. IInv => CurrentCopyExists
  BY DEF IInv, Good, Sound, Now, CurrentCopyExists
<1> QED BY <1>1, InvariantHolds, PTL

-----------------------------------------------------------------------------
(***************************************************************************)
(* Theorems about the device buffers of vectors: each belongs to one       *)
(* vector, and has the size that the vector's present size and             *)
(* distribution give its device.                                           *)
(*                                                                         *)
(* Clients keep the rules above, and resize a vector only when its host    *)
(* copy is current.                                                        *)
(***************************************************************************)

Careful == Obedient /\ "current" \notin Broken

\* The buffers of v have the sizes of its present distribution and size.
Sized(S, v) ==
  \A d \in Device : S.vec[v].buf[d] # NoBuffer =>
    Len(S.mem[d][S.vec[v].buf[d]]) =
      SizeForDevice(S.vec[v].dist, S.vec[v].size, d)

Owned(S) ==
  \A v, w \in Vector, d \in Device :
    v # w /\ S.vec[v].buf[d] # NoBuffer => S.vec[v].buf[d] # S.vec[w].buf[d]

Tidy(S) == Owned(S) /\ \A v \in Vector : Sized(S, v)

(***************************************************************************)
(* From S to T every vector keeps its buffer on a device, with all that    *)
(* determines its size, or gives it up.                                    *)
(***************************************************************************)
Keeping(S, T) ==
  \A v \in Vector, d \in Device :
    \/ T.vec[v].buf[d] = NoBuffer
    \/ /\ T.vec[v].buf[d] = S.vec[v].buf[d]
       /\ T.vec[v].dist = S.vec[v].dist /\ T.vec[v].size = S.vec[v].size
       /\ Len(T.mem[d][T.vec[v].buf[d]]) = Len(S.mem[d][S.vec[v].buf[d]])

LEMMA KeepingTidy ==
  ASSUME NEW S, NEW T, Tidy(S), Keeping(S, T)
  PROVE  Tidy(T)
<1>1. Owned(T)
  BY DEF Tidy, Owned, Keeping
<1>2. ASSUME NEW v \in Vector
      PROVE  Sized(T, v)
  BY DEF Tidy, Sized, Keeping
<1> QED BY <1>1, <1>2 DEF Tidy

LEMMA KeepingTransitive ==
  ASSUME NEW S, NEW T, NEW U, Keeping(S, T), Keeping(T, U)
  PROVE  Keeping(S, U)
BY DEF Keeping

\* Commands are enqueued, pointers redirected, ...
LEMMA KeepingSame ==
  ASSUME NEW S, NEW T, T.vec = S.vec, T.mem = S.mem
  PROVE  Keeping(S, T)
BY DEF Keeping

\* One record changes, its buffers are dropped or stay what they are.
LEMMA KeepingRecord ==
  ASSUME NEW S \in Machine, NEW T, NEW v \in Vector, NEW r,
         T.mem = S.mem, T.vec = [S.vec EXCEPT ![v] = r],
         \A d \in Device :
           \/ r.buf[d] = NoBuffer
           \/ /\ r.buf[d] = S.vec[v].buf[d]
              /\ r.dist = S.vec[v].dist /\ r.size = S.vec[v].size
  PROVE  Keeping(S, T)
<1>1. S.vec \in [Vector -> VectorType]
  BY MachineParts
<1>2. T.vec[v] = r /\ \A w \in Vector \ {v} : T.vec[w] = S.vec[w]
  BY <1>1
<1> QED BY <1>2 DEF Keeping

-----------------------------------------------------------------------------
\* The memory of buffers in use survives the end of a step.
LEMMA ReleaseKeeping ==
  ASSUME NEW S \in Machine
  PROVE  Keeping(S, Release(S))
<1>1. Release(S).vec = S.vec
  BY ReleaseType
<1>2. ASSUME NEW v \in Vector, NEW d \in Device, S.vec[v].buf[d] # NoBuffer
      PROVE  Release(S).mem[d][S.vec[v].buf[d]] = S.mem[d][S.vec[v].buf[d]]
  <2>1. S.vec[v].buf[d] \in Live(S, d)
    BY InUse
  <2>2. S.vec[v].buf[d] \in BufferId
    <3>1. S.vec[v] \in VectorType
      BY MachineParts
    <3> QED BY <1>2, <3>1 DEF VectorType
  <2>3. Release(S).mem = [e \in Device |-> [b \in BufferId |->
                            IF b \in Live(S, e) THEN S.mem[e][b] ELSE << >>]]
    BY DEF Release, Machine
  <2> QED BY <2>1, <2>2, <2>3
<1> QED BY <1>1, <1>2 DEF Keeping

LEMMA CommitTidy ==
  ASSUME NEW S, Good(S), Tidy(S), Commit(S)
  PROVE  Tidy(Now)'
<1> DEFINE T == Release(S)
<1>1. S \in Machine /\ T \in Machine
  BY ReleaseType DEF Good
<1>2. Tidy(T)
  BY <1>1, ReleaseKeeping, KeepingTidy
<1>3. vec' = T.vec /\ mem' = T.mem
  BY DEF Commit
<1> HIDE DEF T
<1>4. Now'.vec = T.vec /\ Now'.mem = T.mem
  BY <1>3 DEF Now
<1> QED BY <1>2, <1>4 DEF Tidy, Owned, Sized

-----------------------------------------------------------------------------
(***************************************************************************)
(* The members that allocate nothing.                                      *)
(***************************************************************************)
LEMMA StartUploadKeeping ==
  ASSUME NEW S, Good(S), NEW v \in Vector, S.vec[v].hostUp \/ S.vec[v].devUp
  PROVE  Keeping(S, StartUpload(S, v))
<1> DEFINE T == StartUpload(S, v)
           r == [S.vec[v] EXCEPT !.devUp = TRUE]
<1>1. S \in Machine /\ S.vec[v] \in VectorType
  BY GoodRecord
<1>2. T.vec = [S.vec EXCEPT ![v] = r]
  BY StartUploadGood
<1>3. T.mem = S.mem
  BY <1>1 DEF StartUpload, EnqueueEach, Machine
<1>4. r.buf = S.vec[v].buf /\ r.dist = S.vec[v].dist /\ r.size = S.vec[v].size
  BY <1>1 DEF VectorType
<1> HIDE DEF T, r
<1>5. Keeping(S, T)
  BY <1>1, <1>2, <1>3, <1>4, KeepingRecord
<1> QED BY <1>5 DEF T

LEMMA StartDownloadKeeping ==
  ASSUME NEW S, Good(S), NEW v \in Vector, MustDownload(S, v)
  PROVE  Keeping(S, StartDownload(S, v))
<1> DEFINE r == S.vec[v]
           s == Resized(r.host, r.size, Zero)
           H == SetHost(S, v, s)
           up == r.devUp /\ r.dist.kind # "copy"
           cmds == [d \in DownloadDevices(r.dist) |->
                      ReadCommand(r.buf[d], v, HostOffset(S, v, d))]
           E == EnqueueEach(H, cmds)
           T == StartDownload(S, v)
           q == [r EXCEPT !.host = s, !.hostUp = TRUE, !.devUp = up]
<1>1. S \in Machine /\ r \in VectorType
  BY GoodRecord
<1>2. s \in Seq(Elem)
  BY <1>1, ResizedType, ZeroAssumption DEF VectorType, Elem
<1> HIDE DEF s
<1>3. H \in Machine /\ H.vec = [S.vec EXCEPT ![v].host = s] /\ H.mem = S.mem
  BY <1>1, <1>2, SetHostType
<1> HIDE DEF H, cmds
<1>4. E.vec = H.vec /\ E.mem = H.mem /\ E = [H EXCEPT !.queue = E.queue]
  BY <1>3 DEF EnqueueEach, Machine
<1>5. H.vec[v] = [r EXCEPT !.host = s]
  BY <1>1, <1>3, MachineParts
<1>6. T = [E EXCEPT !.vec[v].hostUp = TRUE, !.vec[v].devUp = @ /\ r.dist.kind # "copy"]
  BY DEF StartDownload, MustDownload, E, H, s, cmds
<1> HIDE DEF E
<1>7. T.mem = S.mem
  BY <1>3, <1>4, <1>6 DEF Machine
<1>8. \A w \in Vector \ {v} : T.vec[w] = S.vec[w]
  BY StartDownloadGood
<1>9. T.vec[v].buf = r.buf /\ T.vec[v].dist = r.dist /\ T.vec[v].size = r.size
  BY <1>1, <1>3, <1>4, <1>5, <1>6, MachineParts DEF VectorType, Machine
<1> HIDE DEF T
<1>10. Keeping(S, T)
  BY <1>7, <1>8, <1>9 DEF Keeping
<1> QED BY <1>10 DEF T

\* A change of distribution that needs no exchange leaves no buffers of another
\* distribution behind: the old one is the same, or there were none.
LEMMA AssignDistributionKeeping ==
  ASSUME NEW S, Good(S), NEW v \in Vector, NEW dist \in ValidDistribution
  PROVE  Keeping(S, AssignDistribution(S, v, dist))
<1> DEFINE r == S.vec[v]
           T == AssignDistribution(S, v, dist)
<1>1. S \in Machine /\ r \in VectorType /\ Fitted(r) /\ r.dist \in DistributionType
  BY GoodRecord DEF Sound
<1>2. CASE NeedsExchange(r.dist, dist)
  <2> DEFINE e == [r EXCEPT !.buf = NoBuffers, !.devUp = FALSE, !.dist = dist]
  <2>1. T = [DropBuffers(S, v) EXCEPT !.vec[v].devUp = FALSE, !.vec[v].dist = dist]
    BY <1>2 DEF AssignDistribution
  <2>2. T = [S EXCEPT !.vec[v] = e]
    BY <1>1, <2>1, MachineParts DEF DropBuffers
  <2>3. dist \in DistributionType
    BY DEF DistributionType
  <2>4. e \in VectorType /\ e.buf = NoBuffers
    BY <1>1, <2>3 DEF VectorType, NoBuffers
  <2> HIDE DEF e, T
  <2>5. T.vec = [S.vec EXCEPT ![v] = e] /\ T.mem = S.mem
    BY <1>1, <2>2, <2>4, OneVec
  <2>6. Keeping(S, T)
    BY <1>1, <2>4, <2>5, KeepingRecord DEF NoBuffers
  <2> QED BY <2>6 DEF T
<1>3. CASE ~ NeedsExchange(r.dist, dist)
  <2> DEFINE e == [r EXCEPT !.dist = dist]
  <2>1. T = [S EXCEPT !.vec[v] = e]
    BY <1>1, <1>3, MachineParts DEF AssignDistribution
  <2>2. dist \in DistributionType
    BY DEF DistributionType
  <2>3. e \in VectorType /\ e.buf = r.buf /\ e.dist = dist /\ e.size = r.size
    BY <1>1, <2>2 DEF VectorType
  <2> HIDE DEF e, T
  <2>4. T.vec = [S.vec EXCEPT ![v] = e] /\ T.mem = S.mem
    BY <1>1, <2>1, <2>3, OneVec
  <2>5. CASE r.dist = Invalid
    <3>1. \A d \in Device : r.buf[d] = NoBuffer
      BY <1>1, <2>5 DEF Fitted, Invalid
    <3> QED BY <1>1, <2>3, <2>4, <3>1, KeepingRecord DEF T
  <2>6. CASE r.dist # Invalid
    <3>1. dist = r.dist
      <4>1. CASE r.dist = Block
        BY <1>3, <4>1 DEF NeedsExchange, BlockExchanges, Block
      <4>2. CASE r.dist = Copy
        BY <1>3, <4>2 DEF NeedsExchange, Copy
      <4>3. ASSUME NEW d \in Device, r.dist = Single(d)
            PROVE  dist = r.dist
        BY <1>3, <4>3 DEF NeedsExchange, SingleExchanges, Single
      <4> QED BY <1>1, <2>6, <4>1, <4>2, <4>3 DEF DistributionType, ValidDistribution
    <3> QED BY <1>1, <2>3, <2>4, <3>1, KeepingRecord DEF T
  <2> QED BY <2>5, <2>6
<1> QED BY <1>2, <1>3

\* The flags are set, or an element is stored.
LEMMA MarkKeeping ==
  ASSUME NEW S, Good(S), NEW v \in Vector
  PROVE  /\ Keeping(S, DataOnDeviceModified(S, v))
         /\ Keeping(S, DataOnHostModified(S, v))
         /\ \A i \in Nat, x \in Elem : Keeping(S, StoreElement(S, v, i, x))
<1> DEFINE r == S.vec[v]
<1>1. S \in Machine /\ r \in VectorType
  BY GoodRecord
<1>2. ASSUME NEW e, e.buf = r.buf, e.dist = r.dist, e.size = r.size,
             NEW T, T = [S EXCEPT !.vec[v] = e]
      PROVE  Keeping(S, T)
  <2>1. T.vec = [S.vec EXCEPT ![v] = e] /\ T.mem = S.mem
    BY <1>1, <1>2 DEF Machine
  <2>2. \A d \in Device :
          \/ e.buf[d] = NoBuffer
          \/ /\ e.buf[d] = S.vec[v].buf[d]
             /\ e.dist = S.vec[v].dist /\ e.size = S.vec[v].size
    BY <1>2
  <2> QED BY <1>1, <2>1, <2>2, KeepingRecord
<1>3. Keeping(S, DataOnDeviceModified(S, v))
  <2> DEFINE e == [r EXCEPT !.hostUp = FALSE, !.devUp = TRUE]
  <2>1. e.buf = r.buf /\ e.dist = r.dist /\ e.size = r.size
    BY <1>1 DEF VectorType
  <2>2. DataOnDeviceModified(S, v) = [S EXCEPT !.vec[v] = e]
    BY <1>1, MachineParts DEF DataOnDeviceModified
  <2> HIDE DEF e
  <2> QED BY <1>2, <2>1, <2>2
<1>4. Keeping(S, DataOnHostModified(S, v))
  <2> DEFINE e == [r EXCEPT !.hostUp = TRUE, !.devUp = FALSE]
  <2>1. e.buf = r.buf /\ e.dist = r.dist /\ e.size = r.size
    BY <1>1 DEF VectorType
  <2>2. DataOnHostModified(S, v) = [S EXCEPT !.vec[v] = e]
    BY <1>1, MachineParts DEF DataOnHostModified
  <2> HIDE DEF e
  <2> QED BY <1>2, <2>1, <2>2
<1>5. ASSUME NEW i \in Nat, NEW x \in Elem
      PROVE  Keeping(S, StoreElement(S, v, i, x))
  <2> DEFINE h == [r.host EXCEPT ![i] = x]
             e == [r EXCEPT !.host = h]
  <2>1. StoreElement(S, v, i, x) = [S EXCEPT !.vec[v] = e]
    BY <1>1, MachineParts DEF StoreElement
  <2> HIDE DEF h
  <2>2. e.buf = r.buf /\ e.dist = r.dist /\ e.size = r.size
    BY <1>1 DEF VectorType
  <2> HIDE DEF e
  <2> QED BY <1>2, <2>1, <2>2
<1> QED BY <1>3, <1>4, <1>5

\* A vector that has no buffer afterwards.
LEMMA KeepingBare ==
  ASSUME NEW S \in Machine, NEW T, NEW v \in Vector, T.mem = S.mem,
         \A w \in Vector \ {v} : T.vec[w] = S.vec[w],
         \A d \in Device : T.vec[v].buf[d] = NoBuffer
  PROVE  Keeping(S, T)
BY DEF Keeping

\* Resizing drops the buffers, which have the old sizes.
LEMMA ResizeKeeping ==
  ASSUME NEW S, Good(S), NEW v \in Vector, S.vec[v].hostUp,
         NEW n \in 1 .. MaxSize, NEW x \in Elem
  PROVE  Keeping(S, Resize(S, v, n, x))
<1> DEFINE T == [S EXCEPT !.vec[v].size = n]
           s == Resized(T.vec[v].host, n, x)
           H == SetHost(T, v, s)
           U == Resize(S, v, n, x)
           kept == [S.vec[v] EXCEPT !.size = n]
<1>1. S \in Machine /\ S.vec[v] \in VectorType /\ n \in Nat
  BY GoodRecord, MaxSizeAssumption
<1>2. kept \in VectorType
  BY <1>1 DEF VectorType
<1>3. T = [S EXCEPT !.vec[v] = kept]
  OBVIOUS
<1> HIDE DEF kept, T
<1>4. T \in Machine /\ T.mem = S.mem
  BY <1>1, <1>2, <1>3, OneVec
<1>5. s \in Seq(Elem)
  <2>1. T.vec[v] \in VectorType
    BY <1>4, MachineParts
  <2> QED BY <1>1, <2>1, ResizedType DEF VectorType
<1> HIDE DEF s
<1>6. H \in Machine /\ H.mem = S.mem
  BY <1>4, <1>5, SetHostType
<1>7. U = [DropBuffers(H, v) EXCEPT !.vec[v].devUp = FALSE]
  BY DEF Resize, H, s, T
<1> HIDE DEF H
<1>8. U.mem = S.mem /\ U.vec[v].buf = NoBuffers
  <2>1. H.vec[v] \in VectorType
    BY <1>6, MachineParts
  <2>2. U = [H EXCEPT !.vec[v] = [H.vec[v] EXCEPT !.buf = NoBuffers, !.devUp = FALSE]]
    BY <1>6, <1>7, MachineParts DEF DropBuffers
  <2> QED BY <1>6, <2>1, <2>2, MachineParts DEF VectorType, Machine
<1>9. \A w \in Vector \ {v} : U.vec[w] = S.vec[w]
  BY ResizeGood
<1> HIDE DEF U
<1>10. Keeping(S, U)
  BY <1>1, <1>8, <1>9, KeepingBare DEF NoBuffers
<1> QED BY <1>10 DEF U

\* insert, erase, clear, assign: a new host buffer for a vector without others.
LEMMA HostAloneKeeping ==
  ASSUME NEW S, Good(S), NEW v \in Vector, OnHostAlone(S.vec[v]),
         NEW s \in Seq(Elem), NEW n
  PROVE  /\ Keeping(S, SetHost(S, v, s))
         /\ Keeping(S, [SetHost(S, v, s) EXCEPT !.vec[v].size = n])
<1> DEFINE H == SetHost(S, v, s)
           T == [H EXCEPT !.vec[v].size = n]
<1>1. S \in Machine /\ S.vec[v] \in VectorType
  BY GoodRecord
<1>2. H \in Machine /\ H.vec = [S.vec EXCEPT ![v].host = s] /\ H.mem = S.mem
  BY <1>1, SetHostType
<1> HIDE DEF H
<1>3. H.vec[v].buf = S.vec[v].buf /\ \A w \in Vector \ {v} : H.vec[w] = S.vec[w]
  BY <1>1, <1>2, MachineParts DEF VectorType
<1>4. \A d \in Device : H.vec[v].buf[d] = NoBuffer
  BY <1>3 DEF OnHostAlone
<1>5. Keeping(S, H)
  <2> HIDE DEF T
  <2> QED BY <1>2, <1>3, <1>4 DEF Keeping
<1>6. /\ T.mem = H.mem /\ \A w \in Vector \ {v} : T.vec[w] = H.vec[w]
      /\ T.vec[v].buf = H.vec[v].buf
  BY <1>2, MachineParts DEF VectorType, Machine
<1> HIDE DEF T
<1>7. Keeping(H, T)
  BY <1>4, <1>6 DEF Keeping
<1>8. Keeping(S, T)
  BY <1>5, <1>7, KeepingTransitive
<1> QED BY <1>5, <1>8 DEF T, H

LEMMA HostMembersKeeping ==
  ASSUME NEW S, Good(S), NEW v \in Vector, OnHostAlone(S.vec[v])
  PROVE  /\ \A i \in 1 .. Len(S.vec[v].host) + 1, x \in Elem :
              Keeping(S, Insert(S, v, i, x))
         /\ \A i \in 1 .. Len(S.vec[v].host) : Keeping(S, Erase(S, v, i))
         /\ \A n \in Nat, x \in Elem : Keeping(S, Assign(S, v, n, x))
         /\ Keeping(S, Clear(S, v))
<1>1. S.vec[v].host \in Seq(Elem) /\ << >> \in Seq(Elem)
  BY GoodRecord
<1>2. ASSUME NEW i \in 1 .. Len(S.vec[v].host) + 1, NEW x \in Elem
      PROVE  Keeping(S, Insert(S, v, i, x))
  <2>1. InsertAt(S.vec[v].host, i, x) \in Seq(Elem)
    BY <1>1, InsertAtType
  <2> QED BY <2>1, HostAloneKeeping DEF Insert
<1>3. ASSUME NEW i \in 1 .. Len(S.vec[v].host)
      PROVE  Keeping(S, Erase(S, v, i))
  <2>1. RemoveAt(S.vec[v].host, i) \in Seq(Elem)
    BY <1>1, RemoveAtType
  <2> QED BY <2>1, HostAloneKeeping DEF Erase
<1>4. ASSUME NEW n \in Nat, NEW x \in Elem
      PROVE  Keeping(S, Assign(S, v, n, x))
  BY FilledType, HostAloneKeeping DEF Assign
<1>5. Keeping(S, Clear(S, v))
  BY <1>1, HostAloneKeeping DEF Clear
<1> QED BY <1>2, <1>3, <1>4, <1>5

LEMMA ReplaceKeeping ==
  ASSUME NEW S, Good(S), NEW v \in Vector, NEW r \in VectorType, r.buf = NoBuffers
  PROVE  Keeping(S, Replace(S, v, r))
<1> DEFINE T == Replace(S, v, r)
<1>1. S \in Machine
  BY DEF Good
<1>2. T.vec = [S.vec EXCEPT ![v] = r] /\ T.mem = S.mem
  BY <1>1, ReplaceType
<1> HIDE DEF T
<1>3. Keeping(S, T)
  BY <1>1, <1>2, KeepingRecord DEF NoBuffers
<1> QED BY <1>3 DEF T

LEMMA SwapKeeping ==
  ASSUME NEW S, Good(S), NEW v \in Vector, NEW w \in Vector, v # w,
         OnHostAlone(S.vec[v]), OnHostAlone(S.vec[w])
  PROVE  Keeping(S, Swap(S, v, w))
<1> DEFINE owner == [Identity EXCEPT ![v] = w, ![w] = v]
           R == Redirect(S, owner)
           T == Swap(S, v, w)
<1>1. S \in Machine /\ S.vec \in [Vector -> VectorType]
  BY MachineParts DEF Good
<1>2. owner \in [Vector -> Vector \cup {Nobody}]
  BY DEF Identity
<1> HIDE DEF owner
<1>3. R \in Machine /\ R.vec = S.vec /\ R.mem = S.mem
  BY <1>1, <1>2, RedirectType
<1>4. T = [R EXCEPT !.vec[v].host = S.vec[w].host, !.vec[v].size = S.vec[w].size,
                    !.vec[w].host = S.vec[v].host, !.vec[w].size = S.vec[v].size]
  BY DEF Swap, R, owner
<1> HIDE DEF R
<1>5. T.mem = S.mem
  BY <1>3, <1>4 DEF Machine
<1>6. T.vec = [S.vec EXCEPT ![v].host = S.vec[w].host, ![v].size = S.vec[w].size,
                            ![w].host = S.vec[v].host, ![w].size = S.vec[v].size]
  BY <1>3, <1>4 DEF Machine
<1> HIDE DEF T
<1>7. /\ \A u \in Vector \ {v, w} : T.vec[u] = S.vec[u]
      /\ \A u \in {v, w} : T.vec[u].buf = S.vec[u].buf
  <2>1. \A u \in Vector \ {v, w} : T.vec[u] = S.vec[u]
    BY <1>1, <1>6
  <2>2. /\ T.vec[v] = [S.vec[v] EXCEPT !.host = S.vec[w].host, !.size = S.vec[w].size]
        /\ T.vec[w] = [S.vec[w] EXCEPT !.host = S.vec[v].host, !.size = S.vec[v].size]
    BY <1>1, <1>6
  <2>3. S.vec[v] \in VectorType /\ S.vec[w] \in VectorType
    BY <1>1
  <2>4. T.vec[v].buf = S.vec[v].buf /\ T.vec[w].buf = S.vec[w].buf
    BY <2>2, <2>3 DEF VectorType
  <2> QED BY <2>1, <2>4
<1>8. \A u \in {v, w}, d \in Device : S.vec[u].buf[d] = NoBuffer
  BY DEF OnHostAlone
<1>9. Keeping(S, T)
  BY <1>5, <1>7, <1>8 DEF Keeping
<1> QED BY <1>9 DEF T

\* A command changes the contents of buffers, never their sizes.
LEMMA RunHeadSizes ==
  ASSUME NEW S \in Machine, NEW d \in Device, S.queue[d] # << >>
  PROVE  \A e \in Device, b \in BufferId :
           Len(RunHead(S, d).mem[e][b]) = Len(S.mem[e][b])
<1> DEFINE c == Head(S.queue[d])
           T == [S EXCEPT !.queue[d] = Tail(@)]
           U == RunHead(S, d)
<1>2. c \in Command
  BY MachineParts, HeadTailProperties
<1>3. T \in Machine /\ T.mem = S.mem
  <2> DEFINE q == [S.queue EXCEPT ![d] = Tail(S.queue[d])]
  <2>1. q \in [Device -> Seq(Command)]
    BY MachineParts, HeadTailProperties
  <2>2. T = [S EXCEPT !.queue = q]
    OBVIOUS
  <2> HIDE DEF q, T
  <2> QED BY <2>1, <2>2, QueueUpdate
<1>4. U = CASE c.op = "write"  -> RunWrite(T, d, c)
            [] c.op = "read"   -> RunRead(T, d, c)
            [] c.op = "kernel" -> RunKernel(T, d, c)
            [] c.op = "copy"   -> RunCopy(T, d, c)
  BY DEF RunHead
<1>5. c.op \in {"write", "read", "kernel", "copy"} /\ c.off \in Nat
  BY <1>2 DEF Command
<1> HIDE DEF c, T
<1> DEFINE SameSizes == \A e \in Device, b \in BufferId :
                          Len(U.mem[e][b]) = Len(S.mem[e][b])
<1>6. ASSUME NEW b, NEW x, b \in BufferId => Len(x) = Len(T.mem[d][b]),
             U = [T EXCEPT !.mem[d][b] = x]
      PROVE  SameSizes
  <2>1. T.mem \in [Device -> [BufferId -> Seq(Elem)]]
    BY <1>3, MachineParts
  <2>2. U.mem = [T.mem EXCEPT ![d][b] = x]
    BY <1>3, <1>6 DEF Machine
  <2> HIDE DEF U
  <2> QED BY <1>3, <1>6, <2>1, <2>2
<1>7. ASSUME c.op = "write"
      PROVE  SameSizes
  <2> DEFINE host == Host(T, c.vec)
             buf == Contents(T, d, c.to)
             x == [i \in 1 .. Len(buf) |->
                     IF c.off + i \in 1 .. Len(host) THEN host[c.off + i] ELSE Junk]
  <2>1. U = [T EXCEPT !.mem[d][c.to] = x]
    BY <1>4, <1>7 DEF RunWrite
  <2>2. Len(buf) \in Nat
    BY <1>3, ContentsType, LenProperties
  <2>3. c.to \in BufferId => Len(x) = Len(T.mem[d][c.to])
    <3>1. Len(x) = Len(buf)
      <4> HIDE DEF host, buf
      <4> QED BY <2>2
    <3> QED BY <3>1 DEF Contents
  <2> HIDE DEF x, U
  <2> QED BY <1>6, <2>1, <2>3
<1>8. ASSUME c.op = "read"
      PROVE  SameSizes
  <2>1. U = RunRead(T, d, c)
    BY <1>4, <1>8
  <2>2. U.mem = T.mem
    BY <1>3, <2>1 DEF RunRead, Machine
  <2> HIDE DEF U
  <2> QED BY <1>3, <2>2
<1>9. ASSUME c.op \in {"kernel", "copy"}
      PROVE  SameSizes
  <2> DEFINE in == Contents(T, d, c.from)
             y == IF c.op = "kernel" THEN [i \in 1 .. Len(in) |-> F(in[i])] ELSE in
             x == Overlay(T.mem[d][c.to], y, 0)
  <2>1. U = [T EXCEPT !.mem[d][c.to] = x]
    BY <1>4, <1>9 DEF RunKernel, RunCopy
  <2>2. in \in Seq(Elem)
    BY <1>3, ContentsType
  <2>3. y \in Seq(Elem)
    <3> HIDE DEF in
    <3> QED BY <2>2, TransferTypes
  <2>4. c.to \in BufferId => Len(x) = Len(T.mem[d][c.to])
    <3> HIDE DEF y
    <3>1. T.mem \in [Device -> [BufferId -> Seq(Elem)]]
      BY <1>3, MachineParts
    <3> QED BY <2>3, <3>1, OverlayType
  <2> HIDE DEF x, U
  <2> QED BY <1>6, <2>1, <2>4
<1>10. SameSizes
  BY <1>5, <1>7, <1>8, <1>9
<1> QED BY <1>10

LEMMA RunHeadKeeping ==
  ASSUME NEW S, Good(S), NEW d \in Device, S.queue[d] # << >>
  PROVE  Keeping(S, RunHead(S, d))
<1> DEFINE U == RunHead(S, d)
<1>1. S \in Machine
  BY DEF Good
<1>2. \A e \in Device, b \in BufferId : Len(U.mem[e][b]) = Len(S.mem[e][b])
  BY <1>1, RunHeadSizes
<1>3. \A v \in Vector : S.vec[v] \in VectorType
  BY <1>1, MachineParts
<1>4. \A v \in Vector : /\ U.vec[v].buf = S.vec[v].buf /\ U.vec[v].dist = S.vec[v].dist
                        /\ U.vec[v].size = S.vec[v].size
  <2>1. PICK h \in [Vector -> Seq(Elem)] :
          \A v \in Vector : /\ U.vec[v] = [S.vec[v] EXCEPT !.host = h[v]]
                            /\ Len(h[v]) = Len(S.vec[v].host)
    BY <1>1, RunHeadType
  <2> HIDE DEF U
  <2> QED BY <1>3, <2>1 DEF VectorType
<1>5. \A v \in Vector, e \in Device : S.vec[v].buf[e] \in BufferId \cup {NoBuffer}
  BY <1>3 DEF VectorType
<1> HIDE DEF U
<1>6. Keeping(S, U)
  BY <1>2, <1>4, <1>5 DEF Keeping
<1> QED BY <1>6 DEF U

-----------------------------------------------------------------------------
(***************************************************************************)
(* The members that allocate.                                              *)
(***************************************************************************)
\* A new buffer has the size asked for, and those in use keep their contents.
LEMMA NewBuffersMemory ==
  ASSUME NEW S \in Machine, NEW v \in Vector, Room(S, v),
         NEW len, DOMAIN len \subseteq Device, \A d \in DOMAIN len : len[d] \in Nat
  PROVE  LET U == NewBuffers(S, v, len)
         IN  /\ \A d \in DOMAIN len : Len(U.mem[d][U.vec[v].buf[d]]) = len[d]
             /\ \A d \in Device, x \in BufferId :
                  x \in Live(S, d) => U.mem[d][x] = S.mem[d][x]
<1> DEFINE D == DOMAIN len
           fresh == [d \in D |-> <<v, CHOOSE s \in FreeSlots(S, v, d) : TRUE>>]
           b == [d \in Device |-> IF d \in D THEN fresh[d] ELSE NoBuffer]
           m == [d \in Device |-> IF d \in D
                   THEN [S.mem[d] EXCEPT ![fresh[d]] = Filled(len[d], Junk)]
                   ELSE S.mem[d]]
           U == NewBuffers(S, v, len)
<1>1. ASSUME NEW d \in D
      PROVE  fresh[d] \in BufferId /\ fresh[d] \notin Live(S, d)
  <2>1. PICK s : s = CHOOSE t \in FreeSlots(S, v, d) : TRUE
    OBVIOUS
  <2>2. s \in FreeSlots(S, v, d)
    BY <2>1 DEF Room
  <2>3. fresh[d] = <<v, s>>
    BY <2>1
  <2> QED BY <2>2, <2>3 DEF FreeSlots, BufferId
<1>2. U = [S EXCEPT !.vec[v].buf = b, !.mem = m]
  BY DEF NewBuffers
<1> HIDE DEF fresh, U
<1>3. S.mem \in [Device -> [BufferId -> Seq(Elem)]] /\ S.vec[v] \in VectorType
      /\ S.vec \in [Vector -> VectorType]
  BY MachineParts
<1>4. U.mem = m
  BY <1>2 DEF Machine
<1>5. U.vec[v].buf = b
  <2> HIDE DEF b, m
  <2> QED BY <1>2, <1>3 DEF VectorType, Machine
<1>6. ASSUME NEW d \in D
      PROVE  Len(U.mem[d][U.vec[v].buf[d]]) = len[d]
  <2>1. m[d][b[d]] = Filled(len[d], Junk)
    BY <1>1, <1>3
  <2>2. Len(Filled(len[d], Junk)) = len[d]
    BY FilledType DEF Elem
  <2> QED BY <1>4, <1>5, <2>1, <2>2
<1>7. ASSUME NEW d \in Device, NEW x \in BufferId, x \in Live(S, d)
      PROVE  U.mem[d][x] = S.mem[d][x]
  <2>1. CASE d \in D
    BY <1>1, <1>3, <1>4, <1>7, <2>1
  <2>2. CASE d \notin D
    BY <1>4, <2>2
  <2> QED BY <2>1, <2>2
<1> QED BY <1>6, <1>7 DEF U

\* New buffers of the right sizes for a vector that had none.
LEMMA NewBuffersTidy ==
  ASSUME NEW S \in Machine, Tidy(S), NEW v \in Vector, Room(S, v),
         NEW len, DOMAIN len \subseteq Device, \A d \in DOMAIN len : len[d] \in Nat,
         \A d \in DOMAIN len :
           len[d] = SizeForDevice(S.vec[v].dist, S.vec[v].size, d)
  PROVE  Tidy(NewBuffers(S, v, len))
<1> DEFINE U == NewBuffers(S, v, len)
<1>1. S.vec \in [Vector -> VectorType]
  BY MachineParts
<1>2. PICK b \in [Device -> BufferId \cup {NoBuffer}] :
        /\ U.vec = [S.vec EXCEPT ![v].buf = b]
        /\ \A d \in Device : b[d] # NoBuffer <=> d \in DOMAIN len
        /\ \A d \in DOMAIN len : b[d] \notin Live(S, d)
  BY NewBuffersType
<1>3. /\ \A d \in DOMAIN len : Len(U.mem[d][U.vec[v].buf[d]]) = len[d]
      /\ \A d \in Device, x \in BufferId :
           x \in Live(S, d) => U.mem[d][x] = S.mem[d][x]
  BY NewBuffersMemory
<1> HIDE DEF U
<1>4. /\ U.vec[v].buf = b /\ U.vec[v].dist = S.vec[v].dist
      /\ U.vec[v].size = S.vec[v].size
      /\ \A w \in Vector \ {v} : U.vec[w] = S.vec[w]
  BY <1>1, <1>2 DEF VectorType
<1>5. \A w \in Vector, d \in Device :
        /\ S.vec[w].buf[d] \in Live(S, d)
        /\ S.vec[w].buf[d] \in BufferId \cup {NoBuffer}
  BY <1>1, InUse DEF VectorType
<1>6. Owned(U)
  <2> SUFFICES ASSUME NEW u \in Vector, NEW w \in Vector, NEW d \in Device,
                      u # w, U.vec[u].buf[d] # NoBuffer
               PROVE  U.vec[u].buf[d] # U.vec[w].buf[d]
    BY DEF Owned
  <2>1. CASE u = v
    BY <1>2, <1>4, <1>5, <2>1
  <2>2. CASE w = v
    BY <1>2, <1>4, <1>5, <2>2
  <2>3. CASE u # v /\ w # v
    BY <1>4, <2>3 DEF Tidy, Owned
  <2> QED BY <2>1, <2>2, <2>3
<1>7. ASSUME NEW w \in Vector
      PROVE  Sized(U, w)
  <2>1. CASE w = v
    BY <1>2, <1>3, <1>4, <2>1 DEF Sized
  <2>2. CASE w # v
    <3>1. ASSUME NEW d \in Device, S.vec[w].buf[d] # NoBuffer
          PROVE  U.mem[d][S.vec[w].buf[d]] = S.mem[d][S.vec[w].buf[d]]
      BY <1>3, <1>5, <3>1
    <3>2. U.vec[w] = S.vec[w] /\ Sized(S, w)
      BY <1>4, <2>2 DEF Tidy
    <3> QED BY <3>1, <3>2 DEF Sized
  <2> QED BY <2>1, <2>2
<1> QED BY <1>6, <1>7 DEF Tidy, U

LEMMA ForceCreateTidy ==
  ASSUME NEW S, Good(S), Tidy(S), NEW v \in Vector, Room(S, v)
  PROVE  Tidy(ForceCreateDeviceBuffers(S, v))
<1> DEFINE r == S.vec[v]
           e == [r EXCEPT !.buf = NoBuffers]
           T == DropBuffers(S, v)
           len == [d \in r.dist.devices |-> SizeForDevice(r.dist, r.size, d)]
<1>1. /\ S \in Machine /\ r \in VectorType /\ r.dist \in DistributionType
      /\ r.size \in 0 .. MaxSize
  BY GoodRecord
<1>2. r.dist.devices \subseteq Device
  BY <1>1, DistributionDevices
<1>3. \A d \in r.dist.devices : len[d] \in Nat
  BY <1>1, <1>2, SizeForDeviceType
<1>4. /\ e \in VectorType /\ e.buf = NoBuffers
      /\ e.dist = r.dist /\ e.size = r.size
  BY <1>1 DEF VectorType, NoBuffers
<1>5. T = WithRecord(S, v, e)
  BY DEF DropBuffers, WithRecord
<1> HIDE DEF e, T
<1>6. T \in Machine /\ T.vec = [S.vec EXCEPT ![v] = e] /\ T.mem = S.mem
  BY <1>1, <1>4, <1>5, OneVec DEF WithRecord
<1>7. T.vec[v] = e /\ \A w \in Vector \ {v} : T.vec[w] = S.vec[w]
  BY <1>1, <1>6, MachineParts
<1>8. Tidy(T)
  <2>1. Keeping(S, T)
    BY <1>4, <1>6, <1>7 DEF Keeping, NoBuffers
  <2> QED BY <2>1, KeepingTidy
<1>9. Room(T, v)
  <2>1. NewUse(S, T, {})
    BY <1>1, <1>4, <1>5, RecordChange DEF NoBuffers
  <2> QED BY <2>1, RoomStays
<1>10. DOMAIN len \subseteq Device /\ \A d \in DOMAIN len :
          len[d] \in Nat /\ len[d] = SizeForDevice(T.vec[v].dist, T.vec[v].size, d)
  BY <1>2, <1>3, <1>4, <1>7
<1>11. ForceCreateDeviceBuffers(S, v) = NewBuffers(T, v, len)
  BY DEF ForceCreateDeviceBuffers, T
<1> HIDE DEF len
<1>12. Tidy(NewBuffers(T, v, len))
  BY <1>6, <1>8, <1>9, <1>10, NewBuffersTidy
<1> QED BY <1>11, <1>12

LEMMA CreateTidy ==
  ASSUME NEW S, Good(S), Tidy(S), NEW v \in Vector, Room(S, v)
  PROVE  Tidy(CreateDeviceBuffers(S, v))
BY ForceCreateTidy DEF CreateDeviceBuffers

\* A moved vector takes its buffers along.
LEMMA MoveTidy ==
  ASSUME NEW S, Good(S), Tidy(S), NEW v \in Vector, NEW w \in Vector, v # w
  PROVE  Tidy(Move(S, v, w))
<1> DEFINE owner == [Identity EXCEPT ![v] = w, ![w] = Nobody]
           R == Redirect(S, owner)
           f == [S.vec EXCEPT ![w] = S.vec[v], ![v] = MovedFrom]
           T == Move(S, v, w)
<1>1. S \in Machine /\ S.vec \in [Vector -> VectorType]
  BY MachineParts DEF Good
<1>2. owner \in [Vector -> Vector \cup {Nobody}]
  BY DEF Identity
<1> HIDE DEF owner
<1>3. R \in Machine /\ R.vec = S.vec /\ R.mem = S.mem
  BY <1>1, <1>2, RedirectType
<1> HIDE DEF R
<1>4. T = [R EXCEPT !.vec = f]
  BY <1>1, <1>3 DEF Move, R, owner
<1> HIDE DEF T
<1>5. T.vec = f /\ T.mem = S.mem
  BY <1>3, <1>4 DEF Machine
<1>6. /\ f[w] = S.vec[v] /\ \A d \in Device : f[v].buf[d] = NoBuffer
      /\ \A u \in Vector \ {v, w} : f[u] = S.vec[u]
  BY <1>1 DEF MovedFrom, NoBuffers
<1> HIDE DEF f
<1>7. Owned(T)
  BY <1>5, <1>6 DEF Tidy, Owned
<1>8. ASSUME NEW u \in Vector
      PROVE  Sized(T, u)
  BY <1>5, <1>6 DEF Tidy, Sized
<1> QED BY <1>7, <1>8 DEF Tidy, T

\* A copied vector gets buffers of its own, as large as the originals.
LEMMA CopyConstructTidy ==
  ASSUME NEW S, Good(S), Tidy(S), NEW v \in Vector, NEW w \in Vector, v # w,
         Room(S, w)
  PROVE  Tidy(CopyConstruct(S, v, w))
<1> DEFINE r == S.vec[v]
           e == [r EXCEPT !.buf = NoBuffers]
           T == Replace(S, w, e)
           held == {d \in Device : r.buf[d] # NoBuffer}
           len == [d \in held |-> Len(Contents(S, d, r.buf[d]))]
           U == NewBuffers(T, w, len)
           cmds == [d \in held |-> CopyCommand(r.buf[d], U.vec[w].buf[d])]
           W == EnqueueEach(U, cmds)
<1>1. S \in Machine /\ r \in VectorType /\ S.vec \in [Vector -> VectorType]
  BY GoodRecord, MachineParts
<1>2. /\ e \in VectorType /\ e.buf = NoBuffers
      /\ e.dist = r.dist /\ e.size = r.size
  BY <1>1 DEF VectorType, NoBuffers
<1>3. \A d \in held : len[d] \in Nat /\ len[d] = SizeForDevice(r.dist, r.size, d)
  <2> SUFFICES ASSUME NEW d \in held
               PROVE  len[d] \in Nat /\ len[d] = SizeForDevice(r.dist, r.size, d)
    OBVIOUS
  <2>1. len[d] \in Nat
    BY <1>1, ContentsType, LenProperties
  <2>2. r.buf[d] \in BufferId /\ d \in Device /\ r.buf[d] # NoBuffer
    BY <1>1 DEF VectorType
  <2>3. len[d] = Len(S.mem[d][r.buf[d]])
    BY <2>2 DEF Contents
  <2> HIDE DEF len, held
  <2> QED BY <2>1, <2>2, <2>3 DEF Tidy, Sized
<1>4. W = CopyConstruct(S, v, w)
  BY DEF CopyConstruct
<1> HIDE DEF e
<1>5. /\ T \in Machine /\ T.vec = [S.vec EXCEPT ![w] = e] /\ NewUse(S, T, {})
  BY <1>1, <1>2, ReplaceType
<1>6. Tidy(T)
  BY <1>2, ReplaceKeeping, KeepingTidy
<1> HIDE DEF T
<1>7. Room(T, w)
  BY <1>5, RoomStays
<1>8. T.vec[w].dist = r.dist /\ T.vec[w].size = r.size
  BY <1>1, <1>2, <1>5
<1>9. DOMAIN len \subseteq Device /\ \A d \in DOMAIN len :
          len[d] \in Nat /\ len[d] = SizeForDevice(T.vec[w].dist, T.vec[w].size, d)
  BY <1>3, <1>8
<1> HIDE DEF len
<1>10. Tidy(U) /\ U \in Machine
  BY <1>5, <1>6, <1>7, <1>9, NewBuffersTidy, NewBuffersType
<1> HIDE DEF U, cmds
<1>11. W.vec = U.vec /\ W.mem = U.mem
  BY <1>10 DEF EnqueueEach, Machine
<1>12. Tidy(W)
  BY <1>10, <1>11, KeepingSame, KeepingTidy
<1> QED BY <1>4, <1>12

-----------------------------------------------------------------------------
\* A call all of whose changes keep the buffers they do not give up.
LEMMA CommitKeeping ==
  ASSUME NEW S, NEW T, Tidy(S), Good(T), Keeping(S, T), Commit(T)
  PROVE  Tidy(Now)'
BY KeepingTidy, CommitTidy

\* One lemma per action, or group of actions.
LEMMA ConstructionsTidy ==
  ASSUME IInv, Tidy(Now), NEW v \in Vector
  PROVE  /\ DefaultConstruct(v) => Tidy(Now)'
         /\ \A s \in Ranges, dist \in Dists : ConstructVector(v, s, dist) => Tidy(Now)'
<1>1. Good(Now)
  BY Guards
<1>2. ASSUME NEW r \in VectorType, Sound(r), r.buf = NoBuffers,
             Commit(Replace(Now, v, r))
      PROVE  Tidy(Now)'
  <2>1. Good(Replace(Now, v, r)) /\ Keeping(Now, Replace(Now, v, r))
    BY <1>1, <1>2, ReplaceGood, ReplaceKeeping
  <2> QED BY <1>2, <2>1, CommitKeeping
<1>3. ASSUME DefaultConstruct(v)
      PROVE  Tidy(Now)'
  BY <1>2, <1>3, ConstructedSound DEF DefaultConstruct
<1>4. ASSUME NEW s \in Ranges, NEW dist \in Dists, ConstructVector(v, s, dist)
      PROVE  Tidy(Now)'
  <2>1. s \in Seq(Value) /\ Len(s) \in 1 .. MaxSize /\ dist \in DistributionType
    BY BoundAssumption
  <2>2. Commit(Replace(Now, v, Constructed(s, dist)))
    BY <1>4 DEF ConstructVector
  <2> QED BY <1>2, <2>1, <2>2, ConstructedSound
<1> QED BY <1>3, <1>4

LEMMA CopyMoveSwapTidy ==
  ASSUME Careful, IInv, Tidy(Now), NEW v \in Vector, NEW w \in Vector
  PROVE  CopyVector(v, w) \/ MoveVector(v, w) \/ SwapVectors(v, w) => Tidy(Now)'
<1>1. Good(Now) /\ Now.vec[v] = vec[v] /\ Now.vec[w] = vec[w]
  BY Guards
<1>2. ASSUME CopyVector(v, w)
      PROVE  Tidy(Now)'
  <2>1. v # w /\ Room(Now, w) /\ Commit(CopyConstruct(Now, v, w))
    BY <1>2, Guards DEF CopyVector
  <2>2. Good(CopyConstruct(Now, v, w)) /\ Tidy(CopyConstruct(Now, v, w))
    BY <1>1, <2>1, CopyConstructGood, CopyConstructTidy
  <2> QED BY <2>1, <2>2, CommitTidy
<1>3. ASSUME MoveVector(v, w)
      PROVE  Tidy(Now)'
  <2>1. v # w /\ Commit(Move(Now, v, w))
    BY <1>3 DEF MoveVector
  <2>2. Good(Move(Now, v, w)) /\ Tidy(Move(Now, v, w))
    BY <1>1, <2>1, MoveGood, MoveTidy
  <2> QED BY <2>1, <2>2, CommitTidy
<1>4. ASSUME SwapVectors(v, w)
      PROVE  Tidy(Now)'
  <2>1. v # w /\ Commit(Swap(Now, v, w)) /\ HostOnly(v) /\ HostOnly(w)
    BY <1>4 DEF SwapVectors, Keeps, Careful, Obedient
  <2>2. OnHostAlone(Now.vec[v]) /\ OnHostAlone(Now.vec[w])
    BY <1>1, <2>1, Guards
  <2>3. Good(Swap(Now, v, w)) /\ Keeping(Now, Swap(Now, v, w))
    BY <1>1, <2>1, <2>2, SwapGood, SwapKeeping
  <2> QED BY <2>1, <2>3, CommitKeeping
<1> QED BY <1>2, <1>3, <1>4

LEMMA ResizeVectorTidy ==
  ASSUME Careful, IInv, Tidy(Now), NEW v \in Vector, NEW n \in Sizes, NEW x \in Inputs,
         ResizeVector(v, n, x)
  PROVE  Tidy(Now)'
<1>1. Good(Now) /\ Now.vec[v] = vec[v]
  BY Guards
<1>2. n \in 1 .. MaxSize /\ x \in Elem
  BY BoundAssumption DEF Elem
<1>3. Commit(Resize(Now, v, n, x)) /\ vec[v].hostUp
  BY DEF ResizeVector, Keeps, Careful
<1>4. Good(Resize(Now, v, n, x)) /\ Keeping(Now, Resize(Now, v, n, x))
  BY <1>1, <1>2, <1>3, ResizeGood, ResizeKeeping
<1> QED BY <1>3, <1>4, CommitKeeping

LEMMA HostMembersTidy ==
  ASSUME Careful, IInv, Tidy(Now), NEW v \in Vector
  PROVE  /\ \A i \in 1 .. MaxSize, x \in Inputs : InsertElement(v, i, x) => Tidy(Now)'
         /\ \A i \in 1 .. MaxSize : EraseElement(v, i) => Tidy(Now)'
         /\ \A n \in Sizes, x \in Inputs : AssignAll(v, n, x) => Tidy(Now)'
         /\ ClearVector(v) => Tidy(Now)'
<1>1. Good(Now) /\ Now.vec[v] = vec[v]
  BY Guards
<1>2. HostOnly(v) => OnHostAlone(Now.vec[v])
  BY <1>1, Guards
<1>3. Inputs \subseteq Elem /\ Sizes \subseteq 0 .. MaxSize /\ Sizes \subseteq Nat
  BY BoundAssumption, MaxSizeAssumption DEF Elem
<1>4. ASSUME NEW i \in 1 .. MaxSize, NEW x \in Inputs, InsertElement(v, i, x)
      PROVE  Tidy(Now)'
  <2>1. /\ HostOnly(v) /\ vec[v].size < MaxSize /\ i \in 1 .. Len(vec[v].host) + 1
        /\ Commit(Insert(Now, v, i, x))
    BY <1>4 DEF InsertElement, Keeps, Careful, Obedient
  <2>2. Good(Insert(Now, v, i, x)) /\ Keeping(Now, Insert(Now, v, i, x))
    BY <1>1, <1>2, <1>3, <2>1, InsertGood, HostMembersKeeping
  <2> QED BY <2>1, <2>2, CommitKeeping
<1>5. ASSUME NEW i \in 1 .. MaxSize, EraseElement(v, i)
      PROVE  Tidy(Now)'
  <2>1. HostOnly(v) /\ i \in 1 .. Len(vec[v].host) /\ Commit(Erase(Now, v, i))
    BY <1>5 DEF EraseElement, Keeps, Careful, Obedient
  <2>2. Good(Erase(Now, v, i)) /\ Keeping(Now, Erase(Now, v, i))
    BY <1>1, <1>2, <2>1, EraseGood, HostMembersKeeping
  <2> QED BY <2>1, <2>2, CommitKeeping
<1>6. ASSUME NEW n \in Sizes, NEW x \in Inputs, AssignAll(v, n, x)
      PROVE  Tidy(Now)'
  <2>1. HostOnly(v) /\ n = vec[v].size /\ Commit(Assign(Now, v, n, x))
    BY <1>6 DEF AssignAll, Keeps, Careful, Obedient
  <2>2. Good(Assign(Now, v, n, x)) /\ Keeping(Now, Assign(Now, v, n, x))
    BY <1>1, <1>2, <1>3, <2>1, AssignGood, HostMembersKeeping
  <2> QED BY <2>1, <2>2, CommitKeeping
<1>7. ASSUME ClearVector(v)
      PROVE  Tidy(Now)'
  <2>1. HostOnly(v) /\ Commit(Clear(Now, v))
    BY <1>7 DEF ClearVector, Keeps, Careful, Obedient
  <2>2. Good(Clear(Now, v)) /\ Keeping(Now, Clear(Now, v))
    BY <1>1, <1>2, <2>1, ClearGood, HostMembersKeeping
  <2> QED BY <2>1, <2>2, CommitKeeping
<1> QED BY <1>4, <1>5, <1>6, <1>7

LEMMA BufferCallsTidy ==
  ASSUME IInv, Tidy(Now), NEW v \in Vector
  PROVE  /\ CreateBuffers(v) \/ ForceCreateBuffers(v) => Tidy(Now)'
         /\ BeginUpload(v) \/ CopyDataToDevices(v) => Tidy(Now)'
         /\ MarkDeviceModified(v) \/ MarkHostModified(v) => Tidy(Now)'
<1>1. Good(Now) /\ Now.vec[v] = vec[v]
  BY Guards
<1>2. ASSUME CreateBuffers(v)
      PROVE  Tidy(Now)'
  <2>1. Room(Now, v) /\ Commit(CreateDeviceBuffers(Now, v))
    BY <1>2, Guards DEF CreateBuffers
  <2>2. Good(CreateDeviceBuffers(Now, v)) /\ Tidy(CreateDeviceBuffers(Now, v))
    BY <1>1, <2>1, CreateDeviceBuffersGood, CreateTidy
  <2> QED BY <2>1, <2>2, CommitTidy
<1>3. ASSUME ForceCreateBuffers(v)
      PROVE  Tidy(Now)'
  <2>1. Room(Now, v) /\ Commit(ForceCreateDeviceBuffers(Now, v))
    BY <1>3, Guards DEF ForceCreateBuffers
  <2>2. Good(ForceCreateDeviceBuffers(Now, v)) /\ Tidy(ForceCreateDeviceBuffers(Now, v))
    BY <1>1, <2>1, ForceCreateDeviceBuffersGood, ForceCreateTidy
  <2> QED BY <2>1, <2>2, CommitTidy
<1>4. ASSUME BeginUpload(v) \/ CopyDataToDevices(v)
      PROVE  Tidy(Now)'
  <2>1. Intact(v) /\ Commit(StartUpload(Now, v))
    BY <1>4 DEF BeginUpload, CopyDataToDevices
  <2>2. Good(StartUpload(Now, v)) /\ Keeping(Now, StartUpload(Now, v))
    BY <1>1, <2>1, StartUploadGood, StartUploadKeeping DEF Intact
  <2> QED BY <2>1, <2>2, CommitKeeping
<1>5. ASSUME MarkDeviceModified(v)
      PROVE  Tidy(Now)'
  <2>1. HasBuffers(Now, v) /\ Commit(DataOnDeviceModified(Now, v))
    BY <1>5 DEF MarkDeviceModified
  <2>2. vec[v].dist \in DistributionType /\ Fitted(vec[v])
    BY <1>1, GoodRecord DEF Sound
  <2>3. \A d \in Device : vec[v].buf[d] # NoBuffer <=> d \in vec[v].dist.devices
    BY <1>1, <2>1, <2>2 DEF Fitted, HasBuffers
  <2>4. vec[v].dist.devices # {} /\ vec[v].dist.devices \subseteq Device
    BY <1>1, <2>1, <2>2, <2>3, DistributionDevices DEF HasBuffers
  <2>5. IsValid(vec[v].dist)
    BY <2>2, <2>4, DistributionDevices
  <2>6. Good(DataOnDeviceModified(Now, v)) /\ Keeping(Now, DataOnDeviceModified(Now, v))
    BY <1>1, <2>3, <2>4, <2>5, DataOnDeviceModifiedGood, MarkKeeping
  <2> QED BY <2>1, <2>6, CommitKeeping
<1>6. ASSUME MarkHostModified(v)
      PROVE  Tidy(Now)'
  <2>1. vec[v].hostUp /\ Commit(DataOnHostModified(Now, v))
    BY <1>6 DEF MarkHostModified
  <2>2. Good(DataOnHostModified(Now, v)) /\ Keeping(Now, DataOnHostModified(Now, v))
    BY <1>1, <2>1, DataOnHostModifiedGood, MarkKeeping
  <2> QED BY <2>1, <2>2, CommitKeeping
<1> QED BY <1>2, <1>3, <1>4, <1>5, <1>6

-----------------------------------------------------------------------------
\* The Map skeleton, part by part.
LEMMA PrepareInputTidy ==
  ASSUME NEW S, Good(S), Tidy(S), NEW in \in Vector,
         S.vec[in].hostUp \/ S.vec[in].devUp, Room(S, in)
  PROVE  Tidy(PrepareInput(S, in))
<1> DEFINE T == IF IsValid(S.vec[in].dist) THEN S ELSE AssignDistribution(S, in, Block)
           U == CreateDeviceBuffers(T, in)
<1>1. /\ Good(T) /\ Tidy(T) /\ NewUse(S, T, {})
      /\ T.vec[in].hostUp \/ T.vec[in].devUp
  <2>1. CASE IsValid(S.vec[in].dist)
    BY <2>1 DEF NewUse
  <2>2. CASE ~ IsValid(S.vec[in].dist)
    <3>1. S.vec[in].dist = Invalid /\ S.vec[in].hostUp
      BY <2>2, GoodRecord, DistributionDevices DEF Sound
    <3>2. ~ NeedsExchange(S.vec[in].dist, Block) /\ Block \in ValidDistribution
      BY <3>1 DEF NeedsExchange, Invalid, ValidDistribution
    <3>3. T = AssignDistribution(S, in, Block)
      BY <2>2
    <3> HIDE DEF T
    <3>4. Good(T) /\ NewUse(S, T, {}) /\ T.vec[in].hostUp
      BY <3>1, <3>2, <3>3, AssignDistributionGood
    <3>5. Tidy(T)
      BY <3>2, <3>3, AssignDistributionKeeping, KeepingTidy
    <3> QED BY <3>4, <3>5
  <2> QED BY <2>1, <2>2
<1> HIDE DEF T
<1>2. Room(T, in)
  BY <1>1, RoomStays
<1>3. Good(U) /\ Tidy(U)
  BY <1>1, <1>2, CreateDeviceBuffersGood, CreateTidy
<1>4. U.vec[in].hostUp \/ U.vec[in].devUp
  <2>1. PICK b \in [Device -> BufferId \cup {NoBuffer}] :
          /\ U.vec[in] = [T.vec[in] EXCEPT !.buf = b]
          /\ \A d \in Device : b[d] # NoBuffer <=> d \in T.vec[in].dist.devices
    BY <1>1, <1>2, CreateDeviceBuffersGood
  <2>2. T.vec[in] \in VectorType
    BY <1>1, GoodRecord
  <2> HIDE DEF U
  <2> QED BY <1>1, <2>1, <2>2 DEF VectorType
<1>5. PrepareInput(S, in) = StartUpload(U, in)
  BY DEF PrepareInput, U, T
<1> HIDE DEF U
<1>6. Tidy(StartUpload(U, in))
  BY <1>3, <1>4, StartUploadKeeping, KeepingTidy
<1> QED BY <1>5, <1>6

LEMMA EnlargeOutputTidy ==
  ASSUME NEW S, Good(S), Tidy(S), NEW out \in Vector, NEW in \in Vector,
         S.vec[in].size # 0,
         S.vec[out].size < S.vec[in].size => S.vec[out].hostUp
  PROVE  Tidy(EnlargeOutput(S, out, in))
<1>1. S.vec[in].size \in 1 .. MaxSize
  <2>1. S.vec[in].size \in 0 .. MaxSize
    BY GoodRecord
  <2> QED BY <2>1, MaxSizeAssumption
<1>2. Zero \in Elem
  BY ZeroAssumption DEF Elem
<1>3. ASSUME S.vec[out].size < S.vec[in].size
      PROVE  Tidy(EnlargeOutput(S, out, in))
  <2>1. Tidy(Resize(S, out, S.vec[in].size, Zero))
    BY <1>1, <1>2, <1>3, ResizeKeeping, KeepingTidy
  <2> QED BY <1>3, <2>1 DEF EnlargeOutput
<1>4. ASSUME ~ (S.vec[out].size < S.vec[in].size)
      PROVE  Tidy(EnlargeOutput(S, out, in))
  BY <1>4 DEF EnlargeOutput
<1> QED BY <1>3, <1>4

LEMMA ExecuteTidy ==
  ASSUME NEW S, Good(S), Tidy(S), NEW out \in Vector, NEW in \in Vector
  PROVE  Tidy(Execute(S, out, in))
<1> DEFINE cmds == [d \in S.vec[in].dist.devices |->
                      KernelCommand(S.vec[in].buf[d], S.vec[out].buf[d])]
           T == EnqueueEach(S, cmds)
           r == S.vec[out]
           e == [r EXCEPT !.hostUp = FALSE, !.devUp = TRUE]
           W == DataOnDeviceModified(T, out)
<1>1. S \in Machine /\ r \in VectorType
  BY GoodRecord
<1> HIDE DEF cmds
<1>2. T.vec = S.vec /\ T.mem = S.mem /\ T = [S EXCEPT !.queue = T.queue]
  BY <1>1 DEF EnqueueEach, Machine
<1> HIDE DEF T
<1>3. W.vec = [S.vec EXCEPT ![out] = e] /\ W.mem = S.mem
  BY <1>1, <1>2, MachineParts DEF DataOnDeviceModified, Machine
<1>4. e.buf = r.buf /\ e.dist = r.dist /\ e.size = r.size
  BY <1>1 DEF VectorType
<1> HIDE DEF e, W
<1>5. Keeping(S, W)
  BY <1>1, <1>3, <1>4, MachineParts DEF Keeping
<1>6. Tidy(W)
  BY <1>5, KeepingTidy
<1> QED BY <1>6 DEF Execute, W, T, cmds

LEMMA FinishMapTidy ==
  ASSUME NEW S, Good(S), Tidy(S), NEW out \in Vector, NEW in \in Vector, out # in,
         IsValid(S.vec[in].dist), Room(S, out),
         S.vec[out].hostUp \/ ~ NeedsExchange(S.vec[out].dist, S.vec[in].dist)
  PROVE  Tidy(Execute(AdoptDistribution(S, out, in), out, in))
<1> DEFINE dist == S.vec[in].dist
           T == AssignDistribution(S, out, dist)
           U == CreateDeviceBuffers(T, out)
<1>1. dist \in ValidDistribution
  <2>1. dist \in DistributionType
    BY GoodRecord
  <2> QED BY <2>1, DistributionDevices DEF DistributionType
<1>2. Good(T) /\ Tidy(T) /\ NewUse(S, T, {})
  <2> HIDE DEF dist
  <2>1. S.vec[out].hostUp \/ ~ NeedsExchange(S.vec[out].dist, dist)
    BY DEF dist
  <2>2. Tidy(T)
    BY <1>1, AssignDistributionKeeping, KeepingTidy
  <2> QED BY <1>1, <2>1, <2>2, AssignDistributionGood
<1> HIDE DEF T
<1>3. Room(T, out)
  BY <1>2, RoomStays
<1>4. Good(U) /\ Tidy(U)
  BY <1>2, <1>3, CreateDeviceBuffersGood, CreateTidy
<1>5. U = AdoptDistribution(S, out, in)
  BY DEF AdoptDistribution, U, T
<1> HIDE DEF U
<1>6. Tidy(Execute(U, out, in))
  BY <1>4, ExecuteTidy
<1> QED BY <1>5, <1>6

\* The other calls that may wait.
LEMMA FinishTidy ==
  ASSUME NEW S, Good(S), Tidy(S), NEW v \in Vector
  PROVE  /\ Tidy(Finish(S, [op |-> "access", v |-> v]))
         /\ Tidy(Finish(S, [op |-> "upload", v |-> v]))
         /\ \A i \in Nat, x \in Value : S.vec[v].hostUp =>
              Tidy(Finish(S, [op |-> "write", v |-> v, i |-> i, x |-> x]))
         /\ \A dist \in ValidDistribution :
              Tidy(Finish(S, [op |-> "setDistribution", v |-> v, dist |-> dist]))
<1>1. ASSUME NEW i \in Nat, NEW x \in Value, S.vec[v].hostUp
      PROVE  Tidy(Finish(S, [op |-> "write", v |-> v, i |-> i, x |-> x]))
  <2> DEFINE T == StoreElement(S, v, i, x)
  <2>1. Good(T) /\ Tidy(T)
    BY <1>1, StoreElementGood, MarkKeeping, KeepingTidy DEF Elem
  <2> HIDE DEF T
  <2>2. Tidy(DataOnHostModified(T, v))
    BY <2>1, MarkKeeping, KeepingTidy
  <2> QED BY <2>2 DEF Finish, T
<1>2. ASSUME NEW dist \in ValidDistribution
      PROVE  Tidy(Finish(S, [op |-> "setDistribution", v |-> v, dist |-> dist]))
  <2>1. Tidy(AssignDistribution(S, v, dist))
    BY AssignDistributionKeeping, KeepingTidy
  <2> QED BY <2>1 DEF Finish
<1>3. /\ Tidy(Finish(S, [op |-> "access", v |-> v]))
      /\ Tidy(Finish(S, [op |-> "upload", v |-> v]))
  BY DEF Finish
<1> QED BY <1>1, <1>2, <1>3

\* The first half of a call that waits.
LEMMA WaitsTidy ==
  ASSUME NEW S, Good(S), Tidy(S), NEW v \in Vector, MustDownload(S, v),
         Commit(StartDownload(S, v))
  PROVE  Tidy(Now)'
<1>1. Good(StartDownload(S, v)) /\ Keeping(S, StartDownload(S, v))
  BY StartDownloadGood, StartDownloadKeeping
<1> QED BY <1>1, CommitKeeping

LEMMA WaitingCallsTidy ==
  ASSUME IInv, Tidy(Now), NEW v \in Vector
  PROVE  /\ Access(v) => Tidy(Now)'
         /\ \A i \in 1 .. MaxSize, x \in Inputs : WriteElement(v, i, x) => Tidy(Now)'
         /\ \A dist \in Dists \ {Invalid} : SetDistribution(v, dist) => Tidy(Now)'
         /\ BeginDownload(v) => Tidy(Now)'
<1>1. Good(Now) /\ Now.vec[v] = vec[v]
  BY Guards
<1>2. Intact(v) /\ ~ MustDownload(Now, v) => vec[v].hostUp
  BY <1>1 DEF Intact, MustDownload
<1>3. ASSUME Access(v)
      PROVE  Tidy(Now)'
  <2> DEFINE k == [op |-> "access", v |-> v]
  <2>1. CASE MustDownload(Now, v) /\ Commit(StartDownload(Now, v))
    BY <1>1, <2>1, WaitsTidy
  <2>2. CASE Commit(Finish(Now, k))
    BY <1>1, <2>2, FinishGood, FinishTidy, CommitTidy
  <2> QED BY <1>3, <2>1, <2>2 DEF Access, After
<1>4. ASSUME NEW i \in 1 .. MaxSize, NEW x \in Inputs, WriteElement(v, i, x)
      PROVE  Tidy(Now)'
  <2> DEFINE k == [op |-> "write", v |-> v, i |-> i, x |-> x]
  <2>1. i \in Nat /\ x \in Value
    BY BoundAssumption, MaxSizeAssumption
  <2>2. CASE MustDownload(Now, v) /\ Commit(StartDownload(Now, v))
    BY <1>1, <2>2, WaitsTidy
  <2>3. CASE ~ MustDownload(Now, v) /\ Commit(Finish(Now, k))
    <3>1. Now.vec[v].hostUp
      BY <1>1, <1>2, <1>4, <2>3 DEF WriteElement
    <3>2. Good(Finish(Now, k)) /\ Tidy(Finish(Now, k))
      BY <1>1, <2>1, <3>1, FinishGood, FinishTidy
    <3> QED BY <2>3, <3>2, CommitTidy
  <2> QED BY <1>4, <2>2, <2>3 DEF WriteElement, After
<1>5. ASSUME NEW dist \in Dists \ {Invalid}, SetDistribution(v, dist)
      PROVE  Tidy(Now)'
  <2> DEFINE k == [op |-> "setDistribution", v |-> v, dist |-> dist]
             need == NeedsExchange(vec[v].dist, dist)
  <2>1. dist \in ValidDistribution
    BY BoundAssumption DEF DistributionType
  <2>2. CASE MustDownload(Now, v) /\ Commit(StartDownload(Now, v))
    BY <1>1, <2>2, WaitsTidy
  <2>3. CASE ~ (need /\ MustDownload(Now, v)) /\ Commit(Finish(Now, k))
    <3>1. Now.vec[v].hostUp \/ ~ NeedsExchange(Now.vec[v].dist, dist)
      BY <1>1, <1>2, <1>5, <2>3 DEF SetDistribution
    <3>2. Good(Finish(Now, k)) /\ Tidy(Finish(Now, k))
      BY <1>1, <2>1, <3>1, FinishGood, FinishTidy
    <3> QED BY <2>3, <3>2, CommitTidy
  <2> QED BY <1>5, <2>2, <2>3 DEF SetDistribution, After
<1>6. ASSUME BeginDownload(v)
      PROVE  Tidy(Now)'
  BY <1>1, <1>6, WaitsTidy DEF BeginDownload
<1> QED BY <1>3, <1>4, <1>5, <1>6

LEMMA MapCallTidy ==
  ASSUME Careful, IInv, Tidy(Now), NEW out \in Vector, NEW in \in Vector, MapCall(out, in)
  PROVE  Tidy(Now)'
<1> DEFINE P == PrepareInput(Now, in)
           E == EnlargeOutput(P, out, in)
           dist == IF IsValid(vec[in].dist) THEN vec[in].dist ELSE Block
           exchange == out # in /\ NeedsExchange(vec[out].dist, dist)
           k == [op |-> "map", v |-> out, w |-> in]
<1>1. Good(Now) /\ Now.vec[in] = vec[in] /\ Now.vec[out] = vec[out]
  BY Guards
<1>2. /\ Room(Now, in) /\ Room(Now, out)
      /\ vec[in].hostUp \/ vec[in].devUp
      /\ vec[out].hostUp \/ vec[out].devUp
      /\ vec[in].size # 0
  BY Guards DEF MapCall, Intact
<1>3. After(E, exchange, k) /\ (vec[out].size < vec[in].size => vec[out].hostUp)
  BY DEF MapCall, Keeps, Careful
<1>4. /\ Good(P) /\ NewUse(Now, P, {in})
      /\ \A w \in Vector \ {in} : P.vec[w] = vec[w]
      /\ P.vec[in].size = vec[in].size
      /\ P.vec[in].dist = dist
      /\ \A d \in P.vec[in].dist.devices : P.vec[in].buf[d] # NoBuffer
  <2>1. /\ Good(P) /\ NewUse(Now, P, {in})
        /\ \A w \in Vector \ {in} : P.vec[w] = Now.vec[w]
        /\ P.vec[in].size = Now.vec[in].size
        /\ P.vec[in].dist = IF IsValid(Now.vec[in].dist) THEN Now.vec[in].dist
                            ELSE Block
        /\ \A d \in P.vec[in].dist.devices : P.vec[in].buf[d] # NoBuffer
    BY <1>1, <1>2, PrepareInputGood
  <2>2. Now.vec = vec
    BY DEF Now
  <2> HIDE DEF P
  <2> QED BY <2>1, <2>2
<1>5. IsValid(dist) /\ Tidy(P)
  <2>1. Tidy(P)
    BY <1>1, <1>2, PrepareInputTidy
  <2> QED BY <2>1 DEF IsValid, Block
<1>6. P.vec[out].hostUp \/ P.vec[out].devUp
  <2>1. CASE out # in
    BY <1>2, <1>4, <2>1
  <2>2. CASE out = in
    BY <1>2, <1>4, <2>2, GoodRecord DEF Sound
  <2> QED BY <2>1, <2>2
<1>7. out # in => Room(P, out)
  BY <1>2, <1>4, RoomStays
<1> HIDE DEF P, dist
<1>8. /\ Good(E) /\ NewUse(P, E, {})
      /\ out = in => E = P
      /\ \A w \in Vector \ {out} : E.vec[w] = P.vec[w]
      /\ E.vec[out].dist = P.vec[out].dist
      /\ E.vec[out].hostUp \/ E.vec[out].devUp
  BY <1>2, <1>4, <1>6, EnlargeOutputGood
<1>9. Tidy(E)
  <2>1. P.vec[in].size # 0
    BY <1>2, <1>4
  <2>2. P.vec[out].size < P.vec[in].size => P.vec[out].hostUp
    <3>1. CASE out = in
      <4>1. P.vec[in].size \in 0 .. MaxSize
        BY <1>4, GoodRecord
      <4> QED BY <3>1, <4>1, MaxSizeAssumption
    <3>2. CASE out # in
      BY <1>3, <1>4, <3>2
    <3> QED BY <3>1, <3>2
  <2> QED BY <1>4, <1>5, <2>1, <2>2, EnlargeOutputTidy
<1> HIDE DEF E
<1>10. out # in => Room(E, out) /\ E.vec[in].dist = dist /\ E.vec[out].dist = vec[out].dist
  BY <1>4, <1>7, <1>8, RoomStays
<1>11. CASE exchange /\ MustDownload(E, out)
  <2>1. Commit(StartDownload(E, out))
    BY <1>3, <1>11 DEF After
  <2> QED BY <1>8, <1>9, <1>11, <2>1, WaitsTidy
<1>12. CASE ~ (exchange /\ MustDownload(E, out))
  <2>1. Commit(Finish(E, k))
    BY <1>3, <1>12 DEF After
  <2>2. Finish(E, k) = Execute(AdoptDistribution(E, out, in), out, in)
    BY DEF Finish
  <2>3. CASE out = in
    <3>1. AdoptDistribution(E, out, in) = P
      BY <1>8, <2>3 DEF AdoptDistribution
    <3>2. Good(Execute(P, out, in)) /\ Tidy(Execute(P, out, in))
      BY <1>4, <1>5, <2>3, ExecuteGood, ExecuteTidy
    <3> QED BY <2>1, <2>2, <3>1, <3>2, CommitTidy
  <2>4. CASE out # in
    <3>1. E.vec[out].hostUp \/ ~ NeedsExchange(E.vec[out].dist, E.vec[in].dist)
      BY <1>8, <1>10, <1>12, <2>4 DEF MustDownload
    <3>2. /\ Good(Execute(AdoptDistribution(E, out, in), out, in))
          /\ Tidy(Execute(AdoptDistribution(E, out, in), out, in))
      BY <1>5, <1>8, <1>9, <1>10, <2>4, <3>1, FinishMapGood, FinishMapTidy
    <3> QED BY <2>1, <2>2, <3>2, CommitTidy
  <2> QED BY <2>3, <2>4
<1> QED BY <1>11, <1>12

LEMMA ResumeTidy ==
  ASSUME IInv, Tidy(Now), Resume
  PROVE  Tidy(Now)'
<1>1. Good(Now) /\ \A v \in Vector : Now.vec[v] = vec[v]
  BY Guards
<1>2. Commit(Finish(Now, pc)) /\ pc \in Continuation
  BY DEF Resume, IInv, PcOK
<1>3. Good(Finish(Now, pc)) /\ Tidy(Finish(Now, pc))
  <2>1. CASE pc \in [op : {"access", "upload"}, v : Vector]
    BY <1>1, <2>1 DEF Finish
  <2>2. CASE pc \in [op : {"write"}, v : Vector, i : Nat, x : Value]
    <3>1. /\ pc.v \in Vector /\ pc.i \in Nat /\ pc.x \in Value
          /\ pc = [op |-> "write", v |-> pc.v, i |-> pc.i, x |-> pc.x]
      BY <2>2
    <3>2. Now.vec[pc.v].hostUp
      BY <1>1, <2>2 DEF IInv, PcOK
    <3> QED BY <1>1, <3>1, <3>2, FinishGood, FinishTidy
  <2>3. CASE pc \in [op : {"setDistribution"}, v : Vector, dist : ValidDistribution]
    <3>1. /\ pc.v \in Vector /\ pc.dist \in ValidDistribution
          /\ pc = [op |-> "setDistribution", v |-> pc.v, dist |-> pc.dist]
      BY <2>3
    <3>2. Now.vec[pc.v].hostUp
      BY <1>1, <2>3 DEF IInv, PcOK
    <3> QED BY <1>1, <3>1, <3>2, FinishGood, FinishTidy
  <2>4. CASE pc \in [op : {"map"}, v : Vector, w : Vector]
    <3>1. pc.op = "map" /\ pc.v \in Vector /\ pc.w \in Vector
      BY <2>4
    <3>2. /\ pc.v # pc.w /\ Room(Now, pc.v)
          /\ IsValid(Now.vec[pc.w].dist) /\ Now.vec[pc.v].hostUp
      BY <1>1, <3>1 DEF IInv, PcOK
    <3>3. /\ Good(Execute(AdoptDistribution(Now, pc.v, pc.w), pc.v, pc.w))
          /\ Tidy(Execute(AdoptDistribution(Now, pc.v, pc.w), pc.v, pc.w))
      BY <1>1, <3>1, <3>2, FinishMapGood, FinishMapTidy
    <3> QED BY <3>1, <3>3 DEF Finish
  <2> QED BY <1>2, <2>1, <2>2, <2>3, <2>4 DEF Continuation
<1> QED BY <1>2, <1>3, CommitTidy

\* A device changes elements, in host copies and in buffers, and no length.
LEMMA DeviceStepTidy ==
  ASSUME IInv, Tidy(Now), NEW d \in Device, DeviceStep(d)
  PROVE  Tidy(Now)'
<1> DEFINE T == RunHead(Now, d)
<1>1. Good(Now) /\ Now \in Machine /\ Now.vec = vec /\ Now.queue = queue
  BY DEF IInv, Good, Now
<1>2. Commit(T) /\ queue[d] # << >>
  BY DEF DeviceStep
<1>3. T \in Machine
  BY <1>1, <1>2, RunHeadType
<1>4. Keeping(Now, T)
  BY <1>1, <1>2, RunHeadKeeping
<1>5. PICK h \in [Vector -> Seq(Elem)] :
        \A v \in Vector : /\ T.vec[v] = [Now.vec[v] EXCEPT !.host = h[v]]
                          /\ Len(h[v]) = Len(Now.vec[v].host)
  BY <1>1, <1>2, RunHeadType
<1> HIDE DEF T
<1>6. \A v \in Vector : vec[v] \in VectorType /\ Sound(vec[v])
  BY <1>1, GoodRecord
<1>7. \A v \in Vector : /\ T.vec[v].size = vec[v].size /\ T.vec[v].dist = vec[v].dist
                        /\ T.vec[v].hostUp = vec[v].hostUp /\ T.vec[v].devUp = vec[v].devUp
                        /\ T.vec[v].buf = vec[v].buf
                        /\ Len(T.vec[v].host) = Len(vec[v].host)
  BY <1>1, <1>5, <1>6 DEF VectorType
<1>8. Good(T)
  BY <1>3, <1>6, <1>7 DEF Good, Sound, Fitted
<1> QED BY <1>2, <1>4, <1>8, CommitKeeping

LEMMA InitTidy == Init => Tidy(Now)
<1>1. ASSUME Init
      PROVE  \A v \in Vector, d \in Device : Now.vec[v].buf[d] = NoBuffer
  BY <1>1 DEF Init, Now, Default, NoBuffers
<1> QED BY <1>1 DEF Tidy, Owned, Sized

LEMMA NextTidy ==
  ASSUME Careful, IInv, Tidy(Now), [Next]_vars
  PROVE  Tidy(Now)'
<1>1. ASSUME HostStep
      PROVE  Tidy(Now)'
  BY <1>1, ConstructionsTidy, CopyMoveSwapTidy, ResizeVectorTidy, HostMembersTidy,
     BufferCallsTidy, WaitingCallsTidy, MapCallTidy DEF HostStep
<1>2. ASSUME UNCHANGED vars
      PROVE  Tidy(Now)'
  BY <1>2 DEF vars, Now, Tidy, Owned, Sized
<1> QED
  BY <1>1, <1>2, ResumeTidy, DeviceStepTidy DEF Next

-----------------------------------------------------------------------------
(***************************************************************************)
(* The two invariants are inductive together.                              *)
(***************************************************************************)
THEOREM BuffersTidy == ASSUME Careful PROVE Spec => [](IInv /\ Tidy(Now))
<1>1. Obedient
  BY DEF Careful
<1>2. Init => IInv /\ Tidy(Now)
  BY InitIInv, InitTidy
<1>3. (IInv /\ Tidy(Now)) /\ [Next]_vars => (IInv /\ Tidy(Now))'
  BY <1>1, NextIInv, NextTidy
<1> QED BY <1>2, <1>3, PTL DEF Spec

(***************************************************************************)
(* createDeviceBuffers keeps the buffers it finds; those it finds always   *)
(* have the sizes that the present size and distribution of the vector ask *)
(* for, on the devices of that distribution and on no other.               *)
(***************************************************************************)
THEOREM BuffersAlwaysFit == ASSUME Careful PROVE Spec => []BuffersFit
<1>1. IInv /\ Tidy(Now) => BuffersFit
  <2>1. ASSUME IInv, Tidy(Now), NEW v \in Vector, HasBuffers(Now, v), NEW d \in Device
        PROVE  /\ d \in vec[v].dist.devices <=> vec[v].buf[d] # NoBuffer
               /\ vec[v].buf[d] # NoBuffer =>
                    Len(mem[d][vec[v].buf[d]]) =
                      SizeForDevice(vec[v].dist, vec[v].size, d)
    <3>1. Now.vec = vec /\ Now.mem = mem
      BY DEF Now
    <3>2. Fitted(vec[v]) /\ Sized(Now, v)
      BY <2>1, <3>1 DEF IInv, Good, Sound, Tidy
    <3> QED BY <2>1, <3>1, <3>2 DEF Fitted, Sized, HasBuffers
  <2> QED BY <2>1 DEF BuffersFit
<1> QED BY <1>1, BuffersTidy, PTL

(***************************************************************************)
(* No two vectors ever share a device buffer: copies get buffers of their  *)
(* own, and moving and swapping pass them on.                              *)
(***************************************************************************)
THEOREM BuffersNeverShared == ASSUME Careful PROVE Spec => []BuffersAreOwned
<1>1. Tidy(Now) => BuffersAreOwned
  BY DEF Tidy, Owned, Now, BuffersAreOwned
<1> QED BY <1>1, BuffersTidy, PTL

-----------------------------------------------------------------------------
(***************************************************************************)
(* The transfers in flight: the host memory an upload reads is there until *)
(* it has been read, and a client never runs while a download still        *)
(* changes host memory that it may look at.                                *)
(*                                                                         *)
(* Clients keep the rules above, do not change or free host memory that an *)
(* upload reads, and wait for the downloads they start.                    *)
(***************************************************************************)
Patient == Obedient /\ Broken \cap {"quiet", "awaited"} = {}

(***************************************************************************)
(* An upload reads the memory of a vector, which has room for all elements *)
(* of that vector: a download of it into the same memory does not move it. *)
(***************************************************************************)
Anchored(S, c) ==
  c.vec \in Vector /\ S.vec[c.vec].size <= Len(S.vec[c.vec].host)

Moored(S) ==
  \A d \in Device : \A c \in Queued(S, d) : c.op = "write" => Anchored(S, c)

NoReads(S) == \A d \in Device : \A c \in Queued(S, d) : c.op # "read"

\* All downloads in flight are those that a call on v waits for.
ReadsOf(S, v) ==
  \A d \in Device : \A c \in Queued(S, d) :
    c.op = "read" => c.vec = v /\ c.from = S.vec[v].buf[d]

Calm(S) == Moored(S) /\ NoReads(S)

(***************************************************************************)
(* Downloads are in flight only while the call that started them waits.    *)
(***************************************************************************)
Flight ==
  /\ Moored(Now)
  /\ pc = Idle \/ pc.op = "upload" => NoReads(Now)
  /\ pc # Idle => ReadsOf(Now, pc.v)

-----------------------------------------------------------------------------
(***************************************************************************)
(* How to show that a machine is calm.                                     *)
(***************************************************************************)
\* From S to T no upload or download is enqueued.
NoTransfer(S, T) ==
  \A d \in Device : \A c \in Queued(T, d) :
    c \in Queued(S, d) \/ c.op \in {"kernel", "copy"}

LEMMA SameQueue ==
  ASSUME NEW S, NEW T, T.queue = S.queue
  PROVE  /\ NoTransfer(S, T)
         /\ \A d \in Device : Queued(T, d) = Queued(S, d)
         /\ \A op, v : Pending(T, op, v) <=> Pending(S, op, v)
BY DEF NoTransfer, Pending, Queued

\* No vector's host memory becomes too small for it.
LEMMA CalmSame ==
  ASSUME NEW S, NEW T, Calm(S), NoTransfer(S, T),
         \A v \in Vector : S.vec[v].size <= Len(S.vec[v].host) =>
                           T.vec[v].size <= Len(T.vec[v].host)
  PROVE  Calm(T)
<1>1. NoReads(T)
  BY DEF Calm, NoReads, NoTransfer
<1>2. Moored(T)
  BY DEF Calm, Moored, NoTransfer, Anchored
<1> QED BY <1>1, <1>2 DEF Calm

\* Only a vector that no upload reads changes.
LEMMA CalmBut ==
  ASSUME NEW S, NEW T, Calm(S), NoTransfer(S, T),
         NEW v \in Vector, ~ Pending(S, "write", v),
         \A w \in Vector \ {v} : T.vec[w] = S.vec[w]
  PROVE  Calm(T)
<1>1. NoReads(T)
  BY DEF Calm, NoReads, NoTransfer
<1>2. Moored(T)
  BY DEF Calm, Moored, NoTransfer, Anchored, Pending
<1> QED BY <1>1, <1>2 DEF Calm

\* A command whose memory has moved is otherwise what it was.
LEMMA RedirectQueued ==
  ASSUME NEW S \in Machine, NEW owner \in [Vector -> Vector \cup {Nobody}],
         NEW d \in Device, NEW c \in Queued(Redirect(S, owner), d)
  PROVE  \E e \in Queued(S, d) :
           /\ c.op = e.op /\ c.from = e.from /\ c.to = e.to /\ c.off = e.off
           /\ c.vec = IF e.vec \in Vector THEN owner[e.vec] ELSE e.vec
<1> DEFINE moved(e) == [e EXCEPT !.vec = IF @ \in Vector THEN owner[@] ELSE @]
           q == [e \in Device |-> [i \in 1 .. Len(S.queue[e]) |-> moved(S.queue[e][i])]]
<1>1. ASSUME NEW e \in Command
      PROVE  /\ moved(e).op = e.op /\ moved(e).from = e.from
             /\ moved(e).to = e.to /\ moved(e).off = e.off
             /\ moved(e).vec = IF e.vec \in Vector THEN owner[e.vec] ELSE e.vec
  BY DEF Command
<1>2. S.queue[d] \in Seq(Command)
  BY MachineParts
<1>3. /\ Len(S.queue[d]) \in Nat /\ DOMAIN S.queue[d] = 1 .. Len(S.queue[d])
      /\ \A i \in 1 .. Len(S.queue[d]) : S.queue[d][i] \in Command
  BY <1>2, LenProperties, ElementOfSeq
<1>4. Redirect(S, owner).queue = q
  BY DEF Redirect, Machine
<1>5. PICK i \in 1 .. Len(S.queue[d]) : c = moved(S.queue[d][i])
  <2> HIDE DEF moved
  <2> QED BY <1>4 DEF Queued
<1>6. S.queue[d][i] \in Queued(S, d) /\ S.queue[d][i] \in Command
  BY <1>3 DEF Queued
<1> HIDE DEF moved
<1> QED BY <1>1, <1>5, <1>6

\* Host memory changes hands, and nobody frees what an upload reads.
LEMMA CalmRedirect ==
  ASSUME NEW S \in Machine, Calm(S),
         NEW owner \in [Vector -> Vector \cup {Nobody}],
         NEW T, NoTransfer(Redirect(S, owner), T),
         \A v \in Vector : Pending(S, "write", v) /\ S.vec[v].size <= Len(S.vec[v].host) =>
           owner[v] \in Vector /\ T.vec[owner[v]].size <= Len(T.vec[owner[v]].host)
  PROVE  Calm(T)
<1> DEFINE R == Redirect(S, owner)
<1>1. ASSUME NEW d \in Device, NEW c \in Queued(T, d), c.op \notin {"kernel", "copy"}
      PROVE  \E e \in Queued(S, d) :
               /\ c.op = e.op
               /\ c.vec = IF e.vec \in Vector THEN owner[e.vec] ELSE e.vec
  <2>1. c \in Queued(R, d)
    BY <1>1 DEF NoTransfer
  <2> QED BY <2>1, RedirectQueued
<1>2. NoReads(T)
  BY <1>1 DEF Calm, NoReads
<1>3. ASSUME NEW d \in Device, NEW c \in Queued(T, d), c.op = "write"
      PROVE  Anchored(T, c)
  <2>1. PICK e \in Queued(S, d) :
          e.op = "write" /\ c.vec = IF e.vec \in Vector THEN owner[e.vec] ELSE e.vec
    BY <1>1, <1>3
  <2>2. Anchored(S, e)
    BY <2>1 DEF Calm, Moored
  <2>3. Pending(S, "write", e.vec) /\ c.vec = owner[e.vec]
    BY <2>1, <2>2 DEF Anchored, Pending
  <2> QED BY <2>2, <2>3 DEF Anchored
<1> QED BY <1>2, <1>3 DEF Calm, Moored

\* A vector that no upload reads gets other host memory.
LEMMA CalmDetached ==
  ASSUME NEW S \in Machine, Calm(S), NEW v \in Vector, ~ Pending(S, "write", v),
         NEW T, NoTransfer(Redirect(S, [Identity EXCEPT ![v] = Nobody]), T),
         \A w \in Vector \ {v} : T.vec[w] = S.vec[w]
  PROVE  Calm(T)
<1> DEFINE owner == [Identity EXCEPT ![v] = Nobody]
<1>1. /\ owner \in [Vector -> Vector \cup {Nobody}]
      /\ \A w \in Vector \ {v} : owner[w] = w
  BY DEF Identity
<1> HIDE DEF owner
<1>2. NoTransfer(Redirect(S, owner), T)
  BY DEF owner
<1>3. \A w \in Vector : Pending(S, "write", w) /\ S.vec[w].size <= Len(S.vec[w].host) =>
        owner[w] \in Vector /\ T.vec[owner[w]].size <= Len(T.vec[owner[w]].host)
  BY <1>1
<1> QED BY <1>1, <1>2, <1>3, CalmRedirect

\* Commands are enqueued that move no data through the host.
LEMMA CalmEnqueue ==
  ASSUME NEW S \in Machine, Calm(S), NEW cmds, DOMAIN cmds \subseteq Device,
         \A d \in DOMAIN cmds : cmds[d] \in Command /\ cmds[d].op \in {"kernel", "copy"}
  PROVE  Calm(EnqueueEach(S, cmds))
<1> DEFINE T == EnqueueEach(S, cmds)
<1>1. /\ T.vec = S.vec
      /\ \A d \in Device : Queued(T, d) \subseteq
           Queued(S, d) \cup {cmds[e] : e \in DOMAIN cmds \cap {d}}
  BY EnqueueEachType
<1> HIDE DEF T
<1>2. NoTransfer(S, T)
  BY <1>1 DEF NoTransfer
<1>3. Calm(T)
  BY <1>1, <1>2, CalmSame
<1> QED BY <1>3 DEF T

-----------------------------------------------------------------------------
(***************************************************************************)
(* The members that enqueue no transfer.                                   *)
(***************************************************************************)
\* The record of one vector changes, in other parts than size and host copy.
LEMMA CalmRecord ==
  ASSUME NEW S \in Machine, Calm(S), NEW v \in Vector,
         NEW r, r.size = S.vec[v].size, Len(r.host) = Len(S.vec[v].host),
         NEW T, T.queue = S.queue, T.vec = [S.vec EXCEPT ![v] = r]
  PROVE  Calm(T)
<1>1. T.vec[v] = r /\ \A w \in Vector \ {v} : T.vec[w] = S.vec[w]
  BY MachineParts
<1>2. NoTransfer(S, T)
  BY SameQueue
<1> QED BY <1>1, <1>2, CalmSame

\* The same, where the machine is given by its EXCEPT.
LEMMA CalmWithRecord ==
  ASSUME NEW S \in Machine, Calm(S), NEW v \in Vector,
         NEW r, r.size = S.vec[v].size, Len(r.host) = Len(S.vec[v].host)
  PROVE  Calm(WithRecord(S, v, r))
<1> DEFINE T == WithRecord(S, v, r)
<1>1. T.queue = S.queue /\ T.vec = [S.vec EXCEPT ![v] = r]
  BY DEF WithRecord, Machine
<1> HIDE DEF T
<1>2. Calm(T)
  BY <1>1, CalmRecord
<1> QED BY <1>2 DEF T

\* A longer host buffer is elsewhere, so no upload may read the present one;
\* else it is enough that what an upload reads stays.
LEMMA SetHostCalm ==
  ASSUME NEW S \in Machine, Calm(S), NEW v \in Vector, NEW s \in Seq(Elem),
         \/ ~ Pending(S, "write", v)
         \/ S.vec[v].size <= Len(S.vec[v].host) =>
              S.vec[v].size <= Len(s) /\ ~ (Len(s) > Len(S.vec[v].host))
  PROVE  Calm(SetHost(S, v, s))
<1> DEFINE T == IF Len(s) > Len(S.vec[v].host)
                THEN Redirect(S, [Identity EXCEPT ![v] = Nobody]) ELSE S
           H == SetHost(S, v, s)
<1>1. T \in Machine
  BY RedirectType DEF Identity
<1>2. H.queue = T.queue
  <2>1. H = [T EXCEPT !.vec[v].host = s]
    BY DEF SetHost
  <2> HIDE DEF T, H
  <2> QED BY <1>1, <2>1 DEF Machine
<1>3. H.vec = [S.vec EXCEPT ![v].host = s] /\ S.vec \in [Vector -> VectorType]
  BY SetHostType, MachineParts
<1> HIDE DEF H
<1>4. /\ \A w \in Vector \ {v} : H.vec[w] = S.vec[w]
      /\ H.vec[v].size = S.vec[v].size /\ H.vec[v].host = s
  BY <1>3 DEF VectorType
<1>5. ASSUME Pending(S, "write", v)
      PROVE  S.vec[v].size <= Len(S.vec[v].host)
  BY <1>5 DEF Calm, Moored, Anchored, Pending
<1>6. CASE Pending(S, "write", v)
  <2>1. T = S /\ S.vec[v].size <= Len(s)
    BY <1>5, <1>6
  <2> HIDE DEF T
  <2>2. NoTransfer(S, H)
    BY <1>2, <2>1, SameQueue
  <2>3. Calm(H)
    BY <1>4, <2>1, <2>2, CalmSame
  <2> QED BY <2>3 DEF H
<1>7. CASE ~ Pending(S, "write", v)
  <2>1. CASE Len(s) > Len(S.vec[v].host)
    <3>1. T = Redirect(S, [Identity EXCEPT ![v] = Nobody])
      BY <2>1
    <3> HIDE DEF T
    <3>2. NoTransfer(Redirect(S, [Identity EXCEPT ![v] = Nobody]), H)
      BY <1>2, <3>1, SameQueue
    <3>3. Calm(H)
      BY <1>4, <1>7, <3>2, CalmDetached
    <3> QED BY <3>3 DEF H
  <2>2. CASE ~ (Len(s) > Len(S.vec[v].host))
    <3>1. T = S
      BY <2>2
    <3> HIDE DEF T
    <3>2. NoTransfer(S, H)
      BY <1>2, <3>1, SameQueue
    <3>3. Calm(H)
      BY <1>4, <1>7, <3>2, CalmBut
    <3> QED BY <3>3 DEF H
  <2> QED BY <2>1, <2>2
<1> QED BY <1>6, <1>7

\* A new object in the place of v.
LEMMA ReplaceCalm ==
  ASSUME NEW S \in Machine, Calm(S), NEW v \in Vector, ~ Pending(S, "write", v),
         NEW r \in VectorType, r.buf = NoBuffers
  PROVE  Calm(Replace(S, v, r))
<1> DEFINE R == Redirect(S, [Identity EXCEPT ![v] = Nobody])
           T == Replace(S, v, r)
<1>1. R \in Machine
  BY RedirectType DEF Identity
<1>2. T = [R EXCEPT !.vec[v] = r]
  BY DEF Replace
<1>3. T.vec = [S.vec EXCEPT ![v] = r]
  BY ReplaceType
<1> HIDE DEF R, T
<1>4. T.queue = R.queue
  BY <1>1, <1>2 DEF Machine
<1>5. NoTransfer(R, T)
  BY <1>4, SameQueue
<1>6. \A w \in Vector \ {v} : T.vec[w] = S.vec[w]
  BY <1>3, MachineParts
<1>7. Calm(T)
  BY <1>5, <1>6, CalmDetached DEF R
<1> QED BY <1>7 DEF T

\* w takes over v's memory, with the uploads that read it.
LEMMA MoveCalm ==
  ASSUME NEW S \in Machine, Calm(S), NEW v \in Vector, NEW w \in Vector, v # w,
         ~ Pending(S, "write", w)
  PROVE  Calm(Move(S, v, w))
<1> DEFINE owner == [Identity EXCEPT ![v] = w, ![w] = Nobody]
           R == Redirect(S, owner)
           f == [S.vec EXCEPT ![w] = S.vec[v], ![v] = MovedFrom]
           T == Move(S, v, w)
<1>1. /\ owner \in [Vector -> Vector \cup {Nobody}]
      /\ owner[v] = w /\ \A u \in Vector \ {v, w} : owner[u] = u
  BY DEF Identity
<1>2. S.vec \in [Vector -> VectorType]
  BY MachineParts
<1> HIDE DEF owner
<1>3. R \in Machine /\ R.vec = S.vec
  BY <1>1, RedirectType
<1> HIDE DEF R
<1>4. T = [R EXCEPT !.vec = f]
  BY <1>2, <1>3 DEF Move, R, owner
<1> HIDE DEF T
<1>5. T.vec = f /\ T.queue = R.queue
  BY <1>3, <1>4 DEF Machine
<1>6. f[w] = S.vec[v] /\ \A u \in Vector \ {v, w} : f[u] = S.vec[u]
  BY <1>2
<1> HIDE DEF f
<1>7. NoTransfer(R, T)
  BY <1>5, SameQueue
<1>8. Calm(T)
  BY <1>1, <1>5, <1>6, <1>7, CalmRedirect DEF R
<1> QED BY <1>8 DEF T

\* v and w exchange their memory, and the uploads follow it.
LEMMA SwapCalm ==
  ASSUME NEW S \in Machine, Calm(S), NEW v \in Vector, NEW w \in Vector, v # w
  PROVE  Calm(Swap(S, v, w))
<1> DEFINE owner == [Identity EXCEPT ![v] = w, ![w] = v]
           R == Redirect(S, owner)
           T == Swap(S, v, w)
<1>1. /\ owner \in [Vector -> Vector \cup {Nobody}]
      /\ owner[v] = w /\ owner[w] = v /\ \A u \in Vector \ {v, w} : owner[u] = u
  BY DEF Identity
<1>2. S.vec \in [Vector -> VectorType]
  BY MachineParts
<1> HIDE DEF owner
<1>3. R \in Machine /\ R.vec = S.vec
  BY <1>1, RedirectType
<1>4. T = [R EXCEPT !.vec[v].host = S.vec[w].host, !.vec[v].size = S.vec[w].size,
                    !.vec[w].host = S.vec[v].host, !.vec[w].size = S.vec[v].size]
  BY DEF Swap, R, owner
<1> HIDE DEF R
<1>5. /\ T.queue = R.queue
      /\ T.vec = [S.vec EXCEPT ![v].host = S.vec[w].host, ![v].size = S.vec[w].size,
                               ![w].host = S.vec[v].host, ![w].size = S.vec[v].size]
  BY <1>3, <1>4 DEF Machine
<1> HIDE DEF T
<1>6. \A u \in Vector \ {v, w} : T.vec[u] = S.vec[u]
  BY <1>2, <1>5
<1>7. /\ T.vec[v] = [S.vec[v] EXCEPT !.host = S.vec[w].host, !.size = S.vec[w].size]
      /\ T.vec[w] = [S.vec[w] EXCEPT !.host = S.vec[v].host, !.size = S.vec[v].size]
  BY <1>2, <1>5
<1>8. /\ T.vec[v].size = S.vec[w].size /\ T.vec[v].host = S.vec[w].host
      /\ T.vec[w].size = S.vec[v].size /\ T.vec[w].host = S.vec[v].host
  BY <1>2, <1>7 DEF VectorType
<1>9. NoTransfer(R, T)
  BY <1>5, SameQueue
<1>10. Calm(T)
  BY <1>1, <1>6, <1>8, <1>9, CalmRedirect DEF R
<1> QED BY <1>10 DEF T

\* Buffers are allocated: nothing is enqueued, no host copy changes.
LEMMA NewBuffersCalm ==
  ASSUME NEW S \in Machine, Calm(S), NEW v \in Vector, Room(S, v),
         NEW len, DOMAIN len \subseteq Device, \A d \in DOMAIN len : len[d] \in Nat
  PROVE  Calm(NewBuffers(S, v, len))
<1> DEFINE U == NewBuffers(S, v, len)
<1>0. U.queue = S.queue
  BY DEF NewBuffers, Machine
<1>1. PICK b \in [Device -> BufferId \cup {NoBuffer}] :
        /\ U.vec = [S.vec EXCEPT ![v].buf = b]
        /\ \A d \in Device : b[d] # NoBuffer <=> d \in DOMAIN len
        /\ \A d \in DOMAIN len : b[d] \notin Live(S, d)
  BY NewBuffersType
<1> HIDE DEF U
<1>2. S.vec[v] \in VectorType
  BY MachineParts
<1> DEFINE r == [S.vec[v] EXCEPT !.buf = b]
<1>3. r.size = S.vec[v].size /\ r.host = S.vec[v].host
  BY <1>2 DEF VectorType
<1>4. U.vec = [S.vec EXCEPT ![v] = r]
  BY <1>1
<1> HIDE DEF r
<1>5. Calm(U)
  BY <1>0, <1>3, <1>4, CalmRecord
<1> QED BY <1>5 DEF U

LEMMA CreateCalm ==
  ASSUME NEW S, Good(S), Calm(S), NEW v \in Vector, Room(S, v)
  PROVE  /\ Calm(ForceCreateDeviceBuffers(S, v))
         /\ Calm(CreateDeviceBuffers(S, v))
<1> DEFINE r == S.vec[v]
           e == [r EXCEPT !.buf = NoBuffers]
           T == DropBuffers(S, v)
           len == [d \in r.dist.devices |-> SizeForDevice(r.dist, r.size, d)]
<1>1. /\ S \in Machine /\ r \in VectorType /\ r.dist \in DistributionType
      /\ r.size \in 0 .. MaxSize
  BY GoodRecord
<1>2. /\ DOMAIN len \subseteq Device
      /\ \A d \in DOMAIN len : len[d] \in Nat
  BY <1>1, DistributionDevices, SizeForDeviceType
<1>3. /\ e \in VectorType /\ e.size = r.size /\ e.host = r.host
      /\ \A d \in Device : e.buf[d] \in {NoBuffer, r.buf[d]}
  BY <1>1 DEF VectorType, NoBuffers
<1>4. T = WithRecord(S, v, e)
  BY DEF DropBuffers, WithRecord
<1> HIDE DEF e, T
<1>5. Calm(T) /\ T \in Machine /\ NewUse(S, T, {})
  BY <1>1, <1>3, <1>4, CalmWithRecord, RecordChange
<1>6. Room(T, v)
  BY <1>5, RoomStays
<1>7. ForceCreateDeviceBuffers(S, v) = NewBuffers(T, v, len)
  BY DEF ForceCreateDeviceBuffers, T
<1> HIDE DEF len
<1>8. Calm(ForceCreateDeviceBuffers(S, v))
  BY <1>2, <1>5, <1>6, <1>7, NewBuffersCalm
<1> QED BY <1>8 DEF CreateDeviceBuffers

LEMMA CopyConstructCalm ==
  ASSUME NEW S, Good(S), Calm(S), NEW v \in Vector, NEW w \in Vector, v # w,
         ~ Pending(S, "write", w), Room(S, w)
  PROVE  Calm(CopyConstruct(S, v, w))
<1> DEFINE r == S.vec[v]
           e == [r EXCEPT !.buf = NoBuffers]
           T == Replace(S, w, e)
           held == {d \in Device : r.buf[d] # NoBuffer}
           len == [d \in held |-> Len(Contents(S, d, r.buf[d]))]
           U == NewBuffers(T, w, len)
           cmds == [d \in held |-> CopyCommand(r.buf[d], U.vec[w].buf[d])]
           W == EnqueueEach(U, cmds)
<1>1. S \in Machine /\ r \in VectorType
  BY GoodRecord
<1>2. e \in VectorType /\ e.buf = NoBuffers
  BY <1>1 DEF VectorType, NoBuffers
<1>3. /\ DOMAIN len \subseteq Device
      /\ \A d \in DOMAIN len : len[d] \in Nat
  BY <1>1, ContentsType, LenProperties
<1>4. W = CopyConstruct(S, v, w)
  BY DEF CopyConstruct
<1> HIDE DEF e, len
<1>5. T \in Machine /\ NewUse(S, T, {}) /\ Calm(T)
  BY <1>1, <1>2, ReplaceType, ReplaceCalm
<1> HIDE DEF T
<1>6. Room(T, w)
  BY <1>5, RoomStays
<1>7. U \in Machine /\ Calm(U)
  BY <1>3, <1>5, <1>6, NewBuffersType, NewBuffersCalm
<1> HIDE DEF U
<1>8. /\ DOMAIN cmds \subseteq Device
      /\ \A d \in DOMAIN cmds : cmds[d] \in Command /\ cmds[d].op \in {"kernel", "copy"}
  <2>1. U.vec[w] \in VectorType
    BY <1>7, MachineParts
  <2>2. ASSUME NEW d \in held
        PROVE  /\ CopyCommand(r.buf[d], U.vec[w].buf[d]) \in Command
               /\ CopyCommand(r.buf[d], U.vec[w].buf[d]).op = "copy"
    <3>1. /\ r.buf[d] \in BufferId \cup {NoBuffer}
          /\ U.vec[w].buf[d] \in BufferId \cup {NoBuffer}
      BY <1>1, <2>1 DEF VectorType
    <3> QED BY <3>1 DEF CopyCommand, Command
  <2> QED BY <2>2
<1> HIDE DEF cmds
<1>9. Calm(W)
  BY <1>7, <1>8, CalmEnqueue
<1> QED BY <1>4, <1>9

\* A vector that no upload reads gets another size, and another host buffer if
\* its host copy is current.
LEMMA ResizeCalm ==
  ASSUME NEW S, Good(S), Calm(S), NEW v \in Vector, ~ Pending(S, "write", v),
         S.vec[v].hostUp \/ S.vec[v].devUp, NEW n \in 1 .. MaxSize, NEW x \in Elem
  PROVE  Calm(Resize(S, v, n, x))
<1> DEFINE T == [S EXCEPT !.vec[v].size = n]
           s == Resized(T.vec[v].host, n, x)
           H == SetHost(T, v, s)
           U == Resize(S, v, n, x)
           kept == [S.vec[v] EXCEPT !.size = n]
<1>1. S \in Machine /\ S.vec[v] \in VectorType /\ n \in Nat
  BY GoodRecord, MaxSizeAssumption
<1>2. kept \in VectorType
  BY <1>1 DEF VectorType
<1>3. T = [S EXCEPT !.vec[v] = kept]
  OBVIOUS
<1> HIDE DEF kept, T
<1>4. /\ T \in Machine /\ T.queue = S.queue
      /\ \A w \in Vector \ {v} : T.vec[w] = S.vec[w]
  BY <1>1, <1>2, <1>3, OneVec, MachineParts
<1>5. NoTransfer(S, T) /\ ~ Pending(T, "write", v)
  BY <1>4, SameQueue
<1>6. Calm(T)
  BY <1>4, <1>5, CalmBut
<1>7. CASE ~ S.vec[v].hostUp
  BY <1>6, <1>7 DEF Resize, T
<1>8. CASE S.vec[v].hostUp
  <2>1. T.vec[v] \in VectorType
    BY <1>4, MachineParts
  <2>2. s \in Seq(Elem)
    BY <1>1, <2>1, ResizedType DEF VectorType
  <2>3. U = [DropBuffers(H, v) EXCEPT !.vec[v].devUp = FALSE]
    BY <1>8 DEF Resize, H, s, T
  <2> HIDE DEF s
  <2>4. Calm(H) /\ H \in Machine
    BY <1>4, <1>5, <1>6, <2>2, SetHostCalm, SetHostType
  <2> HIDE DEF H
  <2> DEFINE r == [H.vec[v] EXCEPT !.buf = NoBuffers, !.devUp = FALSE]
  <2>5. r.size = H.vec[v].size /\ r.host = H.vec[v].host
    BY <2>4, MachineParts DEF VectorType
  <2>6. U = WithRecord(H, v, r)
    BY <2>3, <2>4, MachineParts DEF DropBuffers, WithRecord
  <2> HIDE DEF r
  <2>7. Calm(U)
    BY <2>4, <2>5, <2>6, CalmWithRecord
  <2> QED BY <2>7 DEF U
<1> QED BY <1>7, <1>8

\* insert, erase, clear, assign.
LEMMA NewHostCalm ==
  ASSUME NEW S \in Machine, Calm(S), NEW v \in Vector, ~ Pending(S, "write", v),
         NEW s \in Seq(Elem), NEW n
  PROVE  /\ Calm(SetHost(S, v, s))
         /\ Calm([SetHost(S, v, s) EXCEPT !.vec[v].size = n])
<1> DEFINE H == SetHost(S, v, s)
           T == [H EXCEPT !.vec[v].size = n]
<1>1. Calm(H) /\ H \in Machine
  BY SetHostCalm, SetHostType
<1>2. ~ Pending(H, "write", v)
  <2> DEFINE owner == [Identity EXCEPT ![v] = Nobody]
             R == IF Len(s) > Len(S.vec[v].host) THEN Redirect(S, owner) ELSE S
  <2>1. /\ owner \in [Vector -> Vector \cup {Nobody}]
        /\ \A w \in Vector \ {v} : owner[w] = w
    BY DEF Identity
  <2>2. owner[v] # v
    BY NobodyAssumption DEF Identity
  <2> HIDE DEF owner
  <2>3. R \in Machine
    BY <2>1, RedirectType
  <2>4. H.queue = R.queue
    <3>1. H = [R EXCEPT !.vec[v].host = s]
      BY DEF SetHost, owner
    <3> HIDE DEF R, H
    <3> QED BY <2>3, <3>1 DEF Machine
  <2>5. ASSUME NEW d \in Device, NEW c \in Queued(R, d), c.op = "write", c.vec = v
        PROVE  FALSE
    <3>1. c \in Queued(S, d) => FALSE
      BY <2>5 DEF Pending
    <3>2. c \in Queued(Redirect(S, owner), d) => FALSE
      <4>1. ASSUME c \in Queued(Redirect(S, owner), d)
            PROVE  FALSE
        <5>1. PICK e \in Queued(S, d) :
                c.op = e.op /\ c.vec = IF e.vec \in Vector THEN owner[e.vec] ELSE e.vec
          BY <2>1, <4>1, RedirectQueued
        <5>2. e.vec = v
          BY <2>1, <2>5, <5>1
        <5> QED BY <2>5, <5>1, <5>2 DEF Pending
      <4> QED BY <4>1
    <3> QED BY <2>5, <3>1, <3>2
  <2> HIDE DEF R, H
  <2> QED BY <2>4, <2>5 DEF Pending, Queued
<1>3. /\ T.queue = H.queue
      /\ \A w \in Vector \ {v} : T.vec[w] = H.vec[w]
  <2> HIDE DEF H
  <2> QED BY <1>1, MachineParts DEF Machine
<1> HIDE DEF H, T
<1>4. NoTransfer(H, T)
  BY <1>3, SameQueue
<1>5. Calm(T)
  BY <1>1, <1>2, <1>3, <1>4, CalmBut
<1> QED BY <1>1, <1>5 DEF T, H

LEMMA HostMembersCalm ==
  ASSUME NEW S, Good(S), Calm(S), NEW v \in Vector, ~ Pending(S, "write", v)
  PROVE  /\ \A i \in 1 .. Len(S.vec[v].host) + 1, x \in Elem : Calm(Insert(S, v, i, x))
         /\ \A i \in 1 .. Len(S.vec[v].host) : Calm(Erase(S, v, i))
         /\ \A n \in Nat, x \in Elem : Calm(Assign(S, v, n, x))
         /\ Calm(Clear(S, v))
<1>1. S \in Machine /\ S.vec[v].host \in Seq(Elem) /\ << >> \in Seq(Elem)
  BY GoodRecord
<1>2. ASSUME NEW i \in 1 .. Len(S.vec[v].host) + 1, NEW x \in Elem
      PROVE  Calm(Insert(S, v, i, x))
  <2>1. InsertAt(S.vec[v].host, i, x) \in Seq(Elem)
    BY <1>1, InsertAtType
  <2> QED BY <1>1, <2>1, NewHostCalm DEF Insert
<1>3. ASSUME NEW i \in 1 .. Len(S.vec[v].host)
      PROVE  Calm(Erase(S, v, i))
  <2>1. RemoveAt(S.vec[v].host, i) \in Seq(Elem)
    BY <1>1, RemoveAtType
  <2> QED BY <1>1, <2>1, NewHostCalm DEF Erase
<1>4. ASSUME NEW n \in Nat, NEW x \in Elem
      PROVE  Calm(Assign(S, v, n, x))
  BY <1>1, FilledType, NewHostCalm DEF Assign
<1>5. Calm(Clear(S, v))
  BY <1>1, NewHostCalm DEF Clear
<1> QED BY <1>2, <1>3, <1>4, <1>5

\* Flags, distributions and single elements; no size and no host buffer.
LEMMA MarkCalm ==
  ASSUME NEW S, Good(S), Calm(S), NEW v \in Vector
  PROVE  /\ \A dist : Calm(AssignDistribution(S, v, dist))
         /\ Calm(DataOnDeviceModified(S, v))
         /\ Calm(DataOnHostModified(S, v))
         /\ \A i, x : Calm(StoreElement(S, v, i, x))
<1> DEFINE r == S.vec[v]
<1>1. S \in Machine /\ r \in VectorType /\ r.host \in Seq(Elem)
  BY GoodRecord
<1>2. ASSUME NEW dist
      PROVE  Calm(AssignDistribution(S, v, dist))
  <2> DEFINE e == [r EXCEPT !.buf = NoBuffers, !.devUp = FALSE, !.dist = dist]
             f == [r EXCEPT !.dist = dist]
  <2>1. AssignDistribution(S, v, dist) \in {WithRecord(S, v, e), WithRecord(S, v, f)}
    BY <1>1, MachineParts DEF AssignDistribution, DropBuffers, WithRecord
  <2>2. e.size = r.size /\ e.host = r.host /\ f.size = r.size /\ f.host = r.host
    BY <1>1 DEF VectorType
  <2> HIDE DEF e, f
  <2>3. Calm(WithRecord(S, v, e)) /\ Calm(WithRecord(S, v, f))
    BY <1>1, <2>2, CalmWithRecord
  <2> QED BY <2>1, <2>3
<1>3. Calm(DataOnDeviceModified(S, v))
  <2> DEFINE e == [r EXCEPT !.hostUp = FALSE, !.devUp = TRUE]
  <2>1. DataOnDeviceModified(S, v) = WithRecord(S, v, e)
    BY <1>1, MachineParts DEF DataOnDeviceModified, WithRecord
  <2>2. e.size = r.size /\ e.host = r.host
    BY <1>1 DEF VectorType
  <2> HIDE DEF e
  <2> QED BY <1>1, <2>1, <2>2, CalmWithRecord
<1>4. Calm(DataOnHostModified(S, v))
  <2> DEFINE e == [r EXCEPT !.hostUp = TRUE, !.devUp = FALSE]
  <2>1. DataOnHostModified(S, v) = WithRecord(S, v, e)
    BY <1>1, MachineParts DEF DataOnHostModified, WithRecord
  <2>2. e.size = r.size /\ e.host = r.host
    BY <1>1 DEF VectorType
  <2> HIDE DEF e
  <2> QED BY <1>1, <2>1, <2>2, CalmWithRecord
<1>5. ASSUME NEW i, NEW x
      PROVE  Calm(StoreElement(S, v, i, x))
  <2> DEFINE h == [r.host EXCEPT ![i] = x]
             e == [r EXCEPT !.host = h]
  <2>1. StoreElement(S, v, i, x) = WithRecord(S, v, e)
    BY <1>1, MachineParts DEF StoreElement, WithRecord
  <2>2. Len(h) = Len(r.host)
    BY <1>1
  <2> HIDE DEF h
  <2>3. e.size = r.size /\ e.host = h
    BY <1>1 DEF VectorType
  <2> HIDE DEF e
  <2> QED BY <1>1, <2>1, <2>2, <2>3, CalmWithRecord
<1> QED BY <1>2, <1>3, <1>4, <1>5

-----------------------------------------------------------------------------
(***************************************************************************)
(* The members that start a transfer.                                      *)
(***************************************************************************)
\* An upload reads a host copy that is current, and so complete.
LEMMA StartUploadCalm ==
  ASSUME NEW S, Good(S), Calm(S), NEW v \in Vector, S.vec[v].hostUp \/ S.vec[v].devUp
  PROVE  /\ Calm(StartUpload(S, v))
         /\ \A w \in Vector \ {v} :
              Pending(StartUpload(S, v), "write", w) => Pending(S, "write", w)
<1> DEFINE r == S.vec[v]
           cmds == [d \in r.dist.devices |->
                      WriteCommand(r.buf[d], v, HostOffset(S, v, d))]
           E == EnqueueEach(S, cmds)
           e == [r EXCEPT !.devUp = TRUE]
           T == StartUpload(S, v)
<1>1. S \in Machine /\ r \in VectorType /\ Sound(r)
  BY GoodRecord
<1>2. CASE r.devUp
  BY <1>2 DEF StartUpload
<1>3. CASE ~ r.devUp
  <2>1. r.size <= Len(r.host)
    BY <1>1, <1>3 DEF Sound, VectorType
  <2>2. r.dist.devices \subseteq Device
    BY <1>1, DistributionDevices DEF VectorType
  <2>3. ASSUME NEW d \in DOMAIN cmds
        PROVE  cmds[d] \in Command /\ cmds[d].op = "write" /\ cmds[d].vec = v
    <3>1. d \in Device /\ r.buf[d] \in BufferId \cup {NoBuffer}
      BY <1>1, <2>2 DEF VectorType
    <3>2. HostOffset(S, v, d) \in Nat
      BY <3>1, HostOffsetType
    <3>3. cmds[d] = WriteCommand(r.buf[d], v, HostOffset(S, v, d))
      OBVIOUS
    <3> HIDE DEF cmds
    <3> QED BY <3>1, <3>2, <3>3, CommandTypes DEF WriteCommand
  <2>4. DOMAIN cmds \subseteq Device
    BY <2>2
  <2>5. T = [E EXCEPT !.vec[v].devUp = TRUE]
    BY <1>3 DEF StartUpload
  <2> HIDE DEF cmds
  <2>6. /\ E \in Machine /\ E.vec = S.vec
        /\ \A d \in Device : Queued(E, d) \subseteq
             Queued(S, d) \cup {cmds[x] : x \in DOMAIN cmds \cap {d}}
    BY <1>1, <2>3, <2>4, EnqueueEachType
  <2> HIDE DEF E, T
  <2>7. Calm(E)
    <3>1. ASSUME NEW d \in Device, NEW c \in Queued(E, d)
          PROVE  /\ c.op # "read"
                 /\ c.op = "write" => Anchored(E, c)
      <4>1. CASE c \in Queued(S, d)
        BY <2>6, <4>1 DEF Calm, NoReads, Moored, Anchored
      <4>2. CASE c \notin Queued(S, d)
        <5>1. c.op = "write" /\ c.vec = v
          BY <2>3, <2>6, <4>2
        <5> QED BY <2>1, <2>6, <5>1 DEF Anchored
      <4> QED BY <4>1, <4>2
    <3> QED BY <3>1 DEF Calm, NoReads, Moored
  <2>8. T = WithRecord(E, v, e)
    BY <2>5, <2>6, MachineParts DEF WithRecord
  <2>9. e.size = E.vec[v].size /\ Len(e.host) = Len(E.vec[v].host)
    BY <1>1, <2>6 DEF VectorType
  <2> HIDE DEF e
  <2>10. Calm(T)
    BY <2>6, <2>7, <2>8, <2>9, CalmWithRecord
  <2>11. T.queue = E.queue
    BY <2>5, <2>6 DEF Machine
  <2>12. ASSUME NEW w \in Vector \ {v}, Pending(T, "write", w)
         PROVE  Pending(S, "write", w)
    <3>1. PICK d \in Device : \E c \in Queued(T, d) : c.op = "write" /\ c.vec = w
      BY <2>12 DEF Pending
    <3>2. PICK c \in Queued(E, d) : c.op = "write" /\ c.vec = w
      BY <2>11, <3>1 DEF Queued
    <3>3. c \in Queued(S, d)
      BY <2>3, <2>6, <3>2
    <3> QED BY <3>2, <3>3 DEF Pending
  <2> QED BY <2>10, <2>12 DEF T
<1> QED BY <1>2, <1>3

\* A download resizes the host buffer of v to the size of v first, which moves
\* no memory that is read: what an upload of v reads is large enough already.
LEMMA StartDownloadReads ==
  ASSUME NEW S, Good(S), Calm(S), NEW v \in Vector, MustDownload(S, v)
  PROVE  Moored(StartDownload(S, v)) /\ ReadsOf(StartDownload(S, v), v)
<1> DEFINE r == S.vec[v]
           s == Resized(r.host, r.size, Zero)
           H == SetHost(S, v, s)
           cmds == [d \in DownloadDevices(r.dist) |->
                      ReadCommand(r.buf[d], v, HostOffset(S, v, d))]
           E == EnqueueEach(H, cmds)
           T == StartDownload(S, v)
<1>1. S \in Machine /\ r \in VectorType /\ r.host \in Seq(Elem) /\ r.size \in Nat
  BY GoodRecord DEF VectorType
<1>2. s \in Seq(Elem) /\ Len(s) = r.size
  BY <1>1, ResizedType, ZeroAssumption DEF Elem
<1>3. T = [E EXCEPT !.vec[v].hostUp = TRUE,
                    !.vec[v].devUp = @ /\ r.dist.kind # "copy"]
  BY DEF StartDownload, MustDownload
<1> HIDE DEF s
<1>4. H \in Machine /\ H.vec = [S.vec EXCEPT ![v].host = s]
  BY <1>1, <1>2, SetHostType
<1>5. Calm(H)
  <2>1. r.size <= Len(r.host) => r.size <= Len(s) /\ ~ (Len(s) > Len(r.host))
    BY <1>1, <1>2, LenProperties
  <2> QED BY <1>1, <1>2, <2>1, SetHostCalm
<1> HIDE DEF H
<1>6. DownloadDevices(r.dist) \subseteq Device
  BY <1>1, DistributionDevices DEF VectorType
<1>7. ASSUME NEW d \in DOMAIN cmds
      PROVE  cmds[d] \in Command /\ cmds[d].op = "read" /\ cmds[d].vec = v
             /\ cmds[d].from = r.buf[d]
  <2>1. d \in Device /\ r.buf[d] \in BufferId \cup {NoBuffer}
    BY <1>1, <1>6 DEF VectorType
  <2>2. HostOffset(S, v, d) \in Nat
    BY <2>1, HostOffsetType
  <2>3. cmds[d] = ReadCommand(r.buf[d], v, HostOffset(S, v, d))
    OBVIOUS
  <2> HIDE DEF cmds
  <2> QED BY <2>1, <2>2, <2>3, CommandTypes DEF ReadCommand
<1>8. DOMAIN cmds \subseteq Device
  BY <1>6
<1> HIDE DEF cmds
<1>9. /\ E \in Machine /\ E.vec = H.vec
      /\ \A d \in Device : Queued(E, d) \subseteq
           Queued(H, d) \cup {cmds[x] : x \in DOMAIN cmds \cap {d}}
  BY <1>4, <1>7, <1>8, EnqueueEachType
<1> HIDE DEF E, T
<1>10. T.queue = E.queue
  BY <1>3, <1>9 DEF Machine
<1>11. /\ \A w \in Vector \ {v} : T.vec[w] = H.vec[w]
       /\ T.vec[v].size = H.vec[v].size /\ T.vec[v].host = H.vec[v].host
       /\ T.vec[v].buf = r.buf
  <2>1. H.vec[v] = [r EXCEPT !.host = s] /\ E.vec[v] \in VectorType
    BY <1>1, <1>4, <1>9, MachineParts
  <2>2. T.vec = [H.vec EXCEPT ![v] = [H.vec[v] EXCEPT !.hostUp = TRUE,
                                !.devUp = H.vec[v].devUp /\ r.dist.kind # "copy"]]
    BY <1>3, <1>9 DEF Machine
  <2>3. r.buf = H.vec[v].buf
    BY <1>1, <2>1 DEF VectorType
  <2> QED BY <1>4, <1>9, <2>1, <2>2, <2>3, MachineParts DEF VectorType
<1>12. ASSUME NEW d \in Device, NEW c \in Queued(T, d)
       PROVE  /\ c.op = "write" => Anchored(T, c)
              /\ c.op = "read" => c.vec = v /\ c.from = T.vec[v].buf[d]
  <2>1. c \in Queued(E, d)
    BY <1>10 DEF Queued
  <2>2. CASE c \in Queued(H, d)
    BY <1>5, <1>11, <2>2 DEF Calm, NoReads, Moored, Anchored
  <2>3. CASE c \notin Queued(H, d)
    BY <1>7, <1>9, <1>11, <2>1, <2>3
  <2> QED BY <2>2, <2>3
<1>13. Moored(T) /\ ReadsOf(T, v)
  BY <1>12 DEF Moored, ReadsOf
<1> QED BY <1>13 DEF T

-----------------------------------------------------------------------------
(***************************************************************************)
(* The Map skeleton, part by part.                                         *)
(***************************************************************************)
\* Only uploads of the input are added.
LEMMA PrepareInputCalm ==
  ASSUME NEW S, Good(S), Calm(S), NEW in \in Vector,
         S.vec[in].hostUp \/ S.vec[in].devUp, Room(S, in)
  PROVE  /\ Calm(PrepareInput(S, in))
         /\ \A w \in Vector \ {in} :
              Pending(PrepareInput(S, in), "write", w) => Pending(S, "write", w)
<1> DEFINE T == IF IsValid(S.vec[in].dist) THEN S ELSE AssignDistribution(S, in, Block)
           U == CreateDeviceBuffers(T, in)
<1>0. S \in Machine
  BY DEF Good
<1>1. /\ Good(T) /\ Calm(T) /\ NewUse(S, T, {}) /\ T.queue = S.queue
      /\ T.vec[in].hostUp \/ T.vec[in].devUp
  <2>1. CASE IsValid(S.vec[in].dist)
    BY <2>1 DEF NewUse
  <2>2. CASE ~ IsValid(S.vec[in].dist)
    <3>1. S.vec[in].dist = Invalid /\ S.vec[in].hostUp
      BY <2>2, GoodRecord, DistributionDevices DEF Sound
    <3>2. ~ NeedsExchange(S.vec[in].dist, Block) /\ Block \in ValidDistribution
      BY <3>1 DEF NeedsExchange, Invalid, ValidDistribution
    <3>3. T = AssignDistribution(S, in, Block)
      BY <2>2
    <3>4. T.queue = S.queue
      BY <1>0, <3>2, <3>3 DEF AssignDistribution, Machine
    <3> HIDE DEF T
    <3>5. Good(T) /\ NewUse(S, T, {}) /\ T.vec[in].hostUp
      BY <3>1, <3>2, <3>3, AssignDistributionGood
    <3>6. Calm(T)
      BY <3>3, MarkCalm
    <3> QED BY <3>4, <3>5, <3>6
  <2> QED BY <2>1, <2>2
<1> HIDE DEF T
<1>2. Room(T, in)
  BY <1>1, RoomStays
<1>3. Good(U) /\ Calm(U)
  BY <1>1, <1>2, CreateDeviceBuffersGood, CreateCalm
<1>4. U.queue = T.queue
  BY <1>1 DEF CreateDeviceBuffers, ForceCreateDeviceBuffers, NewBuffers, DropBuffers,
              Good, Machine
<1>5. U.vec[in].hostUp \/ U.vec[in].devUp
  <2>1. PICK b \in [Device -> BufferId \cup {NoBuffer}] :
          /\ U.vec[in] = [T.vec[in] EXCEPT !.buf = b]
          /\ \A d \in Device : b[d] # NoBuffer <=> d \in T.vec[in].dist.devices
    BY <1>1, <1>2, CreateDeviceBuffersGood
  <2>2. T.vec[in] \in VectorType
    BY <1>1, GoodRecord
  <2> HIDE DEF U
  <2> QED BY <1>1, <2>1, <2>2 DEF VectorType
<1>6. PrepareInput(S, in) = StartUpload(U, in)
  BY DEF PrepareInput, U, T
<1> HIDE DEF U
<1>7. \A w : Pending(U, "write", w) => Pending(S, "write", w)
  BY <1>1, <1>4, SameQueue
<1> QED BY <1>3, <1>5, <1>6, <1>7, StartUploadCalm

LEMMA EnlargeOutputCalm ==
  ASSUME NEW S, Good(S), Calm(S), NEW out \in Vector, NEW in \in Vector,
         S.vec[out].hostUp \/ S.vec[out].devUp, S.vec[in].size # 0,
         S.vec[out].size < S.vec[in].size => ~ Pending(S, "write", out)
  PROVE  Calm(EnlargeOutput(S, out, in))
<1>1. S.vec[in].size \in 1 .. MaxSize
  <2>1. S.vec[in].size \in 0 .. MaxSize
    BY GoodRecord
  <2> QED BY <2>1, MaxSizeAssumption
<1>2. Zero \in Elem
  BY ZeroAssumption DEF Elem
<1>3. ASSUME S.vec[out].size < S.vec[in].size
      PROVE  Calm(EnlargeOutput(S, out, in))
  <2>1. Calm(Resize(S, out, S.vec[in].size, Zero))
    BY <1>1, <1>2, <1>3, ResizeCalm
  <2> QED BY <1>3, <2>1 DEF EnlargeOutput
<1>4. ASSUME ~ (S.vec[out].size < S.vec[in].size)
      PROVE  Calm(EnlargeOutput(S, out, in))
  BY <1>4 DEF EnlargeOutput
<1> QED BY <1>3, <1>4

LEMMA ExecuteCalm ==
  ASSUME NEW S, Good(S), Calm(S), NEW out \in Vector, NEW in \in Vector
  PROVE  Calm(Execute(S, out, in))
<1> DEFINE cmds == [d \in S.vec[in].dist.devices |->
                      KernelCommand(S.vec[in].buf[d], S.vec[out].buf[d])]
           T == EnqueueEach(S, cmds)
<1>1. S \in Machine /\ S.vec[in] \in VectorType /\ S.vec[out] \in VectorType
  BY GoodRecord
<1>2. S.vec[in].dist.devices \subseteq Device
  BY <1>1, DistributionDevices DEF VectorType
<1>3. /\ DOMAIN cmds \subseteq Device
      /\ \A d \in DOMAIN cmds : cmds[d] \in Command /\ cmds[d].op \in {"kernel", "copy"}
  <2>1. ASSUME NEW d \in Device
        PROVE  /\ KernelCommand(S.vec[in].buf[d], S.vec[out].buf[d]) \in Command
               /\ KernelCommand(S.vec[in].buf[d], S.vec[out].buf[d]).op = "kernel"
    <3>1. /\ S.vec[in].buf[d] \in BufferId \cup {NoBuffer}
          /\ S.vec[out].buf[d] \in BufferId \cup {NoBuffer}
      BY <1>1 DEF VectorType
    <3> QED BY <3>1 DEF KernelCommand, Command
  <2> QED BY <1>2, <2>1
<1> HIDE DEF cmds
<1>4. Calm(T) /\ T \in Machine /\ T.vec = S.vec
  BY <1>1, <1>3, CalmEnqueue, EnqueueEachType
<1> HIDE DEF T
<1>5. Good(T)
  BY <1>4 DEF Good
<1>6. Calm(DataOnDeviceModified(T, out))
  BY <1>4, <1>5, MarkCalm
<1> QED BY <1>6 DEF Execute, T, cmds

LEMMA FinishMapCalm ==
  ASSUME NEW S, Good(S), Calm(S), NEW out \in Vector, NEW in \in Vector, out # in,
         IsValid(S.vec[in].dist), Room(S, out),
         S.vec[out].hostUp \/ ~ NeedsExchange(S.vec[out].dist, S.vec[in].dist)
  PROVE  Calm(Execute(AdoptDistribution(S, out, in), out, in))
<1> DEFINE dist == S.vec[in].dist
           T == AssignDistribution(S, out, dist)
           U == CreateDeviceBuffers(T, out)
<1>1. dist \in ValidDistribution
  <2>1. dist \in DistributionType
    BY GoodRecord
  <2> QED BY <2>1, DistributionDevices DEF DistributionType
<1>2. Good(T) /\ Calm(T) /\ NewUse(S, T, {})
  <2> HIDE DEF dist
  <2>1. S.vec[out].hostUp \/ ~ NeedsExchange(S.vec[out].dist, dist)
    BY DEF dist
  <2> QED BY <1>1, <2>1, MarkCalm, AssignDistributionGood
<1> HIDE DEF T
<1>3. Room(T, out)
  BY <1>2, RoomStays
<1>4. Good(U) /\ Calm(U)
  BY <1>2, <1>3, CreateDeviceBuffersGood, CreateCalm
<1>5. U = AdoptDistribution(S, out, in)
  BY DEF AdoptDistribution, U, T
<1> HIDE DEF U
<1>6. Calm(Execute(U, out, in))
  BY <1>4, ExecuteCalm
<1> QED BY <1>5, <1>6

\* The other calls that may wait.
LEMMA FinishCalm ==
  ASSUME NEW S, Good(S), Calm(S), NEW v \in Vector
  PROVE  /\ Calm(Finish(S, [op |-> "access", v |-> v]))
         /\ Calm(Finish(S, [op |-> "upload", v |-> v]))
         /\ \A i \in Nat, x \in Value : S.vec[v].hostUp =>
              Calm(Finish(S, [op |-> "write", v |-> v, i |-> i, x |-> x]))
         /\ \A dist \in ValidDistribution :
              Calm(Finish(S, [op |-> "setDistribution", v |-> v, dist |-> dist]))
<1>1. ASSUME NEW i \in Nat, NEW x \in Value, S.vec[v].hostUp
      PROVE  Calm(Finish(S, [op |-> "write", v |-> v, i |-> i, x |-> x]))
  <2> DEFINE T == StoreElement(S, v, i, x)
  <2>1. Good(T) /\ Calm(T)
    BY <1>1, StoreElementGood, MarkCalm DEF Elem
  <2> HIDE DEF T
  <2>2. Calm(DataOnHostModified(T, v))
    BY <2>1, MarkCalm
  <2> QED BY <2>2 DEF Finish, T
<1>2. ASSUME NEW dist \in ValidDistribution
      PROVE  Calm(Finish(S, [op |-> "setDistribution", v |-> v, dist |-> dist]))
  <2>1. Calm(AssignDistribution(S, v, dist))
    BY MarkCalm
  <2> QED BY <2>1 DEF Finish
<1>3. /\ Calm(Finish(S, [op |-> "access", v |-> v]))
      /\ Calm(Finish(S, [op |-> "upload", v |-> v]))
  BY DEF Finish
<1> QED BY <1>1, <1>2, <1>3

-----------------------------------------------------------------------------
(***************************************************************************)
(* The end of a step, where the client goes on or waits.                   *)
(***************************************************************************)
LEMMA CommitSame ==
  ASSUME NEW S \in Machine, Commit(S)
  PROVE  /\ \A d \in Device : Queued(Now, d)' = Queued(S, d)
         /\ vec' = S.vec
         /\ Moored(S) => Moored(Now)'
         /\ NoReads(S) => NoReads(Now)'
         /\ \A v : ReadsOf(S, v) => ReadsOf(Now, v)'
<1> DEFINE T == Release(S)
<1>1. T.vec = S.vec /\ T.queue = S.queue
  BY ReleaseType
<1>2. vec' = T.vec /\ queue' = T.queue
  BY DEF Commit
<1> HIDE DEF T
<1>3. Now'.vec = S.vec /\ Now'.queue = S.queue
  BY <1>1, <1>2 DEF Now
<1>4. \A d \in Device : Queued(Now, d)' = Queued(S, d)
  BY <1>3 DEF Queued
<1> QED BY <1>1, <1>2, <1>3, <1>4 DEF Moored, NoReads, ReadsOf, Anchored

LEMMA ReturnsCalm ==
  ASSUME NEW S, Good(S), Calm(S), Commit(S), pc' = Idle
  PROVE  Flight'
BY CommitSame DEF Good, Calm, Flight

LEMMA WaitsCalm ==
  ASSUME NEW S, Good(S), Calm(S), NEW v \in Vector, MustDownload(S, v),
         Commit(StartDownload(S, v)), pc'.v = v, pc' # Idle, pc'.op # "upload"
  PROVE  Flight'
<1> DEFINE T == StartDownload(S, v)
<1>1. T \in Machine
  BY StartDownloadGood DEF Good
<1>2. Moored(T) /\ ReadsOf(T, v)
  BY StartDownloadReads
<1> HIDE DEF T
<1>3. Commit(T)
  BY DEF T
<1>4. Moored(Now)' /\ ReadsOf(Now, v)'
  BY <1>1, <1>2, <1>3, CommitSame
<1> QED BY <1>4 DEF Flight

\* Calls are made while no download is in flight.
LEMMA ReadyCalm ==
  ASSUME Flight, NEW call, Ready(call)
  PROVE  Calm(Now)
BY DEF Flight, Ready, Calm

-----------------------------------------------------------------------------
(***************************************************************************)
(* One lemma per action, or group of actions.                              *)
(***************************************************************************)
LEMMA ConstructionsCalm ==
  ASSUME Patient, IInv, Flight, NEW v \in Vector
  PROVE  /\ DefaultConstruct(v) => Flight'
         /\ \A s \in Ranges, dist \in Dists : ConstructVector(v, s, dist) => Flight'
<1>1. Good(Now) /\ Now \in Machine
  BY Guards DEF Good
<1>2. ASSUME NEW r \in VectorType, Sound(r), r.buf = NoBuffers, pc = Idle, pc' = pc,
             Calm(Now), ~ Uploading(v), Commit(Replace(Now, v, r))
      PROVE  Flight'
  <2>1. Good(Replace(Now, v, r)) /\ Calm(Replace(Now, v, r))
    BY <1>1, <1>2, ReplaceGood, ReplaceCalm DEF Uploading
  <2> QED BY <1>2, <2>1, ReturnsCalm
<1>3. ASSUME DefaultConstruct(v)
      PROVE  Flight'
  <2>1. /\ Commit(Replace(Now, v, Default)) /\ ~ Uploading(v)
        /\ pc = Idle /\ pc' = pc /\ Calm(Now)
    BY <1>3, ReadyCalm DEF DefaultConstruct, Ready, Keeps, Patient
  <2> QED BY <1>2, <2>1, ConstructedSound
<1>4. ASSUME NEW s \in Ranges, NEW dist \in Dists, ConstructVector(v, s, dist)
      PROVE  Flight'
  <2>1. s \in Seq(Value) /\ Len(s) \in 1 .. MaxSize /\ dist \in DistributionType
    BY BoundAssumption
  <2>2. /\ Commit(Replace(Now, v, Constructed(s, dist))) /\ ~ Uploading(v)
        /\ pc = Idle /\ pc' = pc /\ Calm(Now)
    BY <1>4, ReadyCalm DEF ConstructVector, Ready, Keeps, Patient
  <2> QED BY <1>2, <2>1, <2>2, ConstructedSound
<1> QED BY <1>3, <1>4

LEMMA CopyMoveSwapCalm ==
  ASSUME Patient, IInv, Flight, NEW v \in Vector, NEW w \in Vector
  PROVE  CopyVector(v, w) \/ MoveVector(v, w) \/ SwapVectors(v, w) => Flight'
<1>1. Good(Now) /\ Now \in Machine /\ Now.vec[v] = vec[v] /\ Now.vec[w] = vec[w]
  BY Guards DEF Good
<1>2. ASSUME CopyVector(v, w)
      PROVE  Flight'
  <2>1. /\ v # w /\ Room(Now, w) /\ Commit(CopyConstruct(Now, v, w))
        /\ ~ Pending(Now, "write", w) /\ pc' = Idle /\ Calm(Now)
    BY <1>2, Guards, ReadyCalm DEF CopyVector, Ready, Keeps, Patient, Uploading
  <2>2. Good(CopyConstruct(Now, v, w)) /\ Calm(CopyConstruct(Now, v, w))
    BY <1>1, <2>1, CopyConstructGood, CopyConstructCalm
  <2> QED BY <2>1, <2>2, ReturnsCalm
<1>3. ASSUME MoveVector(v, w)
      PROVE  Flight'
  <2>1. /\ v # w /\ Commit(Move(Now, v, w))
        /\ ~ Pending(Now, "write", w) /\ pc' = Idle /\ Calm(Now)
    BY <1>3, ReadyCalm DEF MoveVector, Ready, Keeps, Patient, Uploading
  <2>2. Good(Move(Now, v, w)) /\ Calm(Move(Now, v, w))
    BY <1>1, <2>1, MoveGood, MoveCalm
  <2> QED BY <2>1, <2>2, ReturnsCalm
<1>4. ASSUME SwapVectors(v, w)
      PROVE  Flight'
  <2>1. /\ v # w /\ Commit(Swap(Now, v, w)) /\ HostOnly(v) /\ HostOnly(w)
        /\ pc' = Idle /\ Calm(Now)
    BY <1>4, ReadyCalm DEF SwapVectors, Ready, Keeps, Patient, Obedient
  <2>2. OnHostAlone(Now.vec[v]) /\ OnHostAlone(Now.vec[w])
    BY <1>1, <2>1, Guards
  <2>3. Good(Swap(Now, v, w)) /\ Calm(Swap(Now, v, w))
    BY <1>1, <2>1, <2>2, SwapGood, SwapCalm
  <2> QED BY <2>1, <2>3, ReturnsCalm
<1> QED BY <1>2, <1>3, <1>4

LEMMA ResizeVectorCalm ==
  ASSUME Patient, IInv, Flight, NEW v \in Vector, NEW n \in Sizes, NEW x \in Inputs,
         ResizeVector(v, n, x)
  PROVE  Flight'
<1>1. Good(Now) /\ Now.vec[v] = vec[v]
  BY Guards
<1>2. n \in 1 .. MaxSize /\ x \in Elem
  BY BoundAssumption DEF Elem
<1>3. /\ Commit(Resize(Now, v, n, x))
      /\ vec[v].hostUp \/ vec[v].devUp
      /\ ~ Pending(Now, "write", v) /\ pc' = Idle /\ Calm(Now)
  BY ReadyCalm DEF ResizeVector, Ready, Keeps, Patient, Uploading, Intact
<1>4. Good(Resize(Now, v, n, x)) /\ Calm(Resize(Now, v, n, x))
  BY <1>1, <1>2, <1>3, ResizeGood, ResizeCalm
<1> QED BY <1>3, <1>4, ReturnsCalm

LEMMA HostCallsCalm ==
  ASSUME Patient, IInv, Flight, NEW v \in Vector
  PROVE  /\ \A i \in 1 .. MaxSize, x \in Inputs : InsertElement(v, i, x) => Flight'
         /\ \A i \in 1 .. MaxSize : EraseElement(v, i) => Flight'
         /\ \A n \in Sizes, x \in Inputs : AssignAll(v, n, x) => Flight'
         /\ ClearVector(v) => Flight'
<1>1. Good(Now) /\ Now.vec[v] = vec[v]
  BY Guards
<1>2. HostOnly(v) => OnHostAlone(Now.vec[v])
  BY <1>1, Guards
<1>3. Inputs \subseteq Elem /\ Sizes \subseteq 0 .. MaxSize /\ Sizes \subseteq Nat
  BY BoundAssumption, MaxSizeAssumption DEF Elem
<1>4. ASSUME NEW i \in 1 .. MaxSize, NEW x \in Inputs, InsertElement(v, i, x)
      PROVE  Flight'
  <2>1. /\ HostOnly(v) /\ vec[v].size < MaxSize /\ i \in 1 .. Len(vec[v].host) + 1
        /\ Commit(Insert(Now, v, i, x))
        /\ ~ Pending(Now, "write", v) /\ pc' = Idle /\ Calm(Now)
    BY <1>4, ReadyCalm
       DEF InsertElement, Ready, Keeps, Patient, Obedient, Uploading
  <2>2. Good(Insert(Now, v, i, x)) /\ Calm(Insert(Now, v, i, x))
    BY <1>1, <1>2, <1>3, <2>1, InsertGood, HostMembersCalm
  <2> QED BY <2>1, <2>2, ReturnsCalm
<1>5. ASSUME NEW i \in 1 .. MaxSize, EraseElement(v, i)
      PROVE  Flight'
  <2>1. /\ HostOnly(v) /\ i \in 1 .. Len(vec[v].host) /\ Commit(Erase(Now, v, i))
        /\ ~ Pending(Now, "write", v) /\ pc' = Idle /\ Calm(Now)
    BY <1>5, ReadyCalm DEF EraseElement, Ready, Keeps, Patient, Obedient, Uploading
  <2>2. Good(Erase(Now, v, i)) /\ Calm(Erase(Now, v, i))
    BY <1>1, <1>2, <2>1, EraseGood, HostMembersCalm
  <2> QED BY <2>1, <2>2, ReturnsCalm
<1>6. ASSUME NEW n \in Sizes, NEW x \in Inputs, AssignAll(v, n, x)
      PROVE  Flight'
  <2>1. /\ HostOnly(v) /\ n = vec[v].size /\ Commit(Assign(Now, v, n, x))
        /\ ~ Pending(Now, "write", v) /\ pc' = Idle /\ Calm(Now)
    BY <1>6, ReadyCalm DEF AssignAll, Ready, Keeps, Patient, Obedient, Uploading
  <2>2. Good(Assign(Now, v, n, x)) /\ Calm(Assign(Now, v, n, x))
    BY <1>1, <1>2, <1>3, <2>1, AssignGood, HostMembersCalm
  <2> QED BY <2>1, <2>2, ReturnsCalm
<1>7. ASSUME ClearVector(v)
      PROVE  Flight'
  <2>1. /\ HostOnly(v) /\ Commit(Clear(Now, v))
        /\ ~ Pending(Now, "write", v) /\ pc' = Idle /\ Calm(Now)
    BY <1>7, ReadyCalm DEF ClearVector, Ready, Keeps, Patient, Obedient, Uploading
  <2>2. Good(Clear(Now, v)) /\ Calm(Clear(Now, v))
    BY <1>1, <1>2, <2>1, ClearGood, HostMembersCalm
  <2> QED BY <2>1, <2>2, ReturnsCalm
<1> QED BY <1>4, <1>5, <1>6, <1>7

LEMMA BufferCallsCalm ==
  ASSUME IInv, Flight, NEW v \in Vector
  PROVE  /\ CreateBuffers(v) \/ ForceCreateBuffers(v) => Flight'
         /\ BeginUpload(v) \/ CopyDataToDevices(v) => Flight'
         /\ MarkDeviceModified(v) \/ MarkHostModified(v) => Flight'
<1>1. Good(Now) /\ Now.vec[v] = vec[v]
  BY Guards
<1>2. ASSUME CreateBuffers(v)
      PROVE  Flight'
  <2>1. /\ Room(Now, v) /\ Commit(CreateDeviceBuffers(Now, v))
        /\ pc' = Idle /\ Calm(Now)
    BY <1>2, Guards, ReadyCalm DEF CreateBuffers, Ready
  <2>2. Good(CreateDeviceBuffers(Now, v)) /\ Calm(CreateDeviceBuffers(Now, v))
    BY <1>1, <2>1, CreateDeviceBuffersGood, CreateCalm
  <2> QED BY <2>1, <2>2, ReturnsCalm
<1>3. ASSUME ForceCreateBuffers(v)
      PROVE  Flight'
  <2>1. /\ Room(Now, v) /\ Commit(ForceCreateDeviceBuffers(Now, v))
        /\ pc' = Idle /\ Calm(Now)
    BY <1>3, Guards, ReadyCalm DEF ForceCreateBuffers, Ready
  <2>2. Good(ForceCreateDeviceBuffers(Now, v)) /\ Calm(ForceCreateDeviceBuffers(Now, v))
    BY <1>1, <2>1, ForceCreateDeviceBuffersGood, CreateCalm
  <2> QED BY <2>1, <2>2, ReturnsCalm
<1>4. ASSUME BeginUpload(v) \/ CopyDataToDevices(v)
      PROVE  Flight'
  <2>1. /\ Intact(v) /\ Commit(StartUpload(Now, v)) /\ Calm(Now)
        /\ pc' = Idle \/ pc'.op = "upload"
    BY <1>4, ReadyCalm DEF BeginUpload, CopyDataToDevices, Ready
  <2>2. Good(StartUpload(Now, v)) /\ Calm(StartUpload(Now, v))
    BY <1>1, <2>1, StartUploadGood, StartUploadCalm DEF Intact
  <2>3. Moored(Now)' /\ NoReads(Now)'
    BY <2>1, <2>2, CommitSame DEF Good, Calm
  <2>4. ReadsOf(Now, pc.v)'
    BY <2>3 DEF NoReads, ReadsOf
  <2> QED BY <2>3, <2>4 DEF Flight
<1>5. ASSUME MarkDeviceModified(v)
      PROVE  Flight'
  <2>1. /\ HasBuffers(Now, v) /\ Commit(DataOnDeviceModified(Now, v))
        /\ pc' = Idle /\ Calm(Now)
    BY <1>5, ReadyCalm DEF MarkDeviceModified, Ready
  <2>2. vec[v].dist \in DistributionType /\ Fitted(vec[v])
    BY <1>1, GoodRecord DEF Sound
  <2>3. \A d \in Device : vec[v].buf[d] # NoBuffer <=> d \in vec[v].dist.devices
    BY <1>1, <2>1, <2>2 DEF Fitted, HasBuffers
  <2>4. vec[v].dist.devices # {} /\ vec[v].dist.devices \subseteq Device
    BY <1>1, <2>1, <2>2, <2>3, DistributionDevices DEF HasBuffers
  <2>5. IsValid(vec[v].dist)
    BY <2>2, <2>4, DistributionDevices
  <2>6. Good(DataOnDeviceModified(Now, v)) /\ Calm(DataOnDeviceModified(Now, v))
    BY <1>1, <2>1, <2>3, <2>4, <2>5, DataOnDeviceModifiedGood, MarkCalm
  <2> QED BY <2>1, <2>6, ReturnsCalm
<1>6. ASSUME MarkHostModified(v)
      PROVE  Flight'
  <2>1. /\ vec[v].hostUp /\ Commit(DataOnHostModified(Now, v))
        /\ pc' = Idle /\ Calm(Now)
    BY <1>6, ReadyCalm DEF MarkHostModified, Ready
  <2>2. Good(DataOnHostModified(Now, v)) /\ Calm(DataOnHostModified(Now, v))
    BY <1>1, <2>1, DataOnHostModifiedGood, MarkCalm
  <2> QED BY <2>1, <2>2, ReturnsCalm
<1> QED BY <1>2, <1>3, <1>4, <1>5, <1>6

LEMMA WaitingCallsCalm ==
  ASSUME Patient, IInv, Flight, NEW v \in Vector
  PROVE  /\ Access(v) => Flight'
         /\ \A i \in 1 .. MaxSize, x \in Inputs : WriteElement(v, i, x) => Flight'
         /\ \A dist \in Dists \ {Invalid} : SetDistribution(v, dist) => Flight'
         /\ BeginDownload(v) => Flight'
<1>1. Good(Now) /\ Now.vec[v] = vec[v]
  BY Guards
<1>2. Intact(v) /\ ~ MustDownload(Now, v) => vec[v].hostUp
  BY <1>1 DEF Intact, MustDownload
<1>3. ASSUME Access(v)
      PROVE  Flight'
  <2> DEFINE k == [op |-> "access", v |-> v]
  <2>1. k.v = v /\ k # Idle /\ k.op # "upload" /\ Calm(Now)
    BY <1>3, ReadyCalm DEF Idle, Access
  <2>2. CASE MustDownload(Now, v) /\ Commit(StartDownload(Now, v)) /\ pc' = k
    BY <1>1, <2>1, <2>2, WaitsCalm
  <2>3. CASE Commit(Finish(Now, k)) /\ pc' = Idle
    BY <1>1, <2>1, <2>3, FinishGood, FinishCalm, ReturnsCalm
  <2> QED BY <1>3, <2>2, <2>3 DEF Access, After
<1>4. ASSUME NEW i \in 1 .. MaxSize, NEW x \in Inputs, WriteElement(v, i, x)
      PROVE  Flight'
  <2> DEFINE k == [op |-> "write", v |-> v, i |-> i, x |-> x]
  <2>1. k.v = v /\ k # Idle /\ k.op # "upload" /\ Calm(Now) /\ i \in Nat /\ x \in Value
    <3>1. Calm(Now) /\ i \in Nat /\ x \in Value
      BY <1>4, ReadyCalm, BoundAssumption, MaxSizeAssumption DEF WriteElement
    <3>2. k.op # Idle.op
      BY DEF Idle
    <3> QED BY <3>1, <3>2
  <2>2. CASE MustDownload(Now, v) /\ Commit(StartDownload(Now, v)) /\ pc' = k
    BY <1>1, <2>1, <2>2, WaitsCalm
  <2>3. CASE ~ MustDownload(Now, v) /\ Commit(Finish(Now, k)) /\ pc' = Idle
    <3>1. Now.vec[v].hostUp
      BY <1>1, <1>2, <1>4, <2>3 DEF WriteElement
    <3>2. Good(Finish(Now, k)) /\ Calm(Finish(Now, k))
      BY <1>1, <2>1, <3>1, FinishGood, FinishCalm
    <3> QED BY <2>3, <3>2, ReturnsCalm
  <2> QED BY <1>4, <2>2, <2>3 DEF WriteElement, After
<1>5. ASSUME NEW dist \in Dists \ {Invalid}, SetDistribution(v, dist)
      PROVE  Flight'
  <2> DEFINE k == [op |-> "setDistribution", v |-> v, dist |-> dist]
             need == NeedsExchange(vec[v].dist, dist)
  <2>1. /\ k.v = v /\ k # Idle /\ k.op # "upload" /\ Calm(Now)
        /\ dist \in ValidDistribution
    <3>1. Calm(Now) /\ dist \in ValidDistribution
      BY <1>5, ReadyCalm, BoundAssumption DEF SetDistribution, DistributionType
    <3>2. k.op # Idle.op
      BY DEF Idle
    <3> QED BY <3>1, <3>2
  <2>2. CASE MustDownload(Now, v) /\ Commit(StartDownload(Now, v)) /\ pc' = k
    BY <1>1, <2>1, <2>2, WaitsCalm
  <2>3. CASE /\ ~ (need /\ MustDownload(Now, v)) /\ Commit(Finish(Now, k))
             /\ pc' = Idle
    <3>1. Now.vec[v].hostUp \/ ~ NeedsExchange(Now.vec[v].dist, dist)
      BY <1>1, <1>2, <1>5, <2>3 DEF SetDistribution
    <3>2. Good(Finish(Now, k)) /\ Calm(Finish(Now, k))
      BY <1>1, <2>1, <3>1, FinishGood, FinishCalm
    <3> QED BY <2>3, <3>2, ReturnsCalm
  <2> QED BY <1>5, <2>2, <2>3 DEF SetDistribution, After
<1>6. ASSUME BeginDownload(v)
      PROVE  Flight'
  <2> DEFINE k == [op |-> "access", v |-> v]
  <2>1. k.v = v /\ k # Idle /\ k.op # "upload" /\ Calm(Now)
    BY <1>6, ReadyCalm DEF Idle, BeginDownload
  <2>2. /\ MustDownload(Now, v) /\ Commit(StartDownload(Now, v)) /\ pc' = k
    BY <1>6 DEF BeginDownload, Patient
  <2> QED BY <1>1, <2>1, <2>2, WaitsCalm
<1> QED BY <1>3, <1>4, <1>5, <1>6

LEMMA MapCallCalm ==
  ASSUME Patient, IInv, Flight, NEW out \in Vector, NEW in \in Vector, MapCall(out, in)
  PROVE  Flight'
<1> DEFINE P == PrepareInput(Now, in)
           E == EnlargeOutput(P, out, in)
           dist == IF IsValid(vec[in].dist) THEN vec[in].dist ELSE Block
           exchange == out # in /\ NeedsExchange(vec[out].dist, dist)
           k == [op |-> "map", v |-> out, w |-> in]
<1>1. Good(Now) /\ Now.vec[in] = vec[in] /\ Now.vec[out] = vec[out] /\ Calm(Now)
  BY Guards, ReadyCalm DEF MapCall
<1>2. /\ Room(Now, in) /\ Room(Now, out)
      /\ vec[in].hostUp \/ vec[in].devUp
      /\ vec[out].hostUp \/ vec[out].devUp
      /\ vec[in].size # 0
  BY Guards DEF MapCall, Intact
<1>3. /\ After(E, exchange, k)
      /\ vec[out].size < vec[in].size => ~ Pending(Now, "write", out)
  BY DEF MapCall, Keeps, Patient, Uploading
<1>4. /\ Good(P) /\ NewUse(Now, P, {in})
      /\ \A w \in Vector \ {in} : P.vec[w] = vec[w]
      /\ P.vec[in].size = vec[in].size
      /\ P.vec[in].dist = dist
      /\ \A d \in P.vec[in].dist.devices : P.vec[in].buf[d] # NoBuffer
  <2>1. /\ Good(P) /\ NewUse(Now, P, {in})
        /\ \A w \in Vector \ {in} : P.vec[w] = Now.vec[w]
        /\ P.vec[in].size = Now.vec[in].size
        /\ P.vec[in].dist = IF IsValid(Now.vec[in].dist) THEN Now.vec[in].dist
                            ELSE Block
        /\ \A d \in P.vec[in].dist.devices : P.vec[in].buf[d] # NoBuffer
    BY <1>1, <1>2, PrepareInputGood
  <2>2. Now.vec = vec
    BY DEF Now
  <2> HIDE DEF P
  <2> QED BY <2>1, <2>2
<1>5. /\ Calm(P) /\ IsValid(dist)
      /\ out # in /\ Pending(P, "write", out) => Pending(Now, "write", out)
  <2>1. /\ Calm(P)
        /\ \A w \in Vector \ {in} : Pending(P, "write", w) => Pending(Now, "write", w)
    BY <1>1, <1>2, PrepareInputCalm
  <2> HIDE DEF P
  <2> QED BY <2>1 DEF IsValid, Block
<1>6. P.vec[out].hostUp \/ P.vec[out].devUp
  <2>1. CASE out # in
    BY <1>2, <1>4, <2>1
  <2>2. CASE out = in
    BY <1>2, <1>4, <2>2, GoodRecord DEF Sound
  <2> QED BY <2>1, <2>2
<1>7. out # in => Room(P, out)
  BY <1>2, <1>4, RoomStays
<1> HIDE DEF P, dist
<1>8. /\ Good(E) /\ NewUse(P, E, {})
      /\ out = in => E = P
      /\ \A w \in Vector \ {out} : E.vec[w] = P.vec[w]
      /\ E.vec[out].dist = P.vec[out].dist
      /\ E.vec[out].hostUp \/ E.vec[out].devUp
  BY <1>2, <1>4, <1>6, EnlargeOutputGood
<1>9. Calm(E)
  <2>1. P.vec[in].size # 0
    BY <1>2, <1>4
  <2>2. P.vec[out].size < P.vec[in].size => ~ Pending(P, "write", out)
    <3>1. CASE out = in
      <4>1. P.vec[in].size \in 0 .. MaxSize
        BY <1>4, GoodRecord
      <4> QED BY <3>1, <4>1, MaxSizeAssumption
    <3>2. CASE out # in
      BY <1>3, <1>4, <1>5, <3>2
    <3> QED BY <3>1, <3>2
  <2> QED BY <1>4, <1>5, <1>6, <2>1, <2>2, EnlargeOutputCalm
<1> HIDE DEF E
<1>10. out # in => Room(E, out) /\ E.vec[in].dist = dist /\ E.vec[out].dist = vec[out].dist
  BY <1>4, <1>7, <1>8, RoomStays
<1>11. k.v = out /\ k # Idle /\ k.op # "upload"
  <2>1. k.op # Idle.op
    BY DEF Idle
  <2> QED BY <2>1
<1>12. CASE exchange /\ MustDownload(E, out)
  <2>1. Commit(StartDownload(E, out)) /\ pc' = k
    BY <1>3, <1>12 DEF After
  <2> QED BY <1>8, <1>9, <1>11, <1>12, <2>1, WaitsCalm
<1>13. CASE ~ (exchange /\ MustDownload(E, out))
  <2>1. Commit(Finish(E, k)) /\ pc' = Idle
    BY <1>3, <1>13 DEF After
  <2>2. Finish(E, k) = Execute(AdoptDistribution(E, out, in), out, in)
    BY DEF Finish
  <2>3. CASE out = in
    <3>1. AdoptDistribution(E, out, in) = P
      BY <1>8, <2>3 DEF AdoptDistribution
    <3>2. Good(Execute(P, out, in)) /\ Calm(Execute(P, out, in))
      BY <1>4, <1>5, <2>3, ExecuteGood, ExecuteCalm
    <3> QED BY <2>1, <2>2, <3>1, <3>2, ReturnsCalm
  <2>4. CASE out # in
    <3>1. E.vec[out].hostUp \/ ~ NeedsExchange(E.vec[out].dist, E.vec[in].dist)
      BY <1>8, <1>10, <1>13, <2>4 DEF MustDownload
    <3>2. /\ Good(Execute(AdoptDistribution(E, out, in), out, in))
          /\ Calm(Execute(AdoptDistribution(E, out, in), out, in))
      BY <1>5, <1>8, <1>9, <1>10, <2>4, <3>1, FinishMapGood, FinishMapCalm
    <3> QED BY <2>1, <2>2, <3>2, ReturnsCalm
  <2> QED BY <2>3, <2>4
<1> QED BY <1>12, <1>13

\* A call that goes on has waited for all downloads in flight.
LEMMA WaitEndsCalm ==
  ASSUME IInv, Flight, Resume
  PROVE  Calm(Now)
<1>1. pc # Idle /\ pc \in Continuation /\ Moored(Now) /\ ReadsOf(Now, pc.v)
  BY DEF Resume, IInv, PcOK, Flight
<1>2. CASE pc.op = "upload"
  BY <1>1, <1>2 DEF Flight, Calm
<1>3. CASE pc.op # "upload"
  <2>1. ASSUME NEW d \in Device, NEW c \in Queued(Now, d), c.op = "read"
        PROVE  c \in Awaited(Now, pc, d)
    BY <1>1, <1>3, <2>1 DEF ReadsOf, Awaited
  <2>2. NoReads(Now)
    BY <2>1 DEF NoReads, Resume
  <2> QED BY <1>1, <2>2 DEF Calm
<1> QED BY <1>2, <1>3

LEMMA ResumeCalm ==
  ASSUME IInv, Flight, Resume
  PROVE  Flight'
<1>1. Good(Now) /\ (\A v \in Vector : Now.vec[v] = vec[v]) /\ Calm(Now)
  BY Guards, WaitEndsCalm
<1>2. Commit(Finish(Now, pc)) /\ pc \in Continuation /\ pc' = Idle
  BY DEF Resume, IInv, PcOK
<1>3. Good(Finish(Now, pc)) /\ Calm(Finish(Now, pc))
  <2>1. CASE pc \in [op : {"access", "upload"}, v : Vector]
    BY <1>1, <2>1 DEF Finish
  <2>2. CASE pc \in [op : {"write"}, v : Vector, i : Nat, x : Value]
    <3>1. /\ pc.v \in Vector /\ pc.i \in Nat /\ pc.x \in Value
          /\ pc = [op |-> "write", v |-> pc.v, i |-> pc.i, x |-> pc.x]
      BY <2>2
    <3>2. Now.vec[pc.v].hostUp
      BY <1>1, <2>2 DEF IInv, PcOK
    <3> QED BY <1>1, <3>1, <3>2, FinishGood, FinishCalm
  <2>3. CASE pc \in [op : {"setDistribution"}, v : Vector, dist : ValidDistribution]
    <3>1. /\ pc.v \in Vector /\ pc.dist \in ValidDistribution
          /\ pc = [op |-> "setDistribution", v |-> pc.v, dist |-> pc.dist]
      BY <2>3
    <3>2. Now.vec[pc.v].hostUp
      BY <1>1, <2>3 DEF IInv, PcOK
    <3> QED BY <1>1, <3>1, <3>2, FinishGood, FinishCalm
  <2>4. CASE pc \in [op : {"map"}, v : Vector, w : Vector]
    <3>1. pc.op = "map" /\ pc.v \in Vector /\ pc.w \in Vector
      BY <2>4
    <3>2. /\ pc.v # pc.w /\ Room(Now, pc.v)
          /\ IsValid(Now.vec[pc.w].dist) /\ Now.vec[pc.v].hostUp
      BY <1>1, <3>1 DEF IInv, PcOK
    <3>3. /\ Good(Execute(AdoptDistribution(Now, pc.v, pc.w), pc.v, pc.w))
          /\ Calm(Execute(AdoptDistribution(Now, pc.v, pc.w), pc.v, pc.w))
      BY <1>1, <3>1, <3>2, FinishMapGood, FinishMapCalm
    <3> QED BY <3>1, <3>3 DEF Finish
  <2> QED BY <1>2, <2>1, <2>2, <2>3, <2>4 DEF Continuation
<1> QED BY <1>2, <1>3, ReturnsCalm

\* A device takes commands out of its queue, and changes no length and no record.
LEMMA DeviceStepCalm ==
  ASSUME IInv, Flight, NEW d \in Device, DeviceStep(d)
  PROVE  Flight'
<1> DEFINE T == RunHead(Now, d)
<1>1. Now \in Machine /\ Now.vec = vec /\ Now.queue = queue
  BY DEF IInv, Good, Now
<1>2. Commit(T) /\ queue[d] # << >> /\ pc' = pc
  BY DEF DeviceStep
<1>3. T \in Machine /\ \A e \in Device : Queued(T, e) \subseteq Queued(Now, e)
  BY <1>1, <1>2, RunHeadType
<1>4. PICK h \in [Vector -> Seq(Elem)] :
        \A v \in Vector : /\ T.vec[v] = [Now.vec[v] EXCEPT !.host = h[v]]
                          /\ Len(h[v]) = Len(Now.vec[v].host)
  BY <1>1, <1>2, RunHeadType
<1> HIDE DEF T
<1>5. \A v \in Vector : Now.vec[v] \in VectorType
  BY <1>1, MachineParts
<1>6. \A v \in Vector : /\ T.vec[v].size = Now.vec[v].size
                        /\ T.vec[v].buf = Now.vec[v].buf
                        /\ Len(T.vec[v].host) = Len(Now.vec[v].host)
  BY <1>4, <1>5 DEF VectorType
<1>7. Moored(T)
  BY <1>3, <1>6 DEF Flight, Moored, Anchored
<1>8. pc = Idle \/ pc.op = "upload" => NoReads(T)
  BY <1>3 DEF Flight, NoReads
<1>9. ASSUME pc # Idle
      PROVE  ReadsOf(T, pc.v)
  <2>1. pc.v \in Vector
    BY <1>9 DEF IInv, PcOK, Continuation
  <2> QED BY <1>3, <1>6, <1>9, <2>1 DEF Flight, ReadsOf
<1>10. /\ Moored(Now)'
       /\ pc = Idle \/ pc.op = "upload" => NoReads(Now)'
       /\ pc # Idle => \A v : v = pc.v => ReadsOf(Now, v)'
  BY <1>2, <1>3, <1>7, <1>8, <1>9, CommitSame
<1> QED BY <1>2, <1>10 DEF Flight

LEMMA InitFlight == Init => Flight
<1>1. ASSUME Init
      PROVE  /\ pc = Idle
             /\ \A d \in Device : Queued(Now, d) = {}
  BY <1>1 DEF Init, Now, Queued
<1> QED BY <1>1 DEF Flight, Moored, NoReads

LEMMA NextFlight ==
  ASSUME Patient, IInv, Flight, [Next]_vars
  PROVE  Flight'
<1>1. ASSUME HostStep
      PROVE  Flight'
  BY <1>1, ConstructionsCalm, CopyMoveSwapCalm, ResizeVectorCalm, HostCallsCalm,
     BufferCallsCalm, WaitingCallsCalm, MapCallCalm DEF HostStep
<1>2. ASSUME UNCHANGED vars
      PROVE  Flight'
  BY <1>2 DEF vars, Now, Flight, Moored, NoReads, ReadsOf, Anchored, Queued
<1> QED
  BY <1>1, <1>2, ResumeCalm, DeviceStepCalm DEF Next

-----------------------------------------------------------------------------
(***************************************************************************)
(* The two invariants are inductive together.                              *)
(***************************************************************************)
THEOREM FlightIsSafe == ASSUME Patient PROVE Spec => [](IInv /\ Flight)
<1>1. Obedient
  BY DEF Patient
<1>2. Init => IInv /\ Flight
  BY InitIInv, InitFlight
<1>3. (IInv /\ Flight) /\ [Next]_vars => (IInv /\ Flight)'
  BY <1>1, NextIInv, NextFlight
<1> QED BY <1>2, <1>3, PTL DEF Spec

(***************************************************************************)
(* However the memory of vectors moves while uploads are in flight, by     *)
(* moves, swaps and the resizing that a download of the same vector begins *)
(* with, no upload is left with a pointer into memory that was freed.      *)
(***************************************************************************)
THEOREM UploadsStayMoored == ASSUME Patient PROVE Spec => []NoDanglingUpload
<1>1. Flight => NoDanglingUpload
  BY DEF Flight, Moored, Anchored, NoDanglingUpload
<1> QED BY <1>1, FlightIsSafe, PTL

(***************************************************************************)
(* Whatever call started a download, no part of it is in flight when the   *)
(* client runs again: what the accessors return is the data.               *)
(***************************************************************************)
THEOREM AccessCompletes == ASSUME Patient PROVE Spec => []AccessIsComplete
<1>1. Flight => AccessIsComplete
  BY DEF Flight, NoReads, Pending, AccessIsComplete
<1> QED BY <1>1, FlightIsSafe, PTL

-----------------------------------------------------------------------------
(***************************************************************************)
(* The theorem that no command in flight reads or writes outside the host  *)
(* memory and the buffers it was given.                                    *)
(*                                                                         *)
(* Clients keep all rules but one: a download may overtake an upload.      *)
(***************************************************************************)

Prudent == Broken \subseteq {"settled"}

(***************************************************************************)
(* The parts that a distribution gives to the devices lie side by side in  *)
(* the host copy: the offset of a device and the length of its buffer stay *)
(* within the size of the vector.  The offset counts the elements of the   *)
(* buffers before it, which are a rectangle: the devices before the last   *)
(* have equally many.                                                      *)
(***************************************************************************)
LEMMA Product ==
  ASSUME NEW a \in Nat, NEW b \in Nat, NEW c \in Nat, a <= b
  PROVE  a * c <= b * c /\ a * c \in Nat /\ a * c + c = (a + 1) * c
<1>1. PICK k \in Nat : b = a + k
  <2>1. b - a \in Nat /\ b = a + (b - a)
    OBVIOUS
  <2> QED BY <2>1
<1>2. k * c \in Nat /\ a * c \in Nat /\ (a + k) * c = a * c + k * c
  OBVIOUS
<1> QED BY <1>1, <1>2

LEMMA PartsFit ==
  ASSUME NEW S, Good(S), NEW v \in Vector, Sized(S, v),
         \A e \in S.vec[v].dist.devices : S.vec[v].buf[e] # NoBuffer,
         NEW d \in S.vec[v].dist.devices
  PROVE  HostOffset(S, v, d) + Len(Contents(S, d, S.vec[v].buf[d])) <= S.vec[v].size
<1> DEFINE r == S.vec[v]
           n == S.vec[v].size
           len(e) == Len(Contents(S, e, r.buf[e]))
<1>1. /\ r \in VectorType /\ n \in 0 .. MaxSize /\ r.dist \in DistributionType
      /\ MaxSize \in Nat
  BY GoodRecord, MaxSizeAssumption
<1>2. r.dist.devices \subseteq Device
  BY <1>1, DistributionDevices
<1>3. ASSUME NEW e \in r.dist.devices
      PROVE  len(e) = SizeForDevice(r.dist, n, e)
  <2>1. r.buf[e] \in BufferId
    BY <1>1, <1>2 DEF VectorType
  <2> QED BY <1>2, <2>1 DEF Sized, Contents
<1>4. CASE r.dist.kind # "block"
  <2>1. HostOffset(S, v, d) = 0
    BY <1>4 DEF HostOffset
  <2>2. len(d) = n
    <3>1. r.dist.kind \in {"single", "copy"}
      BY <1>1, <1>4 DEF DistributionType, ValidDistribution, Single, Block, Copy, Invalid
    <3>2. len(d) = SizeForDevice(r.dist, n, d)
      BY <1>3
    <3> HIDE DEF len
    <3> QED BY <3>1, <3>2 DEF SizeForDevice
  <2> HIDE DEF len
  <2>3. HostOffset(S, v, d) + len(d) <= n
    BY <1>1, <2>1, <2>2
  <2> QED BY <2>3 DEF len
<1>5. CASE r.dist.kind = "block"
  <2> DEFINE q == Quota(n)
  <2>1. r.dist.devices = Device
    BY <1>1, <1>5 DEF DistributionType, ValidDistribution, Single, Block, Copy, Invalid
  <2>2. /\ q \in Nat /\ LastDevice * q <= n
        /\ d \in Nat /\ d <= LastDevice /\ LastDevice \in Nat
    <3>1. q \in Nat /\ LastDevice * q <= n
      BY <1>1, QuotaAssumption
    <3>2. NumDevices \in Nat \ {0} /\ d \in 0 .. NumDevices - 1
      BY <2>1, NumDevicesAssumption DEF Device
    <3>3. d \in Nat /\ d <= LastDevice /\ LastDevice \in Nat
      BY <3>2 DEF LastDevice
    <3> QED BY <3>1, <3>3
  <2>3. \A e \in Device : len(e) = IF e < LastDevice THEN q ELSE n - LastDevice * q
    BY <1>3, <1>5, <2>1 DEF SizeForDevice, BlockSize
  <2> HIDE DEF q, len
  <2>4. d # 0 => q <= MaxSize
    <3>1. ASSUME d # 0
          PROVE  q <= LastDevice * q
      <4>1. 1 * q <= LastDevice * q
        BY <2>2, <3>1, Product
      <4> QED BY <2>2, <4>1
    <3>2. LastDevice * q \in Nat
      BY <2>2, Product
    <3> QED BY <1>1, <2>2, <3>1, <3>2
  <2>5. HostOffset(S, v, d) = d * q
    <3> DEFINE before == {x \in (0 .. d - 1) \X (1 .. MaxSize) : x[2] <= len(x[1])}
    <3>1. HostOffset(S, v, d) = Cardinality(before)
      BY <1>5 DEF HostOffset, ElementsBefore, len
    <3>2. \A e \in 0 .. d - 1 : len(e) = q
      BY <2>2, <2>3, NumDevicesAssumption DEF Device, LastDevice
    <3>3. before = (0 .. d - 1) \X (1 .. q)
      <4>1. CASE d = 0
        BY <4>1
      <4>2. CASE d # 0
        BY <1>1, <2>2, <2>4, <3>2, <4>2
      <4> QED BY <4>1, <4>2
    <3> HIDE DEF before
    <3>4. /\ IsFiniteSet(0 .. d - 1) /\ Cardinality(0 .. d - 1) = d
          /\ IsFiniteSet(1 .. q) /\ Cardinality(1 .. q) = q
      BY <2>2, FS_Interval
    <3>5. Cardinality((0 .. d - 1) \X (1 .. q)) = d * q
      BY <3>4, FS_Product
    <3> QED BY <3>1, <3>3, <3>5
  <2>6. d * q + len(d) <= n
    <3>1. CASE d = LastDevice
      <4>1. len(d) = n - LastDevice * q
        <5>1. d \in Device /\ ~ (d < LastDevice)
          BY <1>2, <2>2, <3>1
        <5> QED BY <2>3, <5>1
      <4>2. d * q = LastDevice * q /\ LastDevice * q \in Nat
        BY <2>2, <3>1, Product
      <4> QED BY <1>1, <4>1, <4>2
    <3>2. CASE d # LastDevice
      <4>1. len(d) = q
        BY <1>2, <2>2, <2>3, <3>2
      <4>2. d * q + q <= LastDevice * q
        <5>1. d + 1 \in Nat /\ d + 1 <= LastDevice
          BY <2>2, <3>2
        <5>2. (d + 1) * q <= LastDevice * q
          BY <2>2, <5>1, Product
        <5>3. d * q + q = (d + 1) * q
          BY <2>2, Product
        <5> QED BY <5>2, <5>3
      <4>3. d * q \in Nat /\ LastDevice * q \in Nat
        BY <2>2, Product
      <4> QED BY <1>1, <2>2, <4>1, <4>2, <4>3
    <3> QED BY <3>1, <3>2
  <2> QED BY <2>5, <2>6 DEF len
<1> QED BY <1>4, <1>5

-----------------------------------------------------------------------------
(***************************************************************************)
(* What is invariant: a transfer stays within the size of its vector,      *)
(* whatever the length of the host copy, and a kernel or copy within what  *)
(* it writes.                                                              *)
(***************************************************************************)
Within(S, d, c) ==
  IF c.op \in {"read", "write"}
  THEN c.vec \in Vector =>
         \A b \in {c.from, c.to} :
           c.off + Len(Contents(S, d, b)) <= S.vec[c.vec].size
  ELSE /\ {c.from, c.to} \subseteq BufferId
       /\ Len(Contents(S, d, c.from)) <= Len(Contents(S, d, c.to))

Bounded(S) == \A d \in Device : \A c \in Queued(S, d) : Within(S, d, c)

\* Each command of T is one of S; it moves the data of the vector that owns now
\* what it moved then, or it has lost its memory.
Descends(S, T, owner) ==
  \A d \in Device : \A c \in Queued(T, d) : \E e \in Queued(S, d) :
    /\ c.op = e.op /\ c.from = e.from /\ c.to = e.to /\ c.off = e.off
    /\ c.vec \in Vector => e.vec \in Vector /\ c.vec = owner[e.vec]

\* The buffers in use keep their lengths.
Lasting(S, T) ==
  \A d \in Device, b \in BufferId :
    b \in Live(S, d) => Len(T.mem[d][b]) = Len(S.mem[d][b])

LEMMA Inherit ==
  ASSUME NEW S, NEW T, NEW owner, Bounded(S), Descends(S, T, owner), Lasting(S, T),
         \A v \in Vector :
           (Pending(S, "read", v) \/ Pending(S, "write", v)) /\ owner[v] \in Vector =>
             T.vec[owner[v]].size = S.vec[v].size
  PROVE  Bounded(T)
<1>1. SUFFICES ASSUME NEW d \in Device, NEW c \in Queued(T, d)
               PROVE  Within(T, d, c)
  BY DEF Bounded
<1>2. PICK e \in Queued(S, d) :
        /\ c.op = e.op /\ c.from = e.from /\ c.to = e.to /\ c.off = e.off
        /\ c.vec \in Vector => e.vec \in Vector /\ c.vec = owner[e.vec]
  BY <1>1 DEF Descends
<1>3. Within(S, d, e)
  BY DEF Bounded
<1>4. ASSUME NEW b \in {e.from, e.to}
      PROVE  Len(Contents(T, d, b)) = Len(Contents(S, d, b))
  <2>1. b \in Live(S, d)
    BY InUse
  <2> QED BY <2>1 DEF Lasting, Contents
<1>5. CASE e.op \in {"read", "write"}
  <2>1. SUFFICES ASSUME c.vec \in Vector, NEW b \in {c.from, c.to}
                 PROVE  c.off + Len(Contents(T, d, b)) <= T.vec[c.vec].size
    BY <1>2, <1>5 DEF Within
  <2>2. e.vec \in Vector /\ c.vec = owner[e.vec]
    BY <1>2, <2>1
  <2>3. T.vec[c.vec].size = S.vec[e.vec].size
    BY <1>5, <2>1, <2>2 DEF Pending
  <2>4. e.off + Len(Contents(S, d, b)) <= S.vec[e.vec].size
    BY <1>2, <1>3, <1>5, <2>1, <2>2 DEF Within
  <2> QED BY <1>2, <1>4, <2>1, <2>3, <2>4
<1>6. CASE e.op \notin {"read", "write"}
  BY <1>2, <1>3, <1>4, <1>6 DEF Within
<1> QED BY <1>5, <1>6

LEMMA DescendsSame ==
  ASSUME NEW S, NEW T, \A d \in Device : Queued(T, d) \subseteq Queued(S, d)
  PROVE  Descends(S, T, Identity)
<1>1. ASSUME NEW d \in Device, NEW c \in Queued(T, d)
      PROVE  c \in Queued(S, d) /\ (c.vec \in Vector => c.vec = Identity[c.vec])
  BY DEF Identity
<1> QED BY <1>1 DEF Descends

LEMMA LastingSame ==
  ASSUME NEW S, NEW T, T.mem = S.mem
  PROVE  Lasting(S, T)
BY DEF Lasting

LEMMA DescendsRedirect ==
  ASSUME NEW S \in Machine, NEW owner \in [Vector -> Vector \cup {Nobody}],
         NEW T, T.queue = Redirect(S, owner).queue
  PROVE  Descends(S, T, owner)
<1> DEFINE R == Redirect(S, owner)
<1>1. SUFFICES ASSUME NEW d \in Device, NEW c \in Queued(T, d)
               PROVE  \E e \in Queued(S, d) :
                 /\ c.op = e.op /\ c.from = e.from /\ c.to = e.to /\ c.off = e.off
                 /\ c.vec \in Vector => e.vec \in Vector /\ c.vec = owner[e.vec]
  BY DEF Descends
<1>2. c \in Queued(R, d)
  BY <1>1 DEF Queued
<1>3. PICK e \in Queued(S, d) :
        /\ c.op = e.op /\ c.from = e.from /\ c.to = e.to /\ c.off = e.off
        /\ c.vec = IF e.vec \in Vector THEN owner[e.vec] ELSE e.vec
  BY <1>2, RedirectQueued
<1> QED BY <1>3

\* Transfers of v lose their memory: those that are left are what they were.
LEMMA DescendsDetached ==
  ASSUME NEW S \in Machine, NEW v \in Vector,
         NEW T, T.queue = Redirect(S, [Identity EXCEPT ![v] = Nobody]).queue
  PROVE  Descends(S, T, Identity)
<1> DEFINE owner == [Identity EXCEPT ![v] = Nobody]
<1>1. /\ owner \in [Vector -> Vector \cup {Nobody}]
      /\ \A w \in Vector : owner[w] \in Vector => owner[w] = Identity[w]
  BY NobodyAssumption DEF Identity
<1>2. T.queue = Redirect(S, owner).queue
  OBVIOUS
<1> HIDE DEF owner
<1>3. Descends(S, T, owner)
  BY <1>1, <1>2, DescendsRedirect
<1> QED BY <1>1, <1>3 DEF Descends

LEMMA SetHostDescends ==
  ASSUME NEW S \in Machine, NEW v \in Vector, NEW s \in Seq(Elem)
  PROVE  Descends(S, SetHost(S, v, s), Identity)
<1> DEFINE R == Redirect(S, [Identity EXCEPT ![v] = Nobody])
           H == SetHost(S, v, s)
<1>1. R \in Machine
  BY RedirectType DEF Identity
<1> HIDE DEF R
<1>2. CASE Len(s) > Len(S.vec[v].host)
  <2>1. H = [R EXCEPT !.vec[v].host = s]
    BY <1>2 DEF SetHost, R
  <2>2. H.queue = R.queue
    BY <1>1, <2>1 DEF Machine
  <2> HIDE DEF H
  <2>3. Descends(S, H, Identity)
    BY <2>2, DescendsDetached DEF R
  <2> QED BY <2>3 DEF H
<1>3. CASE ~ (Len(s) > Len(S.vec[v].host))
  <2>1. H = [S EXCEPT !.vec[v].host = s]
    BY <1>3 DEF SetHost
  <2>2. H.queue = S.queue
    BY <2>1 DEF Machine
  <2> HIDE DEF H
  <2>3. Descends(S, H, Identity)
    BY <2>2, SameQueue, DescendsSame
  <2> QED BY <2>3 DEF H
<1> QED BY <1>2, <1>3

\* A machine in which at most v has another size, and v only if it has no
\* transfer in flight.
LEMMA BoundedOne ==
  ASSUME NEW S, Bounded(S), NEW v \in Vector,
         NEW T, Descends(S, T, Identity), T.mem = S.mem,
         \A w \in Vector \ {v} : T.vec[w].size = S.vec[w].size,
         \/ T.vec[v].size = S.vec[v].size
         \/ ~ Pending(S, "read", v) /\ ~ Pending(S, "write", v)
  PROVE  Bounded(T)
<1>1. \A w \in Vector :
        (Pending(S, "read", w) \/ Pending(S, "write", w)) /\ Identity[w] \in Vector =>
          T.vec[Identity[w]].size = S.vec[w].size
  BY DEF Identity
<1>2. Lasting(S, T)
  BY LastingSame
<1> QED BY <1>1, <1>2, Inherit

LEMMA CalmPending ==
  ASSUME NEW S, Calm(S), NEW v \in Vector
  PROVE  ~ Pending(S, "read", v)
BY DEF Calm, NoReads, Pending

\* The record of one vector changes, but not its size.
LEMMA BoundedRecord ==
  ASSUME NEW S \in Machine, Bounded(S), NEW v \in Vector, NEW r, r.size = S.vec[v].size
  PROVE  Bounded(WithRecord(S, v, r))
<1> DEFINE T == WithRecord(S, v, r)
<1>1. T.queue = S.queue /\ T.mem = S.mem /\ T.vec = [S.vec EXCEPT ![v] = r]
  BY DEF WithRecord, Machine
<1> HIDE DEF T
<1>2. \A w \in Vector : T.vec[w].size = S.vec[w].size
  BY <1>1, MachineParts
<1>3. Descends(S, T, Identity)
  BY <1>1, SameQueue, DescendsSame
<1>4. Bounded(T)
  BY <1>1, <1>2, <1>3, BoundedOne
<1> QED BY <1>4 DEF T

LEMMA BoundedEnqueue ==
  ASSUME NEW S \in Machine, Bounded(S), NEW cmds, DOMAIN cmds \subseteq Device,
         \A d \in DOMAIN cmds : cmds[d] \in Command /\ Within(S, d, cmds[d])
  PROVE  Bounded(EnqueueEach(S, cmds))
<1> DEFINE T == EnqueueEach(S, cmds)
<1>1. /\ T.vec = S.vec /\ T.mem = S.mem
      /\ \A d \in Device : Queued(T, d) \subseteq
           Queued(S, d) \cup {cmds[e] : e \in DOMAIN cmds \cap {d}}
  BY EnqueueEachType
<1> HIDE DEF T
<1>2. ASSUME NEW d \in Device, NEW c \in Queued(T, d)
      PROVE  Within(T, d, c)
  <2>1. Within(S, d, c)
    BY <1>1, <1>2 DEF Bounded
  <2> QED BY <1>1, <2>1 DEF Within, Contents
<1>3. Bounded(T)
  BY <1>2 DEF Bounded
<1> QED BY <1>3 DEF T

-----------------------------------------------------------------------------
(***************************************************************************)
(* The members that start no transfer.                                     *)
(***************************************************************************)
\* Flags, distributions and single elements.
LEMMA MarkBounded ==
  ASSUME NEW S, Good(S), Bounded(S), NEW v \in Vector
  PROVE  /\ \A dist : Bounded(AssignDistribution(S, v, dist))
         /\ Bounded(DataOnDeviceModified(S, v))
         /\ Bounded(DataOnHostModified(S, v))
         /\ \A i, x : Bounded(StoreElement(S, v, i, x))
<1> DEFINE r == S.vec[v]
<1>1. S \in Machine /\ r \in VectorType
  BY GoodRecord
<1>2. ASSUME NEW dist
      PROVE  Bounded(AssignDistribution(S, v, dist))
  <2> DEFINE e == [r EXCEPT !.buf = NoBuffers, !.devUp = FALSE, !.dist = dist]
             f == [r EXCEPT !.dist = dist]
  <2>1. AssignDistribution(S, v, dist) \in {WithRecord(S, v, e), WithRecord(S, v, f)}
    BY <1>1, MachineParts DEF AssignDistribution, DropBuffers, WithRecord
  <2>2. e.size = r.size /\ f.size = r.size
    BY <1>1 DEF VectorType
  <2> HIDE DEF e, f
  <2>3. Bounded(WithRecord(S, v, e)) /\ Bounded(WithRecord(S, v, f))
    BY <1>1, <2>2, BoundedRecord
  <2> QED BY <2>1, <2>3
<1>3. Bounded(DataOnDeviceModified(S, v))
  <2> DEFINE e == [r EXCEPT !.hostUp = FALSE, !.devUp = TRUE]
  <2>1. DataOnDeviceModified(S, v) = WithRecord(S, v, e)
    BY <1>1, MachineParts DEF DataOnDeviceModified, WithRecord
  <2>2. e.size = r.size
    BY <1>1 DEF VectorType
  <2> HIDE DEF e
  <2> QED BY <1>1, <2>1, <2>2, BoundedRecord
<1>4. Bounded(DataOnHostModified(S, v))
  <2> DEFINE e == [r EXCEPT !.hostUp = TRUE, !.devUp = FALSE]
  <2>1. DataOnHostModified(S, v) = WithRecord(S, v, e)
    BY <1>1, MachineParts DEF DataOnHostModified, WithRecord
  <2>2. e.size = r.size
    BY <1>1 DEF VectorType
  <2> HIDE DEF e
  <2> QED BY <1>1, <2>1, <2>2, BoundedRecord
<1>5. ASSUME NEW i, NEW x
      PROVE  Bounded(StoreElement(S, v, i, x))
  <2> DEFINE h == [r.host EXCEPT ![i] = x]
             e == [r EXCEPT !.host = h]
  <2>1. StoreElement(S, v, i, x) = WithRecord(S, v, e)
    BY <1>1, MachineParts DEF StoreElement, WithRecord
  <2> HIDE DEF h
  <2>2. e.size = r.size
    BY <1>1 DEF VectorType
  <2> HIDE DEF e
  <2> QED BY <1>1, <2>1, <2>2, BoundedRecord
<1> QED BY <1>2, <1>3, <1>4, <1>5

\* insert, erase, clear, assign: a vector that no upload reads.
LEMMA NewHostBounded ==
  ASSUME NEW S \in Machine, Calm(S), Bounded(S), NEW v \in Vector,
         ~ Pending(S, "write", v), NEW s \in Seq(Elem), NEW n
  PROVE  /\ Bounded(SetHost(S, v, s))
         /\ Bounded([SetHost(S, v, s) EXCEPT !.vec[v].size = n])
<1> DEFINE H == SetHost(S, v, s)
           T == [H EXCEPT !.vec[v].size = n]
<1>1. /\ H \in Machine /\ H.mem = S.mem /\ Descends(S, H, Identity)
      /\ H.vec = [S.vec EXCEPT ![v].host = s]
  BY SetHostType, SetHostDescends
<1>2. ~ Pending(S, "read", v)
  BY CalmPending
<1> HIDE DEF H
<1>3. \A w \in Vector \ {v} : H.vec[w] = S.vec[w]
  BY <1>1, MachineParts
<1>4. Bounded(H)
  BY <1>1, <1>2, <1>3, BoundedOne
<1>5. /\ T.mem = H.mem /\ T.queue = H.queue
      /\ \A w \in Vector \ {v} : T.vec[w] = H.vec[w]
  BY <1>1, MachineParts DEF Machine
<1> HIDE DEF T
<1>6. \A d \in Device : Queued(T, d) = Queued(H, d)
  BY <1>5 DEF Queued
<1>7. Descends(S, T, Identity)
  BY <1>1, <1>6 DEF Descends
<1>8. Bounded(T)
  BY <1>1, <1>2, <1>3, <1>5, <1>7, BoundedOne
<1> QED BY <1>4, <1>8 DEF T, H

LEMMA HostMembersBounded ==
  ASSUME NEW S, Good(S), Calm(S), Bounded(S), NEW v \in Vector, ~ Pending(S, "write", v)
  PROVE  /\ \A i \in 1 .. Len(S.vec[v].host) + 1, x \in Elem : Bounded(Insert(S, v, i, x))
         /\ \A i \in 1 .. Len(S.vec[v].host) : Bounded(Erase(S, v, i))
         /\ \A n \in Nat, x \in Elem : Bounded(Assign(S, v, n, x))
         /\ Bounded(Clear(S, v))
<1>1. S \in Machine /\ S.vec[v].host \in Seq(Elem) /\ << >> \in Seq(Elem)
  BY GoodRecord
<1>2. ASSUME NEW i \in 1 .. Len(S.vec[v].host) + 1, NEW x \in Elem
      PROVE  Bounded(Insert(S, v, i, x))
  <2>1. InsertAt(S.vec[v].host, i, x) \in Seq(Elem)
    BY <1>1, InsertAtType
  <2> QED BY <1>1, <2>1, NewHostBounded DEF Insert
<1>3. ASSUME NEW i \in 1 .. Len(S.vec[v].host)
      PROVE  Bounded(Erase(S, v, i))
  <2>1. RemoveAt(S.vec[v].host, i) \in Seq(Elem)
    BY <1>1, RemoveAtType
  <2> QED BY <1>1, <2>1, NewHostBounded DEF Erase
<1>4. ASSUME NEW n \in Nat, NEW x \in Elem
      PROVE  Bounded(Assign(S, v, n, x))
  BY <1>1, FilledType, NewHostBounded DEF Assign
<1>5. Bounded(Clear(S, v))
  BY <1>1, NewHostBounded DEF Clear
<1> QED BY <1>2, <1>3, <1>4, <1>5

LEMMA ResizeBounded ==
  ASSUME NEW S, Good(S), Calm(S), Bounded(S), NEW v \in Vector,
         ~ Pending(S, "write", v), S.vec[v].hostUp \/ S.vec[v].devUp,
         NEW n \in 1 .. MaxSize, NEW x \in Elem
  PROVE  Bounded(Resize(S, v, n, x))
<1> DEFINE T == [S EXCEPT !.vec[v].size = n]
           s == Resized(T.vec[v].host, n, x)
           H == SetHost(T, v, s)
           U == Resize(S, v, n, x)
           kept == [S.vec[v] EXCEPT !.size = n]
<1>1. S \in Machine /\ S.vec[v] \in VectorType /\ n \in Nat
  BY GoodRecord, MaxSizeAssumption
<1>2. kept \in VectorType
  BY <1>1 DEF VectorType
<1>3. T = [S EXCEPT !.vec[v] = kept]
  OBVIOUS
<1> HIDE DEF kept, T
<1>4. /\ T \in Machine /\ T.queue = S.queue /\ T.mem = S.mem
      /\ \A w \in Vector \ {v} : T.vec[w] = S.vec[w]
  BY <1>1, <1>2, <1>3, OneVec, MachineParts
<1>5. ~ Pending(S, "read", v) /\ Descends(S, T, Identity)
  BY <1>4, CalmPending, SameQueue, DescendsSame
<1>6. Bounded(T)
  BY <1>4, <1>5, BoundedOne
<1>7. CASE ~ S.vec[v].hostUp
  BY <1>6, <1>7 DEF Resize, T
<1>8. CASE S.vec[v].hostUp
  <2>1. T.vec[v] \in VectorType
    BY <1>4, MachineParts
  <2>2. s \in Seq(Elem)
    BY <1>1, <2>1, ResizedType DEF VectorType
  <2>3. U = [DropBuffers(H, v) EXCEPT !.vec[v].devUp = FALSE]
    BY <1>8 DEF Resize, H, s, T
  <2> HIDE DEF s
  <2>4. /\ H \in Machine /\ H.mem = T.mem /\ Descends(T, H, Identity)
        /\ H.vec = [T.vec EXCEPT ![v].host = s]
    BY <1>4, <2>2, SetHostType, SetHostDescends
  <2> HIDE DEF H
  <2>5. \A w \in Vector : H.vec[w].size = T.vec[w].size
    BY <1>4, <2>4, MachineParts DEF VectorType
  <2>6. Bounded(H)
    BY <1>6, <2>4, <2>5, BoundedOne
  <2> DEFINE r == [H.vec[v] EXCEPT !.buf = NoBuffers, !.devUp = FALSE]
  <2>7. r.size = H.vec[v].size
    BY <2>4, MachineParts DEF VectorType
  <2>8. U = WithRecord(H, v, r)
    BY <2>3, <2>4, MachineParts DEF DropBuffers, WithRecord
  <2> HIDE DEF r, U
  <2>9. Bounded(U)
    BY <2>4, <2>6, <2>7, <2>8, BoundedRecord
  <2> QED BY <2>9 DEF U
<1> QED BY <1>7, <1>8

\* A new object in the place of v.
LEMMA ReplaceBounded ==
  ASSUME NEW S \in Machine, Calm(S), Bounded(S), NEW v \in Vector,
         ~ Pending(S, "write", v), NEW r \in VectorType, r.buf = NoBuffers
  PROVE  Bounded(Replace(S, v, r))
<1> DEFINE R == Redirect(S, [Identity EXCEPT ![v] = Nobody])
           T == Replace(S, v, r)
<1>1. R \in Machine
  BY RedirectType DEF Identity
<1>2. T = [R EXCEPT !.vec[v] = r]
  BY DEF Replace
<1>3. T.vec = [S.vec EXCEPT ![v] = r] /\ T.mem = S.mem
  BY ReplaceType
<1> HIDE DEF R, T
<1>4. T.queue = R.queue
  BY <1>1, <1>2 DEF Machine
<1>5. Descends(S, T, Identity)
  BY <1>4, DescendsDetached DEF R
<1>6. \A w \in Vector \ {v} : T.vec[w] = S.vec[w]
  BY <1>3, MachineParts
<1>7. Bounded(T)
  BY <1>3, <1>5, <1>6, CalmPending, BoundedOne
<1> QED BY <1>7 DEF T

\* w takes over v's memory, with the uploads that read it.
LEMMA MoveBounded ==
  ASSUME NEW S \in Machine, Bounded(S), NEW v \in Vector, NEW w \in Vector, v # w
  PROVE  Bounded(Move(S, v, w))
<1> DEFINE owner == [Identity EXCEPT ![v] = w, ![w] = Nobody]
           R == Redirect(S, owner)
           f == [S.vec EXCEPT ![w] = S.vec[v], ![v] = MovedFrom]
           T == Move(S, v, w)
<1>1. /\ owner \in [Vector -> Vector \cup {Nobody}] /\ owner[v] = w /\ owner[w] = Nobody
      /\ \A u \in Vector \ {v, w} : owner[u] = u
  BY DEF Identity
<1>2. S.vec \in [Vector -> VectorType]
  BY MachineParts
<1> HIDE DEF owner
<1>3. R \in Machine /\ R.vec = S.vec /\ R.mem = S.mem
  BY <1>1, RedirectType
<1> HIDE DEF R
<1>4. T = [R EXCEPT !.vec = f]
  BY <1>2, <1>3 DEF Move, R, owner
<1> HIDE DEF T
<1>5. T.vec = f /\ T.queue = R.queue /\ T.mem = S.mem
  BY <1>3, <1>4 DEF Machine
<1>6. f[w] = S.vec[v] /\ \A u \in Vector \ {v, w} : f[u] = S.vec[u]
  BY <1>2
<1> HIDE DEF f
<1>7. Descends(S, T, owner) /\ Lasting(S, T)
  BY <1>1, <1>5, DescendsRedirect, LastingSame DEF R
<1>8. \A u \in Vector : owner[u] \in Vector => T.vec[owner[u]].size = S.vec[u].size
  BY <1>1, <1>5, <1>6, NobodyAssumption
<1>9. Bounded(T)
  BY <1>7, <1>8, Inherit
<1> QED BY <1>9 DEF T

\* v and w exchange their memory, and the uploads follow it.
LEMMA SwapBounded ==
  ASSUME NEW S \in Machine, Bounded(S), NEW v \in Vector, NEW w \in Vector, v # w
  PROVE  Bounded(Swap(S, v, w))
<1> DEFINE owner == [Identity EXCEPT ![v] = w, ![w] = v]
           R == Redirect(S, owner)
           T == Swap(S, v, w)
<1>1. /\ owner \in [Vector -> Vector \cup {Nobody}]
      /\ owner[v] = w /\ owner[w] = v /\ \A u \in Vector \ {v, w} : owner[u] = u
  BY DEF Identity
<1>2. S.vec \in [Vector -> VectorType]
  BY MachineParts
<1> HIDE DEF owner
<1>3. R \in Machine /\ R.vec = S.vec /\ R.mem = S.mem
  BY <1>1, RedirectType
<1>4. T = [R EXCEPT !.vec[v].host = S.vec[w].host, !.vec[v].size = S.vec[w].size,
                    !.vec[w].host = S.vec[v].host, !.vec[w].size = S.vec[v].size]
  BY DEF Swap, R, owner
<1> HIDE DEF R
<1>5. /\ T.queue = R.queue /\ T.mem = S.mem
      /\ T.vec = [S.vec EXCEPT ![v].host = S.vec[w].host, ![v].size = S.vec[w].size,
                               ![w].host = S.vec[v].host, ![w].size = S.vec[v].size]
  BY <1>3, <1>4 DEF Machine
<1> HIDE DEF T
<1>6. \A u \in Vector \ {v, w} : T.vec[u] = S.vec[u]
  BY <1>2, <1>5
<1>7. /\ T.vec[v] = [S.vec[v] EXCEPT !.host = S.vec[w].host, !.size = S.vec[w].size]
      /\ T.vec[w] = [S.vec[w] EXCEPT !.host = S.vec[v].host, !.size = S.vec[v].size]
  BY <1>2, <1>5
<1>8. T.vec[v].size = S.vec[w].size /\ T.vec[w].size = S.vec[v].size
  BY <1>2, <1>7 DEF VectorType
<1>9. Descends(S, T, owner) /\ Lasting(S, T)
  BY <1>1, <1>5, DescendsRedirect, LastingSame DEF R
<1>10. \A u \in Vector : T.vec[owner[u]].size = S.vec[u].size
  BY <1>1, <1>6, <1>8
<1>11. Bounded(T)
  BY <1>9, <1>10, Inherit
<1> QED BY <1>11 DEF T

\* A buffer that a command uses is in use: no new buffer takes its place.
LEMMA NewBuffersBounded ==
  ASSUME NEW S \in Machine, Bounded(S), NEW v \in Vector, Room(S, v),
         NEW len, DOMAIN len \subseteq Device, \A d \in DOMAIN len : len[d] \in Nat
  PROVE  Bounded(NewBuffers(S, v, len))
<1> DEFINE U == NewBuffers(S, v, len)
<1>1. U.queue = S.queue
  BY DEF NewBuffers, Machine
<1>2. PICK b \in [Device -> BufferId \cup {NoBuffer}] :
        /\ U.vec = [S.vec EXCEPT ![v].buf = b]
        /\ \A d \in Device : b[d] # NoBuffer <=> d \in DOMAIN len
        /\ \A d \in DOMAIN len : b[d] \notin Live(S, d)
  BY NewBuffersType
<1>3. \A d \in Device, x \in BufferId : x \in Live(S, d) => U.mem[d][x] = S.mem[d][x]
  BY NewBuffersMemory
<1> HIDE DEF U
<1>4. Lasting(S, U)
  BY <1>3 DEF Lasting
<1>5. Descends(S, U, Identity)
  BY <1>1, SameQueue, DescendsSame
<1>6. \A w \in Vector : U.vec[Identity[w]].size = S.vec[w].size
  BY <1>2, MachineParts DEF VectorType, Identity
<1>7. Bounded(U)
  BY <1>4, <1>5, <1>6, Inherit
<1> QED BY <1>7 DEF U

LEMMA CreateBounded ==
  ASSUME NEW S, Good(S), Bounded(S), NEW v \in Vector, Room(S, v)
  PROVE  /\ Bounded(ForceCreateDeviceBuffers(S, v))
         /\ Bounded(CreateDeviceBuffers(S, v))
<1> DEFINE r == S.vec[v]
           e == [r EXCEPT !.buf = NoBuffers]
           T == DropBuffers(S, v)
           len == [d \in r.dist.devices |-> SizeForDevice(r.dist, r.size, d)]
<1>1. /\ S \in Machine /\ r \in VectorType /\ r.dist \in DistributionType
      /\ r.size \in 0 .. MaxSize
  BY GoodRecord
<1>2. /\ DOMAIN len \subseteq Device
      /\ \A d \in DOMAIN len : len[d] \in Nat
  BY <1>1, DistributionDevices, SizeForDeviceType
<1>3. /\ e \in VectorType /\ e.size = r.size
      /\ \A d \in Device : e.buf[d] \in {NoBuffer, r.buf[d]}
  BY <1>1 DEF VectorType, NoBuffers
<1>4. T = WithRecord(S, v, e)
  BY DEF DropBuffers, WithRecord
<1> HIDE DEF e, T
<1>5. Bounded(T) /\ T \in Machine /\ NewUse(S, T, {})
  BY <1>1, <1>3, <1>4, BoundedRecord, RecordChange
<1>6. Room(T, v)
  BY <1>5, RoomStays
<1>7. ForceCreateDeviceBuffers(S, v) = NewBuffers(T, v, len)
  BY DEF ForceCreateDeviceBuffers, T
<1> HIDE DEF len
<1>8. Bounded(ForceCreateDeviceBuffers(S, v))
  BY <1>2, <1>5, <1>6, <1>7, NewBuffersBounded
<1> QED BY <1>8 DEF CreateDeviceBuffers

\* The copies have the lengths of the originals.
LEMMA CopyConstructBounded ==
  ASSUME NEW S, Good(S), Calm(S), Bounded(S), NEW v \in Vector, NEW w \in Vector, v # w,
         ~ Pending(S, "write", w), Room(S, w)
  PROVE  Bounded(CopyConstruct(S, v, w))
<1> DEFINE r == S.vec[v]
           e == [r EXCEPT !.buf = NoBuffers]
           T == Replace(S, w, e)
           held == {d \in Device : r.buf[d] # NoBuffer}
           len == [d \in held |-> Len(Contents(S, d, r.buf[d]))]
           U == NewBuffers(T, w, len)
           cmds == [d \in held |-> CopyCommand(r.buf[d], U.vec[w].buf[d])]
           W == EnqueueEach(U, cmds)
<1>1. S \in Machine /\ r \in VectorType
  BY GoodRecord
<1>2. e \in VectorType /\ e.buf = NoBuffers
  BY <1>1 DEF VectorType, NoBuffers
<1>3. /\ DOMAIN len = held /\ held \subseteq Device
      /\ \A d \in held : len[d] = Len(Contents(S, d, r.buf[d])) /\ len[d] \in Nat
  BY <1>1, ContentsType, LenProperties
<1>4. W = CopyConstruct(S, v, w)
  BY DEF CopyConstruct
<1> HIDE DEF e, len
<1>5. /\ T \in Machine /\ NewUse(S, T, {}) /\ Bounded(T) /\ T.mem = S.mem
      /\ T.vec = [S.vec EXCEPT ![w] = e]
  BY <1>1, <1>2, ReplaceType, ReplaceBounded
<1>6. T.vec[v] = r
  BY <1>1, <1>5, MachineParts
<1> HIDE DEF T
<1>7. Room(T, w)
  BY <1>5, RoomStays
<1>8. U \in Machine /\ Bounded(U)
  BY <1>3, <1>5, <1>7, NewBuffersType, NewBuffersBounded
<1>9. PICK b \in [Device -> BufferId \cup {NoBuffer}] :
        /\ U.vec = [T.vec EXCEPT ![w].buf = b]
        /\ \A d \in Device : b[d] # NoBuffer <=> d \in DOMAIN len
        /\ \A d \in DOMAIN len : b[d] \notin Live(T, d)
  BY <1>3, <1>5, <1>7, NewBuffersType
<1>10. /\ \A d \in DOMAIN len : Len(U.mem[d][U.vec[w].buf[d]]) = len[d]
       /\ \A d \in Device, x \in BufferId : x \in Live(T, d) => U.mem[d][x] = T.mem[d][x]
  BY <1>3, <1>5, <1>7, NewBuffersMemory
<1> HIDE DEF U
<1>11. U.vec[w].buf = b
  BY <1>5, <1>9, MachineParts DEF VectorType
<1>12. ASSUME NEW d \in held
       PROVE  cmds[d] \in Command /\ Within(U, d, cmds[d])
  <2> DEFINE c == CopyCommand(r.buf[d], b[d])
  <2>1. r.buf[d] \in BufferId /\ b[d] \in BufferId
    BY <1>1, <1>3, <1>9 DEF VectorType
  <2>2. c \in Command /\ c.op = "copy" /\ c.from = r.buf[d] /\ c.to = b[d]
    BY <2>1 DEF CopyCommand, Command
  <2>3. r.buf[d] \in Live(T, d)
    BY <1>3, <1>6, InUse
  <2>4. Len(U.mem[d][r.buf[d]]) = len[d] /\ Len(U.mem[d][b[d]]) = len[d]
    <3> HIDE DEF r, held
    <3>1. d \in Device /\ d \in DOMAIN len /\ len[d] = Len(Contents(S, d, r.buf[d]))
      BY <1>3
    <3>2. Contents(S, d, r.buf[d]) = S.mem[d][r.buf[d]]
      BY <2>1 DEF Contents
    <3>3. U.mem[d][r.buf[d]] = S.mem[d][r.buf[d]]
      BY <1>5, <1>10, <2>1, <2>3, <3>1
    <3>4. Len(U.mem[d][b[d]]) = len[d]
      BY <1>10, <1>11, <3>1
    <3> QED BY <3>1, <3>2, <3>3, <3>4
  <2>5. cmds[d] = c
    BY <1>11
  <2>6. len[d] \in Nat
    BY <1>3
  <2>7. Contents(U, d, c.from) = U.mem[d][r.buf[d]] /\ Contents(U, d, c.to) = U.mem[d][b[d]]
    BY <2>1, <2>2 DEF Contents
  <2> HIDE DEF c, cmds, r
  <2>8. Len(Contents(U, d, c.from)) <= Len(Contents(U, d, c.to))
    BY <2>4, <2>6, <2>7
  <2>9. Within(U, d, c)
    BY <2>1, <2>2, <2>8 DEF Within
  <2> QED BY <2>2, <2>5, <2>9
<1>13. DOMAIN cmds = held
  OBVIOUS
<1> HIDE DEF cmds
<1>14. Bounded(W)
  BY <1>3, <1>8, <1>12, <1>13, BoundedEnqueue
<1> QED BY <1>4, <1>14

-----------------------------------------------------------------------------
(***************************************************************************)
(* The members that start a transfer.                                      *)
(***************************************************************************)
Equipped(S, v) == \A d \in S.vec[v].dist.devices : S.vec[v].buf[d] # NoBuffer

LEMMA PartWithin ==
  ASSUME NEW S, Good(S), NEW v \in Vector, Sized(S, v), Equipped(S, v),
         NEW d \in S.vec[v].dist.devices,
         NEW T, T.mem = S.mem, T.vec[v].size = S.vec[v].size
  PROVE  /\ Within(T, d, WriteCommand(S.vec[v].buf[d], v, HostOffset(S, v, d)))
         /\ Within(T, d, ReadCommand(S.vec[v].buf[d], v, HostOffset(S, v, d)))
<1> DEFINE b == S.vec[v].buf[d]
           off == HostOffset(S, v, d)
<1>1. /\ S \in Machine /\ S.vec[v].dist \in DistributionType
      /\ S.vec[v].size \in 0 .. MaxSize /\ MaxSize \in Nat
  BY GoodRecord, MaxSizeAssumption
<1>2. d \in Device
  BY <1>1, DistributionDevices
<1>3. off + Len(Contents(S, d, b)) <= S.vec[v].size
  BY PartsFit DEF Equipped
<1>4. off \in Nat /\ Len(Contents(S, d, b)) \in Nat
  BY <1>1, <1>2, HostOffsetType, ContentsType, LenProperties
<1>5. Contents(T, d, b) = Contents(S, d, b) /\ Len(Contents(T, d, NoBuffer)) = 0
  BY BufferAssumption DEF Contents
<1> HIDE DEF b, off
<1>6. \A x \in {b, NoBuffer} : off + Len(Contents(T, d, x)) <= T.vec[v].size
  BY <1>1, <1>3, <1>4, <1>5
<1>7. /\ Within(T, d, WriteCommand(b, v, off))
      /\ Within(T, d, ReadCommand(b, v, off))
  BY <1>6 DEF Within, WriteCommand, ReadCommand
<1> QED BY <1>7 DEF b, off

LEMMA StartUploadBounded ==
  ASSUME NEW S, Good(S), Tidy(S), Bounded(S), NEW v \in Vector, Equipped(S, v)
  PROVE  Bounded(StartUpload(S, v))
<1> DEFINE r == S.vec[v]
           cmds == [d \in r.dist.devices |->
                      WriteCommand(r.buf[d], v, HostOffset(S, v, d))]
           E == EnqueueEach(S, cmds)
           e == [r EXCEPT !.devUp = TRUE]
           T == StartUpload(S, v)
<1>1. S \in Machine /\ r \in VectorType /\ Sized(S, v)
  BY GoodRecord DEF Tidy
<1>2. CASE r.devUp
  BY <1>2 DEF StartUpload
<1>3. CASE ~ r.devUp
  <2>1. r.dist.devices \subseteq Device
    BY <1>1, DistributionDevices DEF VectorType
  <2>2. ASSUME NEW d \in DOMAIN cmds
        PROVE  cmds[d] \in Command /\ Within(S, d, cmds[d])
    <3>1. d \in Device /\ r.buf[d] \in BufferId \cup {NoBuffer}
      BY <1>1, <2>1 DEF VectorType
    <3>2. HostOffset(S, v, d) \in Nat
      BY <3>1, HostOffsetType
    <3>3. cmds[d] = WriteCommand(r.buf[d], v, HostOffset(S, v, d))
      OBVIOUS
    <3>4. Within(S, d, WriteCommand(r.buf[d], v, HostOffset(S, v, d)))
      BY <1>1, PartWithin
    <3> HIDE DEF cmds
    <3> QED BY <3>1, <3>2, <3>3, <3>4, CommandTypes
  <2>3. DOMAIN cmds \subseteq Device
    BY <2>1
  <2>4. T = [E EXCEPT !.vec[v].devUp = TRUE]
    BY <1>3 DEF StartUpload
  <2> HIDE DEF cmds
  <2>5. E \in Machine /\ E.vec = S.vec /\ Bounded(E)
    BY <1>1, <2>2, <2>3, EnqueueEachType, BoundedEnqueue
  <2> HIDE DEF E, T
  <2>6. T = WithRecord(E, v, e)
    BY <2>4, <2>5, MachineParts DEF WithRecord
  <2>7. e.size = E.vec[v].size
    BY <1>1, <2>5 DEF VectorType
  <2> HIDE DEF e
  <2>8. Bounded(T)
    BY <2>5, <2>6, <2>7, BoundedRecord
  <2> QED BY <2>8 DEF T
<1> QED BY <1>2, <1>3

LEMMA StartDownloadBounded ==
  ASSUME NEW S, Good(S), Tidy(S), Bounded(S), NEW v \in Vector, MustDownload(S, v)
  PROVE  Bounded(StartDownload(S, v))
<1> DEFINE r == S.vec[v]
           s == Resized(r.host, r.size, Zero)
           H == SetHost(S, v, s)
           cmds == [d \in DownloadDevices(r.dist) |->
                      ReadCommand(r.buf[d], v, HostOffset(S, v, d))]
           E == EnqueueEach(H, cmds)
           T == StartDownload(S, v)
           e == [E.vec[v] EXCEPT !.hostUp = TRUE, !.devUp = @ /\ r.dist.kind # "copy"]
<1>1. /\ S \in Machine /\ r \in VectorType /\ r.host \in Seq(Elem) /\ r.size \in Nat
      /\ r.dist \in DistributionType /\ Sized(S, v) /\ Sound(r)
  BY GoodRecord DEF VectorType, Tidy
<1>2. s \in Seq(Elem)
  BY <1>1, ResizedType, ZeroAssumption DEF Elem
<1>3. Equipped(S, v)
  BY <1>1 DEF Sound, MustDownload, Equipped
<1>4. T = [E EXCEPT !.vec[v].hostUp = TRUE,
                    !.vec[v].devUp = @ /\ r.dist.kind # "copy"]
  BY DEF StartDownload, MustDownload
<1> HIDE DEF s
<1>5. /\ H \in Machine /\ H.vec = [S.vec EXCEPT ![v].host = s] /\ H.mem = S.mem
      /\ Descends(S, H, Identity)
  <2>1. H \in Machine /\ H.vec = [S.vec EXCEPT ![v].host = s] /\ H.mem = S.mem
    BY <1>1, <1>2, SetHostType
  <2>2. Descends(S, H, Identity)
    BY <1>1, <1>2, SetHostDescends
  <2> QED BY <2>1, <2>2
<1> HIDE DEF H
<1>6. \A w \in Vector : H.vec[w].size = S.vec[w].size
  BY <1>1, <1>5, MachineParts DEF VectorType
<1>7. Bounded(H)
  BY <1>5, <1>6, BoundedOne
<1>8. DownloadDevices(r.dist) \subseteq Device /\ DownloadDevices(r.dist) \subseteq r.dist.devices
  <2>1. DownloadDevices(r.dist) \subseteq r.dist.devices
    BY <1>1, NumDevicesAssumption
       DEF DownloadDevices, DistributionType, ValidDistribution, Single, Block, Copy,
           Invalid, Device
  <2> QED BY <1>1, <2>1, DistributionDevices
<1>9. ASSUME NEW d \in DOMAIN cmds
      PROVE  cmds[d] \in Command /\ Within(H, d, cmds[d])
  <2>1. d \in Device /\ d \in r.dist.devices /\ r.buf[d] \in BufferId \cup {NoBuffer}
    BY <1>1, <1>8 DEF VectorType
  <2>2. HostOffset(S, v, d) \in Nat
    BY <2>1, HostOffsetType
  <2>3. cmds[d] = ReadCommand(r.buf[d], v, HostOffset(S, v, d))
    OBVIOUS
  <2>4. Within(H, d, ReadCommand(r.buf[d], v, HostOffset(S, v, d)))
    BY <1>1, <1>3, <1>5, <1>6, <2>1, PartWithin
  <2> HIDE DEF cmds
  <2> QED BY <2>1, <2>2, <2>3, <2>4, CommandTypes
<1>10. DOMAIN cmds \subseteq Device
  BY <1>8
<1> HIDE DEF cmds
<1>11. E \in Machine /\ Bounded(E)
  BY <1>5, <1>7, <1>9, <1>10, EnqueueEachType, BoundedEnqueue
<1> HIDE DEF E, T
<1>12. T = WithRecord(E, v, e)
  BY <1>4, <1>11, MachineParts DEF WithRecord
<1>13. e.size = E.vec[v].size
  BY <1>11, MachineParts DEF VectorType
<1> HIDE DEF e
<1>14. Bounded(T)
  BY <1>11, <1>12, <1>13, BoundedRecord
<1> QED BY <1>14 DEF T

-----------------------------------------------------------------------------
(***************************************************************************)
(* The Map skeleton, part by part.                                         *)
(***************************************************************************)
LEMMA CreateEquips ==
  ASSUME NEW S, Good(S), NEW v \in Vector, Room(S, v)
  PROVE  LET U == CreateDeviceBuffers(S, v)
         IN  /\ Equipped(U, v)
             /\ U.vec[v].dist = S.vec[v].dist /\ U.vec[v].size = S.vec[v].size
<1> DEFINE U == CreateDeviceBuffers(S, v)
<1>1. PICK b \in [Device -> BufferId \cup {NoBuffer}] :
        /\ U.vec[v] = [S.vec[v] EXCEPT !.buf = b]
        /\ \A d \in Device : b[d] # NoBuffer <=> d \in S.vec[v].dist.devices
  BY CreateDeviceBuffersGood
<1>2. S.vec[v] \in VectorType /\ S.vec[v].dist.devices \subseteq Device
  BY GoodRecord, DistributionDevices
<1> HIDE DEF U
<1>3. /\ U.vec[v].buf = b
      /\ U.vec[v].dist = S.vec[v].dist /\ U.vec[v].size = S.vec[v].size
  BY <1>1, <1>2 DEF VectorType
<1>4. Equipped(U, v)
  BY <1>1, <1>2, <1>3 DEF Equipped
<1> QED BY <1>3, <1>4 DEF U

LEMMA PrepareInputBounded ==
  ASSUME NEW S, Good(S), Tidy(S), Bounded(S), NEW in \in Vector,
         S.vec[in].hostUp \/ S.vec[in].devUp, Room(S, in)
  PROVE  Bounded(PrepareInput(S, in))
<1> DEFINE T == IF IsValid(S.vec[in].dist) THEN S ELSE AssignDistribution(S, in, Block)
           U == CreateDeviceBuffers(T, in)
<1>1. Good(T) /\ Tidy(T) /\ NewUse(S, T, {}) /\ Bounded(T)
  <2>1. CASE IsValid(S.vec[in].dist)
    BY <2>1 DEF NewUse
  <2>2. CASE ~ IsValid(S.vec[in].dist)
    <3>1. S.vec[in].dist = Invalid /\ S.vec[in].hostUp
      BY <2>2, GoodRecord, DistributionDevices DEF Sound
    <3>2. ~ NeedsExchange(S.vec[in].dist, Block) /\ Block \in ValidDistribution
      BY <3>1 DEF NeedsExchange, Invalid, ValidDistribution
    <3>3. T = AssignDistribution(S, in, Block)
      BY <2>2
    <3> HIDE DEF T
    <3>4. Good(T) /\ NewUse(S, T, {})
      BY <3>1, <3>2, <3>3, AssignDistributionGood
    <3>5. Tidy(T)
      BY <3>2, <3>3, AssignDistributionKeeping, KeepingTidy
    <3>6. Bounded(T)
      BY <3>3, MarkBounded
    <3> QED BY <3>4, <3>5, <3>6
  <2> QED BY <2>1, <2>2
<1> HIDE DEF T
<1>2. Room(T, in)
  BY <1>1, RoomStays
<1>3. Good(U) /\ Tidy(U) /\ Bounded(U) /\ Equipped(U, in)
  BY <1>1, <1>2, CreateDeviceBuffersGood, CreateTidy, CreateBounded, CreateEquips
<1>4. PrepareInput(S, in) = StartUpload(U, in)
  BY DEF PrepareInput, U, T
<1> HIDE DEF U
<1> QED BY <1>3, <1>4, StartUploadBounded

LEMMA EnlargeOutputBounded ==
  ASSUME NEW S, Good(S), Calm(S), Bounded(S), NEW out \in Vector, NEW in \in Vector,
         S.vec[out].hostUp \/ S.vec[out].devUp, S.vec[in].size # 0,
         S.vec[out].size < S.vec[in].size => ~ Pending(S, "write", out)
  PROVE  /\ Bounded(EnlargeOutput(S, out, in))
         /\ S.vec[out].size <= S.vec[in].size =>
              EnlargeOutput(S, out, in).vec[out].size = S.vec[in].size
<1>1. S.vec[in].size \in 1 .. MaxSize /\ S.vec[out].size \in Nat
  <2>1. S.vec[in].size \in 0 .. MaxSize /\ S.vec[out].size \in 0 .. MaxSize
    BY GoodRecord
  <2> QED BY <2>1, MaxSizeAssumption
<1>2. Zero \in Elem
  BY ZeroAssumption DEF Elem
<1>3. CASE S.vec[out].size < S.vec[in].size
  <2> DEFINE R == Resize(S, out, S.vec[in].size, Zero)
  <2>1. Bounded(R) /\ R.vec[out].size = S.vec[in].size
    BY <1>1, <1>2, <1>3, ResizeBounded, ResizeGood
  <2>2. EnlargeOutput(S, out, in) = R
    BY <1>3 DEF EnlargeOutput
  <2> HIDE DEF R
  <2> QED BY <2>1, <2>2
<1>4. CASE ~ (S.vec[out].size < S.vec[in].size)
  BY <1>1, <1>4 DEF EnlargeOutput
<1> QED BY <1>3, <1>4

\* The kernel of each device reads as many elements as it writes.
LEMMA ExecuteBounded ==
  ASSUME NEW S, Good(S), Tidy(S), Bounded(S), NEW out \in Vector, NEW in \in Vector,
         S.vec[out].dist = S.vec[in].dist, S.vec[out].size = S.vec[in].size,
         Equipped(S, in), Equipped(S, out)
  PROVE  Bounded(Execute(S, out, in))
<1> DEFINE r == S.vec[in]
           o == S.vec[out]
           cmds == [d \in r.dist.devices |-> KernelCommand(r.buf[d], o.buf[d])]
           T == EnqueueEach(S, cmds)
<1>1. /\ S \in Machine /\ r \in VectorType /\ o \in VectorType
      /\ r.dist \in DistributionType /\ r.size \in 0 .. MaxSize
      /\ Sized(S, in) /\ Sized(S, out)
  BY GoodRecord DEF Tidy
<1>2. r.dist.devices \subseteq Device
  BY <1>1, DistributionDevices
<1>3. ASSUME NEW d \in r.dist.devices
      PROVE  /\ KernelCommand(r.buf[d], o.buf[d]) \in Command
             /\ Within(S, d, KernelCommand(r.buf[d], o.buf[d]))
  <2> DEFINE c == KernelCommand(r.buf[d], o.buf[d])
             n == SizeForDevice(r.dist, r.size, d)
  <2>1. d \in Device /\ r.buf[d] \in BufferId /\ o.buf[d] \in BufferId
    BY <1>1, <1>2 DEF VectorType, Equipped
  <2>2. c \in Command /\ c.op = "kernel" /\ c.from = r.buf[d] /\ c.to = o.buf[d]
    BY <2>1 DEF KernelCommand, Command
  <2>3. n \in Nat
    BY <1>1, <2>1, SizeForDeviceType
  <2> HIDE DEF c, n
  <2>4. Len(S.mem[d][r.buf[d]]) = n /\ Len(S.mem[d][o.buf[d]]) = n
    BY <1>1, <2>1, BufferAssumption DEF Sized, n
  <2>5. Contents(S, d, c.from) = S.mem[d][r.buf[d]] /\ Contents(S, d, c.to) = S.mem[d][o.buf[d]]
    BY <2>1, <2>2 DEF Contents
  <2> HIDE DEF r, o
  <2>6. Within(S, d, c)
    BY <2>1, <2>2, <2>3, <2>4, <2>5 DEF Within
  <2> QED BY <2>2, <2>6 DEF c
<1>4. /\ DOMAIN cmds = r.dist.devices
      /\ \A d \in r.dist.devices : cmds[d] = KernelCommand(r.buf[d], o.buf[d])
  OBVIOUS
<1>5. T = EnqueueEach(S, cmds)
  OBVIOUS
<1>6. Execute(S, out, in) = DataOnDeviceModified(T, out)
  BY DEF Execute
<1> HIDE DEF cmds, T
<1>7. /\ DOMAIN cmds \subseteq Device
      /\ \A d \in DOMAIN cmds : cmds[d] \in Command /\ Within(S, d, cmds[d])
  BY <1>2, <1>3, <1>4
<1>8. Bounded(T) /\ T \in Machine /\ T.vec = S.vec
  BY <1>1, <1>5, <1>7, BoundedEnqueue, EnqueueEachType
<1>9. Good(T)
  BY <1>8 DEF Good
<1> QED BY <1>6, <1>8, <1>9, MarkBounded

LEMMA FinishMapBounded ==
  ASSUME NEW S, Good(S), Tidy(S), Bounded(S), NEW out \in Vector, NEW in \in Vector,
         out # in, IsValid(S.vec[in].dist), Room(S, out), Equipped(S, in),
         S.vec[out].size = S.vec[in].size,
         S.vec[out].hostUp \/ ~ NeedsExchange(S.vec[out].dist, S.vec[in].dist)
  PROVE  Bounded(Execute(AdoptDistribution(S, out, in), out, in))
<1> DEFINE dist == S.vec[in].dist
           T == AssignDistribution(S, out, dist)
           U == CreateDeviceBuffers(T, out)
<1>1. dist \in ValidDistribution
  <2>1. dist \in DistributionType
    BY GoodRecord
  <2> QED BY <2>1, DistributionDevices DEF DistributionType
<1>2. /\ Good(T) /\ Tidy(T) /\ Bounded(T) /\ NewUse(S, T, {})
      /\ T.vec[in] = S.vec[in] /\ T.vec[out].dist = dist
      /\ T.vec[out].size = S.vec[out].size
  <2> HIDE DEF dist
  <2>1. S.vec[out].hostUp \/ ~ NeedsExchange(S.vec[out].dist, dist)
    BY DEF dist
  <2>2. Tidy(T)
    BY <1>1, AssignDistributionKeeping, KeepingTidy
  <2>3. Bounded(T)
    BY MarkBounded
  <2> QED BY <1>1, <2>1, <2>2, <2>3, AssignDistributionGood
<1> HIDE DEF T
<1>3. Room(T, out)
  BY <1>2, RoomStays
<1>4. /\ Good(U) /\ Tidy(U) /\ Bounded(U) /\ U.vec[in] = T.vec[in] /\ Equipped(U, out)
      /\ U.vec[out].dist = T.vec[out].dist /\ U.vec[out].size = T.vec[out].size
  <2>1. Good(U)
    BY <1>2, <1>3, CreateDeviceBuffersGood
  <2>4. U.vec[in] = T.vec[in]
    <3>1. \A w \in Vector \ {out} : U.vec[w] = T.vec[w]
      BY <1>2, <1>3, CreateDeviceBuffersGood
    <3> HIDE DEF U
    <3> QED BY <3>1
  <2>2. Tidy(U) /\ Bounded(U)
    BY <1>2, <1>3, CreateTidy, CreateBounded
  <2>3. /\ Equipped(U, out)
        /\ U.vec[out].dist = T.vec[out].dist /\ U.vec[out].size = T.vec[out].size
    BY <1>2, <1>3, CreateEquips
  <2> QED BY <2>1, <2>2, <2>3, <2>4
<1>5. U = AdoptDistribution(S, out, in)
  BY DEF AdoptDistribution, U, T
<1> HIDE DEF U
<1>6. /\ Equipped(U, in) /\ U.vec[out].dist = U.vec[in].dist
      /\ U.vec[out].size = U.vec[in].size
  BY <1>2, <1>4 DEF Equipped
<1>7. Bounded(Execute(U, out, in))
  BY <1>4, <1>6, ExecuteBounded
<1> QED BY <1>5, <1>7

\* The other calls that may wait.
LEMMA FinishBounded ==
  ASSUME NEW S, Good(S), Bounded(S), NEW v \in Vector
  PROVE  /\ Bounded(Finish(S, [op |-> "access", v |-> v]))
         /\ Bounded(Finish(S, [op |-> "upload", v |-> v]))
         /\ \A i \in Nat, x \in Value : S.vec[v].hostUp =>
              Bounded(Finish(S, [op |-> "write", v |-> v, i |-> i, x |-> x]))
         /\ \A dist \in ValidDistribution :
              Bounded(Finish(S, [op |-> "setDistribution", v |-> v, dist |-> dist]))
<1>1. ASSUME NEW i \in Nat, NEW x \in Value, S.vec[v].hostUp
      PROVE  Bounded(Finish(S, [op |-> "write", v |-> v, i |-> i, x |-> x]))
  <2> DEFINE T == StoreElement(S, v, i, x)
  <2>1. Good(T) /\ Bounded(T)
    BY <1>1, StoreElementGood, MarkBounded DEF Elem
  <2> HIDE DEF T
  <2>2. Bounded(DataOnHostModified(T, v))
    BY <2>1, MarkBounded
  <2> QED BY <2>2 DEF Finish, T
<1>2. ASSUME NEW dist \in ValidDistribution
      PROVE  Bounded(Finish(S, [op |-> "setDistribution", v |-> v, dist |-> dist]))
  <2>1. Bounded(AssignDistribution(S, v, dist))
    BY MarkBounded
  <2> QED BY <2>1 DEF Finish
<1>3. /\ Bounded(Finish(S, [op |-> "access", v |-> v]))
      /\ Bounded(Finish(S, [op |-> "upload", v |-> v]))
  BY DEF Finish
<1> QED BY <1>1, <1>2, <1>3

-----------------------------------------------------------------------------
(***************************************************************************)
(* The end of a step.  An accessor that waits has host memory of the size  *)
(* of its vector.  A Map that waits has found its input and output of one  *)
(* size, and has buffers for its input.                                    *)
(***************************************************************************)
Contained ==
  /\ Bounded(Now)
  /\ pc.op = "access" => vec[pc.v].hostUp
  /\ pc.op = "map" => vec[pc.v].size = vec[pc.w].size /\ Equipped(Now, pc.w)

\* The memory of what commands use is not released.
LEMMA CommitBounded ==
  ASSUME NEW S \in Machine, Bounded(S), Commit(S)
  PROVE  Bounded(Now)'
<1> DEFINE T == Release(S)
<1>1. T.vec = S.vec /\ T.queue = S.queue
  BY ReleaseType
<1>2. T.mem = [e \in Device |-> [b \in BufferId |->
                 IF b \in Live(S, e) THEN S.mem[e][b] ELSE << >>]]
  BY DEF Release, Machine
<1>3. vec' = T.vec /\ mem' = T.mem /\ queue' = T.queue
  BY DEF Commit
<1> HIDE DEF T
<1>4. Lasting(S, T)
  BY <1>2 DEF Lasting
<1>5. Descends(S, T, Identity)
  BY <1>1, SameQueue, DescendsSame
<1>6. \A w \in Vector : T.vec[Identity[w]].size = S.vec[w].size
  BY <1>1 DEF Identity
<1>7. Bounded(T)
  BY <1>4, <1>5, <1>6, Inherit
<1>8. Now'.vec = T.vec /\ Now'.mem = T.mem /\ Now'.queue = T.queue
  BY <1>3 DEF Now
<1> QED BY <1>7, <1>8 DEF Bounded, Within, Contents, Queued

LEMMA ReturnsBounded ==
  ASSUME NEW S, Good(S), Bounded(S), Commit(S), pc' = Idle \/ pc'.op = "upload"
  PROVE  Contained'
<1>1. Bounded(Now)'
  BY CommitBounded DEF Good
<1>2. pc'.op \notin {"access", "map"}
  BY DEF Idle
<1> QED BY <1>1, <1>2 DEF Contained

LEMMA WaitsBounded ==
  ASSUME NEW S, Good(S), Tidy(S), Bounded(S), NEW v \in Vector, MustDownload(S, v),
         Commit(StartDownload(S, v)), pc'.v = v, pc'.op # "map"
  PROVE  Contained'
<1> DEFINE T == StartDownload(S, v)
<1>1. T \in Machine /\ Bounded(T) /\ T.vec[v].hostUp
  BY StartDownloadGood, StartDownloadBounded DEF Good
<1> HIDE DEF T
<1>2. Commit(T)
  BY DEF T
<1>3. Bounded(Now)' /\ vec' = T.vec
  BY <1>1, <1>2, CommitBounded, CommitSame
<1> QED BY <1>1, <1>3 DEF Contained

-----------------------------------------------------------------------------
(***************************************************************************)
(* One lemma per action, or group of actions.                              *)
(***************************************************************************)
Confined == Tidy(Now) /\ Flight /\ Contained

LEMMA PrudentClients ==
  ASSUME Prudent
  PROVE  /\ Patient /\ Careful
         /\ \A rule \in Rule \ {"settled"} : rule \notin Broken
<1>1. \A rule \in Rule \ {"settled"} : rule \notin Broken
  BY DEF Prudent
<1> QED BY <1>1 DEF Rule, Patient, Careful, Obedient

LEMMA ReadyConfined ==
  ASSUME IInv, Confined, NEW call, Ready(call)
  PROVE  /\ Good(Now) /\ Now \in Machine /\ Tidy(Now) /\ Calm(Now) /\ Bounded(Now)
         /\ pc = Idle
         /\ \A v \in Vector : Now.vec[v] = vec[v] /\ Room(Now, v)
BY Guards, ReadyCalm DEF Good, Ready, Confined, Contained

LEMMA ConstructionsBounded ==
  ASSUME Prudent, IInv, Confined, NEW v \in Vector
  PROVE  /\ DefaultConstruct(v) => Contained'
         /\ \A s \in Ranges, dist \in Dists : ConstructVector(v, s, dist) => Contained'
<1>1. "quiet" \notin Broken
  BY PrudentClients DEF Rule
<1>2. ASSUME NEW r \in VectorType, Sound(r), r.buf = NoBuffers, NEW call, Ready(call),
             ~ Uploading(v), Commit(Replace(Now, v, r)), pc' = pc
      PROVE  Contained'
  <2>1. Good(Replace(Now, v, r)) /\ Bounded(Replace(Now, v, r))
    BY <1>2, ReadyConfined, ReplaceGood, ReplaceBounded DEF Uploading
  <2>2. pc' = Idle
    BY <1>2 DEF Ready
  <2> QED BY <1>2, <2>1, <2>2, ReturnsBounded
<1>3. ASSUME DefaultConstruct(v)
      PROVE  Contained'
  <2>1. /\ Commit(Replace(Now, v, Default)) /\ ~ Uploading(v) /\ pc' = pc
        /\ Ready("default")
    BY <1>1, <1>3 DEF DefaultConstruct, Keeps
  <2> QED BY <1>2, <2>1, ConstructedSound
<1>4. ASSUME NEW s \in Ranges, NEW dist \in Dists, ConstructVector(v, s, dist)
      PROVE  Contained'
  <2>1. s \in Seq(Value) /\ Len(s) \in 1 .. MaxSize /\ dist \in DistributionType
    BY BoundAssumption
  <2>2. /\ Commit(Replace(Now, v, Constructed(s, dist))) /\ ~ Uploading(v) /\ pc' = pc
        /\ Ready("construct")
    BY <1>1, <1>4 DEF ConstructVector, Keeps
  <2> QED BY <1>2, <2>1, <2>2, ConstructedSound
<1> QED BY <1>3, <1>4

LEMMA CopyMoveSwapBounded ==
  ASSUME Prudent, IInv, Confined, NEW v \in Vector, NEW w \in Vector
  PROVE  CopyVector(v, w) \/ MoveVector(v, w) \/ SwapVectors(v, w) => Contained'
<1>1. "quiet" \notin Broken /\ "bare" \notin Broken
  BY PrudentClients DEF Rule
<1>2. ASSUME CopyVector(v, w)
      PROVE  Contained'
  <2>1. /\ v # w /\ Commit(CopyConstruct(Now, v, w)) /\ Ready("copy")
        /\ ~ Pending(Now, "write", w) /\ pc' = pc
    BY <1>1, <1>2 DEF CopyVector, Keeps, Uploading
  <2>2. /\ Good(Now) /\ Now \in Machine /\ Calm(Now) /\ Bounded(Now) /\ pc = Idle
        /\ Room(Now, w)
    BY <2>1, ReadyConfined
  <2>3. Good(CopyConstruct(Now, v, w)) /\ Bounded(CopyConstruct(Now, v, w))
    BY <2>1, <2>2, CopyConstructGood, CopyConstructBounded
  <2> QED BY <2>1, <2>2, <2>3, ReturnsBounded
<1>3. ASSUME MoveVector(v, w)
      PROVE  Contained'
  <2>1. v # w /\ Commit(Move(Now, v, w)) /\ Ready("move") /\ pc' = pc
    BY <1>3 DEF MoveVector
  <2>2. Good(Now) /\ Now \in Machine /\ Bounded(Now) /\ pc = Idle
    BY <2>1, ReadyConfined
  <2>3. Good(Move(Now, v, w)) /\ Bounded(Move(Now, v, w))
    BY <2>1, <2>2, MoveGood, MoveBounded
  <2> QED BY <2>1, <2>2, <2>3, ReturnsBounded
<1>4. ASSUME SwapVectors(v, w)
      PROVE  Contained'
  <2>1. /\ v # w /\ Commit(Swap(Now, v, w)) /\ HostOnly(v) /\ HostOnly(w)
        /\ Ready("swap") /\ pc' = pc
    BY <1>1, <1>4 DEF SwapVectors, Keeps
  <2>2. /\ Good(Now) /\ Now \in Machine /\ Bounded(Now) /\ pc = Idle
        /\ Now.vec[v] = vec[v] /\ Now.vec[w] = vec[w]
    BY <2>1, ReadyConfined
  <2>3. OnHostAlone(Now.vec[v]) /\ OnHostAlone(Now.vec[w])
    BY <2>1, <2>2, Guards
  <2>4. Good(Swap(Now, v, w)) /\ Bounded(Swap(Now, v, w))
    BY <2>1, <2>2, <2>3, SwapGood, SwapBounded
  <2> QED BY <2>1, <2>2, <2>4, ReturnsBounded
<1> QED BY <1>2, <1>3, <1>4

LEMMA ResizeVectorBounded ==
  ASSUME Prudent, IInv, Confined, NEW v \in Vector, NEW n \in Sizes, NEW x \in Inputs,
         ResizeVector(v, n, x)
  PROVE  Contained'
<1>1. n \in 1 .. MaxSize /\ x \in Elem
  BY BoundAssumption DEF Elem
<1>2. /\ Commit(Resize(Now, v, n, x)) /\ Ready("resize")
      /\ vec[v].hostUp \/ vec[v].devUp
      /\ ~ Pending(Now, "write", v) /\ pc' = pc
  BY PrudentClients DEF ResizeVector, Keeps, Rule, Uploading, Intact
<1>3. Good(Now) /\ Calm(Now) /\ Bounded(Now) /\ pc = Idle /\ Now.vec[v] = vec[v]
  BY <1>2, ReadyConfined
<1>4. Good(Resize(Now, v, n, x)) /\ Bounded(Resize(Now, v, n, x))
  BY <1>1, <1>2, <1>3, ResizeGood, ResizeBounded
<1> QED BY <1>2, <1>3, <1>4, ReturnsBounded

LEMMA HostCallsBounded ==
  ASSUME Prudent, IInv, Confined, NEW v \in Vector
  PROVE  /\ \A i \in 1 .. MaxSize, x \in Inputs : InsertElement(v, i, x) => Contained'
         /\ \A i \in 1 .. MaxSize : EraseElement(v, i) => Contained'
         /\ \A n \in Sizes, x \in Inputs : AssignAll(v, n, x) => Contained'
         /\ ClearVector(v) => Contained'
<1>1. {"quiet", "hostOnly", "length"} \cap Broken = {}
  BY PrudentClients DEF Rule
<1>2. ASSUME NEW call, Ready(call), HostOnly(v), ~ Uploading(v), pc' = pc
      PROVE  /\ Good(Now) /\ Calm(Now) /\ Bounded(Now) /\ pc' = Idle
             /\ Now.vec[v] = vec[v] /\ OnHostAlone(Now.vec[v])
             /\ ~ Pending(Now, "write", v)
  BY <1>2, ReadyConfined, Guards DEF Uploading
<1>3. Inputs \subseteq Elem /\ Sizes \subseteq 0 .. MaxSize /\ Sizes \subseteq Nat
  BY BoundAssumption, MaxSizeAssumption DEF Elem
<1>4. ASSUME NEW i \in 1 .. MaxSize, NEW x \in Inputs, InsertElement(v, i, x)
      PROVE  Contained'
  <2>1. /\ HostOnly(v) /\ vec[v].size < MaxSize /\ i \in 1 .. Len(vec[v].host) + 1
        /\ Commit(Insert(Now, v, i, x))
        /\ Ready("insert") /\ ~ Uploading(v) /\ pc' = pc
    BY <1>1, <1>4 DEF InsertElement, Keeps
  <2>2. Good(Insert(Now, v, i, x)) /\ Bounded(Insert(Now, v, i, x))
    BY <1>2, <1>3, <2>1, InsertGood, HostMembersBounded
  <2> QED BY <1>2, <2>1, <2>2, ReturnsBounded
<1>5. ASSUME NEW i \in 1 .. MaxSize, EraseElement(v, i)
      PROVE  Contained'
  <2>1. /\ HostOnly(v) /\ i \in 1 .. Len(vec[v].host) /\ Commit(Erase(Now, v, i))
        /\ Ready("erase") /\ ~ Uploading(v) /\ pc' = pc
    BY <1>1, <1>5 DEF EraseElement, Keeps
  <2>2. Good(Erase(Now, v, i)) /\ Bounded(Erase(Now, v, i))
    BY <1>2, <2>1, EraseGood, HostMembersBounded
  <2> QED BY <1>2, <2>1, <2>2, ReturnsBounded
<1>6. ASSUME NEW n \in Sizes, NEW x \in Inputs, AssignAll(v, n, x)
      PROVE  Contained'
  <2>1. /\ HostOnly(v) /\ n = vec[v].size /\ Commit(Assign(Now, v, n, x))
        /\ Ready("assign") /\ ~ Uploading(v) /\ pc' = pc
    BY <1>1, <1>6 DEF AssignAll, Keeps
  <2>2. Good(Assign(Now, v, n, x)) /\ Bounded(Assign(Now, v, n, x))
    BY <1>2, <1>3, <2>1, AssignGood, HostMembersBounded
  <2> QED BY <1>2, <2>1, <2>2, ReturnsBounded
<1>7. ASSUME ClearVector(v)
      PROVE  Contained'
  <2>1. /\ HostOnly(v) /\ Commit(Clear(Now, v))
        /\ Ready("clear") /\ ~ Uploading(v) /\ pc' = pc
    BY <1>1, <1>7 DEF ClearVector, Keeps
  <2>2. Good(Clear(Now, v)) /\ Bounded(Clear(Now, v))
    BY <1>2, <2>1, ClearGood, HostMembersBounded
  <2> QED BY <1>2, <2>1, <2>2, ReturnsBounded
<1> QED BY <1>4, <1>5, <1>6, <1>7

LEMMA BufferCallsBounded ==
  ASSUME IInv, Confined, NEW v \in Vector
  PROVE  /\ CreateBuffers(v) \/ ForceCreateBuffers(v) => Contained'
         /\ BeginUpload(v) \/ CopyDataToDevices(v) => Contained'
         /\ MarkDeviceModified(v) \/ MarkHostModified(v) => Contained'
<1>1. Good(Now) /\ Now.vec[v] = vec[v] /\ Tidy(Now) /\ Bounded(Now)
  BY Guards DEF Confined, Contained
<1>2. ASSUME CreateBuffers(v)
      PROVE  Contained'
  <2>1. Room(Now, v) /\ Commit(CreateDeviceBuffers(Now, v)) /\ pc' = Idle
    BY <1>2, Guards DEF CreateBuffers, Ready
  <2>2. Good(CreateDeviceBuffers(Now, v)) /\ Bounded(CreateDeviceBuffers(Now, v))
    BY <1>1, <2>1, CreateDeviceBuffersGood, CreateBounded
  <2> QED BY <2>1, <2>2, ReturnsBounded
<1>3. ASSUME ForceCreateBuffers(v)
      PROVE  Contained'
  <2>1. Room(Now, v) /\ Commit(ForceCreateDeviceBuffers(Now, v)) /\ pc' = Idle
    BY <1>3, Guards DEF ForceCreateBuffers, Ready
  <2>2. /\ Good(ForceCreateDeviceBuffers(Now, v))
        /\ Bounded(ForceCreateDeviceBuffers(Now, v))
    BY <1>1, <2>1, ForceCreateDeviceBuffersGood, CreateBounded
  <2> QED BY <2>1, <2>2, ReturnsBounded
<1>4. ASSUME HasBuffers(Now, v)
      PROVE  Equipped(Now, v) /\ IsValid(vec[v].dist)
  <2>1. vec[v].dist \in DistributionType /\ Fitted(vec[v])
    BY <1>1, GoodRecord DEF Sound
  <2>2. \A d \in Device : vec[v].buf[d] # NoBuffer <=> d \in vec[v].dist.devices
    BY <1>1, <1>4, <2>1 DEF Fitted, HasBuffers
  <2>3. vec[v].dist.devices # {} /\ vec[v].dist.devices \subseteq Device
    BY <1>1, <1>4, <2>1, <2>2, DistributionDevices DEF HasBuffers
  <2> QED BY <1>1, <2>1, <2>2, <2>3, DistributionDevices DEF Equipped
<1>5. ASSUME BeginUpload(v) \/ CopyDataToDevices(v)
      PROVE  Contained'
  <2>1. /\ Intact(v) /\ Commit(StartUpload(Now, v)) /\ HasBuffers(Now, v)
        /\ pc' = Idle \/ pc'.op = "upload"
    BY <1>5 DEF BeginUpload, CopyDataToDevices, Ready
  <2>2. Good(StartUpload(Now, v)) /\ Bounded(StartUpload(Now, v))
    BY <1>1, <1>4, <2>1, StartUploadGood, StartUploadBounded DEF Intact
  <2> QED BY <2>1, <2>2, ReturnsBounded
<1>6. ASSUME MarkDeviceModified(v)
      PROVE  Contained'
  <2>1. HasBuffers(Now, v) /\ Commit(DataOnDeviceModified(Now, v)) /\ pc' = Idle
    BY <1>6 DEF MarkDeviceModified, Ready
  <2>2. Good(DataOnDeviceModified(Now, v))
    BY <1>1, <1>4, <2>1, DataOnDeviceModifiedGood DEF Equipped
  <2>3. Bounded(DataOnDeviceModified(Now, v))
    BY <1>1, MarkBounded
  <2> QED BY <2>1, <2>2, <2>3, ReturnsBounded
<1>7. ASSUME MarkHostModified(v)
      PROVE  Contained'
  <2>1. vec[v].hostUp /\ Commit(DataOnHostModified(Now, v)) /\ pc' = Idle
    BY <1>7 DEF MarkHostModified, Ready
  <2>2. Good(DataOnHostModified(Now, v)) /\ Bounded(DataOnHostModified(Now, v))
    BY <1>1, <2>1, DataOnHostModifiedGood, MarkBounded
  <2> QED BY <2>1, <2>2, ReturnsBounded
<1> QED BY <1>2, <1>3, <1>5, <1>6, <1>7

LEMMA WaitingCallsBounded ==
  ASSUME Prudent, IInv, Confined, NEW v \in Vector
  PROVE  /\ Access(v) => Contained'
         /\ \A i \in 1 .. MaxSize, x \in Inputs : WriteElement(v, i, x) => Contained'
         /\ \A dist \in Dists \ {Invalid} : SetDistribution(v, dist) => Contained'
         /\ BeginDownload(v) => Contained'
<1>1. Good(Now) /\ Now.vec[v] = vec[v] /\ Tidy(Now) /\ Bounded(Now)
  BY Guards DEF Confined, Contained
<1>2. Intact(v) /\ ~ MustDownload(Now, v) => vec[v].hostUp
  BY <1>1 DEF Intact, MustDownload
<1>3. ASSUME Access(v)
      PROVE  Contained'
  <2> DEFINE k == [op |-> "access", v |-> v]
  <2>1. CASE MustDownload(Now, v) /\ Commit(StartDownload(Now, v)) /\ pc' = k
    BY <1>1, <2>1, WaitsBounded
  <2>2. CASE Commit(Finish(Now, k)) /\ pc' = Idle
    BY <1>1, <2>2, FinishGood, FinishBounded, ReturnsBounded
  <2> QED BY <1>3, <2>1, <2>2 DEF Access, After
<1>4. ASSUME NEW i \in 1 .. MaxSize, NEW x \in Inputs, WriteElement(v, i, x)
      PROVE  Contained'
  <2> DEFINE k == [op |-> "write", v |-> v, i |-> i, x |-> x]
  <2>1. i \in Nat /\ x \in Value
    BY BoundAssumption, MaxSizeAssumption
  <2>2. CASE MustDownload(Now, v) /\ Commit(StartDownload(Now, v)) /\ pc' = k
    BY <1>1, <2>2, WaitsBounded
  <2>3. CASE ~ MustDownload(Now, v) /\ Commit(Finish(Now, k)) /\ pc' = Idle
    <3>1. Now.vec[v].hostUp
      BY <1>1, <1>2, <1>4, <2>3 DEF WriteElement
    <3>2. Good(Finish(Now, k)) /\ Bounded(Finish(Now, k))
      BY <1>1, <2>1, <3>1, FinishGood, FinishBounded
    <3> QED BY <2>3, <3>2, ReturnsBounded
  <2> QED BY <1>4, <2>2, <2>3 DEF WriteElement, After
<1>5. ASSUME NEW dist \in Dists \ {Invalid}, SetDistribution(v, dist)
      PROVE  Contained'
  <2> DEFINE k == [op |-> "setDistribution", v |-> v, dist |-> dist]
             need == NeedsExchange(vec[v].dist, dist)
  <2>1. dist \in ValidDistribution
    BY BoundAssumption DEF DistributionType
  <2>2. CASE MustDownload(Now, v) /\ Commit(StartDownload(Now, v)) /\ pc' = k
    BY <1>1, <2>2, WaitsBounded
  <2>3. CASE /\ ~ (need /\ MustDownload(Now, v)) /\ Commit(Finish(Now, k))
             /\ pc' = Idle
    <3>1. Now.vec[v].hostUp \/ ~ NeedsExchange(Now.vec[v].dist, dist)
      BY <1>1, <1>2, <1>5, <2>3 DEF SetDistribution
    <3>2. Good(Finish(Now, k)) /\ Bounded(Finish(Now, k))
      BY <1>1, <2>1, <3>1, FinishGood, FinishBounded
    <3> QED BY <2>3, <3>2, ReturnsBounded
  <2> QED BY <1>5, <2>2, <2>3 DEF SetDistribution, After
<1>6. ASSUME BeginDownload(v)
      PROVE  Contained'
  <2>1. /\ MustDownload(Now, v) /\ Commit(StartDownload(Now, v))
        /\ pc' = [op |-> "access", v |-> v]
    BY <1>6, PrudentClients DEF BeginDownload, Patient
  <2> QED BY <1>1, <2>1, WaitsBounded
<1> QED BY <1>3, <1>4, <1>5, <1>6

\* A Map that must fetch its output leaves sizes, and its input, as they are.
LEMMA MapWaitsBounded ==
  ASSUME NEW S, Good(S), Tidy(S), Bounded(S), NEW out \in Vector, NEW in \in Vector,
         out # in, S.vec[out].size = S.vec[in].size, Equipped(S, in),
         MustDownload(S, out), Commit(StartDownload(S, out)),
         pc' = [op |-> "map", v |-> out, w |-> in]
  PROVE  Contained'
<1> DEFINE T == StartDownload(S, out)
<1>1. /\ T \in Machine /\ T.vec[in] = S.vec[in]
      /\ T.vec[out].size = S.vec[out].size
  BY StartDownloadGood DEF Good
<1>2. Bounded(T)
  BY StartDownloadBounded
<1> HIDE DEF T
<1>3. Commit(T)
  BY DEF T
<1>4. Bounded(Now)' /\ vec' = T.vec
  BY <1>1, <1>2, <1>3, CommitBounded, CommitSame
<1>5. Now'.vec = vec'
  BY DEF Now
<1>6. vec'[out].size = vec'[in].size
  BY <1>1, <1>4
<1>7. Equipped(Now, in)'
  BY <1>1, <1>4, <1>5 DEF Equipped
<1> QED BY <1>4, <1>6, <1>7 DEF Contained

LEMMA MapCallBounded ==
  ASSUME Prudent, IInv, Confined, NEW out \in Vector, NEW in \in Vector,
         MapCall(out, in)
  PROVE  Contained'
<1> DEFINE P == PrepareInput(Now, in)
           E == EnlargeOutput(P, out, in)
           dist == IF IsValid(vec[in].dist) THEN vec[in].dist ELSE Block
           exchange == out # in /\ NeedsExchange(vec[out].dist, dist)
           k == [op |-> "map", v |-> out, w |-> in]
<1>1. /\ Good(Now) /\ Now.vec[in] = vec[in] /\ Now.vec[out] = vec[out] /\ Calm(Now)
      /\ Tidy(Now) /\ Bounded(Now)
  BY Guards, ReadyCalm DEF MapCall, Confined, Contained
<1>2. /\ Room(Now, in) /\ Room(Now, out)
      /\ vec[in].hostUp \/ vec[in].devUp
      /\ vec[out].hostUp \/ vec[out].devUp
      /\ vec[in].size # 0
  BY Guards DEF MapCall, Intact
<1>3. /\ After(E, exchange, k)
      /\ vec[out].size < vec[in].size => vec[out].hostUp /\ ~ Pending(Now, "write", out)
      /\ vec[out].size <= vec[in].size
  <2>1. {"fits", "quiet", "current"} \cap Broken = {}
    BY PrudentClients DEF Rule
  <2> QED BY <2>1 DEF MapCall, Keeps, Uploading
<1>4. /\ Good(P) /\ NewUse(Now, P, {in})
      /\ \A w \in Vector \ {in} : P.vec[w] = vec[w]
      /\ P.vec[in].size = vec[in].size
      /\ P.vec[in].dist = dist
      /\ Equipped(P, in)
  <2>1. /\ Good(P) /\ NewUse(Now, P, {in})
        /\ \A w \in Vector \ {in} : P.vec[w] = Now.vec[w]
        /\ P.vec[in].size = Now.vec[in].size
        /\ P.vec[in].dist = IF IsValid(Now.vec[in].dist) THEN Now.vec[in].dist
                            ELSE Block
        /\ \A d \in P.vec[in].dist.devices : P.vec[in].buf[d] # NoBuffer
    BY <1>1, <1>2, PrepareInputGood
  <2>2. Now.vec = vec
    BY DEF Now
  <2> HIDE DEF P
  <2> QED BY <2>1, <2>2 DEF Equipped
<1>5. /\ Calm(P) /\ Tidy(P) /\ Bounded(P) /\ IsValid(dist)
      /\ out # in /\ Pending(P, "write", out) => Pending(Now, "write", out)
  <2>1. /\ Calm(P)
        /\ \A w \in Vector \ {in} : Pending(P, "write", w) => Pending(Now, "write", w)
    BY <1>1, <1>2, PrepareInputCalm
  <2>2. Tidy(P)
    BY <1>1, <1>2, PrepareInputTidy
  <2>3. Bounded(P)
    BY <1>1, <1>2, PrepareInputBounded
  <2> HIDE DEF P
  <2> QED BY <2>1, <2>2, <2>3 DEF IsValid, Block
<1>6. P.vec[out].hostUp \/ P.vec[out].devUp
  <2>1. CASE out # in
    BY <1>2, <1>4, <2>1
  <2>2. CASE out = in
    BY <1>2, <1>4, <2>2, GoodRecord DEF Sound
  <2> QED BY <2>1, <2>2
<1>7. out # in => Room(P, out)
  BY <1>2, <1>4, RoomStays
<1> HIDE DEF P, dist
<1>8. /\ Good(E) /\ NewUse(P, E, {})
      /\ out = in => E = P
      /\ \A w \in Vector \ {out} : E.vec[w] = P.vec[w]
      /\ E.vec[out].dist = P.vec[out].dist
      /\ E.vec[out].hostUp \/ E.vec[out].devUp
  BY <1>2, <1>4, <1>6, EnlargeOutputGood
<1>9. Tidy(E) /\ Bounded(E) /\ E.vec[out].size = P.vec[in].size
  <2>1. P.vec[in].size # 0
    BY <1>2, <1>4
  <2>2. P.vec[out].size < P.vec[in].size =>
          P.vec[out].hostUp /\ ~ Pending(P, "write", out)
    <3>1. CASE out = in
      <4>1. P.vec[in].size \in 0 .. MaxSize
        BY <1>4, GoodRecord
      <4> QED BY <3>1, <4>1, MaxSizeAssumption
    <3>2. CASE out # in
      BY <1>3, <1>4, <1>5, <3>2
    <3> QED BY <3>1, <3>2
  <2>3. Tidy(E)
    BY <1>4, <1>5, <2>1, <2>2, EnlargeOutputTidy
  <2>4. P.vec[out].size <= P.vec[in].size
    <3>1. CASE out = in
      <4>1. P.vec[in].size \in 0 .. MaxSize
        BY <1>4, GoodRecord
      <4> QED BY <3>1, <4>1, MaxSizeAssumption
    <3>2. CASE out # in
      BY <1>3, <1>4, <3>2
    <3> QED BY <3>1, <3>2
  <2>5. Bounded(E) /\ E.vec[out].size = P.vec[in].size
    BY <1>4, <1>5, <1>6, <2>1, <2>2, <2>4, EnlargeOutputBounded
  <2> QED BY <2>3, <2>5
<1> HIDE DEF E
<1>10. out # in =>
         /\ Room(E, out) /\ E.vec[in].dist = dist /\ E.vec[out].dist = vec[out].dist
         /\ E.vec[out].size = E.vec[in].size /\ Equipped(E, in)
  BY <1>4, <1>7, <1>8, <1>9, RoomStays DEF Equipped
<1>11. CASE exchange /\ MustDownload(E, out)
  <2>1. Commit(StartDownload(E, out)) /\ pc' = k
    BY <1>3, <1>11 DEF After
  <2> QED BY <1>8, <1>9, <1>10, <1>11, <2>1, MapWaitsBounded
<1>12. CASE ~ (exchange /\ MustDownload(E, out))
  <2>1. Commit(Finish(E, k)) /\ pc' = Idle
    BY <1>3, <1>12 DEF After
  <2>2. Finish(E, k) = Execute(AdoptDistribution(E, out, in), out, in)
    BY DEF Finish
  <2>3. CASE out = in
    <3>1. AdoptDistribution(E, out, in) = P
      BY <1>8, <2>3 DEF AdoptDistribution
    <3>2. Good(Execute(P, out, in))
      BY <1>4, <1>5, <2>3, ExecuteGood DEF Equipped
    <3>3. Bounded(Execute(P, out, in))
      BY <1>4, <1>5, <2>3, ExecuteBounded
    <3> QED BY <2>1, <2>2, <3>1, <3>2, <3>3, ReturnsBounded
  <2>4. CASE out # in
    <3>1. E.vec[out].hostUp \/ ~ NeedsExchange(E.vec[out].dist, E.vec[in].dist)
      BY <1>8, <1>10, <1>12, <2>4 DEF MustDownload
    <3>2. Good(Execute(AdoptDistribution(E, out, in), out, in))
      BY <1>5, <1>8, <1>10, <2>4, <3>1, FinishMapGood
    <3>3. Bounded(Execute(AdoptDistribution(E, out, in), out, in))
      BY <1>5, <1>8, <1>9, <1>10, <2>4, <3>1, FinishMapBounded
    <3> QED BY <2>1, <2>2, <3>2, <3>3, ReturnsBounded
  <2> QED BY <2>3, <2>4
<1> QED BY <1>11, <1>12

LEMMA ResumeBounded ==
  ASSUME IInv, Confined, Resume
  PROVE  Contained'
<1>1. /\ Good(Now) /\ (\A v \in Vector : Now.vec[v] = vec[v])
      /\ Tidy(Now) /\ Bounded(Now)
  BY Guards DEF Confined, Contained
<1>2. Commit(Finish(Now, pc)) /\ pc \in Continuation /\ pc' = Idle
  BY DEF Resume, IInv, PcOK
<1>3. Good(Finish(Now, pc)) /\ Bounded(Finish(Now, pc))
  <2>1. CASE pc \in [op : {"access", "upload"}, v : Vector]
    BY <1>1, <2>1 DEF Finish
  <2>2. CASE pc \in [op : {"write"}, v : Vector, i : Nat, x : Value]
    <3>1. /\ pc.v \in Vector /\ pc.i \in Nat /\ pc.x \in Value
          /\ pc = [op |-> "write", v |-> pc.v, i |-> pc.i, x |-> pc.x]
      BY <2>2
    <3>2. Now.vec[pc.v].hostUp
      BY <1>1, <2>2 DEF IInv, PcOK
    <3> QED BY <1>1, <3>1, <3>2, FinishGood, FinishBounded
  <2>3. CASE pc \in [op : {"setDistribution"}, v : Vector, dist : ValidDistribution]
    <3>1. /\ pc.v \in Vector /\ pc.dist \in ValidDistribution
          /\ pc = [op |-> "setDistribution", v |-> pc.v, dist |-> pc.dist]
      BY <2>3
    <3>2. Now.vec[pc.v].hostUp
      BY <1>1, <2>3 DEF IInv, PcOK
    <3> QED BY <1>1, <3>1, <3>2, FinishGood, FinishBounded
  <2>4. CASE pc \in [op : {"map"}, v : Vector, w : Vector]
    <3>1. pc.op = "map" /\ pc.v \in Vector /\ pc.w \in Vector
      BY <2>4
    <3>2. /\ pc.v # pc.w /\ Room(Now, pc.v)
          /\ IsValid(Now.vec[pc.w].dist) /\ Now.vec[pc.v].hostUp
      BY <1>1, <3>1 DEF IInv, PcOK
    <3>3. Now.vec[pc.v].size = Now.vec[pc.w].size /\ Equipped(Now, pc.w)
      BY <1>1, <3>1 DEF Confined, Contained
    <3>4. Good(Execute(AdoptDistribution(Now, pc.v, pc.w), pc.v, pc.w))
      BY <1>1, <3>1, <3>2, FinishMapGood
    <3>5. Bounded(Execute(AdoptDistribution(Now, pc.v, pc.w), pc.v, pc.w))
      BY <1>1, <3>1, <3>2, <3>3, FinishMapBounded
    <3> QED BY <3>1, <3>4, <3>5 DEF Finish
  <2> QED BY <1>2, <2>1, <2>2, <2>3, <2>4 DEF Continuation
<1> QED BY <1>2, <1>3, ReturnsBounded

\* A device takes commands out of its queue, and changes no length and no record.
LEMMA DeviceStepBounded ==
  ASSUME IInv, Confined, NEW d \in Device, DeviceStep(d)
  PROVE  Contained'
<1> DEFINE T == RunHead(Now, d)
<1>1. Now \in Machine /\ Now.vec = vec /\ Now.queue = queue /\ Bounded(Now)
  BY DEF IInv, Good, Now, Confined, Contained
<1>2. Commit(T) /\ queue[d] # << >> /\ pc' = pc
  BY DEF DeviceStep
<1>3. T \in Machine /\ \A e \in Device : Queued(T, e) \subseteq Queued(Now, e)
  BY <1>1, <1>2, RunHeadType
<1>4. Lasting(Now, T)
  BY <1>1, <1>2, RunHeadSizes, InUse DEF Lasting
<1>5. PICK h \in [Vector -> Seq(Elem)] :
        \A v \in Vector : /\ T.vec[v] = [Now.vec[v] EXCEPT !.host = h[v]]
                          /\ Len(h[v]) = Len(Now.vec[v].host)
  BY <1>1, <1>2, RunHeadType
<1> HIDE DEF T
<1>6. \A v \in Vector : vec[v] \in VectorType
  BY <1>1, MachineParts
<1>7. \A v \in Vector : /\ T.vec[v].size = vec[v].size /\ T.vec[v].dist = vec[v].dist
                        /\ T.vec[v].hostUp = vec[v].hostUp /\ T.vec[v].buf = vec[v].buf
  BY <1>1, <1>5, <1>6 DEF VectorType
<1>8. Bounded(T)
  <2>1. Descends(Now, T, Identity)
    BY <1>3, DescendsSame
  <2>2. \A v \in Vector : T.vec[Identity[v]].size = Now.vec[v].size
    BY <1>1, <1>7 DEF Identity
  <2> QED BY <1>1, <1>4, <2>1, <2>2, Inherit
<1>9. Bounded(Now)' /\ vec' = T.vec /\ Now'.vec = T.vec
  BY <1>2, <1>3, <1>8, CommitBounded, CommitSame DEF Now
<1>10. pc # Idle => pc.v \in Vector /\ (pc.op = "map" => pc.w \in Vector)
  BY DEF IInv, PcOK, Continuation
<1>11. pc.op \in {"access", "map"} => pc # Idle
  BY DEF Idle
<1>12. pc.op = "access" => vec'[pc.v].hostUp
  BY <1>7, <1>9, <1>10, <1>11 DEF Confined, Contained
<1>13. pc.op = "map" => vec'[pc.v].size = vec'[pc.w].size /\ Equipped(Now', pc.w)
  BY <1>1, <1>7, <1>9, <1>10, <1>11 DEF Confined, Contained, Equipped
<1>14. \A w : Equipped(Now', w) <=> Equipped(Now, w)'
  BY DEF Equipped
<1> QED BY <1>2, <1>9, <1>12, <1>13, <1>14 DEF Contained

LEMMA InitConfined == Init => Confined
<1>1. ASSUME Init
      PROVE  pc = Idle /\ \A d \in Device : Queued(Now, d) = {}
  BY <1>1 DEF Init, Now, Queued
<1>2. Init => Contained
  BY <1>1 DEF Contained, Bounded, Idle
<1> QED BY <1>2, InitTidy, InitFlight DEF Confined

LEMMA NextConfined ==
  ASSUME Prudent, IInv, Confined, [Next]_vars
  PROVE  Confined'
<1>1. ASSUME HostStep
      PROVE  Contained'
  BY <1>1, ConstructionsBounded, CopyMoveSwapBounded, ResizeVectorBounded,
     HostCallsBounded, BufferCallsBounded, WaitingCallsBounded, MapCallBounded
     DEF HostStep
<1>2. ASSUME UNCHANGED vars
      PROVE  Contained'
  BY <1>2 DEF vars, Now, Confined, Contained, Bounded, Within, Contents, Queued, Equipped
<1>3. Contained'
  BY <1>1, <1>2, ResumeBounded, DeviceStepBounded DEF Next
<1>4. Tidy(Now)' /\ Flight'
  BY PrudentClients, NextTidy, NextFlight DEF Confined
<1> QED BY <1>3, <1>4 DEF Confined

-----------------------------------------------------------------------------
LEMMA ConfinedInBounds ==
  ASSUME IInv, Confined
  PROVE  TransfersInBounds
<1>1. SUFFICES ASSUME NEW d \in Device, NEW c \in Queued(Now, d),
                      c.op \in {"read", "kernel", "copy"} \/ c.vec \in Vector
               PROVE  InBounds(Now, d, c)
  BY DEF TransfersInBounds
<1>2. /\ Good(Now) /\ Now \in Machine /\ Now.vec = vec
      /\ Within(Now, d, c) /\ Moored(Now)
  BY <1>1 DEF IInv, Good, Now, Confined, Contained, Bounded, Flight
<1>3. c \in Command
  BY <1>2, MachineParts DEF Queued
<1>4. ASSUME NEW b
      PROVE  c.off + Len(Contents(Now, d, b)) \in Nat
  <2>1. Len(Contents(Now, d, b)) \in Nat
    BY <1>2, ContentsType, LenProperties
  <2> QED BY <1>3, <2>1 DEF Command
<1>5. ASSUME c.vec \in Vector, vec[c.vec].size <= Len(vec[c.vec].host),
             c.op \in {"read", "write"}, NEW b \in {c.from, c.to}
      PROVE  c.off + Len(Contents(Now, d, b)) <= Len(Host(Now, c.vec))
  <2>1. c.off + Len(Contents(Now, d, b)) <= vec[c.vec].size
    BY <1>2, <1>5 DEF Within
  <2>2. vec[c.vec].size \in Nat /\ Len(vec[c.vec].host) \in Nat
    <3>1. vec[c.vec].size \in 0 .. MaxSize /\ vec[c.vec].host \in Seq(Elem)
      BY <1>2, <1>5, GoodRecord
    <3> QED BY <3>1, MaxSizeAssumption, LenProperties
  <2>3. Host(Now, c.vec) = vec[c.vec].host
    BY <1>2, <1>5 DEF Host
  <2> QED BY <1>4, <1>5, <2>1, <2>2, <2>3
<1>6. CASE c.op = "write"
  <2>1. c.vec \in Vector /\ vec[c.vec].size <= Len(vec[c.vec].host)
    BY <1>2, <1>6 DEF Moored, Anchored
  <2> QED BY <1>5, <1>6, <2>1 DEF InBounds
<1>7. CASE c.op = "read"
  <2>1. pc # Idle /\ pc.op # "upload" /\ c.vec = pc.v
    BY <1>7 DEF Confined, Flight, NoReads, ReadsOf
  <2>2. pc.v \in Vector /\ vec[pc.v].hostUp
    <3>1. pc \in Continuation
      BY <2>1 DEF IInv, PcOK
    <3>2. pc.v \in Vector /\ pc.op \in {"access", "write", "setDistribution", "map"}
      BY <2>1, <3>1 DEF Continuation
    <3> QED BY <3>2 DEF IInv, PcOK, Confined, Contained
  <2>3. Len(vec[pc.v].host) = vec[pc.v].size /\ vec[pc.v].size \in Nat
    BY <1>2, <2>2, GoodRecord, MaxSizeAssumption DEF Sound
  <2> QED BY <1>5, <1>7, <2>1, <2>2, <2>3 DEF InBounds
<1>8. CASE c.op \notin {"read", "write"}
  BY <1>2, <1>8 DEF InBounds, Within
<1> QED BY <1>6, <1>7, <1>8

(***************************************************************************)
(* The inductive invariant of this module: the buffers fit, downloads are  *)
(* in flight only while the call that started them waits, and transfers    *)
(* stay within the sizes of their vectors.                                 *)
(***************************************************************************)
THEOREM TransfersAreConfined == ASSUME Prudent PROVE Spec => [](IInv /\ Confined)
<1>1. Obedient
  BY PrudentClients DEF Patient
<1>2. Init => IInv /\ Confined
  BY InitIInv, InitConfined
<1>3. (IInv /\ Confined) /\ [Next]_vars => (IInv /\ Confined)'
  BY <1>1, NextIInv, NextConfined
<1> QED BY <1>2, <1>3, PTL DEF Spec

(***************************************************************************)
(* Whatever the client resizes, moves, swaps or redistributes while the    *)
(* devices work, a command that runs reads and writes within the host      *)
(* memory and the buffers that were there when it was enqueued.            *)
(***************************************************************************)
THEOREM TransfersStayInBounds == ASSUME Prudent PROVE Spec => []TransfersInBounds
<1>1. IInv /\ Confined => TransfersInBounds
  BY ConfinedInBounds
<1> QED BY <1>1, TransfersAreConfined, PTL
=============================================================================

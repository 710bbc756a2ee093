---------------------------- MODULE DeviceQueue -----------------------------
(***************************************************************************)
(* The device side: OpenCL buffers, one in-order command queue per device, *)
(* and what each command does when the device gets to it.                  *)
(*                                                                         *)
(* Everything is an operator on a machine record                           *)
(*   [vec, mem, queue]                                                     *)
(* so that the library calls of the modules above can be composed the way  *)
(* the C++ functions call each other.  A command refers to buffers by id,  *)
(* as an OpenCL command holds a reference to its cl_mem, and to host       *)
(* memory by the vector that owns it, as the raw pointer handed to         *)
(* clEnqueueWriteBuffer does: host memory is read when the command RUNS.   *)
(***************************************************************************)
EXTENDS Distribution, Sequences, FiniteSets

CONSTANTS
  Vector,      \* the Vector objects of the program
  Value,       \* element values
  Junk,        \* an element nobody wrote: uninitialised or foreign memory
  F(_),        \* the user function of the skeleton
  Slot,        \* bound: buffers a vector created that are alive on a device
  NoBuffer,    \* "no buffer in _deviceBuffers for this device"
  Nobody       \* "no host memory": kernels, and pointers left dangling

ASSUME JunkAssumption   == Junk \notin Value
ASSUME FAssumption      == \A x \in Value \cup {Junk} : F(x) \in Value \cup {Junk}
ASSUME SlotAssumption   == Slot \subseteq Nat
ASSUME NobodyAssumption == Nobody \notin Vector

(***************************************************************************)
(* The handle of a buffer names the vector that created it: which of the   *)
(* unused handles a new buffer gets makes no difference.                   *)
(***************************************************************************)
BufferId == Vector \X Slot

ASSUME BufferAssumption == NoBuffer \notin BufferId

Elem == Value \cup {Junk}

Command == [op   : {"write", "read", "kernel", "copy"},
            from : BufferId \cup {NoBuffer},
            to   : BufferId \cup {NoBuffer},
            vec  : Vector \cup {Nobody},
            off  : Nat]

WriteCommand(b, v, off) ==
  [op |-> "write", from |-> NoBuffer, to |-> b, vec |-> v, off |-> off]

\* Mistake for ReadCommand: every part of the data goes to the front.
ReadCommand_AtFront(b, v, off) ==
  [op |-> "read", from |-> b, to |-> NoBuffer, vec |-> v, off |-> 0]

ReadCommand(b, v, off) ==
  [op |-> "read", from |-> b, to |-> NoBuffer, vec |-> v, off |-> off]

KernelCommand(in, out) ==
  [op |-> "kernel", from |-> in, to |-> out, vec |-> Nobody, off |-> 0]
CopyCommand(from, to) ==
  [op |-> "copy", from |-> from, to |-> to, vec |-> Nobody, off |-> 0]

-----------------------------------------------------------------------------
\* cmds maps each device that takes part to the command it is given.
EnqueueEach(S, cmds) ==
  [S EXCEPT !.queue = [d \in Device |->
      IF d \in DOMAIN cmds THEN Append(S.queue[d], cmds[d]) ELSE S.queue[d]]]

Queued(S, d) == {S.queue[d][i] : i \in DOMAIN S.queue[d]}

Pending(S, op, v) ==
  \E d \in Device : \E c \in Queued(S, d) : c.op = op /\ c.vec = v

\* Buffers kept alive by a container or by a command in flight.
Live(S, d) ==
  {S.vec[v].buf[d] : v \in Vector}
    \cup UNION {{c.from, c.to} : c \in Queued(S, d)}

FreeSlots(S, v, d) ==
  LET live == Live(S, d) IN {s \in Slot : <<v, s>> \notin live}

\* The last reference to a buffer releases its memory.
Release(S) ==
  [S EXCEPT !.mem = [d \in Device |->
      LET live == Live(S, d)
      IN  [b \in BufferId |-> IF b \in live THEN S.mem[d][b] ELSE << >>]]]

\* When the host memory of vectors moves, the commands in flight follow it:
\* owner gives the new owner of the memory, Nobody when it was freed.
Redirect(S, owner) ==
  [S EXCEPT !.queue = [d \in Device |-> [i \in 1 .. Len(S.queue[d]) |->
      [S.queue[d][i] EXCEPT !.vec = IF @ \in Vector THEN owner[@] ELSE @]]]]

Identity == [v \in Vector |-> v]

-----------------------------------------------------------------------------
Contents(S, d, b) == IF b \in BufferId THEN S.mem[d][b] ELSE << >>

Host(S, v) == IF v \in Vector THEN S.vec[v].host ELSE << >>

\* dst with src laid over it from position off on.
Overlay(dst, src, off) ==
  [i \in 1 .. Len(dst) |->
      IF i - off \in 1 .. Len(src) THEN src[i - off] ELSE dst[i]]

RunWrite(S, d, c) ==
  LET host == Host(S, c.vec)
      buf  == Contents(S, d, c.to)
  IN  [S EXCEPT !.mem[d][c.to] = [i \in 1 .. Len(buf) |->
         IF c.off + i \in 1 .. Len(host) THEN host[c.off + i] ELSE Junk]]

RunRead(S, d, c) ==
  IF c.vec \notin Vector THEN S ELSE
  [S EXCEPT !.vec[c.vec].host = Overlay(@, Contents(S, d, c.from), c.off)]

RunKernel(S, d, c) ==
  LET in == Contents(S, d, c.from)
  IN  [S EXCEPT !.mem[d][c.to] =
         Overlay(@, [i \in 1 .. Len(in) |-> F(in[i])], 0)]

RunCopy(S, d, c) ==
  [S EXCEPT !.mem[d][c.to] = Overlay(@, Contents(S, d, c.from), 0)]

\* The device takes the oldest command of its queue and completes it.
RunHead(S, d) ==
  LET c == Head(S.queue[d])
      T == [S EXCEPT !.queue[d] = Tail(@)]
  IN  CASE c.op = "write"  -> RunWrite(T, d, c)
        [] c.op = "read"   -> RunRead(T, d, c)
        [] c.op = "kernel" -> RunKernel(T, d, c)
        [] c.op = "copy"   -> RunCopy(T, d, c)

(***************************************************************************)
(* Every access of a queued command stays inside both of its ends.         *)
(***************************************************************************)
InBounds(S, d, c) ==
  CASE c.op = "write" ->
         c.vec \in Vector /\ c.off + Len(Contents(S, d, c.to)) <= Len(Host(S, c.vec))
    [] c.op = "read" ->
         c.vec \in Vector /\ c.off + Len(Contents(S, d, c.from)) <= Len(Host(S, c.vec))
    [] OTHER ->
         /\ {c.from, c.to} \subseteq BufferId
         /\ Len(Contents(S, d, c.from)) <= Len(Contents(S, d, c.to))
=============================================================================

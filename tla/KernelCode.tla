----------------------------- MODULE KernelCode -----------------------------
(***************************************************************************)
(* What the modules about the skeletons' OpenCL kernels have in common.    *)
(*                                                                         *)
(* A kernel is cut into phases at its barriers and wherever one statement  *)
(* reads what another work item writes.  What one item does in a phase is  *)
(* a function from the memory cells it assigns to the cells it combines:   *)
(* the new value of a cell is the fold, with the user function, of the     *)
(* values in the list.  An item loads all of them before it stores any.    *)
(*                                                                         *)
(* A value is the list of the inputs it was made of, and the user function *)
(* appends two lists: no two different combinations are equal, and the     *)
(* identity is the empty list.                                             *)
(***************************************************************************)
EXTENDS Integers, SequencesExt, FiniteSetsExt, TLC

\* The buffers a cell can be in.  Shared is the local memory of a work group.
Shared       == -1
In           == 0
Out          == 1
Second       == 2
Constants    == 3
Temporary(k) == 4 + k

Cell(buffer, index) == <<buffer, index>>

Nothing == << >>   \* of an item that has nothing to do in a phase

\* v at x, and the places of two functions, f's first.  (The provers do not know
\* the operators of TLC for them.)
At(x, v) == [y \in {x} |-> v]

Merged(f, g) ==
  [x \in DOMAIN f \cup DOMAIN g |-> IF x \in DOMAIN f THEN f[x] ELSE g[x]]

Copied(to, from) == At(to, <<from>>)

JunkValue      == <<0>>     \* memory nobody has written to
NeutralElement == <<-1>>

\* Buffers of n elements: fresh ones, and an input whose elements are told apart.
Fresh(n)         == [i \in 0 .. n - 1 |-> JunkValue]
Labelled(n, off) == [i \in 0 .. n - 1 |-> <<off + i + 1>>]

CeilDiv(a, b) == (a + b - 1) \div b

\* At least one b, also of nothing.
CeilToMultipleOf(a, b) == IF a = 0 THEN b ELSE CeilDiv(a, b) * b

\* What 1 becomes when it is shifted left k times.
Power[k \in Nat] == IF k = 0 THEN 1 ELSE 2 * Power[k - 1]

\* What a call says of numbers.
Positive == Nat \ {0}
=============================================================================

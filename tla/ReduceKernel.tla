---------------------------- MODULE ReduceKernel ----------------------------
(***************************************************************************)
(* Reduce: two launches.  In the first, each of a fixed number of items    *)
(* folds every global-th element; in the second, one work group folds what *)
(* they left, by halves.                                                   *)
(*                                                                         *)
(* A call c has n elements, wg the work-group size of the first launch and *)
(* max that of the second.                                                 *)
(***************************************************************************)
EXTENDS KernelCode

CONSTANT GlobalSize   \* the number of items of the first launch: 8192

ASSUME GlobalSizeAssumption == GlobalSize \in Nat \ {0}

\* OpenCL refuses a launch whose groups do not divide it.
ReduceCall(c) ==
  /\ c.n \in Positive /\ c.warp \in Positive
  /\ c.wg \in 1 .. GlobalSize /\ c.max \in Positive
  /\ GlobalSize % c.wg = 0

ReduceFirst(c) ==
  [kernel |-> "SCL_REDUCE_1", groups |-> GlobalSize \div c.wg, items |-> c.wg,
   local |-> 0, size |-> c.n]

ReduceSecond(c) ==
  LET left  == Min({GlobalSize, c.n})
      items == Min({left, c.max})
  IN  [kernel |-> "SCL_REDUCE_2", groups |-> 1, items |-> items,
       local |-> items, size |-> left]

ReduceLaunches(c) == <<ReduceFirst(c), ReduceSecond(c)>>

ReduceBuffers(c) ==
  [b \in {In, Out, Temporary(0)} |->
     CASE b = In  -> Labelled(c.n, 0)
       [] b = Out -> Fresh(1)
       [] OTHER   -> Fresh(GlobalSize)]

-----------------------------------------------------------------------------
\* buffer[first], buffer[first + step], ... as far as there are size elements;
\* the first one is read without a look at size.
Strided(buffer, first, step, size) ==
  [k \in 1 .. Max({1, CeilDiv(size - first, step)}) |->
     Cell(buffer, first + (k - 1) * step)]

\* An item beyond the data returns; the one just beyond it does not.
ReduceFirstCode(l, g, t) ==
  LET my_pos == g * l.items + t
  IN  IF my_pos > l.size THEN Nothing
      ELSE At(Cell(Temporary(0), my_pos), Strided(In, my_pos, GlobalSize, l.size))

\* DATA_SIZE in the n'th round of the loop.
Remaining(l) ==
  LET size[n \in Nat] ==
        IF n = 0 THEN Min({l.items, l.size}) ELSE CeilDiv(size[n - 1], 2)
  IN  size

Rounds(l) == CHOOSE n \in 0 .. l.items :
  /\ Remaining(l)[n] <= 1
  /\ \A m \in 0 .. n - 1 : Remaining(l)[m] > 1

\* Mistake for FoldHalves: the odd element out is left behind.
FoldHalves_RoundedDown(t, size) ==
  IF t < size \div 2
  THEN At(Cell(Shared, t), <<Cell(Shared, t), Cell(Shared, t + size \div 2)>>)
  ELSE Nothing

FoldHalves(t, size) ==
  IF t < size \div 2
  THEN At(Cell(Shared, t), <<Cell(Shared, t), Cell(Shared, t + CeilDiv(size, 2))>>)
  ELSE Nothing

ReduceSecondPhases(l) == Rounds(l) + 2

\* There is a barrier in each round, and none after the loop.
ReduceSecondBarrier(l, p) == p \in 1 .. Rounds(l)

ReduceSecondCode(l, t, p) ==
  CASE p = 0 -> At(Cell(Shared, t), Strided(Temporary(0), t, l.items, l.size))
    [] p \in 1 .. Rounds(l) -> FoldHalves(t, Remaining(l)[p - 1])
    [] p = Rounds(l) + 1 -> Copied(Cell(Out, 0), Cell(Shared, 0))
=============================================================================

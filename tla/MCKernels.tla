------------------------------ MODULE MCKernels ------------------------------
(* Values of the constants of Kernels for TLC. *)
EXTENDS Kernels

Scan(n, wg, warp, out) ==
  [skeleton |-> "scan", n |-> n, wg |-> wg, warp |-> warp, out |-> out]

Reduce(n, wg, max, warp) ==
  [skeleton |-> "reduce", n |-> n, wg |-> wg, max |-> max, warp |-> warp]

Overlap(rows, total, cols, side, range, neutral, warp, out) ==
  [skeleton |-> "overlap", rows |-> rows, total |-> total, cols |-> cols, side |-> side,
   range |-> range, neutral |-> neutral, warp |-> warp, out |-> out]

AllPairs(height, dimension, width, C, R, S, D, warp) ==
  [skeleton |-> "allpairs", general |-> FALSE, height |-> height, dimension |-> dimension,
   width |-> width, C |-> C, R |-> R, S |-> S, D |-> D, warp |-> warp]

AllPairsGeneral(height, dimension, width, C, R, warp) ==
  [AllPairs(height, dimension, width, C, R, 1, 1, warp) EXCEPT !.general = TRUE]

\* A call of Map on device d, with rest more elements in the output's part.
MapOn(form, parts, d, rest, cols, side, warp) ==
  LET before(e) == PartsUpTo([parts |-> parts], e)
  IN  [skeleton |-> "map", form |-> form, parts |-> parts, device |-> d, first |-> before(d - 1),
       outPart |-> parts[d] * cols + rest, outSize |-> before(Len(parts)) * cols + rest,
       cols |-> cols, side |-> side, warp |-> warp]

\* The same when all devices have the whole input.
MapOnReplica(form, n, d, side, warp) ==
  [MapOn(form, <<n, n>>, d, 0, 1, side, warp) EXCEPT !.first = 0, !.outSize = n]

ZipOf(n, side, warp, out, result) ==
  [skeleton |-> "zip", result |-> result, n |-> n, side |-> side, warp |-> warp, out |-> out]

\* Sizes around the multiples of the work-group size, one to three passes.
Scans ==
  {Scan(n, 2, 1, Out) : n \in 1 .. 8} \cup {Scan(n, 4, 1, Out) : n \in 1 .. 8}
    \cup {Scan(8, 8, 2, Out), Scan(6, 4, 1, In)}

\* As many elements as items, fewer, and more.
Reductions ==
  {Reduce(n, 2, 4, 4) : n \in 1 .. 9} \cup {Reduce(n, 4, 2, 2) : n \in 3 .. 9}

Overlaps ==
  {Overlap(2, 2, 4, 2, 1, TRUE, 2, Out), Overlap(2, 4, 4, 2, 1, FALSE, 2, Out),
   Overlap(2, 4, 4, 2, 2, FALSE, 2, Out), Overlap(3, 3, 4, 2, 1, FALSE, 4, Out),
   Overlap(2, 2, 2, 2, 1, TRUE, 1, Out)}

Products ==
  {AllPairs(3, d, 2, 2, 1, 2, 2, 1) : d \in 1 .. 3}
    \cup {AllPairs(3, 3, 3, 2, 1, 2, 2, 2), AllPairs(5, 3, 2, 2, 2, 2, 2, 2),
          AllPairs(3, 2, 1, 2, 2, 1, 3, 2), AllPairs(2, 3, 2, 2, 2, 1, 1, 2)}

\* One device and two, outputs that are larger than the input, replicas, matrices.
Maps ==
  {MapOn(f, <<n>>, 1, 0, 1, 2, 1) :
     f \in {"elements", "elements, no result", "indices", "indices, no result"}, n \in 1 .. 5}
    \cup {MapOn(f, p, d, 1, 1, 2, 2) :
           f \in {"elements", "indices", "indices, no result"},
           p \in {<<2, 3>>, <<4, 2>>}, d \in 1 .. 2}
    \cup {MapOnReplica(f, 3, d, 2, 2) :
           f \in {"elements", "indices", "indices, no result"}, d \in 1 .. 2}
    \cup {MapOn(f, <<2, 1>>, d, 0, cols, 2, 2) :
           f \in {"points", "points, no result"}, d \in 1 .. 2, cols \in 1 .. 4}

Zips ==
  {ZipOf(n, 2, 1, Out, TRUE) : n \in 1 .. 5}
    \cup {ZipOf(5, 4, 2, In, TRUE), ZipOf(3, 2, 1, Second, TRUE), ZipOf(3, 2, 2, Out, FALSE)}

GeneralProducts ==
  {AllPairsGeneral(2, 2, 3, 2, 2, 2), AllPairsGeneral(3, 1, 1, 2, 2, 1)}

AllCalls == Maps \cup Zips \cup GeneralProducts \cup Scans \cup Reductions \cup Overlaps \cup Products
RacyReduction == {Reduce(4, 2, 4, 1)}
OddScan == {Scan(9, 8, 4, Out)}
TallMatrix == {Overlap(3, 3, 2, 2, 1, FALSE, 2, Out)}
RaggedPoints == {MapOn("points", <<2>>, 1, 0, 3, 2, 1)}
RaggedParts == {MapOn("indices", <<3, 3>>, 1, 0, 1, 2, 2)}
RaggedMatrix == {Overlap(2, 2, 3, 2, 1, FALSE, 2, Out)}
WideRange == {Overlap(2, 2, 4, 2, 3, FALSE, 2, Out)}
=============================================================================

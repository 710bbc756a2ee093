----------------------------- MODULE MCMatrices -----------------------------
(* Values of the constants of Matrices for TLC. *)
EXTENDS Matrices, TLC

CONSTANTS m1, m2, m3

MCQuota(n) == n \div NumDevices

TwoMatrices   == {m1, m2}
ThreeMatrices == {m1, m2, m3}

Symmetry == Permutations(Matrix)

Stencil(radius, padding) == [radius |-> radius, padding |-> padding]

Square == {<<2, 2>>}
Upright == {<<3, 2>>, <<3, 3>>, <<6, 2>>}

AllDistributions == DistributionType
Spread == {Invalid, Single(1), Block, Copy}
Stencils == {Stencil(1, "NEAREST"), Stencil(2, "NEUTRAL")}
Nearest == {Stencil(1, "NEAREST")}
=============================================================================

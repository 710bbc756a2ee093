------------------------------ MODULE MCSkelCL ------------------------------
(* Values of the constants of SkelCL for TLC. *)
EXTENDS SkelCLProperties

CONSTANTS a, b

OneVector == {a}
TwoVectors == {a, b}
AllDistributions == DistributionType
HostOrBlock == {Invalid, Block}
SecondOrBlock == {Single(1), Block}
JustBlock == {Block}
JustSecond == {Single(1)}
FourOrTwo == {<<0, 1>>, <<0, 0, 1, 1>>}
Stairs == {<<0, 1>>}
OddStairs == {<<0, 1, 1>>}
OneElement == {<<0>>}
Spread == {Single(1), Block, Copy}
Symmetry == Permutations(TwoVectors)
MCQuota(n) == n \div NumDevices
\* The user function: it moves every value, so applying it twice shows.
MCF(x) == IF x = Junk THEN Junk ELSE (x + 1) % Cardinality(Value)
=============================================================================

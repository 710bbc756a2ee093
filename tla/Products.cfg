CONSTANTS
  m1 = m1
  m2 = m2
  m3 = m3
  NumDevices = 2
  MaxSize = 3
  Quota <- MCQuota
  Side = 2
  Matrix <- ThreeMatrices
  Calls = {"construct", "access", "setDistribution", "zip", "overlap", "allpairs"}
  Shapes <- Square
  Dists <- AllDistributions
  Overlaps <- Nearest
  Written = {}
  Broken = {}
SPECIFICATION Spec
INVARIANTS
  CurrentWhereMarked
SYMMETRY Symmetry

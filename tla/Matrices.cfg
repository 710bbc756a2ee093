CONSTANTS
  m1 = m1
  m2 = m2
  m3 = m3
  NumDevices = 3
  MaxSize = 6
  Quota <- MCQuota
  Side = 2
  Matrix <- TwoMatrices
  Calls = {"construct", "move", "resize", "assign", "insert", "pop", "erase", "clear", "access", "write", "setDistribution", "copyDataToDevices", "map", "overlap"}
  Shapes <- Upright
  Dists <- Spread
  Overlaps <- Stencils
  Written = {1, 4}
  Broken = {}
SPECIFICATION Spec
INVARIANTS
  TypeOK
  CurrentWhereMarked
  DataIsSomewhere
  OverlapsAreBorders
  TransfersFit
SYMMETRY Symmetry

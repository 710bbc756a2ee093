CONSTANTS
  a = a
  b = b
  NumDevices = 2
  MaxSize = 3
  Quota <- MCQuota
  Vector <- TwoVectors
  Value = {0, 1}
  Junk = Junk
  F <- MCF
  Slot = {1, 2, 3}
  NoBuffer = NoBuffer
  Nobody = Nobody
  Zero = 0
  Calls = {"construct", "access", "setDistribution", "map"}
  Ranges <- OddStairs
  Sizes = {3}
  Inputs = {1}
  Dists <- Spread
  Backlog = 1
  Broken = {}
SPECIFICATION Spec
INVARIANTS
  CurrentCopyExists
  CopiesAgree
  TransfersInBounds
PROPERTIES
  MapComputesAll
  DevicesAreInvisible
SYMMETRY Symmetry

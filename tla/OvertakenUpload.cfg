CONSTANTS
  a = a
  b = b
  NumDevices = 2
  MaxSize = 2
  Quota <- MCQuota
  Vector <- TwoVectors
  Value = {0, 1}
  Junk = Junk
  F <- MCF
  Slot = {1, 2, 3}
  NoBuffer = NoBuffer
  Nobody = Nobody
  Zero = 0
  Calls = {"construct", "setDistribution", "map"}
  Ranges <- Stairs
  Sizes = {2}
  Inputs = {1}
  Dists <- SecondOrBlock
  Backlog = 2
  Broken = {"settled"}
SPECIFICATION Spec

PROPERTIES
  DevicesAreInvisible
SYMMETRY Symmetry

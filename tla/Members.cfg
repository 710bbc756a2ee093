CONSTANTS
  a = a
  b = b
  NumDevices = 2
  MaxSize = 2
  Quota <- MCQuota
  Vector <- TwoVectors
  Value = {0, 1}
  Junk = Junk
  F <- MCF
  Slot = {1, 2, 3}
  NoBuffer = NoBuffer
  Nobody = Nobody
  Zero = 0
  Calls = {"default", "construct", "swap", "resize", "insert", "erase", "assign", "clear", "access", "write", "map"}
  Ranges <- Stairs
  Sizes = {2}
  Inputs = {1}
  Dists <- JustBlock
  Backlog = 0
  Broken = {}
SPECIFICATION Spec
INVARIANTS
  TypeOK
  SizeIsCurrent
PROPERTIES
  ImplementsContainers
  CallsDoWhatTheySay
  WritesLand
SYMMETRY Symmetry

CONSTANTS
  a = a
  b = b
  NumDevices = 2
  MaxSize = 2
  Quota <- MCQuota
  Vector <- TwoVectors
  Value = {0, 1}
  Junk = Junk
  F <- MCF
  Slot = {1, 2, 3}
  NoBuffer = NoBuffer
  Nobody = Nobody
  Zero = 0
  Calls = {"construct", "copy", "move", "map"}
  Ranges <- OneElement
  Sizes = {2}
  Inputs = {1}
  Dists <- JustSecond
  Backlog = 2
  Broken = {}
SPECIFICATION Spec
INVARIANTS
  BuffersAreOwned
  NoDanglingUpload
PROPERTIES
  CallsDoWhatTheySay
SYMMETRY Symmetry

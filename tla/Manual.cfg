CONSTANTS
  a = a
  b = b
  NumDevices = 2
  MaxSize = 3
  Quota <- MCQuota
  Vector <- OneVector
  Value = {0, 1}
  Junk = Junk
  F <- MCF
  Slot = {1, 2, 3}
  NoBuffer = NoBuffer
  Nobody = Nobody
  Zero = 0
  Calls = {"construct", "access", "write", "resize", "setDistribution", "createBuffers", "forceCreateBuffers", "startUpload", "copyDataToDevices", "startDownload", "dataOnDeviceModified", "dataOnHostModified", "map"}
  Ranges <- OddStairs
  Sizes = {2, 3}
  Inputs = {1}
  Dists <- AllDistributions
  Backlog = 1
  Broken = {}
SPECIFICATION Spec
INVARIANTS
  AccessIsComplete
  BuffersFit
PROPERTIES
  CallsDoWhatTheySay

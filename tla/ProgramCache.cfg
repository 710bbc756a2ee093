CONSTANTS
  p = p
  q = q
  Process <- TwoProcesses
  NumDevices = 2
  Skeleton <- TwoSources
  Key <- MCKey
  Blocks = 2
  Tolerated = {}
SPECIFICATION Spec
INVARIANTS
  TypeOK
  RunsWhatWasAsked
  FilesAreWhole
  NobodyAborts

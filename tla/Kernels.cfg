CONSTANTS
  GlobalSize = 4
  Requests <- AllCalls
  Units = 2
  Tolerated = {}
SPECIFICATION Spec
INVARIANTS
  TypeOK
  NoRace
  StoresInBounds
  BarriersAreMet
  ScanIsPrefix
  ReduceIsFold
  OverlapIsStencil
  AllPairsIsProduct
  MapIsPointwise
  ZipIsPointwise
PROPERTIES
  CallsComplete

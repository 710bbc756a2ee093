CONSTANTS
  GlobalSize = 4
  Requests <- TallMatrix
  Units = 2
  Tolerated = {"allRows"}
SPECIFICATION Spec
INVARIANTS
  OverlapIsStencil

CONSTANTS
  GlobalSize = 4
  Requests <- RaggedPoints
  Units = 2
  Tolerated = {"wholeColumns"}
SPECIFICATION Spec
INVARIANTS
  MapIsPointwise

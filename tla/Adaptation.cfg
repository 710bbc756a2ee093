CONSTANTS
  Requests <- MCRequests
  Tolerated = {}
SPECIFICATION Spec
INVARIANTS
  WellFormed
  UserCodeKept
  ArgumentsArrive

SPECIFICATION Spec
CONSTANTS
  Requests = {r1, r2}
  MaxHeld = 1
  KeepAlive = TRUE
  MaxRuns = 2
SYMMETRY RequestSymmetry
INVARIANTS
  TypeOK
  NoForwardIntoStop
  FullWindowAfterRequest
  GateIsOwned

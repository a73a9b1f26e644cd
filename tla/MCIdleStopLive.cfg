SPECIFICATION FairSpec
CONSTANTS
  Requests = {r1}
  MaxHeld = 1
  KeepAlive = FALSE
  MaxRuns = 2
INVARIANT
  BracketsBalance
PROPERTIES
  GatedRequestProceeds
  UnusedIsStopped

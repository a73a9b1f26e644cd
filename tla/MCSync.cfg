SPECIFICATION Spec
CONSTANTS
  MaxPort = 9
  Confs <- MCConfs
  Boot <- MCBoot
  Hand <- MCHand
  Trees <- MCTrees
  Parked <- MCParked
  Settings <- MCSettings
  Printed = {0, 5}
  Foreign = 7
  MaxRuns = 3
  MaxEdits = 1
CHECK_DEADLOCK FALSE
INVARIANTS
  TypeOK
  WorktreesAreProxied
  RetiredIsUnproxied
PROPERTIES
  ConfigStillLoads
  SitesAreRespected
  Idempotent

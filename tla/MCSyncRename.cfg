SPECIFICATION Spec
CONSTANTS
  MaxPort = 9
  Confs <- RenameConfs
  Boot <- MCBoot
  Hand <- MCHand
  Trees <- MCTrees
  Parked <- MCParked
  Settings <- MCSettings
  Printed = {0, 5}
  Foreign = 7
  MaxRuns = 2
  MaxEdits = 1
CHECK_DEADLOCK FALSE
INVARIANT EntriesAreProxied

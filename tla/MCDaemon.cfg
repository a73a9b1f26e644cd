SPECIFICATION FairSpec
CONSTANTS
  MaxPort = 20
  Files <- MCFiles
  Boot <- MCBoot
  Names = {"a", "b", "c"}
  EntryNames = {"w"}
  Ports = {1, 2, 3, 4}
  Busy = {1, 2}
  Dirs = {"d"}
  Requests = {q1}
  MaxReloads = 2
CHECK_DEADLOCK FALSE
INVARIANTS
  TypeOK
  RoutesAreLive
  TableIsServed
  KeptRouteStays
  OneServerPerPort
  NothingSurvives
PROPERTIES
  UnchangedUntouched
  ParkedIsReleased
  ShutdownEnds

SPECIFICATION WildcardSpec
CONSTANTS
  MaxPort = 20
  Files <- NoFiles
  Boot <- Both
  Names = {"x"}
  EntryNames = {"w", "v"}
  Ports = {1, 2}
  Busy = {}
  Dirs = {"d"}
  Requests = {q1, q2}
  MaxReloads = 0
  Labels = {"x"}
  PortsOf <- PortsOfX
  Fates = {{"w", "vanish"}, {"w", "operate"}, {"v", "vanish"}, {"v", "operate"}}
  MaxHeld = 2
  MaxRegs = 2
CHECK_DEADLOCK FALSE
SYMMETRY RequestSymmetry
INVARIANTS
  SingleFlight
  DynamicIsServed
  OneServerPerPort
PROPERTY OnlyLateStartersOutlive

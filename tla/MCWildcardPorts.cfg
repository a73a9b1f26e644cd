SPECIFICATION WildcardSpec
CONSTANTS
  MaxPort = 20
  Files <- NoFiles
  Boot <- Ranged
  Names = {"x", "y"}
  EntryNames = {"w"}
  Ports = {1}
  Busy = {}
  Dirs = {"d"}
  Requests = {q1, q2}
  MaxReloads = 0
  Labels = {"x", "y"}
  PortsOf <- NoPorts
  Fates = {{"w"}}
  MaxHeld = 2
  MaxRegs = 2
CHECK_DEADLOCK FALSE
INVARIANT PortsAreOwn

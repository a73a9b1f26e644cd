SPECIFICATION FairSpec
CONSTANTS
  Clients = {c1, c2}
  MaxSpawns = 1
  MaxFailures = 1
PROPERTIES
  StartIsAnswered
  StopFinishes

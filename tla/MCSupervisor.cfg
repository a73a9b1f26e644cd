SPECIFICATION Spec
CONSTANTS
  Clients = {c1, c2}
  MaxSpawns = 2
  MaxFailures = 2
SYMMETRY ClientSymmetry
INVARIANTS
  TypeOK
  NoOrphan
  EveryWaiterHasOneSender
  OneStopOwner
  BackoffOnlyAfterFailure
  AbortReasonIsOwn
PROPERTY
  RetiredStaysDown
  ImplementsLifecycle

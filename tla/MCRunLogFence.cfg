SPECIFICATION Spec
CONSTANTS
  o1 = o1
  o2 = o2
  c1 = c1
  Orchestrators = {o1, o2}
  Clients = {c1}
  ClientOps = {"run_created", "run_cancelled"}
  EarlyOps = {"run_created", "run_cancelled"}
  MaxEvents = 4
  MaxCollisions = 1
SYMMETRY Symmetry
INVARIANTS
  TypeOK
  NoHoles
  RunCreatedFirst
  CountMatchesLog
  NoBlindWrite
  SnapshotNeverAhead
  StepCreatedOnce
  CompletionIsLogged
PROPERTIES
  ImplementsAppendLog

SPECIFICATION Spec
CONSTANTS
  o1 = o1
  o2 = o2
  c1 = c1
  Orchestrators = {}
  Clients = {o1, o2, c1}
  ClientOps = {"run_created", "run_completed", "run_failed", "run_cancelled", "step_created"}
  EarlyOps = {"run_created"}
  MaxEvents = 4
  MaxCollisions = 1
SYMMETRY Symmetry
INVARIANTS
  TerminalEventMatchesStatus
PROPERTIES
  AppendOnly
CHECK_DEADLOCK FALSE

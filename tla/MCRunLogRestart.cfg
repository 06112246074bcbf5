SPECIFICATION Spec
CONSTANTS
  o1 = o1
  o2 = o2
  c1 = c1
  Orchestrators = {o1}
  Clients = {c1}
  ClientOps = {"run_created", "run_cancelled"}
  EarlyOps = {"run_created"}
  MaxEvents = 3
  MaxCollisions = 1
PROPERTIES
  TerminalStatusIsFinal

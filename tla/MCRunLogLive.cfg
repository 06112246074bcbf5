SPECIFICATION FairSpec
CONSTANTS
  o1 = o1
  o2 = o2
  c1 = c1
  Orchestrators = {o1, o2}
  Clients = {c1}
  ClientOps = {"run_created", "run_cancelled"}
  EarlyOps = {"run_created"}
  MaxEvents = 2
  MaxCollisions = 1
PROPERTIES
  CallsReturn

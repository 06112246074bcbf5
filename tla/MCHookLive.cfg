SPECIFICATION FairSpec
CONSTANTS
  r1 = r1
  r2 = r2
  r3 = r3
  p1 = p1
  p2 = p2
  p3 = p3
  Runs = {r1, r2, r3}
  Forced = {r2, r3}
  Old = {}
  Retaining = {}
  Procs = {p1, p2}
  MaxCalls = 3
  MaxOwnerChanges = 1
PROPERTIES
  HookCallsReturn
CHECK_DEADLOCK FALSE

SPECIFICATION Spec
CONSTANTS
  r1 = r1
  r2 = r2
  r3 = r3
  p1 = p1
  p2 = p2
  p3 = p3
  Runs = {r1, r2}
  Forced = {r1, r2}
  Old = {}
  Retaining = {}
  Procs = {p1, p2}
  MaxCalls = 2
  MaxOwnerChanges = 1
INVARIANTS
  ForcedConflictHasReason
CHECK_DEADLOCK FALSE

SPECIFICATION Spec
CONSTANTS
  r1 = r1
  r2 = r2
  r3 = r3
  p1 = p1
  p2 = p2
  p3 = p3
  Runs = {r1, r2, r3}
  Forced = {r2, r3}
  Old = {r3}
  Retaining = {r1}
  Procs = {p1, p2, p3}
  MaxCalls = 3
  MaxOwnerChanges = 1
SYMMETRY Symmetry
INVARIANTS
  TypeOK
  OneHolder
  RowMatchesJournal
  JournalConsumable
  NothingAfterEnd
  TakeoverIsMutual
  NoWaitCycle
  TakeoverKeepsItsClaim
  RedirectedNotDropped
CHECK_DEADLOCK FALSE

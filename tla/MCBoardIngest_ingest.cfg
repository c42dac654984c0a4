SPECIFICATION Spec
CONSTANTS
  p1 = p1
  p2 = p2
  e1 = e1
  e2 = e2
  x1 = x1
  t1 = t1
  t2 = t2
  Tasks = {t1, t2}
  Posts = {p1, p2}
  Edits = {e1}
  Tombstones = {x1}
  Home = {p2, x1}
  Authorized = {x1}
  TargetOf <- OnFirst
  CreatedAt <- InOrderOfMaking
  MaxThreads = 1
  MaxFailures = 1
  MaxForgets = 1
  MaxRestarts = 1
SYMMETRY SameTask
INVARIANTS
  FiredOncePerEntry
  OnlyAuthorizedShown
  PendingOnlyIfRaced
  AppliedOrCut
  NothingBlocked
CHECK_DEADLOCK FALSE

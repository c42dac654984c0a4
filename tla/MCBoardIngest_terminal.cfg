SPECIFICATION Spec
CONSTANTS
  p1 = p1
  p2 = p2
  e1 = e1
  e2 = e2
  x1 = x1
  t1 = t1
  t2 = t2
  Tasks = {t1, t2}
  Posts = {p1}
  Edits = {e1}
  Tombstones = {x1}
  Home = {}
  Authorized = {e1, x1}
  TargetOf <- OnFirst
  CreatedAt <- InOrderOfMaking
  MaxThreads = 0
  MaxFailures = 0
  MaxForgets = 0
  MaxRestarts = 0
INVARIANT TombstoneIsTerminal
CHECK_DEADLOCK FALSE

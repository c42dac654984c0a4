SPECIFICATION Spec
CONSTANTS
  None = None
  Sessions = {s, t}
  AccountOf <- OneAccount
  Files = {f}
  Size <- Sizes
  Names = {n, m}
  Quota = 2
  Cap = 1
  CacheMax = 1
  MaxOpens = 2
  Inodes = {1, 2}
  MaxRestarts = 1
SYMMETRY FilingSymmetry
INVARIANTS
  LimitsHeld
  StagesSound
  BlobIntact
  DenialHonoured
CHECK_DEADLOCK FALSE

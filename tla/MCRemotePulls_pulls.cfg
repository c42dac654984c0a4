SPECIFICATION Spec
CONSTANTS
  None = None
  Shut = Shut
  g1 = g1
  g2 = g2
  Jobs = {j, k}
  AccountOf <- OnePerson
  Grants = {g1, g2}
  Expires <- Lapses
  GrantedBy <- OneSender
  Items <- TwoAndOne
  MAX_RUNNING = 2
  PerAccount = 2
  MAX_PULL_SESSIONS = 2
  MAX_PULL_SESSIONS_PER_ACCOUNT = 1
  OPEN_SKEW_SECS = 0
  SERVE_GRACE_SECS = 0
  MaxTries = 2
  StartsOff = {}
  Fickle = {"pulls"}
  Losable <- TheSecond
  MaxSwitches = 1
  MaxClock = 1
  MaxPulls = 2
  MaxLinks = 1
  MaxRestarts = 1
SYMMETRY JobSymmetry
INVARIANTS
  GrantCountsOnce
  NothingLeaks
  StopHonoured
PROPERTIES
  NearerItsEnd
CHECK_DEADLOCK FALSE

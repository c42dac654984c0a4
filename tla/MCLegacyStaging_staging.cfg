SPECIFICATION Spec
CONSTANTS
  None = None
  Ids = {z, h}
  HotlineIds = {h}
  Claims = {c1, c2}
  Bytes = {0}
  Foreign = 9
  Offers <- MCOffers
  Declared = {1}
  MAX_FILE = 2
  MAX_TOTAL = 3
  MAX_RECORDS = 2
  MaxFaults = 2
SYMMETRY ClaimSymmetry
INVARIANTS
  LeasesSound
  AckedSurvives
  ReservationHonoured
CHECK_DEADLOCK FALSE

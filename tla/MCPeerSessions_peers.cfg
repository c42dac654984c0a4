SPECIFICATION LiveSpec
CONSTANTS
  k1 = k1
  k2 = k2
  k3 = k3
  k4 = k4
  Keys = {k1, k2, k3, k4}
  OriginOf <- SharedOrigin
  Configured = {k1, k3}
  Pinned = {k1, k3}
  Silent = {k3}
  MaxApproved = 4
  Conns = {1, 2, 3}
  MaxInbound = 1
  MaxEvents = 3
INVARIANTS
  ConnectedUnlessLost
  RevokedStays
  ApprovedUnlessIgnored
PROPERTIES
  RevokedEnds
  RedialedUnlessHeld
CHECK_DEADLOCK FALSE

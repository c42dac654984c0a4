SPECIFICATION Spec
CONSTANTS
  None = None
  k1 = k1
  k2 = k2
  l1 = l1
  l2 = l2
  Keys = {k1, k2}
  Origins = {o, q}
  Links = {l1, l2}
  PeerOf <- TwoPeers
  Dialled = {l1}
  MAX_CACHED_CATALOGS = 1
  MaxGens <- Gens
  MaxChanges = 2
  MaxFaults = 2
INVARIANTS
  RevokedNeverReturns
  CacheSound
PROPERTIES
  WatermarkStays
SYMMETRY OriginSymmetry
CHECK_DEADLOCK FALSE

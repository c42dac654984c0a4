SPECIFICATION LiveSpec
CONSTANTS
  a = a
  b = b
  c = c
  d = d
  Nodes = {a, b}
  Links <- Pair
  Events = {1, 2, 3}
  OriginOf <- AllFromA
  Trusts <- TrustAll
  Wants = {a, b}
  ScanLimit = 4
  OfferLimit = 2
  SizeOf <- Sizes
  MaxFrame = 2
  Periodic = TRUE
  MaxDrops = 1
  MaxFaults = 1
  MaxInFlight = 2
PROPERTIES
  Converges
  Quiet
CHECK_DEADLOCK FALSE

SPECIFICATION Spec
CONSTANTS
  a = a
  b = b
  c = c
  d = d
  Nodes = {a, b, c, d}
  Links <- RingAndTail
  Events = {1}
  OriginOf <- AllFromA
  Trusts <- NotD
  Wants = {a, b, c, d}
  ScanLimit = 1
  OfferLimit = 1
  SizeOf <- Sizes
  MaxFrame = 2
  Periodic = FALSE
  MaxDrops = 0
  MaxFaults = 1
  MaxInFlight = 1
INVARIANTS
  OneStorer
PROPERTIES
  NoEcho
  OnlyCopies
CHECK_DEADLOCK FALSE

SPECIFICATION FairOneFetchSpec
CONSTANTS
  s1 = s1
  s2 = s2
  NoUnit = NoUnit
  Units = {u1, u2}
  Sources = {s1}
  Lanes <- TwoLanesOnFirst
  Shareable = {s1}
  MAX_MISSES = 1
  PERSIST_EVERY_UNITS = 32
INVARIANTS
  AskedTwiceOnlyIfDoomed
PROPERTIES
  FetchEnds
CHECK_DEADLOCK FALSE

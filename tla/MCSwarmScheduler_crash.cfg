SPECIFICATION Spec
CONSTANTS
  s1 = s1
  s2 = s2
  NoUnit = NoUnit
  Units = {u1, u2}
  Sources = {s1, s2}
  Lanes <- OneLaneEach
  Shareable = {s1}
  MAX_MISSES = 0
  PERSIST_EVERY_UNITS = 2
SYMMETRY UnitSymmetry
INVARIANTS
  EveryUnitAccountedFor
  RecordNeverAhead
  CompleteMeansAll
  LentNeverShared
PROPERTIES
  StoppedWritesNothing

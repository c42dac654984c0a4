\* A broadcast and a message, a client that drops and resumes while its dead
\* session lingers, and a ring and a bus that overflow.
SPECIFICATION Spec
CONSTANTS
  Clients = {c1}
  Sessions = {s1, s2}
  Casts = {e1}
  Dms = {d1}
  RING_CAPACITY = 1
  BUS_CAPACITY = 1
  MAIL_CAP = 1
  MaxConnects = 2
  NoSession = NoSession
INVARIANTS
  InOrder
  PassedOverOnlyIfRaced
  MailReaches
  CastsReach
CHECK_DEADLOCK FALSE
SYMMETRY Symmetry

SPECIFICATION Spec
CONSTANTS
  Client = {c1, c2}
  Publisher = {c2, b}
  Standing = {c0}
  Map = {m1, m2, m3, m4, m5, m6, m7}
  NilMap = NilMap
  Nobody = Nobody
INVARIANTS
  NoPanic
  AcknowledgedIsUnsubscribed
PROPERTIES
  ImplementsTable
CHECK_DEADLOCK FALSE

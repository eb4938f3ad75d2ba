SPECIFICATION Spec
CONSTANTS
  Client = {c1, c2}
  Publisher = {}
  Standing = {}
  Map = {m1, m2, m3}
  NilMap = NilMap
  Nobody = Nobody
SYMMETRY Symmetry
INVARIANTS
  AcknowledgedIsSubscribed
CHECK_DEADLOCK FALSE

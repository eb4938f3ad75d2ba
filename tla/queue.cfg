SPECIFICATION Spec
CONSTANTS
  Name = {c1, c2, c3, c4}
  Path = {p}
  Topic = p
  NoName = NoName
  NoPath = NoPath
  MaxId = 0
  MaxCuts = 2
SYMMETRY Symmetry
INVARIANTS
  ClosedForm
  DeliveryBounds
  MarkedWereServed
PROPERTIES
  ImplementsRoundRobin

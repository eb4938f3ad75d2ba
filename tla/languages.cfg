SPECIFICATION CppSpec
CONSTANTS
  t = t
  qt = qt
  a = a
  nameT = nameT
  nameC = nameC
  p = p
  NoName = NoName
  NoPath = NoPath
  Closed = Closed
  Node = {t, qt}
  Threaded = {}
  Name = {nameT, nameC}
  Path = {p}
  MaxId = 3
  Faults = {"duplicate"}
  MaxFaults = 1
  Browser = {t}
  Shipped = {}
  Throws = {"handler", "callback"}
  Native = {qt}
  Program <- PeersProgram
INVARIANTS
  CallbackAnswersItsRequest
PROPERTIES
  ImplementsRpcThrows
CHECK_DEADLOCK FALSE

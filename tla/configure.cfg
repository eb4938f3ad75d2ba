SPECIFICATION CppSpec
CONSTANTS
  t = t
  qt = qt
  a = a
  nameT = nameT
  nameC = nameC
  p = p
  NoName = NoName
  NoPath = NoPath
  Closed = Closed
  Node = {t, qt, a}
  Threaded = {a}
  Name = {nameT, nameC}
  Path = {p}
  MaxId = 1
  Faults = {}
  MaxFaults = 0
  Browser = {t}
  Shipped = {}
  Throws = {"handler", "callback"}
  Native = {qt}
  Program <- ConfigureProgram
INVARIANTS
  CppTypeOK
  EmptyPathIsNative
CHECK_DEADLOCK FALSE

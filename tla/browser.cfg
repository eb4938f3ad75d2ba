SPECIFICATION PageFairSpec
CONSTANTS
  s = s
  t1 = t1
  t2 = t2
  b = b
  nameS = nameS
  nameT = nameT
  nameB = nameB
  Root = root
  What = what
  Hello = hello
  NoName = NoName
  NoPath = NoPath
  Closed = Closed
  Node = {s, t1, t2, b}
  Threaded = {s, b}
  Name = {nameS, nameT, nameB}
  Path = {root, what, hello}
  MaxId = 8
  MaxCalls = 1
  Faults = {}
  MaxFaults = 0
  Browser = {t1, t2}
  Shipped = {t1, t2}
  Page = {t1, t2}
  Throws = {}
  Program <- PageProgram
INVARIANTS
  HelloAgreement
  HandledOnce
CHECK_DEADLOCK FALSE
PROPERTIES
  PageAnswered
  PageServes

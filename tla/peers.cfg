SPECIFICATION Spec
CONSTANTS
  s = s
  a = a
  b = b
  nameS = nameS
  nameA = nameA
  nameB = nameB
  nameC = nameC
  p = p
  NoName = NoName
  NoPath = NoPath
  Closed = Closed
  Node = {a, b}
  Threaded = {a, b}
  Name = {nameA, nameB}
  Path = {p}
  MaxId = 3
  Faults = {"lose", "duplicate", "overtake", "disconnect"}
  MaxFaults = 2
  Program <- PeerProgram
INVARIANTS
  TypeOK
  CallbackAtMostOnce
  CallbackAnswersItsRequest
  PendingUnanswered
  RegistryCorrect
  NoEmptyPath
PROPERTIES
  ImplementsRpc
CHECK_DEADLOCK FALSE

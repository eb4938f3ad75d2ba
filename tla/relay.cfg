SPECIFICATION FairSpec
CONSTANTS
  s = s
  a = a
  b = b
  nameS = nameS
  nameA = nameA
  nameB = nameB
  nameC = nameC
  p = p
  NoName = NoName
  NoPath = NoPath
  Closed = Closed
  Node = {s, a, b}
  Threaded = {s, a, b}
  Name = {nameS, nameA, nameB, nameC}
  Path = {p}
  MaxId = 4
  Faults = {}
  MaxFaults = 0
  Program <- RelayProgram
INVARIANTS
  CallbackAnswersItsRequest
  AnswerFromAddressee
  RegistryCorrect
  HandledOnce
PROPERTIES
  RelayedRequestAnswered
CHECK_DEADLOCK FALSE

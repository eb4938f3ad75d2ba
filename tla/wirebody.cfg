SPECIFICATION Spec
CONSTANTS
  Null = Null
  RangeError = RangeError
  Names <- MCNames
  Texts <- MCTexts
  Bodies <- MCBodies
  Versions <- MCVersions
  MaxHops = 1
INVARIANTS
  NoBodyIsNull
CHECK_DEADLOCK FALSE

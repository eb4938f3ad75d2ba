SPECIFICATION Spec
CONSTANTS
  Null = Null
  RangeError = RangeError
  Names <- MCNames
  Texts <- MCTexts
  Bodies <- MCBodies
  Versions <- MCVersions
  MaxHops = 2
INVARIANTS
  TypeOK
  RoundTrip
  BodyReads
  StampReads
CHECK_DEADLOCK FALSE

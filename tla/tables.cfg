SPECIFICATION Spec
CONSTANTS
  Layout <- MCLayout
  Sizes = {7, 8}
  Required <- MCRequired
  Structs <- MCStructs
  Floats <- MCFloats
  Scalars <- MCScalars
  Strings <- MCStrings
  Vectors <- MCVectors
  Identifiers <- MCIdentifiers
  Forces = {FALSE, TRUE}
  MaxObjects = 3
  MaxFields = 2
INVARIANTS
  TypeOK
  ReadsBack
  ReceiverReads
  Aligned
  SharedVtables
PROPERTIES
  WrittenStays
CHECK_DEADLOCK FALSE

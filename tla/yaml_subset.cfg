SPECIFICATION Spec
CHECK_DEADLOCK FALSE
CONSTANTS
  None = None
  Scalars <- AllScalars
  Texts <- AllTexts
INVARIANTS
  TypeOK
  Outline
  Leftover
  AsIndented
  Accepted
PROPERTIES
  ParseEnds

SPECIFICATION Spec
CONSTANTS
  Bound = 8
  Word = 4
PROPERTIES
  BitSetAgrees
  FunctionsAgree
  PCoeffAgrees
  IntervalsAgree
  FlatAgrees
  ChecksAgree
\* Every input is reached; there is nothing to do after the last one.
CHECK_DEADLOCK FALSE

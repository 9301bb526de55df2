SPECIFICATION Spec
CONSTANTS
  Cases <- RunCases
  TripleCases <- RunTripleCases
INVARIANTS
  TypeOK
  RoundsAgree
  BlocksAgree
  ComesBack
CHECK_DEADLOCK FALSE

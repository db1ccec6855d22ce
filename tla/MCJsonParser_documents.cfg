SPECIFICATION Spec
CONSTANTS
  Strings <- MCStrings
  Scalars <- MCScalars
  Cases <- MCCases
INVARIANTS
  Accepts
  Builds
CHECK_DEADLOCK FALSE

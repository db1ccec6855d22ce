SPECIFICATION Spec
CONSTANTS
  Scripts <- MCScripts
  MaxUnsigned = 707
  MaxInteger = 69
INVARIANTS
  TokenIsText
  ErrorIsPrompt
CHECK_DEADLOCK FALSE

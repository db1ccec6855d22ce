SPECIFICATION MCSpec
CONSTANTS
  IntegerBits = 16
  MantissaBits = 11
INVARIANTS
  DiffPatches
  
  
  MergeIsRfc
  OrderIsTotal
  NavigatesItems
  ChangesItems
 
CHECK_DEADLOCK FALSE

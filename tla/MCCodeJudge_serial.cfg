\* Submissions after and beside each other.
CONSTANTS
  Judges = {j1, j2}
  right = right
  warned = warned
  broken = broken
  endless = endless
  empty = empty
  Programs <- MCPrograms
  Broken <- MCBroken
  Warned <- MCWarned
  Endless <- MCEndless
  NoCode = empty
  Problems <- MCProblems
  Cases <- MCCases
  OnSample <- MCOnSample
  OnEmpty <- MCOnEmpty
  None = None
SPECIFICATION Spec
INVARIANT JudgedByItself
PROPERTY Judged
\* Programs that do not end may hold every process.
CHECK_DEADLOCK FALSE

\* One connection at a time.
CONSTANTS
  Workers = {w1, w2}
  Main = Main
  Pids = {p1, p2, p3}
  Conns = {c1}
  Files = {f1, f2}
  short = short
  long = long
  mute = mute
  list = list
  huge = huge
  Pages <- MCPages
  Parsed <- MCParsed
  Broken = {broken}
  Empty = {empty}
  Missing = Missing
  Length <- MCLength
  None = None
  Mixed = Mixed
  JsonDataBuf = 3
  MaxOpen = 1
  TimelySignal = TRUE
SPECIFICATION Spec
INVARIANTS
  OwnResponse
  BodyAlive
  StaysUp
  ChildrenAwaited
  MappingOwned
PROPERTIES
  PagesGivenBack
  Finishes
\* Every thread may hang in a handler or in wait().
CHECK_DEADLOCK FALSE

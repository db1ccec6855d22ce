\* Two connections at a time.
CONSTANTS
  Workers = {w1, w2}
  Main = Main
  Pids = {p1, p2}
  Conns = {c1, c2}
  Files = {f1}
  short = short
  long = long
  mute = mute
  list = list
  huge = huge
  Pages <- MCPages
  Parsed <- MCParsed
  Broken = {broken}
  Empty = {empty}
  Missing = Missing
  Length <- MCLength
  None = None
  Mixed = Mixed
  JsonDataBuf = 3
  MaxOpen = 2
  TimelySignal = TRUE
SPECIFICATION Spec
INVARIANT OwnResponse
CHECK_DEADLOCK FALSE

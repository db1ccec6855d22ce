\* Responses of all lengths, sockets that take any part of them.
CONSTANTS
  Headers <- MCHeaders
  Bodies <- MCBodies
  SendBuffer = 6
  MaxResponses = 2
  MaxPieces = 4
SPECIFICATION Spec
INVARIANTS
  WholeUnlessShort
PROPERTY Returns
\* The responses are over, or the connection is closed.
CHECK_DEADLOCK FALSE

\* Every way to cut every message, except inside a body.
CONSTANTS
  Streams <- MCStreams
  LenHeaders <- MCLenHeaders
  IntMax = 31
  READ_BUFFER_SIZE = 14
  BodyInOnePiece = TRUE
SPECIFICATION Spec
INVARIANTS TypeOK RecognisesRequests
PROPERTY Returns
\* A closed connection stays closed.
CHECK_DEADLOCK FALSE

\* Three connections of four descriptors, so that the server can be busy, the
\* queue (MaxRequests + 1 = 2) full, and a request refused; or two of them, and
\* a CGI program that does not start or end.
CONSTANTS
  Fds = {f1, f2, f3, f4}
  ListenFd = ListenFd
  Workers = {w1, w2}
  NoRequest = NoRequest
  MaxRequests = 1
  MAX_FD = 3
  READ_BUFFER_SIZE = 1
  MaxBacklog = 1
  MaxUnread = 1
  MaxHeld = 1
SPECIFICATION Safety
SYMMETRY Symmetry
VIEW View
CONSTRAINT HeldAmongTwo
INVARIANTS OneOwner ResponseAwaited CountsConnections
PROPERTY UsesPool

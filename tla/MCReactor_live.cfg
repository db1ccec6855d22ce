\* Liveness, so no symmetry.
CONSTANTS
  Fds = {f1, f2}
  ListenFd = ListenFd
  Workers = {w1}
  NoRequest = NoRequest
  MaxRequests = 1
  MAX_FD = 2
  READ_BUFFER_SIZE = 2
  MaxBacklog = 1
  MaxUnread = 1
  MaxHeld = 0
SPECIFICATION Spec
PROPERTIES Answered Heeded
\* After accept() failed with every waiting place taken, no event ever comes again.
CHECK_DEADLOCK FALSE

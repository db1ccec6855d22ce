\* Two workers, a queue that may hold MaxRequests + 1 = 3, and five requests:
\* a full queue, a busy worker and a refusal at the same time.  No symmetry,
\* because the refinement includes liveness.
CONSTANTS
  Requests = {r1, r2, r3, r4, r5}
  Workers = {w1, w2}
  MaxRequests = 2
  NoRequest = NoRequest
  Main = Main
  NoThread = NoThread
SPECIFICATION Spec
INVARIANTS SemaphoreCountsQueue OnePlace
PROPERTY ImplementsTaskPool
\* Once every request has been refused there is nothing left to append.
CHECK_DEADLOCK FALSE

--------------------------- MODULE ThreadPoolProofs ---------------------------
(***************************************************************************)
(* Proofs about ThreadPool for any number of workers, any set of requests  *)
(* and any m_max_requests.                                                 *)
(*                                                                         *)
(* The invariants of ThreadPool are not inductive one by one: what a       *)
(* thread may do depends on who owns the mutex, and what append() pushes   *)
(* on what it was handed.  IInv adds those two facts.                      *)
(***************************************************************************)
EXTENDS ThreadPool, FiniteSetTheorems, TLAPS

(* The mutex is held exactly by the thread inside a critical section.      *)
InCriticalSection(t) == pc[t] \in {"size", "unlock", "front", "pop"}

LockInv == \A t \in Threads : InCriticalSection(t) <=> m_queuelocker = t

(* A thread has a request at hand exactly between taking it and passing it *)
(* on; what a worker is about to remove is the front request, and what     *)
(* append() is about to push is nowhere else in the pool.                  *)
AtHandInv ==
  /\ \A w \in Workers : request[w] # NoRequest <=> pc[w] \in {"pop", "process"}
  /\ \A w \in Workers : pc[w] = "pop" => request[w] = Head(m_workqueue)
  /\ request[Main] # NoRequest <=> pc[Main] = "size"
  /\ pc[Main] = "size" => AtRest(request[Main])

IInv ==
  /\ TypeOK
  /\ LockInv
  /\ AtHandInv
  /\ SemaphoreCountsQueue
  /\ OnePlace
  /\ QueueBound

-------------------------------------------------------------------------------
(* Queues                                                                  *)

(* What append()'s push_back adds to the queue.                            *)
LEMMA AppendQueue ==
  ASSUME NEW q \in Seq(Requests), NEW r \in Requests
  PROVE  /\ Append(q, r) \in Seq(Requests)
         /\ Len(Append(q, r)) = Len(q) + 1
         /\ \A i \in 1 .. Len(q) : Append(q, r)[i] = q[i]
         /\ Append(q, r)[Len(q) + 1] = r
  OBVIOUS

(* What pop_front removes from a queue that is not empty.                  *)
LEMMA TailQueue ==
  ASSUME NEW q \in Seq(Requests), q # <<>>
  PROVE  /\ Tail(q) \in Seq(Requests)
         /\ Len(Tail(q)) = Len(q) - 1
         /\ \A i \in 1 .. Len(q) - 1 : Tail(q)[i] = q[i + 1]
         /\ Head(q) \in Requests
         /\ Head(q) = q[1]
         /\ Len(q) >= 1
  OBVIOUS

(* push_back adds exactly its argument to the set of queued requests.      *)
LEMMA QueuedAfterPush ==
  ASSUME TypeOK, NEW r \in Requests, m_workqueue' = Append(m_workqueue, r)
  PROVE  Queued' = Queued \cup {r}
<1>. DEFINE q == m_workqueue
<1>1. q \in Seq(Requests) /\ Len(q) \in Nat /\ DOMAIN q = 1 .. Len(q)
  BY DEF TypeOK
<1>2. q' \in Seq(Requests) /\ DOMAIN q' = 1 .. (Len(q) + 1)
  BY <1>1, AppendQueue
<1>3. /\ \A i \in 1 .. Len(q) : q'[i] = q[i]
      /\ q'[Len(q) + 1] = r
  BY <1>1, AppendQueue
<1>4. \A x \in Queued' : x \in Queued \cup {r}
  BY <1>1, <1>2, <1>3 DEF Queued
<1>5. \A x \in Queued \cup {r} : x \in Queued'
  BY <1>1, <1>2, <1>3 DEF Queued
<1>. QED
  BY <1>4, <1>5

(* pop_front leaves a part of the queue, without the request it removed    *)
(* when no request was queued twice.                                       *)
LEMMA QueuedAfterPop ==
  ASSUME TypeOK, OnePlace, m_workqueue # <<>>, m_workqueue' = Tail(m_workqueue)
  PROVE  Queued' = Queued \ {Head(m_workqueue)}
<1>. DEFINE q == m_workqueue
<1>1. /\ q \in Seq(Requests) /\ DOMAIN q = 1 .. Len(q)
      /\ Len(q) \in Nat /\ Len(q) >= 1 /\ Head(q) = q[1]
  BY TailQueue DEF TypeOK
<1>2. /\ DOMAIN q' = 1 .. (Len(q) - 1)
      /\ \A i \in 1 .. (Len(q) - 1) : q'[i] = q[i + 1]
  BY <1>1, TailQueue
<1>3. ASSUME NEW x \in Queued' PROVE x \in Queued \ {Head(q)}
  <2>1. PICK i \in 1 .. (Len(q) - 1) : x = q[i + 1]
    BY <1>2 DEF Queued
  <2>2. i + 1 \in DOMAIN q /\ 1 \in DOMAIN q /\ i + 1 # 1
    BY <1>1, <2>1
  <2>3. x # q[1]
    BY <2>1, <2>2 DEF OnePlace
  <2>. QED
    BY <1>1, <2>1, <2>2, <2>3 DEF Queued
<1>4. ASSUME NEW x \in Queued \ {Head(q)} PROVE x \in Queued'
  <2>1. PICK i \in 1 .. Len(q) : x = q[i]
    BY <1>1 DEF Queued
  <2>2. i - 1 \in 1 .. (Len(q) - 1) /\ (i - 1) + 1 = i
    BY <1>1, <2>1
  <2>3. x = q'[i - 1] /\ i - 1 \in DOMAIN q'
    BY <1>2, <2>1, <2>2
  <2>. QED
    BY <2>3 DEF Queued
<1>. QED
  BY <1>3, <1>4

-------------------------------------------------------------------------------
(* The initial states                                                      *)

LEMMA InitIInv == Init => IInv
<1>. SUFFICES ASSUME Init PROVE IInv
  OBVIOUS
<1>. USE ThreadPoolAssumption
<1>1. TypeOK
  BY DEF Init, TypeOK, Threads, WorkerPC, MainPC
<1>2. LockInv
  BY DEF Init, LockInv, InCriticalSection, Threads
<1>3. AtHandInv
  BY DEF Init, AtHandInv, Threads
<1>4. SemaphoreCountsQueue
  <2>1. Holders = {}
    BY DEF Init, Holders, Threads
  <2>. QED
    BY <2>1, FS_EmptySet DEF Init, SemaphoreCountsQueue, Threads
<1>5. OnePlace
  BY DEF Init, OnePlace, Running, Queued, Threads
<1>6. QueueBound
  BY DEF Init, QueueBound
<1>. QED
  BY <1>1, <1>2, <1>3, <1>4, <1>5, <1>6 DEF IInv

-------------------------------------------------------------------------------
(* The steps of append()                                                   *)

LEMMA AppendLockStep ==
  ASSUME IInv, NEW r \in Requests, AppendLock(r)
  PROVE  IInv'
<1>. USE ThreadPoolAssumption DEF IInv
<1>. USE DEF AppendLock, Goto, Lock
<1>1. TypeOK'
  BY DEF TypeOK, Threads, MainPC
<1>2. LockInv'
  BY DEF TypeOK, LockInv, InCriticalSection, Threads
<1>3. AtHandInv'
  BY DEF TypeOK, AtHandInv, AtRest, Queued, Threads
<1>4. SemaphoreCountsQueue'
  <2>1. Holders' = Holders
    BY DEF TypeOK, Holders, Threads
  <2>. QED
    BY <2>1 DEF SemaphoreCountsQueue, TypeOK, Threads
<1>5. OnePlace'
  BY DEF TypeOK, OnePlace, Running, Queued, Threads
<1>6. QueueBound'
  BY DEF QueueBound
<1>. QED
  BY <1>1, <1>2, <1>3, <1>4, <1>5, <1>6

LEMMA AppendFullStep ==
  ASSUME IInv, AppendFull
  PROVE  IInv'
<1>. USE ThreadPoolAssumption DEF IInv
<1>. USE DEF AppendFull, Goto, Unlock
<1>1. TypeOK'
  <2>1. request[Main] \in Requests
    BY DEF TypeOK, AtHandInv, Threads
  <2>. QED
    BY <2>1 DEF TypeOK, Threads, MainPC
<1>2. LockInv'
  BY DEF TypeOK, LockInv, InCriticalSection, Threads
<1>3. AtHandInv'
  BY DEF TypeOK, AtHandInv, Threads
<1>4. SemaphoreCountsQueue'
  <2>1. Holders' = Holders
    BY DEF TypeOK, Holders, Threads
  <2>. QED
    BY <2>1 DEF SemaphoreCountsQueue, TypeOK, Threads
<1>5. OnePlace'
  BY DEF TypeOK, OnePlace, Running, Queued, Threads
<1>6. QueueBound'
  BY DEF QueueBound
<1>. QED
  BY <1>1, <1>2, <1>3, <1>4, <1>5, <1>6

LEMMA AppendPushStep ==
  ASSUME IInv, AppendPush
  PROVE  IInv'
<1>. USE ThreadPoolAssumption DEF IInv
<1>. USE DEF AppendPush, Goto
<1>. DEFINE q == m_workqueue
            r == request[Main]
<1>1. r \in Requests /\ AtRest(r)
  BY DEF TypeOK, AtHandInv, Threads
<1>2. /\ q \in Seq(Requests) /\ q' = Append(q, r)
      /\ Len(q) \in Nat /\ DOMAIN q = 1 .. Len(q)
  BY DEF TypeOK
<1>3. /\ q' \in Seq(Requests) /\ DOMAIN q' = 1 .. (Len(q) + 1)
      /\ Len(q') = Len(q) + 1
      /\ \A i \in 1 .. Len(q) : q'[i] = q[i]
      /\ q'[Len(q) + 1] = r
  BY <1>1, <1>2, AppendQueue
<1>4. Queued' = Queued \cup {r}
  BY <1>1, QueuedAfterPush
<1>5. TypeOK'
  BY <1>3 DEF TypeOK, Threads, MainPC
<1>6. LockInv'
  BY DEF TypeOK, LockInv, InCriticalSection, Threads
<1>7. AtHandInv'
  <2>1. \A w \in Workers : pc[w] # "pop"
    BY DEF LockInv, InCriticalSection, Threads
  <2>. QED
    BY <2>1 DEF TypeOK, AtHandInv, Threads
<1>8. SemaphoreCountsQueue'
  <2>1. Holders' = Holders
    BY DEF TypeOK, Holders, Threads
  <2>2. Cardinality(Holders) \in Nat
    BY FS_Subset, FS_CardinalityType DEF Holders
  <2>. QED
    BY <1>3, <2>1, <2>2 DEF SemaphoreCountsQueue, TypeOK, Threads
<1>9. OnePlace'
  <2>1. ASSUME NEW i \in DOMAIN q', NEW j \in DOMAIN q', q'[i] = q'[j]
        PROVE  i = j
    <3>1. \A k \in 1 .. Len(q) : q[k] # r
      BY <1>1, <1>2 DEF AtRest, Queued
    <3>2. CASE i \in 1 .. Len(q) /\ j \in 1 .. Len(q)
      BY <1>2, <1>3, <2>1, <3>2 DEF OnePlace
    <3>3. CASE i = Len(q) + 1 \/ j = Len(q) + 1
      BY <1>2, <1>3, <2>1, <3>1, <3>3
    <3>. QED
      BY <1>2, <1>3, <2>1, <3>2, <3>3
  <2>2. \A w \in Workers : Running(w)' = Running(w)
    BY DEF Running, TypeOK, Threads
  <2>3. \A w \in Workers : Running(w)' \notin Queued'
    BY <1>1, <1>4, <2>2 DEF OnePlace, AtRest, Running
  <2>. QED
    BY <2>1, <2>2, <2>3 DEF OnePlace
<1>10. QueueBound'
  BY <1>2, <1>3 DEF QueueBound
<1>. QED
  BY <1>5, <1>6, <1>7, <1>8, <1>9, <1>10

LEMMA AppendUnlockStep ==
  ASSUME IInv, AppendUnlock
  PROVE  IInv'
<1>. USE ThreadPoolAssumption DEF IInv
<1>. USE DEF AppendUnlock, Goto, Unlock
<1>1. TypeOK'
  BY DEF TypeOK, Threads, MainPC
<1>2. LockInv'
  BY DEF TypeOK, LockInv, InCriticalSection, Threads
<1>3. AtHandInv'
  BY DEF TypeOK, AtHandInv, AtRest, Queued, Threads
<1>4. SemaphoreCountsQueue'
  <2>1. Holders' = Holders
    BY DEF TypeOK, Holders, Threads
  <2>. QED
    BY <2>1 DEF SemaphoreCountsQueue, TypeOK, Threads
<1>5. OnePlace' /\ QueueBound'
  BY DEF OnePlace, Running, Queued, QueueBound, TypeOK, Threads
<1>. QED
  BY <1>1, <1>2, <1>3, <1>4, <1>5

LEMMA AppendPostStep ==
  ASSUME IInv, AppendPost
  PROVE  IInv'
<1>. USE ThreadPoolAssumption DEF IInv
<1>. USE DEF AppendPost, Goto, SemPost
<1>1. TypeOK'
  BY DEF TypeOK, Threads, MainPC
<1>2. LockInv'
  BY DEF TypeOK, LockInv, InCriticalSection, Threads
<1>3. AtHandInv'
  BY DEF TypeOK, AtHandInv, AtRest, Queued, Threads
<1>4. SemaphoreCountsQueue'
  <2>1. Holders' = Holders
    BY DEF TypeOK, Holders, Threads
  <2>2. Cardinality(Holders) \in Nat
    BY FS_Subset, FS_CardinalityType DEF Holders
  <2>. QED
    BY <2>1, <2>2 DEF SemaphoreCountsQueue, TypeOK, Threads
<1>5. OnePlace' /\ QueueBound'
  BY DEF OnePlace, Running, Queued, QueueBound, TypeOK, Threads
<1>. QED
  BY <1>1, <1>2, <1>3, <1>4, <1>5

-------------------------------------------------------------------------------
(* The steps of run()                                                      *)

LEMMA RunWaitStep ==
  ASSUME IInv, NEW w \in Workers, RunWait(w)
  PROVE  IInv'
<1>. USE ThreadPoolAssumption DEF IInv
<1>. USE DEF RunWait, Goto, SemWait
<1>1. TypeOK'
  BY DEF TypeOK, Threads, WorkerPC
<1>2. LockInv'
  BY DEF TypeOK, LockInv, InCriticalSection, Threads
<1>3. AtHandInv'
  BY DEF TypeOK, AtHandInv, AtRest, Queued, Threads
<1>4. SemaphoreCountsQueue'
  <2>1. Holders' = Holders \cup {w} /\ w \notin Holders
    BY DEF TypeOK, Holders, Threads
  <2>2. IsFiniteSet(Holders)
    BY FS_Subset DEF Holders
  <2>3. Cardinality(Holders') = Cardinality(Holders) + 1 /\ Cardinality(Holders) \in Nat
    BY <2>1, <2>2, FS_AddElement, FS_CardinalityType
  <2>. QED
    BY <2>3 DEF SemaphoreCountsQueue, TypeOK, Threads
<1>5. OnePlace' /\ QueueBound'
  BY DEF OnePlace, Running, Queued, QueueBound, TypeOK, Threads
<1>. QED
  BY <1>1, <1>2, <1>3, <1>4, <1>5

LEMMA RunLockStep ==
  ASSUME IInv, NEW w \in Workers, RunLock(w)
  PROVE  IInv'
<1>. USE ThreadPoolAssumption DEF IInv
<1>. USE DEF RunLock, Goto, Lock
<1>1. TypeOK'
  BY DEF TypeOK, Threads, WorkerPC
<1>2. LockInv'
  BY DEF TypeOK, LockInv, InCriticalSection, Threads
<1>3. AtHandInv'
  BY DEF TypeOK, AtHandInv, AtRest, Queued, Threads
<1>4. SemaphoreCountsQueue'
  <2>1. Holders' = Holders
    BY DEF TypeOK, Holders, Threads
  <2>. QED
    BY <2>1 DEF SemaphoreCountsQueue, TypeOK, Threads
<1>5. OnePlace' /\ QueueBound'
  BY DEF OnePlace, Running, Queued, QueueBound, TypeOK, Threads
<1>. QED
  BY <1>1, <1>2, <1>3, <1>4, <1>5

(* A worker past the semaphore is counted, so the queue is not empty.      *)
LEMMA HolderFindsRequest ==
  ASSUME TypeOK, SemaphoreCountsQueue, NEW w \in Holders
  PROVE  m_workqueue # <<>>
<1>1. IsFiniteSet(Holders) /\ Cardinality(Holders) \in Nat
  BY ThreadPoolAssumption, FS_Subset, FS_CardinalityType DEF Holders
<1>2. Cardinality(Holders) # 0
  BY <1>1, FS_EmptySet
<1>. QED
  BY <1>1, <1>2 DEF SemaphoreCountsQueue, TypeOK

LEMMA RunFrontStep ==
  ASSUME IInv, NEW w \in Workers, RunFront(w)
  PROVE  IInv'
<1>. USE ThreadPoolAssumption DEF IInv
<1>. DEFINE r == Head(m_workqueue)
<1>1. w \in Holders /\ m_workqueue # <<>>
  <2>1. w \in Holders
    BY DEF RunFront, Goto, Holders
  <2>. QED
    BY <2>1, HolderFindsRequest
<1>2. /\ pc[w] = "front" /\ pc' = [pc EXCEPT ![w] = "pop"]
      /\ request' = [request EXCEPT ![w] = r]
      /\ UNCHANGED <<m_workqueue, m_queuelocker, m_queuestat, refused>>
  BY <1>1 DEF RunFront, Goto
<1>3. r \in Requests
  BY <1>1, TailQueue DEF TypeOK
<1>4. TypeOK'
  BY <1>2, <1>3 DEF TypeOK, Threads, WorkerPC
<1>5. LockInv'
  BY <1>2 DEF TypeOK, LockInv, InCriticalSection, Threads
<1>6. AtHandInv'
  <2>1. pc[Main] # "size"
    BY <1>2 DEF LockInv, InCriticalSection, Threads
  <2>. QED
    BY <1>2, <1>3, <2>1 DEF TypeOK, AtHandInv, Threads
<1>7. SemaphoreCountsQueue'
  <2>1. Holders' = Holders
    BY <1>2 DEF TypeOK, Holders, Threads
  <2>. QED
    BY <1>2, <2>1 DEF SemaphoreCountsQueue, TypeOK, Threads
<1>8. OnePlace' /\ QueueBound'
  <2>1. \A v \in Workers : Running(v)' = Running(v)
    BY <1>2 DEF Running, TypeOK, Threads
  <2>. QED
    BY <1>2, <2>1 DEF OnePlace, Queued, QueueBound
<1>. QED
  BY <1>4, <1>5, <1>6, <1>7, <1>8

LEMMA RunPopStep ==
  ASSUME IInv, NEW w \in Workers, RunPop(w)
  PROVE  IInv'
<1>. USE ThreadPoolAssumption DEF IInv
<1>. DEFINE q == m_workqueue
            r == Head(m_workqueue)
<1>1. w \in Holders /\ q # <<>>
  <2>1. w \in Holders
    BY DEF RunPop, Goto, Holders
  <2>. QED
    BY <2>1, HolderFindsRequest
<1>2. /\ pc[w] = "pop" /\ pc' = [pc EXCEPT ![w] = "process"]
      /\ q' = Tail(q)
      /\ m_queuelocker' = NoThread
      /\ UNCHANGED <<m_queuestat, request, refused>>
      /\ request[w] = r
  BY DEF RunPop, Goto, Unlock, AtHandInv
<1>3. /\ q \in Seq(Requests) /\ Len(q) \in Nat /\ Len(q) >= 1
      /\ DOMAIN q = 1 .. Len(q) /\ r = q[1] /\ r \in Requests
      /\ q' \in Seq(Requests) /\ Len(q') = Len(q) - 1
      /\ DOMAIN q' = 1 .. (Len(q) - 1)
      /\ \A i \in 1 .. (Len(q) - 1) : q'[i] = q[i + 1]
  BY <1>1, <1>2, TailQueue DEF TypeOK
<1>4. Queued' = Queued \ {r} /\ r \in Queued
  <2>1. r \in Queued
    BY <1>3 DEF Queued
  <2>. QED
    BY <1>1, <1>2, <2>1, QueuedAfterPop
<1>5. TypeOK'
  BY <1>2, <1>3 DEF TypeOK, Threads, WorkerPC
<1>6. LockInv'
  BY <1>2 DEF TypeOK, LockInv, InCriticalSection, Threads
<1>7. AtHandInv'
  <2>1. pc[Main] # "size"
    BY <1>2 DEF LockInv, InCriticalSection, Threads
  <2>2. \A v \in Workers : v # w => pc[v] # "pop"
    BY <1>2 DEF LockInv, InCriticalSection, Threads
  <2>. QED
    BY <1>2, <2>1, <2>2 DEF TypeOK, AtHandInv, Threads
<1>8. SemaphoreCountsQueue'
  <2>1. Holders' = Holders \ {w}
    BY <1>2 DEF TypeOK, Holders, Threads
  <2>2. IsFiniteSet(Holders)
    BY FS_Subset DEF Holders
  <2>3. Cardinality(Holders') = Cardinality(Holders) - 1 /\ Cardinality(Holders) \in Nat
    BY <1>1, <2>1, <2>2, FS_RemoveElement, FS_CardinalityType
  <2>4. pc'[Main] = pc[Main]
    BY <1>2 DEF TypeOK, Threads
  <2>. QED
    BY <1>2, <1>3, <2>3, <2>4 DEF SemaphoreCountsQueue, TypeOK
<1>9. OnePlace'
  <2>1. ASSUME NEW i \in DOMAIN q', NEW j \in DOMAIN q', q'[i] = q'[j]
        PROVE  i = j
    <3>1. i + 1 \in DOMAIN q /\ j + 1 \in DOMAIN q /\ q[i + 1] = q[j + 1]
      BY <1>3, <2>1
    <3>. QED
      BY <1>3, <2>1, <3>1 DEF OnePlace
  <2>2. \A v \in Workers : Running(v)' = IF v = w THEN r ELSE Running(v)
    BY <1>2 DEF Running, TypeOK, Threads
  <2>3. \A v \in Workers : Running(v)' \notin Queued'
    BY <1>4, <2>2 DEF OnePlace
  <2>4. \A v \in Workers : v # w => Running(v)' # r
    BY <1>4, <2>2 DEF OnePlace
  <2>5. \A v1, v2 \in Workers :
          Running(v1)' = Running(v2)' /\ Running(v1)' # NoRequest => v1 = v2
    BY <2>2, <2>4 DEF OnePlace
  <2>. QED
    BY <2>1, <2>3, <2>5 DEF OnePlace
<1>10. QueueBound'
  BY <1>3 DEF QueueBound
<1>. QED
  BY <1>5, <1>6, <1>7, <1>8, <1>9, <1>10

LEMMA RunProcessedStep ==
  ASSUME IInv, NEW w \in Workers, RunProcessed(w)
  PROVE  IInv'
<1>. USE ThreadPoolAssumption DEF IInv
<1>. USE DEF RunProcessed, Goto
<1>1. TypeOK'
  BY DEF TypeOK, Threads, WorkerPC
<1>2. LockInv'
  BY DEF TypeOK, LockInv, InCriticalSection, Threads
<1>3. AtHandInv'
  BY DEF TypeOK, AtHandInv, AtRest, Queued, Threads
<1>4. SemaphoreCountsQueue'
  <2>1. Holders' = Holders
    BY DEF TypeOK, Holders, Threads
  <2>. QED
    BY <2>1 DEF SemaphoreCountsQueue, TypeOK, Threads
<1>5. OnePlace' /\ QueueBound'
  <2>1. Queued \subseteq Requests
    BY DEF TypeOK, Queued
  <2>. QED
    BY <2>1 DEF OnePlace, Running, Queued, QueueBound, TypeOK, Threads
<1>. QED
  BY <1>1, <1>2, <1>3, <1>4, <1>5

-------------------------------------------------------------------------------
(* The invariants                                                          *)

LEMMA IInvStep == IInv /\ [Next]_vars => IInv'
<1>. SUFFICES ASSUME IInv, [Next]_vars PROVE IInv'
  OBVIOUS
<1>1. CASE append
  BY <1>1, AppendLockStep, AppendFullStep, AppendPushStep, AppendUnlockStep,
     AppendPostStep DEF append
<1>2. ASSUME NEW w \in Workers, run(w) PROVE IInv'
  BY <1>2, RunWaitStep, RunLockStep, RunFrontStep, RunPopStep, RunProcessedStep DEF run
<1>3. CASE UNCHANGED vars
  BY <1>3 DEF vars, IInv, TypeOK, LockInv, InCriticalSection, AtHandInv, AtRest,
     SemaphoreCountsQueue, Holders, OnePlace, Running, Queued, QueueBound
<1>. QED
  BY <1>1, <1>2, <1>3 DEF Next

THEOREM Invariance == Spec => []IInv
BY InitIInv, IInvStep, PTL DEF Spec

(* The fields keep their types: whatever the threads do, the queue holds   *)
(* requests and every thread is where run() or append() can be.            *)
THEOREM TypeCorrect == Spec => []TypeOK
BY Invariance, PTL DEF IInv

(* No unit of the semaphore is lost or made up: the queue has one for each *)
(* request, whatever the order in which append() and run() use the mutex.  *)
THEOREM SemaphoreCorrect == Spec => []SemaphoreCountsQueue
BY Invariance, PTL DEF IInv

(* The test for an empty queue in run() is never taken: a worker that got  *)
(* past sem_wait and into the mutex finds a request.                       *)
THEOREM WakeupsFruitful == Spec => []NoFruitlessWakeup
<1>1. IInv => NoFruitlessWakeup
  BY HolderFindsRequest DEF IInv, NoFruitlessWakeup, Holders
<1>. QED
  BY <1>1, Invariance, PTL

(* No request is queued twice, queued and run, or run by two workers.      *)
THEOREM RequestsInOnePlace == Spec => []OnePlace
BY Invariance, PTL DEF IInv

(* The queue never holds more than m_max_requests + 1 requests.            *)
THEOREM QueueBounded == Spec => []QueueBound
BY Invariance, PTL DEF IInv

-------------------------------------------------------------------------------
(* The refinement                                                          *)

(* Every step of the pool is a step of TaskPool or changes nothing there:  *)
(* push_back is Submit, a refusal is Refuse, pop_front is Take, and the    *)
(* return of process() is Finish.                                          *)
LEMMA StepRefines == IInv /\ [Next]_vars => [Pool!Next]_(Pool!vars)
<1>. SUFFICES ASSUME IInv, [Next]_vars PROVE [Pool!Next]_(Pool!vars)
  OBVIOUS
<1>. USE ThreadPoolAssumption DEF IInv
<1>. DEFINE run_ == [w \in Workers |-> Running(w)]
            Same == UNCHANGED <<m_workqueue, run_, refused>>
<1>1. ASSUME Same PROVE [Pool!Next]_(Pool!vars)
  BY <1>1 DEF Pool!vars
<1>2. ASSUME \A w \in Workers : Running(w)' = Running(w),
             UNCHANGED <<m_workqueue, refused>>
      PROVE  Same
  BY <1>2
<1>3. ASSUME NEW r \in Requests, AppendLock(r) PROVE Same
  <2>1. \A w \in Workers : Running(w)' = Running(w)
    BY <1>3 DEF AppendLock, Goto, Running, TypeOK, Threads
  <2>. QED
    BY <1>2, <1>3, <2>1 DEF AppendLock
<1>4. ASSUME AppendFull PROVE Pool!Next
  <2>. DEFINE r == request[Main]
  <2>1. r \in Requests /\ AtRest(r)
    BY <1>4 DEF AppendFull, Goto, AtHandInv, TypeOK, Threads
  <2>2. \A w \in Workers : Running(w)' = Running(w)
    BY <1>4 DEF AppendFull, Goto, Running, TypeOK, Threads
  <2>3. run_' = run_
    BY <2>2
  <2>4. Pool!Refuse(r)
    BY <1>4, <2>3 DEF AppendFull, Pool!Refuse, Pool!Full
  <2>5. Pool!AtRest(r)
    BY <2>1 DEF AtRest, Queued, Running, Pool!AtRest, Pool!Pending, Pool!Running
  <2>. QED
    BY <2>1, <2>4, <2>5 DEF Pool!Next
<1>5. ASSUME AppendPush PROVE Pool!Next
  <2>. DEFINE r == request[Main]
  <2>1. r \in Requests /\ AtRest(r)
    BY <1>5 DEF AppendPush, Goto, AtHandInv, TypeOK, Threads
  <2>2. \A w \in Workers : Running(w)' = Running(w)
    BY <1>5 DEF AppendPush, Goto, Running, TypeOK, Threads
  <2>3. run_' = run_
    BY <2>2
  <2>4. Pool!Submit(r)
    BY <1>5, <2>3 DEF AppendPush, Pool!Submit, Pool!Full
  <2>5. Pool!AtRest(r)
    BY <2>1 DEF AtRest, Queued, Running, Pool!AtRest, Pool!Pending, Pool!Running
  <2>. QED
    BY <2>1, <2>4, <2>5 DEF Pool!Next
<1>6. ASSUME AppendUnlock \/ AppendPost PROVE Same
  <2>1. \A w \in Workers : Running(w)' = Running(w)
    BY <1>6 DEF AppendUnlock, AppendPost, Goto, Running, TypeOK, Threads
  <2>. QED
    BY <1>2, <1>6, <2>1 DEF AppendUnlock, AppendPost
<1>7. ASSUME NEW w \in Workers, RunWait(w) \/ RunLock(w) \/ RunFront(w) PROVE Same
  <2>1. \A v \in Workers : Running(v)' = Running(v)
    BY <1>7 DEF RunWait, RunLock, RunFront, Goto, Running, TypeOK, Threads
  <2>. QED
    BY <1>2, <1>7, <2>1 DEF RunWait, RunLock, RunFront
<1>8. ASSUME NEW w \in Workers, RunPop(w) PROVE Pool!Next
  <2>1. w \in Holders
    BY <1>8 DEF RunPop, Goto, Holders
  <2>2. m_workqueue # <<>>
    BY <2>1, HolderFindsRequest
  <2>3. /\ pc[w] = "pop" /\ pc' = [pc EXCEPT ![w] = "process"]
        /\ m_workqueue' = Tail(m_workqueue)
        /\ UNCHANGED <<request, refused>>
        /\ request[w] = Head(m_workqueue)
    BY <1>8 DEF RunPop, Goto, AtHandInv
  <2>4. run_[w] = NoRequest
    BY <2>3 DEF Running
  <2>5. run_' = [run_ EXCEPT ![w] = Head(m_workqueue)]
    BY <2>3 DEF Running, TypeOK, Threads
  <2>6. Pool!Take(w)
    BY <2>2, <2>3, <2>4, <2>5 DEF Pool!Take
  <2>. QED
    BY <2>6 DEF Pool!Next
<1>9. ASSUME NEW w \in Workers, RunProcessed(w) PROVE Pool!Next
  <2>1. /\ request' = [request EXCEPT ![w] = NoRequest]
        /\ pc' = [pc EXCEPT ![w] = "wait"]
        /\ UNCHANGED <<m_workqueue, refused>>
        /\ pc[w] = "process"
    BY <1>9 DEF RunProcessed, Goto
  <2>2. run_[w] # NoRequest
    BY <2>1 DEF AtHandInv, Running
  <2>3. run_' = [run_ EXCEPT ![w] = NoRequest]
    BY <2>1 DEF Running, TypeOK, Threads
  <2>4. Pool!Finish(w)
    BY <2>1, <2>2, <2>3 DEF Pool!Finish
  <2>. QED
    BY <2>4 DEF Pool!Next
<1>10. ASSUME UNCHANGED vars PROVE Same
  BY <1>10 DEF vars, Running
<1>. HIDE DEF Same
<1>. QED
  BY <1>1, <1>3, <1>4, <1>5, <1>6, <1>7, <1>8, <1>9, <1>10 DEF Next, append, run

(* The pool does, step for step, what TaskPool promises: first in first    *)
(* out, one worker per request, refusal only over the limit.  (That every  *)
(* accepted request is taken in the end is liveness, which TLC checks.)    *)
THEOREM Refinement == Spec => Pool!Safety
<1>1. Init => Pool!Init
  BY DEF Init, Threads, Running, Pool!Init
<1>. QED
  BY <1>1, StepRefines, Invariance, PTL DEF Spec, Pool!Safety
===============================================================================

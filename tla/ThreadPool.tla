------------------------------ MODULE ThreadPool ------------------------------
(***************************************************************************)
(* threadpool<T> (threadpool.h) over the mutex and the semaphore of        *)
(* locker.h: the main thread runs append(), every worker runs run().       *)
(* A step is what a thread does between two points where another thread    *)
(* can see the difference: taking or leaving the mutex, moving the         *)
(* semaphore, touching the queue, calling process().                       *)
(*                                                                         *)
(* m_stop stays FALSE while the pool is in service (only the destructor    *)
(* sets it) and append() is only called with users + sockfd, which is not  *)
(* null; neither test of run() is a choice here.                           *)
(*                                                                         *)
(* SemWaitNotBlocking, LockTaken, AppendFullPosting, AppendPushFront and   *)
(* AppendPostForgotten are no part of the specification: each is the       *)
(* definition after it with a likely fault, against which a property was   *)
(* tried.                                                                  *)
(***************************************************************************)
EXTENDS Naturals, Sequences, FiniteSets

CONSTANTS
  Requests,     (* the T objects the caller may append                     *)
  Workers,      (* the m_thread_number threads of the pool                 *)
  MaxRequests,  (* m_max_requests                                          *)
  NoRequest,    (* no request at hand                                      *)
  Main,         (* the thread that calls append()                          *)
  NoThread      (* the mutex is free                                       *)

ASSUME ThreadPoolAssumption ==
  /\ IsFiniteSet(Workers)
  /\ MaxRequests \in Nat \ {0}
  /\ NoRequest \notin Requests
  /\ Main \notin Workers
  /\ NoThread \notin Workers \cup {Main}

VARIABLES
  m_workqueue,   (* std::list<T*>                                          *)
  m_queuelocker, (* the thread that holds the mutex, or NoThread           *)
  m_queuestat,   (* the value of the semaphore                             *)
  pc,            (* where each thread is                                   *)
  request,       (* the local `request' of each thread                     *)
  refused        (* history: requests append() returned false for          *)

vars == <<m_workqueue, m_queuelocker, m_queuestat, pc, request, refused>>

Threads == Workers \cup {Main}

(* Where run() and append() can be between two steps.                      *)
WorkerPC == {"wait", "lock", "front", "pop", "process"}
MainPC   == {"idle", "size", "unlock", "post"}

Queued == {m_workqueue[i] : i \in DOMAIN m_workqueue}

(***************************************************************************)
(* locker.h: sem is created with value 0, sem_wait blocks at 0; lock()     *)
(* blocks while another thread owns the mutex.                             *)
(***************************************************************************)
SemWaitNotBlocking == m_queuestat' = m_queuestat - 1
SemWait == m_queuestat > 0 /\ m_queuestat' = m_queuestat - 1
SemPost == m_queuestat' = m_queuestat + 1

LockTaken(t) == m_queuelocker' = t
Lock(t)   == m_queuelocker = NoThread /\ m_queuelocker' = t
Unlock(t) == m_queuelocker' = NoThread

Goto(t, from, to) == pc[t] = from /\ pc' = [pc EXCEPT ![t] = to]

-------------------------------------------------------------------------------
(* append(request), called by the main thread.                             *)

(* The caller hands over a request the pool does not have (Reactor shows   *)
(* that main() keeps to this) and waits for the mutex.                     *)
AtRest(r) ==
  /\ r \notin Queued \cup refused
  /\ \A w \in Workers : request[w] # r

AppendLock(r) ==
  /\ Goto(Main, "idle", "size")
  /\ AtRest(r)
  /\ Lock(Main)
  /\ request' = [request EXCEPT ![Main] = r]
  /\ UNCHANGED <<m_workqueue, m_queuestat, refused>>

(* m_workqueue.size() > m_max_requests: unlock and return false.           *)
AppendFullPosting ==
  /\ Len(m_workqueue) > MaxRequests
  /\ Goto(Main, "size", "idle")
  /\ Unlock(Main)
  /\ SemPost
  /\ refused' = refused \cup {request[Main]}
  /\ request' = [request EXCEPT ![Main] = NoRequest]
  /\ UNCHANGED m_workqueue
AppendFull ==
  /\ Len(m_workqueue) > MaxRequests
  /\ Goto(Main, "size", "idle")
  /\ Unlock(Main)
  /\ refused' = refused \cup {request[Main]}
  /\ request' = [request EXCEPT ![Main] = NoRequest]
  /\ UNCHANGED <<m_workqueue, m_queuestat>>

AppendPushFront ==
  /\ ~(Len(m_workqueue) > MaxRequests)
  /\ Goto(Main, "size", "unlock")
  /\ m_workqueue' = <<request[Main]>> \o m_workqueue
  /\ request' = [request EXCEPT ![Main] = NoRequest]
  /\ UNCHANGED <<m_queuelocker, m_queuestat, refused>>
AppendPush ==
  /\ ~(Len(m_workqueue) > MaxRequests)
  /\ Goto(Main, "size", "unlock")
  /\ m_workqueue' = Append(m_workqueue, request[Main])
  /\ request' = [request EXCEPT ![Main] = NoRequest]
  /\ UNCHANGED <<m_queuelocker, m_queuestat, refused>>

AppendUnlock ==
  /\ Goto(Main, "unlock", "post")
  /\ Unlock(Main)
  /\ UNCHANGED <<m_workqueue, m_queuestat, request, refused>>

AppendPostForgotten ==
  /\ Goto(Main, "post", "idle")
  /\ UNCHANGED <<m_workqueue, m_queuelocker, m_queuestat, request, refused>>
AppendPost ==
  /\ Goto(Main, "post", "idle")
  /\ SemPost
  /\ UNCHANGED <<m_workqueue, m_queuelocker, request, refused>>

append == \/ \E r \in Requests : AppendLock(r)
          \/ AppendFull \/ AppendPush \/ AppendUnlock \/ AppendPost

-------------------------------------------------------------------------------
(* run(), the loop of worker w.                                            *)

RunWait(w) ==
  /\ Goto(w, "wait", "lock")
  /\ SemWait
  /\ UNCHANGED <<m_workqueue, m_queuelocker, request, refused>>

RunLock(w) ==
  /\ Goto(w, "lock", "front")
  /\ Lock(w)
  /\ UNCHANGED <<m_workqueue, m_queuestat, request, refused>>

(* Under the mutex: an empty queue sends the worker back to the semaphore; *)
(* otherwise it looks at the front request, and then removes it.           *)
RunFront(w) ==
  /\ IF m_workqueue = <<>>
     THEN /\ Goto(w, "front", "wait")
          /\ Unlock(w)
          /\ UNCHANGED request
     ELSE /\ Goto(w, "front", "pop")
          /\ request' = [request EXCEPT ![w] = Head(m_workqueue)]
          /\ UNCHANGED m_queuelocker
  /\ UNCHANGED <<m_workqueue, m_queuestat, refused>>

RunPop(w) ==
  /\ Goto(w, "pop", "process")
  /\ m_workqueue' = Tail(m_workqueue)
  /\ Unlock(w)
  /\ UNCHANGED <<m_queuestat, request, refused>>

(* request->process() has made its last access to the request (it re-arms  *)
(* the socket and returns); from here the main thread may append it again. *)
RunProcessed(w) ==
  /\ Goto(w, "process", "wait")
  /\ request' = [request EXCEPT ![w] = NoRequest]
  /\ UNCHANGED <<m_workqueue, m_queuelocker, m_queuestat, refused>>

run(w) == RunWait(w) \/ RunLock(w) \/ RunFront(w) \/ RunPop(w) \/ RunProcessed(w)

-------------------------------------------------------------------------------
Init ==
  /\ m_workqueue = <<>>
  /\ m_queuelocker = NoThread
  /\ m_queuestat = 0
  /\ pc = [t \in Threads |-> IF t = Main THEN "idle" ELSE "wait"]
  /\ request = [t \in Threads |-> NoRequest]
  /\ refused = {}

Next == append \/ \E w \in Workers : run(w)

(***************************************************************************)
(* The scheduler runs every thread that can run, and process() returns.    *)
(* Nothing forces the main thread to start an append().  The mutex is not  *)
(* assumed to be fair to any one thread.                                   *)
(***************************************************************************)
Fairness ==
  /\ WF_vars(AppendFull \/ AppendPush \/ AppendUnlock \/ AppendPost)
  /\ \A w \in Workers : WF_vars(run(w))

Spec == Init /\ [][Next]_vars /\ Fairness

-------------------------------------------------------------------------------
(* Properties                                                              *)

TypeOK ==
  /\ m_workqueue \in Seq(Requests)
  /\ m_queuelocker \in Threads \cup {NoThread}
  /\ m_queuestat \in Nat
  /\ pc \in [Threads -> WorkerPC \cup MainPC]
  /\ pc[Main] \in MainPC
  /\ \A w \in Workers : pc[w] \in WorkerPC
  /\ request \in [Threads -> Requests \cup {NoRequest}]
  /\ refused \subseteq Requests

(* Workers that took a unit of the semaphore and have not popped yet.      *)
Holders == {w \in Workers : pc[w] \in {"lock", "front", "pop"}}

(* The semaphore counts the queue: every queued request has one unit,      *)
(* which is in the semaphore, in the hands of a worker on its way to the   *)
(* queue, or still to be posted by append() after its push_back            *)
(* (threadpool.h:100-102, 122-132).  A unit too few strands a request; a   *)
(* unit too many sends a worker to an empty queue.                         *)
SemaphoreCountsQueue ==
  Len(m_workqueue) =
    m_queuestat + Cardinality(Holders)
      + (IF pc[Main] \in {"unlock", "post"} THEN 1 ELSE 0)

(* The test m_workqueue.empty() in run() (threadpool.h:124) never          *)
(* succeeds: a worker that got past the semaphore finds a request.         *)
NoFruitlessWakeup ==
  \A w \in Workers : pc[w] \in {"front", "pop"} => m_workqueue # <<>>

(* What worker w is running: the request it has removed from the queue.    *)
Running(w) == IF pc[w] = "process" THEN request[w] ELSE NoRequest

(* A request is in one place at a time: once in the queue or with one      *)
(* worker, so no two workers ever run process() of one http_conn, although *)
(* looking at the front and removing it are two calls                      *)
(* (threadpool.h:130-139).                                                 *)
OnePlace ==
  /\ \A i, j \in DOMAIN m_workqueue :
       m_workqueue[i] = m_workqueue[j] => i = j
  /\ \A w \in Workers : Running(w) \notin Queued
  /\ \A w1, w2 \in Workers :
       Running(w1) = Running(w2) /\ Running(w1) # NoRequest => w1 = w2

(* What size() > m_max_requests really allows (threadpool.h:94): one more  *)
(* than the documented maximum, and never two.                             *)
QueueBound == Len(m_workqueue) <= MaxRequests + 1

(* The pool with its mutex and semaphore is a TaskPool: first in first     *)
(* out, each request run once, refused only when over the limit, and every *)
(* accepted request eventually taken.                                      *)
Pool == INSTANCE TaskPool WITH
          pending <- m_workqueue,
          running <- [w \in Workers |-> Running(w)]

ImplementsTaskPool == Pool!Spec
===============================================================================

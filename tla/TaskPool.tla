------------------------------- MODULE TaskPool -------------------------------
(***************************************************************************)
(* What threadpool<T> (threadpool.h) promises its caller, without threads, *)
(* locks or semaphores: a bounded first-in-first-out queue of requests     *)
(* that a fixed set of workers takes one at a time and runs to completion. *)
(*                                                                         *)
(* ThreadPool implements this specification; Reactor uses it as its pool   *)
(* and is shown to respect the contract AtRest it puts on the caller.  A    *)
(* worker is done with a request when process() has re-armed its socket:   *)
(* that is its last access to the http_conn.                               *)
(***************************************************************************)
EXTENDS Naturals, Sequences

CONSTANTS
  Requests,     (* the T objects that may be handed to append()            *)
  Workers,      (* the threads of the pool                                 *)
  MaxRequests,  (* m_max_requests                                          *)
  NoRequest     (* a worker that runs nothing                              *)

VARIABLES
  pending,      (* requests accepted and not yet taken, oldest first       *)
  running,      (* the request each worker is running, or NoRequest        *)
  refused       (* requests append() turned away (it returned false)       *)

vars == <<pending, running, refused>>

Pending == {pending[i] : i \in DOMAIN pending}
Running == {running[w] : w \in Workers} \ {NoRequest}

Init ==
  /\ pending = <<>>
  /\ running = [w \in Workers |-> NoRequest]
  /\ refused = {}

(***************************************************************************)
(* The caller's side of the contract: a request is appended only while the *)
(* pool does not have it.  A refused request is never offered again.       *)
(***************************************************************************)
AtRest(r) == r \notin Pending \cup Running \cup refused

(* append() compares size() > m_max_requests, so the queue may reach       *)
(* m_max_requests + 1 before it refuses.                                   *)
Full == Len(pending) > MaxRequests

Submit(r) ==
  /\ ~Full
  /\ pending' = Append(pending, r)
  /\ UNCHANGED <<running, refused>>

Refuse(r) ==
  /\ Full
  /\ refused' = refused \cup {r}
  /\ UNCHANGED <<pending, running>>

Take(w) ==
  /\ running[w] = NoRequest
  /\ pending # <<>>
  /\ running' = [running EXCEPT ![w] = Head(pending)]
  /\ pending' = Tail(pending)
  /\ UNCHANGED refused

Finish(w) ==
  /\ running[w] # NoRequest
  /\ running' = [running EXCEPT ![w] = NoRequest]
  /\ UNCHANGED <<pending, refused>>

Next ==
  \/ \E r \in Requests : AtRest(r) /\ (Submit(r) \/ Refuse(r))
  \/ \E w \in Workers : Take(w) \/ Finish(w)

(* Follows from the contract: a request is queued once, or with one worker; *)
(* for all but those for which the caller did not keep it.                  *)
OnePlaceBut(excepted) ==
  /\ \A i, j \in DOMAIN pending :
       pending[i] = pending[j] => i = j \/ pending[i] \in excepted
  /\ Pending \cap Running \subseteq excepted
  /\ \A w1, w2 \in Workers :
       running[w1] = running[w2] /\ running[w1] # NoRequest
         => w1 = w2 \/ running[w1] \in excepted
OnePlace == OnePlaceBut({})

Safety == Init /\ [][Next]_vars

(* An accepted request does not wait forever while a worker is free, and   *)
(* process() returns.                                                      *)
Fairness ==
  /\ WF_vars(\E w \in Workers : Take(w))
  /\ \A w \in Workers : WF_vars(Finish(w))

Spec == Safety /\ Fairness
===============================================================================

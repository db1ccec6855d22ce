------------------------------- MODULE MCReactor -------------------------------
(* Reactor on small instances; descriptors and workers are interchangeable. *)
EXTENDS Reactor, TLC

Symmetry == Permutations(Fds) \cup Permutations(Workers)

(* What the http_conn of a closed connection still holds is not looked at   *)
(* before init() overwrites it.                                             *)
View ==
  <<kernel, client, interest, events, inUse, m_user_count, pool, procs,
    [fd \in inUse |-> <<m_read_idx[fd], response[fd]>>]>>

(* Bound: a program holds a worker, or a child is astray, only while at     *)
(* most two connections are open.                                           *)
HeldAmongTwo == waiting # {} \/ strayed # {} => Cardinality(inUse) <= 2
===============================================================================

----------------------------- MODULE ReactorProofs -----------------------------
(***************************************************************************)
(* Proofs about Reactor for any set of descriptors, any pool and any sizes *)
(* of the buffers and queues.                                              *)
(*                                                                         *)
(* The four invariants of Reactor are inductive together: what is with the *)
(* main thread is not with a worker (OneOwner), so a worker's arming for   *)
(* output finds no response already pending (ResponseAwaited).  The proof  *)
(* of a step first says how the step moves its connection between the      *)
(* sets of owners; the rest is reasoning about those sets.  What a child   *)
(* astray does to a connection is bounded by strayed: only its members may *)
(* be in two sets at once, and close_conn() clears one only when no worker *)
(* has it.                                                                 *)
(***************************************************************************)
EXTENDS Reactor, FiniteSetTheorems, TLAPS

IInv == TypeOK /\ OneOwner /\ ResponseAwaited /\ CountsConnections

-------------------------------------------------------------------------------
(* How the owners of connections change                                    *)

(* Arming a descriptor gives it to epoll.                                  *)
LEMMA ArmGivesToEpoll ==
  ASSUME TypeOK, NEW fd \in Fds, NEW ev \in {"in", "out"}, Arm(fd, ev)
  PROVE  /\ Armed' = Armed \cup {fd}
         /\ interest' \in [Fds -> {"none", "in", "out"}]
         /\ interest'[fd] = ev
         /\ \A x \in Fds \ {fd} : interest'[x] = interest[x]
BY DEF TypeOK, Armed, Arm

(* The main thread is done with the one event of a connection.             *)
LEMMA HandlingReleases ==
  ASSUME TypeOK, OneOwner, NEW fd \in Fds, NEW kind, Handling(fd, kind)
  PROVE  /\ fd \in Reported
         /\ Reported' = Reported \ {fd}
         /\ events' \subseteq events
         /\ \A e \in events' : e.fd # fd
<1>1. [fd |-> fd, kind |-> kind] \in events
  BY DEF Handling
<1>2. fd # ListenFd
  BY ReactorAssumption
<1>3. fd \in Reported
  BY <1>1, <1>2 DEF Reported
<1>4. \A e \in events : e.fd = fd => e = [fd |-> fd, kind |-> kind]
  BY <1>1 DEF OneOwner
<1>5. \A e \in events' : e \in events /\ e.fd # fd
  BY <1>4 DEF Handling
<1>6. \A e \in events : e.fd # fd => e \in events'
  BY DEF Handling
<1>7. Reported' = Reported \ {fd}
  BY <1>5, <1>6 DEF Reported
<1>. QED
  BY <1>3, <1>5, <1>7

(* The event for listenfd is nobody's connection.                          *)
LEMMA ListenReleasesNone ==
  ASSUME TypeOK, Handling(ListenFd, "in")
  PROVE  Reported' = Reported /\ events' \subseteq events
<1>1. \A e \in events : e.fd # ListenFd => e \in events'
  BY DEF Handling
<1>. QED
  BY <1>1 DEF Handling, Reported

(* close_conn() takes the connection from epoll and out of use.            *)
LEMMA CloseReleases ==
  ASSUME TypeOK, CountsConnections, NEW fd \in inUse, CloseConn(fd)
  PROVE  /\ Armed' = Armed \ {fd}
         /\ inUse' = inUse \ {fd}
         /\ hungUp' \subseteq inUse' /\ blocked' \subseteq inUse'
         /\ recvq' \in [Fds -> 0 .. MaxUnread]
         /\ interest' \in [Fds -> {"none", "in", "out"}]
         /\ interest'[fd] = "none"
         /\ \A x \in Fds \ {fd} : interest'[x] = interest[x]
         /\ m_user_count' \in Nat
         /\ CountsConnections'
         /\ UNCHANGED <<m_read_idx, response>>
<1>1. fd \in Fds
  BY DEF TypeOK
<1>2. IsFiniteSet(inUse)
  BY ReactorAssumption, FS_Subset DEF TypeOK
<1>3. /\ Cardinality(inUse \ {fd}) = Cardinality(inUse) - 1
      /\ Cardinality(inUse \ {fd}) \in Nat
  BY <1>2, FS_RemoveElement, FS_CardinalityType
<1>4. m_user_count' = m_user_count - 1 /\ inUse' = inUse \ {fd}
  BY DEF CloseConn
<1>5. CountsConnections' /\ m_user_count' \in Nat
  BY <1>3, <1>4, ReactorAssumption DEF CountsConnections, TypeOK
<1>6. Armed' = Armed \ {fd}
  BY <1>1 DEF CloseConn, Armed, TypeOK
<1>7. /\ interest' \in [Fds -> {"none", "in", "out"}]
      /\ interest'[fd] = "none"
      /\ \A x \in Fds \ {fd} : interest'[x] = interest[x]
      /\ recvq' \in [Fds -> 0 .. MaxUnread]
  BY <1>1, ReactorAssumption DEF CloseConn, TypeOK
<1>. QED
  BY <1>4, <1>5, <1>6, <1>7 DEF CloseConn, TypeOK

(* append() puts a connection into the queue; a second time only one that  *)
(* a child astray has armed.                                               *)
LEMMA SubmitQueues ==
  ASSUME TypeOK, Pool!OnePlaceBut(strayed), UNCHANGED strayed,
         NEW fd \in Fds, fd \in InPool => fd \in strayed, Pool!Submit(fd)
  PROVE  /\ InPool' = InPool \cup {fd}
         /\ refused' = refused
         /\ m_workqueue' \in Seq(Fds) /\ running' = running
         /\ Pool!OnePlaceBut(strayed)'
<1>. DEFINE q == m_workqueue
<1>1. /\ q \in Seq(Fds) /\ Len(q) \in Nat /\ DOMAIN q = 1 .. Len(q)
      /\ q' = Append(q, fd) /\ running' = running /\ refused' = refused
  BY DEF TypeOK, Pool!Submit
<1>2. /\ q' \in Seq(Fds) /\ DOMAIN q' = 1 .. (Len(q) + 1)
      /\ \A i \in 1 .. Len(q) : q'[i] = q[i]
      /\ q'[Len(q) + 1] = fd
  BY <1>1
<1>3. Pool!Pending' = Pool!Pending \cup {fd}
  <2>1. \A x \in Pool!Pending' : x \in Pool!Pending \cup {fd}
    BY <1>1, <1>2 DEF Pool!Pending
  <2>2. \A x \in Pool!Pending \cup {fd} : x \in Pool!Pending'
    BY <1>1, <1>2 DEF Pool!Pending
  <2>. QED
    BY <2>1, <2>2
<1>4. Pool!Running' = Pool!Running
  BY <1>1 DEF Pool!Running
<1>5. InPool' = InPool \cup {fd}
  BY <1>3, <1>4 DEF InPool
<1>6. ASSUME NEW i \in DOMAIN q', NEW j \in DOMAIN q', q'[i] = q'[j]
      PROVE  i = j \/ q'[i] \in strayed
  <2>1. \A k \in 1 .. Len(q) : q[k] = fd => fd \in strayed
    BY <1>1 DEF InPool, Pool!Pending
  <2>2. CASE i \in 1 .. Len(q) /\ j \in 1 .. Len(q)
    BY <1>1, <1>2, <1>6, <2>2 DEF Pool!OnePlaceBut
  <2>3. CASE i = Len(q) + 1 \/ j = Len(q) + 1
    BY <1>1, <1>2, <1>6, <2>1, <2>3
  <2>. QED
    BY <1>1, <1>2, <2>2, <2>3
<1>7. Pool!Pending' \cap Pool!Running' \subseteq strayed
  BY <1>3, <1>4 DEF Pool!OnePlaceBut, InPool
<1>8. Pool!OnePlaceBut(strayed)'
  BY <1>1, <1>6, <1>7 DEF Pool!OnePlaceBut
<1>. QED
  BY <1>1, <1>2, <1>5, <1>8

(* Taking a request moves it inside the pool.                              *)
LEMMA TakeKeeps ==
  ASSUME TypeOK, Pool!OnePlaceBut(strayed), UNCHANGED strayed,
         NEW w \in Workers, Pool!Take(w)
  PROVE  /\ InPool' = InPool
         /\ refused' = refused
         /\ m_workqueue' \in Seq(Fds)
         /\ running' \in [Workers -> Fds \cup {NoRequest}]
         /\ \A v \in Workers : running[v] # NoRequest => running'[v] # NoRequest
         /\ Pool!OnePlaceBut(strayed)'
<1>. DEFINE q == m_workqueue
            r == Head(m_workqueue)
<1>1. /\ q \in Seq(Fds) /\ Len(q) \in Nat /\ DOMAIN q = 1 .. Len(q)
      /\ q # <<>> /\ q' = Tail(q) /\ refused' = refused
      /\ running[w] = NoRequest /\ running' = [running EXCEPT ![w] = r]
  BY DEF TypeOK, Pool!Take
<1>2. /\ q' \in Seq(Fds) /\ DOMAIN q' = 1 .. (Len(q) - 1)
      /\ \A i \in 1 .. (Len(q) - 1) : q'[i] = q[i + 1]
      /\ Len(q) >= 1 /\ r = q[1] /\ r \in Fds
  BY <1>1
<1>3. r # NoRequest /\ r \in Pool!Pending
  BY <1>1, <1>2, ReactorAssumption DEF Pool!Pending
<1>4. /\ Pool!Pending' \subseteq Pool!Pending
      /\ Pool!Pending \subseteq Pool!Pending' \cup {r}
      /\ r \in Pool!Pending' => r \in strayed
  <2>1. ASSUME NEW x \in Pool!Pending'
        PROVE  x \in Pool!Pending /\ (x = r => r \in strayed)
    <3>1. PICK i \in 1 .. (Len(q) - 1) : x = q[i + 1]
      BY <1>2 DEF Pool!Pending
    <3>2. i + 1 \in DOMAIN q /\ 1 \in DOMAIN q /\ i + 1 # 1
      BY <1>1, <3>1
    <3>. QED
      BY <1>2, <3>1, <3>2 DEF Pool!OnePlaceBut, Pool!Pending
  <2>2. ASSUME NEW x \in Pool!Pending, x # r PROVE x \in Pool!Pending'
    <3>1. PICK i \in 1 .. Len(q) : x = q[i]
      BY <1>1 DEF Pool!Pending
    <3>2. i - 1 \in 1 .. (Len(q) - 1) /\ (i - 1) + 1 = i
      BY <1>1, <1>2, <2>2, <3>1
    <3>3. x = q'[i - 1] /\ i - 1 \in DOMAIN q'
      BY <1>2, <3>1, <3>2
    <3>. QED
      BY <3>3 DEF Pool!Pending
  <2>. QED
    BY <2>1, <2>2
<1>5. \A v \in Workers : running'[v] = IF v = w THEN r ELSE running[v]
  BY <1>1 DEF TypeOK
<1>6. Pool!Running' = Pool!Running \cup {r}
  BY <1>1, <1>3, <1>5 DEF Pool!Running
<1>7. InPool' = InPool
  BY <1>3, <1>4, <1>6 DEF InPool
<1>8. ASSUME NEW i \in DOMAIN q', NEW j \in DOMAIN q', q'[i] = q'[j]
      PROVE  i = j \/ q'[i] \in strayed
  <2>1. /\ i + 1 \in DOMAIN q /\ j + 1 \in DOMAIN q /\ q[i + 1] = q[j + 1]
        /\ q'[i] = q[i + 1] /\ (i + 1 = j + 1 => i = j)
    BY <1>1, <1>2, <1>8
  <2>2. i + 1 = j + 1 \/ q[i + 1] \in strayed
    BY <2>1 DEF Pool!OnePlaceBut
  <2>. QED
    BY <2>1, <2>2
<1>9. r \in Pool!Running => r \in strayed
  BY <1>3 DEF Pool!OnePlaceBut
<1>10. Pool!Pending' \cap Pool!Running' \subseteq strayed
  BY <1>4, <1>6 DEF Pool!OnePlaceBut
<1>11. \A v \in Workers : running[v] = r => r \in strayed
  BY <1>3, <1>9 DEF Pool!Running
<1>12. \A v1, v2 \in Workers :
         running'[v1] = running'[v2] /\ running'[v1] # NoRequest
           => v1 = v2 \/ running'[v1] \in strayed
  BY <1>5, <1>11 DEF Pool!OnePlaceBut
<1>13. Pool!OnePlaceBut(strayed)'
  BY <1>8, <1>10, <1>12 DEF Pool!OnePlaceBut
<1>14. running' \in [Workers -> Fds \cup {NoRequest}]
  BY <1>1, <1>2 DEF TypeOK
<1>. QED
  BY <1>1, <1>2, <1>3, <1>5, <1>7, <1>13, <1>14

(* A worker that is done with a request is the only one that had it, but   *)
(* for what a child astray has armed.                                      *)
LEMMA FinishReleases ==
  ASSUME TypeOK, Pool!OnePlaceBut(strayed), UNCHANGED strayed,
         NEW w \in Workers, Pool!Finish(w)
  PROVE  /\ running[w] \in Fds /\ running[w] \in InPool
         /\ InPool' \subseteq InPool /\ InPool \subseteq InPool' \cup {running[w]}
         /\ running[w] \in InPool' => running[w] \in strayed
         /\ refused' = refused /\ m_workqueue' = m_workqueue
         /\ running' \in [Workers -> Fds \cup {NoRequest}]
         /\ \A v \in Workers \ {w} : running'[v] = running[v]
         /\ Pool!OnePlaceBut(strayed)'
<1>1. /\ running[w] # NoRequest /\ running' = [running EXCEPT ![w] = NoRequest]
      /\ m_workqueue' = m_workqueue /\ refused' = refused
  BY DEF Pool!Finish
<1>2. running[w] \in Fds /\ running[w] \in Pool!Running
  BY <1>1 DEF TypeOK, Pool!Running
<1>3. \A v \in Workers : running'[v] = IF v = w THEN NoRequest ELSE running[v]
  BY <1>1 DEF TypeOK
<1>4. \A v \in Workers : v # w /\ running[v] = running[w] => running[w] \in strayed
  BY <1>1 DEF Pool!OnePlaceBut
<1>5. /\ Pool!Running' \subseteq Pool!Running
      /\ Pool!Running \subseteq Pool!Running' \cup {running[w]}
      /\ running[w] \in Pool!Running' => running[w] \in strayed
  BY <1>1, <1>3, <1>4 DEF Pool!Running
<1>6. Pool!Pending' = Pool!Pending
  BY <1>1 DEF Pool!Pending
<1>7. /\ InPool' \subseteq InPool /\ InPool \subseteq InPool' \cup {running[w]}
      /\ running[w] \in InPool
      /\ running[w] \in InPool' => running[w] \in strayed
  BY <1>2, <1>5, <1>6 DEF InPool, Pool!OnePlaceBut
<1>8. Pool!OnePlaceBut(strayed)'
  BY <1>1, <1>3, <1>5, <1>6 DEF Pool!OnePlaceBut
<1>. QED
  BY <1>1, <1>2, <1>3, <1>7, <1>8 DEF TypeOK

-------------------------------------------------------------------------------
(* The initial states                                                      *)

LEMMA InitIInv == Init => IInv
<1>. SUFFICES ASSUME Init PROVE IInv
  OBVIOUS
<1>. USE ReactorAssumption DEF Init, Pool!Init
<1>1. TypeOK
  <2>1. 0 \in 0 .. MaxBacklog /\ 0 \in 0 .. MaxUnread /\ 0 \in 0 .. READ_BUFFER_SIZE
    OBVIOUS
  <2>2. m_workqueue \in Seq(Fds) /\ running \in [Workers -> Fds \cup {NoRequest}]
    OBVIOUS
  <2>. QED
    BY <2>1, <2>2 DEF TypeOK
<1>2. OneOwner
  BY DEF OneOwner, Armed, Reported, InPool, Pool!Pending, Pool!Running, Pool!OnePlaceBut
<1>3. ResponseAwaited
  BY DEF ResponseAwaited
<1>4. CountsConnections
  BY FS_EmptySet DEF CountsConnections
<1>. QED
  BY <1>1, <1>2, <1>3, <1>4 DEF IInv

-------------------------------------------------------------------------------
(* The main thread                                                         *)

LEMMA EpollWaitStep ==
  ASSUME IInv, EpollWait
  PROVE  IInv'
<1>. USE DEF IInv
<1>1. /\ events = {} /\ interest' = AfterReport /\ listenEdge' = FALSE
      /\ UNCHANGED <<backlog, client, conns, pool, procs>>
  BY DEF EpollWait
<1>2. ReadyFds \subseteq Armed
  BY DEF ReadyFds, Ready, Armed
<1>3. Reported = {}
  BY <1>1 DEF Reported
<1>4. \A e \in events' :
        \/ e = [fd |-> ListenFd, kind |-> "in"]
        \/ e.fd \in ReadyFds /\ e = [fd |-> e.fd, kind |-> Kind(e.fd)]
  BY DEF EpollWait
<1>5. \A fd \in ReadyFds : [fd |-> fd, kind |-> Kind(fd)] \in events'
  BY DEF EpollWait
<1>6. ListenFd \notin ReadyFds
  BY ReactorAssumption DEF ReadyFds
<1>7. Reported' = ReadyFds
  <2>1. \A x \in Reported' : x \in ReadyFds
    BY <1>4 DEF Reported
  <2>2. ASSUME NEW x \in ReadyFds PROVE x \in Reported'
    <3>. DEFINE e == [fd |-> x, kind |-> Kind(x)]
    <3>1. e \in events' /\ e.fd = x
      BY <1>5
    <3>. QED
      BY <1>6, <3>1 DEF Reported
  <2>. QED
    BY <2>1, <2>2
<1>8. Armed' = Armed \ ReadyFds
  BY <1>1, <1>2 DEF AfterReport, Armed
<1>9. UNCHANGED <<InPool, Pool!Pending, Pool!Running, refused, inUse, strayed>>
  BY <1>1 DEF InPool, Pool!Pending, Pool!Running, pool, conns, procs
<1>10. TypeOK'
  <2>1. \A fd \in ReadyFds : Kind(fd) \in {"in", "out", "hup"}
    BY DEF ReadyFds, Ready, Kind, TypeOK
  <2>2. \A e \in events' : e \in Event
    BY <1>4, <2>1 DEF Event, ReadyFds
  <2>3. interest' \in [Fds -> {"none", "in", "out"}]
    BY <1>1 DEF AfterReport, TypeOK
  <2>. QED
    BY <1>1, <2>2, <2>3 DEF TypeOK, client, conns, pool, procs
<1>11. OneOwner'
  <2>1. ReadyFds \cap (InPool \cup refused) \subseteq strayed
    BY <1>2 DEF OneOwner
  <2>2. /\ Armed \subseteq inUse
        /\ inUse \ strayed = (Armed \cup InPool \cup refused) \ strayed
    BY <1>3 DEF OneOwner
  <2>3. \A e1, e2 \in events' : e1.fd = e2.fd => e1 = e2
    BY <1>4, <1>6
  <2>4. Pool!OnePlaceBut(strayed)'
    BY <1>1, <1>9 DEF OneOwner, Pool!OnePlaceBut, pool
  <2>. QED
    BY <1>2, <1>3, <1>7, <1>8, <1>9, <2>1, <2>2, <2>3, <2>4 DEF OneOwner
<1>12. ResponseAwaited'
  <2>1. UNCHANGED <<response, inUse>>
    BY <1>1 DEF conns
  <2>2. ASSUME NEW fd \in Fds, NEW k \in {"in", "out"},
               [fd |-> fd, kind |-> k] \in events'
        PROVE  interest[fd] = k
    <3>1. fd # ListenFd
      BY ReactorAssumption
    <3>2. k = Kind(fd)
      BY <1>4, <2>2, <3>1
    <3>. QED
      BY <3>2 DEF Kind
  <2>3. \A fd \in Fds : interest'[fd] # "none" => interest'[fd] = interest[fd]
    BY <1>1 DEF AfterReport
  <2>4. inUse \subseteq Fds
    BY DEF TypeOK
  <2>. QED
    BY <1>9, <2>1, <2>2, <2>3, <2>4 DEF ResponseAwaited
<1>13. CountsConnections'
  BY <1>1 DEF CountsConnections, conns
<1>. QED
  BY <1>10, <1>11, <1>12, <1>13

LEMMA HandleListenStep ==
  ASSUME IInv, HandleListen
  PROVE  IInv'
<1>. USE DEF IInv
<1>1. /\ Handling(ListenFd, "in")
      /\ UNCHANGED <<listenEdge, client, pool, procs>>
  BY DEF HandleListen
<1>2. Reported' = Reported /\ events' \subseteq events
  BY <1>1, ListenReleasesNone
<1>3. UNCHANGED <<InPool, Pool!Pending, Pool!Running, refused, waiting, strays, strayed>>
  BY <1>1 DEF InPool, Pool!Pending, Pool!Running, pool, procs
<1>4. Pool!OnePlaceBut(strayed)'
  BY <1>1, <1>3 DEF OneOwner, Pool!OnePlaceBut, pool
<1>5. \A e1, e2 \in events' : e1.fd = e2.fd => e1 = e2
  BY <1>2 DEF OneOwner
<1>6. CASE UNCHANGED <<interest, conns>> /\ backlog' \in 0 .. MaxBacklog
  <2>1. TypeOK'
    BY <1>1, <1>2, <1>6 DEF TypeOK, client, conns, pool, procs
  <2>2. OneOwner'
    BY <1>2, <1>3, <1>4, <1>5, <1>6 DEF OneOwner, Armed, conns
  <2>3. ResponseAwaited'
    BY <1>2, <1>3, <1>6 DEF ResponseAwaited, conns
  <2>4. CountsConnections'
    BY <1>6 DEF CountsConnections, conns
  <2>. QED
    BY <2>1, <2>2, <2>3, <2>4
<1>7. ASSUME NEW fd \in Fds \ inUse, InitConn(fd), m_user_count < MAX_FD,
             backlog' \in 0 .. MaxBacklog
      PROVE  IInv'
  <2>1. /\ inUse' = inUse \cup {fd} /\ m_user_count' = m_user_count + 1
        /\ Arm(fd, "in")
        /\ m_read_idx' = [m_read_idx EXCEPT ![fd] = 0]
        /\ response' = [response EXCEPT ![fd] = "none"]
    BY <1>7 DEF InitConn, ResetConn
  <2>2. /\ Armed' = Armed \cup {fd}
        /\ interest' \in [Fds -> {"none", "in", "out"}]
        /\ interest'[fd] = "in"
        /\ \A x \in Fds \ {fd} : interest'[x] = interest[x]
    BY <2>1, ArmGivesToEpoll
  <2>3. response'[fd] = "none" /\ \A x \in Fds \ {fd} : response'[x] = response[x]
    BY <2>1 DEF TypeOK
  <2>4. TypeOK'
    <3>1. m_read_idx' \in [Fds -> 0 .. READ_BUFFER_SIZE]
      BY <2>1, ReactorAssumption DEF TypeOK
    <3>2. response' \in [Fds -> {"none", "keep", "close"}]
      BY <2>1 DEF TypeOK
    <3>3. /\ inUse' \subseteq Fds /\ blocked' \subseteq inUse' /\ hungUp' \subseteq inUse'
          /\ m_user_count' \in Nat
      BY <1>1, <2>1 DEF TypeOK, client
    <3>. QED
      BY <1>1, <1>2, <1>3, <1>7, <2>1, <2>2, <3>1, <3>2, <3>3 DEF TypeOK, client, pool
  <2>5. OneOwner'
    BY <1>2, <1>3, <1>4, <1>5, <2>1, <2>2 DEF OneOwner
  <2>6. ResponseAwaited'
    <3>1. [fd |-> fd, kind |-> "out"] \notin events'
      <4>1. fd # ListenFd /\ fd \notin Reported
        BY ReactorAssumption DEF OneOwner
      <4>. QED
        BY <1>2, <4>1 DEF Reported
    <3>. QED
      BY <1>2, <1>3, <2>1, <2>2, <2>3, <3>1 DEF ResponseAwaited, TypeOK
  <2>7. CountsConnections'
    <3>1. IsFiniteSet(inUse)
      BY ReactorAssumption, FS_Subset DEF TypeOK
    <3>2. Cardinality(inUse') = Cardinality(inUse) + 1
      BY <2>1, <3>1, FS_AddElement
    <3>. QED
      BY <1>7, <2>1, <3>2, ReactorAssumption DEF CountsConnections, TypeOK
  <2>. QED
    BY <2>4, <2>5, <2>6, <2>7
<1>8. backlog' \in 0 .. MaxBacklog
  BY ReactorAssumption DEF HandleListen, TypeOK
<1>9. \/ UNCHANGED <<interest, conns>>
      \/ m_user_count < MAX_FD /\ \E fd \in Fds \ inUse : InitConn(fd)
  BY ReactorAssumption DEF HandleListen, TypeOK
<1>. QED
  BY <1>6, <1>7, <1>8, <1>9

(* Every branch that ends in close_conn() leaves a smaller server.         *)
LEMMA CloseStep ==
  ASSUME IInv, NEW fd \in Fds, NEW kind, Handling(fd, kind), CloseConn(fd),
         UNCHANGED <<kernel, pool>>
  PROVE  IInv'
<1>. USE DEF IInv
<1>1. /\ fd \in Reported /\ Reported' = Reported \ {fd}
      /\ events' \subseteq events /\ \A e \in events' : e.fd # fd
  BY HandlingReleases
<1>2. fd \in inUse
  BY <1>1 DEF OneOwner
<1>3. /\ Armed' = Armed \ {fd} /\ inUse' = inUse \ {fd}
      /\ hungUp' \subseteq inUse' /\ blocked' \subseteq inUse'
      /\ recvq' \in [Fds -> 0 .. MaxUnread]
      /\ interest' \in [Fds -> {"none", "in", "out"}]
      /\ \A x \in Fds \ {fd} : interest'[x] = interest[x]
      /\ m_user_count' \in Nat
      /\ CountsConnections'
      /\ UNCHANGED <<m_read_idx, response>>
  BY <1>2, CloseReleases
<1>4. UNCHANGED <<InPool, Pool!Pending, Pool!Running, refused>>
  BY DEF InPool, Pool!Pending, Pool!Running, pool
<1>5. /\ strays' = strays \ {fd} /\ waiting' = waiting
      /\ strayed' \subseteq strayed
      /\ strayed \subseteq strayed' \cup {fd}
      /\ fd \in (InPool \cup refused) \cap strayed => fd \in strayed'
  BY DEF CloseConn, ForgetStray
<1>6. TypeOK'
  BY <1>1, <1>3, <1>4, <1>5 DEF TypeOK, kernel, pool
<1>7. OneOwner'
  <2>1. Pool!OnePlaceBut(strayed)'
    <3>1. \A x \in InPool : x \in strayed => x \in strayed'
      BY <1>5
    <3>2. /\ \A i \in DOMAIN m_workqueue : m_workqueue[i] \in InPool
          /\ \A v \in Workers : running[v] # NoRequest => running[v] \in InPool
      BY DEF InPool, Pool!Pending, Pool!Running
    <3>3. Pool!Pending \cap Pool!Running \subseteq InPool
      BY DEF InPool
    <3>. QED
      BY <1>4, <3>1, <3>2, <3>3 DEF OneOwner, Pool!OnePlaceBut, pool
  <2>2. Armed' \cup Reported' \subseteq inUse'
    BY <1>1, <1>3 DEF OneOwner
  <2>3. inUse' \ strayed' = (Armed' \cup Reported' \cup InPool' \cup refused') \ strayed'
    BY <1>1, <1>2, <1>3, <1>4, <1>5 DEF OneOwner
  <2>4. /\ Armed' \cap (Reported' \cup InPool' \cup refused') \subseteq strayed'
        /\ Reported' \cap (InPool' \cup refused') \subseteq strayed'
        /\ InPool' \cap refused' \subseteq strayed'
    BY <1>1, <1>3, <1>4, <1>5 DEF OneOwner
  <2>. QED
    BY <1>1, <2>1, <2>2, <2>3, <2>4 DEF OneOwner
<1>8. ResponseAwaited'
  BY <1>1, <1>3, <1>4, <1>5 DEF ResponseAwaited, TypeOK
<1>. QED
  BY <1>3, <1>6, <1>7, <1>8

LEMMA HandleReadStep ==
  ASSUME IInv, NEW fd \in Fds, HandleRead(fd)
  PROVE  IInv'
<1>. USE DEF IInv
<1>1. Handling(fd, "in") /\ UNCHANGED kernel
  BY DEF HandleRead
<1>2. CASE ~ReadSucceeds(fd)
  BY <1>1, <1>2, CloseStep DEF HandleRead
<1>3. CASE ReadSucceeds(fd)
  <2>1. /\ m_read_idx' = [m_read_idx EXCEPT ![fd] = @ + recvq[fd]]
        /\ recvq' = [recvq EXCEPT ![fd] = 0]
        /\ Pool!Submit(fd) \/ Pool!Refuse(fd)
        /\ UNCHANGED <<interest, hungUp, blocked, inUse, response, m_user_count, procs>>
    BY <1>3 DEF HandleRead
  <2>2. /\ fd \in Reported /\ Reported' = Reported \ {fd}
        /\ events' \subseteq events /\ \A e \in events' : e.fd # fd
    BY <1>1, HandlingReleases
  <2>3. /\ fd \in InPool \cup refused \cup Armed => fd \in strayed
        /\ fd \in inUse
        /\ Pool!OnePlaceBut(strayed) /\ UNCHANGED <<waiting, strays, strayed>>
    BY <2>1, <2>2 DEF OneOwner, procs
  <2>4. /\ InPool' \cup refused' = InPool \cup refused \cup {fd}
        /\ InPool' \cap refused' \subseteq strayed
        /\ InPool \subseteq InPool' /\ refused \subseteq refused'
        /\ m_workqueue' \in Seq(Fds) /\ running' = running
        /\ refused' \subseteq Fds
        /\ Pool!OnePlaceBut(strayed)'
    <3>1. CASE Pool!Submit(fd)
      BY <2>3, <3>1, SubmitQueues, SMTT(30) DEF OneOwner, TypeOK
    <3>2. CASE Pool!Refuse(fd)
      <4>1. UNCHANGED <<m_workqueue, running>> /\ refused' = refused \cup {fd}
        BY <3>2 DEF Pool!Refuse
      <4>2. UNCHANGED <<Pool!Pending, Pool!Running, InPool>>
        BY <4>1 DEF Pool!Pending, Pool!Running, InPool
      <4>. QED
        BY <2>3, <4>1, <4>2 DEF OneOwner, Pool!OnePlaceBut, TypeOK
    <3>. QED
      BY <2>1, <3>1, <3>2
  <2>5. TypeOK'
    <3>1. m_read_idx[fd] + recvq[fd] \in 0 .. READ_BUFFER_SIZE
      BY <1>3, ReactorAssumption DEF ReadSucceeds, TypeOK
    <3>. QED
      BY <1>1, <2>1, <2>2, <2>3, <2>4, <3>1, ReactorAssumption DEF TypeOK, kernel
  <2>6. OneOwner'
    <3>1. Armed' = Armed
      BY <2>1 DEF Armed
    <3>. QED
      BY <2>1, <2>2, <2>3, <2>4, <3>1 DEF OneOwner
  <2>7. ResponseAwaited'
    <3>1. fd \notin strayed => response[fd] = "none"
      <4>1. [fd |-> fd, kind |-> "in"] \in events
        BY <1>1 DEF Handling
      <4>. QED
        BY <2>3, <4>1 DEF ResponseAwaited
    <3>2. fd \notin strayed => interest[fd] = "none"
      BY <2>3 DEF Armed
    <3>. QED
      BY <2>1, <2>2, <2>3, <2>4, <3>1, <3>2 DEF ResponseAwaited, TypeOK
  <2>8. CountsConnections'
    BY <2>1 DEF CountsConnections
  <2>. QED
    BY <2>5, <2>6, <2>7, <2>8
<1>. QED
  BY <1>2, <1>3

(* write() that goes on with the connection arms it for what comes next.   *)
LEMMA RearmStep ==
  ASSUME IInv, NEW fd \in Fds, NEW kind, Handling(fd, kind),
         NEW ev \in {"in", "out"}, Arm(fd, ev),
         response' \in [Fds -> {"none", "keep", "close"}],
         m_read_idx' \in [Fds -> 0 .. READ_BUFFER_SIZE],
         \A x \in Fds \ {fd} : response'[x] = response[x],
         response'[fd] = "none" <=> ev = "in",
         blocked' \subseteq blocked \cup {fd},
         UNCHANGED <<kernel, hungUp, recvq, inUse, m_user_count, pool, procs>>
  PROVE  IInv'
<1>. USE DEF IInv
<1>1. /\ fd \in Reported /\ Reported' = Reported \ {fd}
      /\ events' \subseteq events /\ \A e \in events' : e.fd # fd
  BY HandlingReleases
<1>2. /\ fd \in inUse /\ (fd \in InPool \cup refused => fd \in strayed)
      /\ UNCHANGED <<waiting, strays, strayed>>
  BY <1>1 DEF OneOwner, procs
<1>3. /\ Armed' = Armed \cup {fd}
      /\ interest' \in [Fds -> {"none", "in", "out"}]
      /\ interest'[fd] = ev
      /\ \A x \in Fds \ {fd} : interest'[x] = interest[x]
  BY ArmGivesToEpoll
<1>4. UNCHANGED <<InPool, Pool!Pending, Pool!Running, refused>>
  BY DEF InPool, Pool!Pending, Pool!Running, pool
<1>5. TypeOK'
  BY <1>1, <1>2, <1>3 DEF TypeOK, kernel, pool
<1>6. OneOwner'
  <2>1. Pool!OnePlaceBut(strayed)'
    BY <1>2, <1>4 DEF OneOwner, Pool!OnePlaceBut, pool
  <2>. QED
    BY <1>1, <1>2, <1>3, <1>4, <2>1 DEF OneOwner
<1>7. ResponseAwaited'
  <2>1. ASSUME NEW x \in inUse \ strayed, x # fd
        PROVE  interest'[x] = interest[x] /\ response'[x] = response[x]
    BY <1>3, <2>1 DEF TypeOK
  <2>2. fd \in inUse \ strayed => /\ fd \notin InPool' \cup refused'
                                 /\ interest'[fd] = ev
                                 /\ \A e \in events' : e.fd # fd
    BY <1>1, <1>2, <1>3, <1>4
  <2>. QED
    BY <1>1, <1>2, <1>4, <2>1, <2>2 DEF ResponseAwaited
<1>8. CountsConnections'
  BY DEF CountsConnections
<1>. QED
  BY <1>5, <1>6, <1>7, <1>8

LEMMA WriteStep ==
  ASSUME IInv, NEW fd \in Fds, WriteDone(fd) \/ WriteAgain(fd) \/ WriteFailed(fd)
  PROVE  IInv'
<1>1. CASE WriteDone(fd) /\ response[fd] = "close"
  BY <1>1, CloseStep DEF WriteDone
<1>2. CASE WriteDone(fd) /\ response[fd] # "close"
  <2>1. /\ Handling(fd, "out") /\ Arm(fd, "in")
        /\ m_read_idx' = [m_read_idx EXCEPT ![fd] = 0]
        /\ response' = [response EXCEPT ![fd] = "none"]
        /\ blocked' \subseteq blocked \cup {fd}
        /\ UNCHANGED <<kernel, hungUp, recvq, inUse, m_user_count, pool, procs>>
    BY <1>2 DEF WriteDone, ResetConn
  <2>2. /\ response' \in [Fds -> {"none", "keep", "close"}]
        /\ m_read_idx' \in [Fds -> 0 .. READ_BUFFER_SIZE]
        /\ \A x \in Fds \ {fd} : response'[x] = response[x]
        /\ response'[fd] = "none"
    BY <2>1, ReactorAssumption DEF IInv, TypeOK
  <2>. QED
    BY <2>1, <2>2, RearmStep
<1>3. CASE WriteAgain(fd)
  <2>1. /\ Handling(fd, "out") /\ Arm(fd, "out") /\ response[fd] # "none"
        /\ blocked' = blocked \cup {fd}
        /\ UNCHANGED <<kernel, hungUp, recvq, inUse, m_user_count, pool, procs,
                       response, m_read_idx>>
    BY <1>3 DEF WriteAgain, conns
  <2>2. /\ response' \in [Fds -> {"none", "keep", "close"}]
        /\ m_read_idx' \in [Fds -> 0 .. READ_BUFFER_SIZE]
    BY <2>1 DEF IInv, TypeOK
  <2>. QED
    BY <2>1, <2>2, RearmStep
<1>4. CASE WriteFailed(fd)
  BY <1>4, CloseStep DEF WriteFailed
<1>. QED
  BY <1>1, <1>2, <1>3, <1>4

-------------------------------------------------------------------------------
(* The workers and the clients                                             *)

LEMMA TakeRequestStep ==
  ASSUME IInv, NEW w \in Workers, TakeRequest(w)
  PROVE  IInv'
<1>. USE DEF IInv
<1>1. Pool!Take(w) /\ UNCHANGED <<kernel, client, interest, events, conns, procs>>
  BY DEF TakeRequest
<1>2. /\ InPool' = InPool /\ refused' = refused
      /\ m_workqueue' \in Seq(Fds)
      /\ running' \in [Workers -> Fds \cup {NoRequest}]
      /\ \A v \in Workers : running[v] # NoRequest => running'[v] # NoRequest
      /\ Pool!OnePlaceBut(strayed)'
      /\ UNCHANGED <<waiting, strays, strayed>>
  BY <1>1, TakeKeeps DEF OneOwner, procs
<1>3. TypeOK'
  BY <1>1, <1>2 DEF TypeOK, kernel, client, conns
<1>4. OneOwner'
  BY <1>1, <1>2 DEF OneOwner, Armed, Reported, conns
<1>5. ResponseAwaited'
  BY <1>1, <1>2 DEF ResponseAwaited, conns
<1>6. CountsConnections'
  BY <1>1 DEF CountsConnections, conns
<1>. QED
  BY <1>3, <1>4, <1>5, <1>6

(* process() ends by giving its connection back to epoll, if it is open.   *)
LEMMA ProcessStep ==
  ASSUME IInv, NEW w \in Workers,
         \/ ProcessIncomplete(w) \/ ProcessRespond(w)
         \/ ProcessReaps(w)
  PROVE  IInv'
<1>. USE DEF IInv
<1>. DEFINE fd == running[w]
<1>1. /\ Pool!Finish(w)
      /\ UNCHANGED <<kernel, client, events, inUse, m_user_count, m_read_idx, strays, strayed>>
  BY DEF ProcessIncomplete, ProcessRespond, ProcessReaps, Respond, conns, procs
<1>2. /\ fd \in Fds /\ fd \in InPool
      /\ InPool' \subseteq InPool /\ InPool \subseteq InPool' \cup {fd}
      /\ fd \in InPool' => fd \in strayed
      /\ refused' = refused /\ m_workqueue' = m_workqueue
      /\ running' \in [Workers -> Fds \cup {NoRequest}]
      /\ \A v \in Workers \ {w} : running'[v] = running[v]
      /\ Pool!OnePlaceBut(strayed)'
  BY <1>1, FinishReleases DEF OneOwner
<1>3. \/ fd \in strayed
      \/ /\ fd \in inUse /\ fd \notin Reported \cup Armed \cup refused
         /\ response[fd] = "none"
  BY <1>2 DEF OneOwner, ResponseAwaited
<1>4. PICK ev \in {"in", "out"} :
        /\ Rearm(fd, ev)
        /\ response' \in [Fds -> {"none", "keep", "close"}]
        /\ \A x \in Fds \ {fd} : response'[x] = response[x]
        /\ fd \in strayed \/ (response'[fd] = "none" <=> ev = "in")
  <2>1. CASE ProcessIncomplete(w)
    BY <1>2, <1>3, <2>1 DEF ProcessIncomplete, conns, TypeOK
  <2>2. CASE ProcessRespond(w) \/ ProcessReaps(w)
    <3>1. Respond(w)
      BY <2>2 DEF ProcessRespond, ProcessReaps
    <3>2. PICK kind \in {"keep", "close"} : response' = [response EXCEPT ![fd] = kind]
      BY <3>1 DEF Respond
    <3>3. Rearm(fd, "out")
      BY <3>1 DEF Respond
    <3>4. /\ response' \in [Fds -> {"none", "keep", "close"}]
          /\ response'[fd] # "none"
          /\ \A x \in Fds \ {fd} : response'[x] = response[x]
      BY <1>2, <3>2 DEF TypeOK
    <3>. HIDE DEF fd
    <3>. QED
      BY <3>3, <3>4
  <2>. QED
    BY <2>1, <2>2
<1>5. /\ Armed' \subseteq Armed \cup {fd} /\ Armed \subseteq Armed'
      /\ fd \in inUse => fd \in Armed'
      /\ fd \in Armed' => fd \in inUse
      /\ interest' \in [Fds -> {"none", "in", "out"}]
      /\ fd \in inUse => interest'[fd] = ev
      /\ \A x \in Fds \ {fd} : interest'[x] = interest[x]
  BY <1>2, <1>4 DEF OneOwner, Rearm, TypeOK, Armed
<1>6. waiting' \subseteq {v \in Workers : running'[v] # NoRequest}
  <2>1. CASE ProcessIncomplete(w) \/ ProcessRespond(w)
    BY <1>2, <2>1 DEF ProcessIncomplete, ProcessRespond, TypeOK, procs
  <2>2. CASE ProcessReaps(w)
    <3>1. PICK v \in Workers \ waiting :
            running[v] # NoRequest /\ waiting' = (waiting \ {w}) \cup {v}
      BY <2>2 DEF ProcessReaps
    <3>2. v # w
      BY <2>2 DEF ProcessReaps
    <3>. QED
      BY <1>2, <3>1, <3>2 DEF TypeOK
  <2>. QED
    BY <2>1, <2>2
<1>7. TypeOK'
  BY <1>1, <1>2, <1>4, <1>5, <1>6 DEF TypeOK, kernel, client
<1>8. OneOwner'
  <2>1. Reported' = Reported
    BY <1>1 DEF Reported
  <2>2. Armed' \cup Reported' \subseteq inUse'
    BY <1>1, <1>5, <2>1 DEF OneOwner
  <2>3. inUse' \ strayed' = (Armed' \cup Reported' \cup InPool' \cup refused') \ strayed'
    BY <1>1, <1>2, <1>3, <1>5, <2>1 DEF OneOwner
  <2>4. /\ Armed' \cap (Reported' \cup InPool' \cup refused') \subseteq strayed'
        /\ Reported' \cap (InPool' \cup refused') \subseteq strayed'
        /\ InPool' \cap refused' \subseteq strayed'
    BY <1>1, <1>2, <1>3, <1>5, <2>1 DEF OneOwner
  <2>. QED
    BY <1>1, <1>2, <2>2, <2>3, <2>4 DEF OneOwner
<1>9. ResponseAwaited'
  <2>1. fd \in strayed \/ \A e \in events : e.fd # fd
    BY <1>2, <1>3, ReactorAssumption DEF Reported
  <2>. HIDE DEF fd
  <2>2. ASSUME NEW x \in inUse \ strayed, x # fd
        PROVE  /\ interest'[x] = interest[x] /\ response'[x] = response[x]
               /\ x \in InPool' \cup refused' => x \in InPool \cup refused
    BY <1>2, <1>4, <1>5, <2>2 DEF TypeOK
  <2>3. fd \in inUse \ strayed => fd \notin InPool' \cup refused'
    BY <1>2, <1>3
  <2>. QED
    <3>1. ASSUME NEW x \in inUse \ strayed, x # fd
          PROVE  /\ interest'[x] = "out" \/ [fd |-> x, kind |-> "out"] \in events'
                      => response'[x] # "none"
                 /\ interest'[x] = "in" \/ [fd |-> x, kind |-> "in"] \in events'
                    \/ x \in InPool' \cup refused'
                      => response'[x] = "none"
      BY <1>1, <2>2, <3>1 DEF ResponseAwaited
    <3>2. ASSUME fd \in inUse \ strayed
          PROVE  /\ interest'[fd] = "out" \/ [fd |-> fd, kind |-> "out"] \in events'
                      => response'[fd] # "none"
                 /\ interest'[fd] = "in" \/ [fd |-> fd, kind |-> "in"] \in events'
                    \/ fd \in InPool' \cup refused'
                      => response'[fd] = "none"
      BY <1>1, <1>4, <1>5, <2>1, <2>3, <3>2
    <3>. QED
      BY <1>1, <3>1, <3>2 DEF ResponseAwaited
<1>10. CountsConnections'
  BY <1>1 DEF CountsConnections
<1>. QED
  BY <1>7, <1>8, <1>9, <1>10

(* A worker that begins to wait keeps its connection; if its child goes    *)
(* astray, what the child has in hand is excepted from then on.            *)
LEMMA ForkStep ==
  ASSUME IInv, NEW w \in Workers, ProcessWaits(w) \/ ProcessStrays(w)
  PROVE  IInv'
<1>. USE DEF IInv
<1>1. /\ running[w] # NoRequest /\ running[w] \in Fds
      /\ waiting' = waiting \cup {w}
      /\ UNCHANGED <<kernel, client, interest, events, inUse, m_read_idx, m_user_count, pool>>
  BY DEF ProcessWaits, ProcessStrays, Forks, conns, TypeOK
<1>2. /\ strayed \subseteq strayed' /\ strayed' \subseteq Fds
      /\ strays' \subseteq strayed' \cap inUse
      /\ response' \in [Fds -> {"none", "keep", "close"}]
      /\ \A x \in Fds \ strayed' : response'[x] = response[x]
  <2>1. CASE ProcessWaits(w)
    BY <2>1 DEF ProcessWaits, TypeOK, conns
  <2>2. CASE ProcessStrays(w)
    <3>1. PICK n \in 0 .. Len(m_workqueue) :
            LET inHand == {running[w]} \cup {m_workqueue[i] : i \in 1 .. n} IN
              /\ strays' = strays \cup (inHand \cap inUse)
              /\ strayed' = strayed \cup inHand
      BY <2>2 DEF ProcessStrays
    <3>2. \A i \in 1 .. n : m_workqueue[i] \in Fds
      BY DEF TypeOK
    <3>3. /\ response' \in [Fds -> {"none", "keep", "close"}]
          /\ \A x \in Fds \ {running[w]} : response'[x] = response[x]
      BY <1>1, <2>2 DEF ProcessStrays, TypeOK
    <3>. QED
      BY <1>1, <3>1, <3>2, <3>3 DEF TypeOK
  <2>. QED
    BY <2>1, <2>2
<1>3. UNCHANGED <<InPool, Pool!Pending, Pool!Running, refused, Armed, Reported>>
  BY <1>1 DEF InPool, Pool!Pending, Pool!Running, Armed, Reported, pool
<1>4. TypeOK'
  BY <1>1, <1>2 DEF TypeOK, kernel, client, pool
<1>5. OneOwner'
  <2>1. Pool!OnePlaceBut(strayed)'
    BY <1>1, <1>2, <1>3 DEF OneOwner, Pool!OnePlaceBut, pool
  <2>. QED
    BY <1>1, <1>2, <1>3, <2>1 DEF OneOwner
<1>6. ResponseAwaited'
  BY <1>1, <1>2, <1>3 DEF ResponseAwaited, TypeOK
<1>7. CountsConnections'
  BY <1>1 DEF CountsConnections
<1>. QED
  BY <1>4, <1>5, <1>6, <1>7

(* A child astray arms only what is excepted and open.                     *)
LEMMA StrayStep ==
  ASSUME IInv, NEW fd \in Fds, StrayArms(fd)
  PROVE  IInv'
<1>. USE DEF IInv
<1>1. /\ fd \in strays /\ strays' = strays \ {fd}
      /\ UNCHANGED <<kernel, client, events, conns, pool, waiting, strayed>>
  BY DEF StrayArms
<1>2. PICK ev \in {"in", "out"} : Arm(fd, ev)
  BY DEF StrayArms
<1>3. fd \in strayed /\ fd \in inUse
  BY <1>1 DEF TypeOK
<1>4. /\ Armed' = Armed \cup {fd}
      /\ interest' \in [Fds -> {"none", "in", "out"}]
      /\ \A x \in Fds \ {fd} : interest'[x] = interest[x]
  BY <1>2, ArmGivesToEpoll
<1>5. UNCHANGED <<InPool, Pool!Pending, Pool!Running, Reported>>
  BY <1>1 DEF InPool, Pool!Pending, Pool!Running, Reported, pool
<1>6. TypeOK'
  BY <1>1, <1>4 DEF TypeOK, kernel, client, conns, pool
<1>7. OneOwner'
  <2>1. Pool!OnePlaceBut(strayed)'
    BY <1>1, <1>5 DEF OneOwner, Pool!OnePlaceBut, pool
  <2>. QED
    BY <1>1, <1>3, <1>4, <1>5, <2>1 DEF OneOwner, conns, pool
<1>8. ResponseAwaited'
  BY <1>1, <1>3, <1>4, <1>5 DEF ResponseAwaited, TypeOK, conns, pool
<1>9. CountsConnections'
  BY <1>1 DEF CountsConnections, conns
<1>. QED
  BY <1>6, <1>7, <1>8, <1>9

LEMMA ClientStep ==
  ASSUME IInv, Client
  PROVE  IInv'
<1>. USE DEF IInv
<1>1. UNCHANGED <<interest, events, conns, pool, procs>>
  BY DEF Client, Connect, Send, HangUp, Drain
<1>2. UNCHANGED <<InPool, Pool!Pending, Pool!Running, Armed, Reported>>
  BY <1>1 DEF InPool, Pool!Pending, Pool!Running, Armed, Reported, pool
<1>3. TypeOK'
  <2>1. CASE Connect
    BY <1>1, <2>1, ReactorAssumption DEF TypeOK, Connect, client, conns, pool, procs
  <2>2. ASSUME NEW fd \in Fds, Send(fd) PROVE TypeOK'
    BY <1>1, <2>2, ReactorAssumption DEF TypeOK, Send, kernel, conns, pool, procs
  <2>3. ASSUME NEW fd \in Fds, HangUp(fd) \/ Drain(fd) PROVE TypeOK'
    BY <1>1, <2>3 DEF TypeOK, HangUp, Drain, kernel, conns, pool, procs
  <2>. QED
    BY <2>1, <2>2, <2>3 DEF Client
<1>4. OneOwner'
  BY <1>1, <1>2 DEF OneOwner, Pool!OnePlaceBut, conns, pool, procs
<1>5. ResponseAwaited' /\ CountsConnections'
  BY <1>1, <1>2 DEF ResponseAwaited, CountsConnections, conns, pool, procs
<1>. QED
  BY <1>3, <1>4, <1>5

-------------------------------------------------------------------------------
(* The invariants                                                          *)

LEMMA IInvStep == IInv /\ [Next]_vars => IInv'
<1>. SUFFICES ASSUME IInv, [Next]_vars PROVE IInv'
  OBVIOUS
<1>1. CASE EpollWait
  BY <1>1, EpollWaitStep
<1>2. CASE HandleListen
  BY <1>2, HandleListenStep
<1>3. ASSUME NEW fd \in Fds, HandleHangup(fd) PROVE IInv'
  BY <1>3, CloseStep DEF HandleHangup
<1>4. ASSUME NEW fd \in Fds, HandleRead(fd) PROVE IInv'
  BY <1>4, HandleReadStep
<1>5. ASSUME NEW fd \in Fds, WriteDone(fd) \/ WriteAgain(fd) \/ WriteFailed(fd)
      PROVE  IInv'
  BY <1>5, WriteStep
<1>6. ASSUME NEW w \in Workers, Work(w) PROVE IInv'
  BY <1>6, TakeRequestStep, ProcessStep, ForkStep DEF Work
<1>7. CASE Client
  BY <1>7, ClientStep
<1>8. CASE UNCHANGED vars
  <2>. USE <1>8 DEF vars, kernel, client, conns, pool, procs
  <2>1. TypeOK'
    BY DEF IInv, TypeOK
  <2>2. UNCHANGED <<Armed, Reported, InPool, Pool!Pending, Pool!Running>>
    BY DEF Armed, Reported, InPool, Pool!Pending, Pool!Running
  <2>3. OneOwner' /\ ResponseAwaited' /\ CountsConnections'
    BY <2>2 DEF IInv, OneOwner, Pool!OnePlaceBut, ResponseAwaited, CountsConnections
  <2>. QED
    BY <2>1, <2>3 DEF IInv
<1>9. ASSUME NEW w \in Workers, ProcessReaps(w) PROVE IInv'
  BY <1>9, ProcessStep
<1>10. ASSUME NEW fd \in Fds, StrayArms(fd) PROVE IInv'
  BY <1>10, StrayStep
<1>. QED
  BY <1>1, <1>2, <1>3, <1>4, <1>5, <1>6, <1>7, <1>8, <1>9, <1>10
     DEF Next, Main, HandleEvent

THEOREM Invariance == Safety => []IInv
BY InitIInv, IInvStep, PTL DEF Safety

(* Whatever the clients do and however the threads interleave, the fields  *)
(* of epoll, of the connections and of the pool keep their types; in       *)
(* particular m_read_idx stays within the buffer, which a read may just    *)
(* fill, and a child astray holds no connection that was closed.           *)
THEOREM TypeCorrect == Safety => []TypeOK
BY Invariance, PTL DEF IInv

(* A connection is never used by two threads, nor lost between them, but   *)
(* for those a child whose execl() failed has armed.                       *)
THEOREM OwnersUnique == Safety => []OneOwner
BY Invariance, PTL DEF IInv

(* No request is read or processed over a pending response, and write() is *)
(* called only with a response to write; with the same exception.          *)
THEOREM ResponsesAwaited == Safety => []ResponseAwaited
BY Invariance, PTL DEF IInv

(* m_user_count is exact, and bounded by MAX_FD.                           *)
THEOREM CountCorrect == Safety => []CountsConnections
BY Invariance, PTL DEF IInv

-------------------------------------------------------------------------------
(* The contract of the pool                                                *)

(* What a step of Reactor may do to the pool: what TaskPool allows, and to *)
(* append a connection that a child astray has armed.                      *)
PoolStep ==
  \/ Pool!Next
  \/ \E fd \in strayed : Pool!Submit(fd) \/ Pool!Refuse(fd)

LEMMA StepUsesPool == IInv /\ [Next]_vars => [PoolStep]_pool
<1>. SUFFICES ASSUME IInv, [Next]_vars PROVE [PoolStep]_pool
  OBVIOUS
<1>. USE DEF IInv
<1>1. ASSUME NEW fd \in Fds, HandleRead(fd) PROVE PoolStep \/ UNCHANGED pool
  <2>1. fd \in Reported
    BY <1>1, HandlingReleases DEF HandleRead
  <2>2. fd \in strayed \/ Pool!AtRest(fd)
    BY <2>1 DEF OneOwner, InPool, Pool!AtRest
  <2>3. UNCHANGED pool \/ Pool!Submit(fd) \/ Pool!Refuse(fd)
    BY <1>1 DEF HandleRead
  <2>. QED
    BY <2>2, <2>3 DEF Pool!Next, PoolStep
<1>2. ASSUME NEW w \in Workers, Work(w) \/ ProcessReaps(w)
      PROVE  PoolStep \/ UNCHANGED pool
  BY <1>2 DEF Work, TakeRequest, ProcessIncomplete, ProcessRespond, Respond,
              ProcessWaits, ProcessStrays, ProcessReaps, Pool!Next, PoolStep
<1>3. ASSUME EpollWait \/ HandleListen \/ Client \/ UNCHANGED vars
      PROVE  UNCHANGED pool
  BY <1>3 DEF EpollWait, HandleListen, Client, Connect, Send, HangUp, Drain, vars
<1>4. ASSUME NEW fd \in Fds,
             \/ HandleHangup(fd) \/ WriteDone(fd) \/ WriteAgain(fd) \/ WriteFailed(fd)
             \/ StrayArms(fd)
      PROVE  UNCHANGED pool
  BY <1>4 DEF HandleHangup, WriteDone, WriteAgain, WriteFailed, StrayArms
<1>. QED
  BY <1>1, <1>2, <1>3, <1>4 DEF Next, Main, HandleEvent

(* main() and process() use the pool as TaskPool asks: a connection is     *)
(* appended only while the pool does not have it, but for one that a child *)
(* astray has armed.  With ThreadPoolProofs' Refinement this is what lets  *)
(* the pool be used without a lock on http_conn.                           *)
THEOREM PoolContract == Safety => UsesPool
<1>1. Init => Pool!Init
  BY DEF Init
<1>2. PoolStep <=> \/ Pool!Next
                   \/ \E fd \in strayed : Pool!Submit(fd) \/ Pool!Refuse(fd)
  BY DEF PoolStep
<1>3. IInv /\ [Next]_vars =>
        [\/ Pool!Next
         \/ \E fd \in strayed : Pool!Submit(fd) \/ Pool!Refuse(fd)]_pool
  BY StepUsesPool, <1>2
<1>. QED
  BY <1>1, <1>3, Invariance, PTL DEF Safety, UsesPool
===============================================================================

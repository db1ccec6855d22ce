-------------------------------- MODULE Reactor --------------------------------
(***************************************************************************)
(* The life of the connections of the server: the event loop of main()     *)
(* (webServer-v2.cpp) on the main thread, process() on the workers of the  *)
(* pool, and between them epoll, which hands a connection from one to the  *)
(* other by arming its descriptor with EPOLLONESHOT.                       *)
(*                                                                         *)
(* A handler of the event loop runs on one thread and touches one          *)
(* connection, so it is one step; so is process(), of which all that       *)
(* matters here is whether it answers, and whether it stays in wait() for  *)
(* a CGI program.  What is in the requests is the business of HttpParser;  *)
(* here they are units of data.  The pool is TaskPool, which ThreadPool    *)
(* implements.                                                             *)
(*                                                                         *)
(* A child process whose execl() fails returns from postRespond() and      *)
(* process() and goes on as a second server: it arms connections in the    *)
(* epoll instance it shares with the first one.  strayed marks the         *)
(* connections to which this happened; the properties are about the others.*)
(*                                                                         *)
(* WithoutOneShot, NoReset, CloseConnUncounted, WriteDoneWithoutModfd and  *)
(* WriteAgainWithoutModfd are no part of the specification: each is the    *)
(* definition after it with a likely fault, against which a property was   *)
(* tried.                                                                  *)
(***************************************************************************)
EXTENDS Naturals, Sequences, FiniteSets

CONSTANTS
  Fds,              (* descriptors accept() can return                     *)
  ListenFd,         (* listenfd                                            *)
  Workers,          (* the threads of the pool                             *)
  NoRequest,        (* a worker that runs nothing                          *)
  MaxRequests,      (* m_max_requests                                      *)
  MAX_FD,           (* limit on m_user_count                               *)
  READ_BUFFER_SIZE, (* size of m_read_buf, in units of data                *)
  MaxBacklog,       (* connections the kernel keeps for accept()           *)
  MaxUnread,        (* bound: units a client sends before they are read    *)
  MaxHeld           (* bound: workers held at a time by programs that do   *)
                    (* not end or start                                    *)

ASSUME ReactorAssumption ==
  /\ IsFiniteSet(Fds)
  /\ ListenFd \notin Fds
  /\ NoRequest \notin Fds
  /\ MaxRequests \in Nat \ {0}
  /\ MAX_FD \in Nat \ {0}
  /\ READ_BUFFER_SIZE \in Nat \ {0}
  /\ MaxBacklog \in Nat \ {0}
  /\ MaxUnread \in Nat \ {0}
  /\ MaxHeld \in Nat

VARIABLES
  (* The kernel and the clients.                                           *)
  backlog,      (* connections waiting for accept()                        *)
  listenEdge,   (* one of them arrived since epoll last reported listenfd  *)
  hungUp,       (* connections whose client shut down or reset its end     *)
  recvq,        (* units received and not yet read, per connection         *)
  blocked,      (* connections whose send buffer is full                   *)
  interest,     (* what epoll is armed for, per descriptor                 *)
  (* The main thread.                                                      *)
  events,       (* what epoll_wait returned and is not yet handled         *)
  m_user_count,
  (* The http_conn objects users[fd].                                      *)
  inUse,        (* those whose m_sockfd is not -1                          *)
  m_read_idx,
  response,     (* what process_write() prepared: nothing (m_write_idx =   *)
                (* 0), or an answer after which the connection is kept     *)
                (* (m_linger) or closed                                    *)
  (* The pool.                                                             *)
  m_workqueue, running, refused,
  (* postRespond() and the processes it forks.                             *)
  waiting,      (* workers in wait(), which no child of theirs will end    *)
  strays,       (* connections that a child astray has not yet armed       *)
  strayed       (* history: connections that one armed, or may             *)

kernel == <<backlog, listenEdge>>
client == <<hungUp, recvq, blocked>>
conns  == <<inUse, m_read_idx, response, m_user_count>>
pool   == <<m_workqueue, running, refused>>
procs  == <<waiting, strays, strayed>>
vars   == <<kernel, client, interest, events, conns, pool, procs>>

Pool == INSTANCE TaskPool WITH Requests <- Fds, pending <- m_workqueue

Armed    == {fd \in Fds : interest[fd] # "none"}
Reported == {e.fd : e \in events} \ {ListenFd}
InPool   == Pool!Pending \cup Pool!Running

Event == [fd : Fds \cup {ListenFd}, kind : {"in", "out", "hup"}]

-------------------------------------------------------------------------------
(* epoll                                                                   *)

(* addfd(fd, true) and modfd(fd, ev): every arming is edge-triggered and   *)
(* one-shot.  epoll checks readiness when it is armed, so an armed         *)
(* descriptor that is ready is always reported.                            *)
Arm(fd, ev) == interest' = [interest EXCEPT ![fd] = ev]

(* EPOLLRDHUP, EPOLLHUP or EPOLLERR goes with every arming.                *)
Ready(fd) ==
  \/ interest[fd] # "none" /\ fd \in hungUp
  \/ interest[fd] = "in"   /\ recvq[fd] > 0
  \/ interest[fd] = "out"  /\ fd \notin blocked

ReadyFds == {fd \in Fds : Ready(fd)}

(* The branch of the event loop an event takes: hang-up comes first.       *)
Kind(fd) == IF fd \in hungUp THEN "hup" ELSE interest[fd]

(* EPOLLONESHOT: what is reported is disarmed.                             *)
WithoutOneShot == interest
AfterReport ==
  [fd \in Fds |-> IF fd \in ReadyFds THEN "none" ELSE interest[fd]]

(* epoll_wait.  listenfd is edge-triggered and not one-shot: one event     *)
(* stands for all the connections that arrived since the last one.         *)
EpollWait ==
  /\ events = {}
  /\ listenEdge \/ ReadyFds # {}
  /\ events' = {[fd |-> fd, kind |-> Kind(fd)] : fd \in ReadyFds} \cup
               {e \in {[fd |-> ListenFd, kind |-> "in"]} : listenEdge}
  /\ interest' = AfterReport
  /\ listenEdge' = FALSE
  /\ UNCHANGED <<backlog, client, conns, pool, procs>>

(* The loop goes on to the next event of the batch.                        *)
Handling(fd, kind) ==
  /\ [fd |-> fd, kind |-> kind] \in events
  /\ events' = events \ {[fd |-> fd, kind |-> kind]}

-------------------------------------------------------------------------------
(* http_conn                                                               *)

(* init() without arguments: forget the request and the response.          *)
NoReset(fd) == UNCHANGED <<m_read_idx, response>>
ResetConn(fd) ==
  /\ m_read_idx' = [m_read_idx EXCEPT ![fd] = 0]
  /\ response' = [response EXCEPT ![fd] = "none"]

(* close_conn(): removefd() and close(), which take the connection away    *)
(* from epoll and from the client; accept() may return fd again.  A child  *)
(* astray cannot arm it any more; once no worker has it either, nothing is *)
(* left of it.                                                             *)
ForgetStray(fd) ==
  /\ strays' = strays \ {fd}
  /\ strayed' = strayed \ ({fd} \ (InPool \cup refused))
  /\ UNCHANGED waiting
CloseConnUncounted(fd) ==
  /\ inUse' = inUse \ {fd}
  /\ interest' = [interest EXCEPT ![fd] = "none"]
  /\ hungUp' = hungUp \ {fd}
  /\ recvq' = [recvq EXCEPT ![fd] = 0]
  /\ blocked' = blocked \ {fd}
  /\ ForgetStray(fd)
  /\ UNCHANGED <<m_user_count, m_read_idx, response>>
CloseConn(fd) ==
  /\ inUse' = inUse \ {fd}
  /\ m_user_count' = m_user_count - 1
  /\ interest' = [interest EXCEPT ![fd] = "none"]
  /\ hungUp' = hungUp \ {fd}
  /\ recvq' = [recvq EXCEPT ![fd] = 0]
  /\ blocked' = blocked \ {fd}
  /\ ForgetStray(fd)
  /\ UNCHANGED <<m_read_idx, response>>

(* init(sockfd, addr): register with epoll, count, reset.                  *)
InitConn(fd) ==
  /\ inUse' = inUse \cup {fd}
  /\ m_user_count' = m_user_count + 1
  /\ Arm(fd, "in")
  /\ ResetConn(fd)

(* read() returns true when recv() finds nothing more to read.  With the   *)
(* buffer just full it asks for 0 bytes: EAGAIN if nothing is left, but 0, *)
(* which read() takes for end of file, if something is.  A buffer that is  *)
(* full from the start is refused.                                         *)
ReadSucceeds(fd) ==
  /\ fd \notin hungUp
  /\ m_read_idx[fd] < READ_BUFFER_SIZE
  /\ m_read_idx[fd] + recvq[fd] <= READ_BUFFER_SIZE

-------------------------------------------------------------------------------
(* The branches of the event loop                                          *)

(* listenfd: one accept() per event.  It fails when no connection waits or *)
(* no descriptor is left; over MAX_FD users, show_error() closes the new   *)
(* connection.                                                             *)
HandleListen ==
  /\ Handling(ListenFd, "in")
  /\ IF backlog = 0 \/ inUse = Fds
     THEN UNCHANGED <<backlog, interest, conns>>
     ELSE /\ backlog' = backlog - 1
          /\ IF m_user_count >= MAX_FD
             THEN UNCHANGED <<interest, conns>>
             ELSE \E fd \in Fds \ inUse : InitConn(fd)
  /\ UNCHANGED <<listenEdge, client, pool, procs>>

HandleHangup(fd) ==
  /\ Handling(fd, "hup")
  /\ CloseConn(fd)
  /\ UNCHANGED <<kernel, pool>>

(* read(), then append() or close_conn().  What append() returns is not    *)
(* looked at: a refused connection stays as it is, disarmed.               *)
HandleRead(fd) ==
  /\ Handling(fd, "in")
  /\ IF ReadSucceeds(fd)
     THEN /\ m_read_idx' = [m_read_idx EXCEPT ![fd] = @ + recvq[fd]]
          /\ recvq' = [recvq EXCEPT ![fd] = 0]
          /\ Pool!Submit(fd) \/ Pool!Refuse(fd)
          /\ UNCHANGED <<interest, hungUp, blocked, inUse, response, m_user_count, procs>>
     ELSE CloseConn(fd) /\ UNCHANGED pool
  /\ UNCHANGED kernel

(* write(), whose writev() takes enough of the response to count as done   *)
(* (and may fill the send buffer): back to waiting for a request, with     *)
(* nothing to write as well, or on to close_conn().                        *)
WriteDoneWithoutModfd(fd) ==
  /\ Handling(fd, "out")
  /\ IF response[fd] = "close"
     THEN CloseConn(fd)
     ELSE /\ ResetConn(fd)
          /\ blocked' \in {blocked, blocked \cup {fd}}
          /\ UNCHANGED <<hungUp, recvq, interest, inUse, m_user_count, procs>>
  /\ UNCHANGED <<kernel, pool>>
WriteDone(fd) ==
  /\ Handling(fd, "out")
  /\ IF response[fd] = "close"
     THEN CloseConn(fd)
     ELSE /\ ResetConn(fd)
          /\ Arm(fd, "in")
          /\ blocked' \in {blocked, blocked \cup {fd}}
          /\ UNCHANGED <<hungUp, recvq, inUse, m_user_count, procs>>
  /\ UNCHANGED <<kernel, pool>>

(* write(), whose writev() could not send enough before EAGAIN.            *)
WriteAgainWithoutModfd(fd) ==
  /\ response[fd] # "none"
  /\ Handling(fd, "out")
  /\ blocked' = blocked \cup {fd}
  /\ UNCHANGED <<kernel, hungUp, recvq, interest, conns, pool, procs>>
WriteAgain(fd) ==
  /\ response[fd] # "none"
  /\ Handling(fd, "out")
  /\ Arm(fd, "out")
  /\ blocked' = blocked \cup {fd}
  /\ UNCHANGED <<kernel, hungUp, recvq, conns, pool, procs>>

(* write(), whose writev() failed: the client reset the connection.        *)
WriteFailed(fd) ==
  /\ response[fd] # "none"
  /\ fd \in hungUp
  /\ Handling(fd, "out")
  /\ CloseConn(fd)
  /\ UNCHANGED <<kernel, pool>>

HandleEvent ==
  \/ HandleListen
  \/ \E fd \in Fds :
       \/ HandleHangup(fd) \/ HandleRead(fd)
       \/ WriteDone(fd) \/ WriteAgain(fd) \/ WriteFailed(fd)

-------------------------------------------------------------------------------
(* The workers: run() takes a connection, process() re-arms it.            *)

TakeRequest(w) ==
  /\ Pool!Take(w)
  /\ UNCHANGED <<kernel, client, interest, events, conns, procs>>

(* modfd() in process(), for a connection that is still open.              *)
Rearm(fd, ev) == interest' = [interest EXCEPT ![fd] = IF fd \in inUse THEN ev ELSE @]

(* process_read() returned NO_REQUEST: wait for the rest.  (There may be   *)
(* none: see HttpParser on malformed lines and bodies that come in pieces.)*)
ProcessIncomplete(w) ==
  /\ w \notin waiting
  /\ Pool!Finish(w)
  /\ Rearm(running[w], "in")
  /\ UNCHANGED <<kernel, client, events, conns, procs>>

(* process_write() prepared a response.  It always returns true: every     *)
(* answer fits m_write_buf, so the close_conn() of process() never runs.   *)
Respond(w) ==
  /\ Pool!Finish(w)
  /\ \E kind \in {"keep", "close"} :
       response' = [response EXCEPT ![running[w]] = kind]
  /\ Rearm(running[w], "out")
  /\ UNCHANGED <<kernel, client, events, inUse, m_read_idx, m_user_count, strays, strayed>>
ProcessRespond(w) ==
  /\ w \notin waiting
  /\ Respond(w)
  /\ m_read_idx[running[w]] > 0
  /\ UNCHANGED waiting

(* postRespond() forked a program that does not end: wait() goes on.       *)
Forks(w) ==
  /\ running[w] # NoRequest /\ w \notin waiting
  /\ Cardinality(waiting) < MaxHeld
  /\ m_read_idx[running[w]] > 0
ProcessWaits(w) ==
  /\ Forks(w)
  /\ waiting' = waiting \cup {w}
  /\ UNCHANGED <<kernel, client, interest, events, conns, pool, strays, strayed>>

(* postRespond() forked a program that does not start.  What the child has *)
(* in hand are its copies of this connection and of the first ones in the  *)
(* queue; the worker waits for it.  (The answer to a GET of an empty file  *)
(* is there before the fork: http_conn.cpp:740-748.)  Bound: one child at  *)
(* a time is yet to arm a connection.                                      *)
ProcessStrays(w) ==
  /\ Forks(w) /\ running[w] \notin strays
  /\ waiting' = waiting \cup {w}
  /\ \E n \in 0 .. Len(m_workqueue) :
       LET inHand == {running[w]} \cup {m_workqueue[i] : i \in 1 .. n} IN
       /\ strays' = strays \cup (inHand \cap inUse)
       /\ strayed' = strayed \cup inHand
  /\ \E kind \in {"none", "keep", "close"} :
       response' = [response EXCEPT ![running[w]] = kind]
  /\ UNCHANGED <<kernel, client, interest, events, inUse, m_read_idx, m_user_count, pool>>

(* wait() takes any child: w is let go by the end of the child of another  *)
(* worker, which waits on in its place.                                    *)
ProcessReaps(w) ==
  /\ w \in waiting
  /\ Respond(w)
  /\ \E v \in Workers \ waiting :
       /\ running[v] # NoRequest
       /\ waiting' = (waiting \ {w}) \cup {v}

(* The child's process() arms the connection, if it is open still.         *)
StrayArms(fd) ==
  /\ fd \in strays
  /\ strays' = strays \ {fd}
  /\ \E ev \in {"in", "out"} : Arm(fd, ev)
  /\ UNCHANGED <<kernel, client, events, conns, pool, waiting, strayed>>

Work(w) == \/ TakeRequest(w) \/ ProcessIncomplete(w) \/ ProcessRespond(w)
           \/ ProcessWaits(w) \/ ProcessStrays(w)

-------------------------------------------------------------------------------
(* The clients                                                             *)

Connect ==
  /\ backlog < MaxBacklog
  /\ backlog' = backlog + 1
  /\ listenEdge' = TRUE
  /\ UNCHANGED <<client, interest, events, conns, pool, procs>>

Send(fd) ==
  /\ fd \in inUse \ hungUp
  /\ recvq[fd] < MaxUnread
  /\ recvq' = [recvq EXCEPT ![fd] = @ + 1]
  /\ UNCHANGED <<kernel, hungUp, blocked, interest, events, conns, pool, procs>>

(* The client shuts down its sending side, or resets the connection.       *)
HangUp(fd) ==
  /\ fd \in inUse \ hungUp
  /\ hungUp' = hungUp \cup {fd}
  /\ UNCHANGED <<kernel, recvq, blocked, interest, events, conns, pool, procs>>

(* The client reads what fills the send buffer.                            *)
Drain(fd) ==
  /\ fd \in blocked
  /\ blocked' = blocked \ {fd}
  /\ UNCHANGED <<kernel, hungUp, recvq, interest, events, conns, pool, procs>>

Client == Connect \/ \E fd \in Fds : Send(fd) \/ HangUp(fd) \/ Drain(fd)

-------------------------------------------------------------------------------
Init ==
  /\ backlog = 0
  /\ listenEdge = FALSE
  /\ hungUp = {}
  /\ recvq = [fd \in Fds |-> 0]
  /\ blocked = {}
  /\ interest = [fd \in Fds |-> "none"]
  /\ events = {}
  /\ inUse = {}
  /\ m_user_count = 0
  /\ m_read_idx = [fd \in Fds |-> 0]
  /\ response = [fd \in Fds |-> "none"]
  /\ Pool!Init
  /\ waiting = {} /\ strays = {} /\ strayed = {}

Main == EpollWait \/ HandleEvent

Next ==
  \/ Main
  \/ \E w \in Workers : Work(w) \/ ProcessReaps(w)
  \/ \E fd \in Fds : StrayArms(fd)
  \/ Client

(***************************************************************************)
(* The main thread and the workers keep running.  A client that has a      *)
(* response to read reads it, and the kernel does not answer EAGAIN        *)
(* forever on a connection whose client reads.  Clients need not connect,  *)
(* send or hang up.                                                        *)
(***************************************************************************)
Fairness ==
  /\ WF_vars(Main)
  /\ \A w \in Workers : WF_vars(Work(w))
  /\ \A fd \in Fds : WF_vars(Drain(fd)) /\ SF_vars(WriteDone(fd))

Safety == Init /\ [][Next]_vars

Spec == Safety /\ Fairness

-------------------------------------------------------------------------------
(* Properties                                                              *)

TypeOK ==
  /\ backlog \in 0 .. MaxBacklog
  /\ listenEdge \in BOOLEAN
  /\ hungUp \subseteq inUse
  /\ recvq \in [Fds -> 0 .. MaxUnread]
  /\ blocked \subseteq inUse
  /\ interest \in [Fds -> {"none", "in", "out"}]
  /\ events \subseteq Event
  /\ inUse \subseteq Fds
  /\ m_user_count \in Nat
  /\ m_read_idx \in [Fds -> 0 .. READ_BUFFER_SIZE]
  /\ response \in [Fds -> {"none", "keep", "close"}]
  /\ m_workqueue \in Seq(Fds)
  /\ running \in [Workers -> Fds \cup {NoRequest}]
  /\ refused \subseteq Fds
  /\ waiting \subseteq {w \in Workers : running[w] # NoRequest}
  /\ strays \subseteq strayed \cap inUse
  /\ strayed \subseteq Fds

(* Every connection is in exactly one hand: armed in epoll, reported to    *)
(* the main thread, in the pool (queued once or with one worker), or given *)
(* up after a refusal.  So no two threads use one http_conn at a time,     *)
(* although http_conn has no lock (webServer-v2.cpp:94-160), and no        *)
(* connection is dropped on the way from one hand to the next.  Only those *)
(* that a child astray has armed are excepted, until they are closed (or,  *)
(* if a worker has them then, until their descriptor is closed again), and *)
(* not the ones beside them.                                               *)
OneOwner ==
  /\ Armed \cup Reported \subseteq inUse
  /\ inUse \ strayed = (Armed \cup Reported \cup InPool \cup refused) \ strayed
  /\ Armed \cap (Reported \cup InPool \cup refused) \subseteq strayed
  /\ Reported \cap (InPool \cup refused) \subseteq strayed
  /\ InPool \cap refused \subseteq strayed
  /\ \A e1, e2 \in events : e1.fd = e2.fd => e1 = e2
  /\ Pool!OnePlaceBut(strayed)

(* A connection whose response is not yet written is waited on for output, *)
(* and every other one has no response: no request is read or processed on *)
(* top of a pending response, and write() never finds nothing to write     *)
(* (http_conn.cpp:578-588, 790-792), but on a connection that a child      *)
(* astray has armed.                                                       *)
ResponseAwaited ==
  \A fd \in inUse \ strayed :
    /\ interest[fd] = "out" \/ [fd |-> fd, kind |-> "out"] \in events
         => response[fd] # "none"
    /\ interest[fd] = "in" \/ [fd |-> fd, kind |-> "in"] \in events
       \/ fd \in InPool \cup refused
         => response[fd] = "none"

(* m_user_count, on which main() decides whether the server is busy, is    *)
(* the number of connections in use and never passes MAX_FD, although it   *)
(* has no lock and close_conn() can be reached twice (http_conn.cpp:72-80, *)
(* webServer-v2.cpp:117-121).                                              *)
CountsConnections ==
  m_user_count = Cardinality(inUse) /\ m_user_count <= MAX_FD

(* main() keeps its side of the pool's contract: it appends a connection   *)
(* only while the pool does not have it, and the pool runs process() once  *)
(* for each accepted append(); but for a connection that a child astray    *)
(* has armed, which may be in the pool already.                            *)
UsesPool ==
  /\ Pool!Init
  /\ [][\/ Pool!Next
        \/ \E fd \in strayed : Pool!Submit(fd) \/ Pool!Refuse(fd)]_pool

(* A response that was prepared is written, or its connection is closed;   *)
(* as long as no worker is held by a program that does not end or start.   *)
(* (Not every whole request gets a response: see HttpParser.)              *)
Answered ==
  \A fd \in Fds :
    fd \in inUse /\ response[fd] # "none"
      ~> fd \notin inUse \/ response[fd] = "none" \/ waiting # {}

(* What a client sends is read, or the connection is closed; unless        *)
(* append() refused an earlier part of it, or a worker is held.  No arming *)
(* of epoll is lost in the relay between the threads.                      *)
Heeded ==
  \A fd \in Fds : recvq[fd] > 0 ~> recvq[fd] = 0 \/ fd \in refused \/ waiting # {}

-------------------------------------------------------------------------------
(* Statements that do not hold                                             *)

(* A client that has connected gets an http_conn: no connection waits for  *)
(* accept() without an event that says so.  But there is one accept() for  *)
(* each event of an edge-triggered listenfd (webServer-v2.cpp:107-125).    *)
BacklogAnnounced ==
  backlog > 0 => listenEdge \/ [fd |-> ListenFd, kind |-> "in"] \in events

(* "The request data has been read: insert it into the request queue"      *)
(* (webServer-v2.cpp:138): every request that is read is queued.  But what *)
(* append() returns is not looked at (webServer-v2.cpp:140).               *)
ReadIsQueued == refused = {}

(* "Add the connection to epoll; only one thread can be triggered"         *)
(* (http_conn.cpp:94): the main thread never handles a connection that a   *)
(* worker has.  But a child whose execl() failed may have armed it.        *)
OneThread == Reported \cap Pool!Running = {}
===============================================================================

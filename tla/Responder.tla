------------------------------- MODULE Responder -------------------------------
(***************************************************************************)
(* How an answer is made and sent (http_conn.cpp): do_request() and        *)
(* process_write() on a worker, with a CGI child process and its SIGCHLD   *)
(* handler for a POST; then write() on the main thread.                    *)
(*                                                                         *)
(* The mapped file, the vector given to writev, the CGI's pipe and its     *)
(* page are globals: there is one of each for all connections and threads. *)
(* A step of a thread is a run of statements between two that touch these. *)
(* Contents are named by the request they answer.                          *)
(*                                                                         *)
(* writev either takes the response or nothing of it (EAGAIN); what it     *)
(* does with less is the business of ResponseWriter.                       *)
(*                                                                         *)
(* FillErrorKeepsVector, ForkOnOldPipe, WaitNoHang, InitKeepsLength,       *)
(* InitKeepsText, WriteAgainUnmaps and WriteFailedKeepsFile are no part of *)
(* the specification: each is the definition after it with a likely fault, *)
(* against which a property was tried.                                     *)
(***************************************************************************)
EXTENDS Naturals, FiniteSets, Sequences

CONSTANTS
  Workers, Main, (* the threads                                            *)
  Pids,          (* child processes at a time                              *)
  Conns,         (* connections                                            *)
  Files,         (* GET requests for a file                                *)
  Pages,         (* POST requests, each for a page made by a CGI program   *)
  Broken,        (* POST requests for a file that cannot be executed       *)
  Empty,         (* GET requests for a file of no length                   *)
  Missing,       (* a request that is answered with an error               *)
  Length,        (* length of the output of each CGI program               *)
  Parsed,        (* pages whose handler parses the output as JSON          *)
  None,          (* nothing                                                *)
  Mixed,         (* what is not the whole of one output                    *)
  JsonDataBuf,   (* sizeof(jsonDataBuf)                                    *)
  MaxOpen,       (* connections open at a time                             *)
  TimelySignal   (* the SIGCHLD of a child is handled after its handler is *)
                 (* set and before wait() returns                          *)

Requests == Files \cup Pages \cup Broken \cup Empty \cup {Missing}
Silent   == {p \in Pages : Length[p] = 0}
Threads  == Workers \cup {Main}

(* The outputs whose whole text no handler gets: recv() cuts them off; or  *)
(* they fill jsonDataBuf to its end, where json::parse() stops and         *)
(* strlen() does not.                                                      *)
TooLong == {p \in Pages : \/ Length[p] > JsonDataBuf
                          \/ Length[p] = JsonDataBuf /\ p \notin Parsed}

ASSUME ResponderAssumption ==
  /\ IsFiniteSet(Workers) /\ IsFiniteSet(Pids) /\ IsFiniteSet(Conns)
  /\ Conns # {}
  /\ Length \in [Pages -> Nat]
  /\ Parsed \subseteq Pages
  /\ Files \cap Pages = {} /\ Files \cap Broken = {} /\ Files \cap Empty = {}
  /\ Pages \cap Broken = {} /\ Pages \cap Empty = {} /\ Broken \cap Empty = {}
  /\ Missing \notin Files \cup Pages \cup Broken \cup Empty
  /\ {None, Mixed} \cap Requests = {}
  /\ None # Mixed
  /\ None \notin Pids \cup Conns \cup [pipe : Pids, page : Pages]
  /\ Main \notin Workers
  /\ MaxOpen \in Nat \ {0} /\ JsonDataBuf \in Nat \ {0}
  /\ TimelySignal \in BOOLEAN

VARIABLES
  (* Of each worker.                                                       *)
  pc,                     (* where it is in process(); "idle": not in it   *)
  at,                     (* the http_conn it works on                     *)
  (* Of each connection.                                                   *)
  arm,                    (* "closed", or what epoll watches for: "in",    *)
                          (* "out", or "off" (EPOLLONESHOT)                *)
  req,                    (* the request, as parsed; None when fork() has  *)
                          (* failed, and no answer is owed to it           *)
  header,                 (* m_write_buf: the lengths it announces         *)
  received,               (* history: the response to it that the client got *)
  (* The globals.                                                          *)
  m_file_stat,            (* the file that stat() was last asked for       *)
  m_file_address,         (* the file that is mapped; the name of an empty *)
                          (* file stands for MAP_FAILED                    *)
  m_iv,                   (* whose header, which body                      *)
  cgiPipe,                (* the child that writes to it                   *)
  jsonDataBuf,            (* what was received from the pipe               *)
  m_dynamic_page_address, (* the page made of it                           *)
  m_dynamic_page_len,     (* the page whose length it is; None when 0      *)
  abandoned,              (* history: the mapped file's client hung up     *)
  (* Processes and signals.                                                *)
  child,                  (* of each process: its request and connection    *)
  output,                 (* what the pipes hold                            *)
  handler,                (* the page whose handler signal() has set       *)
  sigchld,                (* SIGCHLD is pending                            *)
  inHandler,              (* of each thread: the pipe and the handler with *)
                          (* which it waits in recv()                      *)
  up                      (* the server has not been terminated            *)

thread == <<pc, at>>
conn   == <<arm, req, header, received>>
file   == <<m_file_stat, m_file_address, abandoned>>
page   == <<jsonDataBuf, m_dynamic_page_address, m_dynamic_page_len>>
procs  == <<cgiPipe, child, output>>
signals == <<handler, sigchld, inHandler, up>>
vars == <<thread, conn, file, m_iv, page, procs, signals>>

Open == {c \in Conns : arm[c] # "closed"}

(* While the server lives, a thread that is not in a handler goes on.      *)
Runs(t) == up /\ inHandler[t] = None

Goto(w, from, to) ==
  /\ Runs(w)
  /\ pc[w] = from
  /\ pc' = [pc EXCEPT ![w] = to]

(* modfd() does nothing for a connection that is closed.                   *)
Arm(c, events) ==
  arm' = [arm EXCEPT ![c] = IF @ = "closed" THEN @ ELSE events]
Fill(c, lengths) == header' = [header EXCEPT ![c] = @ \o lengths]

(* The end of process().                                                   *)
Leave(w) == Arm(at[w], "out") /\ at' = [at EXCEPT ![w] = None]

-------------------------------------------------------------------------------
(* The worker: do_request() and process_write()                            *)

NoResponse == [for |-> None, head |-> <<None>>, body |-> None]

(* do_request(): the request is parsed, and stat() tells what it is for.   *)
Stat(w, c, r) ==
  /\ arm[c] = "in"
  /\ Goto(w, "idle", CASE r \in Files \cup Empty -> "map"
                       [] r = Missing -> "error" [] OTHER -> "fork")
  /\ at' = [at EXCEPT ![w] = c]
  /\ arm' = [arm EXCEPT ![c] = "off"]
  /\ req' = [req EXCEPT ![c] = r]
  /\ received' = [received EXCEPT ![c] = NoResponse]
  /\ m_file_stat' = r
  /\ UNCHANGED <<header, m_file_address, abandoned, m_iv, page, procs, signals>>

(* An error page is part of m_write_buf; the vector has one part.          *)
FillErrorKeepsVector(w) ==
  /\ Goto(w, "error", "idle")
  /\ Fill(at[w], <<req[at[w]]>>)
  /\ Leave(w)
  /\ m_iv' = [m_iv EXCEPT !.head = at[w]]
  /\ UNCHANGED <<req, received, file, page, procs, signals>>
FillError(w) ==
  /\ Goto(w, "error", "idle")
  /\ Fill(at[w], <<req[at[w]]>>)
  /\ Leave(w)
  /\ m_iv' = [head |-> at[w], body |-> None]
  /\ UNCHANGED <<req, received, file, page, procs, signals>>

(* mmap() of the length in m_file_stat, which fails if that is 0.          *)
Mmap(w) ==
  /\ Goto(w, "map", "file")
  /\ m_file_address' = IF m_file_stat \in Empty THEN m_file_stat ELSE req[at[w]]
  /\ abandoned' = FALSE
  /\ UNCHANGED <<at, conn, m_file_stat, m_iv, page, procs, signals>>

(* FILE_REQUEST: the length of m_file_stat, the body at m_file_address.    *)
FillFile(w) ==
  /\ Goto(w, "file", "idle")
  /\ m_file_stat \notin Empty
  /\ Fill(at[w], <<m_file_stat>>)
  /\ Leave(w)
  /\ m_iv' = [head |-> at[w], body |-> m_file_address]
  /\ UNCHANGED <<req, received, file, page, procs, signals>>

(* A file of no length: a page in m_write_buf; then the code falls through *)
(* to POST_REQUEST, with the file as the program.                          *)
FillEmpty(w) ==
  /\ Goto(w, "file", "fork")
  /\ m_file_stat \in Empty
  /\ Fill(at[w], <<m_file_stat>>)
  /\ UNCHANGED <<at, arm, req, received, file, m_iv, page, procs, signals>>

(* postRespond(): a socketpair and a child; then the handler for the       *)
(* child's end, if the program is known; then wait() for any child, also   *)
(* after fork() has failed.                                                *)
NoProcess  == [state |-> "none", req |-> None, conn |-> None]
NewChild(c) == IF req[c] \in Pages
               THEN [state |-> "running", req |-> req[c], conn |-> None]
               ELSE [state |-> "stray", req |-> req[c], conn |-> c]
Free == {p \in Pids : child[p] = NoProcess /\ \A t \in Threads :
                        inHandler[t] # None => inHandler[t].pipe # p}
OldOutput(p) == {o \in output : o.pipe = p}

ForkOnOldPipe(w) ==
  /\ Goto(w, "fork", "signal")
  /\ \E p \in Free : /\ child' = [child EXCEPT ![p] = NewChild(at[w])]
                     /\ cgiPipe' = IF cgiPipe = None THEN p ELSE cgiPipe
                     /\ output' = output \ OldOutput(p)
  /\ UNCHANGED <<at, conn, file, m_iv, page, signals>>
Fork(w) ==
  /\ Goto(w, "fork", "signal")
  /\ \E p \in Free : /\ child' = [child EXCEPT ![p] = NewChild(at[w])]
                     /\ cgiPipe' = p
                     /\ output' = output \ OldOutput(p)
  /\ UNCHANGED <<at, conn, file, m_iv, page, signals>>

ForkFails(w) ==
  /\ Goto(w, "fork", "wait")
  /\ \E p \in Free : cgiPipe' = p /\ output' = output \ OldOutput(p)
  /\ req' = [req EXCEPT ![at[w]] = None]
  /\ UNCHANGED <<at, arm, header, received, file, m_iv, page, child, signals>>

SetHandler(w) ==
  /\ Goto(w, "signal", "wait")
  /\ handler' = IF req[at[w]] \in Pages THEN req[at[w]] ELSE handler
  /\ UNCHANGED <<at, conn, file, m_iv, page, procs, sigchld, inHandler, up>>

(* TimelySignal: the handlers are done, but for one that waits in vain.    *)
Handled == /\ ~sigchld
           /\ \A t \in Threads : inHandler[t] # None => inHandler[t].page \in Silent

(* wait() reaps a child that has ended, or fails when there is none.       *)
WaitNoHang(w) ==
  /\ Goto(w, "wait", "page")
  /\ TimelySignal => Handled
  /\ \/ \E p \in Pids : /\ child[p].state = "ended"
                        /\ child' = [child EXCEPT ![p] = NoProcess]
     \/ (\A p \in Pids : child[p].state # "ended") /\ UNCHANGED child
  /\ UNCHANGED <<at, conn, file, m_iv, page, cgiPipe, output, signals>>
Wait(w) ==
  /\ Goto(w, "wait", "page")
  /\ TimelySignal => Handled
  /\ \/ \E p \in Pids : /\ child[p].state = "ended"
                        /\ child' = [child EXCEPT ![p] = NoProcess]
     \/ (\A p \in Pids : child[p] = NoProcess) /\ UNCHANGED child
  /\ UNCHANGED <<at, conn, file, m_iv, page, cgiPipe, output, signals>>

(* POST_REQUEST: the length and the address of the dynamic page.           *)
FillPage(w) ==
  /\ Goto(w, "page", "idle")
  /\ Fill(at[w], <<m_dynamic_page_len>>)
  /\ Leave(w)
  /\ m_iv' = [head |-> at[w], body |-> IF m_dynamic_page_len = None THEN None
                                       ELSE m_dynamic_page_address]
  /\ UNCHANGED <<req, received, file, page, procs, signals>>

Work(w) ==
  \/ \E c \in Conns, r \in Requests : Stat(w, c, r)
  \/ FillError(w) \/ Mmap(w) \/ FillFile(w) \/ FillEmpty(w)
  \/ Fork(w) \/ ForkFails(w) \/ SetHandler(w) \/ Wait(w) \/ FillPage(w)

-------------------------------------------------------------------------------
(* The child processes                                                     *)

(* The program prints its output, if it has any, and ends.                 *)
ChildEnds(p) ==
  /\ child[p].state = "running"
  /\ TimelySignal => \A w \in Workers : pc[w] # "signal"
  /\ child' = [child EXCEPT ![p].state = "ended"]
  /\ output' = IF child[p].req \in Silent THEN output
               ELSE output \cup {[pipe |-> p, req |-> child[p].req]}
  /\ sigchld' = TRUE
  /\ UNCHANGED <<thread, conn, file, m_iv, page, cgiPipe, handler, inHandler, up>>

(* execl() has failed: the child has no children to wait for, and goes on  *)
(* to arm the connection in the epoll instance it shares with the server.  *)
(* It never ends.                                                          *)
StrayArms(p) ==
  /\ child[p].state = "stray"
  /\ child' = [child EXCEPT ![p] = [@ EXCEPT !.state = "lost", !.conn = None]]
  /\ IF child[p].conn = None THEN UNCHANGED arm ELSE Arm(child[p].conn, "out")
  /\ UNCHANGED <<thread, req, header, received, file, m_iv, page, cgiPipe, output, signals>>

-------------------------------------------------------------------------------
(* The handlers of SIGCHLD                                                 *)

(* The signal comes on any thread that is not in a handler; the handler    *)
(* reads from the latest pipe.  Without a handler SIGCHLD is ignored.      *)
Signal(t) ==
  /\ sigchld
  /\ Runs(t)
  /\ sigchld' = FALSE
  /\ inHandler' = IF handler = None THEN inHandler
                  ELSE [inHandler EXCEPT ![t] = [pipe |-> cgiPipe, page |-> handler]]
  /\ UNCHANGED <<thread, conn, file, m_iv, page, procs, handler, up>>

(* recv() puts as much of the output as jsonDataBuf takes over what it     *)
(* holds, without a zero at its end: the end of a longer text shows behind *)
(* a shorter one.  The rest of a text that is cut stays in the pipe.       *)
RecvOver(old, new) ==
  IF /\ new \in Pages \ TooLong
     /\ old = None \/ (old \in Pages /\ Length[old] <= Length[new])
  THEN new ELSE Mixed
Rest(o) ==
  IF o.req \in Pages /\ Length[o.req] > JsonDataBuf
  THEN {[pipe |-> o.pipe, req |-> Mixed]} ELSE {}

(* recv() waits for output, and a page is made of it.  An exception of the *)
(* JSON library ends the server.                                           *)
HandlerEnds(t) ==
  /\ up
  /\ inHandler[t] # None
  /\ \E o \in OldOutput(inHandler[t].pipe) :
       /\ output' = (output \ {o}) \cup Rest(o)
       /\ jsonDataBuf' = RecvOver(jsonDataBuf, o.req)
  /\ LET p == inHandler[t].page
     IN  IF p \in Parsed /\ jsonDataBuf' # p
         THEN up' = FALSE /\ UNCHANGED <<m_dynamic_page_address, m_dynamic_page_len>>
         ELSE /\ m_dynamic_page_len' = IF jsonDataBuf' = p THEN p ELSE Mixed
              /\ m_dynamic_page_address' = m_dynamic_page_len'
              /\ UNCHANGED up
  /\ inHandler' = [inHandler EXCEPT ![t] = None]
  /\ UNCHANGED <<thread, conn, file, m_iv, cgiPipe, child, handler, sigchld>>

-------------------------------------------------------------------------------
(* The main thread                                                         *)

(* init(): the parts of it for the globals give the dynamic page back and  *)
(* clear jsonDataBuf.                                                      *)
InitKeepsLength(c) ==
  /\ header' = [header EXCEPT ![c] = <<>>]
  /\ m_dynamic_page_address' = None
  /\ jsonDataBuf' = None
  /\ UNCHANGED m_dynamic_page_len
InitKeepsText(c) ==
  /\ header' = [header EXCEPT ![c] = <<>>]
  /\ m_dynamic_page_address' = None
  /\ m_dynamic_page_len' = None
  /\ UNCHANGED jsonDataBuf
init(c) ==
  /\ header' = [header EXCEPT ![c] = <<>>]
  /\ m_dynamic_page_address' = None
  /\ m_dynamic_page_len' = None
  /\ jsonDataBuf' = None

unmap == m_file_address' = None /\ abandoned' = FALSE

(* removefd(): a stray child cannot arm this connection any more.          *)
CloseConn(c) ==
  /\ arm' = [arm EXCEPT ![c] = "closed"]
  /\ child' = [p \in Pids |-> IF child[p].conn = c THEN [child[p] EXCEPT !.conn = None]
                              ELSE child[p]]

Accept(c) ==
  /\ Runs(Main)
  /\ arm[c] = "closed"
  /\ Cardinality(Open) < MaxOpen
  /\ arm' = [arm EXCEPT ![c] = "in"]
  /\ init(c)
  /\ UNCHANGED <<thread, req, received, file, m_iv, procs, signals>>

Writable(c) == Runs(Main) /\ arm[c] = "out"

(* write(): what the vector says goes to this client; the mapping goes,    *)
(* and the connection is reset or closed.                                  *)
Write(c) ==
  /\ Writable(c) /\ header[c] # <<>>
  /\ received' = [received EXCEPT ![c] =
                    [for |-> req[c], head |-> header[m_iv.head], body |-> m_iv.body]]
  /\ unmap
  /\ \/ arm' = [arm EXCEPT ![c] = "in"] /\ init(c) /\ UNCHANGED child
     \/ CloseConn(c) /\ UNCHANGED <<header, page>>
  /\ UNCHANGED <<thread, req, m_file_stat, m_iv, cgiPipe, output, signals>>

(* write() with nothing prepared.                                          *)
WriteNothing(c) ==
  /\ Writable(c) /\ header[c] = <<>>
  /\ arm' = [arm EXCEPT ![c] = "in"]
  /\ init(c)
  /\ UNCHANGED <<thread, req, received, file, m_iv, procs, signals>>

(* writev met EAGAIN: epoll will call write() again.                       *)
WriteAgainUnmaps(c) ==
  /\ Writable(c) /\ header[c] # <<>>
  /\ unmap
  /\ UNCHANGED <<thread, conn, m_file_stat, m_iv, page, procs, signals>>
WriteAgain(c) ==
  /\ Writable(c) /\ header[c] # <<>>
  /\ UNCHANGED vars

(* writev failed: the mapping goes, and the connection is closed.          *)
WriteFailedKeepsFile(c) ==
  /\ Writable(c) /\ header[c] # <<>>
  /\ CloseConn(c)
  /\ UNCHANGED <<thread, req, header, received, file, m_iv, page, cgiPipe, output, signals>>
WriteFailed(c) ==
  /\ Writable(c) /\ header[c] # <<>>
  /\ unmap
  /\ CloseConn(c)
  /\ UNCHANGED <<thread, req, header, received, m_file_stat, m_iv, page, cgiPipe, output,
                 signals>>

(* The client hangs up: close_conn(), which keeps what was prepared.       *)
Close(c) ==
  /\ Runs(Main)
  /\ arm[c] \in {"in", "out"}
  /\ CloseConn(c)
  /\ abandoned' = (abandoned \/ (arm[c] = "out" /\ m_file_address \in Files))
  /\ UNCHANGED <<thread, req, header, received, m_file_stat, m_file_address, m_iv, page,
                 cgiPipe, output, signals>>

-------------------------------------------------------------------------------
Init ==
  /\ pc = [w \in Workers |-> "idle"]
  /\ at = [w \in Workers |-> None]
  /\ arm = [c \in Conns |-> "closed"]
  /\ req = [c \in Conns |-> None]
  /\ header = [c \in Conns |-> <<>>]
  /\ received = [c \in Conns |-> NoResponse]
  /\ m_file_stat = None /\ m_file_address = None /\ abandoned = FALSE
  /\ m_iv = [head |-> CHOOSE c \in Conns : TRUE, body |-> None]
  /\ jsonDataBuf = None
  /\ m_dynamic_page_address = None /\ m_dynamic_page_len = None
  /\ cgiPipe = None
  /\ child = [p \in Pids |-> NoProcess]
  /\ output = {}
  /\ handler = None /\ sigchld = FALSE
  /\ inHandler = [t \in Threads |-> None]
  /\ up = TRUE

Next ==
  \/ \E w \in Workers : Work(w)
  \/ \E p \in Pids : ChildEnds(p) \/ StrayArms(p)
  \/ \E t \in Threads : Signal(t) \/ HandlerEnds(t)
  \/ \E c \in Conns : \/ Accept(c) \/ Close(c)
                      \/ Write(c) \/ WriteNothing(c) \/ WriteAgain(c) \/ WriteFailed(c)

(* Threads and programs keep running, and signals are delivered.           *)
Fairness ==
  /\ \A w \in Workers : WF_vars(Work(w))
  /\ \A p \in Pids : WF_vars(ChildEnds(p))
  /\ WF_vars(\E t \in Threads : Signal(t))
  /\ \A t \in Threads : WF_vars(HandlerEnds(t))

Spec == Init /\ [][Next]_vars /\ Fairness

-------------------------------------------------------------------------------
(* Properties                                                              *)

Contents == Requests \cup {None, Mixed}

(* The types; and init(), which frees the page whenever its length is not  *)
(* 0, never finds a length whose page is already gone.                     *)
TypeOK ==
  /\ pc \in [Workers -> {"idle", "error", "map", "file", "fork", "signal", "wait",
                         "page"}]
  /\ at \in [Workers -> Conns \cup {None}]
  /\ arm \in [Conns -> {"closed", "in", "out", "off"}]
  /\ req \in [Conns -> Requests \cup {None}]
  /\ header \in [Conns -> Seq(Contents)]
  /\ received \in [Conns -> [for : Requests \cup {None}, head : Seq(Contents), body : Contents]]
  /\ {m_file_stat, m_file_address, jsonDataBuf, m_dynamic_page_address,
      m_dynamic_page_len} \subseteq Contents
  /\ m_iv \in [head : Conns, body : Contents]
  /\ abandoned \in BOOLEAN
  /\ cgiPipe \in Pids \cup {None}
  /\ child \in [Pids -> [state : {"none", "running", "ended", "stray", "lost"},
                         req : Requests \cup {None}, conn : Conns \cup {None}]]
  /\ output \subseteq [pipe : Pids, req : Pages \cup {Mixed}]
  /\ handler \in Pages \cup {None} /\ sigchld \in BOOLEAN
  /\ inHandler \in [Threads -> [pipe : Pids, page : Pages] \cup {None}]
  /\ up \in BOOLEAN
  /\ m_dynamic_page_len # None => m_dynamic_page_address # None

Strays == {p \in Pids : child[p].state \in {"stray", "lost"}}
Calm == /\ up
        /\ Strays = {}
        /\ \A t \in Threads : inHandler[t] # None => inHandler[t].page \notin Silent

(* Every client gets the answer to its own request: the header announces   *)
(* the length of its content, and the body is its content                  *)
(* (http_conn.cpp:718-765, the globals of 58-69); of an output that does   *)
(* not fit into jsonDataBuf, the page that was made of its start (476-492).*)
(* A program that fails to start breaks this, and one that fork() could    *)
(* not start has no output.                                                *)
Content(r) == IF r \in Silent \cup {Missing} THEN None
              ELSE IF r \in TooLong THEN Mixed ELSE r
Announced(r) == IF r = Missing THEN Missing ELSE Content(r)
OwnResponse ==
  Strays = {} => \A c \in Conns :
    LET r == received[c] IN r.for # None =>
      /\ r.head = <<Announced(r.for)>>
      /\ r.body = Content(r.for)

(* While a response waits to be written its body is still there: the file  *)
(* is mapped, the page is not given back (http_conn.cpp:569-576, 121-127). *)
BodyAlive ==
  Strays = {} => \A c \in Conns : arm[c] = "out" /\ m_iv.body # None =>
    \/ m_file_address = m_iv.body
    \/ m_dynamic_page_len # None /\ m_dynamic_page_address = m_iv.body

(* The text that a handler parses is the output of its program and nothing *)
(* else, so that no exception ends the server (http_conn.cpp:413-415,      *)
(* 445-448), as long as the output fits into jsonDataBuf: json::parse()    *)
(* throws at the end of one that was cut, while its worker is in wait().   *)
StaysUp == up \/ \E w \in Workers : pc[w] = "wait" /\ req[at[w]] \in Parsed \cap TooLong

(* No child is left unreaped but by a worker on its way to wait() or in    *)
(* it, so that as many workers hang there as programs do not end           *)
(* (http_conn.cpp:508-526).  A worker whose fork() failed waits too, and   *)
(* may take another's child.                                               *)
ChildrenAwaited ==
  Cardinality({p \in Pids : child[p] # NoProcess}) <=
  Cardinality({w \in Workers : pc[w] \in {"signal", "wait"}})

(* A mapping is somebody's: of a worker that will answer with it, of a     *)
(* response that waits, or left by a client that hung up on its response   *)
(* (http_conn.cpp:72-80, 560-576).                                         *)
MappingOwned ==
  Strays = {} /\ m_file_address \in Files =>
    \/ abandoned
    \/ \E w \in Workers : pc[w] = "file"
    \/ \E c \in Conns : arm[c] = "out" /\ m_iv.body = m_file_address

(* A handler never puts a page in the place of one that was not given back *)
(* (http_conn.cpp:121-126, 404-405).                                       *)
PagesGivenBack ==
  [][m_dynamic_page_len' # m_dynamic_page_len =>
       m_dynamic_page_len = None \/ m_dynamic_page_len' = None]_vars

(* A worker that starts on a request finishes it: it is not left waiting   *)
(* for a child, nor a handler for output, unless a program prints nothing, *)
(* too much for its parser, or does not start (http_conn.cpp:499-526).     *)
Finishes ==
  \A w \in Workers : pc[w] \in {"error", "map", "fork"} ~> pc[w] = "idle" \/ ~Calm
===============================================================================

---------------------------- MODULE ResponderProofs ----------------------------
(***************************************************************************)
(* Proofs about Responder: its types and the children that wait() is       *)
(* called for, for any constants; its answers, pages and mappings for one  *)
(* connection at a time with timely signals, for any number of threads,    *)
(* processes and requests.                                                 *)
(*                                                                         *)
(* The answers go through globals.  What makes them right is that a        *)
(* connection is in one pair of hands (TurnInv); then the signal, the      *)
(* handler and the pipe belong to the child in hand (HandlerSet,           *)
(* HandlersInv), so the page is made of its output (PageInv), so what the  *)
(* worker puts into the vector is the request's (AnswersInv).              *)
(***************************************************************************)
EXTENDS Responder, FiniteSetTheorems, TLAPS

(* A worker has a connection exactly while it works; a pipe exists before  *)
(* a handler that reads from it is set.                                    *)
WorkersInv ==
  /\ \A w \in Workers : pc[w] = "idle" <=> at[w] = None
  /\ \A w \in Workers : pc[w] = "signal" => cgiPipe # None
  /\ handler # None => cgiPipe # None

(* A reaped child leaves nothing; a program that runs or has ended makes a *)
(* page and knows no connection.                                           *)
ProcessesInv ==
  \A p \in Pids : /\ child[p].state = "none" => child[p] = NoProcess
                  /\ child[p].state \in {"running", "ended"} =>
                        child[p].req \in Pages /\ child[p].conn = None

(* The inductive form of TypeOK.                                           *)
TypeInv == TypeOK /\ WorkersInv /\ ProcessesInv

(* What add_response() puts behind m_write_buf is again a header.          *)
LEMMA Prepared ==
  ASSUME header \in [Conns -> Seq(Contents)], NEW c \in Conns, NEW x \in Contents,
         Fill(c, <<x>>)
  PROVE  header' \in [Conns -> Seq(Contents)]
<1>. header[c] \o <<x>> \in Seq(Contents)
  OBVIOUS
<1>. QED
  BY DEF Fill

(* The types of child and of arm.                                          *)
Processes == [Pids -> [state : {"none", "running", "ended", "stray", "lost"},
                       req : Requests \cup {None}, conn : Conns \cup {None}]]

(* A child that ends or that arms a connection remains a process.          *)
LEMMA ProcessChanges ==
  ASSUME NEW f \in Processes, NEW p \in Pids
  PROVE  /\ [f EXCEPT ![p].state = "ended"] \in Processes
         /\ [f EXCEPT ![p] = [@ EXCEPT !.state = "lost", !.conn = None]] \in Processes
  BY DEF Processes

(* init(): no response is prepared and the page is gone.                   *)
LEMMA InitClears ==
  ASSUME header \in [Conns -> Seq(Contents)], NEW c \in Conns, init(c)
  PROVE  /\ header' \in [Conns -> Seq(Contents)]
         /\ {jsonDataBuf', m_dynamic_page_address', m_dynamic_page_len'} \subseteq {None}
<1>. <<>> \in Seq(Contents)
  OBVIOUS
<1>. QED
  BY DEF init

(* removefd(): only the connection that a stray child would arm goes.      *)
LEMMA ClosedForChildren ==
  ASSUME child \in Processes, NEW c \in Conns, CloseConn(c)
  PROVE  /\ child' \in Processes
         /\ \A p \in Pids :
              /\ child'[p].state = child[p].state
              /\ child'[p].req = child[p].req
              /\ child'[p].conn = IF child[p].conn = c THEN None ELSE child[p].conn
              /\ child[p].conn # c => child'[p] = child[p]
  BY DEF CloseConn, Processes

(* What the end of a program and what a stray child's modfd() leave.       *)
LEMMA ChildEnded ==
  ASSUME child \in Processes, NEW p \in Pids, ChildEnds(p)
  PROVE  /\ child'[p].state = "ended"
         /\ child'[p].req = child[p].req
         /\ child'[p].conn = child[p].conn
         /\ \A q \in Pids \ {p} : child'[q] = child[q]
  BY DEF ChildEnds, Processes

LEMMA StrayArmed ==
  ASSUME child \in Processes, NEW p \in Pids, StrayArms(p)
  PROVE  /\ child'[p].state = "lost"
         /\ child'[p].req = child[p].req
         /\ child'[p].conn = None
         /\ \A q \in Pids \ {p} : child'[q] = child[q]
  BY DEF StrayArms, Processes

Arms == [Conns -> {"closed", "in", "out", "off"}]

(* modfd() and removefd() keep the type.                                   *)
LEMMA ArmChanges ==
  ASSUME NEW c \in Conns, arm \in Arms, NEW e \in {"in", "out"}
  PROVE  /\ Arm(c, e) => arm' \in Arms
         /\ CloseConn(c) => arm' \in Arms
         /\ arm' = [arm EXCEPT ![c] = e] => arm' \in Arms
<1>1. ASSUME Arm(c, e) PROVE arm' \in Arms
  BY <1>1 DEF Arm, Arms
<1>2. ASSUME CloseConn(c) PROVE arm' \in Arms
  BY <1>2 DEF CloseConn, Arms
<1>3. ASSUME arm' = [arm EXCEPT ![c] = e] PROVE arm' \in Arms
  BY <1>3 DEF Arms
<1>. QED
  BY <1>1, <1>2, <1>3

(* Every step keeps the types.                                             *)
LEMMA TypeStep ==
  ASSUME TypeInv, [Next]_vars
  PROVE  TypeInv'
<1>. USE ResponderAssumption DEF vars, thread, conn, file, page, procs, signals
<1>0. TypeOK /\ WorkersInv /\ ProcessesInv /\ child \in Processes /\ arm \in Arms
  BY DEF TypeInv, TypeOK, Processes, Arms
<1>1. ASSUME NEW w \in Workers, NEW c \in Conns, NEW r \in Requests, Stat(w, c, r)
      PROVE  TypeInv'
  <2>1. NoResponse \in [for : Requests \cup {None}, head : Seq(Contents), body : Contents]
    BY DEF NoResponse, Contents
  <2>2. TypeOK'
    BY <1>0, <1>1, <2>1 DEF Stat, TypeOK, Contents, Goto
  <2>3. WorkersInv' /\ ProcessesInv'
    BY <1>0, <1>1 DEF Stat, TypeOK, WorkersInv, ProcessesInv, NoProcess, Goto
  <2>. QED
    BY <2>2, <2>3 DEF TypeInv
<1>2. ASSUME NEW w \in Workers, FillError(w)
      PROVE  TypeInv'
  <2>1. at[w] \in Conns /\ req[at[w]] \in Contents
    BY <1>0, <1>2 DEF FillError, TypeOK, WorkersInv, Contents, Goto, Leave, Arm
  <2>2. header' \in [Conns -> Seq(Contents)]
    BY <1>0, <1>2, <2>1, Prepared DEF FillError, TypeOK
  <2>3. TypeOK'
    BY <1>0, <1>2, <2>1, <2>2 DEF FillError, TypeOK, Contents, Goto, Leave, Arm
  <2>4. WorkersInv' /\ ProcessesInv'
    BY <1>0, <1>2, <2>1 DEF FillError, TypeOK, WorkersInv, ProcessesInv, NoProcess, Goto, Leave, Arm
  <2>. QED
    BY <2>3, <2>4 DEF TypeInv
<1>3. ASSUME NEW w \in Workers, Mmap(w)
      PROVE  TypeInv'
  <2>1. at[w] \in Conns /\ {req[at[w]], m_file_stat} \subseteq Contents
    BY <1>0, <1>3 DEF Mmap, TypeOK, WorkersInv, Contents, Goto
  <2>2. abandoned' \in BOOLEAN
    BY <1>0, <1>3 DEF Mmap, Goto
  <2>3. TypeOK'
    BY <1>0, <1>3, <2>1, <2>2 DEF Mmap, TypeOK, Goto
  <2>4. WorkersInv' /\ ProcessesInv'
    BY <1>0, <1>3 DEF Mmap, TypeOK, WorkersInv, ProcessesInv, NoProcess, Goto
  <2>. QED
    BY <2>3, <2>4 DEF TypeInv
<1>4. ASSUME NEW w \in Workers, FillFile(w)
      PROVE  TypeInv'
  <2>1. at[w] \in Conns
    BY <1>0, <1>4 DEF FillFile, TypeOK, WorkersInv, Goto, Leave, Arm
  <2>2. header' \in [Conns -> Seq(Contents)]
    BY <1>0, <1>4, <2>1, Prepared DEF FillFile, TypeOK
  <2>3. TypeOK'
    BY <1>0, <1>4, <2>1, <2>2 DEF FillFile, TypeOK, Contents, Goto, Leave, Arm
  <2>4. WorkersInv' /\ ProcessesInv'
    BY <1>0, <1>4, <2>1 DEF FillFile, TypeOK, WorkersInv, ProcessesInv, NoProcess, Goto, Leave, Arm
  <2>. QED
    BY <2>3, <2>4 DEF TypeInv
<1>5. ASSUME NEW w \in Workers, FillEmpty(w)
      PROVE  TypeInv'
  <2>1. at[w] \in Conns /\ m_file_stat \in Contents
    BY <1>0, <1>5 DEF FillEmpty, TypeOK, WorkersInv, Contents, Goto
  <2>2. header' \in [Conns -> Seq(Contents)]
    BY <1>0, <1>5, <2>1, Prepared DEF FillEmpty, TypeOK
  <2>3. TypeOK'
    BY <1>0, <1>5, <2>1, <2>2 DEF FillEmpty, TypeOK, Goto
  <2>4. WorkersInv' /\ ProcessesInv'
    BY <1>0, <1>5, <2>1 DEF FillEmpty, TypeOK, WorkersInv, ProcessesInv, NoProcess, Goto
  <2>. QED
    BY <2>3, <2>4 DEF TypeInv
<1>6. ASSUME NEW w \in Workers, Fork(w)
      PROVE  TypeInv'
  <2>1. at[w] \in Conns
    BY <1>0, <1>6 DEF Fork, TypeOK, WorkersInv, Goto
  <2>2. PICK p \in Free : /\ child' = [child EXCEPT ![p] = NewChild(at[w])]
                          /\ cgiPipe' = p
                          /\ output' = output \ OldOutput(p)
    BY <1>0, <1>6 DEF Fork, Goto
  <2>3. p \in Pids
    BY DEF Free
  <2>4. NewChild(at[w]) \in [state : {"none", "running", "ended", "stray", "lost"},
                             req : Requests \cup {None}, conn : Conns \cup {None}]
    BY <1>0, <2>1 DEF NewChild, TypeOK, Requests
  <2>5. TypeOK'
    BY <1>0, <1>6, <2>1, <2>2, <2>3, <2>4 DEF Fork, TypeOK, Goto
  <2>6. WorkersInv'
    BY <1>0, <1>6, <2>2, <2>3 DEF Fork, TypeOK, WorkersInv, Goto
  <2>7. ProcessesInv'
    BY <1>0, <2>2, <2>3 DEF TypeOK, ProcessesInv, NewChild, NoProcess
  <2>. QED
    BY <2>5, <2>6, <2>7 DEF TypeInv
<1>19. ASSUME NEW w \in Workers, ForkFails(w)
       PROVE  TypeInv'
  <2>1. PICK p \in Pids : cgiPipe' = p /\ output' = output \ OldOutput(p)
    BY <1>19 DEF ForkFails, Free
  <2>2. at[w] \in Conns
    BY <1>0, <1>19 DEF ForkFails, TypeOK, WorkersInv, Goto
  <2>3. TypeOK'
    BY <1>0, <1>19, <2>1, <2>2 DEF ForkFails, TypeOK, Goto
  <2>4. WorkersInv' /\ ProcessesInv'
    BY <1>0, <1>19, <2>1 DEF ForkFails, TypeOK, WorkersInv, ProcessesInv, NoProcess, Goto
  <2>. QED
    BY <2>3, <2>4 DEF TypeInv
<1>7. ASSUME NEW w \in Workers, SetHandler(w)
      PROVE  TypeInv'
  BY <1>0, <1>7 DEF SetHandler, TypeInv, TypeOK, WorkersInv, ProcessesInv, NoProcess, Goto
<1>8. ASSUME NEW w \in Workers, Wait(w)
      PROVE  TypeInv'
  <2>1. NoProcess \in [state : {"none", "running", "ended", "stray", "lost"},
                       req : Requests \cup {None}, conn : Conns \cup {None}]
    BY DEF NoProcess
  <2>2. TypeOK'
    BY <1>0, <1>8, <2>1 DEF Wait, TypeOK, Goto
  <2>3. WorkersInv'
    BY <1>0, <1>8 DEF Wait, TypeOK, WorkersInv, Goto
  <2>4. ProcessesInv'
    <3>1. NoProcess.state = "none"
      BY DEF NoProcess
    <3>2. ASSUME NEW p \in Pids, child' = [child EXCEPT ![p] = NoProcess]
          PROVE  ProcessesInv'
      BY <1>0, <3>1, <3>2 DEF TypeOK, ProcessesInv
    <3>3. CASE UNCHANGED child
      BY <1>0, <3>3 DEF ProcessesInv
    <3>. QED
      BY <1>8, <3>2, <3>3 DEF Wait
  <2>. QED
    BY <2>2, <2>3, <2>4 DEF TypeInv
<1>9. ASSUME NEW w \in Workers, FillPage(w)
      PROVE  TypeInv'
  <2>1. at[w] \in Conns
    BY <1>0, <1>9 DEF FillPage, TypeOK, WorkersInv, Goto, Leave, Arm
  <2>2. header' \in [Conns -> Seq(Contents)]
    BY <1>0, <1>9, <2>1, Prepared DEF FillPage, TypeOK
  <2>3. TypeOK'
    BY <1>0, <1>9, <2>1, <2>2 DEF FillPage, TypeOK, Contents, Goto, Leave, Arm
  <2>4. WorkersInv' /\ ProcessesInv'
    BY <1>0, <1>9, <2>1 DEF FillPage, TypeOK, WorkersInv, ProcessesInv, NoProcess, Goto, Leave, Arm
  <2>. QED
    BY <2>3, <2>4 DEF TypeInv
<1>10. ASSUME NEW p \in Pids, ChildEnds(p)
       PROVE  TypeInv'
  <2>1. child[p].req \in Pages
    BY <1>0, <1>10 DEF ChildEnds, ProcessesInv
  <2>2. child' \in Processes
    BY <1>0, <1>10, ProcessChanges DEF ChildEnds
  <2>3. output' \subseteq [pipe : Pids, req : Pages \cup {Mixed}]
    BY <1>0, <1>10, <2>1 DEF ChildEnds, TypeOK
  <2>4. sigchld' \in BOOLEAN
    BY <1>0, <1>10 DEF ChildEnds
  <2>5. TypeOK'
    BY <1>0, <1>10, <2>2, <2>3, <2>4 DEF ChildEnds, TypeOK, Processes
  <2>6. WorkersInv' /\ ProcessesInv'
    BY <1>0, <1>10 DEF ChildEnds, TypeOK, WorkersInv, ProcessesInv, NoProcess
  <2>. QED
    BY <2>5, <2>6 DEF TypeInv
<1>11. ASSUME NEW p \in Pids, StrayArms(p)
       PROVE  TypeInv'
  <2>1. child' \in Processes
    BY <1>0, <1>11, ProcessChanges DEF StrayArms
  <2>2. arm' \in Arms
    <3>1. CASE child[p].conn = None
      BY <1>0, <1>11, <3>1 DEF StrayArms
    <3>2. CASE child[p].conn # None
      <4>1. child[p].conn \in Conns
        BY <1>0, <3>2 DEF Processes
      <4>. QED
        BY <1>0, <1>11, <3>2, <4>1, ArmChanges DEF StrayArms
    <3>. QED
      BY <3>1, <3>2
  <2>3. TypeOK'
    BY <1>0, <1>11, <2>1, <2>2 DEF StrayArms, TypeOK, Arms, Processes
  <2>4. WorkersInv' /\ ProcessesInv'
    BY <1>0, <1>11 DEF StrayArms, TypeOK, WorkersInv, ProcessesInv, NoProcess, Arm
  <2>. QED
    BY <2>3, <2>4 DEF TypeInv
<1>12. ASSUME NEW t \in Threads, Signal(t)
       PROVE  TypeInv'
  <2>1. inHandler' \in [Threads -> [pipe : Pids, page : Pages] \cup {None}]
    BY <1>0, <1>12 DEF Signal, TypeOK, WorkersInv
  <2>2. TypeOK'
    BY <1>0, <1>12, <2>1 DEF Signal, TypeOK
  <2>3. WorkersInv' /\ ProcessesInv'
    BY <1>0, <1>12 DEF Signal, TypeOK, WorkersInv, ProcessesInv, NoProcess
  <2>. QED
    BY <2>2, <2>3 DEF TypeInv
<1>13. ASSUME NEW t \in Threads, HandlerEnds(t)
       PROVE  TypeInv'
  <2>1. inHandler[t] \in [pipe : Pids, page : Pages]
    BY <1>0, <1>13 DEF HandlerEnds, TypeOK
  <2>2. /\ output' \subseteq [pipe : Pids, req : Pages \cup {Mixed}]
        /\ jsonDataBuf' \in Contents
    <3>1. PICK o \in output : /\ output' = (output \ {o}) \cup Rest(o)
                              /\ jsonDataBuf' = RecvOver(jsonDataBuf, o.req)
      BY <1>13 DEF HandlerEnds, OldOutput
    <3>2. o \in [pipe : Pids, req : Pages \cup {Mixed}]
      BY <1>0 DEF TypeOK
    <3>3. Rest(o) \subseteq [pipe : Pids, req : Pages \cup {Mixed}]
      BY <3>2 DEF Rest
    <3>4. RecvOver(jsonDataBuf, o.req) \in Contents
      BY DEF RecvOver, Contents, Requests
    <3>. QED
      BY <1>0, <3>1, <3>3, <3>4 DEF TypeOK
  <2>3. /\ {m_dynamic_page_address', m_dynamic_page_len'} \subseteq Contents
        /\ m_dynamic_page_len' # None => m_dynamic_page_address' # None
    <3>1. inHandler[t].page \in Contents /\ inHandler[t].page # None /\ None # Mixed
      BY <2>1 DEF Contents, Requests
    <3>2. CASE UNCHANGED <<m_dynamic_page_address, m_dynamic_page_len>>
      BY <1>0, <3>2 DEF TypeOK
    <3>3. CASE /\ m_dynamic_page_len' \in {inHandler[t].page, Mixed}
               /\ m_dynamic_page_address' = m_dynamic_page_len'
      BY <3>1, <3>3 DEF Contents
    <3>. QED
      BY <1>13, <3>2, <3>3 DEF HandlerEnds
  <2>4. up' \in BOOLEAN
    <3>1. CASE up' = FALSE
      BY <3>1
    <3>2. CASE UNCHANGED up
      BY <1>0, <3>2 DEF TypeOK
    <3>. QED
      BY <1>0, <1>13, <3>1, <3>2 DEF HandlerEnds
  <2>5. inHandler' \in [Threads -> [pipe : Pids, page : Pages] \cup {None}]
    BY <1>0, <1>13 DEF HandlerEnds, TypeOK
  <2>6. TypeOK'
    BY <1>0, <1>13, <2>2, <2>3, <2>4, <2>5 DEF HandlerEnds, TypeOK
  <2>7. WorkersInv' /\ ProcessesInv'
    BY <1>0, <1>13 DEF HandlerEnds, TypeOK, WorkersInv, ProcessesInv, NoProcess
  <2>. QED
    BY <2>6, <2>7 DEF TypeInv
<1>14. ASSUME NEW c \in Conns, Accept(c)
       PROVE  TypeInv'
  <2>1. /\ header' \in [Conns -> Seq(Contents)]
        /\ {jsonDataBuf', m_dynamic_page_address', m_dynamic_page_len'} \subseteq {None}
    <3>1. header \in [Conns -> Seq(Contents)] /\ init(c)
      BY <1>0, <1>14 DEF Accept, TypeOK
    <3>. QED
      BY ONLY <3>1, InitClears
  <2>2. TypeOK'
    <3>1. arm' \in Arms
      BY <1>0, <1>14, ArmChanges DEF Accept
    <3>2. None \in Contents
      BY DEF Contents
    <3>. QED
      BY <1>0, <1>14, <2>1, <3>1, <3>2 DEF Accept, TypeOK, Arms
  <2>3. WorkersInv' /\ ProcessesInv'
    BY <1>0, <1>14 DEF Accept, TypeOK, WorkersInv, ProcessesInv, NoProcess
  <2>. QED
    BY <2>2, <2>3 DEF TypeInv
<1>15. ASSUME NEW c \in Conns, WriteNothing(c)
       PROVE  TypeInv'
  <2>1. TypeOK'
    <3>1. arm' \in Arms
      BY <1>0, <1>15, ArmChanges DEF WriteNothing
    <3>2. /\ header' \in [Conns -> Seq(Contents)]
          /\ {jsonDataBuf', m_dynamic_page_address', m_dynamic_page_len'} \subseteq {None}
      <4>1. header \in [Conns -> Seq(Contents)] /\ init(c)
        BY <1>0, <1>15 DEF WriteNothing, TypeOK
      <4>. QED
        BY ONLY <4>1, InitClears
    <3>3. None \in Contents
      BY DEF Contents
    <3>. QED
      BY <1>0, <1>15, <3>1, <3>2, <3>3, SMTT(30) DEF WriteNothing, TypeOK, Arms
  <2>2. WorkersInv' /\ ProcessesInv'
    BY <1>0, <1>15 DEF WriteNothing, TypeOK, WorkersInv, ProcessesInv, NoProcess
  <2>. QED
    BY <2>1, <2>2 DEF TypeInv
<1>16. ASSUME NEW c \in Conns, Write(c) \/ WriteFailed(c) \/ Close(c)
       PROVE  TypeInv'
  <2>1. ASSUME CloseConn(c)
        PROVE  /\ child' \in Processes
               /\ arm' \in Arms
               /\ ProcessesInv'
    <3>1. arm' \in Arms
      BY <1>0, <2>1, ArmChanges
    <3>2. ASSUME NEW p \in Pids, child'[p].state = "none"
          PROVE  child'[p] = NoProcess
      BY <1>0, <2>1, <3>2, ClosedForChildren, ResponderAssumption DEF ProcessesInv, NoProcess
    <3>. QED
      BY <1>0, <2>1, <3>1, <3>2, ClosedForChildren DEF ProcessesInv
  <2>2. ASSUME Write(c)
        PROVE  received' \in [Conns -> [for : Requests \cup {None}, head : Seq(Contents),
                                       body : Contents]]
    BY <1>0, <2>2 DEF Write, TypeOK
  <2>3. ASSUME unmap
        PROVE  m_file_address' \in Contents /\ abandoned' \in BOOLEAN
    BY <1>0, <2>3 DEF unmap, Contents
  <2>4. CASE Write(c) /\ ~CloseConn(c)
    <3>1. arm' \in Arms /\ UNCHANGED child
      BY <1>0, <2>4, ArmChanges DEF Write
    <3>2. /\ header' \in [Conns -> Seq(Contents)]
          /\ {jsonDataBuf', m_dynamic_page_address', m_dynamic_page_len'} \subseteq {None}
      <4>1. header \in [Conns -> Seq(Contents)] /\ init(c)
        BY <1>0, <2>4 DEF Write, TypeOK
      <4>. QED
        BY ONLY <4>1, InitClears
    <3>3. TypeOK'
      BY <1>0, <2>2, <2>3, <2>4, <3>1, <3>2, SMTT(30) DEF Write, TypeOK, Contents, Arms
    <3>4. WorkersInv' /\ ProcessesInv'
      BY <1>0, <2>4 DEF Write, TypeOK, WorkersInv, ProcessesInv, NoProcess
    <3>. QED
      BY <3>3, <3>4 DEF TypeInv
  <2>5. CASE Write(c) /\ CloseConn(c)
    <3>1. TypeOK'
      <4>1. UNCHANGED <<header, page>>
        BY <1>0, <2>5 DEF Write, CloseConn, init, TypeOK
      <4>. QED
        BY <1>0, <2>1, <2>2, <2>3, <2>5, <4>1, SMTT(30) DEF Write, TypeOK, Processes, Arms
    <3>2. WorkersInv'
      BY <1>0, <2>5 DEF Write, TypeOK, WorkersInv
    <3>. QED
      BY <2>1, <2>5, <3>1, <3>2 DEF TypeInv
  <2>6. CASE WriteFailed(c)
    <3>1. TypeOK'
      BY <1>0, <2>1, <2>3, <2>6 DEF WriteFailed, TypeOK, Processes, Arms
    <3>2. WorkersInv'
      BY <1>0, <2>6 DEF WriteFailed, TypeOK, WorkersInv
    <3>. QED
      BY <1>0, <2>1, <2>6, <3>1, <3>2 DEF WriteFailed, TypeInv
  <2>7. CASE Close(c)
    <3>1. abandoned' \in BOOLEAN
      BY <1>0, <2>7 DEF Close, TypeOK
    <3>2. TypeOK'
      BY <1>0, <2>1, <2>7, <3>1 DEF Close, TypeOK, Processes, Arms
    <3>3. WorkersInv'
      BY <1>0, <2>7 DEF Close, TypeOK, WorkersInv
    <3>. QED
      BY <1>0, <2>1, <2>7, <3>2, <3>3 DEF Close, TypeInv
  <2>. QED
    BY <1>16, <2>4, <2>5, <2>6, <2>7 DEF TypeInv
<1>17. CASE UNCHANGED vars
  BY <1>0, <1>17 DEF TypeInv, TypeOK, WorkersInv, ProcessesInv, NoProcess
<1>18. ASSUME NEW c \in Conns, WriteAgain(c)
       PROVE  TypeInv'
  BY <1>0, <1>17, <1>18 DEF WriteAgain
<1>. QED
  BY <1>1, <1>2, <1>3, <1>4, <1>5, <1>6, <1>7, <1>8, <1>9, <1>10, <1>11, <1>12, <1>13, <1>14,
     <1>15, <1>16, <1>17, <1>18, <1>19 DEF Next, Work

(* The server starts with the right types.                                 *)
LEMMA InitTypes == Init => TypeInv
<1>. SUFFICES ASSUME Init PROVE TypeInv
  OBVIOUS
<1>1. m_iv \in [head : Conns, body : Contents]
  BY ResponderAssumption DEF Init, Contents
<1>2. received \in [Conns -> [for : Requests \cup {None}, head : Seq(Contents), body : Contents]]
  BY DEF Init, Contents, NoResponse
<1>3. abandoned \in BOOLEAN /\ sigchld \in BOOLEAN /\ up \in BOOLEAN
  BY DEF Init
<1>4. TypeOK
  BY <1>1, <1>2, <1>3, ResponderAssumption DEF Init, TypeOK, NoProcess, Contents
<1>5. WorkersInv /\ ProcessesInv
  BY ResponderAssumption DEF Init, WorkersInv, ProcessesInv, NoProcess
<1>. QED
  BY <1>4, <1>5 DEF TypeInv

(* Every variable of the responder keeps its type, for any number of       *)
(* workers, connections and processes; and init() never finds the length   *)
(* of a page that is already given back (http_conn.cpp:121-127).           *)
THEOREM TypeCorrect == Spec => []TypeOK
<1>1. Init => TypeInv
  BY InitTypes
<1>2. TypeInv /\ [Next]_vars => TypeInv'
  BY TypeStep
<1>3. TypeInv => TypeOK
  BY DEF TypeInv
<1>. QED
  BY <1>1, <1>2, <1>3, PTL DEF Spec

-------------------------------------------------------------------------------
(* Children are awaited                                                    *)

(* The workers on their way to wait() or in it, and the processes that are *)
(* not reaped.                                                             *)
Waiting == {w \in Workers : pc[w] \in {"signal", "wait"}}
Awaited == {p \in Pids : child[p] # NoProcess}

(* fork() adds one to each set, or to the workers alone when it fails;     *)
(* wait() takes one from each, or from the workers alone when no child is  *)
(* left; nothing else changes either.                                      *)
LEMMA AwaitedStep ==
  ASSUME TypeInv, ChildrenAwaited, [Next]_vars
  PROVE  ChildrenAwaited'
<1>. USE DEF vars, thread, conn, file, page, procs, signals
<1>0. /\ pc \in [Workers -> {"idle", "error", "map", "file", "fork", "signal", "wait",
                             "page"}]
      /\ child \in Processes /\ ProcessesInv
  BY DEF TypeInv, TypeOK, Processes
<1>1. /\ IsFiniteSet(Waiting) /\ IsFiniteSet(Awaited)
      /\ Cardinality(Awaited) <= Cardinality(Waiting)
  BY ResponderAssumption, FS_Subset DEF ChildrenAwaited, Waiting, Awaited
<1>c. Cardinality(Waiting) \in Nat /\ Cardinality(Awaited) \in Nat
  BY <1>1, FS_CardinalityType
<1>2. SUFFICES Cardinality(Awaited') <= Cardinality(Waiting')
  BY DEF ChildrenAwaited, Waiting, Awaited
<1>3. ASSUME NEW w \in Workers, Fork(w)
      PROVE  Cardinality(Awaited') <= Cardinality(Waiting')
  <2>1. PICK p \in Free : child' = [child EXCEPT ![p] = NewChild(at[w])]
    BY <1>3 DEF Fork
  <2>2. p \in Pids /\ p \notin Awaited /\ NewChild(at[w]) # NoProcess
    BY DEF Free, Awaited, NewChild, NoProcess
  <2>3. Awaited' = Awaited \cup {p}
    BY <1>0, <2>1, <2>2 DEF Awaited, Processes
  <2>4. Waiting' = Waiting \cup {w} /\ w \notin Waiting
    BY <1>0, <1>3 DEF Fork, Goto, Waiting
  <2>5. Cardinality(Waiting \cup {w}) = Cardinality(Waiting) + 1
    BY <1>1, <2>4, FS_AddElement
  <2>6. Cardinality(Awaited \cup {p}) = Cardinality(Awaited) + 1
    BY <1>1, <2>2, FS_AddElement
  <2>. QED
    BY <1>1, <1>c, <2>3, <2>4, <2>5, <2>6
<1>13. ASSUME NEW w \in Workers, ForkFails(w)
       PROVE  Cardinality(Awaited') <= Cardinality(Waiting')
  <2>1. Awaited' = Awaited
    BY <1>13 DEF ForkFails, Awaited
  <2>2. Waiting' = Waiting \cup {w} /\ w \notin Waiting
    BY <1>0, <1>13 DEF ForkFails, Goto, Waiting
  <2>3. Cardinality(Waiting \cup {w}) = Cardinality(Waiting) + 1
    BY <1>1, <2>2, FS_AddElement
  <2>. QED
    BY <1>1, <1>c, <2>1, <2>2, <2>3
<1>4. ASSUME NEW w \in Workers, Wait(w)
      PROVE  Cardinality(Awaited') <= Cardinality(Waiting')
  <2>1. Waiting' = Waiting \ {w} /\ w \in Waiting
    BY <1>0, <1>4 DEF Wait, Goto, Waiting
  <2>2. Cardinality(Waiting \ {w}) = Cardinality(Waiting) - 1
    BY <1>1, <2>1, FS_RemoveElement
  <2>3. ASSUME NEW p \in Pids, child[p].state = "ended", child' = [child EXCEPT ![p] = NoProcess]
        PROVE  Cardinality(Awaited') <= Cardinality(Waiting')
    <3>1. p \in Awaited
      BY <2>3 DEF Awaited, NoProcess
    <3>2. Awaited' = Awaited \ {p}
      BY <1>0, <2>3 DEF Awaited, Processes
    <3>3. Cardinality(Awaited \ {p}) = Cardinality(Awaited) - 1
      BY <1>1, <3>1, FS_RemoveElement
    <3>. QED
      BY <1>1, <1>c, <2>1, <2>2, <3>2, <3>3
  <2>4. CASE (\A p \in Pids : child[p] = NoProcess) /\ UNCHANGED child
    <3>1. Awaited' = {}
      BY <2>4 DEF Awaited
    <3>2. IsFiniteSet(Waiting \ {w})
      BY <1>1, FS_Subset
    <3>3. Cardinality(Waiting \ {w}) \in Nat /\ Cardinality({}) = 0
      BY <3>2, FS_CardinalityType, FS_EmptySet
    <3>. QED
      BY <2>1, <3>1, <3>3
  <2>. QED
    BY <1>4, <2>3, <2>4 DEF Wait
<1>5. ASSUME NEW w \in Workers,
             \/ \E c \in Conns, r \in Requests : Stat(w, c, r)
             \/ FillError(w) \/ Mmap(w) \/ FillFile(w) \/ FillEmpty(w)
             \/ SetHandler(w) \/ FillPage(w)
      PROVE  Waiting' = Waiting /\ UNCHANGED child
  BY <1>0, <1>5 DEF Stat, FillError, Mmap, FillFile, FillEmpty, SetHandler, FillPage, Goto, Waiting
<1>6. ASSUME NEW p \in Pids, ChildEnds(p) \/ StrayArms(p)
      PROVE  Awaited' = Awaited /\ UNCHANGED pc
  <2>1. child[p] # NoProcess /\ child'[p] # NoProcess
    <3>1. child[p].state # "none" /\ child'[p].state # "none"
      BY <1>0, <1>6, ChildEnded, StrayArmed DEF ChildEnds, StrayArms
    <3>2. NoProcess.state = "none"
      BY DEF NoProcess
    <3>. QED
      BY <3>1, <3>2
  <2>2. \A q \in Pids \ {p} : child'[q] = child[q]
    BY <1>0, <1>6, ChildEnded, StrayArmed
  <2>3. UNCHANGED pc
    BY <1>6 DEF ChildEnds, StrayArms
  <2>. QED
    BY <2>1, <2>2, <2>3 DEF Awaited
<1>7. ASSUME NEW c \in Conns, CloseConn(c)
      PROVE  Awaited' = Awaited
  <2>1. ASSUME NEW p \in Pids
        PROVE  child'[p] = NoProcess <=> child[p] = NoProcess
    BY <1>0, <1>7, <2>1, ClosedForChildren, ResponderAssumption DEF ProcessesInv, NoProcess
  <2>. QED
    BY <2>1 DEF Awaited
<1>8. ASSUME NEW t \in Threads, Signal(t) \/ HandlerEnds(t)
      PROVE  UNCHANGED <<pc, child>>
  BY <1>8 DEF Signal, HandlerEnds
<1>9. ASSUME NEW c \in Conns, \/ Accept(c) \/ Close(c) \/ Write(c) \/ WriteNothing(c)
                              \/ WriteAgain(c) \/ WriteFailed(c)
      PROVE  Awaited' = Awaited /\ UNCHANGED pc
  BY <1>7, <1>9 DEF Accept, Close, Write, WriteNothing, WriteAgain, WriteFailed, Awaited
<1>10. UNCHANGED child => Awaited' = Awaited
  BY DEF Awaited
<1>11. UNCHANGED pc => Waiting' = Waiting
  BY DEF Waiting
<1>12. Waiting' = Waiting /\ Awaited' = Awaited =>
         Cardinality(Awaited') <= Cardinality(Waiting')
  BY <1>1
<1>. QED
  BY <1>3, <1>4, <1>5, <1>6, <1>8, <1>9, <1>10, <1>11, <1>12, <1>13 DEF Next, Work

(* There are never more children than workers in postRespond() that will   *)
(* wait for one, whether fork() fails or not, for any number of            *)
(* connections open at a time (http_conn.cpp:508-526).                     *)
THEOREM ChildrenAwaitedAlways == Spec => []ChildrenAwaited
<1>1. Init => TypeInv /\ ChildrenAwaited
  <2>. SUFFICES ASSUME Init PROVE ChildrenAwaited
    BY InitTypes
  <2>1. Waiting = {} /\ Awaited = {}
    BY DEF Init, Waiting, Awaited
  <2>2. Cardinality({}) <= Cardinality({})
    BY FS_EmptySet
  <2>. QED
    BY <2>1, <2>2 DEF ChildrenAwaited, Waiting, Awaited
<1>2. TypeInv /\ ChildrenAwaited /\ [Next]_vars => TypeInv' /\ ChildrenAwaited'
  BY TypeStep, AwaitedStep
<1>. QED
  BY <1>1, <1>2, PTL DEF Spec

-------------------------------------------------------------------------------
(* One connection at a time                                                *)

(* A worker that is in wait() though there is no child: its fork() failed, *)
(* or another worker took its child.                                       *)
Unaided(w) == pc[w] = "wait" /\ \A p \in Pids : child[p] = NoProcess

(* A worker that is not waiting for a child, a program that is not reaped, *)
(* a stray child that can still arm its connection: whoever is one of      *)
(* these has the request in hand.                                          *)
Working(w) == pc[w] \in {"error", "map", "file", "fork", "page"} \/ Unaided(w)
Busy(w)    == pc[w] # "idle"
Alive(p)   == child[p].state \in {"running", "ended"}
InHand(p)  == Alive(p) \/ child[p].conn # None

(* At most one connection is open.                                         *)
OneOpen == \A c, d \in Conns : arm[c] # "closed" /\ arm[d] # "closed" => c = d

(* The open connection is watched for events or in the hands of one worker *)
(* or one child, never both.  Workers that a stray child has left in       *)
(* wait() hold nothing until another child ends.                           *)
OneInHand ==
  /\ (\E w \in Workers : Working(w)) \/ (\E p \in Pids : InHand(p)) =>
       \E c \in Conns : arm[c] = "off"
  /\ \A v, w \in Workers : Working(v) /\ Working(w) => v = w
  /\ \A p, q \in Pids : InHand(p) /\ InHand(q) => p = q
  /\ \A w \in Workers, p \in Pids : ~(Working(w) /\ InHand(p))

(* Without a program that failed to start, one worker at a time is in      *)
(* process().                                                              *)
OneBusy ==
  Strays = {} =>
    /\ \A v, w \in Workers : Busy(v) /\ Busy(w) => v = w
    /\ \A w \in Workers : pc[w] = "signal" => \E p \in Pids : Alive(p)

TurnInv == OneOpen /\ OneInHand /\ OneBusy

(* A child whose program did not start never goes away.                    *)
LEMMA StraysStay ==
  ASSUME TypeInv, [Next]_vars
  PROVE  Strays' = {} => Strays = {}
<1>. USE DEF vars, procs
<1>0. child \in Processes
  BY DEF TypeInv, TypeOK, Processes
<1>1. SUFFICES ASSUME NEW p \in Pids, child[p].state \in {"stray", "lost"}
               PROVE  child'[p].state \in {"stray", "lost"}
  BY DEF Strays
<1>2. UNCHANGED child => child'[p].state \in {"stray", "lost"}
  BY <1>1
<1>3. ASSUME NEW w \in Workers, Work(w)
      PROVE  child'[p].state \in {"stray", "lost"}
  <2>1. CASE Fork(w)
    <3>1. PICK q \in Free : child' = [child EXCEPT ![q] = NewChild(at[w])]
      BY <2>1 DEF Fork
    <3>2. q # p
      BY <1>1 DEF Free, NoProcess
    <3>. QED
      BY <1>0, <1>1, <3>1, <3>2 DEF Processes
  <2>2. CASE Wait(w)
    BY <1>0, <1>1, <2>2 DEF Wait, Processes
  <2>3. CASE \/ \E c \in Conns, r \in Requests : Stat(w, c, r)
             \/ FillError(w) \/ Mmap(w) \/ FillFile(w) \/ FillEmpty(w)
             \/ ForkFails(w) \/ SetHandler(w) \/ FillPage(w)
    BY <1>2, <2>3 DEF Stat, FillError, Mmap, FillFile, FillEmpty, ForkFails, SetHandler, FillPage
  <2>. QED
    BY <1>3, <2>1, <2>2, <2>3 DEF Work
<1>4. ASSUME NEW q \in Pids, ChildEnds(q) \/ StrayArms(q)
      PROVE  child'[p].state \in {"stray", "lost"}
  BY <1>0, <1>1, <1>4, ChildEnded, StrayArmed DEF ChildEnds
<1>5. ASSUME NEW t \in Threads, Signal(t) \/ HandlerEnds(t)
      PROVE  UNCHANGED child
  BY <1>5 DEF Signal, HandlerEnds
<1>6. ASSUME NEW c \in Conns, CloseConn(c)
      PROVE  child'[p].state \in {"stray", "lost"}
  BY <1>0, <1>1, <1>6, ClosedForChildren
<1>7. ASSUME NEW c \in Conns, \/ Accept(c) \/ Close(c) \/ Write(c) \/ WriteNothing(c)
                              \/ WriteAgain(c) \/ WriteFailed(c)
      PROVE  UNCHANGED child \/ CloseConn(c)
  BY <1>7 DEF Accept, Close, Write, WriteNothing, WriteAgain, WriteFailed
<1>. QED
  BY <1>2, <1>3, <1>4, <1>5, <1>6, <1>7 DEF Next

(* While epoll watches the connection nobody has it in hand.               *)
LEMMA NoneInHand ==
  ASSUME TurnInv, NEW c \in Conns, arm[c] \in {"in", "out"}
  PROVE  /\ \A w \in Workers : ~Working(w)
         /\ \A p \in Pids : ~InHand(p)
         /\ \A d \in Conns : d # c => arm[d] = "closed"
  BY DEF TurnInv, OneOpen, OneInHand

(* A worker that waits has a child to wait for, if not a stray one, or is  *)
(* on its own.                                                             *)
LEMMA Aided ==
  ASSUME TypeInv, NEW w \in Workers, pc[w] = "wait", Strays = {}
  PROVE  (\E p \in Pids : Alive(p)) \/ Working(w)
<1>. SUFFICES ASSUME \A p \in Pids : ~Alive(p)
              PROVE  \A p \in Pids : child[p] = NoProcess
  BY DEF Working, Unaided
<1>1. \A p \in Pids : child[p].state \in {"none", "running", "ended", "stray", "lost"}
  BY DEF TypeInv, TypeOK
<1>2. \A p \in Pids : child[p].state = "none"
  BY <1>1 DEF Alive, Strays
<1>. QED
  BY <1>2 DEF TypeInv, ProcessesInv

(* While epoll watches the connection no worker is in process(), but for   *)
(* those that a stray child has left behind.                               *)
LEMMA NobodyBusy ==
  ASSUME TypeInv, TurnInv, Strays = {}, NEW c \in Conns, arm[c] \in {"in", "out"}
  PROVE  /\ \A w \in Workers : ~Busy(w)
         /\ \A d \in Conns : d # c => arm[d] = "closed"
<1>1. /\ \A w \in Workers : ~Working(w)
      /\ \A p \in Pids : ~InHand(p)
      /\ \A d \in Conns : d # c => arm[d] = "closed"
  BY NoneInHand
<1>2. ASSUME NEW w \in Workers, Busy(w)
      PROVE  FALSE
  <2>1. pc[w] \in {"signal", "wait"}
    BY <1>1, <1>2 DEF TypeInv, TypeOK, Busy, Working
  <2>2. \E p \in Pids : Alive(p)
    BY <1>1, <2>1, Aided DEF TurnInv, OneBusy
  <2>. QED
    BY <1>1, <2>2 DEF InHand
<1>. QED
  BY <1>1, <1>2

(* The connection is closed while no stray child knows it.                 *)
LEMMA ClosedAlone ==
  ASSUME TypeInv, TurnInv, NEW c \in Conns, arm[c] \in {"in", "out"}, CloseConn(c)
  PROVE  UNCHANGED child
<1>1. child \in Processes
  BY DEF TypeInv, TypeOK, Processes
<1>2. \A p \in Pids : child[p].conn # c
  BY NoneInHand, ResponderAssumption DEF InHand
<1>3. \A p \in Pids : child'[p] = child[p]
  BY <1>1, <1>2, ClosedForChildren
<1>4. child' \in Processes
  BY <1>1, ClosedForChildren
<1>. QED
  BY <1>1, <1>3, <1>4 DEF Processes

(* A connection is accepted only when the one before it is closed.         *)
LEMMA OpenedAlone ==
  ASSUME TypeInv, TurnInv, MaxOpen = 1, NEW c \in Conns, Accept(c)
  PROVE  /\ \A d \in Conns : arm[d] = "closed"
         /\ \A w \in Workers : ~Working(w)
         /\ \A p \in Pids : ~InHand(p)
<1>1. IsFiniteSet(Open)
  BY ResponderAssumption, FS_Subset DEF Open
<1>2. Cardinality(Open) = 0
  BY <1>1, FS_CardinalityType DEF Accept
<1>3. Open = {}
  BY <1>1, <1>2, FS_EmptySet
<1>4. \A d \in Conns : arm[d] = "closed"
  BY <1>3 DEF Open
<1>. QED
  BY <1>4 DEF TurnInv, OneInHand

(* With at most one connection open, it stays in one pair of hands.        *)
LEMMA TurnStep ==
  ASSUME TypeInv, TurnInv, MaxOpen = 1, [Next]_vars
  PROVE  TurnInv'
<1>. USE DEF vars, thread, conn, file, page, procs, signals
<1>0. /\ pc \in [Workers -> {"idle", "error", "map", "file", "fork", "signal", "wait",
                             "page"}]
      /\ at \in [Workers -> Conns \cup {None}]
      /\ child \in Processes /\ ProcessesInv /\ arm \in Arms
      /\ OneOpen /\ OneInHand /\ OneBusy
  BY DEF TypeInv, TypeOK, Processes, Arms, TurnInv
<1>s. Strays' = {} => Strays = {}
  BY StraysStay
<1>1. ASSUME NEW w \in Workers, NEW c \in Conns, NEW r \in Requests, Stat(w, c, r)
      PROVE  TurnInv'
  <2>1. arm[c] = "in"
    BY <1>1 DEF Stat
  <2>2. /\ \A v \in Workers : ~Working(v)
        /\ \A p \in Pids : ~InHand(p)
        /\ \A d \in Conns : d # c => arm[d] = "closed"
    BY <2>1, NoneInHand
  <2>3. /\ arm'[c] = "off" /\ \A d \in Conns : d # c => arm'[d] = "closed"
        /\ \A v \in Workers : v # w => pc'[v] = pc[v]
        /\ child' = child /\ pc'[w] # "signal"
    BY <1>0, <1>1, <2>2 DEF Stat, Goto, Arms
  <2>4. OneOpen'
    BY <2>3 DEF OneOpen
  <2>5. OneInHand'
    <3>1. \A v \in Workers : v # w => ~Working(v)'
      BY <2>2, <2>3 DEF Working, Unaided
    <3>2. \A p \in Pids : ~InHand(p)'
      BY <2>2, <2>3 DEF InHand, Alive
    <3>. QED
      BY <2>3, <3>1, <3>2 DEF OneInHand
  <2>6. OneBusy'
    <3>1. SUFFICES ASSUME Strays = {}
                   PROVE  /\ \A v \in Workers : v # w => ~Busy(v)'
                          /\ \A v \in Workers : pc'[v] # "signal"
      BY <1>s DEF OneBusy
    <3>2. \A v \in Workers : ~Busy(v)
      BY <2>1, <3>1, NobodyBusy
    <3>. QED
      BY <2>3, <3>2 DEF Busy
  <2>. QED
    BY <2>4, <2>5, <2>6 DEF TurnInv
<1>2. ASSUME NEW w \in Workers, FillError(w) \/ FillFile(w) \/ FillPage(w)
      PROVE  TurnInv'
  <2>1. /\ Working(w) /\ pc'[w] = "idle" /\ \A v \in Workers : v # w => pc'[v] = pc[v]
        /\ Arm(at[w], "out") /\ child' = child
    BY <1>0, <1>2 DEF FillError, FillFile, FillPage, Goto, Leave, Working
  <2>2. \A d \in Conns : arm[d] = "closed" => arm'[d] = "closed"
    BY <1>0, <2>1 DEF Arm, Arms
  <2>3. OneOpen'
    BY <1>0, <2>2 DEF OneOpen
  <2>4. (\A v \in Workers : ~Working(v)') /\ (\A p \in Pids : ~InHand(p)')
    BY <1>0, <2>1 DEF OneInHand, Working, Unaided, InHand, Alive
  <2>5. OneInHand'
    BY <2>4 DEF OneInHand
  <2>6. OneBusy'
    BY <1>0, <2>1 DEF OneBusy, Busy, Alive, Strays
  <2>. QED
    BY <2>3, <2>5, <2>6 DEF TurnInv
<1>3. ASSUME NEW w \in Workers, Mmap(w) \/ FillEmpty(w)
      PROVE  TurnInv'
  <2>1. /\ UNCHANGED <<arm, child>>
        /\ \A v \in Workers : Working(v)' = Working(v)
    BY <1>0, <1>3 DEF Mmap, FillEmpty, Goto, Working, Unaided
  <2>2. OneBusy'
    BY <1>0, <1>3, <2>1 DEF Mmap, FillEmpty, Goto, OneBusy, Busy, Alive, Strays
  <2>. QED
    BY <1>0, <2>1, <2>2 DEF TurnInv, OneOpen, OneInHand, InHand, Alive
<1>13. ASSUME NEW w \in Workers, SetHandler(w)
       PROVE  TurnInv'
  <2>1. /\ UNCHANGED <<arm, child>> /\ pc[w] = "signal" /\ pc'[w] = "wait"
        /\ \A v \in Workers : v # w => pc'[v] = pc[v]
    BY <1>0, <1>13 DEF SetHandler, Goto
  <2>2. \E p \in Pids : child[p] # NoProcess
    <3>1. CASE Strays = {}
      BY <1>0, <2>1, <3>1 DEF OneBusy, Alive, NoProcess
    <3>2. CASE Strays # {}
      BY <3>2 DEF Strays, NoProcess
    <3>. QED
      BY <3>1, <3>2
  <2>3. \A v \in Workers : Working(v)' = Working(v)
    BY <1>0, <2>1, <2>2 DEF Working, Unaided
  <2>4. OneBusy'
    BY <1>0, <2>1 DEF OneBusy, Busy, Alive, Strays
  <2>. QED
    BY <1>0, <2>1, <2>3, <2>4 DEF TurnInv, OneOpen, OneInHand, InHand, Alive
<1>4. ASSUME NEW w \in Workers, Fork(w)
      PROVE  TurnInv'
  <2>1. PICK p \in Pids : child' = [child EXCEPT ![p] = NewChild(at[w])]
    BY <1>4 DEF Fork, Free
  <2>2. /\ Working(w) /\ pc[w] = "fork" /\ pc'[w] = "signal" /\ arm' = arm
        /\ \A v \in Workers : v # w => pc'[v] = pc[v]
    BY <1>0, <1>4 DEF Fork, Goto, Working
  <2>3. /\ \A q \in Pids : q # p => child'[q] = child[q]
        /\ child'[p] = NewChild(at[w]) /\ child'[p] # NoProcess
    BY <1>0, <2>1 DEF Processes, NewChild, NoProcess
  <2>4. (\A v \in Workers : ~Working(v)') /\ (\A q \in Pids : q # p => ~InHand(q)')
    BY <1>0, <2>2, <2>3 DEF OneInHand, Working, Unaided, InHand, Alive
  <2>5. \E c \in Conns : arm'[c] = "off"
    BY <1>0, <2>2 DEF OneInHand
  <2>6. OneBusy'
    <3>1. SUFFICES ASSUME Strays' = {}
                   PROVE  /\ \A v, u \in Workers : Busy(v)' /\ Busy(u)' => v = u
                          /\ \E q \in Pids : Alive(q)'
      BY DEF OneBusy
    <3>2. Alive(p)'
      BY <2>3, <3>1 DEF Alive, Strays, NewChild
    <3>3. \A v \in Workers : Busy(v)' => Busy(v)
      BY <2>2 DEF Busy
    <3>. QED
      BY <1>0, <1>s, <3>1, <3>2, <3>3 DEF OneBusy
  <2>. QED
    BY <1>0, <2>2, <2>4, <2>5, <2>6 DEF TurnInv, OneOpen, OneInHand
<1>14. ASSUME NEW w \in Workers, ForkFails(w)
       PROVE  TurnInv'
  <2>1. /\ Working(w) /\ pc[w] = "fork" /\ pc'[w] = "wait" /\ UNCHANGED <<arm, child>>
        /\ \A v \in Workers : v # w => pc'[v] = pc[v]
    BY <1>0, <1>14 DEF ForkFails, Goto, Working
  <2>2. /\ \A v \in Workers : v # w => ~Working(v)'
        /\ \A q \in Pids : ~InHand(q)'
        /\ \E c \in Conns : arm'[c] = "off"
    BY <1>0, <2>1 DEF OneInHand, Working, Unaided, InHand, Alive
  <2>3. OneBusy'
    BY <1>0, <2>1 DEF OneBusy, Busy, Alive, Strays
  <2>. QED
    BY <1>0, <2>1, <2>2, <2>3 DEF TurnInv, OneOpen, OneInHand
<1>5. ASSUME NEW w \in Workers, Wait(w)
      PROVE  TurnInv'
  <2>1. /\ arm' = arm /\ pc[w] = "wait" /\ pc'[w] = "page"
        /\ \A v \in Workers : v # w => pc'[v] = pc[v]
    BY <1>0, <1>5 DEF Wait, Goto
  <2>2. ASSUME NEW p \in Pids, child[p].state = "ended", child' = [child EXCEPT ![p] = NoProcess]
        PROVE  TurnInv'
    <3>1. /\ InHand(p) /\ \A q \in Pids : q # p => child'[q] = child[q]
          /\ child'[p] = NoProcess
      BY <1>0, <2>2 DEF InHand, Alive, Processes
    <3>2. \A q \in Pids : ~InHand(q)'
      BY <1>0, <3>1 DEF OneInHand, InHand, Alive, NoProcess
    <3>3. Strays' = Strays
      BY <2>2, <3>1 DEF Strays, NoProcess
    <3>4. ASSUME NEW v \in Workers, v # w, Working(v)'
          PROVE  FALSE
      <4>1. ~Working(v)
        BY <1>0, <3>1 DEF OneInHand
      <4>2. pc[v] = "wait" /\ \A q \in Pids : child'[q] = NoProcess
        BY <2>1, <3>4, <4>1 DEF Working, Unaided
      <4>3. Strays = {}
        BY <3>3, <4>2 DEF Strays, NoProcess
      <4>. QED
        BY <1>0, <2>1, <3>4, <4>2, <4>3 DEF OneBusy, Busy
    <3>5. OneBusy'
      BY <1>0, <2>1, <3>3 DEF OneBusy, Busy
    <3>6. \E c \in Conns : arm'[c] = "off"
      BY <1>0, <2>1, <3>1 DEF OneInHand
    <3>. QED
      BY <1>0, <2>1, <3>2, <3>4, <3>5, <3>6 DEF TurnInv, OneOpen, OneInHand
  <2>3. CASE (\A p \in Pids : child[p] = NoProcess) /\ UNCHANGED child
    <3>1. Working(w) /\ \A v \in Workers : v # w => ~Working(v)'
      BY <1>0, <2>1, <2>3 DEF OneInHand, Working, Unaided
    <3>2. (\A q \in Pids : ~InHand(q)') /\ \E c \in Conns : arm'[c] = "off"
      BY <1>0, <2>1, <2>3, <3>1 DEF OneInHand, InHand, Alive
    <3>3. OneBusy'
      BY <1>0, <2>1, <2>3 DEF OneBusy, Busy, Alive, Strays
    <3>. QED
      BY <1>0, <2>1, <3>1, <3>2, <3>3 DEF TurnInv, OneOpen, OneInHand
  <2>. QED
    BY <1>5, <2>2, <2>3 DEF Wait
<1>6. ASSUME NEW p \in Pids, ChildEnds(p)
      PROVE  TurnInv'
  <2>1. UNCHANGED <<pc, arm>> /\ child[p].state = "running"
    BY <1>6 DEF ChildEnds
  <2>2. /\ child'[p].state = "ended" /\ \A q \in Pids \ {p} : child'[q] = child[q]
        /\ child'[p].conn = child[p].conn
    BY <1>0, <1>6, ChildEnded
  <2>3. \A q \in Pids : InHand(q)' = InHand(q) /\ Alive(q)' = Alive(q)
    BY <2>1, <2>2 DEF InHand, Alive
  <2>4. child[p] # NoProcess /\ child'[p] # NoProcess
    BY <2>1, <2>2 DEF NoProcess
  <2>5. \A w \in Workers : Working(w)' = Working(w)
    BY <2>1, <2>4 DEF Working, Unaided
  <2>6. OneBusy'
    BY <1>0, <1>s, <2>1, <2>3 DEF OneBusy, Busy
  <2>. QED
    BY <1>0, <2>1, <2>3, <2>5, <2>6 DEF TurnInv, OneOpen, OneInHand
<1>7. ASSUME NEW p \in Pids, StrayArms(p)
      PROVE  TurnInv'
  <2>0. /\ child[p].state = "stray" /\ child'[p].state = "lost" /\ UNCHANGED pc
        /\ \A q \in Pids \ {p} : child'[q] = child[q]
    BY <1>0, <1>7, StrayArmed DEF StrayArms
  <2>1. \A w \in Workers : Working(w)' = Working(w)
    <3>1. child[p] # NoProcess /\ child'[p] # NoProcess
      BY <2>0 DEF NoProcess
    <3>. QED
      BY <2>0, <3>1 DEF Working, Unaided
  <2>2. ~InHand(p)' /\ \A q \in Pids : InHand(q)' => InHand(q)
    BY <1>0, <1>7, StrayArmed DEF InHand, Alive
  <2>3. OneBusy'
    BY <2>0 DEF OneBusy, Strays
  <2>4. CASE child[p].conn = None
    <3>1. UNCHANGED arm
      BY <1>7, <2>4 DEF StrayArms
    <3>. QED
      BY <1>0, <2>1, <2>2, <2>3, <3>1 DEF TurnInv, OneOpen, OneInHand
  <2>5. CASE child[p].conn # None
    <3>1. \A d \in Conns : arm[d] = "closed" => arm'[d] = "closed"
      BY <1>0, <1>7, <2>5 DEF StrayArms, Arm, Arms
    <3>2. OneOpen'
      BY <1>0, <3>1 DEF OneOpen
    <3>3. (\A v \in Workers : ~Working(v)') /\ (\A q \in Pids : ~InHand(q)')
      <4>1. InHand(p)
        BY <2>5 DEF InHand
      <4>. QED
        BY <1>0, <2>1, <2>2, <4>1 DEF OneInHand
    <3>4. OneInHand'
      BY <3>3 DEF OneInHand
    <3>. QED
      BY <2>3, <3>2, <3>4 DEF TurnInv
  <2>. QED
    BY <2>4, <2>5
<1>8. ASSUME UNCHANGED <<pc, child, arm>>
      PROVE  TurnInv'
  BY <1>0, <1>8 DEF TurnInv, OneOpen, OneInHand, OneBusy, Working, Unaided, InHand, Alive, Busy,
                    Strays
<1>9. ASSUME NEW t \in Threads, Signal(t) \/ HandlerEnds(t)
      PROVE  TurnInv'
  BY <1>8, <1>9 DEF Signal, HandlerEnds
<1>10. ASSUME NEW c \in Conns, Accept(c)
       PROVE  TurnInv'
  <2>1. /\ \A d \in Conns : arm[d] = "closed"
        /\ \A w \in Workers : ~Working(w)
        /\ \A p \in Pids : ~InHand(p)
    BY <1>10, OpenedAlone
  <2>2. UNCHANGED <<pc, child>> /\ \A d \in Conns : d # c => arm'[d] = "closed"
    BY <1>0, <1>10, <2>1 DEF Accept, Arms
  <2>3. OneOpen'
    BY <2>2 DEF OneOpen
  <2>4. OneBusy'
    BY <1>0, <2>2 DEF OneBusy, Busy, Alive, Strays
  <2>5. (\A w \in Workers : ~Working(w)') /\ (\A p \in Pids : ~InHand(p)')
    BY <2>1, <2>2 DEF Working, Unaided, InHand, Alive
  <2>. QED
    BY <2>3, <2>4, <2>5 DEF TurnInv, OneInHand
<1>11. ASSUME NEW c \in Conns, Close(c) \/ Write(c) \/ WriteNothing(c) \/ WriteFailed(c)
       PROVE  TurnInv'
  <2>1. arm[c] \in {"in", "out"} /\ UNCHANGED pc
    BY <1>11 DEF Close, Write, WriteNothing, WriteFailed, Writable
  <2>2. UNCHANGED child \/ CloseConn(c)
    BY <1>11 DEF Close, Write, WriteNothing, WriteFailed
  <2>3. UNCHANGED child
    BY <2>1, <2>2, ClosedAlone
  <2>4. /\ \A w \in Workers : ~Working(w)
        /\ \A p \in Pids : ~InHand(p)
        /\ \A d \in Conns : d # c => arm[d] = "closed"
    BY <2>1, NoneInHand
  <2>5. \A d \in Conns : d # c => arm'[d] = "closed"
    <3>1. arm' = [arm EXCEPT ![c] = "in"] \/ arm' = [arm EXCEPT ![c] = "closed"]
      BY <1>11 DEF Close, Write, WriteNothing, WriteFailed, CloseConn
    <3>. QED
      BY <1>0, <2>4, <3>1 DEF Arms
  <2>6. OneOpen'
    BY <2>5 DEF OneOpen
  <2>7. OneBusy'
    BY <1>0, <2>1, <2>3 DEF OneBusy, Busy, Alive, Strays
  <2>8. (\A w \in Workers : ~Working(w)') /\ (\A p \in Pids : ~InHand(p)')
    BY <2>1, <2>3, <2>4 DEF Working, Unaided, InHand, Alive
  <2>. QED
    BY <2>6, <2>7, <2>8 DEF TurnInv, OneInHand
<1>12. ASSUME NEW c \in Conns, WriteAgain(c)
       PROVE  TurnInv'
  BY <1>8, <1>12 DEF WriteAgain
<1>. QED
  BY <1>1, <1>2, <1>3, <1>4, <1>5, <1>6, <1>7, <1>8, <1>9, <1>10, <1>11, <1>12, <1>13, <1>14
     DEF Next, Work

-------------------------------------------------------------------------------
(* The handler of SIGCHLD                                                  *)

(* While a program runs, the latest pipe is its own, and the handler is    *)
(* set for its page or is about to be; once it has ended nobody sets a     *)
(* handler; and the worker that started it waits for it.                   *)
HandlerSet ==
  /\ \A w \in Workers : pc[w] = "signal" /\ req[at[w]] \in Pages =>
       \/ \E v \in Workers : pc[v] = "fork" /\ at[v] = at[w]
       \/ \E p \in Pids : child[p].state = "running" /\ child[p].req = req[at[w]]
  /\ \A p \in Pids : child[p].state = "running" =>
       /\ cgiPipe = p
       /\ \/ handler = child[p].req
          \/ \E w \in Workers : pc[w] = "signal" /\ req[at[w]] = child[p].req
  /\ \A p \in Pids, w \in Workers : child[p].state = "ended" => pc[w] # "signal"
  /\ \A p \in Pids : Alive(p) =>
       \E w \in Workers : pc[w] \in {"signal", "wait"} /\ req[at[w]] = child[p].req

(* The handler that is set when a program ends is the one for its page.    *)
LEMMA HandlerSetStep ==
  ASSUME TypeInv, TurnInv, HandlerSet, TimelySignal, [Next]_vars
  PROVE  HandlerSet'
<1>. USE DEF vars, thread, conn, file, page, procs, signals
<1>0. /\ pc \in [Workers -> {"idle", "error", "map", "file", "fork", "signal", "wait",
                             "page"}]
      /\ at \in [Workers -> Conns \cup {None}]
      /\ req \in [Conns -> Requests \cup {None}]
      /\ child \in Processes /\ ProcessesInv /\ arm \in Arms
      /\ OneOpen /\ OneInHand
      /\ \A w \in Workers : pc[w] # "idle" => at[w] \in Conns
  BY DEF TypeInv, TypeOK, Processes, Arms, TurnInv, WorkersInv
<1>1. ASSUME NEW w \in Workers, NEW c \in Conns, NEW r \in Requests, Stat(w, c, r)
      PROVE  HandlerSet'
  <2>1. /\ \A v \in Workers : ~Working(v)
        /\ \A p \in Pids : ~InHand(p)
    BY <1>1, NoneInHand DEF Stat
  <2>2. /\ UNCHANGED <<child, cgiPipe, handler>>
        /\ \A v \in Workers : v # w => pc'[v] = pc[v] /\ at'[v] = at[v]
        /\ \A d \in Conns : d # c => req'[d] = req[d]
        /\ req'[c] = r /\ at'[w] = c /\ pc'[w] \in {"map", "error", "fork"}
    BY <1>0, <1>1 DEF Stat, Goto
  <2>3. r \in Pages => pc'[w] = "fork"
    BY <1>0, <1>1, ResponderAssumption DEF Stat, Goto
  <2>4. ASSUME NEW v \in Workers, pc'[v] = "signal", req'[at'[v]] \in Pages
        PROVE  \E u \in Workers : pc'[u] = "fork" /\ at'[u] = at'[v]
    <3>1. v # w /\ pc[v] = "signal" /\ at'[v] = at[v] /\ at[v] \in Conns
      BY <1>0, <2>2, <2>4
    <3>2. CASE at[v] = c
      BY <2>2, <2>3, <2>4, <3>1, <3>2
    <3>3. CASE at[v] # c
      BY <2>1, <2>2, <2>4, <3>1, <3>3 DEF HandlerSet, Working, InHand, Alive
    <3>. QED
      BY <3>2, <3>3
  <2>. QED
    BY <2>1, <2>2, <2>4 DEF HandlerSet, InHand, Alive
<1>2. ASSUME NEW w \in Workers, FillError(w) \/ FillFile(w) \/ FillPage(w)
      PROVE  HandlerSet'
  <2>1. /\ UNCHANGED <<child, cgiPipe, handler, req>> /\ pc[w] \notin {"signal", "fork"}
        /\ \A v \in Workers : v # w => pc'[v] = pc[v] /\ at'[v] = at[v]
        /\ pc'[w] = "idle" /\ Working(w)
    BY <1>0, <1>2 DEF FillError, FillFile, FillPage, Goto, Leave, Working
  <2>2. \A p \in Pids : ~Alive(p)
    BY <1>0, <2>1 DEF OneInHand, InHand
  <2>. QED
    BY <2>1, <2>2 DEF HandlerSet, Alive
<1>3. ASSUME NEW w \in Workers, Mmap(w) \/ FillEmpty(w)
      PROVE  HandlerSet'
  <2>1. /\ UNCHANGED <<child, cgiPipe, handler, req, at>> /\ pc[w] \notin {"signal", "fork"}
        /\ \A v \in Workers : v # w => pc'[v] = pc[v]
        /\ pc'[w] \in {"file", "fork"} /\ Working(w)
    BY <1>0, <1>3 DEF Mmap, FillEmpty, Goto, Working
  <2>2. \A p \in Pids : ~Alive(p)
    BY <1>0, <2>1 DEF OneInHand, InHand
  <2>. QED
    BY <2>1, <2>2 DEF HandlerSet, Alive
<1>4. ASSUME NEW w \in Workers, Fork(w)
      PROVE  HandlerSet'
  <2>1. PICK p \in Pids : child' = [child EXCEPT ![p] = NewChild(at[w])] /\ cgiPipe' = p
    BY <1>4 DEF Fork, Free
  <2>2. /\ UNCHANGED <<req, at, handler>> /\ pc[w] = "fork" /\ pc'[w] = "signal"
        /\ \A v \in Workers : v # w => pc'[v] = pc[v]
    BY <1>0, <1>4 DEF Fork, Goto
  <2>3. /\ \A q \in Pids : q # p => child'[q] = child[q]
        /\ child'[p] = NewChild(at[w])
    BY <1>0, <2>1 DEF Processes
  <2>4. /\ child'[p].req = req[at[w]]
        /\ child'[p].state = IF req[at[w]] \in Pages THEN "running" ELSE "stray"
    BY <2>3 DEF NewChild
  <2>5. /\ \A q \in Pids : ~InHand(q)
        /\ \A v \in Workers : pc[v] = "fork" => v = w
    BY <1>0, <2>2 DEF OneInHand, Working
  <2>6. \A q \in Pids : q # p => child'[q].state \notin {"running", "ended"}
    BY <2>3, <2>5 DEF InHand, Alive
  <2>7. ASSUME NEW v \in Workers, pc'[v] = "signal", req'[at'[v]] \in Pages
        PROVE  child'[p].state = "running" /\ child'[p].req = req'[at'[v]]
    <3>1. CASE v = w
      BY <2>2, <2>4, <2>7, <3>1
    <3>2. CASE v # w
      BY <2>2, <2>4, <2>5, <2>7, <3>2 DEF HandlerSet, InHand, Alive
    <3>. QED
      BY <3>1, <3>2
  <2>. QED
    BY <2>1, <2>2, <2>4, <2>6, <2>7 DEF HandlerSet, Alive
<1>5. ASSUME NEW w \in Workers, SetHandler(w)
      PROVE  HandlerSet'
  <2>1. /\ UNCHANGED <<child, cgiPipe, req, at>> /\ pc[w] = "signal" /\ pc'[w] = "wait"
        /\ \A v \in Workers : v # w => pc'[v] = pc[v]
        /\ handler' = IF req[at[w]] \in Pages THEN req[at[w]] ELSE handler
    BY <1>0, <1>5 DEF SetHandler, Goto
  <2>2. ASSUME NEW p \in Pids, child[p].state = "running"
        PROVE  \/ handler' = child[p].req
               \/ \E v \in Workers : pc'[v] = "signal" /\ req[at[v]] = child[p].req
    <3>1. InHand(p) /\ child[p].req \in Pages
      BY <1>0, <2>2 DEF InHand, Alive, ProcessesInv
    <3>2. CASE req[at[w]] \in Pages
      <4>1. \E q \in Pids : child[q].state = "running" /\ child[q].req = req[at[w]]
        BY <1>0, <2>1, <3>1, <3>2 DEF HandlerSet, OneInHand, Working
      <4>. QED
        BY <1>0, <2>1, <3>1, <3>2, <4>1 DEF OneInHand, InHand, Alive
    <3>3. CASE req[at[w]] \notin Pages
      BY <2>1, <2>2, <3>1, <3>3 DEF HandlerSet
    <3>. QED
      BY <3>2, <3>3
  <2>3. \A v \in Workers : pc[v] \in {"signal", "wait"} => pc'[v] \in {"signal", "wait"}
    BY <2>1
  <2>. QED
    BY <2>1, <2>2, <2>3 DEF HandlerSet, Alive
<1>13. ASSUME NEW w \in Workers, ForkFails(w)
       PROVE  HandlerSet'
  <2>1. /\ UNCHANGED <<child, at, handler>> /\ pc[w] = "fork" /\ pc'[w] = "wait" /\ Working(w)
        /\ at[w] \in Conns
        /\ \A v \in Workers : v # w => pc'[v] = pc[v]
        /\ \A d \in Conns : d # at[w] => req'[d] = req[d]
        /\ req'[at[w]] = None
    BY <1>0, <1>13 DEF ForkFails, Goto, Working
  <2>2. /\ \A p \in Pids : ~InHand(p)
        /\ \A v \in Workers : pc[v] = "fork" => v = w
    BY <1>0, <2>1 DEF OneInHand, Working
  <2>3. \A p \in Pids : ~Alive(p) /\ child[p].state \notin {"running", "ended"}
    BY <2>2 DEF InHand, Alive
  <2>4. ASSUME NEW v \in Workers, pc'[v] = "signal", req'[at'[v]] \in Pages
        PROVE  FALSE
    <3>1. pc[v] = "signal" /\ v # w /\ at[v] \in Conns
      BY <1>0, <2>1, <2>4
    <3>2. None \notin Pages
      BY ResponderAssumption DEF Requests
    <3>3. at[v] # at[w] /\ req[at[v]] \in Pages
      BY <2>1, <2>4, <3>1, <3>2
    <3>. QED
      BY <2>2, <2>3, <3>1, <3>3 DEF HandlerSet
  <2>. QED
    BY <2>1, <2>3, <2>4 DEF HandlerSet, Alive
<1>6. ASSUME NEW w \in Workers, Wait(w)
      PROVE  HandlerSet'
  <2>0. /\ UNCHANGED <<at, req, cgiPipe, handler>> /\ pc[w] = "wait" /\ pc'[w] = "page"
        /\ \A v \in Workers : v # w => pc'[v] = pc[v]
    BY <1>0, <1>6 DEF Wait, Goto
  <2>1. ASSUME NEW p \in Pids, child[p].state = "ended", child' = [child EXCEPT ![p] = NoProcess]
        PROVE  HandlerSet'
    <3>1. /\ \A q \in Pids : q # p => child'[q] = child[q]
          /\ child'[p] = NoProcess
          /\ \A v \in Workers : pc'[v] # "signal"
      BY <1>0, <2>0, <2>1 DEF Processes, HandlerSet
    <3>2. \A q \in Pids : child'[q].state \notin {"running", "ended"}
      BY <1>0, <2>1, <3>1 DEF OneInHand, InHand, Alive, NoProcess
    <3>. QED
      BY <3>1, <3>2 DEF HandlerSet, Alive
  <2>2. CASE (\A p \in Pids : child[p] = NoProcess) /\ UNCHANGED child
    <3>1. \A q \in Pids : child[q].state \notin {"running", "ended"}
      BY <2>2 DEF NoProcess
    <3>. QED
      BY <2>0, <2>2, <3>1 DEF HandlerSet, Alive
  <2>. QED
    BY <1>6, <2>1, <2>2 DEF Wait
<1>7. ASSUME NEW p \in Pids, ChildEnds(p)
      PROVE  HandlerSet'
  <2>1. /\ child[p].state = "running" /\ UNCHANGED <<pc, at, req, cgiPipe, handler>>
        /\ \A v \in Workers : pc[v] # "signal"
    BY <1>7 DEF ChildEnds
  <2>2. \A q \in Pids : child'[q].state # "running"
    BY <1>0, <1>7, <2>1, ChildEnded DEF OneInHand, InHand, Alive
  <2>3. child'[p].req = child[p].req /\ \A q \in Pids \ {p} : child'[q] = child[q]
    BY <1>0, <1>7, ChildEnded
  <2>. QED
    BY <2>1, <2>2, <2>3 DEF HandlerSet, Alive
<1>8. ASSUME NEW p \in Pids, StrayArms(p)
      PROVE  HandlerSet'
  <2>1. child[p].state = "stray" /\ UNCHANGED <<pc, at, req, cgiPipe, handler>>
    BY <1>8 DEF StrayArms
  <2>2. /\ child'[p].state = "lost" /\ \A q \in Pids \ {p} : child'[q] = child[q]
    BY <1>0, <1>8, StrayArmed
  <2>. QED
    BY <2>1, <2>2 DEF HandlerSet, Alive
<1>9. ASSUME UNCHANGED <<pc, at, req, child, cgiPipe, handler>>
      PROVE  HandlerSet'
  BY <1>9 DEF HandlerSet, Alive
<1>10. ASSUME NEW t \in Threads, Signal(t) \/ HandlerEnds(t)
       PROVE  HandlerSet'
  BY <1>9, <1>10 DEF Signal, HandlerEnds
<1>11. ASSUME NEW c \in Conns, Accept(c) \/ WriteNothing(c) \/ WriteAgain(c)
       PROVE  HandlerSet'
  BY <1>9, <1>11 DEF Accept, WriteNothing, WriteAgain
<1>12. ASSUME NEW c \in Conns, Close(c) \/ Write(c) \/ WriteFailed(c)
       PROVE  HandlerSet'
  <2>1. /\ arm[c] \in {"in", "out"} /\ UNCHANGED <<pc, at, req, cgiPipe, handler>>
        /\ UNCHANGED child \/ CloseConn(c)
    BY <1>12 DEF Close, Write, WriteFailed, Writable
  <2>. QED
    BY <1>9, <2>1, ClosedAlone
<1>. QED
  BY <1>1, <1>2, <1>3, <1>4, <1>5, <1>6, <1>7, <1>8, <1>9, <1>10, <1>11, <1>12,
     <1>13 DEF Next, Work

(* A thread that is in a handler and will get output; a child whose page   *)
(* is not made yet.                                                        *)
Reading(t) == inHandler[t] # None /\ inHandler[t].page \notin Silent
Pending == sigchld \/ \E t \in Threads : Reading(t)

(* SIGCHLD finds the pipe and the handler of the child that has ended; one *)
(* thread at a time reads; what the pipes hold is the output of that       *)
(* child, or what was left of a text that had been cut.                    *)
HandlersInv ==
  /\ sigchld => \E p \in Pids : child[p].state = "ended" /\ cgiPipe = p /\ handler = child[p].req
  /\ \A t \in Threads : Reading(t) => ~sigchld /\ child[inHandler[t].pipe].state = "ended"
  /\ \A s, t \in Threads : Reading(s) /\ Reading(t) => s = t
  /\ \A t \in Threads : inHandler[t] # None =>
       \/ child[inHandler[t].pipe] = NoProcess
       \/ /\ child[inHandler[t].pipe].state = "ended"
          /\ child[inHandler[t].pipe].req = inHandler[t].page
  /\ \A o \in output : o.req # Mixed =>
       /\ child[o.pipe].state = "ended" /\ child[o.pipe].req = o.req
       /\ o.req \notin Silent
       /\ Pending
  /\ \A o \in output : o.req = Mixed =>
       child[o.pipe] = NoProcess \/ (child[o.pipe].state = "ended" /\ ~Pending)

(* The pipes that handlers read are apart from each other, from that of    *)
(* the child SIGCHLD is for, and from those that hold the rest of a text.  *)
PipesInv ==
  \A t \in Threads : inHandler[t] # None =>
    /\ sigchld => inHandler[t].pipe # cgiPipe
    /\ \A o \in output : o.req = Mixed => o.pipe # inHandler[t].pipe
    /\ \A s \in Threads :
         inHandler[s] # None /\ inHandler[s].pipe = inHandler[t].pipe => s = t

(* A handler that ends has read the output of the program that it parses,  *)
(* and leaves in the pipes only what was cut.                              *)
LEMMA ReadsOutput ==
  ASSUME TypeInv, TurnInv, HandlersInv, PipesInv, NEW t \in Threads, HandlerEnds(t)
  PROVE  /\ Reading(t)
         /\ inHandler[t] \in [pipe : Pids, page : Pages]
         /\ child[inHandler[t].pipe].state = "ended"
         /\ child[inHandler[t].pipe].req = inHandler[t].page
         /\ jsonDataBuf' = RecvOver(jsonDataBuf, inHandler[t].page)
         /\ \A o \in output' : /\ o.req = Mixed
                               /\ o.pipe = inHandler[t].pipe \/ child[o.pipe] = NoProcess
<1>. DEFINE p == inHandler[t].pipe
<1>0. /\ inHandler[t] \in [pipe : Pids, page : Pages] /\ p \in Pids
      /\ output \subseteq [pipe : Pids, req : Pages \cup {Mixed}]
  BY DEF TypeInv, TypeOK, HandlerEnds
<1>1. PICK o \in OldOutput(p) : /\ output' = (output \ {o}) \cup Rest(o)
                                /\ jsonDataBuf' = RecvOver(jsonDataBuf, o.req)
  BY DEF HandlerEnds
<1>2. o \in output /\ o.pipe = p /\ inHandler[t] # None
  BY DEF OldOutput, HandlerEnds
<1>3. \A q \in output : q.req # Mixed => q.pipe \in Pids /\ child[q.pipe].state = "ended"
                                       /\ child[q.pipe].req = q.req /\ q.req \notin Silent
  BY <1>0 DEF HandlersInv
<1>4. o.req # Mixed
  BY <1>2 DEF PipesInv
<1>5. child[p].state = "ended" /\ child[p].req = o.req /\ o.req \notin Silent
  BY <1>2, <1>3, <1>4
<1>6. child[p].req = inHandler[t].page
  <2>1. child[p] # NoProcess
    BY <1>5 DEF NoProcess
  <2>. QED
    BY <1>2, <2>1 DEF HandlersInv
<1>7. Reading(t)
  BY <1>2, <1>5, <1>6 DEF Reading
<1>8. ASSUME NEW q \in output, q.req # Mixed
      PROVE  q = o
  <2>1. child[q.pipe].state = "ended" /\ child[q.pipe].req = q.req /\ q.pipe \in Pids
    BY <1>3, <1>8
  <2>2. q.pipe = p
    BY <1>0, <1>5, <2>1 DEF TurnInv, OneInHand, InHand, Alive
  <2>3. q.req = o.req
    BY <1>5, <2>1, <2>2
  <2>. QED
    BY <1>0, <1>2, <2>2, <2>3
<1>9. ASSUME NEW q \in output, q.req = Mixed
      PROVE  child[q.pipe] = NoProcess
  BY <1>7, <1>9 DEF HandlersInv, Pending
<1>10. \A q \in Rest(o) : q.req = Mixed /\ q.pipe = p
  BY <1>2 DEF Rest
<1>11. ASSUME NEW q \in output'
       PROVE  q.req = Mixed /\ (q.pipe = p \/ child[q.pipe] = NoProcess)
  BY <1>1, <1>8, <1>9, <1>10
<1>. QED
  BY <1>0, <1>1, <1>5, <1>6, <1>7, <1>11

(* The signal, the pipe, the handler and the child belong together.        *)
LEMMA HandlersStep ==
  ASSUME TypeInv, TurnInv, HandlerSet, HandlersInv, PipesInv, TimelySignal, [Next]_vars
  PROVE  HandlersInv'
<1>. USE DEF vars, thread, conn, file, page, procs, signals
<1>0. /\ pc \in [Workers -> {"idle", "error", "map", "file", "fork", "signal", "wait",
                             "page"}]
      /\ child \in Processes /\ ProcessesInv /\ OneInHand
      /\ inHandler \in [Threads -> [pipe : Pids, page : Pages] \cup {None}]
      /\ output \subseteq [pipe : Pids, req : Pages \cup {Mixed}]
      /\ \A t \in Threads : inHandler[t] # None => inHandler[t].pipe \in Pids
  BY DEF TypeInv, TypeOK, Processes, TurnInv
<1>1. ASSUME UNCHANGED <<child, output, cgiPipe, handler, sigchld, inHandler>>
      PROVE  HandlersInv'
  BY <1>1 DEF HandlersInv, Reading, Pending
<1>2. ASSUME NEW w \in Workers,
             \/ \E c \in Conns, r \in Requests : Stat(w, c, r)
             \/ FillError(w) \/ Mmap(w) \/ FillFile(w) \/ FillEmpty(w) \/ FillPage(w)
      PROVE  HandlersInv'
  BY <1>1, <1>2 DEF Stat, FillError, Mmap, FillFile, FillEmpty, FillPage
<1>3. ASSUME NEW w \in Workers, Fork(w) \/ ForkFails(w)
      PROVE  HandlersInv'
  <2>1. PICK p \in Free : /\ child' = [child EXCEPT ![p] = NewChild(at[w])] \/ UNCHANGED child
                          /\ output' = output \ OldOutput(p)
    BY <1>3 DEF Fork, ForkFails
  <2>2. /\ p \in Pids
        /\ \A t \in Threads : inHandler[t] # None => inHandler[t].pipe # p
        /\ \A q \in Pids : q # p => child'[q] = child[q]
        /\ UNCHANGED <<sigchld, inHandler>>
    BY <1>0, <1>3, <2>1 DEF Free, Fork, ForkFails, Processes
  <2>3. \A q \in Pids : child[q].state # "ended"
    BY <1>0, <1>3 DEF Fork, ForkFails, Goto, OneInHand, Working, InHand, Alive
  <2>4. ~sigchld /\ (\A t \in Threads : ~Reading(t))
    BY <1>0, <2>3 DEF HandlersInv, Reading
  <2>5. \A o \in output' : o.req = Mixed /\ child'[o.pipe] = NoProcess
    <3>1. ASSUME NEW o \in output'
          PROVE  o \in output /\ o.pipe \in Pids \ {p}
      BY <1>0, <2>1 DEF OldOutput
    <3>2. ASSUME NEW o \in output'
          PROVE  child[o.pipe].state # "ended" /\ child'[o.pipe] = child[o.pipe] /\ o \in output
      BY <2>2, <2>3, <3>1
    <3>. QED
      BY <3>2 DEF HandlersInv
  <2>6. \A t \in Threads : inHandler[t] # None => inHandler[t].pipe \in Pids \ {p}
    BY <1>0, <2>2
  <2>7. \A t \in Threads : inHandler'[t] # None =>
          child'[inHandler'[t].pipe] = child[inHandler'[t].pipe]
    BY <2>2, <2>6
  <2>. QED
    BY <2>2, <2>4, <2>5, <2>7 DEF HandlersInv, Reading, Pending
<1>4. ASSUME NEW w \in Workers, SetHandler(w)
      PROVE  HandlersInv'
  <2>1. UNCHANGED <<child, output, cgiPipe, sigchld, inHandler>> /\ pc[w] = "signal"
    BY <1>4 DEF SetHandler, Goto
  <2>2. ~sigchld
    BY <2>1 DEF HandlerSet, HandlersInv
  <2>. QED
    BY <2>1, <2>2 DEF HandlersInv, Reading, Pending
<1>5. ASSUME NEW w \in Workers, Wait(w), NEW p \in Pids, child[p].state = "ended",
             child' = [child EXCEPT ![p] = NoProcess]
      PROVE  HandlersInv'
  <2>2. /\ \A q \in Pids : q # p => child'[q] = child[q]
        /\ child'[p] = NoProcess
        /\ UNCHANGED <<output, sigchld, inHandler>>
        /\ ~sigchld /\ \A t \in Threads : ~Reading(t)
    BY <1>0, <1>5 DEF Wait, Handled, Reading, Processes
  <2>3. \A o \in output : o.req = Mixed /\ o.pipe \in Pids
    BY <1>0, <2>2 DEF HandlersInv, Pending
  <2>4. \A q \in Pids : q # p => child[q].state # "ended"
    BY <1>0, <1>5 DEF OneInHand, InHand, Alive
  <2>5. \A o \in output : child'[o.pipe] = NoProcess
    <3>1. \A o \in output : child[o.pipe] = NoProcess \/ child[o.pipe].state = "ended"
      BY <2>3 DEF HandlersInv
    <3>. QED
      BY <2>2, <2>3, <2>4, <3>1
  <2>6. \A t \in Threads : inHandler'[t] # None => child'[inHandler'[t].pipe] = NoProcess
    <3>1. \A t \in Threads : inHandler[t] # None =>
            child[inHandler[t].pipe] = NoProcess \/ child[inHandler[t].pipe].state = "ended"
      BY DEF HandlersInv
    <3>. QED
      BY <1>0, <2>2, <2>4, <3>1
  <2>. QED
    BY <2>2, <2>3, <2>5, <2>6 DEF HandlersInv, Reading, Pending
<1>12. ASSUME NEW w \in Workers, Wait(w)
       PROVE  HandlersInv'
  <2>1. CASE UNCHANGED child
    BY <1>1, <1>12, <2>1 DEF Wait
  <2>2. CASE \E p \in Pids : child[p].state = "ended" /\ child' = [child EXCEPT ![p] = NoProcess]
    BY <1>5, <1>12, <2>2
  <2>. QED
    BY <1>12, <2>1, <2>2 DEF Wait
<1>6. ASSUME NEW p \in Pids, ChildEnds(p)
      PROVE  HandlersInv'
  <2>1. /\ child[p].state = "running" /\ UNCHANGED <<pc, cgiPipe, handler, inHandler>>
        /\ \A w \in Workers : pc[w] # "signal"
        /\ sigchld'
    BY <1>6 DEF ChildEnds
  <2>2. \A q \in Pids : q # p => child[q].state # "ended"
    BY <1>0, <2>1 DEF OneInHand, InHand, Alive
  <2>3. /\ child'[p].state = "ended" /\ child'[p].req = child[p].req
        /\ \A q \in Pids \ {p} : child'[q] = child[q]
    BY <1>0, <1>6, ChildEnded
  <2>4. \A t \in Threads : ~Reading(t)
    BY <1>0, <2>1, <2>2 DEF HandlersInv, Reading
  <2>5. \A o \in output : o.req = Mixed /\ child[o.pipe] = NoProcess /\ o.pipe # p
    <3>1. ASSUME NEW o \in output
          PROVE  child[o.pipe].state # "ended"
      BY <1>0, <2>1, <2>2
    <3>. QED
      BY <2>1, <3>1 DEF HandlersInv, NoProcess
  <2>6. cgiPipe = p /\ handler = child[p].req
    BY <2>1 DEF HandlerSet
  <2>7. \A o \in output' :
           \/ o \in output
           \/ o.pipe = p /\ o.req = child[p].req /\ o.req \notin Silent
    BY <1>6 DEF ChildEnds
  <2>12. child[p].req # Mixed
    BY <1>0, <2>1, ResponderAssumption DEF ProcessesInv, Requests
  <2>13. \A o \in output' :
            /\ o.req = Mixed => child'[o.pipe] = NoProcess
            /\ o.req # Mixed => /\ child'[o.pipe].state = "ended" /\ child'[o.pipe].req = o.req
                               /\ o.req \notin Silent
    BY <1>0, <2>3, <2>5, <2>7, <2>12
  <2>8. \A t \in Threads : inHandler[t] # None => child[inHandler[t].pipe] = NoProcess
    BY <1>0, <2>1, <2>2 DEF HandlersInv
  <2>9. child[p] # NoProcess
    BY <2>1 DEF NoProcess
  <2>10. \A t \in Threads : inHandler'[t] # None => child'[inHandler'[t].pipe] = NoProcess
    BY <1>0, <2>1, <2>3, <2>8, <2>9
  <2>11. \A t \in Threads : ~Reading(t)'
    BY <2>1, <2>4 DEF Reading
  <2>. QED
    BY <2>1, <2>3, <2>6, <2>10, <2>11, <2>13 DEF HandlersInv, Pending
<1>7. ASSUME NEW p \in Pids, StrayArms(p)
      PROVE  HandlersInv'
  <2>1. child[p].state = "stray" /\ child[p] # NoProcess
        /\ UNCHANGED <<output, cgiPipe, handler, sigchld, inHandler>>
    BY <1>7 DEF StrayArms, NoProcess
  <2>2. \A q \in Pids \ {p} : child'[q] = child[q]
    BY <1>0, <1>7, StrayArmed
  <2>3. \A q \in Pids : child[q].state = "ended" \/ child[q] = NoProcess => child'[q] = child[q]
    BY <2>1, <2>2
  <2>4. \A o \in output : o.pipe \in Pids
    BY <1>0
  <2>. QED
    BY <1>0, <2>1, <2>3, <2>4 DEF HandlersInv, Reading, Pending
<1>8. ASSUME NEW t \in Threads, Signal(t)
      PROVE  HandlersInv'
  <2>1. sigchld /\ ~sigchld' /\ UNCHANGED <<child, output, cgiPipe, handler>>
    BY <1>8 DEF Signal
  <2>2. PICK p \in Pids : child[p].state = "ended" /\ cgiPipe = p /\ handler = child[p].req
    BY <2>1 DEF HandlersInv
  <2>3. handler # None
    BY <1>0, <2>2, ResponderAssumption DEF ProcessesInv, Requests
  <2>4. /\ inHandler'[t] = [pipe |-> p, page |-> child[p].req] /\ inHandler'[t] # None
        /\ \A s \in Threads : s # t => inHandler'[s] = inHandler[s]
    <3>1. child[p].req \in Pages
      BY <1>0, <2>2 DEF ProcessesInv
    <3>2. [pipe |-> p, page |-> child[p].req] # None
      BY <3>1, ResponderAssumption
    <3>. QED
      BY <1>0, <1>8, <2>2, <2>3, <3>2 DEF Signal
  <2>5. \A s \in Threads : ~Reading(s)
    BY <2>1 DEF HandlersInv
  <2>6. \A s \in Threads : Reading(s)' => s = t
    BY <2>4, <2>5 DEF Reading
  <2>11. \A o \in output : o.req = Mixed => child[o.pipe] = NoProcess
    BY <2>1 DEF HandlersInv, Pending
  <2>7. ASSUME NEW o \in output, o.req # Mixed
        PROVE  /\ child[o.pipe].state = "ended" /\ child[o.pipe].req = o.req
               /\ o.req \notin Silent
               /\ Reading(t)'
    <3>1. child[o.pipe].state = "ended" /\ child[o.pipe].req = o.req /\ o.req \notin Silent
      BY <2>7 DEF HandlersInv
    <3>2. o.pipe = p
      BY <1>0, <2>2, <3>1 DEF OneInHand, InHand, Alive
    <3>. QED
      BY <2>4, <3>1, <3>2 DEF Reading
  <2>8. /\ inHandler'[t].pipe = p /\ inHandler'[t].page = child[p].req
    BY <2>4
  <2>9. \A s \in Threads : inHandler'[s] # None =>
          \/ child'[inHandler'[s].pipe] = NoProcess
          \/ /\ child'[inHandler'[s].pipe].state = "ended"
             /\ child'[inHandler'[s].pipe].req = inHandler'[s].page
    BY <2>1, <2>2, <2>4, <2>8 DEF HandlersInv
  <2>10. \A s \in Threads : Reading(s)' => ~sigchld' /\ child'[inHandler'[s].pipe].state = "ended"
    BY <2>1, <2>2, <2>6, <2>8
  <2>. QED
    BY <2>1, <2>6, <2>7, <2>9, <2>10, <2>11 DEF HandlersInv, Pending
<1>9. ASSUME NEW t \in Threads, HandlerEnds(t)
      PROVE  HandlersInv'
  <2>1. /\ Reading(t) /\ child[inHandler[t].pipe].state = "ended"
        /\ \A o \in output' : /\ o.req = Mixed
                              /\ o.pipe = inHandler[t].pipe \/ child[o.pipe] = NoProcess
    BY <1>9, ReadsOutput
  <2>2. /\ UNCHANGED <<child, cgiPipe, handler, sigchld>> /\ inHandler'[t] = None
        /\ \A s \in Threads : s # t => inHandler'[s] = inHandler[s]
    BY <1>0, <1>9 DEF HandlerEnds
  <2>3. ~sigchld /\ \A s \in Threads : ~Reading(s)'
    BY <2>1, <2>2 DEF HandlersInv, Reading
  <2>4. ~Pending'
    BY <2>2, <2>3 DEF Pending
  <2>5. \A s \in Threads : inHandler'[s] # None =>
          \/ child'[inHandler'[s].pipe] = NoProcess
          \/ /\ child'[inHandler'[s].pipe].state = "ended"
             /\ child'[inHandler'[s].pipe].req = inHandler'[s].page
    BY <2>2 DEF HandlersInv
  <2>. QED
    BY <2>1, <2>2, <2>3, <2>4, <2>5 DEF HandlersInv
<1>10. ASSUME NEW c \in Conns, Accept(c) \/ WriteNothing(c) \/ WriteAgain(c)
       PROVE  HandlersInv'
  BY <1>1, <1>10 DEF Accept, WriteNothing, WriteAgain
<1>11. ASSUME NEW c \in Conns, Close(c) \/ Write(c) \/ WriteFailed(c)
       PROVE  HandlersInv'
  <2>1. /\ arm[c] \in {"in", "out"}
        /\ UNCHANGED <<output, cgiPipe, handler, sigchld, inHandler>>
        /\ UNCHANGED child \/ CloseConn(c)
    BY <1>11 DEF Close, Write, WriteFailed, Writable
  <2>. QED
    BY <1>1, <2>1, ClosedAlone
<1>. QED
  BY <1>1, <1>2, <1>3, <1>4, <1>5, <1>6, <1>7, <1>8, <1>9, <1>10, <1>11, <1>12 DEF Next, Work

(* fork() gives a pipe that no handler reads, and a handler starts on the  *)
(* latest only.                                                            *)
LEMMA PipesStep ==
  ASSUME TypeInv, TurnInv, HandlerSet, HandlersInv, PipesInv, TimelySignal, [Next]_vars
  PROVE  PipesInv'
<1>. USE DEF vars, thread, conn, file, page, procs, signals
<1>0. /\ child \in Processes /\ ProcessesInv /\ HandlersInv'
      /\ inHandler \in [Threads -> [pipe : Pids, page : Pages] \cup {None}]
      /\ output \subseteq [pipe : Pids, req : Pages \cup {Mixed}]
  BY HandlersStep DEF TypeInv, TypeOK, Processes, TurnInv
<1>1. ASSUME UNCHANGED <<output, cgiPipe, sigchld, inHandler>>
      PROVE  PipesInv'
  BY <1>1 DEF PipesInv
<1>2. ASSUME NEW w \in Workers,
             \/ \E c \in Conns, r \in Requests : Stat(w, c, r)
             \/ FillError(w) \/ Mmap(w) \/ FillFile(w) \/ FillEmpty(w) \/ FillPage(w)
             \/ SetHandler(w) \/ Wait(w)
      PROVE  PipesInv'
  BY <1>1, <1>2 DEF Stat, FillError, Mmap, FillFile, FillEmpty, FillPage, SetHandler, Wait, Goto
<1>3. ASSUME NEW w \in Workers, Fork(w) \/ ForkFails(w)
      PROVE  PipesInv'
  <2>1. PICK p \in Free : cgiPipe' = p /\ output' = output \ OldOutput(p)
    BY <1>3 DEF Fork, ForkFails
  <2>2. UNCHANGED <<inHandler, sigchld>>
    BY <1>3 DEF Fork, ForkFails, Goto
  <2>3. \A t \in Threads : inHandler[t] # None => inHandler[t].pipe # p
    BY DEF Free
  <2>4. \A o \in output' : o \in output
    BY <2>1
  <2>. QED
    BY <2>1, <2>2, <2>3, <2>4 DEF PipesInv
<1>4. ASSUME NEW p \in Pids, ChildEnds(p)
      PROVE  PipesInv'
  <2>1. UNCHANGED <<inHandler, cgiPipe>> /\ child[p].state = "running"
        /\ cgiPipe = p
    BY <1>4 DEF ChildEnds, HandlerSet
  <2>2. child[p] # NoProcess
    BY <2>1 DEF NoProcess
  <2>3. \A t \in Threads : inHandler[t] # None => inHandler[t].pipe # p
    BY <2>1, <2>2 DEF HandlersInv
  <2>4. child[p].req # Mixed
    BY <1>0, <2>1, ResponderAssumption DEF ProcessesInv, Requests
  <2>5. \A o \in output' : o.req = Mixed => o \in output
    BY <1>4, <2>4 DEF ChildEnds
  <2>. QED
    BY <2>1, <2>3, <2>5 DEF PipesInv
<1>5. ASSUME NEW p \in Pids, StrayArms(p)
      PROVE  PipesInv'
  BY <1>1, <1>5 DEF StrayArms
<1>6. ASSUME NEW t \in Threads, Signal(t)
      PROVE  PipesInv'
  <2>1. sigchld /\ ~sigchld' /\ UNCHANGED <<output, cgiPipe>>
    BY <1>6 DEF Signal
  <2>2. /\ \A s \in Threads : s # t => inHandler'[s] = inHandler[s]
        /\ inHandler'[t] = inHandler[t] \/ inHandler'[t].pipe = cgiPipe
    BY <1>0, <1>6 DEF Signal
  <2>3. \A o \in output : o.req = Mixed => o.pipe # cgiPipe
    <3>1. PICK p \in Pids : child[p].state = "ended" /\ cgiPipe = p
      BY <2>1 DEF HandlersInv
    <3>2. child[cgiPipe] # NoProcess
      BY <3>1 DEF NoProcess
    <3>. QED
      BY <2>1, <3>2 DEF HandlersInv, Pending
  <2>4. \A s \in Threads : inHandler[s] # None => inHandler[s].pipe # cgiPipe
    BY <2>1 DEF PipesInv
  <2>. QED
    BY <2>1, <2>2, <2>3, <2>4 DEF PipesInv
<1>7. ASSUME NEW t \in Threads, HandlerEnds(t)
      PROVE  PipesInv'
  <2>1. /\ UNCHANGED <<cgiPipe, sigchld>> /\ inHandler[t] # None /\ inHandler'[t] = None
        /\ \A s \in Threads : s # t => inHandler'[s] = inHandler[s]
    BY <1>0, <1>7 DEF HandlerEnds
  <2>2. PICK o \in OldOutput(inHandler[t].pipe) : output' = (output \ {o}) \cup Rest(o)
    BY <1>7 DEF HandlerEnds
  <2>3. \A q \in output' : q \in output \/ q.pipe = inHandler[t].pipe
    BY <2>2 DEF Rest, OldOutput
  <2>4. \A s \in Threads : s # t /\ inHandler[s] # None => inHandler[s].pipe # inHandler[t].pipe
    BY <2>1 DEF PipesInv
  <2>. QED
    BY <2>1, <2>3, <2>4 DEF PipesInv
<1>8. ASSUME NEW c \in Conns, \/ Accept(c) \/ WriteNothing(c) \/ WriteAgain(c)
                              \/ Close(c) \/ Write(c) \/ WriteFailed(c)
      PROVE  PipesInv'
  BY <1>1, <1>8 DEF Accept, WriteNothing, WriteAgain, Close, Write, WriteFailed, CloseConn
<1>9. ASSUME UNCHANGED vars
      PROVE  PipesInv'
  BY <1>1, <1>9
<1>. QED
  BY <1>2, <1>3, <1>4, <1>5, <1>6, <1>7, <1>8, <1>9 DEF Next, Work

-------------------------------------------------------------------------------
(* The page                                                                *)

(* While the server is up, the text, the page and its length are one       *)
(* page's; there is none before the program of the request in hand has     *)
(* ended and its handler is done.                                          *)
PageInv ==
  /\ up => m_dynamic_page_len = jsonDataBuf /\ m_dynamic_page_address = jsonDataBuf
  /\ \A c \in Conns : arm[c] = "in" => jsonDataBuf = None
  /\ \A w \in Workers : Working(w) /\ pc[w] # "page" => jsonDataBuf = None
  /\ \A p \in Pids : InHand(p) =>
       jsonDataBuf = IF child[p].state = "ended" /\ ~Pending THEN Content(child[p].req) ELSE None

(* A handler finds jsonDataBuf empty, so what it finds there after recv()  *)
(* is the output of its program, or the start of it if that is too long;   *)
(* then json::parse() throws.                                              *)
LEMMA MakesPage ==
  ASSUME TypeInv, TurnInv, HandlersInv, PipesInv, PageInv, NEW t \in Threads, HandlerEnds(t)
  PROVE  /\ m_dynamic_page_len = None
         /\ jsonDataBuf' = Content(inHandler[t].page)
         /\ up' => m_dynamic_page_len' = jsonDataBuf' /\ m_dynamic_page_address' = jsonDataBuf'
         /\ inHandler[t].page \notin Parsed \cap TooLong => UNCHANGED up
<1>1. /\ Reading(t)
      /\ inHandler[t] \in [pipe : Pids, page : Pages]
      /\ child[inHandler[t].pipe].state = "ended"
      /\ jsonDataBuf' = RecvOver(jsonDataBuf, inHandler[t].page)
  BY ReadsOutput
<1>2. jsonDataBuf = None /\ up
  BY <1>1 DEF PageInv, InHand, Alive, Pending, HandlerEnds
<1>3. inHandler[t].page \in Pages /\ inHandler[t].page \notin Silent \cup {Missing, Mixed}
  BY <1>1, ResponderAssumption DEF Reading, Requests
<1>4. jsonDataBuf' = Content(inHandler[t].page)
  BY <1>1, <1>2, <1>3 DEF RecvOver, Content
<1>5. jsonDataBuf' = IF inHandler[t].page \in TooLong THEN Mixed ELSE inHandler[t].page
  BY <1>3, <1>4 DEF Content
<1>6. up' => m_dynamic_page_len' = jsonDataBuf' /\ m_dynamic_page_address' = jsonDataBuf'
  BY <1>3, <1>5 DEF HandlerEnds
<1>7. inHandler[t].page \notin Parsed \cap TooLong => UNCHANGED up
  BY <1>5 DEF HandlerEnds
<1>. QED
  BY <1>2, <1>4, <1>6, <1>7 DEF PageInv

(* Every other step leaves the server as it is.                            *)
LEMMA KeepsUp ==
  ASSUME [Next]_vars, \A t \in Threads : ~HandlerEnds(t)
  PROVE  UNCHANGED up
<1>. USE DEF vars, thread, conn, file, page, procs, signals
<1>1. ASSUME NEW w \in Workers, Work(w)
      PROVE  UNCHANGED up
  BY <1>1 DEF Work, Stat, FillError, Mmap, FillFile, FillEmpty, Fork, ForkFails, SetHandler, Wait,
              FillPage
<1>2. ASSUME NEW t \in Threads, Signal(t)
      PROVE  UNCHANGED up
  BY <1>2 DEF Signal
<1>3. ASSUME NEW p \in Pids, ChildEnds(p) \/ StrayArms(p)
      PROVE  UNCHANGED up
  BY <1>3 DEF ChildEnds, StrayArms
<1>4. ASSUME NEW c \in Conns, \/ Accept(c) \/ Close(c) \/ Write(c) \/ WriteNothing(c)
                              \/ WriteAgain(c) \/ WriteFailed(c)
      PROVE  UNCHANGED up
  BY <1>4 DEF Accept, Close, Write, WriteNothing, WriteAgain, WriteFailed
<1>. QED
  BY <1>1, <1>2, <1>3, <1>4 DEF Next

(* A page is made once, of the right text, and lasts until init().         *)
LEMMA PageStep ==
  ASSUME TypeInv, TurnInv, HandlerSet, HandlersInv, PipesInv, PageInv, MaxOpen = 1, [Next]_vars
  PROVE  PageInv'
<1>. USE DEF vars, thread, conn, file, page, procs, signals
<1>0. /\ pc \in [Workers -> {"idle", "error", "map", "file", "fork", "signal", "wait",
                             "page"}]
      /\ child \in Processes /\ ProcessesInv /\ OneInHand /\ OneOpen /\ arm \in Arms
      /\ inHandler \in [Threads -> [pipe : Pids, page : Pages] \cup {None}]
  BY DEF TypeInv, TypeOK, Processes, TurnInv, Arms
<1>t. TurnInv'
  BY TurnStep
<1>1. ASSUME NEW w \in Workers, NEW c \in Conns, NEW r \in Requests, Stat(w, c, r)
      PROVE  PageInv'
  <2>1. jsonDataBuf = None /\ UNCHANGED <<page, child, up>>
    BY <1>1 DEF PageInv, Stat
  <2>2. \A p \in Pids : ~InHand(p)'
    BY <1>1, <2>1, NoneInHand DEF Stat, InHand, Alive
  <2>. QED
    BY <2>1, <2>2 DEF PageInv
<1>2. ASSUME NEW w \in Workers, FillError(w) \/ FillFile(w) \/ FillPage(w)
      PROVE  PageInv'
  <2>1. /\ Working(w) /\ pc'[w] = "idle" /\ \A v \in Workers : v # w => pc'[v] = pc[v]
        /\ Arm(at[w], "out") /\ UNCHANGED <<child, page, up>>
    BY <1>0, <1>2 DEF FillError, FillFile, FillPage, Goto, Leave, Working
  <2>2. \A d \in Conns : arm'[d] = "in" => arm[d] = "in"
    BY <1>0, <2>1 DEF Arm, Arms
  <2>3. (\A v \in Workers : ~Working(v)') /\ (\A p \in Pids : ~InHand(p)')
    BY <1>0, <2>1 DEF OneInHand, Working, Unaided, InHand, Alive
  <2>. QED
    BY <2>1, <2>2, <2>3 DEF PageInv
<1>3. ASSUME NEW w \in Workers, Mmap(w) \/ FillEmpty(w) \/ ForkFails(w)
      PROVE  PageInv'
  <2>1. /\ UNCHANGED <<arm, child, page, up>> /\ Working(w) /\ pc[w] # "page"
    BY <1>0, <1>3 DEF Mmap, FillEmpty, ForkFails, Goto, Working
  <2>2. jsonDataBuf = None /\ \A p \in Pids : ~InHand(p)'
    BY <1>0, <2>1 DEF PageInv, OneInHand, InHand, Alive
  <2>. QED
    BY <2>1, <2>2 DEF PageInv
<1>12. ASSUME NEW w \in Workers, SetHandler(w)
       PROVE  PageInv'
  <2>1. /\ UNCHANGED <<arm, child, page, up, sigchld, inHandler>>
        /\ pc[w] = "signal" /\ pc'[w] = "wait"
        /\ \A v \in Workers : v # w => pc'[v] = pc[v]
    BY <1>0, <1>12 DEF SetHandler, Goto
  <2>2. \E p \in Pids : child[p] # NoProcess
    <3>1. CASE Strays = {}
      BY <2>1, <3>1 DEF TurnInv, OneBusy, Alive, NoProcess
    <3>2. CASE Strays # {}
      BY <3>2 DEF Strays, NoProcess
    <3>. QED
      BY <3>1, <3>2
  <2>3. \A v \in Workers : Working(v)' => Working(v) /\ pc'[v] = pc[v]
    BY <1>0, <2>1, <2>2 DEF Working, Unaided
  <2>4. \A p \in Pids : InHand(p)' = InHand(p) /\ child'[p] = child[p]
    BY <2>1 DEF InHand, Alive
  <2>5. Pending' = Pending
    BY <2>1 DEF Pending, Reading
  <2>. QED
    BY <2>1, <2>3, <2>4, <2>5 DEF PageInv
<1>4. ASSUME NEW w \in Workers, Fork(w)
      PROVE  PageInv'
  <2>1. PICK p \in Pids : child' = [child EXCEPT ![p] = NewChild(at[w])]
    BY <1>4 DEF Fork, Free
  <2>2. /\ jsonDataBuf = None /\ UNCHANGED <<page, arm, up>>
        /\ \A q \in Pids : ~InHand(q)
    BY <1>0, <1>4 DEF PageInv, Fork, Goto, Working, OneInHand
  <2>3. \A q \in Pids : child'[q].state # "ended"
    BY <1>0, <2>1, <2>2 DEF NewChild, Processes, InHand, Alive
  <2>. QED
    BY <2>2, <2>3 DEF PageInv
<1>5. ASSUME NEW w \in Workers, Wait(w)
      PROVE  PageInv'
  <2>1. UNCHANGED <<page, arm, up>> /\ pc'[w] = "page"
    BY <1>0, <1>5 DEF Wait, Goto
  <2>2. Working(w)'
    BY <2>1 DEF Working
  <2>3. /\ \A q \in Pids : ~InHand(q)'
        /\ \A v \in Workers : v # w => ~Working(v)'
    BY <1>t, <2>2 DEF TurnInv, OneInHand
  <2>. QED
    BY <2>1, <2>3 DEF PageInv
<1>6. ASSUME NEW p \in Pids, ChildEnds(p)
      PROVE  PageInv'
  <2>1. child[p].state = "running" /\ UNCHANGED <<pc, arm, page, up>> /\ sigchld'
    BY <1>6 DEF ChildEnds
  <2>2. InHand(p) /\ jsonDataBuf = None
    BY <2>1 DEF PageInv, InHand, Alive
  <2>. QED
    BY <2>1, <2>2 DEF PageInv, Pending
<1>7. ASSUME NEW p \in Pids, StrayArms(p)
      PROVE  PageInv'
  <2>1. UNCHANGED <<pc, page, up, sigchld, inHandler>> /\ child[p].state = "stray"
    BY <1>7 DEF StrayArms
  <2>2. /\ ~InHand(p)' /\ child'[p].state = "lost" /\ \A q \in Pids : q # p => child'[q] = child[q]
    BY <1>0, <1>7, StrayArmed DEF InHand, Alive
  <2>3. \A c \in Conns : arm'[c] = "in" => arm[c] = "in"
    BY <1>0, <1>7 DEF StrayArms, Arm, Arms
  <2>4. \A w \in Workers : Working(w)' = Working(w)
    <3>1. child[p] # NoProcess /\ child'[p] # NoProcess
      BY <2>1, <2>2 DEF NoProcess
    <3>. QED
      BY <2>1, <2>2, <3>1 DEF Working, Unaided
  <2>. QED
    BY <2>1, <2>2, <2>3, <2>4 DEF PageInv, InHand, Alive, Pending, Reading
<1>8. ASSUME NEW t \in Threads, Signal(t)
      PROVE  PageInv'
  <2>1. sigchld /\ ~sigchld' /\ UNCHANGED <<pc, arm, child, page, up>>
    BY <1>8 DEF Signal
  <2>2. PICK p \in Pids : child[p].state = "ended" /\ cgiPipe = p /\ handler = child[p].req
    BY <2>1 DEF HandlersInv
  <2>3. InHand(p) /\ jsonDataBuf = None /\ child[p].req \in Pages
    BY <1>0, <2>1, <2>2 DEF PageInv, InHand, Alive, Pending, ProcessesInv
  <2>4. child[p].req \notin Silent => Reading(t)'
    <3>1. handler # None /\ [pipe |-> p, page |-> child[p].req] # None
      BY <2>2, <2>3, ResponderAssumption DEF Requests
    <3>2. inHandler'[t] = [pipe |-> p, page |-> child[p].req]
      BY <1>0, <1>8, <2>2, <3>1 DEF Signal
    <3>. QED
      BY <3>1, <3>2 DEF Reading
  <2>5. child[p].req \in Silent => Content(child[p].req) = None
    BY DEF Content
  <2>6. \A q \in Pids : InHand(q)' => q = p
    BY <1>0, <2>1, <2>3 DEF OneInHand, InHand, Alive
  <2>7. Pending' \/ Content(child[p].req) = None
    BY <2>4, <2>5 DEF Pending
  <2>. QED
    BY <2>1, <2>3, <2>6, <2>7 DEF PageInv, Working
<1>9. ASSUME NEW t \in Threads, HandlerEnds(t)
      PROVE  PageInv'
  <2>1. /\ Reading(t) /\ inHandler[t].pipe \in Pids /\ inHandler[t].page \in Pages
        /\ child[inHandler[t].pipe].state = "ended"
        /\ child[inHandler[t].pipe].req = inHandler[t].page
    BY <1>9, ReadsOutput
  <2>2. UNCHANGED <<pc, arm, child>>
    BY <1>9 DEF HandlerEnds
  <2>3. /\ jsonDataBuf' = Content(inHandler[t].page)
        /\ up' => m_dynamic_page_len' = jsonDataBuf' /\ m_dynamic_page_address' = jsonDataBuf'
    BY <1>9, MakesPage
  <2>4. ~Pending'
    BY <1>0, <1>9, <2>1 DEF HandlerEnds, HandlersInv, Pending, Reading
  <2>6. /\ InHand(inHandler[t].pipe)
        /\ \A q \in Pids : InHand(q)' => q = inHandler[t].pipe
        /\ \A w \in Workers : ~Working(w)'
    BY <1>0, <2>1, <2>2 DEF OneInHand, InHand, Alive, Working, Unaided
  <2>7. \A c \in Conns : arm'[c] # "in"
    BY <2>1, <2>2, <2>6, NoneInHand
  <2>. QED
    BY <2>1, <2>2, <2>3, <2>4, <2>6, <2>7 DEF PageInv
<1>10. ASSUME NEW c \in Conns, Accept(c)
       PROVE  PageInv'
  <2>1. UNCHANGED <<pc, child>> /\ init(c)
    BY <1>10 DEF Accept
  <2>2. \A p \in Pids : ~InHand(p)'
    BY <1>10, <2>1, OpenedAlone DEF InHand, Alive
  <2>. QED
    BY <2>1, <2>2 DEF init, PageInv
<1>11. ASSUME NEW c \in Conns, Close(c) \/ Write(c) \/ WriteNothing(c) \/ WriteFailed(c)
       PROVE  PageInv'
  <2>1. arm[c] \in {"in", "out"} /\ UNCHANGED <<pc, up>>
    BY <1>11 DEF Close, Write, WriteNothing, WriteFailed, Writable
  <2>2. UNCHANGED child
    <3>1. UNCHANGED child \/ CloseConn(c)
      BY <1>11 DEF Close, Write, WriteNothing, WriteFailed
    <3>. QED
      BY <2>1, <3>1, ClosedAlone
  <2>3. /\ \A w \in Workers : ~Working(w)'
        /\ \A p \in Pids : ~InHand(p)'
    BY <2>1, <2>2, NoneInHand DEF Working, Unaided, InHand, Alive
  <2>4. \/ init(c)
        \/ UNCHANGED page /\ arm' = [arm EXCEPT ![c] = "closed"]
    BY <1>11 DEF Close, Write, WriteNothing, WriteFailed, CloseConn
  <2>5. CASE init(c)
    BY <2>3, <2>5 DEF init, PageInv
  <2>6. CASE UNCHANGED page /\ arm' = [arm EXCEPT ![c] = "closed"]
    BY <1>0, <2>1, <2>3, <2>6 DEF PageInv, Arms
  <2>. QED
    BY <2>4, <2>5, <2>6
<1>13. ASSUME UNCHANGED vars
       PROVE  PageInv'
  BY <1>13 DEF PageInv, Working, Unaided, InHand, Alive, Pending, Reading
<1>14. ASSUME NEW c \in Conns, WriteAgain(c)
       PROVE  PageInv'
  BY <1>13, <1>14 DEF WriteAgain
<1>. QED
  BY <1>1, <1>2, <1>3, <1>4, <1>5, <1>6, <1>7, <1>8, <1>9, <1>10, <1>11, <1>12, <1>13, <1>14
     DEF Next, Work

-------------------------------------------------------------------------------
(* The answer                                                              *)

(* What a worker finds in the globals is about the request it answers.     *)
WorkerInv(w) ==
  /\ arm[at[w]] = "off"
  /\ req[at[w]] \in Requests \ Empty => header[at[w]] = <<>>
  /\ pc[w] = "error" => req[at[w]] = Missing
  /\ pc[w] \in {"map", "file"} => req[at[w]] \in Files \cup Empty /\ m_file_stat = req[at[w]]
  /\ pc[w] = "file" => m_file_address = req[at[w]]
  /\ pc[w] \in {"signal", "wait"} =>
       \/ \E p \in Pids : Alive(p) /\ child[p].req = req[at[w]]
       \/ Unaided(w) /\ req[at[w]] = None
  /\ pc[w] = "page" => req[at[w]] \in Pages \cup {None} /\ jsonDataBuf = Content(req[at[w]])

(* What waits to be written answers the connection's request, unless none  *)
(* is owed.                                                                *)
ConnInv(c) ==
  /\ arm[c] = "in" => header[c] = <<>>
  /\ arm[c] = "out" =>
       /\ header[c] # <<>>
       /\ req[c] # None => header[c] = <<Announced(req[c])>>
       /\ m_iv = [head |-> c, body |-> Content(req[c])]
       /\ req[c] \in Files \cup Pages \cup {Missing, None}
       /\ req[c] \in Files => m_file_address = req[c]
       /\ req[c] \in Pages => jsonDataBuf = Content(req[c])

AnswersInv ==
  Strays = {} =>
    /\ \A w \in Workers : Busy(w) => WorkerInv(w)
    /\ \A c \in Conns : ConnInv(c)

(* There is nothing where no answer is owed.                               *)
LEMMA NothingOwed == /\ None \notin Requests /\ None \notin Silent \cup TooLong
                     /\ Content(None) = None
<1>1. None \notin Requests /\ None \notin Silent \cup TooLong
  BY ResponderAssumption DEF Requests, Silent, TooLong
<1>2. None # Missing
  BY <1>1 DEF Requests
<1>. QED
  BY <1>1, <1>2 DEF Content

(* What is found for a file, a page and an error.                          *)
LEMMA Contained ==
  ASSUME NEW r \in Files \cup Pages \cup {Missing}
  PROVE  /\ r # None /\ r \in Requests \ Empty
         /\ r \in Files => Content(r) = r /\ Announced(r) = r
         /\ r \in Pages => Announced(r) = Content(r)
         /\ r = Missing => Content(r) = None /\ Announced(r) = Missing
         /\ Content(r) \in Contents /\ Announced(r) \in Contents
BY ResponderAssumption DEF Requests, Content, Announced, Silent, TooLong, Contents

(* While a worker is in process() it is the only one, and its connection   *)
(* the only one open.                                                      *)
LEMMA OffAlone ==
  ASSUME TypeInv, TurnInv, AnswersInv, Strays = {}, NEW w \in Workers, Busy(w)
  PROVE  /\ at[w] \in Conns /\ arm[at[w]] = "off" /\ WorkerInv(w)
         /\ \A d \in Conns : d # at[w] => arm[d] = "closed"
         /\ \A v \in Workers : v # w => pc[v] = "idle"
  BY DEF TypeInv, TypeOK, WorkersInv, TurnInv, OneOpen, OneBusy, AnswersInv, WorkerInv, Busy

(* What is put behind a text is in it, and all of it if there was none.    *)
LEMMA Behind ==
  ASSUME NEW S, NEW h \in Seq(S), NEW x \in S
  PROVE  h \o <<x>> # <<>> /\ (h = <<>> => h \o <<x>> = <<x>>)
<1>1. Len(h \o <<x>>) = Len(h) + 1 /\ Len(h) \in Nat
  OBVIOUS
<1>2. h \o <<x>> # <<>>
  BY <1>1
<1>3. <<>> \o <<x>> = <<x>>
  OBVIOUS
<1>. QED
  BY <1>2, <1>3

(* Each step of do_request() and process_write() prepares the answer of    *)
(* the request in hand, and write() sends it.                              *)
LEMMA AnswersStep ==
  ASSUME TypeInv, TurnInv, HandlersInv, PageInv, AnswersInv, OwnResponse, PipesInv,
         MaxOpen = 1, TimelySignal,
         [Next]_vars
  PROVE  AnswersInv' /\ OwnResponse'
<1>. USE DEF vars, thread, conn, file, page, procs, signals
<1>0. /\ pc \in [Workers -> {"idle", "error", "map", "file", "fork", "signal", "wait",
                             "page"}]
      /\ at \in [Workers -> Conns \cup {None}]
      /\ req \in [Conns -> Requests \cup {None}]
      /\ header \in [Conns -> Seq(Contents)]
      /\ received \in [Conns -> [for : Requests \cup {None}, head : Seq(Contents),
                                 body : Contents]]
      /\ child \in Processes /\ ProcessesInv /\ OneInHand /\ OneOpen /\ arm \in Arms
      /\ \A w \in Workers : pc[w] # "idle" => at[w] \in Conns
  BY DEF TypeInv, TypeOK, Processes, TurnInv, Arms, WorkersInv
<1>. SUFFICES ASSUME Strays' = {}
              PROVE  /\ \A w \in Workers : Busy(w)' => WorkerInv(w)'
                     /\ \A c \in Conns : ConnInv(c)'
                     /\ OwnResponse'
  BY DEF AnswersInv, OwnResponse
<1>. DEFINE Answered == /\ \A w \in Workers : Busy(w)' => WorkerInv(w)'
                        /\ \A c \in Conns : ConnInv(c)'
                        /\ OwnResponse'
<1>. Strays = {}
  BY StraysStay
<1>a. UNCHANGED received => OwnResponse'
  BY DEF OwnResponse
<1>1. ASSUME NEW w \in Workers, NEW c \in Conns, NEW r \in Requests, Stat(w, c, r)
      PROVE  Answered
  <2>1. /\ \A v \in Workers : ~Busy(v)
        /\ \A d \in Conns : d # c => arm[d] = "closed"
        /\ header[c] = <<>>
    BY <1>1, NobodyBusy DEF Stat, AnswersInv, ConnInv
  <2>2. /\ \A v \in Workers : v # w => ~Busy(v)'
        /\ \A d \in Conns : d # c => arm'[d] = "closed"
        /\ arm'[c] = "off" /\ at'[w] = c /\ req'[c] = r /\ header'[c] = <<>> /\ m_file_stat' = r
        /\ pc'[w] = CASE r \in Files \cup Empty -> "map" [] r = Missing -> "error"
                       [] OTHER -> "fork"
    BY <1>0, <1>1, <2>1 DEF Stat, Goto, Busy, Arms
  <2>3. WorkerInv(w)'
    <3>1. CASE r \in Files \cup Empty
      BY <2>2, <3>1 DEF WorkerInv
    <3>3. CASE r = Missing
      BY <2>2, <3>3, ResponderAssumption DEF WorkerInv
    <3>4. CASE r \in Pages \cup Broken
      BY <2>2, <3>4, ResponderAssumption DEF WorkerInv
    <3>. QED
      BY <3>1, <3>3, <3>4 DEF Requests
  <2>4. OwnResponse'
    <3>1. NoResponse.for = None
      BY DEF NoResponse
    <3>3. /\ received'[c] = NoResponse
          /\ \A d \in Conns : d # c => received'[d] = received[d]
      BY <1>0, <1>1 DEF Stat
    <3>. QED
      BY <3>1, <3>3 DEF OwnResponse
  <2>. QED
    BY <2>2, <2>3, <2>4 DEF ConnInv
<1>2. ASSUME NEW w \in Workers, FillError(w) \/ FillFile(w) \/ FillPage(w)
      PROVE  Answered
  <2>0. PICK c \in Conns : c = at[w]
    BY <1>0, <1>2 DEF FillError, FillFile, FillPage, Goto
  <2>1. /\ Busy(w) /\ pc[w] \in {"error", "file", "page"} /\ pc'[w] = "idle"
        /\ \A v \in Workers : v # w => pc'[v] = pc[v]
        /\ Arm(c, "out") /\ UNCHANGED <<req, received, m_file_address, jsonDataBuf>>
    BY <1>0, <1>2, <2>0 DEF FillError, FillFile, FillPage, Goto, Leave, Busy
  <2>2. /\ arm[c] = "off" /\ WorkerInv(w)
        /\ \A d \in Conns : d # c => arm[d] = "closed"
        /\ \A v \in Workers : v # w => pc[v] = "idle"
    BY <2>0, <2>1, OffAlone
  <2>3. /\ \A v \in Workers : ~Busy(v)'
        /\ arm'[c] = "out"
        /\ \A d \in Conns : d # c => arm'[d] = "closed"
    BY <1>0, <2>1, <2>2 DEF Busy, Arm, Arms
  <2>4. header[c] \in Seq(Contents)
    BY <1>0
  <2>5. ASSUME NEW x \in Contents, Fill(c, <<x>>)
        PROVE  header'[c] # <<>> /\ (header[c] = <<>> => header'[c] = <<x>>)
    <3>1. header'[c] = header[c] \o <<x>>
      BY <1>0, <2>5 DEF Fill
    <3>2. /\ header[c] \o <<x>> # <<>>
          /\ header[c] = <<>> => header[c] \o <<x>> = <<x>>
      BY <2>4, <2>5, Behind
    <3>. QED
      BY <3>1, <3>2
  <2>6. /\ header'[c] # <<>>
        /\ req[c] # None => header'[c] = <<Announced(req[c])>>
        /\ m_iv' = [head |-> c, body |-> Content(req[c])]
        /\ req[c] \in Files \cup Pages \cup {Missing, None}
        /\ req[c] \in Files => m_file_address = req[c]
        /\ req[c] \in Pages => jsonDataBuf = Content(req[c])
    <3>1. CASE FillError(w)
      <4>1. req[c] = Missing /\ header[c] = <<>> /\ Fill(c, <<Missing>>)
            /\ m_iv' = [head |-> c, body |-> None]
        BY <1>0, <2>0, <2>2, <3>1, Contained DEF FillError, Goto, WorkerInv
      <4>2. Missing \in Contents /\ Missing \notin Files \cup Pages
        BY ResponderAssumption DEF Contents, Requests
      <4>. QED
        BY <2>5, <4>1, <4>2, Contained
    <3>2. CASE FillFile(w)
      <4>1. /\ req[c] \in Files /\ m_file_stat = req[c] /\ m_file_address = req[c]
            /\ Fill(c, <<req[c]>>) /\ m_iv' = [head |-> c, body |-> req[c]]
        BY <1>0, <2>0, <2>2, <3>2 DEF FillFile, Goto, WorkerInv
      <4>2. header[c] = <<>>
        BY <2>0, <2>2, <4>1, Contained DEF WorkerInv
      <4>3. req[c] \in Contents /\ req[c] \notin Pages
        BY <4>1, ResponderAssumption DEF Contents, Requests
      <4>. QED
        BY <2>5, <4>1, <4>2, <4>3, Contained
    <3>3. CASE FillPage(w)
      <4>1. req[c] \in Pages \cup {None} /\ jsonDataBuf = Content(req[c])
        BY <1>0, <2>0, <2>2, <3>3 DEF FillPage, Goto, WorkerInv
      <4>2. m_dynamic_page_len = Content(req[c]) /\ m_dynamic_page_address = Content(req[c])
        BY <3>3, <4>1 DEF FillPage, Goto, Runs, PageInv
      <4>3. Content(req[c]) \in Contents
        BY <4>1, Contained, NothingOwed DEF Contents
      <4>4. Fill(c, <<Content(req[c])>>) /\ m_iv' = [head |-> c, body |-> Content(req[c])]
        BY <2>0, <3>3, <4>2 DEF FillPage
      <4>5. req[c] # None => header[c] = <<>> /\ Announced(req[c]) = Content(req[c])
        BY <2>0, <2>2, <4>1, Contained DEF WorkerInv
      <4>6. req[c] \notin Files
        BY <4>1, ResponderAssumption, NothingOwed DEF Requests
      <4>. QED
        BY <2>5, <4>1, <4>3, <4>4, <4>5, <4>6
    <3>. QED
      BY <1>2, <3>1, <3>2, <3>3
  <2>7. ConnInv(c)'
    BY <2>1, <2>3, <2>6 DEF ConnInv
  <2>. QED
    BY <1>a, <2>1, <2>3, <2>7 DEF ConnInv
<1>3. ASSUME NEW w \in Workers, Mmap(w) \/ FillEmpty(w) \/ SetHandler(w)
      PROVE  Answered
  <2>. DEFINE c == at[w]
  <2>1. /\ Busy(w) /\ UNCHANGED <<at, arm, req, received, m_file_stat, page, child>>
        /\ pc'[w] # "idle" /\ \A v \in Workers : v # w => pc'[v] = pc[v]
    BY <1>0, <1>3 DEF Mmap, FillEmpty, SetHandler, Goto, Busy
  <2>2. /\ c \in Conns /\ arm[c] = "off" /\ WorkerInv(w)
        /\ \A d \in Conns : d # c => arm[d] = "closed"
        /\ \A v \in Workers : v # w => pc[v] = "idle"
    BY <2>1, OffAlone
  <2>3. WorkerInv(w)'
    <3>1. CASE Mmap(w)
      BY <1>0, <2>1, <2>2, <3>1, ResponderAssumption DEF Mmap, Goto, WorkerInv
    <3>2. CASE FillEmpty(w)
      <4>1. pc'[w] = "fork" /\ req[c] \in Empty
        BY <1>0, <2>2, <3>2 DEF FillEmpty, Goto, WorkerInv
      <4>. QED
        BY <2>1, <2>2, <4>1 DEF WorkerInv
    <3>3. CASE SetHandler(w)
      BY <1>0, <2>1, <2>2, <3>3 DEF SetHandler, Goto, WorkerInv, Alive, Unaided
    <3>. QED
      BY <1>3, <3>1, <3>2, <3>3
  <2>. QED
    BY <1>a, <2>1, <2>2, <2>3 DEF ConnInv, Busy
<1>4. ASSUME NEW w \in Workers, Fork(w)
      PROVE  Answered
  <2>. DEFINE c == at[w]
  <2>1. PICK p \in Pids : child' = [child EXCEPT ![p] = NewChild(c)]
    BY <1>4 DEF Fork, Free
  <2>2. /\ Busy(w) /\ pc'[w] = "signal" /\ UNCHANGED <<at, conn, file, m_iv, page>>
        /\ \A v \in Workers : v # w => pc'[v] = pc[v]
    BY <1>0, <1>4 DEF Fork, Goto, Busy
  <2>3. /\ c \in Conns /\ arm[c] = "off" /\ WorkerInv(w)
        /\ \A d \in Conns : d # c => arm[d] = "closed"
        /\ \A v \in Workers : v # w => pc[v] = "idle"
    BY <2>2, OffAlone
  <2>4. child'[p] = NewChild(c)
    BY <1>0, <2>1 DEF Processes
  <2>5. child'[p].state = "running" /\ child'[p].req = req[c]
    BY <2>4 DEF NewChild, Strays
  <2>6. WorkerInv(w)'
    BY <2>2, <2>3, <2>5 DEF WorkerInv, Alive
  <2>. QED
    BY <1>a, <2>2, <2>3, <2>6 DEF ConnInv, Busy
<1>14. ASSUME NEW w \in Workers, ForkFails(w)
       PROVE  Answered
  <2>. DEFINE c == at[w]
  <2>1. /\ Busy(w) /\ Working(w) /\ pc'[w] = "wait"
        /\ UNCHANGED <<at, arm, header, received, file, m_iv, page, child>>
        /\ \A v \in Workers : v # w => pc'[v] = pc[v]
    BY <1>0, <1>14 DEF ForkFails, Goto, Busy, Working
  <2>2. /\ c \in Conns /\ arm[c] = "off" /\ WorkerInv(w)
        /\ \A d \in Conns : d # c => arm[d] = "closed"
        /\ \A v \in Workers : v # w => pc[v] = "idle"
    BY <2>1, OffAlone
  <2>3. req'[c] = None
    BY <1>0, <1>14, <2>2 DEF ForkFails
  <2>4. \A p \in Pids : child[p] = NoProcess
    <3>1. \A p \in Pids : ~Alive(p)
      BY <1>0, <2>1 DEF OneInHand, InHand
    <3>2. \A p \in Pids : child[p].state = "none"
      BY <1>0, <3>1 DEF Alive, Strays, Processes
    <3>. QED
      BY <1>0, <3>2 DEF ProcessesInv
  <2>5. WorkerInv(w)'
    BY <2>1, <2>2, <2>3, <2>4, NothingOwed DEF WorkerInv, Unaided
  <2>. QED
    BY <1>a, <2>1, <2>2, <2>5 DEF ConnInv, Busy
<1>5. ASSUME NEW w \in Workers, Wait(w)
      PROVE  Answered
  <2>. DEFINE c == at[w]
  <2>2. /\ Busy(w) /\ pc[w] = "wait" /\ pc'[w] = "page" /\ UNCHANGED <<at, conn, file, m_iv, page>>
        /\ \A v \in Workers : v # w => pc'[v] = pc[v]
        /\ ~Pending
    BY <1>0, <1>5 DEF Wait, Goto, Busy, Handled, Pending, Reading
  <2>3. /\ c \in Conns /\ arm[c] = "off" /\ WorkerInv(w)
        /\ \A d \in Conns : d # c => arm[d] = "closed"
        /\ \A v \in Workers : v # w => pc[v] = "idle"
    BY <2>2, OffAlone
  <2>4. req[c] \in Pages \cup {None} /\ jsonDataBuf = Content(req[c])
    <3>1. CASE \E p \in Pids : Alive(p) /\ child[p].req = req[c]
      <4>1. PICK p \in Pids : Alive(p) /\ child[p].req = req[c]
        BY <3>1
      <4>2. child[p].req \in Pages /\ InHand(p) /\ child[p] # NoProcess
        BY <1>0, <4>1 DEF ProcessesInv, Alive, InHand, NoProcess
      <4>3. child[p].state = "ended"
        BY <1>0, <1>5, <4>2 DEF Wait, OneInHand, InHand, Alive
      <4>. QED
        BY <2>2, <4>1, <4>2, <4>3 DEF PageInv
    <3>2. CASE Unaided(w) /\ req[c] = None
      <4>1. jsonDataBuf = None
        BY <2>2, <3>2 DEF PageInv, Working
      <4>. QED
        BY <3>2, <4>1, NothingOwed
    <3>. QED
      BY <2>2, <2>3, <3>1, <3>2 DEF WorkerInv
  <2>7. WorkerInv(w)'
    BY <2>2, <2>3, <2>4 DEF WorkerInv
  <2>. QED
    BY <1>a, <2>2, <2>3, <2>7 DEF ConnInv, Busy
<1>6. ASSUME NEW p \in Pids, ChildEnds(p)
      PROVE  Answered
  <2>1. UNCHANGED <<thread, conn, file, m_iv, page>>
    BY <1>6 DEF ChildEnds
  <2>2. \A q \in Pids : Alive(q) => Alive(q)' /\ child'[q].req = child[q].req
    BY <1>0, <1>6, ChildEnded DEF Alive
  <2>3. \A w \in Workers : ~Unaided(w)
    BY <1>6 DEF Unaided, ChildEnds, NoProcess
  <2>4. \A w \in Workers : Busy(w) => WorkerInv(w)'
    BY <2>1, <2>2, <2>3 DEF AnswersInv, WorkerInv
  <2>. QED
    BY <1>a, <2>1, <2>4 DEF AnswersInv, Busy, ConnInv
<1>7. ASSUME NEW p \in Pids, StrayArms(p)
      PROVE  Answered
  BY <1>7 DEF StrayArms, Strays
<1>8. ASSUME UNCHANGED <<thread, conn, file, m_iv, page, child>>
      PROVE  Answered
  BY <1>a, <1>8 DEF AnswersInv, Busy, WorkerInv, ConnInv, Alive, Unaided
<1>9. ASSUME NEW t \in Threads, Signal(t)
      PROVE  Answered
  BY <1>8, <1>9 DEF Signal
<1>10. ASSUME NEW t \in Threads, HandlerEnds(t)
       PROVE  Answered
  <2>1. UNCHANGED <<thread, conn, file, m_iv, child>>
    BY <1>10 DEF HandlerEnds
  <2>2. inHandler[t].pipe \in Pids /\ InHand(inHandler[t].pipe)
    BY <1>10, ReadsOutput DEF InHand, Alive
  <2>3. \A w \in Workers : pc[w] # "page"
    BY <1>0, <2>2 DEF OneInHand, Working
  <2>4. \A c \in Conns : arm[c] # "out"
    BY <2>2, NoneInHand
  <2>. QED
    BY <1>a, <2>1, <2>3, <2>4 DEF AnswersInv, Busy, WorkerInv, ConnInv, Alive, Unaided
<1>11. ASSUME NEW c \in Conns, Accept(c)
       PROVE  Answered
  <2>1. /\ \A d \in Conns : arm[d] = "closed"
        /\ UNCHANGED <<pc, at, received>>
    BY <1>11, OpenedAlone DEF Accept
  <2>2. \A w \in Workers : ~Busy(w)
    BY <2>1, OffAlone
  <2>3. /\ arm'[c] = "in" /\ header'[c] = <<>>
        /\ \A d \in Conns : d # c => arm'[d] = "closed"
    BY <1>0, <1>11, <2>1 DEF Accept, init, Arms
  <2>. QED
    BY <1>a, <2>1, <2>2, <2>3 DEF Busy, ConnInv
<1>12. ASSUME NEW c \in Conns, Close(c) \/ Write(c) \/ WriteNothing(c) \/ WriteFailed(c)
       PROVE  Answered
  <2>1. arm[c] \in {"in", "out"} /\ UNCHANGED pc
    BY <1>12 DEF Close, Write, WriteNothing, WriteFailed, Writable
  <2>2. /\ \A w \in Workers : ~Busy(w)
        /\ \A d \in Conns : d # c => arm[d] = "closed"
    BY <2>1, NobodyBusy
  <2>3. /\ \A d \in Conns : d # c => arm'[d] = "closed"
        /\ \/ arm'[c] = "in" /\ header'[c] = <<>>
           \/ arm'[c] = "closed"
    <3>1. \/ arm' = [arm EXCEPT ![c] = "in"] /\ init(c)
          \/ arm' = [arm EXCEPT ![c] = "closed"]
      BY <1>12 DEF Close, Write, WriteNothing, WriteFailed, CloseConn
    <3>. QED
      BY <1>0, <2>2, <3>1 DEF Arms, init
  <2>4. \A d \in Conns : ConnInv(d)'
    BY <2>3 DEF ConnInv
  <2>5. OwnResponse'
    <3>1. CASE UNCHANGED received
      BY <1>a, <3>1
    <3>2. CASE Write(c)
      <4>1. /\ req[c] # None => header[c] = <<Announced(req[c])>>
            /\ m_iv = [head |-> c, body |-> Content(req[c])]
        BY <3>2 DEF Write, Writable, AnswersInv, ConnInv
      <4>2. /\ received'[c].for = req[c]
            /\ received'[c].head = header[c]
            /\ received'[c].body = Content(req[c])
        BY <1>0, <3>2, <4>1 DEF Write
      <4>3. \A d \in Conns : d # c => received'[d] = received[d]
        BY <1>0, <3>2 DEF Write
      <4>. QED
        BY <4>1, <4>2, <4>3 DEF OwnResponse
    <3>. QED
      BY <1>12, <3>1, <3>2 DEF Close, WriteNothing, WriteFailed
  <2>. QED
    BY <2>1, <2>2, <2>4, <2>5 DEF Busy
<1>13. ASSUME NEW c \in Conns, WriteAgain(c)
       PROVE  Answered
  BY <1>8, <1>13 DEF WriteAgain
<1>. QED
  BY <1>1, <1>2, <1>3, <1>4, <1>5, <1>6, <1>7, <1>8, <1>9, <1>10, <1>11, <1>12, <1>13, <1>14
     DEF Next, Work

-------------------------------------------------------------------------------
(* The mapping                                                             *)

(* mmap() is followed by the answer, and that by munmap() or by a client   *)
(* that hangs up.                                                          *)
LEMMA MappingStep ==
  ASSUME TypeInv, TurnInv, AnswersInv, MappingOwned, [Next]_vars
  PROVE  MappingOwned'
<1>. USE DEF vars, thread, conn, file, page, procs, signals
<1>0. /\ pc \in [Workers -> {"idle", "error", "map", "file", "fork", "signal", "wait",
                             "page"}]
      /\ arm \in Arms
      /\ \A w \in Workers : pc[w] # "idle" => at[w] \in Conns
  BY DEF TypeInv, TypeOK, Arms, WorkersInv
<1>. SUFFICES ASSUME Strays' = {}, m_file_address' \in Files
              PROVE  \/ abandoned'
                     \/ \E w \in Workers : pc'[w] = "file"
                     \/ \E c \in Conns : arm'[c] = "out" /\ m_iv'.body = m_file_address'
  BY DEF MappingOwned
<1>. DEFINE Owned == \/ abandoned'
                     \/ \E w \in Workers : pc'[w] = "file"
                     \/ \E c \in Conns : arm'[c] = "out" /\ m_iv'.body = m_file_address'
<1>. Strays = {}
  BY StraysStay
<1>a. ASSUME m_file_address \in Files
      PROVE  \/ abandoned
             \/ \E w \in Workers : pc[w] = "file"
             \/ \E c \in Conns : arm[c] = "out" /\ m_iv.body = m_file_address
  BY <1>a DEF MappingOwned
<1>1. ASSUME NEW w \in Workers, NEW c \in Conns, NEW r \in Requests, Stat(w, c, r)
      PROVE  Owned
  <2>1. /\ arm[c] = "in" /\ \A v \in Workers : pc[v] # "file"
        /\ \A d \in Conns : arm[d] # "out"
    BY <1>1, NobodyBusy DEF Stat, Busy
  <2>. QED
    BY <1>1, <1>a, <2>1 DEF Stat
<1>2. ASSUME NEW w \in Workers, FillError(w) \/ FillPage(w)
      PROVE  Owned
  <2>1. /\ \A v \in Workers : pc[v] # "file"
        /\ \A d \in Conns : arm[d] # "out"
    BY <1>2, OffAlone DEF FillError, FillPage, Goto, Busy
  <2>. QED
    BY <1>2, <1>a, <2>1 DEF FillError, FillPage
<1>3. ASSUME NEW w \in Workers, FillFile(w)
      PROVE  Owned
  <2>1. at[w] \in Conns /\ arm[at[w]] = "off"
    BY <1>3, OffAlone DEF FillFile, Goto, Busy
  <2>2. arm'[at[w]] = "out" /\ m_iv'.body = m_file_address'
    BY <1>0, <1>3, <2>1 DEF FillFile, Leave, Arm, Arms
  <2>. QED
    BY <2>1, <2>2
<1>4. ASSUME NEW w \in Workers, Mmap(w)
      PROVE  Owned
  BY <1>0, <1>4 DEF Mmap, Goto
<1>5. ASSUME NEW w \in Workers, Fork(w) \/ ForkFails(w) \/ SetHandler(w) \/ Wait(w)
      PROVE  Owned
  <2>1. /\ pc[w] # "file" /\ UNCHANGED <<arm, file, m_iv>>
        /\ \A v \in Workers : v # w => pc'[v] = pc[v]
    BY <1>0, <1>5 DEF Fork, ForkFails, SetHandler, Wait, Goto
  <2>. QED
    BY <1>a, <2>1
<1>14. ASSUME NEW w \in Workers, FillEmpty(w)
       PROVE  Owned
  <2>1. pc[w] = "file" /\ m_file_stat \in Empty /\ UNCHANGED m_file_address
    BY <1>14 DEF FillEmpty, Goto
  <2>2. m_file_address = m_file_stat
    BY <2>1, OffAlone DEF Busy, WorkerInv
  <2>. QED
    BY <2>1, <2>2, ResponderAssumption
<1>6. ASSUME UNCHANGED <<pc, arm, file, m_iv>>
      PROVE  Owned
  BY <1>a, <1>6
<1>7. ASSUME NEW p \in Pids, ChildEnds(p) \/ StrayArms(p)
      PROVE  Owned
  <2>1. ~StrayArms(p)
    BY DEF StrayArms, Strays
  <2>. QED
    BY <1>6, <1>7, <2>1 DEF ChildEnds
<1>8. ASSUME NEW t \in Threads, Signal(t) \/ HandlerEnds(t)
      PROVE  Owned
  BY <1>6, <1>8 DEF Signal, HandlerEnds
<1>9. ASSUME NEW c \in Conns, Accept(c)
      PROVE  Owned
  <2>1. arm[c] = "closed" /\ UNCHANGED <<pc, file, m_iv>> /\ arm' = [arm EXCEPT ![c] = "in"]
    BY <1>9 DEF Accept
  <2>2. \A d \in Conns : arm[d] = "out" => arm'[d] = "out"
    BY <1>0, <2>1 DEF Arms
  <2>. QED
    BY <1>a, <2>1, <2>2
<1>10. ASSUME NEW c \in Conns, WriteNothing(c)
       PROVE  Owned
  <2>1. arm[c] = "out" /\ header[c] = <<>>
    BY <1>10 DEF WriteNothing, Writable
  <2>2. header[c] # <<>>
    BY <2>1 DEF AnswersInv, ConnInv
  <2>. QED
    BY <2>1, <2>2
<1>11. ASSUME NEW c \in Conns, Write(c) \/ WriteFailed(c)
       PROVE  Owned
  <2>1. m_file_address' = None
    BY <1>11 DEF Write, WriteFailed, unmap
  <2>2. None \notin Files
    BY NothingOwed DEF Requests
  <2>. QED
    BY <2>1, <2>2
<1>12. ASSUME NEW c \in Conns, Close(c)
       PROVE  Owned
  <2>1. /\ UNCHANGED <<pc, m_file_address, m_iv>> /\ arm[c] \in {"in", "out"}
        /\ arm' = [arm EXCEPT ![c] = "closed"]
        /\ abandoned' = (abandoned \/ (arm[c] = "out" /\ m_file_address \in Files))
    BY <1>12 DEF Close, CloseConn
  <2>2. CASE arm[c] = "out"
    BY <2>1, <2>2
  <2>3. CASE arm[c] = "in"
    <3>1. \A d \in Conns : arm[d] = "out" => arm'[d] = "out"
      BY <1>0, <2>1, <2>3 DEF Arms
    <3>. QED
      BY <1>a, <2>1, <3>1
  <2>. QED
    BY <2>1, <2>2, <2>3
<1>13. ASSUME NEW c \in Conns, WriteAgain(c)
       PROVE  Owned
  BY <1>6, <1>13 DEF WriteAgain
<1>. QED
  BY <1>1, <1>2, <1>3, <1>4, <1>5, <1>6, <1>7, <1>8, <1>9, <1>10, <1>11, <1>12, <1>13, <1>14
     DEF Next, Work

-------------------------------------------------------------------------------
(* Together                                                                *)

(* The invariants about answers do not hold one by one: what a worker puts *)
(* into the vector depends on what the handler put into the page, that on  *)
(* whose child the signal is for, and that on who has the connection in    *)
(* hand.                                                                   *)
IInv ==
  /\ TypeInv /\ TurnInv
  /\ HandlerSet /\ HandlersInv /\ PipesInv /\ PageInv
  /\ AnswersInv /\ OwnResponse
  /\ MappingOwned
  /\ StaysUp

(* All of it holds of a server that has accepted nothing.                  *)
LEMMA IInvInit == Init => IInv
<1>. SUFFICES ASSUME Init PROVE IInv
  OBVIOUS
<1>1. TypeInv
  BY InitTypes
<1>2. /\ \A w \in Workers : pc[w] = "idle"
      /\ \A c \in Conns : arm[c] = "closed" /\ received[c] = NoResponse
      /\ \A p \in Pids : child[p] = NoProcess
      /\ \A t \in Threads : inHandler[t] = None
      /\ output = {} /\ ~sigchld /\ up
      /\ jsonDataBuf = None /\ m_dynamic_page_len = None /\ m_dynamic_page_address = None
      /\ m_file_address = None
  BY DEF Init
<1>3. \A p \in Pids : child[p].state = "none" /\ child[p].conn = None
  BY <1>2 DEF NoProcess
<1>4. TurnInv
  BY <1>2, <1>3 DEF TurnInv, OneOpen, OneInHand, OneBusy, Working, Unaided, InHand, Alive, Busy
<1>5. HandlerSet
  BY <1>2, <1>3 DEF HandlerSet, Alive
<1>6. HandlersInv
  BY <1>2 DEF HandlersInv, Reading
<1>a. PipesInv
  BY <1>2 DEF PipesInv
<1>7. PageInv
  BY <1>2, <1>3 DEF PageInv, Working, Unaided, InHand, Alive
<1>8. AnswersInv
  BY <1>2 DEF AnswersInv, Busy, ConnInv
<1>9. OwnResponse
  <2>1. NoResponse.for = None
    BY DEF NoResponse
  <2>. QED
    BY <1>2, <2>1 DEF OwnResponse
<1>10. MappingOwned /\ StaysUp
  BY <1>2, NothingOwed DEF MappingOwned, StaysUp, Requests
<1>. QED
  BY <1>1, <1>4, <1>5, <1>6, <1>7, <1>8, <1>9, <1>10, <1>a DEF IInv

(* No handler parses a text that is not its program's, but for the start   *)
(* of one that is too long; its worker is still in wait() then, and stays  *)
(* there.                                                                  *)
LEMMA UpStep ==
  ASSUME TypeInv, TurnInv, HandlerSet, HandlersInv, PipesInv, PageInv, StaysUp, [Next]_vars
  PROVE  StaysUp'
<1>. USE DEF vars, thread, conn, file, page, procs, signals
<1>1. ASSUME NEW t \in Threads, HandlerEnds(t)
      PROVE  StaysUp'
  <2>1. CASE inHandler[t].page \notin Parsed \cap TooLong
    BY <1>1, <2>1, MakesPage DEF HandlerEnds, StaysUp
  <2>2. CASE inHandler[t].page \in Parsed \cap TooLong
    <3>1. /\ inHandler[t].pipe \in Pids /\ child[inHandler[t].pipe].state = "ended"
          /\ child[inHandler[t].pipe].req = inHandler[t].page
      BY <1>1, ReadsOutput
    <3>2. PICK w \in Workers : pc[w] \in {"signal", "wait"} /\ req[at[w]] = inHandler[t].page
      BY <3>1 DEF HandlerSet, Alive
    <3>3. pc[w] = "wait"
      BY <3>1, <3>2 DEF HandlerSet
    <3>4. UNCHANGED <<pc, at, req>>
      BY <1>1 DEF HandlerEnds
    <3>. QED
      BY <2>2, <3>2, <3>3, <3>4 DEF StaysUp
  <2>. QED
    BY <2>1, <2>2
<1>2. CASE up /\ \A t \in Threads : ~HandlerEnds(t)
  BY <1>2, KeepsUp DEF StaysUp
<1>3. CASE ~up /\ \A t \in Threads : ~HandlerEnds(t)
  <2>1. ASSUME NEW w \in Workers
        PROVE  ~Work(w)
    BY <1>3 DEF Work, Stat, FillError, Mmap, FillFile, FillEmpty, Fork, ForkFails, SetHandler, Wait,
                FillPage, Goto, Runs
  <2>2. ASSUME NEW c \in Conns
        PROVE  ~(\/ Accept(c) \/ Close(c) \/ Write(c)
                 \/ WriteNothing(c) \/ WriteAgain(c) \/ WriteFailed(c))
    BY <1>3 DEF Accept, Close, Write, WriteNothing, WriteAgain, WriteFailed, Writable, Runs
  <2>3. ASSUME NEW t \in Threads
        PROVE  ~Signal(t)
    BY <1>3 DEF Signal, Runs
  <2>4. ASSUME NEW p \in Pids, ChildEnds(p) \/ StrayArms(p)
        PROVE  UNCHANGED <<pc, at, req>>
    BY <2>4 DEF ChildEnds, StrayArms
  <2>5. UNCHANGED <<pc, at, req>>
    BY <1>3, <2>1, <2>2, <2>3, <2>4 DEF Next
  <2>. QED
    BY <1>3, <2>5 DEF StaysUp
<1>. QED
  BY <1>1, <1>2, <1>3

(* All of it is kept by every step.                                        *)
LEMMA IInvStep ==
  ASSUME IInv, MaxOpen = 1, TimelySignal, [Next]_vars
  PROVE  IInv'
BY TypeStep, TurnStep, HandlerSetStep, HandlersStep, PipesStep, PageStep, AnswersStep, MappingStep,
   UpStep DEF IInv

(* One connection at a time, with timely signals: the inductive invariant. *)
LEMMA OneAtATime ==
  ASSUME MaxOpen = 1, TimelySignal
  PROVE  Spec => []IInv
<1>1. IInv /\ [Next]_vars => IInv'
  BY IInvStep
<1>. QED
  BY <1>1, IInvInit, PTL DEF Spec

(* With one connection at a time and timely signals every client gets the  *)
(* answer to its own request, for any number of workers and any set of     *)
(* requests (http_conn.cpp:718-765).  Two connections break it: see        *)
(* MCResponder_mixed.cfg.                                                  *)
THEOREM OwnResponseOneAtATime ==
  ASSUME MaxOpen = 1, TimelySignal
  PROVE  Spec => []OwnResponse
<1>1. IInv => OwnResponse
  BY DEF IInv
<1>. QED
  BY <1>1, OneAtATime, PTL

(* Under the same hypotheses, the body of an answer is there until it is   *)
(* written (http_conn.cpp:569-576, 121-127).                               *)
THEOREM BodyAliveOneAtATime ==
  ASSUME MaxOpen = 1, TimelySignal
  PROVE  Spec => []BodyAlive
<1>1. ASSUME IInv
      PROVE  BodyAlive
  <2>. SUFFICES ASSUME Strays = {}, NEW c \in Conns, arm[c] = "out", m_iv.body # None
                PROVE  \/ m_file_address = m_iv.body
                       \/ m_dynamic_page_len # None /\ m_dynamic_page_address = m_iv.body
    BY DEF BodyAlive
  <2>1. up
    <3>1. \A w \in Workers : pc[w] = "idle"
      BY <1>1, NobodyBusy DEF IInv, Busy
    <3>. QED
      BY <1>1, <3>1 DEF IInv, StaysUp
  <2>2. ConnInv(c) /\ m_dynamic_page_len = jsonDataBuf /\ m_dynamic_page_address = jsonDataBuf
    BY <1>1, <2>1 DEF IInv, AnswersInv, PageInv
  <2>3. m_iv.body = Content(req[c]) /\ req[c] \in Files \cup Pages \cup {Missing, None}
    BY <2>2 DEF ConnInv
  <2>4. CASE req[c] \in Files
    BY <2>2, <2>3, <2>4, Contained DEF ConnInv
  <2>5. CASE req[c] \in Pages
    BY <2>2, <2>3, <2>5 DEF ConnInv
  <2>6. CASE req[c] \in {Missing, None}
    BY <2>3, <2>6, Contained, NothingOwed
  <2>. QED
    BY <2>3, <2>4, <2>5, <2>6
<1>. QED
  BY <1>1, OneAtATime, PTL

(* Under the same hypotheses, no handler ends the server with an exception *)
(* unless it parses the output of a program that does not fit into         *)
(* jsonDataBuf (http_conn.cpp:413-415, 445-448), not even after programs   *)
(* that failed to start or that fork() could not start.                    *)
THEOREM StaysUpOneAtATime ==
  ASSUME MaxOpen = 1, TimelySignal
  PROVE  Spec => []StaysUp
<1>1. IInv => StaysUp
  BY DEF IInv
<1>. QED
  BY <1>1, OneAtATime, PTL

(* Under the same hypotheses, a mapping has an owner or was left by a      *)
(* client that hung up (http_conn.cpp:72-80, 560-576).                     *)
THEOREM MappingOwnedOneAtATime ==
  ASSUME MaxOpen = 1, TimelySignal
  PROVE  Spec => []MappingOwned
<1>1. IInv => MappingOwned
  BY DEF IInv
<1>. QED
  BY <1>1, OneAtATime, PTL

(* Under the same hypotheses, a handler never makes a page before init()   *)
(* gave the last one back (http_conn.cpp:121-126, 404-405).                *)
THEOREM PagesGivenBackOneAtATime ==
  ASSUME MaxOpen = 1, TimelySignal
  PROVE  Spec => PagesGivenBack
<1>. DEFINE GivenBack == m_dynamic_page_len' # m_dynamic_page_len =>
                           m_dynamic_page_len = None \/ m_dynamic_page_len' = None
<1>1. ASSUME IInv, [Next]_vars
      PROVE  GivenBack
  <2>. USE DEF vars, thread, conn, file, page, procs, signals
  <2>1. ASSUME NEW t \in Threads, HandlerEnds(t)
        PROVE  GivenBack
    BY <1>1, <2>1, MakesPage DEF IInv
  <2>2. ASSUME NEW w \in Workers, Work(w)
        PROVE  UNCHANGED m_dynamic_page_len
    BY <2>2 DEF Work, Stat, FillError, Mmap, FillFile, FillEmpty, Fork, ForkFails, SetHandler, Wait,
                FillPage
  <2>3. ASSUME NEW t \in Threads, Signal(t)
        PROVE  UNCHANGED m_dynamic_page_len
    BY <2>3 DEF Signal
  <2>4. ASSUME NEW p \in Pids, ChildEnds(p) \/ StrayArms(p)
        PROVE  UNCHANGED m_dynamic_page_len
    BY <2>4 DEF ChildEnds, StrayArms
  <2>5. ASSUME NEW c \in Conns, \/ Accept(c) \/ Close(c) \/ Write(c) \/ WriteNothing(c)
                                \/ WriteAgain(c) \/ WriteFailed(c)
        PROVE  m_dynamic_page_len' \in {None, m_dynamic_page_len}
    BY <2>5 DEF Accept, Close, Write, WriteNothing, WriteAgain, WriteFailed, init
  <2>. QED
    BY <1>1, <2>1, <2>2, <2>3, <2>4, <2>5 DEF Next
<1>2. IInv /\ [Next]_vars => [GivenBack]_vars
  BY <1>1
<1>. QED
  BY <1>2, OneAtATime, PTL DEF Spec, PagesGivenBack
===============================================================================

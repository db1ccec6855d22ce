---------------------------- MODULE ResponseWriter ----------------------------
(***************************************************************************)
(* write() of one http_conn (http_conn.cpp:578-623) against a socket that  *)
(* may take less than it is given.  A response is a header of m_write_idx  *)
(* units in m_write_buf, and a body behind it in the second block of the   *)
(* vector m_iv.                                                            *)
(*                                                                         *)
(* write() never moves the vector: every writev offers the response from   *)
(* its first unit.  So what the client got of a response is told by the    *)
(* lengths of the pieces that the socket took, each of which starts over.  *)
(* The loop counts the units against the length of the header alone.       *)
(*                                                                         *)
(* What m_iv and m_write_buf hold is the business of Responder, as is a    *)
(* call of write() with nothing to write.                                  *)
(*                                                                         *)
(* EnoughStrictly, UncountedWritev, EndlessWritev and AgainAtOnce are no   *)
(* part of the specification: each is the definition after it with a       *)
(* likely fault, against which a property was tried.                       *)
(***************************************************************************)
EXTENDS Integers, Sequences

CONSTANTS
  Headers,      (* lengths a header may have                               *)
  Bodies,       (* lengths a body may have                                 *)
  SendBuffer,   (* size of the socket's send buffer                        *)
  MaxResponses, (* bound: responses on one connection                      *)
  MaxPieces     (* bound: pieces of a response before its client stops     *)
                (* to read                                                 *)

ASSUME ResponseWriterAssumption ==
  /\ Headers \subseteq Nat \ {0}
  /\ Bodies \subseteq Nat
  /\ SendBuffer \in Nat \ {0}
  /\ MaxResponses \in Nat \ {0}
  /\ MaxPieces \in Nat

VARIABLES
  pc,               (* "idle": no response; "armed": waits for EPOLLOUT;   *)
                    (* "loop": in write(); "closed"                        *)
  m_write_idx,      (* length of the header                                *)
  body,             (* length of the second block of m_iv                  *)
  m_linger,
  bytes_to_send, bytes_have_send,   (* the locals of write()               *)
  space,            (* room in the send buffer                             *)
  sent,             (* the pieces of the response that the socket took     *)
  received,         (* history: the last response that was finished        *)
  short,            (* history: some writev took less than it was given    *)
  count             (* history: responses so far                           *)

response == <<m_write_idx, body, m_linger>>
locals   == <<bytes_to_send, bytes_have_send>>
history  == <<received, short>>
vars == <<pc, response, locals, space, sent, history, count>>

Total == m_write_idx + body

-------------------------------------------------------------------------------
(* process() has prepared a response and armed the descriptor for output.  *)
Prepare ==
  /\ pc = "idle"
  /\ count < MaxResponses
  /\ pc' = "armed"
  /\ m_write_idx' \in Headers /\ body' \in Bodies /\ m_linger' \in BOOLEAN
  /\ sent' = <<>>
  /\ count' = count + 1
  /\ UNCHANGED <<locals, space, history>>

(* epoll reports room, and main() calls write(): the locals start afresh,  *)
(* whatever an earlier call has sent.                                      *)
Call ==
  /\ pc = "armed"
  /\ space > 0
  /\ pc' = "loop"
  /\ bytes_to_send' = m_write_idx
  /\ bytes_have_send' = 0
  /\ UNCHANGED <<response, space, sent, history, count>>

(* The response counts as written when at least half of the header's       *)
(* length is: then the connection is reset, or closed by main().           *)
EnoughStrictly == bytes_to_send' < bytes_have_send'
Enough == bytes_to_send' <= bytes_have_send'

(* The socket takes n units of the response.                               *)
Take(n) ==
  /\ n <= space /\ n <= Total
  /\ space' = space - n
  /\ sent' = Append(sent, n)
  /\ short' = (short \/ n < Total)

Finish ==
  IF ~Enough THEN pc' = "loop" /\ UNCHANGED <<m_write_idx, m_linger, received>>
  ELSE /\ received' = [head |-> m_write_idx, length |-> Total, pieces |-> sent']
       /\ IF m_linger THEN pc' = "idle" /\ m_write_idx' = 0 /\ m_linger' = FALSE
          ELSE pc' = "closed" /\ UNCHANGED <<m_write_idx, m_linger>>

EndlessWritev(n) ==
  /\ pc = "loop"
  /\ Take(n)
  /\ UNCHANGED <<locals, pc, response, received, count>>
UncountedWritev(n) ==
  /\ pc = "loop"
  /\ Take(n)
  /\ bytes_to_send' = bytes_to_send - n
  /\ UNCHANGED bytes_have_send
  /\ Finish
  /\ UNCHANGED <<body, count>>
Writev(n) ==
  /\ pc = "loop"
  /\ Take(n)
  /\ bytes_to_send' = bytes_to_send - n
  /\ bytes_have_send' = bytes_have_send + n
  /\ Finish
  /\ UNCHANGED <<body, count>>

(* EAGAIN: the descriptor is armed for output again.                       *)
AgainAtOnce ==
  /\ pc = "loop"
  /\ space = 0
  /\ UNCHANGED vars
Again ==
  /\ pc = "loop"
  /\ space = 0
  /\ pc' = "armed"
  /\ UNCHANGED <<response, locals, space, sent, history, count>>

(* Any other error: write() returns false, and main() closes.              *)
Failed ==
  /\ pc = "loop"
  /\ pc' = "closed"
  /\ UNCHANGED <<response, locals, space, sent, history, count>>

Loop  == (\E n \in 1 .. SendBuffer : Writev(n)) \/ Again
write == Call \/ Loop \/ Failed

(* The client reads, and the send buffer has room again.                   *)
Drain ==
  /\ space < SendBuffer
  /\ Len(sent) < MaxPieces
  /\ space' \in space + 1 .. SendBuffer
  /\ UNCHANGED <<pc, response, locals, sent, history, count>>

-------------------------------------------------------------------------------
Init ==
  /\ pc = "idle"
  /\ m_write_idx = 0 /\ body = 0 /\ m_linger = FALSE
  /\ bytes_to_send = 0 /\ bytes_have_send = 0
  /\ space = SendBuffer
  /\ sent = <<>>
  /\ received = [head |-> 0, length |-> 0, pieces |-> <<0>>]
  /\ short = FALSE
  /\ count = 0

Next == Prepare \/ write \/ Drain

(* The main thread keeps running; that a connection fails is not relied on. *)
Spec == Init /\ [][Next]_vars /\ WF_vars(Call) /\ WF_vars(Loop)

-------------------------------------------------------------------------------
(* Properties                                                              *)

(* The types; and in the loop the two locals add up to the header's        *)
(* length, with more to send than was sent (http_conn.cpp:580-607).        *)
TypeOK ==
  /\ pc \in {"idle", "armed", "loop", "closed"}
  /\ m_write_idx \in Nat /\ body \in Nat /\ m_linger \in BOOLEAN
  /\ bytes_to_send \in Int /\ bytes_have_send \in Nat
  /\ space \in 0 .. SendBuffer
  /\ sent \in Seq(Nat)
  /\ received \in [head : Nat, length : Nat, pieces : Seq(Nat)]
  /\ short \in BOOLEAN
  /\ count \in 0 .. MaxResponses
  /\ pc = "armed" => m_write_idx > 0
  /\ pc = "loop" => /\ bytes_to_send + bytes_have_send = m_write_idx
                    /\ bytes_to_send > bytes_have_send

(* As long as the socket takes what it is given, write() sends each        *)
(* response once and whole, although it counts the header alone and the    *)
(* body makes bytes_to_send negative (http_conn.cpp:605-607).              *)
WholeUnlessShort ==
  ~short => /\ received.pieces = <<received.length>>
            /\ pc \in {"armed", "loop"} => sent = <<>>

(* Over all calls of write() for a response, no piece that is sent again   *)
(* from the start was half of the header or longer: what a client gets     *)
(* twice is never a header's end or a body (http_conn.cpp:593-607).        *)
LongPieceIsLast ==
  /\ pc \in {"armed", "loop"} => \A i \in 1 .. Len(sent) : 2 * sent[i] < m_write_idx
  /\ \A i \in 1 .. Len(received.pieces) - 1 :
       2 * received.pieces[i] < received.head

(* write() returns: a slow socket does not keep the main thread in the     *)
(* loop (http_conn.cpp:590-622).                                           *)
Returns == pc = "loop" ~> pc # "loop"

(* What the code's comments say: a response that counts as written was     *)
(* taken whole, the second block as long as Content-Length announced it    *)
(* (http_conn.cpp:604, 729, http_conn.h:129).                              *)
TakenWhole == received.pieces = <<received.length>>
===============================================================================

------------------------- MODULE ResponseWriterProofs -------------------------
(***************************************************************************)
(* What write() sends, for headers, bodies and send buffers of any length  *)
(* and any number of responses.                                            *)
(***************************************************************************)
EXTENDS ResponseWriter, TLAPS

(* While no writev was short, nothing of the response in the loop is sent. *)
FreshLoop == ~short /\ pc = "loop" => bytes_have_send = 0

IInv == TypeOK /\ WholeUnlessShort /\ LongPieceIsLast /\ FreshLoop

-------------------------------------------------------------------------------
(* One lemma for each action.                                              *)

LEMMA InitInv == Init => IInv
<1> SUFFICES ASSUME Init PROVE IInv
  OBVIOUS
<1>1. /\ received.head = 0 /\ received.length = 0 /\ received.pieces = <<0>>
      /\ Len(received.pieces) = 1
      /\ received \in [head : Nat, length : Nat, pieces : Seq(Nat)]
  BY DEF Init
<1>2. sent \in Seq(Nat) /\ space \in 0 .. SendBuffer /\ count \in 0 .. MaxResponses
  BY ResponseWriterAssumption DEF Init
<1>3. short \in BOOLEAN /\ m_linger \in BOOLEAN
  BY DEF Init
<1>4. TypeOK
  BY <1>1, <1>2, <1>3 DEF Init, TypeOK
<1>5. WholeUnlessShort /\ LongPieceIsLast /\ FreshLoop
  BY <1>1 DEF Init, WholeUnlessShort, LongPieceIsLast, FreshLoop
<1> QED
  BY <1>4, <1>5 DEF IInv

LEMMA PrepareInv == IInv /\ Prepare => IInv'
<1> SUFFICES ASSUME IInv, Prepare PROVE IInv'
  OBVIOUS
<1>1. TypeOK'
  BY ResponseWriterAssumption DEF IInv, TypeOK, Prepare, locals, history
<1>2. (WholeUnlessShort /\ FreshLoop)'
  BY DEF IInv, WholeUnlessShort, FreshLoop, Prepare, history
<1>3. LongPieceIsLast'
  BY DEF IInv, LongPieceIsLast, Prepare, history
<1> QED
  BY <1>1, <1>2, <1>3 DEF IInv

LEMMA CallInv == IInv /\ Call => IInv'
<1> SUFFICES ASSUME IInv, Call PROVE IInv'
  OBVIOUS
<1>1. TypeOK'
  BY DEF IInv, TypeOK, Call, response, history
<1>2. (WholeUnlessShort /\ FreshLoop)'
  BY DEF IInv, WholeUnlessShort, FreshLoop, Call, response, history
<1>3. LongPieceIsLast'
  BY DEF IInv, LongPieceIsLast, Call, response, history
<1> QED
  BY <1>1, <1>2, <1>3 DEF IInv

(* Again, Failed and Drain leave the response and what was sent alone.     *)
LEMMA RestInv ==
  ASSUME IInv, Again \/ Failed \/ Drain \/ UNCHANGED vars
  PROVE  IInv'
<1>1. /\ UNCHANGED <<m_write_idx, body, m_linger, sent, received, short, count>>
      /\ pc' = "loop" => pc = "loop" /\ UNCHANGED <<bytes_to_send, bytes_have_send>>
      /\ UNCHANGED <<bytes_to_send, bytes_have_send>>
      /\ pc' \in {"armed", "loop"} => pc \in {"armed", "loop"}
  BY DEF Again, Failed, Drain, vars, response, locals, history
<1>2. /\ space' \in 0 .. SendBuffer
      /\ pc' \in {"idle", "armed", "loop", "closed"}
      /\ pc' = "armed" => m_write_idx' > 0
  BY ResponseWriterAssumption
  DEF IInv, TypeOK, Again, Failed, Drain, vars, response, locals, history
<1>3. TypeOK'
  BY <1>1, <1>2 DEF IInv, TypeOK
<1>4. (WholeUnlessShort /\ FreshLoop)'
  BY <1>1 DEF IInv, WholeUnlessShort, FreshLoop
<1>5. LongPieceIsLast'
  BY <1>1 DEF IInv, LongPieceIsLast
<1> QED
  BY <1>3, <1>4, <1>5 DEF IInv

(* The step that counts.  A piece after which the loop goes on is shorter  *)
(* than half of the header; a piece that is not short ends the loop.       *)
LEMMA WritevInv ==
  ASSUME NEW n \in 1 .. SendBuffer, IInv, Writev(n)
  PROVE  IInv'
<1> USE ResponseWriterAssumption
<1>1. /\ n \in Nat /\ n > 0 /\ n <= space /\ n <= m_write_idx + body
      /\ space \in Nat /\ space' = space - n /\ space <= SendBuffer
  BY DEF IInv, TypeOK, Writev, Take, Total
<1>2. /\ m_write_idx \in Nat /\ body \in Nat
      /\ bytes_to_send \in Int /\ bytes_have_send \in Nat
      /\ bytes_to_send' = bytes_to_send - n
      /\ bytes_have_send' = bytes_have_send + n
      /\ bytes_to_send + bytes_have_send = m_write_idx
      /\ body' = body /\ count' = count
      /\ pc = "loop"
  BY DEF IInv, TypeOK, Writev
<1>3. /\ sent \in Seq(Nat)
      /\ sent' = Append(sent, n)
      /\ sent' \in Seq(Nat)
      /\ Len(sent') = Len(sent) + 1
      /\ \A i \in 1 .. Len(sent) : sent'[i] = sent[i]
      /\ sent'[Len(sent) + 1] = n
      /\ short' \in BOOLEAN
  BY <1>1 DEF IInv, TypeOK, Writev, Take, Total
<1>4. \A i \in 1 .. Len(sent) : 2 * sent[i] < m_write_idx
  BY <1>2 DEF IInv, LongPieceIsLast
<1>5. ~short => sent = <<>> /\ bytes_have_send = 0
  BY <1>2 DEF IInv, WholeUnlessShort, FreshLoop
<1>6. /\ n < m_write_idx + body => short'
      /\ ~short' => ~short /\ ~(n < m_write_idx + body)
  BY DEF Writev, Take, Total
<1>7. space' \in 0 .. SendBuffer
  BY <1>1
<1>8. CASE ~Enough
  <2>1. /\ pc' = "loop"
        /\ UNCHANGED <<m_write_idx, m_linger, received>>
    BY <1>8 DEF Writev, Finish
  <2>2. bytes_to_send' > bytes_have_send'
    BY <1>1, <1>2, <1>8 DEF Enough
  <2>3. 2 * n < m_write_idx
    BY <1>1, <1>2, <2>2
  <2>4. short'
    <3>1. n < m_write_idx + body
      BY <1>1, <1>2, <2>3
    <3> QED
      BY <1>6, <3>1
  <2>5. TypeOK'
    BY <1>1, <1>2, <1>3, <1>7, <2>1, <2>2 DEF IInv, TypeOK
  <2>6. ASSUME NEW i \in 1 .. Len(sent')
        PROVE  2 * sent'[i] < m_write_idx'
    <3>1. CASE i \in 1 .. Len(sent)
      BY <1>3, <1>4, <2>1, <3>1
    <3>2. CASE i = Len(sent) + 1
      BY <1>3, <2>1, <2>3, <3>2
    <3> QED
      BY <1>3, <3>1, <3>2
  <2>7. LongPieceIsLast'
    BY <2>1, <2>6 DEF IInv, LongPieceIsLast
  <2>8. (WholeUnlessShort /\ FreshLoop)'
    BY <2>4 DEF WholeUnlessShort, FreshLoop
  <2> QED
    BY <2>5, <2>7, <2>8 DEF IInv
<1>9. CASE Enough
  <2>1. /\ received' = [head |-> m_write_idx, length |-> m_write_idx + body, pieces |-> sent']
        /\ pc' \in {"idle", "closed"}
        /\ m_write_idx' \in {0, m_write_idx}
        /\ m_linger' \in BOOLEAN
    BY <1>9 DEF Writev, Finish, Total, IInv, TypeOK
  <2>2. /\ received'.head = m_write_idx
        /\ received'.length = m_write_idx + body
        /\ received'.pieces = sent'
        /\ received' \in [head : Nat, length : Nat, pieces : Seq(Nat)]
    BY <1>2, <1>3, <2>1
  <2>3. TypeOK'
    BY <1>2, <1>3, <1>7, <2>1, <2>2, <1>1 DEF IInv, TypeOK
  <2>4. LongPieceIsLast'
    <3>1. ASSUME NEW i \in 1 .. Len(sent') - 1
          PROVE  2 * sent'[i] < m_write_idx
      BY <1>3, <1>4
    <3> QED
      BY <2>1, <2>2, <3>1 DEF LongPieceIsLast
  <2>5. WholeUnlessShort'
    <3> SUFFICES ASSUME ~short'
                 PROVE  (received.pieces = <<received.length>>)'
      BY <2>1 DEF WholeUnlessShort
    <3>1. ~(n < m_write_idx + body) /\ sent = <<>>
      BY <1>5, <1>6
    <3>2. n = m_write_idx + body
      BY <1>1, <1>2, <3>1
    <3>3. sent' = <<n>>
      BY <1>1, <1>3, <3>1
    <3> QED
      BY <2>2, <3>2, <3>3
  <2>6. FreshLoop'
    BY <2>1 DEF FreshLoop
  <2> QED
    BY <2>3, <2>4, <2>5, <2>6 DEF IInv
<1> QED
  BY <1>8, <1>9

LEMMA NextInv == IInv /\ [Next]_vars => IInv'
<1> SUFFICES ASSUME IInv, [Next]_vars PROVE IInv'
  OBVIOUS
<1>1. CASE Prepare
  BY <1>1, PrepareInv
<1>2. CASE Call
  BY <1>2, CallInv
<1>3. ASSUME NEW n \in 1 .. SendBuffer, Writev(n) PROVE IInv'
  BY <1>3, WritevInv
<1>4. CASE Again \/ Failed \/ Drain \/ UNCHANGED vars
  BY <1>4, RestInv
<1> QED
  BY <1>1, <1>2, <1>3, <1>4 DEF Next, write, Loop

LEMMA Invariance == Spec => []IInv
<1>1. Init => IInv
  BY InitInv
<1>2. IInv /\ [Next]_vars => IInv'
  BY NextInv
<1> QED
  BY <1>1, <1>2, PTL DEF Spec

-------------------------------------------------------------------------------
(* The types, and the accounts of the two locals in the loop, for all      *)
(* lengths (http_conn.cpp:580-607).                                        *)
THEOREM TypeCorrect == Spec => []TypeOK
<1>1. IInv => TypeOK
  BY DEF IInv
<1> QED
  BY <1>1, Invariance, PTL

(* If no writev is short, each response is sent once and whole, whatever   *)
(* the lengths of its header and body (http_conn.cpp:605-607).             *)
THEOREM WholeWrites == Spec => []WholeUnlessShort
<1>1. IInv => WholeUnlessShort
  BY DEF IInv
<1> QED
  BY <1>1, Invariance, PTL

(* However the socket cuts a response, nothing follows a piece of half the *)
(* header's length or more (http_conn.cpp:593-607).                        *)
THEOREM LongPiecesLast == Spec => []LongPieceIsLast
<1>1. IInv => LongPieceIsLast
  BY DEF IInv
<1> QED
  BY <1>1, Invariance, PTL
===============================================================================

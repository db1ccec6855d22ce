------------------------------ MODULE HttpParser ------------------------------
(***************************************************************************)
(* The request parser of one http_conn (http_conn.cpp): parse_line() cuts  *)
(* the read buffer into lines, and process_read() feeds them to a state    *)
(* machine that keeps its place between calls, because a request arrives   *)
(* in pieces that need not end where a line ends.                          *)
(*                                                                         *)
(* The buffer holds symbols.  "CR" and "LF" are themselves; any other      *)
(* symbol is a stretch of text that the parser treats as one: a request    *)
(* line, a header, a piece of a body.  Positions count from 0, as in the   *)
(* code; m_read_idx is the length of m_read_buf.                           *)
(*                                                                         *)
(* A client sends its messages one after the other, and need not wait for  *)
(* an answer before the next: a piece may hold the end of one message and  *)
(* the start of another.  On a kept connection init() makes room for the   *)
(* next message, and forgets what it has of it already.                    *)
(*                                                                         *)
(* ParseBreakUnbounded, InitForgetsLength and ContentStaysOk are no part   *)
(* of the specification: each is the definition after it with a likely     *)
(* fault, against which a property was tried.                              *)
(***************************************************************************)
EXTENDS Integers, Sequences

CONSTANTS
  Streams,          (* what clients may send: messages, one after another  *)
  LenHeaders,       (* the Content-Length header for each number           *)
  IntMax,           (* the largest int                                     *)
  READ_BUFFER_SIZE,
  BodyInOnePiece    (* whether the network keeps bodies in one piece       *)

LengthHeaders == {LenHeaders[n] : n \in DOMAIN LenHeaders}

(* m_content_length = atol(text): a long, of which an int keeps the low    *)
(* bits.                                                                   *)
ToInt(n) ==
  LET low == n % (2 * (IntMax + 1))
  IN  IF low <= IntMax THEN low ELSE low - 2 * (IntMax + 1)
LengthOf(header) ==
  ToInt(CHOOSE n \in DOMAIN LenHeaders : LenHeaders[n] = header)

Symbols == {"CR", "LF", "NUL", "GET", "POST", "KEEP", "OTHER", "x", "y"} \cup LengthHeaders

ASSUME HttpParserAssumption ==
  /\ DOMAIN LenHeaders \subseteq Int
  /\ IntMax \in Nat
  /\ READ_BUFFER_SIZE \in 1 .. IntMax
  /\ Streams \subseteq Seq(Symbols \ {"NUL"})
  /\ BodyInOnePiece \in BOOLEAN

VARIABLES
  stream,           (* what the client sends from the last init() on       *)
  sent,             (* how much of it has been read                        *)
  pc,               (* "wait": armed for input; "loop", "switch": in       *)
                    (* process_read(); "answer", "closed", "crashed"       *)
  m_read_buf, m_checked_idx, m_start_line,
  m_check_state, m_method, m_linger, m_content_length,
  m_post_data,      (* the global: what the last body was                  *)
  line_status,      (* the local of process_read()                         *)
  code              (* what process_read() returned last                   *)

cursor  == <<m_checked_idx, m_start_line>>
request == <<m_check_state, m_method, m_linger, m_content_length>>
vars == <<stream, sent, pc, m_read_buf, cursor, request, m_post_data,
          line_status, code>>

m_read_idx == Len(m_read_buf)
At(i) == m_read_buf[i + 1]

-------------------------------------------------------------------------------
(* parse_line(): the first CR or LF from m_checked_idx on decides.         *)

Breaks == {i \in m_checked_idx .. m_read_idx - 1 : At(i) \in {"CR", "LF"}}

(* A complete line: its CR LF become zeros and the cursor moves behind it. *)
LineOk(i) ==
  /\ line_status' = "LINE_OK"
  /\ m_checked_idx' = i + 2
  /\ m_read_buf' = [m_read_buf EXCEPT ![i + 1] = "NUL", ![i + 2] = "NUL"]

LineNotOk(i, status) ==
  /\ line_status' = status
  /\ m_checked_idx' = i
  /\ UNCHANGED m_read_buf

(* At the break i.  (A LF is never found behind its CR: the cursor does    *)
(* not pass a CR on its own.)                                              *)
ParseBreakUnbounded(i) ==
  IF At(i) = "CR"
  THEN IF i + 1 < m_read_idx /\ At(i + 1) # "LF"
       THEN LineNotOk(i, "LINE_BAD")
       ELSE /\ line_status' = "LINE_OK"
            /\ m_checked_idx' = i + 2
            /\ UNCHANGED m_read_buf
  ELSE LineNotOk(i, "LINE_BAD")
ParseBreak(i) ==
  IF At(i) = "CR"
  THEN IF i + 1 = m_read_idx THEN LineNotOk(i, "LINE_OPEN")
       ELSE IF At(i + 1) = "LF" THEN LineOk(i)
       ELSE LineNotOk(i, "LINE_BAD")
  ELSE IF i > 1 /\ At(i - 1) = "CR" THEN LineOk(i - 1)
       ELSE LineNotOk(i, "LINE_BAD")

parse_line ==
  IF Breaks = {}
  THEN LineNotOk(m_read_idx, "LINE_OPEN")
  ELSE \E i \in Breaks : (\A j \in Breaks : i <= j) /\ ParseBreak(i)

-------------------------------------------------------------------------------
(* process_read()                                                          *)

(* The line that get_line() points at, without its zeros.                  *)
Line == SubSeq(m_read_buf, m_start_line + 1, m_checked_idx - 2)

Return(c) ==
  /\ code' = c
  /\ pc' = IF c = "NO_REQUEST" THEN "wait" ELSE "answer"

(* The condition of the while loop: in the content it goes on without      *)
(* looking for a line, until a pass through the content found too little.  *)
LoopCondition ==
  /\ pc = "loop"
  /\ IF m_check_state = "CONTENT" /\ line_status = "LINE_OK"
     THEN /\ pc' = "switch"
          /\ UNCHANGED <<m_read_buf, m_checked_idx, line_status, code>>
     ELSE /\ parse_line
          /\ IF line_status' = "LINE_OK"
             THEN pc' = "switch" /\ UNCHANGED code
             ELSE Return("NO_REQUEST")
  /\ UNCHANGED <<stream, sent, m_start_line, request, m_post_data>>

Switch(state) ==
  /\ pc = "switch"
  /\ m_check_state = state
  /\ m_start_line' = m_checked_idx
  /\ UNCHANGED <<stream, sent, m_checked_idx>>

(* parse_request_line(): only GET and POST, on a line that is whole.       *)
RequestLine ==
  /\ Switch("REQUESTLINE")
  /\ IF Line \in {<<"GET">>, <<"POST">>}
     THEN /\ m_method' = Line[1]
          /\ m_check_state' = "HEADER"
          /\ pc' = "loop"
          /\ UNCHANGED code
     ELSE /\ Return("BAD_REQUEST")
          /\ UNCHANGED <<m_method, m_check_state>>
  /\ UNCHANGED <<m_read_buf, m_linger, m_content_length, m_post_data, line_status>>

(* parse_headers(): an empty line ends the head, and the request if no     *)
(* content follows; otherwise one header is noted.                         *)
HeaderLine ==
  /\ Switch("HEADER")
  /\ IF Line = <<>> /\ m_content_length = 0
     THEN Return("GET_REQUEST")
     ELSE pc' = "loop" /\ UNCHANGED code
  /\ m_check_state' = IF Line = <<>> /\ m_content_length # 0
                      THEN "CONTENT" ELSE m_check_state
  /\ m_linger' = (m_linger \/ Line = <<"KEEP">>)
  /\ m_content_length' =
       IF \E header \in LengthHeaders : Line = <<header>>
       THEN LengthOf(Line[1]) ELSE m_content_length
  /\ UNCHANGED <<m_read_buf, m_method, m_post_data, line_status>>

(* parse_content(): enough has been read when m_read_idx is the length of  *)
(* the content past m_checked_idx.  A negative length is always enough;    *)
(* one that makes the sum overflow may look so.                            *)
ContentEnd == m_start_line + m_content_length
Enough    == m_read_idx >= m_content_length + m_checked_idx
Overflows == m_content_length + m_checked_idx > IntMax

(* The content is what m_start_line pointed at, up to the zero that        *)
(* text[m_content_length] becomes.  Behind the last symbol there is a zero *)
(* already: if the buffer is full, the low byte of m_read_idx, which       *)
(* follows it.  Outside the buffer the server crashes, or goes on with a   *)
(* byte of something else lost (which is not modelled).                    *)
TakeContent ==
  /\ m_post_data' = SubSeq(m_read_buf, m_start_line + 1,
                           IF ContentEnd \in m_start_line .. m_read_idx
                           THEN ContentEnd ELSE m_read_idx)
  /\ m_read_buf' = IF ContentEnd \in 0 .. m_read_idx - 1
                   THEN [m_read_buf EXCEPT ![ContentEnd + 1] = "NUL"]
                   ELSE m_read_buf
  /\ \/ Return("GET_REQUEST")
     \/ /\ ContentEnd \notin 0 .. READ_BUFFER_SIZE
        /\ pc' = "crashed"
        /\ UNCHANGED code
  /\ UNCHANGED line_status

AskForMore(status) ==
  /\ line_status' = status
  /\ pc' = "loop"
  /\ UNCHANGED <<m_read_buf, m_post_data, code>>

ContentStaysOk ==
  /\ Switch("CONTENT")
  /\ \/ (Enough \/ Overflows) /\ TakeContent
     \/ ~Enough /\ AskForMore("LINE_OK")
  /\ UNCHANGED request
Content ==
  /\ Switch("CONTENT")
  /\ \/ (Enough \/ Overflows) /\ TakeContent
     \/ ~Enough /\ AskForMore("LINE_OPEN")
  /\ UNCHANGED request

process_read == LoopCondition \/ RequestLine \/ HeaderLine \/ Content

-------------------------------------------------------------------------------
(* What has been received since init(), as the client sent it.             *)
Received == SubSeq(stream, 1, sent)

(* Where the head of a message ends: behind the first empty line.          *)
EndsHead(s, i) ==
  i \in 4 .. Len(s) /\ SubSeq(s, i - 3, i) = <<"CR", "LF", "CR", "LF">>
HeadEnd(s) ==
  IF \E i \in 1 .. Len(s) : EndsHead(s, i)
  THEN CHOOSE i \in 1 .. Len(s) :
         EndsHead(s, i) /\ \A j \in 1 .. i - 1 : ~EndsHead(s, j)
  ELSE Len(s)

(* Of the first k symbols, those that are a header: a line of their own.   *)
(* A header that is given twice holds as it was given last.                *)
HeadersIn(s, k) == {i \in 2 .. k - 1 : s[i - 1] = "LF" /\ s[i + 1] = "CR"}
HasIn(s, k, header) == \E i \in HeadersIn(s, k) : s[i] = header
LengthsIn(s, k) == {i \in HeadersIn(s, k) : s[i] \in LengthHeaders}
LengthIn(s, k) ==
  IF LengthsIn(s, k) = {} THEN 0
  ELSE LengthOf(s[CHOOSE i \in LengthsIn(s, k) : \A j \in LengthsIn(s, k) : j <= i])
BodyLength(s) == LengthIn(s, HeadEnd(s))

(* A piece may end anywhere; with BodyInOnePiece, not inside the body.     *)
MayEnd(n) ==
  BodyInOnePiece => \/ n <= HeadEnd(stream)
                    \/ n >= HeadEnd(stream) + BodyLength(stream)
                    \/ n = Len(stream)

(* read(): the next piece, and the worker starts on it.  It may just fill  *)
(* the buffer: recv() is then asked for 0 bytes, and finds nothing.  If    *)
(* there is more, the connection is closed.                                *)
Receive ==
  /\ pc = "wait"
  /\ \E n \in sent + 1 .. Len(stream) :
       /\ MayEnd(n)
       /\ sent' = n
       /\ m_read_buf' = m_read_buf \o SubSeq(stream, sent + 1, n)
  /\ IF Len(m_read_buf') <= READ_BUFFER_SIZE
     THEN pc' = "loop" /\ line_status' = "LINE_OK"
     ELSE pc' = "closed" /\ UNCHANGED line_status
  /\ UNCHANGED <<stream, cursor, request, m_post_data, code>>

(* init(): the parser starts over, and forgets what is still in the buffer.*)
InitForgetsLength ==
  /\ m_read_buf' = <<>>
  /\ m_checked_idx' = 0 /\ m_start_line' = 0
  /\ m_check_state' = "REQUESTLINE"
  /\ m_method' = "GET"
  /\ m_linger' = FALSE
  /\ UNCHANGED m_content_length
init ==
  /\ m_read_buf' = <<>>
  /\ m_checked_idx' = 0 /\ m_start_line' = 0
  /\ m_check_state' = "REQUESTLINE"
  /\ m_method' = "GET"
  /\ m_linger' = FALSE
  /\ m_content_length' = 0

(* The answer has been written: the connection is kept or closed.          *)
Answer ==
  /\ pc = "answer"
  /\ IF m_linger
     THEN /\ init
          /\ stream' = SubSeq(stream, sent + 1, Len(stream))
          /\ sent' = 0
          /\ pc' = "wait"
     ELSE pc' = "closed" /\ UNCHANGED <<stream, sent, m_read_buf, cursor, request>>
  /\ UNCHANGED <<m_post_data, line_status, code>>

-------------------------------------------------------------------------------
Init ==
  /\ stream \in Streams
  /\ sent = 0
  /\ pc = "wait"
  /\ m_read_buf = <<>>
  /\ m_checked_idx = 0 /\ m_start_line = 0
  /\ m_check_state = "REQUESTLINE"
  /\ m_method = "GET"
  /\ m_linger = FALSE
  /\ m_content_length = 0
  /\ m_post_data = <<>>
  /\ line_status = "LINE_OK"
  /\ code = "NO_REQUEST"

Next == Receive \/ process_read \/ Answer

(* A worker inside process_read() keeps running; the client need not send. *)
Spec == Init /\ [][Next]_vars /\ WF_vars(process_read)

-------------------------------------------------------------------------------
(* Properties                                                              *)

(* The cursors stay in order and inside what was read, and what was read   *)
(* inside the buffer, which it may fill (http_conn.cpp:131-169, 172-202).  *)
TypeOK ==
  /\ stream \in Seq(Symbols \ {"NUL"})
  /\ sent \in 0 .. Len(stream)
  /\ pc \in {"wait", "loop", "switch", "answer", "closed", "crashed"}
  /\ m_read_buf \in Seq(Symbols)
  /\ pc # "closed" => m_read_idx <= READ_BUFFER_SIZE
  /\ m_start_line \in Nat /\ m_checked_idx \in Nat
  /\ m_start_line <= m_checked_idx /\ m_checked_idx <= m_read_idx
  /\ m_check_state \in {"REQUESTLINE", "HEADER", "CONTENT"}
  /\ m_method \in {"GET", "POST"}
  /\ m_linger \in BOOLEAN
  /\ m_content_length \in Int
  /\ m_post_data \in Seq(Symbols)
  /\ line_status \in {"LINE_OK", "LINE_BAD", "LINE_OPEN"}
  /\ code \in {"NO_REQUEST", "BAD_REQUEST", "GET_REQUEST"}

(* What the received part of a message means, read off the whole of it     *)
(* without any cursor.  A CR or LF on its own in the head makes the rest   *)
(* unreadable: the parser never answers what comes after it.               *)
Lone(s, i) == \/ s[i] = "CR" /\ i < Len(s) /\ s[i + 1] # "LF"
              \/ s[i] = "LF" /\ (i = 1 \/ s[i - 1] # "CR")
Readable(s, n) == \A i \in 1 .. n : ~Lone(s, i)
IsBad(s) ==
  /\ \E i \in 1 .. Len(s) - 1 : s[i] = "CR" /\ s[i + 1] = "LF" /\ Readable(s, i)
  /\ s[1] \notin {"GET", "POST"} \/ s[2] # "CR"
IsComplete(s) ==
  /\ EndsHead(s, HeadEnd(s)) /\ Readable(s, HeadEnd(s))
  /\ Len(s) >= HeadEnd(s) + BodyLength(s)

TooLong(s) ==
  /\ EndsHead(s, HeadEnd(s)) /\ Readable(s, HeadEnd(s))
  /\ Len(s) + BodyLength(s) > IntMax

(* However messages are cut into pieces, process_read() asks for more as   *)
(* long as it is incomplete, and when it is complete reports its method,   *)
(* whether to keep the connection, its length (as an int) and its body     *)
(* (http_conn.cpp:331-395).  A message of negative length is complete with *)
(* its head; one whose length overflows may be answered at any time.       *)
RecognisesRequests ==
  LET s == Received IN
  /\ pc = "wait" => ~IsBad(s) /\ ~IsComplete(s)
  /\ pc = "answer" /\ code = "BAD_REQUEST" => IsBad(s)
  /\ pc = "answer" /\ code = "GET_REQUEST" =>
       /\ IsComplete(s) \/ TooLong(s)
       /\ ~IsBad(s)
       /\ m_method = s[1]
       /\ m_linger = HasIn(s, HeadEnd(s), "KEEP")
       /\ m_content_length = BodyLength(s)
       /\ IsComplete(s) /\ BodyLength(s) > 0 =>
            m_post_data = SubSeq(s, HeadEnd(s) + 1, HeadEnd(s) + BodyLength(s))

(* process_read() returns: the loop that sometimes goes on without taking  *)
(* a line does not go on for ever (http_conn.cpp:338-392).                 *)
Returns == pc = "loop" ~> pc \in {"wait", "answer", "crashed"}
===============================================================================

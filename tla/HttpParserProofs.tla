--------------------------- MODULE HttpParserProofs ---------------------------
(***************************************************************************)
(* HttpParser, for messages, buffers and pieces of any size.               *)
(*                                                                         *)
(* CursorsInBuffer: no step takes m_checked_idx past m_read_idx or         *)
(* m_start_line past m_checked_idx, and the content that parse_content()   *)
(* hands on lies inside the buffer.                                        *)
(*                                                                         *)
(* RequestsRecognised: a request is reported when it is complete and as    *)
(* what it is, provided that no piece ends inside a body.  The invariant   *)
(* relates the buffer, the cursors and what the parser has noted to what   *)
(* the client sent: outside the content, everything before m_start_line    *)
(* are whole lines that have been noted, no CR or LF lies between          *)
(* m_start_line and m_checked_idx, what follows is as it was received, and *)
(* a parser that waits has reached the end or a break that is no line end. *)
(***************************************************************************)
EXTENDS HttpParser, SequenceTheorems, TLAPS

(* A part of a sequence is a sequence of the same elements.                *)
LEMMA SubSeqType ==
  ASSUME NEW S, NEW s \in Seq(S), NEW a \in Nat \ {0}, NEW b \in 0 .. Len(s)
  PROVE  SubSeq(s, a, b) \in Seq(S)
  OBVIOUS

(* Overwriting an element with another one of the type keeps the type.     *)
LEMMA ExceptType ==
  ASSUME NEW S, NEW s \in Seq(S), NEW i \in 1 .. Len(s), NEW x \in S
  PROVE  /\ [s EXCEPT ![i] = x] \in Seq(S)
         /\ Len([s EXCEPT ![i] = x]) = Len(s)
  OBVIOUS

LEMMA LengthType ==
  ASSUME NEW header \in LengthHeaders
  PROVE  LengthOf(header) \in Int
<1>. DEFINE n == CHOOSE k \in DOMAIN LenHeaders : LenHeaders[k] = header
<1>1. n \in Int
  BY HttpParserAssumption DEF LengthHeaders
<1>2. 2 * (IntMax + 1) \in Nat \ {0}
  BY HttpParserAssumption
<1>. HIDE DEF n
<1>3. n % (2 * (IntMax + 1)) \in Int
  BY <1>1, <1>2
<1>4. LengthOf(header) = ToInt(n)
  BY DEF LengthOf, n
<1>. QED
  BY <1>2, <1>3, <1>4 DEF ToInt

LEMMA InitTypeOK == Init => TypeOK
<1>. SUFFICES ASSUME Init PROVE TypeOK
  OBVIOUS
<1>1. /\ stream \in Seq(Symbols \ {"NUL"})
      /\ READ_BUFFER_SIZE \in Nat /\ 0 < READ_BUFFER_SIZE
  BY HttpParserAssumption DEF Init
<1>2. m_read_buf \in Seq(Symbols) /\ Len(m_read_buf) = 0 /\ m_post_data \in Seq(Symbols)
  BY DEF Init
<1>3. m_read_idx = 0
  BY <1>2 DEF m_read_idx
<1>4. m_linger \in BOOLEAN
  BY DEF Init
<1>. QED
  BY <1>1, <1>2, <1>3, <1>4 DEF Init, TypeOK

(* parse_line() moves the cursor forward, to no further than m_read_idx.   *)
LEMMA ParseLineCursor ==
  ASSUME TypeOK, parse_line
  PROVE  /\ m_checked_idx' \in Nat
         /\ m_checked_idx <= m_checked_idx' /\ m_checked_idx' <= Len(m_read_buf)
         /\ m_read_buf' \in Seq(Symbols) /\ Len(m_read_buf') = Len(m_read_buf)
         /\ line_status' \in {"LINE_OK", "LINE_BAD", "LINE_OPEN"}
<1>1. /\ m_read_buf \in Seq(Symbols) /\ Len(m_read_buf) \in Nat
      /\ m_checked_idx \in Nat /\ m_checked_idx <= Len(m_read_buf)
  BY DEF TypeOK, m_read_idx
<1>2. "NUL" \in Symbols
  BY DEF Symbols
<1>3. ASSUME NEW i \in Nat, LineOk(i), m_checked_idx <= i + 2, i + 2 <= Len(m_read_buf)
      PROVE  /\ m_checked_idx' \in Nat
             /\ m_checked_idx <= m_checked_idx' /\ m_checked_idx' <= Len(m_read_buf)
             /\ m_read_buf' \in Seq(Symbols) /\ Len(m_read_buf') = Len(m_read_buf)
             /\ line_status' = "LINE_OK"
  <2>. DEFINE b == [m_read_buf EXCEPT ![i + 1] = "NUL"]
  <2>1. b \in Seq(Symbols) /\ Len(b) = Len(m_read_buf)
    BY <1>1, <1>2, <1>3, ExceptType
  <2>2. m_read_buf' = [b EXCEPT ![i + 2] = "NUL"]
    BY <1>3 DEF LineOk
  <2>3. m_read_buf' \in Seq(Symbols) /\ Len(m_read_buf') = Len(b)
    BY <1>1, <1>2, <1>3, <2>1, <2>2, ExceptType
  <2>. QED
    BY <1>3, <2>1, <2>3 DEF LineOk
<1>4. CASE Breaks = {}
  BY <1>1, <1>4 DEF parse_line, LineNotOk, m_read_idx
<1>5. CASE Breaks # {}
  <2>1. PICK i \in Breaks : ParseBreak(i)
    BY <1>5 DEF parse_line
  <2>2. i \in Nat /\ m_checked_idx <= i /\ i < Len(m_read_buf)
    BY <1>1, <2>1 DEF Breaks, m_read_idx
  <2>3. CASE \E status \in {"LINE_BAD", "LINE_OPEN"} : LineNotOk(i, status)
    BY <1>1, <2>2, <2>3 DEF LineNotOk
  <2>4. CASE LineOk(i) /\ i + 1 # Len(m_read_buf)
    BY <1>1, <1>3, <2>2, <2>4
  <2>5. CASE LineOk(i - 1) /\ i > 1
    BY <1>1, <1>3, <2>2, <2>5
  <2>. QED
    BY <2>1, <2>3, <2>4, <2>5 DEF ParseBreak, m_read_idx
<1>. QED
  BY <1>4, <1>5

LEMMA LoopConditionStep ==
  ASSUME TypeOK, LoopCondition
  PROVE  TypeOK'
<1>1. CASE m_check_state = "CONTENT" /\ line_status = "LINE_OK"
  BY <1>1 DEF LoopCondition, TypeOK, m_read_idx, request
<1>2. CASE ~(m_check_state = "CONTENT" /\ line_status = "LINE_OK")
  <2>1. parse_line /\ UNCHANGED <<stream, sent, m_start_line, request, m_post_data>>
    BY <1>2 DEF LoopCondition
  <2>2. /\ pc' \in {"wait", "switch"} /\ pc = "loop"
        /\ code' \in {code, "NO_REQUEST"}
    BY <1>2 DEF LoopCondition, Return
  <2>. QED
    BY <2>1, <2>2, ParseLineCursor DEF TypeOK, m_read_idx, request
<1>. QED
  BY <1>1, <1>2

LEMMA LineSteps ==
  ASSUME TypeOK, RequestLine \/ HeaderLine
  PROVE  TypeOK'
<1>1. CASE RequestLine
  <2>1. m_method' \in {"GET", "POST"} /\ m_check_state' \in {"REQUESTLINE", "HEADER", "CONTENT"}
    BY <1>1 DEF RequestLine, TypeOK
  <2>2. pc' \in {"loop", "answer"} /\ code' \in {code, "BAD_REQUEST"}
    BY <1>1 DEF RequestLine, Return
  <2>. QED
    BY <1>1, <2>1, <2>2 DEF RequestLine, Switch, TypeOK, m_read_idx
<1>2. CASE HeaderLine
  <2>1. m_content_length' \in Int
    <3>1. CASE \E header \in LengthHeaders : Line = <<header>>
      <4>1. PICK header \in LengthHeaders : Line = <<header>>
        BY <3>1
      <4>. QED
        BY <1>2, <3>1, <4>1, LengthType DEF HeaderLine
    <3>2. CASE ~\E header \in LengthHeaders : Line = <<header>>
      BY <1>2, <3>2 DEF HeaderLine, TypeOK
    <3>. QED
      BY <3>1, <3>2
  <2>2. m_linger' \in BOOLEAN /\ m_check_state' \in {"REQUESTLINE", "HEADER", "CONTENT"}
    BY <1>2 DEF HeaderLine, TypeOK
  <2>3. pc' \in {"loop", "answer"} /\ code' \in {code, "GET_REQUEST"}
    BY <1>2 DEF HeaderLine, Return
  <2>. QED
    BY <1>2, <2>1, <2>2, <2>3 DEF HeaderLine, Switch, TypeOK, m_read_idx
<1>. QED
  BY <1>1, <1>2

(* The content lies inside what was read, because m_start_line is not      *)
(* beyond the m_checked_idx that its length is measured from.              *)
LEMMA ContentStep ==
  ASSUME TypeOK, Content
  PROVE  TypeOK'
<1>1. Switch("CONTENT") /\ UNCHANGED request
  BY DEF Content
<1>2. /\ m_read_buf \in Seq(Symbols) /\ Len(m_read_buf) \in Nat
      /\ m_start_line \in Nat /\ m_content_length \in Int
      /\ m_start_line <= m_checked_idx /\ m_checked_idx \in Nat
      /\ m_checked_idx <= Len(m_read_buf)
  BY DEF TypeOK, m_read_idx
<1>3. /\ pc' \in {"loop", "answer", "crashed"} /\ code' \in {code, "GET_REQUEST"}
      /\ line_status' \in {line_status, "LINE_OPEN"}
  BY DEF Content, TakeContent, AskForMore, Return
<1>4. /\ m_post_data' \in Seq(Symbols)
      /\ m_read_buf' \in Seq(Symbols) /\ Len(m_read_buf') = Len(m_read_buf)
  <2>1. CASE TakeContent
    <3>. DEFINE end == IF ContentEnd \in m_start_line .. m_read_idx
                       THEN ContentEnd ELSE m_read_idx
    <3>0. end \in 0 .. Len(m_read_buf)
      BY <1>2 DEF m_read_idx
    <3>1. m_post_data' = SubSeq(m_read_buf, m_start_line + 1, end)
      BY <2>1 DEF TakeContent
    <3>. HIDE DEF end
    <3>2. m_post_data' \in Seq(Symbols)
      BY <1>2, <3>0, <3>1, SubSeqType
    <3>3. PICK to : to = ContentEnd
      OBVIOUS
    <3>4. \/ m_read_buf' = m_read_buf
          \/ to \in 0 .. Len(m_read_buf) - 1 /\ m_read_buf' = [m_read_buf EXCEPT ![to + 1] = "NUL"]
      BY <2>1, <3>3 DEF TakeContent, m_read_idx
    <3>5. "NUL" \in Symbols
      BY DEF Symbols
    <3>6. CASE m_read_buf' = m_read_buf
      BY <1>2, <3>2, <3>6
    <3>7. CASE to \in 0 .. Len(m_read_buf) - 1 /\ m_read_buf' = [m_read_buf EXCEPT ![to + 1] = "NUL"]
      <4>1. to + 1 \in 1 .. Len(m_read_buf)
        BY <1>2, <3>7
      <4>. QED
        BY <1>2, <3>2, <3>5, <3>7, <4>1, ExceptType
    <3>. QED
      BY <3>4, <3>6, <3>7
  <2>2. CASE AskForMore("LINE_OPEN")
    BY <1>2, <2>2 DEF AskForMore, TypeOK
  <2>. QED
    BY <2>1, <2>2 DEF Content
<1>5. m_read_idx <= READ_BUFFER_SIZE
  BY <1>1 DEF Switch, TypeOK
<1>6. Len(m_read_buf') <= READ_BUFFER_SIZE
  BY <1>4, <1>5 DEF m_read_idx
<1>. QED
  BY <1>1, <1>2, <1>3, <1>4, <1>6 DEF Switch, TypeOK, m_read_idx, request

LEMMA ReceiveStep ==
  ASSUME TypeOK, Receive
  PROVE  TypeOK'
<1>1. /\ stream \in Seq(Symbols \ {"NUL"}) /\ sent \in 0 .. Len(stream)
      /\ m_read_buf \in Seq(Symbols)
  BY DEF TypeOK
<1>2. PICK n \in sent + 1 .. Len(stream) :
        sent' = n /\ m_read_buf' = m_read_buf \o SubSeq(stream, sent + 1, n)
  BY DEF Receive
<1>3. SubSeq(stream, sent + 1, n) \in Seq(Symbols \ {"NUL"})
  BY <1>1, <1>2, SubSeqType
<1>4. SubSeq(stream, sent + 1, n) \in Seq(Symbols)
  BY <1>3
<1>5. m_read_buf' \in Seq(Symbols) /\ Len(m_read_buf') >= Len(m_read_buf)
  BY <1>1, <1>2, <1>4
<1>6. /\ pc' # "closed" => Len(m_read_buf') <= READ_BUFFER_SIZE
      /\ pc' \in {"loop", "closed"}
      /\ line_status' \in {line_status, "LINE_OK"}
  BY DEF Receive
<1>. QED
  BY <1>1, <1>2, <1>5, <1>6 DEF Receive, TypeOK, m_read_idx, cursor, request

LEMMA AnswerStep ==
  ASSUME TypeOK, Answer
  PROVE  TypeOK'
<1>1. CASE m_linger
  <2>1. m_read_buf' = <<>> /\ m_read_buf' \in Seq(Symbols) /\ Len(m_read_buf') = 0
    BY <1>1 DEF Answer, init
  <2>2. stream' \in Seq(Symbols \ {"NUL"}) /\ sent' \in 0 .. Len(stream')
    <3>1. stream \in Seq(Symbols \ {"NUL"}) /\ sent \in 0 .. Len(stream)
      BY DEF TypeOK
    <3>2. stream' = SubSeq(stream, sent + 1, Len(stream)) /\ sent' = 0
      BY <1>1 DEF Answer
    <3>. QED
      BY <3>1, <3>2, SubSeqType
  <2>3. /\ pc' = "wait" /\ m_checked_idx' = 0 /\ m_start_line' = 0
        /\ m_check_state' = "REQUESTLINE" /\ m_method' = "GET" /\ m_linger' = FALSE
        /\ m_content_length' = 0
        /\ UNCHANGED <<m_post_data, line_status, code>>
    BY <1>1 DEF Answer, init
  <2>4. m_read_idx' = 0 /\ READ_BUFFER_SIZE \in Nat /\ 0 < READ_BUFFER_SIZE
    BY <2>1, HttpParserAssumption DEF m_read_idx
  <2>5. m_linger' \in BOOLEAN
    BY <2>3
  <2>. QED
    BY <2>1, <2>2, <2>3, <2>4, <2>5 DEF TypeOK
<1>2. CASE ~m_linger
  BY <1>2 DEF Answer, TypeOK, m_read_idx, cursor, request
<1>. QED
  BY <1>1, <1>2

(* The cursors of the parser never leave the part of the buffer that has   *)
(* been read, nor pass each other, and what is read stays inside the       *)
(* buffer, whatever is sent in whatever pieces, with any Content-Length.   *)
THEOREM CursorsInBuffer == Spec => []TypeOK
<1>1. TypeOK /\ [Next]_vars => TypeOK'
  <2>. SUFFICES ASSUME TypeOK, [Next]_vars PROVE TypeOK'
    OBVIOUS
  <2>1. CASE Next
    BY <2>1, LoopConditionStep, LineSteps, ContentStep, ReceiveStep, AnswerStep
       DEF Next, process_read
  <2>2. CASE UNCHANGED vars
    BY <2>2 DEF vars, cursor, request, TypeOK, m_read_idx
  <2>. QED
    BY <2>1, <2>2
<1>. QED
  BY <1>1, InitTypeOK, PTL DEF Spec
-------------------------------------------------------------------------------
(* RecognisesRequests                                                      *)

(* How far the parser is, in terms of what was received.  HeadIs and       *)
(* LengthIs say what HeadEnd and LengthIn choose, without choosing.        *)
HeadIs(s, h) == EndsHead(s, h) /\ \A j \in 1 .. h - 1 : ~EndsHead(s, j)
LengthIs(s, k, n) ==
  \/ LengthsIn(s, k) = {} /\ n = 0
  \/ \E i \in LengthsIn(s, k) : (\A j \in LengthsIn(s, k) : j <= i) /\ n = LengthOf(s[i])

NoBreak(s, a, b) == \A i \in a + 1 .. b : s[i] \notin {"CR", "LF"}
Unread(s, a) == \A i \in a + 1 .. Len(s) : m_read_buf[i] = s[i]

Aligned(s) ==
  /\ Len(m_read_buf) = Len(s)
  /\ \A i \in 1 .. Len(s) : m_read_buf[i] \in {s[i], "NUL"}

(* The first k symbols are whole lines of a head, noted as they are given. *)
HeadNoted(s, k, method, linger, length) ==
  /\ k \in Nat /\ k >= 3 /\ k <= Len(s)
  /\ s[1] = method /\ s[2] = "CR"
  /\ s[k - 1] = "CR" /\ s[k] = "LF"
  /\ Readable(s, k)
  /\ linger = HasIn(s, k, "KEEP")
  /\ LengthIs(s, k, length)
HeadRead(s, k) == HeadNoted(s, k, m_method, m_linger, m_content_length)
LinesRead(s) ==
  IF m_check_state = "REQUESTLINE"
  THEN m_start_line = 0 /\ m_linger = FALSE /\ m_content_length = 0
  ELSE HeadRead(s, m_start_line) /\ \A j \in 1 .. m_start_line : ~EndsHead(s, j)

(* parse_line() has found a line, or is looking for one, or cannot go on.  *)
LineFound(s) ==
  /\ m_checked_idx >= m_start_line + 2
  /\ s[m_checked_idx - 1] = "CR" /\ s[m_checked_idx] = "LF"
  /\ NoBreak(s, m_start_line, m_checked_idx - 2)
  /\ \A i \in m_start_line + 1 .. m_checked_idx - 2 : m_read_buf[i] = s[i]
  /\ Unread(s, m_checked_idx)
LineSought(s) == NoBreak(s, m_start_line, m_checked_idx) /\ Unread(s, m_start_line)
Stuck(s, c) ==
  \/ c = Len(s)
  \/ c + 1 = Len(s) /\ s[c + 1] = "CR"
  \/ c < Len(s) /\ Lone(s, c + 1)

Parsing == pc \in {"wait", "loop", "switch"}
BufferInv == Parsing => Aligned(Received) /\ (sent > 0 => MayEnd(sent))
LinesInv ==
  Parsing /\ m_check_state # "CONTENT" =>
    /\ LinesRead(Received)
    /\ pc = "switch" => line_status = "LINE_OK" /\ LineFound(Received)
    /\ pc # "switch" => LineSought(Received)
    /\ pc = "wait" => Stuck(Received, m_checked_idx)

(* In the content: a piece that ends inside the body is the last one.      *)
ContentRead(s, h) ==
  /\ HeadIs(s, h) /\ HeadRead(s, h)
  /\ m_content_length # 0 /\ h <= m_checked_idx
  /\ pc = "wait" \/ (pc = "loop" /\ line_status # "LINE_OK") => Len(s) < h + m_content_length
  /\ Len(s) = h \/ Len(s) >= h + m_content_length =>
       m_checked_idx = h /\ m_start_line = h /\ Unread(s, h)
ContentInv ==
  Parsing /\ m_check_state = "CONTENT" => \E h \in Nat : ContentRead(Received, h)

Answered(s) ==
  /\ code = "BAD_REQUEST" => IsBad(s)
  /\ code = "GET_REQUEST" =>
       /\ IsComplete(s) \/ TooLong(s)
       /\ ~IsBad(s)
       /\ m_method = s[1]
       /\ m_linger = HasIn(s, HeadEnd(s), "KEEP")
       /\ m_content_length = BodyLength(s)
       /\ IsComplete(s) /\ BodyLength(s) > 0 =>
            m_post_data = SubSeq(s, HeadEnd(s) + 1, HeadEnd(s) + BodyLength(s))
AnswerInv == pc = "answer" => Answered(Received)

IInv == TypeOK /\ BufferInv /\ LinesInv /\ ContentInv /\ AnswerInv

-------------------------------------------------------------------------------
(* Lemmas about messages                                                   *)

LEMMA EndsHeadDef ==
  ASSUME NEW s \in Seq(Symbols), NEW i \in Nat
  PROVE  EndsHead(s, i) <=> /\ i >= 4 /\ i <= Len(s)
                            /\ s[i - 3] = "CR" /\ s[i - 2] = "LF"
                            /\ s[i - 1] = "CR" /\ s[i] = "LF"
<1>1. SUFFICES ASSUME i >= 4, i <= Len(s)
      PROVE SubSeq(s, i - 3, i) = <<"CR", "LF", "CR", "LF">>
            <=> /\ s[i - 3] = "CR" /\ s[i - 2] = "LF"
                /\ s[i - 1] = "CR" /\ s[i] = "LF"
  BY DEF EndsHead
<1>. DEFINE t == SubSeq(s, i - 3, i)
<1>2. t \in Seq(Symbols) /\ Len(t) = 4
  BY <1>1
<1>3. \A j \in 1 .. 4 : t[j] = s[i - 4 + j]
  <2>1. i - 3 \in Nat /\ i - 3 >= 1 /\ i - 3 <= i + 1
    BY <1>1
  <2>2. \A j \in 1 .. i - (i - 3) + 1 : SubSeq(s, i - 3, i)[j] = s[(i - 3) + j - 1]
    BY <2>1, <1>1, SubSeqProperties
  <2>. QED
    BY <2>2
<1>4. t[1] = s[i - 3] /\ t[2] = s[i - 2] /\ t[3] = s[i - 1] /\ t[4] = s[i]
  BY <1>3
<1>5. ASSUME NEW u \in Seq(Symbols), Len(u) = 4
      PROVE  u = <<"CR", "LF", "CR", "LF">>
             <=> u[1] = "CR" /\ u[2] = "LF" /\ u[3] = "CR" /\ u[4] = "LF"
  BY <1>5
<1>. QED
  BY <1>2, <1>4, <1>5

LEMMA HeadEndIs ==
  ASSUME NEW s \in Seq(Symbols), NEW h \in Nat, HeadIs(s, h)
  PROVE  HeadEnd(s) = h
<1>1. h \in 1 .. Len(s) /\ EndsHead(s, h)
  BY DEF HeadIs, EndsHead
<1>2. ASSUME NEW i \in 1 .. Len(s), EndsHead(s, i), \A j \in 1 .. i - 1 : ~EndsHead(s, j)
      PROVE  i = h
  BY <1>1, <1>2 DEF HeadIs
<1>3. HeadEnd(s) = CHOOSE i \in 1 .. Len(s) : EndsHead(s, i) /\ \A j \in 1 .. i - 1 : ~EndsHead(s, j)
  BY <1>1 DEF HeadEnd
<1>. QED
  BY <1>1, <1>2, <1>3 DEF HeadIs

LEMMA LengthInIs ==
  ASSUME NEW s \in Seq(Symbols), NEW k \in Nat, NEW n, LengthIs(s, k, n)
  PROVE  LengthIn(s, k) = n
<1>1. CASE LengthsIn(s, k) = {} /\ n = 0
  BY <1>1 DEF LengthIn
<1>2. ASSUME NEW i \in LengthsIn(s, k), \A j \in LengthsIn(s, k) : j <= i, n = LengthOf(s[i])
      PROVE LengthIn(s, k) = n
  <2>1. \A l \in LengthsIn(s, k) : l \in Int
    BY DEF LengthsIn, HeadersIn
  <2>2. \A l \in LengthsIn(s, k) : (\A j \in LengthsIn(s, k) : j <= l) => l = i
    BY <1>2, <2>1
  <2>3. (CHOOSE l \in LengthsIn(s, k) : \A j \in LengthsIn(s, k) : j <= l) = i
    BY <1>2, <2>2
  <2>. QED
    BY <1>2, <2>3 DEF LengthIn
<1>. QED
  BY <1>1, <1>2 DEF LengthIs

(* What was read of a message stays what it is when more is received.      *)
LEMMA Prefix ==
  ASSUME NEW s \in Seq(Symbols), NEW t \in Seq(Symbols), Len(s) <= Len(t),
         \A i \in 1 .. Len(s) : t[i] = s[i], NEW k \in Nat, k <= Len(s)
  PROVE  /\ EndsHead(t, k) <=> EndsHead(s, k)
         /\ HeadIs(s, k) => HeadIs(t, k)
         /\ HeadersIn(t, k) = HeadersIn(s, k)
         /\ \A header : HasIn(t, k, header) <=> HasIn(s, k, header)
         /\ \A n : LengthIs(s, k, n) => LengthIs(t, k, n)
<1>1. \A j \in Nat : j <= Len(s) => (EndsHead(t, j) <=> EndsHead(s, j))
  BY EndsHeadDef, SMTT(30)
<1>2. HeadIs(s, k) => HeadIs(t, k)
  BY <1>1 DEF HeadIs
<1>3. HeadersIn(t, k) = HeadersIn(s, k)
  <2>1. ASSUME NEW i \in 2 .. k - 1
        PROVE  t[i - 1] = s[i - 1] /\ t[i + 1] = s[i + 1]
    <3>1. i - 1 \in 1 .. Len(s) /\ i + 1 \in 1 .. Len(s)
      OBVIOUS
    <3>. QED
      BY <3>1
  <2>. QED
    BY <2>1 DEF HeadersIn
<1>4. \A i \in HeadersIn(s, k) : t[i] = s[i]
  BY DEF HeadersIn
<1>5. \A header : HasIn(t, k, header) <=> HasIn(s, k, header)
  BY <1>3, <1>4 DEF HasIn
<1>6. LengthsIn(t, k) = LengthsIn(s, k) /\ \A i \in LengthsIn(s, k) : t[i] = s[i]
  BY <1>3, <1>4 DEF LengthsIn
<1>7. \A n : LengthIs(s, k, n) => LengthIs(t, k, n)
  BY <1>6 DEF LengthIs
<1>. QED
  BY <1>1, <1>2, <1>3, <1>5, <1>7

(* One more line adds at most one header: itself, if it is one symbol.     *)
LEMMA NextLine ==
  ASSUME NEW s \in Seq(Symbols), NEW k \in Nat, NEW c \in Nat,
         k >= 2, s[k - 1] = "CR", s[k] = "LF", Readable(s, k),
         k + 2 <= c, c <= Len(s), NoBreak(s, k, c - 2), s[c - 1] = "CR", s[c] = "LF"
  PROVE  /\ Readable(s, c)
         /\ HeadersIn(s, c) = HeadersIn(s, k) \cup (IF c = k + 3 THEN {k + 1} ELSE {})
         /\ \A j \in k + 1 .. c : EndsHead(s, j) => j = c /\ c = k + 2
         /\ c = k + 2 => EndsHead(s, c)
<1>1. ASSUME NEW i \in 1 .. c PROVE ~Lone(s, i)
  <2>1. CASE i <= k
    BY <2>1 DEF Readable
  <2>2. CASE i > k /\ i <= c - 2
    BY <2>2 DEF NoBreak, Lone
  <2>3. CASE i = c - 1
    BY <2>3 DEF Lone
  <2>4. CASE i = c
    BY <2>4 DEF Lone
  <2>. QED
    BY <2>1, <2>2, <2>3, <2>4
<1>2. ASSUME NEW i \in 2 .. c - 1, s[i - 1] = "LF", s[i + 1] = "CR", i >= k
      PROVE  c = k + 3 /\ i = k + 1
  <2>1. i # k
    BY <1>2
  <2>2. i - 1 <= k
    <3>1. SUFFICES ASSUME i - 1 > k PROVE FALSE
      OBVIOUS
    <3>2. CASE i - 1 <= c - 2
      BY <1>2, <3>1, <3>2 DEF NoBreak
    <3>. QED
      BY <1>2, <3>2
  <2>3. i = k + 1 /\ s[k + 2] = "CR"
    BY <1>2, <2>1, <2>2
  <2>4. k + 2 # c
    BY <2>3
  <2>5. ~(k + 2 <= c - 2)
    BY <2>3 DEF NoBreak
  <2>. QED
    BY <2>3, <2>4, <2>5
<1>3. c = k + 3 => k + 1 \in HeadersIn(s, c)
  BY DEF HeadersIn
<1>4. \A i \in HeadersIn(s, k) : i \in HeadersIn(s, c)
  BY DEF HeadersIn
<1>5. ASSUME NEW i \in HeadersIn(s, c), i < k PROVE i \in HeadersIn(s, k)
  BY <1>5 DEF HeadersIn
<1>6. HeadersIn(s, c) = HeadersIn(s, k) \cup (IF c = k + 3 THEN {k + 1} ELSE {})
  <2>1. ASSUME NEW i \in HeadersIn(s, c), i >= k PROVE c = k + 3 /\ i = k + 1
    BY <1>2, <2>1 DEF HeadersIn
  <2>2. \A i \in HeadersIn(s, c) : i \in Int
    BY DEF HeadersIn
  <2>. QED
    BY <1>3, <1>4, <1>5, <2>1, <2>2
<1>7. ASSUME NEW j \in k + 1 .. c, EndsHead(s, j) PROVE j = c /\ c = k + 2
  <2>1. s[j] = "LF" /\ s[j - 2] = "LF" /\ j >= 4
    BY <1>7, EndsHeadDef
  <2>2. j = c
    BY <2>1 DEF NoBreak
  <2>3. ~(k + 1 <= c - 2)
    BY <2>1, <2>2 DEF NoBreak
  <2>. QED
    BY <2>2, <2>3
<1>8. c = k + 2 => EndsHead(s, c)
  BY EndsHeadDef
<1>. QED
  BY <1>1, <1>6, <1>7, <1>8 DEF Readable
-------------------------------------------------------------------------------
(* What was received, in the states before and after a step                *)

LEMMA ReceivedType ==
  ASSUME TypeOK
  PROVE  /\ Received \in Seq(Symbols) /\ Len(Received) = sent
         /\ sent \in Nat
         /\ \A i \in 1 .. sent : Received[i] = stream[i] /\ Received[i] # "NUL"
<1>1. stream \in Seq(Symbols \ {"NUL"}) /\ sent \in Nat /\ sent <= Len(stream)
  BY DEF TypeOK
<1>2. Received \in Seq(Symbols \ {"NUL"}) /\ Len(Received) = sent
  BY <1>1 DEF Received
<1>3. \A i \in 1 .. sent : Received[i] = stream[i]
  BY <1>1 DEF Received
<1>4. \A i \in 1 .. sent : Received[i] \in Symbols \ {"NUL"}
  BY <1>1, <1>2
<1>. QED
  BY <1>1, <1>2, <1>3, <1>4

LEMMA ReceivedSame ==
  ASSUME UNCHANGED <<stream, sent>>
  PROVE  Received' = Received /\ (MayEnd(sent) => MayEnd(sent)')
BY DEF Received, MayEnd

(* parse_line() overwrites nothing but by zeros.                           *)
LEMMA ParseLineErases ==
  ASSUME NEW s \in Seq(Symbols), TypeOK, Aligned(s), parse_line
  PROVE  \A i \in 1 .. Len(s) : m_read_buf'[i] \in {s[i], "NUL"}
<1>1. m_read_buf \in Seq(Symbols) /\ Len(m_read_buf) = Len(s)
  BY DEF TypeOK, Aligned
<1>2. \/ m_read_buf' = m_read_buf
      \/ \E i \in Int : m_read_buf' = [m_read_buf EXCEPT ![i + 1] = "NUL", ![i + 2] = "NUL"]
  <2>1. CASE Breaks = {}
    BY <2>1 DEF parse_line, LineNotOk
  <2>2. CASE Breaks # {}
    <3>1. PICK i \in Breaks : ParseBreak(i)
      BY <2>2 DEF parse_line
    <3>2. i \in Int /\ i - 1 \in Int
      BY <1>1 DEF Breaks, TypeOK, m_read_idx
    <3>. QED
      BY <3>1, <3>2 DEF ParseBreak, LineOk, LineNotOk
  <2>. QED
    BY <2>1, <2>2
<1>. QED
  BY <1>1, <1>2 DEF Aligned

(* The first CR or LF decides; the LF of a line is never found on its own. *)
LEMMA ParseLineFinds ==
  ASSUME NEW s \in Seq(Symbols), TypeOK, Aligned(s), LineSought(s),
         m_start_line = 0 \/ s[m_start_line] = "LF",
         parse_line
  PROVE  /\ m_checked_idx' \in Nat
         /\ \/ /\ line_status' = "LINE_OK" /\ m_checked_idx' <= Len(s)
               /\ m_checked_idx' >= m_start_line + 2
               /\ s[m_checked_idx' - 1] = "CR" /\ s[m_checked_idx'] = "LF"
               /\ NoBreak(s, m_start_line, m_checked_idx' - 2)
               /\ \A i \in m_start_line + 1 .. m_checked_idx' - 2 : m_read_buf'[i] = s[i]
               /\ \A i \in m_checked_idx' + 1 .. Len(s) : m_read_buf'[i] = s[i]
               /\ Len(m_read_buf') = Len(s)
               /\ \A i \in 1 .. Len(s) : m_read_buf'[i] \in {s[i], "NUL"}
            \/ /\ line_status' # "LINE_OK" /\ m_read_buf' = m_read_buf
               /\ NoBreak(s, m_start_line, m_checked_idx')
               /\ Stuck(s, m_checked_idx')
<1>0. /\ m_read_buf \in Seq(Symbols) /\ Len(m_read_buf) = Len(s) /\ Len(s) \in Nat
      /\ m_start_line \in Nat /\ m_checked_idx \in Nat
      /\ m_start_line <= m_checked_idx /\ m_checked_idx <= Len(s)
  BY DEF TypeOK, Aligned, m_read_idx
<1>1. \A i \in m_start_line + 1 .. Len(s) : m_read_buf[i] = s[i]
  BY DEF LineSought, Unread
<1>2. \A i \in m_start_line .. Len(s) - 1 : At(i) = s[i + 1]
  BY <1>0, <1>1 DEF At
<1>3. \A i \in m_checked_idx .. Len(s) - 1 : s[i + 1] \in {"CR", "LF"} => i \in Breaks
  BY <1>0, <1>2 DEF Breaks, m_read_idx
<1>4. CASE Breaks = {}
  <2>1. /\ line_status' = "LINE_OPEN" /\ m_checked_idx' = Len(s) /\ UNCHANGED m_read_buf
    BY <1>0, <1>4 DEF parse_line, LineNotOk, m_read_idx
  <2>2. ASSUME NEW i \in m_start_line + 1 .. Len(s) PROVE s[i] \notin {"CR", "LF"}
    <3>1. CASE i <= m_checked_idx
      BY <3>1, <1>0 DEF LineSought, NoBreak
    <3>2. CASE i > m_checked_idx
      <4>1. i - 1 \in m_checked_idx .. Len(s) - 1 /\ (i - 1) + 1 = i
        BY <3>2, <1>0
      <4>. QED
        BY <4>1, <1>3, <1>4
    <3>. QED
      BY <3>1, <3>2, <1>0
  <2>. QED
    BY <1>0, <2>1, <2>2 DEF NoBreak, Stuck
<1>5. CASE Breaks # {}
  <2>1. PICK i \in Breaks : (\A j \in Breaks : i <= j) /\ ParseBreak(i)
    BY <1>5 DEF parse_line
  <2>2. /\ i \in Nat /\ m_checked_idx <= i /\ i < Len(s)
        /\ At(i) = s[i + 1] /\ s[i + 1] \in {"CR", "LF"}
    <3>1. i \in m_checked_idx .. Len(s) - 1 /\ At(i) \in {"CR", "LF"}
      BY <1>0, <2>1 DEF Breaks, m_read_idx
    <3>. QED
      BY <1>0, <1>2, <3>1
  <2>3. ASSUME NEW j \in m_start_line + 1 .. i PROVE s[j] \notin {"CR", "LF"}
    <3>1. CASE j <= m_checked_idx
      BY <3>1, <1>0 DEF LineSought, NoBreak
    <3>2. CASE j > m_checked_idx
      <4>1. j - 1 \in m_checked_idx .. Len(s) - 1 /\ (j - 1) + 1 = j /\ j - 1 < i
        BY <3>2, <1>0, <2>2
      <4>. QED
        BY <4>1, <1>3, <2>1, <2>2
    <3>. QED
      BY <3>1, <3>2, <1>0
  <2>4. NoBreak(s, m_start_line, i)
    BY <2>3 DEF NoBreak
  <2>5. ASSUME NEW status \in {"LINE_BAD", "LINE_OPEN"}, LineNotOk(i, status), Stuck(s, i)
        PROVE  /\ m_checked_idx' \in Nat
               /\ line_status' # "LINE_OK" /\ m_read_buf' = m_read_buf
               /\ NoBreak(s, m_start_line, m_checked_idx')
               /\ Stuck(s, m_checked_idx')
    BY <2>2, <2>4, <2>5 DEF LineNotOk
  <2>6. CASE s[i + 1] = "CR"
    <3>1. CASE i + 1 = Len(s)
      <4>1. LineNotOk(i, "LINE_OPEN")
        BY <1>0, <2>1, <2>2, <2>6, <3>1 DEF ParseBreak, m_read_idx
      <4>2. Stuck(s, i)
        BY <2>6, <3>1 DEF Stuck
      <4>. QED
        BY <2>5, <4>1, <4>2
    <3>2. CASE i + 1 # Len(s) /\ s[i + 2] # "LF"
      <4>1. At(i + 1) = s[i + 2]
        BY <1>0, <1>2, <2>2, <3>2
      <4>2. LineNotOk(i, "LINE_BAD")
        BY <1>0, <2>1, <2>2, <2>6, <3>2, <4>1 DEF ParseBreak, m_read_idx
      <4>3. Stuck(s, i)
        BY <2>2, <2>6, <3>2 DEF Stuck, Lone
      <4>. QED
        BY <2>5, <4>2, <4>3
    <3>3. CASE i + 1 # Len(s) /\ s[i + 2] = "LF"
      <4>1. At(i + 1) = s[i + 2]
        BY <1>0, <1>2, <2>2, <3>3
      <4>2. LineOk(i)
        BY <1>0, <2>1, <2>2, <2>6, <3>3, <4>1 DEF ParseBreak, m_read_idx
      <4>3. /\ line_status' = "LINE_OK" /\ m_checked_idx' = i + 2
            /\ m_read_buf' = [m_read_buf EXCEPT ![i + 1] = "NUL", ![i + 2] = "NUL"]
        BY <4>2 DEF LineOk
      <4>4. Len(m_read_buf') = Len(s)
        BY <1>0, <2>2, <4>3
      <4>5. \A j \in 1 .. Len(s) : m_read_buf'[j] = IF j \in {i + 1, i + 2} THEN "NUL" ELSE m_read_buf[j]
        BY <1>0, <2>2, <4>3
      <4>6. \A j \in 1 .. Len(s) : m_read_buf'[j] \in {s[j], "NUL"}
        BY <4>5 DEF Aligned
      <4>7. \A j \in m_start_line + 1 .. Len(s) :
              j \notin {i + 1, i + 2} => m_read_buf'[j] = s[j]
        BY <1>0, <1>1, <4>5
      <4>8. /\ \A j \in m_start_line + 1 .. (i + 2) - 2 : m_read_buf'[j] = s[j]
            /\ \A j \in (i + 2) + 1 .. Len(s) : m_read_buf'[j] = s[j]
        BY <1>0, <2>2, <4>7
      <4>9. /\ i + 2 <= Len(s) /\ i + 2 >= m_start_line + 2 /\ i + 2 \in Nat
            /\ (i + 2) - 1 = i + 1 /\ (i + 2) - 2 = i
        BY <1>0, <2>2, <3>3
      <4>. QED
        BY <2>4, <2>6, <3>3, <4>3, <4>4, <4>6, <4>8, <4>9
    <3>. QED
      BY <3>1, <3>2, <3>3
  <2>7. CASE s[i + 1] = "LF"
    <3>1. i = 0 \/ s[i] # "CR"
      BY <1>0, <2>2, <2>3
    <3>2. ~(i > 1 /\ At(i - 1) = "CR")
      <4>1. SUFFICES ASSUME i > 1 PROVE m_read_buf[i] # "CR"
        BY <2>2 DEF At
      <4>2. m_read_buf[i] \in {s[i], "NUL"}
        BY <2>2, <4>1 DEF Aligned
      <4>. QED
        BY <3>1, <4>1, <4>2
    <3>3. LineNotOk(i, "LINE_BAD")
      BY <2>1, <2>2, <2>7, <3>2 DEF ParseBreak
    <3>4. Stuck(s, i)
      BY <2>2, <2>7, <3>1 DEF Stuck, Lone
    <3>. QED
      BY <2>5, <3>3, <3>4
  <2>. QED
    BY <2>2, <2>6, <2>7
<1>. QED
  BY <1>4, <1>5

-------------------------------------------------------------------------------
(* Each step                                                               *)

(* What LinesInv says of a parser outside the content.                     *)
LEMMA LinesNow ==
  ASSUME IInv, Parsing, m_check_state # "CONTENT"
  PROVE  /\ LinesRead(Received) /\ Aligned(Received)
         /\ pc = "switch" => line_status = "LINE_OK" /\ LineFound(Received)
         /\ pc # "switch" => LineSought(Received)
         /\ m_start_line = 0 \/ (m_start_line >= 2 /\ Received[m_start_line] = "LF")
BY DEF IInv, BufferInv, LinesInv, LinesRead, HeadRead, HeadNoted

LEMMA LoopConditionInv ==
  ASSUME IInv, LoopCondition
  PROVE  BufferInv' /\ LinesInv' /\ ContentInv' /\ AnswerInv'
<1>0. /\ pc = "loop" /\ Parsing /\ TypeOK
      /\ UNCHANGED <<stream, sent, m_start_line, m_check_state, m_method, m_linger,
                     m_content_length, m_post_data>>
  BY DEF IInv, LoopCondition, request, Parsing
<1>1. Received' = Received /\ (MayEnd(sent) => MayEnd(sent)') /\ sent' = sent
  BY <1>0, ReceivedSame
<1>2. Aligned(Received) /\ (sent > 0 => MayEnd(sent))
  BY <1>0 DEF IInv, BufferInv
<1>3. Received \in Seq(Symbols) /\ Len(Received) \in Nat
  BY <1>0, ReceivedType
<1>4. CASE m_check_state = "CONTENT" /\ line_status = "LINE_OK"
  <2>1. pc' = "switch" /\ UNCHANGED <<m_read_buf, m_checked_idx, line_status, code>>
    BY <1>4 DEF LoopCondition
  <2>2. PICK h \in Nat : ContentRead(Received, h)
    BY <1>0, <1>4 DEF IInv, ContentInv
  <2>3. ContentRead(Received, h)'
    BY <1>0, <1>1, <2>1, <2>2 DEF ContentRead, HeadRead, HeadNoted, Unread, Aligned
  <2>. QED
    BY <1>0, <1>1, <1>2, <1>4, <2>1, <2>3
       DEF BufferInv, LinesInv, ContentInv, AnswerInv, Aligned
<1>5. CASE ~(m_check_state = "CONTENT" /\ line_status = "LINE_OK")
  <2>1. parse_line
    BY <1>5 DEF LoopCondition
  <2>2. \/ line_status' = "LINE_OK" /\ pc' = "switch"
        \/ line_status' # "LINE_OK" /\ pc' = "wait"
    BY <1>5 DEF LoopCondition, Return
  <2>3. AnswerInv' /\ Parsing'
    BY <2>2 DEF AnswerInv, Parsing
  <2>4. CASE m_check_state # "CONTENT"
    <3>1. LinesRead(Received) /\ LineSought(Received)
          /\ (m_start_line = 0 \/ Received[m_start_line] = "LF")
      BY <1>0, <2>4, LinesNow
    <3>2. LinesRead(Received)'
      BY <1>0, <1>1, <3>1 DEF LinesRead, HeadRead, HeadNoted
    <3>3. \/ /\ line_status' = "LINE_OK" /\ LineFound(Received)' /\ Aligned(Received)'
          \/ /\ line_status' # "LINE_OK" /\ m_read_buf' = m_read_buf
             /\ NoBreak(Received, m_start_line, m_checked_idx')
             /\ Stuck(Received, m_checked_idx')
      BY <1>0, <1>1, <1>2, <1>3, <2>1, <3>1, ParseLineFinds
         DEF LineFound, Aligned, Unread
    <3>4. line_status' # "LINE_OK" =>
            LineSought(Received)' /\ Stuck(Received', m_checked_idx') /\ Aligned(Received)'
      BY <1>0, <1>1, <1>2, <3>1, <3>3 DEF LineSought, Unread, Aligned
    <3>. QED
      BY <1>0, <1>1, <1>2, <2>2, <2>3, <2>4, <3>2, <3>3, <3>4
         DEF BufferInv, LinesInv, ContentInv
  <2>5. CASE m_check_state = "CONTENT"
    <3>1. PICK h \in Nat : ContentRead(Received, h)
      BY <1>0, <2>5 DEF IInv, ContentInv
    <3>2. /\ Len(Received) < h + m_content_length
          /\ h <= m_checked_idx /\ h <= Len(Received)
      BY <1>0, <1>5, <2>5, <3>1 DEF ContentRead, HeadRead, HeadNoted
    <3>3. /\ m_checked_idx' \in Nat /\ m_checked_idx <= m_checked_idx'
          /\ m_checked_idx' <= Len(Received)
          /\ Len(m_read_buf') = Len(Received)
      BY <1>0, <1>2, <2>1, ParseLineCursor DEF Aligned
    <3>4. \A i \in 1 .. Len(Received) : m_read_buf'[i] \in {Received[i], "NUL"}
      BY <1>0, <1>2, <1>3, <2>1, ParseLineErases DEF Aligned
    <3>5. CASE Len(Received) = h
      <4>1. m_checked_idx = h /\ m_start_line = h
        BY <3>1, <3>5 DEF ContentRead
      <4>2. Breaks = {}
        BY <1>2, <1>3, <3>5, <4>1 DEF Breaks, m_read_idx, Aligned
      <4>3. m_checked_idx' = h /\ m_read_buf' = m_read_buf
        BY <1>2, <2>1, <3>5, <4>2 DEF parse_line, LineNotOk, m_read_idx, Aligned
      <4>4. Unread(Received, h)'
        BY <1>1, <3>5 DEF Unread
      <4>5. line_status' # "LINE_OK"
        BY <2>1, <4>2 DEF parse_line, LineNotOk
      <4>6. ContentRead(Received, h)'
        BY <1>0, <1>1, <2>2, <3>1, <3>2, <4>1, <4>3, <4>4, <4>5 DEF ContentRead, HeadRead, HeadNoted
      <4>. QED
        BY <1>0, <1>1, <1>2, <2>3, <2>5, <3>3, <3>4, <4>6
           DEF BufferInv, LinesInv, ContentInv, Aligned
    <3>6. CASE Len(Received) # h
      <4>1. ContentRead(Received, h)'
        <5>1. m_content_length \in Int /\ m_checked_idx \in Nat
          BY <1>0 DEF TypeOK
        <5>2. h <= m_checked_idx'
          BY <5>1, <3>2, <3>3
        <5>3. HeadIs(Received', h) /\ HeadRead(Received, h)' /\ m_content_length' # 0
          BY <1>0, <1>1, <3>1 DEF ContentRead, HeadRead, HeadNoted
        <5>4. /\ Len(Received') < h + m_content_length'
              /\ Len(Received') # h /\ ~(Len(Received') >= h + m_content_length')
          BY <1>0, <1>1, <1>3, <5>1, <3>2, <3>6
        <5>. QED
          BY <5>2, <5>3, <5>4 DEF ContentRead
      <4>. QED
        BY <1>0, <1>1, <1>2, <2>3, <2>5, <3>3, <3>4, <4>1
           DEF BufferInv, LinesInv, ContentInv, Aligned
    <3>. QED
      BY <3>5, <3>6
  <2>. QED
    BY <2>4, <2>5
<1>. QED
  BY <1>4, <1>5
(* The line that the state machine is given, as the client sent it.        *)
LEMMA LineIs ==
  ASSUME NEW s \in Seq(Symbols), TypeOK, Aligned(s), LineFound(s)
  PROVE  /\ m_start_line \in Nat /\ m_checked_idx \in Nat
         /\ m_start_line + 2 <= m_checked_idx /\ m_checked_idx <= Len(s)
         /\ Line = <<>> <=> m_checked_idx = m_start_line + 2
         /\ \A symbol : Line = <<symbol>> <=>
              m_checked_idx = m_start_line + 3 /\ s[m_start_line + 1] = symbol
<1>1. /\ m_read_buf \in Seq(Symbols) /\ Len(m_read_buf) = Len(s) /\ Len(s) \in Nat
      /\ m_start_line \in Nat /\ m_checked_idx \in Nat
      /\ m_start_line + 2 <= m_checked_idx /\ m_checked_idx <= Len(s)
  BY DEF TypeOK, Aligned, LineFound, m_read_idx
<1>2. /\ Line \in Seq(Symbols) /\ Len(Line) = m_checked_idx - 2 - m_start_line
  BY <1>1 DEF Line
<1>3. m_checked_idx = m_start_line + 3 => Line[1] = s[m_start_line + 1]
  <2>1. SUFFICES ASSUME m_checked_idx = m_start_line + 3
        PROVE  Line[1] = s[m_start_line + 1]
    OBVIOUS
  <2>2. Line[1] = m_read_buf[m_start_line + 1]
    <3>1. /\ m_start_line + 1 \in Int /\ m_checked_idx - 2 \in Int
          /\ \A i \in m_start_line + 1 .. m_checked_idx - 2 : m_read_buf[i] \in Symbols
      BY <1>1
    <3>2. \A i \in 1 .. (m_checked_idx - 2) - (m_start_line + 1) + 1 :
            Line[i] = m_read_buf[(m_start_line + 1) + i - 1]
      BY <3>1, SubSeqProperties DEF Line
    <3>. QED
      BY <1>1, <2>1, <3>2
  <2>3. m_start_line + 1 \in m_start_line + 1 .. m_checked_idx - 2
    BY <1>1, <2>1
  <2>. QED
    BY <2>2, <2>3 DEF LineFound
<1>4. Line = <<>> <=> Len(Line) = 0
  BY <1>2
<1>5. \A symbol : Line = <<symbol>> <=> Len(Line) = 1 /\ Line[1] = symbol
  BY <1>2
<1>6. Len(Line) = 0 <=> m_checked_idx = m_start_line + 2
  BY <1>1, <1>2
<1>7. Len(Line) = 1 <=> m_checked_idx = m_start_line + 3
  BY <1>1, <1>2
<1>. QED
  BY <1>1, <1>3, <1>4, <1>5, <1>6, <1>7

(* parse_request_line() refuses exactly the requests that are bad.         *)
LEMMA RequestLineInv ==
  ASSUME IInv, RequestLine
  PROVE  BufferInv' /\ LinesInv' /\ ContentInv' /\ AnswerInv'
<1>0. /\ pc = "switch" /\ m_check_state = "REQUESTLINE" /\ Parsing /\ TypeOK
      /\ m_start_line' = m_checked_idx
      /\ UNCHANGED <<stream, sent, m_checked_idx, m_read_buf, m_linger, m_content_length,
                     m_post_data, line_status>>
  BY DEF IInv, RequestLine, Switch, Parsing
<1>1. Received' = Received /\ (MayEnd(sent) => MayEnd(sent)') /\ sent' = sent
  BY <1>0, ReceivedSame
<1>2. /\ Aligned(Received) /\ (sent > 0 => MayEnd(sent)) /\ LineFound(Received)
      /\ m_start_line = 0 /\ m_linger = FALSE /\ m_content_length = 0
  BY <1>0, LinesNow DEF IInv, BufferInv, LinesRead
<1>3. /\ Received \in Seq(Symbols) /\ Len(Received) \in Nat
      /\ m_checked_idx \in Nat /\ 2 <= m_checked_idx /\ m_checked_idx <= Len(Received)
      /\ Received[m_checked_idx - 1] = "CR" /\ Received[m_checked_idx] = "LF"
      /\ \A i \in 1 .. m_checked_idx - 2 : Received[i] \notin {"CR", "LF"}
    BY <1>0, <1>2, LineIs, ReceivedType DEF LineFound, NoBreak
<1>4. \A symbol : Line = <<symbol>> <=> m_checked_idx = 3 /\ Received[1] = symbol
  <2>1. \A symbol : Line = <<symbol>> <=>
          m_checked_idx = m_start_line + 3 /\ Received[m_start_line + 1] = symbol
    BY <1>0, <1>2, <1>3, LineIs
  <2>. QED
    BY <1>2, <2>1
<1>5. BufferInv'
  BY <1>0, <1>1, <1>2 DEF BufferInv, Aligned
<1>6. CASE Line \in {<<"GET">>, <<"POST">>}
  <2>1. PICK method \in {"GET", "POST"} : Line = <<method>>
    BY <1>6
  <2>2. m_checked_idx = 3 /\ Received[1] = method
    BY <1>4, <2>1
  <2>3. /\ m_method' = method /\ m_check_state' = "HEADER" /\ pc' = "loop"
        /\ line_status' = line_status
    BY <1>6, <2>1 DEF RequestLine
  <2>4. HeadersIn(Received, 3) = {}
    <3>1. HeadersIn(Received, 3) \subseteq {2} /\ 2 \notin HeadersIn(Received, 3)
      BY <2>2 DEF HeadersIn
    <3>. QED
      BY <3>1
  <2>5. HasIn(Received, 3, "KEEP") = FALSE /\ LengthIs(Received, 3, 0)
    BY <2>4 DEF HasIn, LengthIs, LengthsIn
  <2>6. Readable(Received, 3)
    <3>1. Received[2] = "CR" /\ Received[3] = "LF" /\ Received[1] \notin {"CR", "LF"}
      BY <1>3, <2>2
    <3>2. ~Lone(Received, 1) /\ ~Lone(Received, 2) /\ ~Lone(Received, 3)
      BY <1>3, <2>2, <3>1 DEF Lone
    <3>. QED
      BY <3>2 DEF Readable
  <2>7. HeadRead(Received, 3)'
    <3>1. m_linger' = HasIn(Received, 3, "KEEP")
      BY <1>0, <1>2, <2>5
    <3>2. LengthIs(Received, 3, m_content_length')
      BY <1>0, <1>2, <2>5
    <3>3. Received[1] = m_method' /\ Received[2] = "CR" /\ Received[3] = "LF"
          /\ 3 <= Len(Received) /\ 3 \in Nat
      BY <1>3, <2>2, <2>3
    <3>. QED
      BY <1>1, <2>6, <3>1, <3>2, <3>3 DEF HeadRead, HeadNoted
  <2>8. \A j \in 1 .. 3 : ~EndsHead(Received, j)
    BY DEF EndsHead
  <2>9. LinesRead(Received)'
    BY <1>0, <1>1, <2>2, <2>3, <2>7, <2>8 DEF LinesRead
  <2>10. LineSought(Received)'
    BY <1>0, <1>1, <1>2, <2>2 DEF LineSought, LineFound, NoBreak, Unread
  <2>. QED
    BY <1>5, <2>3, <2>9, <2>10 DEF LinesInv, ContentInv, AnswerInv
<1>7. CASE Line \notin {<<"GET">>, <<"POST">>}
  <2>1. pc' = "answer" /\ code' = "BAD_REQUEST"
    BY <1>7 DEF RequestLine, Return
  <2>2. IsBad(Received)
    <3>1. Readable(Received, m_checked_idx - 1)
      <4>1. ASSUME NEW i \in 1 .. m_checked_idx - 1 PROVE ~Lone(Received, i)
        <5>1. CASE i = m_checked_idx - 1
          BY <1>3, <5>1 DEF Lone
        <5>2. CASE i # m_checked_idx - 1
          BY <1>3, <5>2 DEF Lone
        <5>. QED
          BY <5>1, <5>2
      <4>. QED
        BY <4>1 DEF Readable
    <3>2. Received[1] \notin {"GET", "POST"} \/ Received[2] # "CR"
      <4>1. SUFFICES ASSUME Received[1] \in {"GET", "POST"}, Received[2] = "CR" PROVE FALSE
        OBVIOUS
      <4>2. m_checked_idx # 2
        BY <1>3, <4>1
      <4>3. m_checked_idx <= 3
        BY <1>3, <4>1
      <4>4. Line = <<Received[1]>>
        BY <1>3, <1>4, <4>2, <4>3
      <4>. QED
        BY <1>7, <4>1, <4>4
    <3>3. m_checked_idx - 1 \in 1 .. Len(Received) - 1 /\ (m_checked_idx - 1) + 1 = m_checked_idx
      BY <1>3
    <3>. QED
      BY <1>3, <3>1, <3>2, <3>3 DEF IsBad
  <2>. QED
    BY <1>1, <1>5, <2>1, <2>2 DEF LinesInv, ContentInv, AnswerInv, Answered, Parsing
<1>. QED
  BY <1>6, <1>7

(* One more line that is not empty, and the header that it may be.         *)
LEMMA HeadGrows ==
  ASSUME NEW s \in Seq(Symbols), NEW k \in Nat, NEW c \in Nat,
         NEW method, NEW linger, NEW length, NEW linger2, NEW length2,
         HeadNoted(s, k, method, linger, length),
         k + 2 <= c, c <= Len(s), NoBreak(s, k, c - 2), s[c - 1] = "CR", s[c] = "LF",
         linger2 = (linger \/ (c = k + 3 /\ s[k + 1] = "KEEP")),
         c = k + 3 /\ s[k + 1] \in LengthHeaders => length2 = LengthOf(s[k + 1]),
         ~(c = k + 3 /\ s[k + 1] \in LengthHeaders) => length2 = length
  PROVE  HeadNoted(s, c, method, linger2, length2)
<1>1. /\ k >= 3 /\ k <= Len(s) /\ s[k - 1] = "CR" /\ s[k] = "LF" /\ Readable(s, k)
      /\ s[1] = method /\ s[2] = "CR"
      /\ linger = HasIn(s, k, "KEEP") /\ LengthIs(s, k, length)
  BY DEF HeadNoted
<1>2. /\ Readable(s, c)
      /\ HeadersIn(s, c) = HeadersIn(s, k) \cup (IF c = k + 3 THEN {k + 1} ELSE {})
  BY <1>1, NextLine
<1>3. HasIn(s, c, "KEEP") = (HasIn(s, k, "KEEP") \/ (c = k + 3 /\ s[k + 1] = "KEEP"))
  BY <1>2 DEF HasIn
<1>4. linger2 = HasIn(s, c, "KEEP")
  <2>1. linger2 = (HasIn(s, k, "KEEP") \/ (c = k + 3 /\ s[k + 1] = "KEEP"))
    BY <1>1
  <2>. QED
    BY <1>3, <2>1
<1>5. /\ c >= 3 /\ c <= Len(s) /\ s[c - 1] = "CR" /\ s[c] = "LF" /\ Readable(s, c)
      /\ s[1] = method /\ s[2] = "CR"
  BY <1>1, <1>2
<1>6. CASE c = k + 3 /\ s[k + 1] \in LengthHeaders
  <2>1. LengthsIn(s, c) = LengthsIn(s, k) \cup {k + 1}
    BY <1>2, <1>6 DEF LengthsIn
  <2>2. \A j \in LengthsIn(s, k) : j \in Int /\ j <= k + 1
    BY DEF LengthsIn, HeadersIn
  <2>3. k + 1 \in LengthsIn(s, c) /\ \A j \in LengthsIn(s, c) : j <= k + 1
    BY <2>1, <2>2
  <2>4. LengthIs(s, c, LengthOf(s[k + 1]))
    BY <2>3 DEF LengthIs
  <2>. QED
    BY <1>6, <1>4, <1>5, <2>4 DEF HeadNoted
<1>7. CASE ~(c = k + 3 /\ s[k + 1] \in LengthHeaders)
  <2>1. LengthsIn(s, c) = LengthsIn(s, k)
    BY <1>2, <1>7 DEF LengthsIn
  <2>2. LengthIs(s, c, length)
    BY <1>1, <2>1 DEF LengthIs
  <2>. QED
    BY <1>7, <1>4, <1>5, <2>2 DEF HeadNoted
<1>. QED
  BY <1>6, <1>7
(* What the method and the head of a message say is what the parser noted. *)
LEMMA HeadMeans ==
  ASSUME NEW s \in Seq(Symbols), NEW h \in Nat, NEW method, NEW linger, NEW length,
         HeadIs(s, h), HeadNoted(s, h, method, linger, length), method \in {"GET", "POST"}
  PROVE  /\ HeadEnd(s) = h /\ EndsHead(s, HeadEnd(s)) /\ Readable(s, HeadEnd(s))
         /\ ~IsBad(s) /\ method = s[1]
         /\ linger = HasIn(s, HeadEnd(s), "KEEP")
         /\ length = BodyLength(s)
<1>1. HeadEnd(s) = h
  BY HeadEndIs
<1>2. LengthIn(s, h) = length
  BY LengthInIs DEF HeadNoted
<1>. QED
  BY <1>1, <1>2 DEF HeadIs, HeadNoted, IsBad, BodyLength

LEMMA HeaderLineInv ==
  ASSUME IInv, HeaderLine
  PROVE  BufferInv' /\ LinesInv' /\ ContentInv' /\ AnswerInv'
<1>0. /\ pc = "switch" /\ m_check_state = "HEADER" /\ Parsing /\ TypeOK
      /\ m_start_line' = m_checked_idx
      /\ m_method \in {"GET", "POST"} /\ m_content_length \in Int
      /\ UNCHANGED <<stream, sent, m_checked_idx, m_read_buf, m_method,
                     m_post_data, line_status>>
  BY DEF IInv, HeaderLine, Switch, Parsing, TypeOK
<1>1. Received' = Received /\ (MayEnd(sent) => MayEnd(sent)') /\ sent' = sent
  BY <1>0, ReceivedSame
<1>2. /\ Aligned(Received) /\ (sent > 0 => MayEnd(sent))
      /\ LineFound(Received) /\ line_status = "LINE_OK"
      /\ HeadRead(Received, m_start_line)
      /\ \A j \in 1 .. m_start_line : ~EndsHead(Received, j)
  BY <1>0, LinesNow DEF IInv, BufferInv, LinesRead
<1>3. Received \in Seq(Symbols) /\ Len(Received) \in Nat
  BY <1>0, ReceivedType
<1>4. /\ m_start_line \in Nat /\ m_checked_idx \in Nat
      /\ m_start_line + 2 <= m_checked_idx /\ m_checked_idx <= Len(Received)
      /\ Line = <<>> <=> m_checked_idx = m_start_line + 2
      /\ \A symbol : Line = <<symbol>> <=>
           m_checked_idx = m_start_line + 3 /\ Received[m_start_line + 1] = symbol
  BY <1>0, <1>2, <1>3, LineIs
<1>5. /\ NoBreak(Received, m_start_line, m_checked_idx - 2)
      /\ Received[m_checked_idx - 1] = "CR" /\ Received[m_checked_idx] = "LF"
      /\ Unread(Received, m_checked_idx)
  BY <1>2 DEF LineFound
<1>6. HeadRead(Received, m_checked_idx)'
  <2>1. m_linger' = (m_linger \/ (m_checked_idx = m_start_line + 3
                                   /\ Received[m_start_line + 1] = "KEEP"))
    BY <1>4 DEF HeaderLine
  <2>2. ASSUME m_checked_idx = m_start_line + 3, Received[m_start_line + 1] \in LengthHeaders
        PROVE  m_content_length' = LengthOf(Received[m_start_line + 1])
    <3>1. Line = <<Received[m_start_line + 1]>>
      BY <1>4, <2>2
    <3>. QED
      BY <2>2, <3>1 DEF HeaderLine
  <2>3. ASSUME ~(m_checked_idx = m_start_line + 3 /\ Received[m_start_line + 1] \in LengthHeaders)
        PROVE  m_content_length' = m_content_length
    <3>1. ~\E header \in LengthHeaders : Line = <<header>>
      BY <1>4, <2>3
    <3>. QED
      BY <3>1 DEF HeaderLine
  <2>. QED
    BY <1>0, <1>1, <1>2, <1>3, <1>4, <1>5, <2>1, <2>2, <2>3, HeadGrows DEF HeadRead, HeadNoted
<1>7. /\ \A j \in m_start_line + 1 .. m_checked_idx :
             EndsHead(Received, j) => j = m_checked_idx /\ m_checked_idx = m_start_line + 2
      /\ m_checked_idx = m_start_line + 2 => EndsHead(Received, m_checked_idx)
  <2>1. /\ m_start_line >= 2 /\ Received[m_start_line - 1] = "CR"
        /\ Received[m_start_line] = "LF" /\ Readable(Received, m_start_line)
    BY <1>2 DEF HeadRead, HeadNoted
  <2>. QED
    BY <1>3, <1>4, <1>5, <2>1, NextLine
<1>8. BufferInv'
  BY <1>0, <1>1, <1>2 DEF BufferInv, Aligned
<1>9. CASE Line = <<>>
  <2>1. m_checked_idx = m_start_line + 2
    BY <1>4, <1>9
  <2>2. HeadIs(Received, m_checked_idx)
    <3>1. \A j \in 1 .. m_checked_idx - 1 : ~EndsHead(Received, j)
      BY <1>2, <1>4, <1>7
    <3>. QED
      BY <1>7, <2>1, <3>1 DEF HeadIs
  <2>3. m_content_length' = m_content_length
    <3>1. ~\E header \in LengthHeaders : Line = <<header>>
      BY <1>4, <2>1
    <3>. QED
      BY <3>1 DEF HeaderLine
  <2>4. CASE m_content_length = 0
    <3>1. pc' = "answer" /\ code' = "GET_REQUEST"
      BY <1>9, <2>4 DEF HeaderLine, Return
    <3>2. /\ HeadEnd(Received) = m_checked_idx
          /\ EndsHead(Received, HeadEnd(Received)) /\ Readable(Received, HeadEnd(Received))
          /\ ~IsBad(Received) /\ m_method' = Received[1]
          /\ m_linger' = HasIn(Received, HeadEnd(Received), "KEEP")
          /\ m_content_length' = BodyLength(Received)
      BY <1>0, <1>1, <1>3, <1>4, <1>6, <2>2, HeadMeans DEF HeadRead, HeadNoted
    <3>3. IsComplete(Received) /\ ~(BodyLength(Received) > 0)
      BY <1>3, <1>4, <2>3, <2>4, <3>2 DEF IsComplete
    <3>4. Answered(Received)'
      BY <1>1, <3>1, <3>2, <3>3 DEF Answered
    <3>. QED
      BY <1>8, <3>1, <3>4 DEF LinesInv, ContentInv, AnswerInv, Parsing
  <2>5. CASE m_content_length # 0
    <3>1. pc' = "loop" /\ m_check_state' = "CONTENT"
      BY <1>9, <2>5 DEF HeaderLine
    <3>2. ContentRead(Received, m_checked_idx)'
      BY <1>0, <1>1, <1>2, <1>4, <1>5, <1>6, <2>2, <2>3, <2>5, <3>1
         DEF ContentRead, Unread
    <3>3. m_checked_idx' \in Nat
      BY <1>0, <1>4
    <3>. QED
      BY <1>8, <3>1, <3>2, <3>3 DEF LinesInv, ContentInv, AnswerInv
  <2>. QED
    BY <2>4, <2>5
<1>10. CASE Line # <<>>
  <2>1. pc' = "loop" /\ m_check_state' = "HEADER"
    BY <1>0, <1>10 DEF HeaderLine
  <2>2. \A j \in 1 .. m_checked_idx : ~EndsHead(Received, j)
    BY <1>2, <1>4, <1>7, <1>10
  <2>3. LinesRead(Received)'
    BY <1>0, <1>1, <1>6, <2>1, <2>2 DEF LinesRead, HeadRead, HeadNoted
  <2>4. LineSought(Received)'
    BY <1>0, <1>1, <1>4, <1>5 DEF LineSought, NoBreak, Unread
  <2>. QED
    BY <1>8, <2>1, <2>3, <2>4 DEF LinesInv, ContentInv, AnswerInv
<1>. QED
  BY <1>9, <1>10
LEMMA SubSeqSame ==
  ASSUME NEW s \in Seq(Symbols), NEW t \in Seq(Symbols), NEW a \in Nat, NEW b \in Nat,
         a >= 1, a <= b, b <= Len(s), b <= Len(t), \A i \in a .. b : t[i] = s[i]
  PROVE  SubSeq(t, a, b) = SubSeq(s, a, b)
<1>1. /\ SubSeq(t, a, b) \in Seq(Symbols) /\ SubSeq(s, a, b) \in Seq(Symbols)
      /\ Len(SubSeq(t, a, b)) = b - a + 1 /\ Len(SubSeq(s, a, b)) = b - a + 1
  OBVIOUS
<1>2. ASSUME NEW i \in 1 .. b - a + 1
      PROVE  SubSeq(t, a, b)[i] = SubSeq(s, a, b)[i]
  <2>1. SubSeq(t, a, b)[i] = t[a + i - 1] /\ SubSeq(s, a, b)[i] = s[a + i - 1]
    <3>1. (\A j \in a .. b : t[j] \in Symbols) /\ (\A j \in a .. b : s[j] \in Symbols)
      OBVIOUS
    <3>2. /\ \A j \in 1 .. b - a + 1 : SubSeq(t, a, b)[j] = t[a + j - 1]
          /\ \A j \in 1 .. b - a + 1 : SubSeq(s, a, b)[j] = s[a + j - 1]
      BY <3>1, SubSeqProperties
    <3>. QED
      BY <3>2
  <2>2. a + i - 1 \in a .. b
    OBVIOUS
  <2>. QED
    BY <2>1, <2>2
<1>. QED
  BY <1>1, <1>2

(* A content that is taken is what the message says, if all of it is there.*)
LEMMA ContentTaken ==
  ASSUME IInv, pc = "switch", TakeContent, Enough \/ Overflows, pc' # "crashed",
         NEW h \in Nat, ContentRead(Received, h),
         UNCHANGED <<stream, sent, m_method, m_linger, m_content_length>>
  PROVE  Answered(Received)' /\ pc' = "answer"
<1>0. /\ Parsing /\ TypeOK
      /\ m_content_length \in Int /\ m_checked_idx \in Nat /\ m_start_line \in Nat
      /\ m_checked_idx <= m_read_idx /\ m_read_idx <= READ_BUFFER_SIZE
      /\ READ_BUFFER_SIZE \in Nat /\ READ_BUFFER_SIZE <= IntMax /\ IntMax \in Nat
      /\ m_read_buf \in Seq(Symbols) /\ m_method \in {"GET", "POST"}
  BY HttpParserAssumption DEF IInv, Parsing, TypeOK
<1>1. Received' = Received
  BY <1>0, ReceivedSame
<1>2. Received \in Seq(Symbols) /\ Len(Received) \in Nat
  BY <1>0, ReceivedType
<1>3. /\ HeadIs(Received, h) /\ HeadRead(Received, h)
      /\ m_content_length # 0 /\ h <= m_checked_idx
      /\ Len(Received) = h \/ Len(Received) >= h + m_content_length =>
           m_checked_idx = h /\ m_start_line = h /\ Unread(Received, h)
  BY DEF ContentRead
<1>4. Len(m_read_buf) = Len(Received) /\ m_read_idx = Len(Received)
  BY <1>0 DEF IInv, BufferInv, Aligned, m_read_idx
<1>5. /\ HeadEnd(Received) = h
      /\ EndsHead(Received, HeadEnd(Received)) /\ Readable(Received, HeadEnd(Received))
      /\ ~IsBad(Received) /\ m_method = Received[1]
      /\ m_linger = HasIn(Received, HeadEnd(Received), "KEEP")
      /\ m_content_length = BodyLength(Received)
  BY <1>0, <1>2, <1>3, HeadMeans DEF HeadRead
<1>6. pc' = "answer" /\ code' = "GET_REQUEST"
  BY DEF TakeContent, Return
<1>7. IsComplete(Received) \/ TooLong(Received)
  <2>1. CASE Enough
    <3>1. Len(Received) >= h + m_content_length
      BY <1>0, <1>2, <1>3, <1>4, <2>1 DEF Enough
    <3>. QED
      BY <1>5, <3>1 DEF IsComplete
  <2>2. CASE Overflows
    <3>1. Len(Received) + m_content_length > IntMax
      BY <1>0, <1>2, <1>4, <2>2 DEF Overflows
    <3>. QED
      BY <1>5, <3>1 DEF TooLong
  <2>. QED
    BY <2>1, <2>2
<1>8. ASSUME IsComplete(Received), m_content_length > 0
      PROVE  m_post_data' = SubSeq(Received, h + 1, h + m_content_length)
  <2>1. Len(Received) >= h + m_content_length
    BY <1>5, <1>8 DEF IsComplete
  <2>2. m_start_line = h /\ Unread(Received, h)
    BY <1>3, <2>1
  <2>3. ContentEnd = h + m_content_length /\ ContentEnd \in m_start_line .. m_read_idx
    BY <1>0, <1>2, <1>4, <1>8, <2>1, <2>2 DEF ContentEnd
  <2>4. m_post_data' = SubSeq(m_read_buf, h + 1, h + m_content_length)
    BY <2>2, <2>3 DEF TakeContent
  <2>5. \A i \in h + 1 .. h + m_content_length : m_read_buf[i] = Received[i]
    BY <1>0, <1>2, <2>1, <2>2 DEF Unread
  <2>6. /\ h + 1 \in Nat /\ h + m_content_length \in Nat
        /\ h + 1 >= 1 /\ h + 1 <= h + m_content_length
    BY <1>0, <1>8
  <2>7. SubSeq(m_read_buf, h + 1, h + m_content_length)
          = SubSeq(Received, h + 1, h + m_content_length)
    BY <1>0, <1>2, <1>4, <2>1, <2>5, <2>6, SubSeqSame
  <2>. QED
    BY <2>4, <2>7
<1>9. Answered(Received)'
  BY <1>1, <1>5, <1>6, <1>7, <1>8 DEF Answered
<1>. QED
  BY <1>6, <1>9

LEMMA ContentStepInv ==
  ASSUME IInv, Content
  PROVE  BufferInv' /\ LinesInv' /\ ContentInv' /\ AnswerInv'
<1>0. /\ pc = "switch" /\ m_check_state = "CONTENT" /\ Parsing /\ TypeOK
      /\ m_start_line' = m_checked_idx
      /\ m_content_length \in Int /\ m_checked_idx \in Nat /\ m_start_line \in Nat
      /\ m_read_buf \in Seq(Symbols) /\ m_method \in {"GET", "POST"}
      /\ UNCHANGED <<stream, sent, m_checked_idx, m_method, m_linger, m_content_length,
                     m_check_state>>
  BY DEF IInv, Content, Switch, Parsing, TypeOK, request
<1>1. Received' = Received /\ (MayEnd(sent) => MayEnd(sent)') /\ sent' = sent
  BY <1>0, ReceivedSame
<1>2. Aligned(Received) /\ (sent > 0 => MayEnd(sent))
  BY <1>0 DEF IInv, BufferInv
<1>3. Received \in Seq(Symbols) /\ Len(Received) \in Nat
  BY <1>0, ReceivedType
<1>4. PICK h \in Nat : ContentRead(Received, h)
  BY <1>0 DEF IInv, ContentInv
<1>5. /\ HeadIs(Received, h) /\ HeadRead(Received, h)
      /\ m_content_length # 0 /\ h <= m_checked_idx
      /\ Len(Received) = h \/ Len(Received) >= h + m_content_length =>
           m_checked_idx = h /\ m_start_line = h /\ Unread(Received, h)
  BY <1>4 DEF ContentRead
<1>6. Len(m_read_buf) = Len(Received) /\ m_read_idx = Len(Received)
  BY <1>2 DEF Aligned, m_read_idx
<1>7. CASE (Enough \/ Overflows) /\ TakeContent
  <2>1. CASE pc' = "crashed"
    BY <2>1 DEF BufferInv, LinesInv, ContentInv, AnswerInv, Parsing
  <2>2. CASE pc' # "crashed"
    BY <1>7, <2>2, <1>0, <1>1, <1>3, <1>4, <1>5, <1>6, ContentTaken
       DEF BufferInv, LinesInv, ContentInv, AnswerInv, Parsing
  <2>. QED
    BY <2>1, <2>2
<1>8. CASE ~Enough /\ AskForMore("LINE_OPEN")
  <2>1. /\ line_status' = "LINE_OPEN" /\ pc' = "loop" /\ m_read_buf' = m_read_buf
    BY <1>8 DEF AskForMore
  <2>2. Len(Received) < h + m_content_length
    BY <1>0, <1>3, <1>5, <1>6, <1>8 DEF Enough
  <2>3. HeadRead(Received, h)' /\ HeadIs(Received, h)'
    BY <1>0, <1>1, <1>5 DEF HeadRead, HeadNoted
  <2>4. Len(Received) = h => Unread(Received, h)'
    BY <1>1, <1>5, <2>1 DEF Unread
  <2>5. ~(Len(Received) >= h + m_content_length)
    BY <1>0, <1>3, <2>2
  <2>6. ContentRead(Received, h)'
    BY <1>0, <1>1, <1>5, <2>1, <2>2, <2>3, <2>4, <2>5 DEF ContentRead
  <2>. QED
    BY <1>0, <1>1, <1>2, <2>1, <2>6
       DEF BufferInv, LinesInv, ContentInv, AnswerInv, Aligned
<1>. QED
  BY <1>7, <1>8 DEF Content

LEMMA HeadStays ==
  ASSUME NEW s \in Seq(Symbols), NEW t \in Seq(Symbols), Len(s) <= Len(t),
         \A i \in 1 .. Len(s) : t[i] = s[i],
         NEW k, NEW method, NEW linger, NEW length, HeadNoted(s, k, method, linger, length)
  PROVE  HeadNoted(t, k, method, linger, length)
<1>1. /\ k \in Nat /\ k >= 3 /\ k <= Len(s)
      /\ s[1] = method /\ s[2] = "CR" /\ s[k - 1] = "CR" /\ s[k] = "LF"
      /\ Readable(s, k) /\ linger = HasIn(s, k, "KEEP") /\ LengthIs(s, k, length)
  BY DEF HeadNoted
<1>2. t[1] = s[1] /\ t[2] = s[2] /\ t[k - 1] = s[k - 1] /\ t[k] = s[k] /\ k <= Len(t)
  BY <1>1
<1>3. Readable(t, k)
  <2>1. ASSUME NEW i \in 1 .. k PROVE ~Lone(t, i)
    <3>1. ~Lone(s, i)
      BY <1>1 DEF Readable
    <3>2. CASE i = k
      BY <1>1, <1>2, <3>1, <3>2 DEF Lone
    <3>3. CASE i < k
      <4>1. t[i] = s[i] /\ t[i + 1] = s[i + 1] /\ i < Len(s) /\ (i > 1 => t[i - 1] = s[i - 1])
        BY <1>1, <3>3
      <4>. QED
        BY <3>1, <4>1 DEF Lone
    <3>. QED
      BY <1>1, <3>2, <3>3
  <2>. QED
    BY <2>1 DEF Readable
<1>4. HeadersIn(t, k) = HeadersIn(s, k) /\ LengthIs(t, k, length)
  BY <1>1, Prefix
<1>5. HasIn(t, k, "KEEP") = HasIn(s, k, "KEEP")
  <2>1. \A i \in HeadersIn(s, k) : t[i] = s[i]
    BY <1>1 DEF HeadersIn
  <2>. QED
    BY <1>4, <2>1 DEF HasIn
<1>6. linger = HasIn(t, k, "KEEP")
  BY <1>1, <1>5
<1>. QED
  BY <1>1, <1>2, <1>3, <1>4, <1>6 DEF HeadNoted

(* Unless a piece ends inside a body, a parser that waits in the content   *)
(* waits for all of it, or the client has stopped sending.                 *)
LEMMA WaitsBeforeBody ==
  ASSUME BodyInOnePiece, IInv, NEW h \in Nat, ContentRead(Received, h),
         pc = "wait", sent < Len(stream)
  PROVE  sent = h
<1>1. /\ Received \in Seq(Symbols) /\ Len(Received) = sent /\ sent \in Nat
      /\ stream \in Seq(Symbols) /\ \A i \in 1 .. sent : stream[i] = Received[i]
      /\ m_content_length \in Int
  BY ReceivedType DEF IInv, TypeOK
<1>2. /\ HeadIs(Received, h) /\ h >= 3 /\ h <= sent /\ sent < h + m_content_length
      /\ LengthIs(Received, h, m_content_length)
  BY <1>1 DEF ContentRead, HeadRead, HeadNoted
<1>3. HeadIs(stream, h) /\ LengthIs(stream, h, m_content_length)
  BY <1>1, <1>2, Prefix
<1>4. HeadEnd(stream) = h /\ BodyLength(stream) = m_content_length
  BY <1>1, <1>3, HeadEndIs, LengthInIs DEF BodyLength
<1>5. MayEnd(sent)
  BY <1>1, <1>2 DEF IInv, BufferInv, Parsing
<1>. QED
  BY <1>1, <1>2, <1>4, <1>5 DEF MayEnd

LEMMA ReceiveInv ==
  ASSUME BodyInOnePiece, IInv, Receive
  PROVE  BufferInv' /\ LinesInv' /\ ContentInv' /\ AnswerInv'
<1>0. /\ pc = "wait" /\ Parsing /\ TypeOK
      /\ UNCHANGED <<stream, m_checked_idx, m_start_line, m_check_state, m_method, m_linger,
                     m_content_length>>
      /\ m_start_line \in Nat /\ m_checked_idx \in Nat
      /\ m_start_line <= m_checked_idx /\ m_checked_idx <= Len(m_read_buf)
      /\ m_read_buf \in Seq(Symbols) /\ stream \in Seq(Symbols) /\ sent \in Nat
  BY DEF IInv, Receive, Parsing, TypeOK, m_read_idx, cursor, request
<1>1. CASE pc' = "closed"
  BY <1>1 DEF BufferInv, LinesInv, ContentInv, AnswerInv, Parsing
<1>2. CASE pc' # "closed"
  <2>1. pc' = "loop" /\ line_status' = "LINE_OK"
    BY <1>2 DEF Receive
  <2>2. PICK n \in sent + 1 .. Len(stream) :
          MayEnd(n) /\ sent' = n /\ m_read_buf' = m_read_buf \o SubSeq(stream, sent + 1, n)
    BY DEF Receive
  <2>3. n \in Nat /\ sent < n /\ n <= Len(stream)
    BY <1>0, <2>2
  <2>4. PICK s \in Seq(Symbols) : s = Received
    BY <1>0, ReceivedType
  <2>5. PICK t \in Seq(Symbols) : t = Received' /\ t = SubSeq(stream, 1, n)
    <3>1. SubSeq(stream, 1, n) \in Seq(Symbols)
      BY <1>0, <2>3
    <3>. QED
      BY <1>0, <2>2, <3>1 DEF Received
  <2>6. /\ Len(s) = sent /\ Len(t) = n
        /\ \A i \in 1 .. sent : s[i] = stream[i]
        /\ \A i \in 1 .. n : t[i] = stream[i]
    BY <1>0, <2>3, <2>4, <2>5, ReceivedType
  <2>7. Len(s) <= Len(t) /\ \A i \in 1 .. Len(s) : t[i] = s[i]
    BY <2>3, <2>6
  <2>8. Aligned(s)
    BY <1>0, <2>4 DEF IInv, BufferInv
  <2>9. /\ Len(m_read_buf') = n
        /\ \A i \in 1 .. sent : m_read_buf'[i] = m_read_buf[i]
        /\ \A i \in sent + 1 .. n : m_read_buf'[i] = t[i]
    <3>1. Len(m_read_buf) = sent
      BY <2>6, <2>8 DEF Aligned
    <3>2. PICK piece \in Seq(Symbols) : piece = SubSeq(stream, sent + 1, n)
      <4>1. /\ sent + 1 \in Int /\ n \in Int
            /\ \A i \in sent + 1 .. n : stream[i] \in Symbols
        BY <1>0, <2>3
      <4>2. SubSeq(stream, sent + 1, n) \in Seq(Symbols)
        BY <4>1, SubSeqProperties
      <4>. QED
        BY <4>2
    <3>3. Len(piece) = n - sent /\ \A i \in 1 .. n - sent : piece[i] = stream[sent + i]
      BY <1>0, <2>3, <3>2
    <3>4. \A i \in sent + 1 .. n : (m_read_buf \o piece)[i] = stream[i]
      <4>1. ASSUME NEW i \in sent + 1 .. n
            PROVE (m_read_buf \o piece)[i] = stream[i]
        <5>1. i - sent \in 1 .. n - sent /\ sent + (i - sent) = i
          BY <1>0, <2>3
        <5>2. (m_read_buf \o piece)[i] = piece[i - sent]
          BY <1>0, <2>3, <3>1, <3>3
        <5>. QED
          BY <3>3, <5>1, <5>2
      <4>. QED
        BY <4>1
    <3>5. /\ Len(m_read_buf \o piece) = n
          /\ \A i \in 1 .. sent : (m_read_buf \o piece)[i] = m_read_buf[i]
      <4>1. /\ Len(m_read_buf \o piece) = Len(m_read_buf) + Len(piece)
            /\ \A i \in 1 .. Len(m_read_buf) : (m_read_buf \o piece)[i] = m_read_buf[i]
        BY <1>0, ConcatProperties
      <4>2. sent + (n - sent) = n
        BY <1>0, <2>3
      <4>. QED
        BY <3>1, <3>3, <4>1, <4>2
    <3>6. \A i \in sent + 1 .. n : t[i] = stream[i]
      BY <1>0, <2>6
    <3>. QED
      BY <2>2, <3>2, <3>4, <3>5, <3>6
  <2>10. BufferInv'
    <3>1. \A i \in 1 .. n : m_read_buf'[i] \in {t[i], "NUL"}
      BY <1>0, <2>3, <2>6, <2>7, <2>8, <2>9 DEF Aligned
    <3>2. Aligned(Received)'
      BY <2>5, <2>6, <2>9, <3>1 DEF Aligned
    <3>3. MayEnd(sent)'
      BY <1>0, <2>2 DEF MayEnd
    <3>. QED
      BY <3>2, <3>3 DEF BufferInv
  <2>11. ASSUME NEW a \in Nat, Unread(s, a)
         PROVE  Unread(Received, a)'
    <3>1. ASSUME NEW i \in a + 1 .. n PROVE m_read_buf'[i] = t[i]
      <4>1. CASE i <= sent
        <5>1. m_read_buf[i] = s[i]
          BY <1>0, <2>6, <2>11, <4>1 DEF Unread
        <5>. QED
          BY <1>0, <2>6, <2>7, <2>9, <4>1, <5>1
      <4>2. CASE i > sent
        BY <1>0, <2>9, <4>2
      <4>. QED
        BY <1>0, <4>1, <4>2
    <3>. QED
      BY <2>5, <2>6, <3>1 DEF Unread
  <2>12. CASE m_check_state # "CONTENT"
    <3>1. LinesRead(s) /\ LineSought(s)
      BY <1>0, <2>4, <2>12, LinesNow
    <3>2. LinesRead(Received)'
      <4>1. CASE m_check_state = "REQUESTLINE"
        BY <1>0, <3>1, <4>1 DEF LinesRead
      <4>2. CASE m_check_state # "REQUESTLINE"
        <5>1. /\ HeadNoted(s, m_start_line, m_method, m_linger, m_content_length)
              /\ \A j \in 1 .. m_start_line : ~EndsHead(s, j)
          BY <3>1, <4>2 DEF LinesRead, HeadRead
        <5>2. HeadNoted(t, m_start_line, m_method, m_linger, m_content_length)
          BY <2>7, <5>1, HeadStays
        <5>3. m_start_line <= Len(s)
          BY <5>1 DEF HeadNoted
        <5>4. ASSUME NEW j \in 1 .. m_start_line PROVE ~EndsHead(t, j)
          <6>1. j \in Nat /\ j <= Len(s)
            BY <1>0, <2>6, <5>3
          <6>2. EndsHead(t, j) <=> EndsHead(s, j)
            BY <2>7, <6>1, Prefix
          <6>. QED
            BY <5>1, <6>2
        <5>. QED
          BY <1>0, <2>5, <4>2, <5>2, <5>4 DEF LinesRead, HeadRead
      <4>. QED
        BY <4>1, <4>2
    <3>3. LineSought(Received)'
      <4>1. NoBreak(t, m_start_line, m_checked_idx)
        <5>1. m_checked_idx <= Len(s)
          BY <1>0, <2>8 DEF Aligned
        <5>. QED
          BY <1>0, <2>6, <2>7, <3>1, <5>1 DEF LineSought, NoBreak
      <4>2. Unread(Received, m_start_line)'
        BY <1>0, <2>11, <3>1 DEF LineSought
      <4>. QED
        BY <1>0, <2>5, <4>1, <4>2 DEF LineSought
    <3>. QED
      BY <1>0, <2>1, <2>10, <2>12, <3>2, <3>3 DEF LinesInv, ContentInv, AnswerInv
  <2>13. CASE m_check_state = "CONTENT"
    <3>1. PICK h \in Nat : ContentRead(s, h)
      BY <1>0, <2>4, <2>13 DEF IInv, ContentInv
    <3>2. sent = h
      BY <1>0, <2>3, <2>4, <3>1, WaitsBeforeBody
    <3>3. /\ HeadIs(s, h) /\ HeadNoted(s, h, m_method, m_linger, m_content_length)
          /\ m_content_length # 0 /\ m_checked_idx = h /\ m_start_line = h /\ Unread(s, h)
      BY <2>6, <3>1, <3>2 DEF ContentRead, HeadRead
    <3>4. HeadIs(t, h) /\ HeadNoted(t, h, m_method, m_linger, m_content_length)
      BY <2>6, <2>7, <3>2, <3>3, Prefix, HeadStays
    <3>5. Unread(Received, h)'
      BY <2>11, <3>3
    <3>6. ContentRead(Received, h)'
      BY <1>0, <2>1, <2>5, <3>3, <3>4, <3>5 DEF ContentRead, HeadRead
    <3>. QED
      BY <1>0, <2>1, <2>10, <2>13, <3>6 DEF LinesInv, ContentInv, AnswerInv
  <2>. QED
    BY <2>12, <2>13
<1>. QED
  BY <1>1, <1>2
(* init() makes room for the next message, or nothing is left to do.       *)
LEMMA AnswerInvStep ==
  ASSUME IInv, Answer
  PROVE  BufferInv' /\ LinesInv' /\ ContentInv' /\ AnswerInv'
<1>1. CASE m_linger
  <2>1. /\ pc' = "wait" /\ sent' = 0 /\ m_read_buf' = <<>> /\ m_checked_idx' = 0
        /\ m_start_line' = 0 /\ m_check_state' = "REQUESTLINE" /\ m_linger' = FALSE
        /\ m_content_length' = 0
    BY <1>1 DEF Answer, init
  <2>2. Received' = <<>> /\ Len(m_read_buf') = 0
    BY <2>1 DEF Received
  <2>3. Len(Received') = 0
    BY <2>2
  <2>4. BufferInv'
    BY <2>1, <2>2, <2>3 DEF BufferInv, Aligned
  <2>5. LinesRead(Received)' /\ LineSought(Received)' /\ Stuck(Received, m_checked_idx)'
    BY <2>1, <2>3 DEF LinesRead, LineSought, NoBreak, Unread, Stuck
  <2>. QED
    BY <2>1, <2>4, <2>5 DEF LinesInv, ContentInv, AnswerInv
<1>2. CASE ~m_linger
  BY <1>2 DEF Answer, BufferInv, LinesInv, ContentInv, AnswerInv, Parsing
<1>. QED
  BY <1>1, <1>2

LEMMA InitIInv == Init => IInv
<1>. SUFFICES ASSUME Init PROVE IInv
  OBVIOUS
<1>1. /\ pc = "wait" /\ sent = 0 /\ m_read_buf = <<>> /\ m_checked_idx = 0
      /\ m_start_line = 0 /\ m_check_state = "REQUESTLINE" /\ m_linger = FALSE
      /\ m_content_length = 0
  BY DEF Init
<1>2. Received = <<>> /\ Len(m_read_buf) = 0
  BY <1>1 DEF Received
<1>3. Len(Received) = 0
  BY <1>2
<1>4. BufferInv
  BY <1>1, <1>2, <1>3 DEF BufferInv, Aligned
<1>5. LinesRead(Received) /\ LineSought(Received) /\ Stuck(Received, m_checked_idx)
  BY <1>1, <1>3 DEF LinesRead, LineSought, NoBreak, Unread, Stuck
<1>. QED
  BY <1>1, <1>4, <1>5, InitTypeOK DEF IInv, LinesInv, ContentInv, AnswerInv

(* A step that changes nothing.                                            *)
LEMMA StutterInv ==
  ASSUME IInv, UNCHANGED vars
  PROVE  IInv'
<1>1. /\ UNCHANGED <<stream, sent, pc, m_read_buf, m_checked_idx, m_start_line, m_check_state,
                     m_method, m_linger, m_content_length, m_post_data, line_status, code>>
  BY DEF vars, cursor, request
<1>2. Received' = Received /\ (MayEnd(sent) => MayEnd(sent)')
  BY <1>1, ReceivedSame
<1>3. TypeOK'
  BY <1>1 DEF IInv, TypeOK, m_read_idx
<1>4. BufferInv' /\ AnswerInv'
  BY <1>1, <1>2 DEF IInv, BufferInv, AnswerInv, Aligned, Answered, Parsing
<1>5. LinesInv'
  BY <1>1, <1>2 DEF IInv, LinesInv, LinesRead, HeadRead, LineFound, LineSought, Unread, Parsing
<1>6. ContentInv'
  BY <1>1, <1>2 DEF IInv, ContentInv, ContentRead, HeadRead, Unread, Parsing
<1>. QED
  BY <1>3, <1>4, <1>5, <1>6 DEF IInv

(* A message whose lines were read as far as they go has no line left that *)
(* would make it complete, or show it to be bad.                           *)
LEMMA WaitsForMore ==
  ASSUME IInv, pc = "wait"
  PROVE  ~IsBad(Received) /\ ~IsComplete(Received)
<1>1. /\ Parsing /\ TypeOK /\ Received \in Seq(Symbols) /\ Len(Received) \in Nat
      /\ m_start_line \in Nat /\ m_checked_idx \in Nat /\ m_start_line <= m_checked_idx
      /\ m_method \in {"GET", "POST"} /\ m_content_length \in Int
  BY ReceivedType DEF IInv, TypeOK, Parsing
<1>2. CASE m_check_state # "CONTENT"
  <2>1. /\ NoBreak(Received, m_start_line, m_checked_idx) /\ Stuck(Received, m_checked_idx)
        /\ LinesRead(Received)
    BY <1>1, <1>2 DEF IInv, LinesInv, LineSought
  <2>2. m_start_line > 0 => /\ m_start_line >= 3 /\ Received[m_start_line] = "LF"
                            /\ Received[1] \in {"GET", "POST"} /\ Received[2] = "CR"
                            /\ \A j \in 1 .. m_start_line : ~EndsHead(Received, j)
    BY <1>1, <2>1 DEF LinesRead, HeadRead, HeadNoted
  <2>3. ASSUME NEW i \in 1 .. Len(Received), i > m_start_line,
               Received[i] = "LF", i > 1, Received[i - 1] = "CR"
        PROVE  ~Readable(Received, i - 1)
    <3>1. i > m_checked_idx
      BY <1>1, <2>1, <2>3 DEF NoBreak
    <3>2. i # m_checked_idx + 1
      <4>1. SUFFICES ASSUME i = m_checked_idx + 1 PROVE FALSE
        OBVIOUS
      <4>2. CASE m_checked_idx > m_start_line
        BY <1>1, <2>1, <2>3, <4>1, <4>2 DEF NoBreak
      <4>3. CASE m_checked_idx = m_start_line
        BY <1>1, <2>2, <2>3, <4>1, <4>3
      <4>. QED
        BY <1>1, <4>2, <4>3
    <3>3. m_checked_idx + 1 < Len(Received) /\ m_checked_idx + 1 \in 1 .. i - 1
      BY <1>1, <2>3, <3>1, <3>2
    <3>4. Lone(Received, m_checked_idx + 1)
      BY <1>1, <2>1, <3>3 DEF Stuck
    <3>. QED
      BY <3>3, <3>4 DEF Readable
  <2>4. ~IsComplete(Received)
    <3>1. SUFFICES ASSUME IsComplete(Received) PROVE FALSE
      OBVIOUS
    <3>2. PICK h : h = HeadEnd(Received)
      OBVIOUS
    <3>3. /\ EndsHead(Received, h) /\ Readable(Received, h)
      BY <3>1, <3>2 DEF IsComplete
    <3>4. h \in Nat
      BY <1>1, <3>3 DEF EndsHead
    <3>5. h \in 1 .. Len(Received) /\ h >= 4 /\ Received[h] = "LF" /\ Received[h - 1] = "CR"
      BY <1>1, <3>3, <3>4, EndsHeadDef
    <3>6. h > m_start_line
      BY <1>1, <2>2, <3>3, <3>5
    <3>7. ~Readable(Received, h - 1)
      BY <2>3, <3>5, <3>6
    <3>. QED
      BY <3>3, <3>5, <3>7 DEF Readable
  <2>5. ~IsBad(Received)
    <3>1. CASE m_start_line > 0
      BY <2>2, <3>1 DEF IsBad
    <3>2. CASE m_start_line = 0
      <4>1. SUFFICES ASSUME NEW i \in 1 .. Len(Received) - 1, Received[i] = "CR",
                            Received[i + 1] = "LF", Readable(Received, i)
                     PROVE FALSE
        BY DEF IsBad
      <4>2. i + 1 \in 1 .. Len(Received) /\ i + 1 > 1 /\ (i + 1) - 1 = i
        BY <1>1
      <4>. QED
        BY <2>3, <3>2, <4>1, <4>2
    <3>. QED
      BY <1>1, <3>1, <3>2
  <2>. QED
    BY <2>4, <2>5
<1>3. CASE m_check_state = "CONTENT"
  <2>1. PICK h \in Nat : ContentRead(Received, h)
    BY <1>1, <1>3 DEF IInv, ContentInv
  <2>2. /\ HeadIs(Received, h) /\ Len(Received) < h + m_content_length
        /\ HeadNoted(Received, h, m_method, m_linger, m_content_length)
    BY <2>1 DEF ContentRead, HeadRead
  <2>3. HeadEnd(Received) = h /\ ~IsBad(Received) /\ m_content_length = BodyLength(Received)
    BY <1>1, <2>2, HeadMeans
  <2>4. ~(Len(Received) >= h + m_content_length)
    BY <1>1, <2>2
  <2>. QED
    BY <2>3, <2>4 DEF IsComplete
<1>. QED
  BY <1>2, <1>3

(* However its requests are cut outside their bodies, the parser reports   *)
(* each when it is complete, with its method, its body and whether to keep *)
(* the connection, and reports as bad exactly what is bad.                 *)
THEOREM RequestsRecognised ==
  ASSUME BodyInOnePiece
  PROVE  Spec => []RecognisesRequests
<1>1. IInv /\ [Next]_vars => IInv'
  <2>. SUFFICES ASSUME IInv, [Next]_vars PROVE IInv'
    OBVIOUS
  <2>1. CASE Next
    <3>1. TypeOK'
      BY <2>1, LoopConditionStep, LineSteps, ContentStep, ReceiveStep, AnswerStep
         DEF IInv, Next, process_read
    <3>2. BufferInv' /\ LinesInv' /\ ContentInv' /\ AnswerInv'
      BY <2>1, LoopConditionInv, RequestLineInv, HeaderLineInv, ContentStepInv, ReceiveInv,
         AnswerInvStep
         DEF Next, process_read
    <3>. QED
      BY <3>1, <3>2 DEF IInv
  <2>2. CASE UNCHANGED vars
    BY <2>2, StutterInv
  <2>. QED
    BY <2>1, <2>2
<1>2. IInv => RecognisesRequests
  <2>. SUFFICES ASSUME IInv PROVE RecognisesRequests
    OBVIOUS
  <2>1. pc = "answer" => Answered(Received)
    BY DEF IInv, AnswerInv
  <2>. QED
    BY <2>1, WaitsForMore DEF RecognisesRequests, Answered
<1>. QED
  BY <1>1, <1>2, InitIInv, PTL DEF Spec
===============================================================================

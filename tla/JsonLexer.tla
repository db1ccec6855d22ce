------------------------------- MODULE JsonLexer -------------------------------
(***************************************************************************)
(* The lexer of the JSON library (json.hpp:6637-8155), with which the      *)
(* SIGCHLD handlers read what the CGI programs print.  It takes the input  *)
(* byte by byte; one step is one call of get() and the switch on what it   *)
(* returned, and pc is the place of that call.                             *)
(*                                                                         *)
(* Bytes are their numbers.  The value of a number is left out, but not    *)
(* whether it fits an integer type.                                        *)
(*                                                                         *)
(* PositionKeepsLines, LowSurrogateUnchecked, ContinuationLoose and        *)
(* StarStays are no part of the specification: each is the definition      *)
(* after it with a likely fault, against which a property was tried.       *)
(***************************************************************************)
EXTENDS JsonText

CONSTANTS
  Scripts,      (* inputs: for each place, the bytes that may come there   *)
  MaxUnsigned,  (* the largest value of number_unsigned_t                  *)
  MaxInteger    (* and of number_integer_t; the least is -MaxInteger - 1   *)

EOF == -1

ASSUME JsonLexerAssumption ==
  /\ \A s \in Scripts : s \in Seq(SUBSET (0 .. 255))
  /\ MaxUnsigned \in Nat /\ MaxInteger \in Nat

VARIABLES
  ignore_comments,
  script,         (* the bytes that may come                               *)
  input,          (* the bytes that came                                   *)
  current, next_unget,
  position,       (* chars_read_total, chars_read_current_line, lines_read *)
  pc,
  token_buffer,
  expected,       (* what is left of a literal, or of a character of       *)
                  (* several bytes: the set of bytes of each               *)
  type,           (* the token to return: of the literal or the number     *)
  codepoints,     (* the values of the \u escapes of one character         *)
  hex,            (* the digits of the last of them                        *)
  token,          (* what scan() returned                                  *)
  over,           (* history: scan() was called after an error or the end  *)
  from, start     (* history: the number of bytes before the call of       *)
                  (* scan(), and before the token                          *)

reader  == <<script, input, current, next_unget, position>>
literal == <<expected, type>>
escape  == <<codepoints, hex>>
history == <<over, from, start>>
vars == <<ignore_comments, reader, pc, token_buffer, literal, escape, token, history>>

-------------------------------------------------------------------------------
(* get() and unget()                                                       *)

PositionAfter(p, c) ==
  [total |-> p.total + 1,
   line  |-> IF c = LF THEN 0 ELSE p.line + 1,
   lines |-> IF c = LF THEN p.lines + 1 ELSE p.lines]

PositionKeepsLines(p) ==
  [total |-> p.total - 1,
   line  |-> IF p.line = 0 THEN 0 ELSE p.line - 1,
   lines |-> p.lines]
PositionBefore(p) ==
  [total |-> p.total - 1,
   line  |-> IF p.line = 0 THEN 0 ELSE p.line - 1,
   lines |-> IF p.line = 0 /\ p.lines > 0 THEN p.lines - 1 ELSE p.lines]

(* The next byte of the input is c.                                        *)
Incoming(c) ==
  IF next_unget THEN c = current /\ UNCHANGED input
  ELSE IF (position.total > 0 /\ current = EOF) \/ Len(input) = Len(script)
       THEN c = EOF /\ UNCHANGED input
  ELSE \/ c = EOF /\ UNCHANGED input
       \/ c \in script[Len(input) + 1] /\ input' = Append(input, c)

Bytes == (IF Len(input) < Len(script) THEN script[Len(input) + 1] ELSE {})
         \cup {current, EOF}

(* History: the bytes that were taken and not given back.                  *)
Consumed == IF next_unget /\ current # EOF THEN Front(input) ELSE input

Get(c) ==
  /\ Incoming(c)
  /\ current' = c /\ next_unget' = FALSE
  /\ position' = PositionAfter(position, c)
  /\ UNCHANGED script

GetThenUnget(c) ==
  /\ Incoming(c)
  /\ current' = c /\ next_unget' = TRUE
  /\ position' = PositionBefore(PositionAfter(position, c))
  /\ UNCHANGED script

-------------------------------------------------------------------------------
(* Leaving a step: for another one, or for the parser.                     *)

Goto(to) == pc' = to /\ UNCHANGED token
Return(t) == pc' = "returned" /\ token' = t
Fail == Return("parse_error")

Add(s) == token_buffer' = token_buffer \o s

-------------------------------------------------------------------------------
(* scan()                                                                  *)

(* The parser asks for a token; the first time a byte order mark is        *)
(* skipped.  After an error or the end it asks at most once more, and only *)
(* if it does not throw.                                                   *)
Scan ==
  /\ pc = "returned"
  /\ ~over
  /\ over' = (token \in {"parse_error", "end_of_input"})
  /\ pc' = IF position.total = 0 THEN "bom" ELSE "space"
  /\ token' = "none"
  /\ from' = Len(Consumed) /\ start' = Len(Consumed)
  /\ UNCHANGED <<ignore_comments, reader, token_buffer, literal, escape>>

Bom ==
  /\ pc = "bom"
  /\ \E c \in Bytes : IF c = \hEF THEN Get(c) /\ Goto("bom2") ELSE GetThenUnget(c) /\ Goto("space")
  /\ UNCHANGED <<ignore_comments, token_buffer, literal, escape, history>>

BomRest ==
  /\ pc \in {"bom2", "bom3"}
  /\ \E c \in Bytes :
       /\ Get(c)
       /\ \/ pc = "bom2" /\ c = \hBB /\ Goto("bom3")
          \/ pc = "bom3" /\ c = \hBF /\ Goto("space")
          \/ c # (IF pc = "bom2" THEN \hBB ELSE \hBF) /\ Fail
  /\ UNCHANGED <<ignore_comments, token_buffer, literal, escape, history>>

Comment ==
  /\ pc = "comment"
  /\ \E c \in Bytes :
       /\ Get(c)
       /\ \/ c = Slash /\ Goto("line_comment")
          \/ c = Star /\ Goto("comment_text")
          \/ c \notin {Slash, Star} /\ Fail
  /\ UNCHANGED <<ignore_comments, token_buffer, literal, escape, history>>

LineComment ==
  /\ pc = "line_comment"
  /\ \E c \in Bytes : /\ Get(c)
                      /\ Goto(IF c \in {LF, CR, EOF, NUL} THEN "space" ELSE pc)
  /\ UNCHANGED <<ignore_comments, token_buffer, literal, escape, history>>

CommentText ==
  /\ pc = "comment_text"
  /\ \E c \in Bytes :
       /\ Get(c)
       /\ \/ c \in {EOF, NUL} /\ Fail
          \/ c \notin {EOF, NUL} /\ Goto(IF c = Star THEN "comment_star" ELSE pc)
  /\ UNCHANGED <<ignore_comments, token_buffer, literal, escape, history>>

StarStays ==
  /\ pc = "comment_star"
  /\ \E c \in Bytes : IF c = Slash THEN Get(c) /\ Goto("space")
                      ELSE GetThenUnget(c) /\ Goto("comment_star")
  /\ UNCHANGED <<ignore_comments, token_buffer, literal, escape, history>>
CommentStar ==
  /\ pc = "comment_star"
  /\ \E c \in Bytes : IF c = Slash THEN Get(c) /\ Goto("space")
                      ELSE GetThenUnget(c) /\ Goto("comment_text")
  /\ UNCHANGED <<ignore_comments, token_buffer, literal, escape, history>>

Structural == {<<OpenList, "begin_array">>, <<CloseList, "end_array">>,
               <<OpenMap, "begin_object">>, <<CloseMap, "end_object">>,
               <<Colon, "name_separator">>, <<Comma, "value_separator">>,
               <<NUL, "end_of_input">>, <<EOF, "end_of_input">>}
Literals == {<<TrueText, "literal_true">>, <<FalseText, "literal_false">>,
             <<NullText, "literal_null">>}

(* Bytes that no token starts with.                                        *)
Stray(c) ==
  /\ c \notin {Blank, HT, LF, CR, Quote, Minus} \cup Digit
  /\ \A s \in Structural : c # s[1]
  /\ \A l \in Literals : c # l[1][1]
  /\ c = Slash => ~ignore_comments

(* The first byte that is no white space decides; a string and a number    *)
(* start with an empty buffer.                                             *)
Space ==
  /\ pc = "space"
  /\ \E c \in Bytes :
       /\ Get(c)
       /\ start' = IF c = EOF THEN Len(input') ELSE Len(input') - 1
       /\ \/ c \in {Blank, HT, LF, CR} /\ Goto("space") /\ UNCHANGED <<token_buffer, literal>>
          \/ c = Slash /\ ignore_comments /\ Goto("comment") /\ UNCHANGED <<token_buffer, literal>>
          \/ \E t \in Structural : c = t[1] /\ Return(t[2]) /\ UNCHANGED <<token_buffer, literal>>
          \/ \E l \in Literals :
               /\ c = l[1][1]
               /\ expected' = [n \in 1 .. Len(l[1]) - 1 |-> {l[1][n + 1]}]
               /\ type' = l[2]
               /\ Goto("literal") /\ UNCHANGED token_buffer
          \/ c = Quote /\ Goto("string") /\ token_buffer' = <<>> /\ UNCHANGED literal
          \/ /\ c \in Digit \cup {Minus}
             /\ Goto(IF c = Minus THEN "minus" ELSE IF c = Zero THEN "zero" ELSE "any1")
             /\ type' = IF c = Minus THEN "value_integer" ELSE "value_unsigned"
             /\ token_buffer' = <<c>> /\ UNCHANGED expected
          \/ Stray(c) /\ Fail /\ UNCHANGED <<token_buffer, literal>>
  /\ UNCHANGED <<ignore_comments, escape, over, from>>

Literal ==
  /\ pc = "literal"
  /\ \E c \in Bytes :
       /\ Get(c)
       /\ IF c \notin Head(expected) THEN Fail
          ELSE IF Len(expected) > 1 THEN Goto("literal") ELSE Return(type)
  /\ expected' = Tail(expected)
  /\ UNCHANGED <<ignore_comments, token_buffer, type, escape, history>>

-------------------------------------------------------------------------------
(* scan_number(): pc is the label.  A byte that does not belong to the     *)
(* number is left for the next token.                                      *)

(* An integer that does not fit becomes a float.                           *)
NumberToken ==
  LET fits == CASE type = "value_unsigned" -> Value(token_buffer) <= MaxUnsigned
                [] type = "value_integer"  -> Value(Tail(token_buffer)) <= MaxInteger + 1
                [] OTHER -> FALSE
  IN  IF fits THEN type ELSE "value_float"

Continue(c, label) == Get(c) /\ Add(<<c>>) /\ Goto(label)
NumberDone(c)      == GetThenUnget(c) /\ Return(NumberToken) /\ UNCHANGED token_buffer
NumberFails(c)     == Get(c) /\ Fail /\ UNCHANGED token_buffer
float              == type' = "value_float"

ScanMinus ==
  /\ pc = "minus"
  /\ \E c \in Bytes : IF c \in Digit THEN Continue(c, IF c = Zero THEN "zero" ELSE "any1")
                      ELSE NumberFails(c)
  /\ UNCHANGED <<ignore_comments, literal, escape, history>>

ScanInteger ==
  /\ pc \in {"zero", "any1"}
  /\ \E c \in Bytes :
       \/ c = Point /\ Continue(c, "decimal1") /\ float
       \/ c \in Exponent /\ Continue(c, "exponent") /\ float
       \/ c \in Digit /\ pc = "any1" /\ Continue(c, "any1") /\ UNCHANGED type
       \/ /\ c \notin {Point} \cup Exponent
          /\ pc = "any1" => c \notin Digit
          /\ NumberDone(c) /\ UNCHANGED type
  /\ UNCHANGED <<ignore_comments, expected, escape, history>>

ScanDecimal1 ==
  /\ pc = "decimal1"
  /\ \E c \in Bytes : IF c \in Digit THEN Continue(c, "decimal2") ELSE NumberFails(c)
  /\ UNCHANGED <<ignore_comments, literal, escape, history>>

ScanDecimal2 ==
  /\ pc = "decimal2"
  /\ \E c \in Bytes : IF c \in Digit THEN Continue(c, "decimal2")
                      ELSE IF c \in Exponent THEN Continue(c, "exponent") ELSE NumberDone(c)
  /\ UNCHANGED <<ignore_comments, literal, escape, history>>

ScanExponent ==
  /\ pc = "exponent"
  /\ \E c \in Bytes : IF c \in {Plus, Minus} THEN Continue(c, "sign")
                      ELSE IF c \in Digit THEN Continue(c, "any2") ELSE NumberFails(c)
  /\ UNCHANGED <<ignore_comments, literal, escape, history>>

ScanSign ==
  /\ pc = "sign"
  /\ \E c \in Bytes : IF c \in Digit THEN Continue(c, "any2") ELSE NumberFails(c)
  /\ UNCHANGED <<ignore_comments, literal, escape, history>>

ScanAny2 ==
  /\ pc = "any2"
  /\ \E c \in Bytes : IF c \in Digit THEN Continue(c, "any2") ELSE NumberDone(c)
  /\ UNCHANGED <<ignore_comments, literal, escape, history>>

scan_number == \/ ScanMinus \/ ScanInteger \/ ScanDecimal1 \/ ScanDecimal2
               \/ ScanExponent \/ ScanSign \/ ScanAny2

-------------------------------------------------------------------------------
(* scan_string()                                                           *)

Tails == \h80 .. \hBF

(* What must follow the first byte of a character, for the bytes that may  *)
(* be one.                                                                 *)
ContinuationLoose(c) ==
  CASE c \in \hC2 .. \hDF -> <<Tails>>
    [] c \in \hE0 .. \hEF -> <<Tails, Tails>>
    [] c \in \hF0 .. \hF4 -> <<Tails, Tails, Tails>>
Continuation(c) ==
  CASE c \in \hC2 .. \hDF -> <<Tails>>
    [] c = \hE0 -> <<\hA0 .. \hBF, Tails>>
    [] c \in (\hE1 .. \hEC) \cup (\hEE .. \hEF) -> <<Tails, Tails>>
    [] c = \hED -> <<\h80 .. \h9F, Tails>>
    [] c = \hF0 -> <<\h90 .. \hBF, Tails, Tails>>
    [] c \in \hF1 .. \hF3 -> <<Tails, Tails, Tails>>
    [] c = \hF4 -> <<\h80 .. \h8F, Tails, Tails>>

Control == 0 .. \h1F
Plain == (\h20 .. \h7F) \ {Quote, Backslash}

ScanString ==
  /\ pc = "string"
  /\ \E c \in Bytes :
       /\ Get(c)
       /\ \/ c = Quote /\ Return("value_string") /\ UNCHANGED <<token_buffer, expected, codepoints>>
          \/ /\ c = Backslash /\ Goto("escape")
             /\ codepoints' = <<>> /\ UNCHANGED <<token_buffer, expected>>
          \/ c \in Plain /\ Goto("string") /\ Add(<<c>>) /\ UNCHANGED <<expected, codepoints>>
          \/ /\ c \in \hC2 .. \hF4 /\ Goto("tail") /\ Add(<<c>>)
             /\ expected' = Continuation(c) /\ UNCHANGED codepoints
          \/ /\ c \in Control \cup {EOF} \cup (\h80 .. \hC1) \cup (\hF5 .. \hFF)
             /\ Fail /\ UNCHANGED <<token_buffer, expected, codepoints>>
  /\ UNCHANGED <<ignore_comments, type, hex, history>>

(* next_byte_in_range()                                                    *)
ScanTail ==
  /\ pc = "tail"
  /\ \E c \in Bytes :
       /\ Get(c)
       /\ IF c \in Head(expected)
          THEN Goto(IF Len(expected) > 1 THEN "tail" ELSE "string") /\ Add(<<c>>)
          ELSE Fail /\ UNCHANGED token_buffer
  /\ expected' = Tail(expected)
  /\ UNCHANGED <<ignore_comments, type, escape, history>>

Unescaped == [c \in {Quote, Backslash, Slash, Lower(2), Lower(6), Lower(14), Lower(18), Lower(20)} |->
                CASE c = Lower(2) -> 8 [] c = Lower(6) -> 12 [] c = Lower(14) -> LF
                  [] c = Lower(18) -> CR [] c = Lower(20) -> HT [] OTHER -> c]

ScanEscape ==
  /\ pc = "escape"
  /\ \E c \in Bytes :
       /\ Get(c)
       /\ CASE c \in DOMAIN Unescaped -> Goto("string") /\ Add(<<Unescaped[c]>>)
            [] c = Lower(21) -> Goto("hex") /\ UNCHANGED token_buffer
            [] OTHER -> Fail /\ UNCHANGED token_buffer
  /\ hex' = <<>>
  /\ UNCHANGED <<ignore_comments, literal, codepoints, history>>

(* A code point in UTF-8.                                                  *)
Continued(p) == \h80 + (p % 64)
Encoded(p) ==
  IF p < \h80 THEN <<p>>
  ELSE IF p < \h800 THEN <<\hC0 + p \div 64, Continued(p)>>
  ELSE IF p < \h10000 THEN <<\hE0 + p \div 4096, Continued(p \div 64), Continued(p)>>
  ELSE <<\hF0 + p \div 262144, Continued(p \div 4096), Continued(p \div 64), Continued(p)>>

HexDigit(c) == CASE c \in Digit -> c - Zero
                 [] c \in Upper(1) .. Upper(6) -> c - Upper(1) + 10
                 [] c \in Lower(1) .. Lower(6) -> c - Lower(1) + 10
                 [] OTHER -> -1

(* After the four digits: the code point ends the character, or it is the  *)
(* first half of a pair, or the second.                                    *)
LowSurrogateUnchecked(p) ==
  IF codepoints' = <<p>>
  THEN CASE p \in High -> Goto("pair") /\ UNCHANGED token_buffer
         [] OTHER -> Goto("string") /\ Add(Encoded(p))
  ELSE Goto("string") /\ Add(Encoded(codepoints[1] * 1024 + p - \h35FDC00))
EndEscape(p) ==
  IF codepoints' = <<p>>
  THEN CASE p \in High -> Goto("pair") /\ UNCHANGED token_buffer
         [] p \in Low  -> Fail /\ UNCHANGED token_buffer
         [] OTHER -> Goto("string") /\ Add(Encoded(p))
  ELSE IF p \in Low
       THEN Goto("string") /\ Add(Encoded(codepoints[1] * 1024 + p - \h35FDC00))
       ELSE Fail /\ UNCHANGED token_buffer

(* get_codepoint()                                                         *)
ScanHex ==
  /\ pc = "hex"
  /\ \E c \in Bytes :
       /\ Get(c)
       /\ hex' = Append(hex, HexDigit(c))
       /\ IF HexDigit(c) = -1 THEN Fail /\ UNCHANGED <<token_buffer, codepoints>>
          ELSE IF Len(hex') < 4 THEN Goto("hex") /\ UNCHANGED <<token_buffer, codepoints>>
          ELSE LET p == 4096 * hex'[1] + 256 * hex'[2] + 16 * hex'[3] + hex'[4]
               IN  codepoints' = Append(codepoints, p) /\ EndEscape(p)
  /\ UNCHANGED <<ignore_comments, literal, history>>

(* The second half must follow the first at once.                          *)
ScanPair ==
  /\ pc \in {"pair", "pair_u"}
  /\ \E c \in Bytes :
       /\ Get(c)
       /\ \/ pc = "pair" /\ c = Backslash /\ Goto("pair_u")
          \/ pc = "pair_u" /\ c = Lower(21) /\ Goto("hex")
          \/ c # (IF pc = "pair" THEN Backslash ELSE Lower(21)) /\ Fail
  /\ hex' = <<>>
  /\ UNCHANGED <<ignore_comments, token_buffer, literal, codepoints, history>>

scan_string == ScanString \/ ScanTail \/ ScanEscape \/ ScanHex \/ ScanPair

-------------------------------------------------------------------------------
Init ==
  /\ ignore_comments \in BOOLEAN
  /\ script \in Scripts
  /\ input = <<>> /\ current = EOF /\ next_unget = FALSE
  /\ position = [total |-> 0, line |-> 0, lines |-> 0]
  /\ pc = "returned" /\ token = "uninitialized"
  /\ token_buffer = <<>>
  /\ expected = <<>> /\ type = "uninitialized"
  /\ codepoints = <<>> /\ hex = <<>>
  /\ over = FALSE /\ from = 0 /\ start = 0

scan_comment == Comment \/ LineComment \/ CommentText \/ CommentStar

Reading == Bom \/ BomRest \/ Space \/ Literal \/ scan_comment \/ scan_number \/ scan_string

Next == Scan \/ Reading

Spec == Init /\ [][Next]_vars /\ WF_vars(Reading)

-------------------------------------------------------------------------------
(* What JSON is, for what was read so far: see JsonText                    *)

(* Every beginning of a string becomes one by one of these ends.           *)
EscapeEnd == <<Backslash, Lower(21), Upper(4), Upper(3), Zero, Zero>>
DigitEnds == {[n \in 1 .. k |-> Zero] \o e : k \in 0 .. 4, e \in {<<>>, EscapeEnd}}
EscapeEnds == {From(EscapeEnd, n) : n \in 2 .. 6}
ByteEnds == {[n \in 1 .. k |-> IF n = 1 THEN b ELSE \h80] : k \in 1 .. 3, b \in {\h80, \h90, \hA0}}
Ends == {<<>>} \cup {<<Lower(14)>>} \cup DigitEnds \cup EscapeEnds \cup ByteEnds

BeginsString(s) == IsString(s) \/ \E e \in Ends : IsString(s \o e \o <<Quote>>)
BeginsNumber(s) == IsNumber(s) \/ IsNumber(Append(s, Zero))
BeginsLiteral(s) == \E l \in Literals : IsPrefix(s, l[1])

EndsComment(s, n) == n >= 4 /\ s[n - 1] = Star /\ s[n] = Slash
IsComment(s) ==
  /\ Len(s) >= 3 /\ s[1] = Slash
  /\ \/ /\ s[2] = Slash /\ s[Len(s)] \in {LF, CR, NUL}
        /\ \A n \in 3 .. Len(s) - 1 : s[n] \notin {LF, CR, NUL}
     \/ /\ s[2] = Star /\ EndsComment(s, Len(s))
        /\ \A n \in 3 .. Len(s) - 1 : ~EndsComment(s, n) /\ s[n] # NUL
(* White space and, where they are ignored, comments; the last one may be  *)
(* ended by the end of the input.                                          *)
IsSpace(s, comments, ended) ==
  LET blank[n \in 1 .. Len(s) + 1] ==
        \/ n > Len(s)
        \/ s[n] \in {Blank, HT, LF, CR} /\ blank[n + 1]
        \/ /\ comments
           /\ \/ \E m \in n + 2 .. Len(s) : IsComment(SubSeq(s, n, m)) /\ blank[m + 1]
              \/ ended /\ IsComment(Append(From(s, n), LF))
  IN  blank[1]

-------------------------------------------------------------------------------
(* Properties                                                              *)

Text == SubSeq(input, start + 1, Len(Consumed))
Skipped == SubSeq(input, from + 1, start)
Found == pc = "returned" /\ token # "uninitialized"

(* The types; a position counts the bytes and lines taken, also after a    *)
(* line's end was given back.                                              *)
TypeOK ==
  /\ ignore_comments \in BOOLEAN /\ over \in BOOLEAN
  /\ script \in Scripts /\ Len(input) <= Len(script)
  /\ \A n \in DOMAIN input : input[n] \in script[n]
  /\ current \in -1 .. 255 /\ next_unget \in BOOLEAN
  /\ token_buffer \in Seq(0 .. 255)
  /\ Len(hex) <= 4 /\ Len(codepoints) <= 2
  /\ 0 <= from /\ from <= start /\ start <= Len(Consumed)
  /\ current # EOF =>
       /\ position.total = Len(Consumed)
       /\ position.lines = Cardinality({n \in DOMAIN Consumed : Consumed[n] = LF})

(* A string that is found starts and ends at its quotes, and what was kept *)
(* are the characters that the text between them stands for                *)
(* (json.hpp:6695-7360).                                                   *)
StringIsText ==
  Found /\ token = "value_string" =>
    IsString(Text) /\ Decoded(token_buffer, FALSE) = Decoded(Inside(Text), TRUE)

(* A number that is found is the longest one that the input starts with    *)
(* there, and its type says whether it is an integer and fits              *)
(* (json.hpp:7495-7820).                                                   *)
NumberIsText ==
  Found /\ token \in {"value_unsigned", "value_integer", "value_float"} =>
    /\ IsNumber(Text) /\ token_buffer = Text
    /\ current = EOF \/ ~BeginsNumber(Append(Text, current))
    /\ token = IF IsDigits(Text) /\ Value(Text) <= MaxUnsigned THEN "value_unsigned"
               ELSE IF Text[1] = Minus /\ IsDigits(Tail(Text))
                       /\ Value(Tail(Text)) <= MaxInteger + 1 THEN "value_integer"
               ELSE "value_float"

(* Any other token is its word or its sign, all of it (json.hpp:7826-7837, *)
(* 8053-8121).                                                             *)
WordIsText ==
  Found => \/ token \in {"parse_error", "value_string", "value_unsigned", "value_integer", "value_float"}
           \/ <<Text, token>> \in Literals
           \/ \E s \in Structural : Text = (IF s[1] = EOF THEN <<>> ELSE <<s[1]>>) /\ token = s[2]

(* What was skipped to get to a token is white space, whole comments and a *)
(* byte order mark in front, and nothing else (json.hpp:7370-7433,         *)
(* 8012-8050).                                                             *)
SkippedIsSpace ==
  Found /\ token # "parse_error" =>
    IsSpace(IF from = 0 /\ Len(Skipped) >= 3 /\ SubSeq(Skipped, 1, 3) = <<\hEF, \hBB, \hBF>>
            THEN From(Skipped, 4) ELSE Skipped, ignore_comments, current = EOF)

(* The token that is found is what the text says, by its kind.             *)
TokenIsText == SkippedIsSpace /\ StringIsText /\ NumberIsText /\ WordIsText

(* An error is found at the first byte after which no token can come any   *)
(* more, and not before; a \u escape is taken to its end before it is      *)
(* judged (json.hpp:6796-7435, 7495-7839).                                 *)
Begins(s) == CASE s[1] = Quote -> BeginsString(s)
               [] s[1] \in Digit \cup {Minus} -> BeginsNumber(s)
               [] \E l \in Literals : s[1] = l[1][1] -> BeginsLiteral(s)
               [] OTHER -> FALSE
ErrorIsPrompt ==
  /\ pc \notin {"returned", "bom", "bom2", "bom3", "space", "comment", "line_comment",
                "comment_text", "comment_star", "hex"} => Begins(Text)
  /\ pc \in {"comment_text", "comment_star"} => \A n \in 3 .. Len(Text) : ~EndsComment(Text, n)
  /\ Found /\ token = "parse_error" /\ current # EOF => Text = <<>> \/ ~Begins(Text)

(* scan() returns, whatever comes (json.hpp:7480-7481).                    *)
Returns == pc # "returned" ~> pc = "returned"
===============================================================================

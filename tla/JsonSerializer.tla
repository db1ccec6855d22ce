----------------------------- MODULE JsonSerializer -----------------------------
(***************************************************************************)
(* The serializer of the JSON library (json.hpp:16369-17285) and the       *)
(* layout of its floats (json.hpp:16134-16320), as functions from values   *)
(* to the bytes they are written as.  The digits of a float (Grisu2) are   *)
(* part of the value.                                                      *)
(*                                                                         *)
(* A record that is passed along holds what the code keeps in members and  *)
(* locals: the output o, the indentation string, the string buffer.        *)
(*                                                                         *)
(* RejectedByteLost and FlushLate are no part of the specification: each   *)
(* is the definition after it with a likely fault, against which a         *)
(* property was tried.                                                     *)
(***************************************************************************)
EXTENDS JsonValue, JsonText

CONSTANTS
  IndentSize,     (* bytes of the indentation string at first: 512         *)
  BufferSize,     (* bytes of the string buffer: 512                       *)
  IntegerBits,    (* of number_integer_t: 64                               *)
  MinExp, MaxExp  (* decimal exponents between which a float is written    *)
                  (* without an exponent: -4 and 15                        *)

ASSUME JsonSerializerAssumption ==
  /\ IndentSize \in Nat \ {0} /\ IntegerBits \in Nat \ {0}
  /\ BufferSize \in Nat /\ BufferSize >= 16     (* 3 bytes of a character, and 13 *)
  /\ MinExp < 0 /\ MaxExp > 0

Handlers == {"strict", "ignore", "replace"}

(* A byte from beyond the end of a buffer.                                 *)
Beyond == -2

-------------------------------------------------------------------------------
(* decode(): the automaton for UTF-8                                       *)

ACCEPT == 0
REJECT == 1

(* The first 256 entries of the table: the classes of bytes.               *)
Class(byte) ==
  CASE byte \in \h00 .. \h7F -> 0
    [] byte \in \h80 .. \h8F -> 1
    [] byte \in \h90 .. \h9F -> 9
    [] byte \in \hA0 .. \hBF -> 7
    [] byte \in \hC2 .. \hDF -> 2
    [] byte = \hE0 -> 10
    [] byte \in (\hE1 .. \hEC) \cup (\hEE .. \hEF) -> 3
    [] byte = \hED -> 4
    [] byte = \hF0 -> 11
    [] byte \in \hF1 .. \hF3 -> 6
    [] byte = \hF4 -> 5
    [] byte \in (\hC0 .. \hC1) \cup (\hF5 .. \hFF) -> 8

(* The others: from each state, the classes that lead on.                  *)
Transition ==
  (0 :> (0 :> 0 @@ 2 :> 2 @@ 3 :> 3 @@ 4 :> 5 @@ 5 :> 8 @@ 6 :> 7 @@ 10 :> 4 @@ 11 :> 6))
  @@ (2 :> [c \in {1, 7, 9} |-> 0]) @@ (3 :> [c \in {1, 7, 9} |-> 2]) @@ (4 :> [c \in {7} |-> 2])
  @@ (5 :> [c \in {1, 9} |-> 2]) @@ (6 :> [c \in {7, 9} |-> 3]) @@ (7 :> [c \in {1, 7, 9} |-> 3])
  @@ (8 :> [c \in {1} |-> 3])

decode(state, codepoint, byte) ==
  LET class == Class(byte)
      next  == IF state \in DOMAIN Transition THEN Transition[state] ELSE <<>>
  IN  [state |-> IF class \in DOMAIN next THEN next[class] ELSE REJECT,
       codepoint |-> IF state # ACCEPT THEN codepoint * 64 + (byte % 64)
                     ELSE IF class > 8 THEN 0 ELSE byte % (2 ^ (8 - class))]

-------------------------------------------------------------------------------
(* dump_escaped(): the record is the state of its loop                     *)

HexText4(n) ==
  LET digit(d) == IF d < 10 THEN Zero + d ELSE Lower(d - 9)
  IN  <<Backslash, Lower(21), digit(n \div 4096), digit((n \div 256) % 16),
        digit((n \div 16) % 16), digit(n % 16)>>

ShortEscape == (8 :> Lower(2)) @@ (HT :> Lower(20)) @@ (LF :> Lower(14)) @@ (12 :> Lower(6))
            @@ (CR :> Lower(18)) @@ (Quote :> Quote) @@ (Backslash :> Backslash)

(* What a character adds to the buffer; its earlier bytes are there        *)
(* already, unless ensure_ascii.                                           *)
Escaped(codepoint, byte, ascii) ==
  CASE codepoint \in DOMAIN ShortEscape -> <<Backslash, ShortEscape[codepoint]>>
    [] codepoint \notin DOMAIN ShortEscape /\ (codepoint <= \h1F \/ (ascii /\ codepoint >= \h7F)) ->
         IF codepoint <= \hFFFF THEN HexText4(codepoint)
         ELSE HexText4(\hD7C0 + codepoint \div 1024) \o HexText4(\hDC00 + (codepoint % 1024))
    [] OTHER -> <<byte>>

Replacement(ascii) == IF ascii THEN HexText4(\hFFFD) ELSE <<\hEF, \hBF, \hBD>>

(* The buffer is written when there might be no place for one more         *)
(* character; used is the most it ever held, with the end of a string that *)
(* snprintf() adds.                                                        *)
FlushLate(l) ==
  LET full == BufferSize - Len(l.buffer) < 12
      kept == IF full THEN <<>> ELSE l.buffer
  IN  [l EXCEPT !.used = IF Len(l.buffer) + 1 > @ THEN Len(l.buffer) + 1 ELSE @,
                !.out = IF full THEN @ \o l.buffer ELSE @,
                !.buffer = kept, !.accepted = Len(kept), !.undumped = 0]
Flushed(l) ==
  LET full == BufferSize - Len(l.buffer) < 13
      kept == IF full THEN <<>> ELSE l.buffer
  IN  [l EXCEPT !.used = IF Len(l.buffer) + 1 > @ THEN Len(l.buffer) + 1 ELSE @,
                !.out = IF full THEN @ \o l.buffer ELSE @,
                !.buffer = kept, !.accepted = Len(kept), !.undumped = 0]

Accepted(l, byte, ascii) ==
  Flushed([l EXCEPT !.buffer = @ \o Escaped(l.codepoint, byte, ascii), !.i = @ + 1])

(* The byte that was rejected is read again, if it did not come first.     *)
RejectedByteLost(l, ascii, handler) ==
  LET back == [l EXCEPT !.buffer = SubSeq(@, 1, l.accepted), !.state = ACCEPT, !.i = @ + 1]
  IN  IF handler = "strict" THEN [l EXCEPT !.thrown = TRUE]
      ELSE IF handler = "replace" THEN Flushed([back EXCEPT !.buffer = @ \o Replacement(ascii)])
      ELSE [back EXCEPT !.undumped = 0]
Rejected(l, ascii, handler) ==
  LET back == [l EXCEPT !.buffer = SubSeq(@, 1, l.accepted), !.state = ACCEPT,
                        !.i = IF l.undumped > 0 THEN @ ELSE @ + 1]
  IN  IF handler = "strict" THEN [l EXCEPT !.thrown = TRUE]
      ELSE IF handler = "replace" THEN Flushed([back EXCEPT !.buffer = @ \o Replacement(ascii)])
      ELSE [back EXCEPT !.undumped = 0]

Incomplete(l, byte, ascii) ==
  [l EXCEPT !.buffer = IF ascii THEN @ ELSE Append(@, byte), !.undumped = @ + 1, !.i = @ + 1]

EscapeStep(l, s, ascii, handler) ==
  LET byte == s[l.i]
      d == decode(l.state, l.codepoint, byte)
      read == [l EXCEPT !.state = d.state, !.codepoint = d.codepoint]
  IN  CASE d.state = ACCEPT -> Accepted(read, byte, ascii)
        [] d.state = REJECT -> Rejected(read, ascii, handler)
        [] OTHER -> Incomplete(read, byte, ascii)

EscapeEnd(l, ascii, handler) ==
  CASE l.state = ACCEPT -> [l EXCEPT !.out = @ \o l.buffer]
    [] l.state # ACCEPT /\ handler = "strict" -> [l EXCEPT !.thrown = TRUE]
    [] l.state # ACCEPT /\ handler = "ignore" -> [l EXCEPT !.out = @ \o SubSeq(l.buffer, 1, l.accepted)]
    [] l.state # ACCEPT /\ handler = "replace" ->
         [l EXCEPT !.out = @ \o SubSeq(l.buffer, 1, l.accepted) \o Replacement(ascii)]

RECURSIVE EscapeLoop(_, _, _, _)
EscapeLoop(l, s, ascii, handler) ==
  IF l.thrown THEN l
  ELSE IF l.i > Len(s) THEN EscapeEnd(l, ascii, handler)
  ELSE EscapeLoop(EscapeStep(l, s, ascii, handler), s, ascii, handler)

dump_escaped(s, ascii, handler) ==
  EscapeLoop([i |-> 1, state |-> ACCEPT, codepoint |-> 0, buffer |-> <<>>, accepted |-> 0,
              undumped |-> 0, out |-> <<>>, thrown |-> FALSE, used |-> 0], s, ascii, handler)

-------------------------------------------------------------------------------
(* dump_integer()                                                          *)

count_digits[x \in Nat] ==
  IF x < 10 THEN 1 ELSE IF x < 100 THEN 2 ELSE IF x < 1000 THEN 3 ELSE IF x < 10000 THEN 4
  ELSE count_digits[x \div 10000] + 4

(* The absolute value, without leaving the type.                           *)
remove_sign(x) ==
  LET minus == -(x + 1)
  IN  (minus % (2 ^ (IntegerBits - 1))) + 1

(* Two digits at a time, from the end.                                     *)
Backward[x \in Nat] ==
  IF x >= 100 THEN Backward[x \div 100] \o <<Zero + (x % 100) \div 10, Zero + (x % 10)>>
  ELSE IF x >= 10 THEN <<Zero + x \div 10, Zero + (x % 10)>>
  ELSE <<Zero + x>>

(* The digits are placed so that they end where count_digits() said.       *)
dump_integer(x) ==
  LET abs_value == IF x < 0 THEN remove_sign(x) ELSE x
      n_chars   == count_digits[abs_value]
      digits    == Backward[abs_value]
      place     == n_chars - Len(digits)
  IN  IF x = 0 THEN <<Zero>>
      ELSE (IF x < 0 THEN <<Minus>> ELSE <<>>)
           \o [n \in 1 .. n_chars |-> IF n - place \in DOMAIN digits THEN digits[n - place] ELSE Beyond]

-------------------------------------------------------------------------------
(* dump_float(), to_chars(), format_buffer()                               *)

Zeros(n) == [i \in 1 .. n |-> Zero]

append_exponent(e) ==
  LET k == IF e < 0 THEN -e ELSE e
  IN  <<IF e < 0 THEN Minus ELSE Plus>>
      \o (CASE k < 10 -> <<Zero, Zero + k>>
            [] k >= 10 /\ k < 100 -> <<Zero + k \div 10, Zero + (k % 10)>>
            [] k >= 100 -> <<Zero + k \div 100, Zero + (k % 100) \div 10, Zero + (k % 10)>>)

(* k digits; the decimal point is after the n-th.                          *)
format_buffer(digits, exponent) ==
  LET k == Len(digits)
      n == k + exponent
  IN  IF k <= n /\ n <= MaxExp THEN digits \o Zeros(n - k) \o <<Point, Zero>>
      ELSE IF 0 < n /\ n <= MaxExp THEN SubSeq(digits, 1, n) \o <<Point>> \o From(digits, n + 1)
      ELSE IF MinExp < n /\ n <= 0 THEN <<Zero, Point>> \o Zeros(-n) \o digits
      ELSE (IF k = 1 THEN digits ELSE <<digits[1], Point>> \o Tail(digits))
           \o <<Lower(5)>> \o append_exponent(n - 1)

to_chars(v) ==
  (IF v.negative THEN <<Minus>> ELSE <<>>)
  \o (IF v.digits = <<>> THEN <<Zero, Point, Zero>> ELSE format_buffer(v.digits, v.exponent))

dump_float(v) == IF v.finite THEN to_chars(v) ELSE NullText

-------------------------------------------------------------------------------
(* dump(): d holds the output, the indentation string, whether an          *)
(* exception was thrown, and the parameters that do not change             *)

Write(d, chars) == IF d.thrown THEN d ELSE [d EXCEPT !.o = @ \o chars]

WriteString(d, s) ==
  LET l == dump_escaped(s, d.ensure_ascii, d.error_handler)
  IN  IF d.thrown THEN d
      ELSE [d EXCEPT !.o = @ \o <<Quote>> \o l.out \o (IF l.thrown THEN <<>> ELSE <<Quote>>),
                     !.thrown = l.thrown]

WriteIndent(d, n) ==
  Write(d, [i \in 1 .. n |-> IF i <= Len(d.indent_string) THEN d.indent_string[i] ELSE Beyond])

(* The string grows once, by spaces.                                       *)
Widened(d, n) ==
  IF Len(d.indent_string) < n
  THEN [d EXCEPT !.indent_string = @ \o [i \in 1 .. Len(@) |-> Blank]] ELSE d

(* Text that is one piece, or several lines if it is printed pretty.       *)
Line(d, pretty, chars, indent) ==
  IF pretty THEN WriteIndent(Write(d, chars \o <<LF>>), indent) ELSE Write(d, chars)

Key(d, k) == Write(WriteString(d, k), IF d.pretty_print THEN <<Colon, Blank>> ELSE <<Colon>>)

WriteBytes(d, bytes) ==
  LET separator == IF d.pretty_print THEN <<Comma, Blank>> ELSE <<Comma>>
  IN  FoldLeft(LAMBDA e, i : Write(e, dump_integer(bytes[i]) \o (IF i < Len(bytes) THEN separator ELSE <<>>)),
               d, [i \in DOMAIN bytes |-> i])

BytesKey   == <<Lower(2), Lower(25), Lower(20), Lower(5), Lower(19)>>
SubtypeKey == <<Lower(19), Lower(21), Lower(2), Lower(20), Lower(25), Lower(16), Lower(5)>>
InQuotes(s) == <<Quote>> \o s \o <<Quote>>
DiscardedText == <<60>> \o [i \in 1 .. 9 |-> <<4, 9, 19, 3, 1, 18, 4, 5, 4>>[i] + 96] \o <<62>>

(* The lines of a container: how far they are indented, its brackets, and  *)
(* what is between two members.                                            *)
Inner(d, indent) == IF d.pretty_print THEN indent + d.indent_step ELSE indent
Opened(d, bracket, indent) ==
  Line(IF d.pretty_print THEN Widened(d, Inner(d, indent)) ELSE d,
       d.pretty_print, <<bracket>>, Inner(d, indent))
Between(d, indent) == Line(d, d.pretty_print, <<Comma>>, Inner(d, indent))
Closed(d, bracket, indent) ==
  Write(IF d.pretty_print THEN WriteIndent(Write(d, <<LF>>), indent) ELSE d, <<bracket>>)

DumpBinary(d, v, indent) ==
  LET colon   == IF d.pretty_print THEN <<Colon, Blank>> ELSE <<Colon>>
      bytes   == WriteBytes(Write(Opened(d, OpenMap, indent), InQuotes(BytesKey) \o colon \o <<OpenList>>),
                            v.bytes)
      subtype == Write(Between(Write(bytes, <<CloseList>>), indent),
                       InQuotes(SubtypeKey) \o colon
                       \o (IF v.subtype = NoSubtype THEN NullText ELSE dump_integer(v.subtype)))
  IN  Closed(subtype, CloseMap, indent)

DumpScalar(d, v) ==
  CASE v.type = "boolean" -> Write(d, IF v.boolean THEN TrueText ELSE FalseText)
    [] v.type \in {"number_integer", "number_unsigned"} -> Write(d, dump_integer(v.number))
    [] v.type = "number_float" -> Write(d, dump_float(v))
    [] v.type = "discarded" -> Write(d, DiscardedText)
    [] v.type = "null" -> Write(d, NullText)

RECURSIVE Dump(_, _, _)

DumpObject(d, v, indent) ==
  LET keys == Keys(v.members)
      member(e, i) == Dump(Key(IF i = 1 THEN e ELSE Between(e, indent), keys[i]),
                           v.members[keys[i]], Inner(d, indent))
  IN  IF keys = <<>> THEN Write(d, <<OpenMap, CloseMap>>)
      ELSE Closed(FoldLeft(member, Opened(d, OpenMap, indent), [i \in DOMAIN keys |-> i]), CloseMap, indent)

DumpArray(d, v, indent) ==
  LET element(e, i) == Dump(IF i = 1 THEN e ELSE Between(e, indent), v.elements[i], Inner(d, indent))
  IN  IF v.elements = <<>> THEN Write(d, <<OpenList, CloseList>>)
      ELSE Closed(FoldLeft(element, Opened(d, OpenList, indent), [i \in DOMAIN v.elements |-> i]),
                  CloseList, indent)

Dump(d, v, indent) ==
  CASE v.type = "object" -> DumpObject(d, v, indent)
    [] v.type = "array"  -> DumpArray(d, v, indent)
    [] v.type = "string" -> WriteString(d, v.string)
    [] v.type = "binary" -> DumpBinary(d, v, indent)
    [] OTHER -> DumpScalar(d, v)

(* basic_json::dump(); the stream operator calls it with the stream's      *)
(* width and fill character.                                               *)
dump(v, indent, indent_char, ensure_ascii, error_handler) ==
  Dump([o |-> <<>>, indent_string |-> [i \in 1 .. IndentSize |-> indent_char], thrown |-> FALSE,
        pretty_print |-> indent >= 0, indent_step |-> IF indent >= 0 THEN indent ELSE 0,
        ensure_ascii |-> ensure_ascii, error_handler |-> error_handler], v, 0)
===============================================================================

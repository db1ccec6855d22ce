------------------------------ MODULE MCJsonFormats ------------------------------
(* A value is written in one of the formats of the library; a form of it, or    *)
(* what is left of it, is read in one of the binary formats.  Both are compared *)
(* with what the format says.                                                   *)
EXTENDS JsonBinaryWriter, JsonBinaryReader, JsonForms

MCMinExp == -4
MCBits   == <<8, 12, 16, 20>>
MCFloats == <<Float(FALSE, <<>>, 0), Float(FALSE, <<49, 53>>, -1), Float(TRUE, <<49>>, -1),
              Infinite(FALSE), NaN>>
MCSingles == {1, 2}

-------------------------------------------------------------------------------
(* What a text says (RFC 8259)                                                  *)

(* The characters of a string in memory.  Bytes that are no UTF-8 are taken     *)
(* together as long as a character can begin with them.                         *)
BeginsCharacter(s) ==
  \E e \in UNION {[1 .. n -> {\h80, \h90, \hBF}] : n \in 0 .. 3} :
    \E f \in Raw(s \o e) : f[1] = Len(s \o e)
RECURSIVE Characters(_, _)
Characters(s, handler) ==
  IF s = <<>> THEN <<>>
  ELSE IF Raw(s) # {} THEN LET f == CHOOSE f \in Raw(s) : TRUE
                           IN  <<f[2]>> \o Characters(From(s, f[1] + 1), handler)
  ELSE LET n == Max({1} \cup {m \in 1 .. Len(s) : m <= 3 /\ BeginsCharacter(SubSeq(s, 1, m))})
       IN  (IF handler = "replace" THEN <<\hFFFD>> ELSE <<>>) \o Characters(From(s, n + 1), handler)

IsBlank(c) == c \in {Blank, HT, LF, CR}
Trimmed(s) ==
  LET ink == {n \in DOMAIN s : ~IsBlank(s[n])}
  IN  IF ink = {} THEN <<>> ELSE SubSeq(s, Min(ink), Max(ink))

(* A number without a fraction, as a value and a power of ten.                  *)
Decimal(s) ==
  LET t == IF s[1] = Minus THEN Tail(s) ELSE s
      e == Min({n \in DOMAIN t : t[n] \in Exponent} \cup {Len(t) + 1})
      point == Min({n \in DOMAIN t : t[n] = Point} \cup {e})
      exponent == IF e > Len(t) THEN 0
                  ELSE IF t[e + 1] = Minus THEN -Value(From(t, e + 2))
                  ELSE Value(SelectSeq(From(t, e + 1), LAMBDA c : c \in Digit))
      RECURSIVE Stripped(_, _)
      Stripped(n, x) == IF n = 0 THEN <<0, 0>> ELSE IF n % 10 = 0 THEN Stripped(n \div 10, x + 1)
                        ELSE <<n, x>>
  IN  <<s[1] = Minus>>
      \o Stripped(Value(SelectSeq(SubSeq(t, 1, e - 1), LAMBDA c : c \in Digit)),
                  exponent - (IF point < e THEN e - 1 - point ELSE 0))

Expected(v) == IF v.digits = <<>> THEN <<v.negative, 0, 0>>
               ELSE <<v.negative>> \o Tail(Decimal(v.digits \o <<Lower(5)>> \o
                      (IF v.exponent < 0 THEN <<Minus>> ELSE <<Plus>>) \o
                      Backward[IF v.exponent < 0 THEN -v.exponent ELSE v.exponent]))

IsStringOf(s, string, handler) ==
  IsString(s) /\ Decoded(Inside(s), TRUE) = Characters(string, handler)

Integers(s) == [i \in DOMAIN s |-> Integer(s[i])]

RECURSIVE Says(_, _, _), SaysList(_, _, _), SaysMembers(_, _, _, _)
Says(text, v, handler) ==
  LET s == Trimmed(text)
  IN  CASE v.type = "null" -> s = NullText
        [] v.type = "boolean" -> s = IF v.boolean THEN TrueText ELSE FalseText
        [] v.type \in {"number_integer", "number_unsigned"} ->
             IsNumber(s) /\ s[Len(s)] \in Digit /\ Point \notin Range(s) /\ Range(s) \cap Exponent = {}
             /\ v.number = IF s[1] = Minus THEN -Value(Tail(s)) ELSE Value(s)
        [] v.type = "number_float" ->
             IF v.finite
             THEN /\ IsNumber(s) /\ Range(s) \cap (Exponent \cup {Point}) # {}
                  /\ Decimal(s) = Expected(v)
             ELSE s = NullText
        [] v.type = "string" -> IsStringOf(s, v.string, handler)
        [] v.type = "array" ->
             /\ s # <<>> /\ s[1] = OpenList /\ s[Len(s)] = CloseList
             /\ SaysList(Inside(s), v.elements, handler)
        [] v.type = "object" ->
             /\ s # <<>> /\ s[1] = OpenMap /\ s[Len(s)] = CloseMap
             /\ SaysMembers(Inside(s), v.members, Keys(v.members), handler)
        [] v.type = "binary" ->
             Says(s, Object((BytesKey :> Array(Integers(v.bytes)))
                      @@ (SubtypeKey :> IF v.subtype = NoSubtype THEN Null ELSE Unsigned(v.subtype))),
                  handler)
SaysList(s, vs, handler) ==
  IF vs = <<>> THEN Trimmed(s) = <<>>
  ELSE IF Len(vs) = 1 THEN Says(s, vs[1], handler)
  ELSE \E n \in DOMAIN s : /\ s[n] = Comma /\ Says(SubSeq(s, 1, n - 1), vs[1], handler)
                           /\ SaysList(From(s, n + 1), Tail(vs), handler)
SaysMembers(s, members, keys, handler) ==
  IF keys = <<>> THEN Trimmed(s) = <<>>
  ELSE \E n \in DOMAIN s, m \in DOMAIN s \cup {Len(s) + 1} :
         /\ n < m /\ s[n] = Colon /\ IF Len(keys) = 1 THEN m > Len(s) ELSE m <= Len(s) /\ s[m] = Comma
         /\ IsStringOf(Trimmed(SubSeq(s, 1, n - 1)), keys[1], handler)
         /\ Says(SubSeq(s, n + 1, m - 1), members[keys[1]], handler)
         /\ Len(keys) > 1 => SaysMembers(From(s, m + 1), members, Tail(keys), handler)

RECURSIVE Strings(_)
Strings(v) ==
  CASE v.type = "string" -> {v.string}
    [] v.type = "array" -> UNION {Strings(v.elements[i]) : i \in DOMAIN v.elements}
    [] v.type = "object" -> DOMAIN v.members \cup UNION {Strings(v.members[k]) : k \in DOMAIN v.members}
    [] OTHER -> {}
Valid(s) == In(Decoded(s, FALSE), Nat)

-------------------------------------------------------------------------------
(* The values                                                                   *)

Bytes == {0, 8, \h1F, Quote, Backslash, \h7F, \h80, \hA0, \hC2, \hE0, \hED, \hF0, \hF4, \hFF}
Samples == UNION {[1 .. n -> Bytes] : n \in 0 .. 2}
           \cup {<<b>> \o s : b \in {\h7F, \hE0, \hEF, \hF0}, s \in [1 .. 3 -> {\h7F, \h80, \hBF, \hF0}]}
           \cup {s \o <<\hF0, \h90, \h8D, \h88, \h1F, \hE2, \h82, \hAC>> :
                   s \in [1 .. 2 -> {8, \h7F, \hC2, \h9F}]}

Numbers == {0, 1, 9, 10, 99, 100, 101, 999, 1000, 9999, 10000, 12345, 99999, 100000, 524287}
Digits == {<<49>>, <<49, 50>>, <<49, 48, 53>>, <<57, 57, 57, 57, 57>>}
Scalars == {Null, Boolean(TRUE), Boolean(FALSE), Infinite(TRUE), Float(TRUE, <<>>, 0)}
  \cup {Integer(n) : n \in Numbers \cup {-m - 1 : m \in Numbers}} \cup {Unsigned(n) : n \in Numbers}
  \cup {Float(s, d, e) : s \in BOOLEAN, d \in Digits, e \in -8 .. 8}
  \cup {Float(FALSE, <<49>>, e) : e \in {-308, -100, -99, 99, 100, 308}}
  \cup {Binary(b, t) : b \in {<<>>, <<0>>, <<255, 7>>}, t \in {NoSubtype, 0, 128}}

A == String(<<97>>)
Nested ==
  LET inner == {Null, A, Array(<<>>), Array(<<A>>), Object(<<>>), Object(<<98>> :> Integer(-1)),
                Binary(<<1, 2>>, 3)}
      Pair(k, v, l, w) == Object((k :> v) @@ (l :> w))
      two == {Array(<<v, w>>) : v \in inner, w \in inner}
             \cup {Pair(<<97>>, v, k, w) : v \in inner, w \in inner, k \in {<<>>, <<97, 0>>, <<Quote>>}}
  IN  inner \cup two \cup {Array(<<Array(<<Array(<<v, v>>)>>)>>) : v \in inner}
      \cup {Object(<<>> :> Object(<<Comma>> :> Array(<<v>>))) : v \in inner}

Options(indents, handlers) ==
  [indent : indents, indent_char : {Blank, HT}, ensure_ascii : BOOLEAN, error_handler : handlers]
TextCases ==
  (({String(s) : s \in Samples} \cup {Object(s :> Null) : s \in {t \in Samples : Len(t) < 2}})
     \X Options({-1}, Handlers))
  \cup (Scalars \X Options({-1}, {"strict"}))
  \cup (Nested \X Options(-1 .. 2, {"strict"}))

BinaryNumbers == {0, 1, 23, 24, 25, 127, 128, 255, 256, 2047, 2048, 4095, 4096, 32767, 32768, 65535,
                  65536, 524287}
Text(n) == [i \in 1 .. n |-> 97]
Nulls(n) == Array([i \in 1 .. n |-> Null])
Atoms ==
  {Null, Boolean(TRUE), Boolean(FALSE)}
  \cup {Integer(n) : n \in BinaryNumbers \cup {-m - 1 : m \in BinaryNumbers} \cup {-32, -33, -34}}
  \cup {Unsigned(n) : n \in BinaryNumbers \cup {524288, 1048575}} \cup Range(MCFloats)
  \cup {String(Text(n)) : n \in {0, 1, 3, 23, 24, 31, 32, 127, 128, 255, 256}}
  \cup {Binary(Text(n), t) : n \in {0, 1, 2, 3, 4, 8, 16, 24, 255, 256}, t \in {NoSubtype, 0, 200}}
  \cup {Nulls(n) : n \in {0, 1, 11, 15, 16, 23, 24, 256}}
Compounds ==
  LET some == {Null, Unsigned(7), Integer(-300), A, Array(<<Boolean(TRUE)>>), Binary(<<9>>, 5), Object(<<>>)}
  IN  {Array(<<v, w>>) : v \in some, w \in some}
      \cup {Object((<<>> :> v) @@ (<<98, 78>> :> w)) : v \in some, w \in some}
      \cup {Object(<<0>> :> Array(<<v>>)) : v \in some}
Wide == {Object([k \in {<<i>> : i \in 1 .. n} |-> Null]) : n \in {15, 16, 24}}
Documents(v) == IF v.type = "object" THEN {v} ELSE {v, Object(<<99>> :> v)}

BinaryFormats == {"cbor", "msgpack", "ubjson", "bson"}
Binaries == Atoms \cup Compounds
UbjsonOptions == {<<FALSE, FALSE>>, <<TRUE, FALSE>>, <<TRUE, TRUE>>}
BinaryCases ==
  ((Binaries \cup Wide) \X {"cbor", "msgpack"} \X {<<>>})
  \cup (Binaries \X {"ubjson"} \X UbjsonOptions)
  \cup ((UNION {Documents(v) : v \in Binaries}) \X {"bson"} \X {<<>>})

VARIABLES value, format, options,      (* what is written, and how              *)
          written,                     (* the output, or the exception          *)
          input, reading, result       (* what is read, how, and what comes out *)
vars == <<value, format, options, written, input, reading, result>>

Nothing == [thrown |-> 0, o |-> <<>>]

Init ==
  /\ \/ \E c \in TextCases : value = c[1] /\ options = c[2] /\ format = "text"
     \/ \E c \in BinaryCases : value = c[1] /\ format = c[2] /\ options = c[3]
  /\ written = Nothing
  /\ input = <<"none">> /\ reading = <<>> /\ result = Nothing

Dumped ==
  /\ format = "text" /\ written = Nothing
  /\ LET d == dump(value, options.indent, options.indent_char, options.ensure_ascii,
                   options.error_handler)
     IN  written' = [thrown |-> IF d.thrown THEN 316 ELSE 0, o |-> d.o]
  /\ UNCHANGED <<value, format, options, input, reading, result>>

Encoded ==
  /\ format # "text" /\ written = Nothing
  /\ written' = CASE format = "cbor" -> to_cbor(value)
                  [] format = "msgpack" -> to_msgpack(value)
                  [] format = "ubjson" -> to_ubjson(value, options[1], options[2])
                  [] format = "bson" -> to_bson(value)
  /\ UNCHANGED <<value, format, options, input, reading, result>>

(* What is read: a form of the value, a part of what was written, or more.      *)
Sent == {<<"whole", f>> : f \in Forms(value, format)}
        \cup {<<"part", SubSeq(written.o, 1, n)>> : n \in {m \in 0 .. Len(written.o) - 1 : m < 40}}
        \cup {<<"more", Append(written.o, b)>> : b \in {0, 65, 255}}

(* Only a value with a tag tells how tags are taken, only what is refused how. *)
IsTagged(v) == \E w \in Within(v) : w.type = "binary" /\ w.subtype # NoSubtype
Readings(kind) ==
  [strict : BOOLEAN, allow_exceptions : IF kind = "whole" THEN {TRUE} ELSE BOOLEAN,
   tags : IF format = "cbor" /\ IsTagged(value) THEN {"error", "ignore", "store"} ELSE {"error"}]

Decoded_ ==
  /\ written # Nothing /\ written.thrown = 0 /\ format # "text" /\ result = Nothing
  /\ input' \in Sent
  /\ reading' \in Readings(input'[1])
  /\ result' = from_binary(input'[2], format, reading'.strict, reading'.allow_exceptions, reading'.tags)
  /\ UNCHANGED <<value, format, options, written>>

Next == Dumped \/ Encoded \/ Decoded_
Spec == Init /\ [][Next]_vars

Finished == written # Nothing

(* What dump() returns is a JSON text that says the value: a string that is no  *)
(* UTF-8 makes it throw, or loses the bytes that are none, or has a U+FFFD for  *)
(* each run of them; infinite floats are null (json.hpp:16425-16935).           *)
DumpSaysValue ==
  format = "text" /\ Finished =>
    /\ written.thrown = 316 <=> options.error_handler = "strict" /\ \E s \in Strings(value) : ~Valid(s)
    /\ written.thrown = 0 => Says(written.o, value, options.error_handler)
    /\ options.ensure_ascii => \A n \in DOMAIN written.o : written.o[n] < 128

(* What is written in a binary format is a form of the value: the lengths of    *)
(* texts, containers and BSON documents are right, and numbers fit what they    *)
(* are written in.  Only BSON refuses values: those that are no objects, names  *)
(* with a null byte, unsigned numbers beyond int64_t (json.hpp:13617-14500,     *)
(* 14507-14835).                                                                *)
EncodesValue ==
  format # "text" /\ Finished /\ input[1] = "none" =>
    IF written.thrown = 0 THEN written.o \in Forms(value, format)
    ELSE /\ format = "bson"
         /\ written.thrown = CASE value.type # "object" -> 317
                               [] value.type = "object" /\ \E k \in Names(value) : 0 \in Range(k) -> 409
                               [] OTHER -> 407

(* Whatever the format, what is written says the value that was given, or the  *)
(* call throws what it should (json.hpp:13617-14835, 16425-16935).              *)
WritesValue == DumpSaysValue /\ EncodesValue

(* The string buffer holds what is put in it (json.hpp:16799-16805, 16870-      *)
(* 16880).                                                                      *)
BufferHolds ==
  format = "text" /\ value.type = "string" =>
    dump_escaped(value.string, options.ensure_ascii, options.error_handler).used <= BufferSize

(* Every form of a value is read as that value, not only the one that is        *)
(* written: all widths of lengths and numbers, strings in pieces, containers    *)
(* with and without a length, typed ones.  A CBOR tag is an error, ignored or   *)
(* stored (json.hpp:8700-10600).                                                *)
DecodesForms ==
  input[1] = "whole" /\ (format = "cbor" /\ IsTagged(value) => reading.tags = "store") =>
    result.thrown = 0 /\ Said(result.value, format) = Said(value, format)

(* Nothing but a whole message is taken for one: a message that is cut anywhere *)
(* gives no value, and in strict mode neither does one with octets after it     *)
(* (json.hpp:8413-8437, 10742-10752).                                           *)
Refused == result.thrown # 0 \/ result.value = Discarded
RefusesParts ==
  /\ input[1] = "part" \/ (input[1] = "more" /\ reading.strict) => Refused
  /\ result.thrown \notin {0, 408} /\ input[1] # "none" => reading.allow_exceptions
===============================================================================

---------------------------- MODULE JsonBinaryReader ----------------------------
(***************************************************************************)
(* binary_reader (json.hpp:8340-10805) with the consumer that builds a     *)
(* value: octets in CBOR, MessagePack, UBJSON and BSON as a value.         *)
(*                                                                         *)
(* The record r that is passed along is the reader: its input, chars_read  *)
(* as n, the character it is at, whether the last function returned true   *)
(* (ok), the first error that was reported, the octets or the number just  *)
(* read, and the value just built.                                         *)
(*                                                                         *)
(* The definitions whose comments say "A fault" are no part of the         *)
(* specification: each is the definition after it with a likely fault,     *)
(* against which a property was tried.                                     *)
(***************************************************************************)
EXTENDS JsonOctets, JsonSerializer

CONSTANT MaxSize      (* greatest number of elements of a container        *)


-------------------------------------------------------------------------------
(* The reader                                                              *)

Eof  == -1
Npos == UnsignedMax(4)            (* size_t(-1): a length that is not known *)

Reader(octets) == [in |-> octets, n |-> 0, current |-> Eof, ok |-> TRUE, error |-> 0,
                   octets |-> <<>>, number |-> 0, value |-> Null]

At(r, n) == [r EXCEPT !.n = n, !.current = IF n <= Len(r.in) THEN r.in[n] ELSE Eof]
Get(r)   == IF r.ok THEN At(r, IF r.n < Len(r.in) THEN r.n + 1 ELSE Len(r.in) + 1) ELSE r
GetIgnoreNoop(r) ==
  LET end == Len(r.in) + 1
  IN  At(r, CHOOSE n \in r.n + 1 .. end + 1 :
              /\ IF n >= end THEN TRUE ELSE r.in[n] # Noop
              /\ \A m \in r.n + 1 .. n - 1 : m < end /\ r.in[m] = Noop)

(* parse_error() of the consumer: the first one is thrown, or remembered.  *)
Fail(r, id) == [r EXCEPT !.ok = FALSE, !.error = IF @ = 0 THEN id ELSE @]
unexpect_eof(r) == IF r.current = Eof THEN Fail(r, 110) ELSE r

(* A function that fails makes its callers return: a reader that failed is *)
(* left as it is.  Anyway is for a caller that does not look.              *)
Then(r, next) == IF r.ok THEN next ELSE r
Anyway(r) == [r EXCEPT !.ok = TRUE]

(* The loops of get_number(), get_string() and get_binary().               *)
Take(r, k) ==
  CASE ~r.ok -> r
    [] r.ok /\ k <= 0 -> [r EXCEPT !.octets = <<>>]
    [] r.ok /\ k > 0 /\ r.n + k > Len(r.in) -> Fail(At(r, Len(r.in) + 1), 110)
    [] OTHER -> [At(r, r.n + k) EXCEPT !.octets = SubSeq(r.in, r.n + 1, r.n + k)]
TakeCounted(r) == Take(r, r.number)

ToNumber(r, w) == Then(r, [r EXCEPT !.number = AsUnsigned(Number(r.octets), w)])
ToSigned(r, w) == [r EXCEPT !.number = AsSigned(@, w)]
Reversed(r)    == [r EXCEPT !.octets = Reverse(@)]

GetNumber(r, w) == ToNumber(Take(r, Octets(w)), w)
GetSigned(r, w) == ToSigned(GetNumber(r, w), w)
(* A fault: the bytes are not reversed.                                    *)
NotReversed(r, w) == GetSigned(r, w)
GetLittle(r, w) == ToSigned(ToNumber(Reversed(Take(r, Octets(w))), w), w)

(* What the consumer is given: the value is built from what was read.      *)
Give(r, v) == [r EXCEPT !.value = v]
GiveUnsigned(r) == Give(r, Unsigned(r.number))
GiveInteger(r)  == Give(r, Integer(r.number))
GiveFloat(r)    == Then(r, Give(r, FloatOf(r.octets)))
GiveString(r)   == Give(r, String(r.octets))
GiveBinary(r)   == Give(r, Binary(r.octets, NoSubtype))
GiveTagged(r)   == Give(r, Binary(r.octets, r.number))

GetFloat(r, size) == GiveFloat(Take(r, size))
GetLittleFloat(r) == GiveFloat(Reversed(Take(r, 8)))

(* start_array() and start_object() of the consumer (json.hpp:6046-6082).  *)
Start(r, len) == IF len # Npos /\ len > MaxSize THEN Fail(r, 408) ELSE r

-------------------------------------------------------------------------------
(* Strings, and what else can be read without recursion                    *)

CborLength(r) ==
  IF r.current % 32 < 24 THEN [r EXCEPT !.number = r.current % 32]
  ELSE GetNumber(r, (r.current % 32) - 23)

RECURSIVE CborOctets(_, _), CborChunks(_, _, _)
CborOctets(r, first) ==
  CASE r.current = Eof -> Fail(r, 110)
    [] r.current \in first .. first + 27 -> TakeCounted(CborLength(r))
    [] r.current = first + 31 -> CborChunks(Get(r), first, <<>>)
    [] OTHER -> Fail(r, 113)
CborChunks(r, first, s) ==
  IF r.current = \hFF THEN [r EXCEPT !.octets = s]
  ELSE LET t == CborOctets(r, first) IN Then(t, CborChunks(Get(t), first, s \o t.octets))

get_cbor_string(r) == CborOctets(r, \h60)
get_cbor_binary(r) == CborOctets(r, \h40)

get_msgpack_string(r) ==
  CASE r.current = Eof -> Fail(r, 110)
    [] r.current \in \hA0 .. \hBF -> Take(r, r.current % 32)
    [] r.current \in \hD9 .. \hDB -> TakeCounted(GetNumber(r, r.current - \hD8))
    [] OTHER -> Fail(r, 113)

WithSubtype(r, len) == GiveTagged(Take(GetNumber(r, 1), len))
get_msgpack_binary(r) ==
  CASE r.current \in \hC4 .. \hC6 -> GiveBinary(TakeCounted(GetNumber(r, r.current - \hC3)))
    [] r.current \in \hC7 .. \hC9 -> LET t == GetNumber(r, r.current - \hC6)
                                     IN  WithSubtype(t, t.number)
    [] r.current \in \hD4 .. \hD8 -> WithSubtype(r, 2 ^ (r.current - \hD4))

UbjsonInteger(r, letter) ==
  IF letter = UInt8 THEN GetNumber(r, 1) ELSE GetSigned(r, UbjsonWidth[letter])

UbjsonText(r) ==
  IF r.current \in DOMAIN UbjsonWidth THEN TakeCounted(UbjsonInteger(r, r.current))
  ELSE Fail(r, 113)
get_ubjson_string(r, get_char) == UbjsonText(unexpect_eof(IF get_char THEN Get(r) ELSE r))

(* A negative length is a great one, and -1 is none.                       *)
UbjsonSize(r) ==
  IF r.current \in DOMAIN UbjsonWidth
  THEN [UbjsonInteger(r, r.current) EXCEPT !.number = AsUnsigned(@, 4)]
  ELSE Fail(r, 113)
get_ubjson_size_value(r) == UbjsonSize(GetIgnoreNoop(r))

(* number is the length, value the type (0: none).                         *)
UbjsonSizeType(r) ==
  LET type == Get(r)
      hash == GetIgnoreNoop(type)
  IN  IF r.current = Dollar
      THEN IF type.current = Eof THEN Fail(type, 110)
           ELSE IF hash.current = Eof THEN Fail(hash, 110)
           ELSE IF hash.current # Hash THEN Fail(hash, 112)
           ELSE Give(get_ubjson_size_value(hash), type.current)
      ELSE IF r.current = Hash THEN Give(get_ubjson_size_value(r), 0)
      ELSE Give([r EXCEPT !.number = Npos], 0)
get_ubjson_size_type(r) == UbjsonSizeType(GetIgnoreNoop(r))

(* The lexer reads the text of a number: white space around it is skipped, *)
(* an integer that is too great is a float.                                *)
Inked(s) ==
  LET ink == {n \in DOMAIN s : s[n] \notin {Blank, HT, LF, CR}}
  IN  IF ink = {} THEN <<>> ELSE SubSeq(s, Min(ink), Max(ink))
NumberFrom(r, s) ==
  CASE s = <<>> \/ ~IsNumber(s) -> Fail(r, 115)
    [] In(s, Digit) -> Give(r, IF Value(s) <= UnsignedMax(4) THEN Unsigned(Value(s)) ELSE NoFloat)
    [] s # <<>> /\ s[1] = Minus /\ In(Tail(s), Digit) ->
         Give(r, IF -Value(Tail(s)) >= SignedMin(4) THEN Integer(-Value(Tail(s))) ELSE NoFloat)
    [] OTHER -> Give(r, NoFloat)
get_ubjson_high_precision_number(r) ==
  LET t == TakeCounted(get_ubjson_size_value(r)) IN Then(t, NumberFrom(t, Inked(t.octets)))

get_bson_cstr(r) ==
  LET ends == {n \in r.n + 1 .. Len(r.in) : r.in[n] = 0}
      end == CHOOSE n \in ends : \A m \in ends : n <= m
  IN  IF ends = {} THEN Fail(At(r, Len(r.in) + 1), 110)
      ELSE [At(r, end) EXCEPT !.octets = SubSeq(r.in, r.n + 1, end - 1)]

(* The length is the number just read.  The last octet of a string is not  *)
(* looked at, but for the end of input, which is not reported.             *)
LastOctet(r) == Then(r, [Get(r) EXCEPT !.ok = r.n < Len(r.in)])
get_bson_string(r) == IF r.number < 1 THEN Fail(r, 112) ELSE LastOctet(Take(r, r.number - 1))
get_bson_binary(r) ==
  Then(r, IF r.number < 0 THEN Fail(r, 112)
          ELSE GiveTagged(Take(Anyway(GetNumber(r, 1)), r.number)))

Half(s) ==
  LET half == 256 * s[1] + s[2]
      negative == half >= \h8000
      exp == (half \div 1024) % 32
      mant == half % 1024
  IN  IF exp = 31 THEN IF mant = 0 THEN Infinite(negative) ELSE NaN
      ELSE [type |-> "number_float", finite |-> TRUE, negative |-> negative,
            significand |-> IF exp = 0 THEN mant ELSE mant + 1024,
            power |-> IF exp = 0 THEN -24 ELSE exp - 25]
GiveHalf(r) == Then(r, Give(r, Half(r.octets)))

-------------------------------------------------------------------------------
(* Values.  m tells the format, how CBOR tags are treated, and the type of *)
(* the elements of the UBJSON container (0: none).  The reader is at the   *)
(* first octet of an item, except that a typed element has no such octet.  *)

RECURSIVE Item(_, _)

Mode(format, tags, type) == [format |-> format, tags |-> tags, type |-> type]
First(r, m) == CASE m.format # "ubjson" -> Get(r)
                 [] m.format = "ubjson" -> IF m.type = 0 THEN GetIgnoreNoop(r) ELSE r
KeyAt(r, m) == CASE m.format = "cbor" -> get_cbor_string(r)
                 [] m.format = "msgpack" -> get_msgpack_string(r)
                 [] m.format = "ubjson" -> get_ubjson_string(r, FALSE)

(* A member: the reader is at the first octet of the key; the value is the *)
(* function with that one member.                                          *)
Named(r, key) == Give(r, key :> r.value)
ItemAfter(r, m) == Then(r, Named(Item(First(r, m), m), r.octets))
KeyAndItem(r, m) == ItemAfter(KeyAt(r, m), m)

RECURSIVE CountedArray(_, _, _, _), CountedObject(_, _, _, _)
CountedArray(r, left, s, m) ==
  CASE ~r.ok -> r
    [] r.ok /\ left = 0 -> Give(r, Array(s))
    [] r.ok /\ left > 0 -> LET e == Item(First(r, m), m)
                           IN  CountedArray(e, left - 1, Append(s, e.value), m)
CountedObject(r, left, members, m) ==
  CASE ~r.ok -> r
    [] r.ok /\ left = 0 -> Give(r, Object(members))
    [] r.ok /\ left > 0 -> LET e == KeyAndItem(Get(r), m)
                           IN  Then(e, CountedObject(e, left - 1, e.value @@ members, m))

RECURSIVE CborArrayToBreak(_, _, _), CborObjectToBreak(_, _, _)
CborArrayToBreak(r, s, m) ==
  IF r.current = \hFF THEN Give(r, Array(s))
  ELSE LET e == Item(r, m) IN Then(e, CborArrayToBreak(Get(e), Append(s, e.value), m))
CborObjectToBreak(r, members, m) ==
  IF r.current = \hFF THEN Give(r, Object(members))
  ELSE LET e == KeyAndItem(r, m) IN Then(e, CborObjectToBreak(Get(e), e.value @@ members, m))

get_cbor_array(r, len, m) ==
  IF len = Npos THEN CborArrayToBreak(Get(r), <<>>, m)
  ELSE CountedArray(Start(r, len), len, <<>>, m)
get_cbor_object(r, len, m) ==
  IF len = Npos THEN CborObjectToBreak(Get(r), <<>>, m)
  ELSE CountedObject(Start(r, len), len, <<>>, m)

(* Tags: the number of a tag is the subtype of a binary value if tags are  *)
(* stored; only a binary value can follow it then.                         *)
CborTag(r, m) ==
  LET wide == r.current \in \hD8 .. \hDB
      t == IF wide THEN Anyway(GetNumber([r EXCEPT !.number = 0], r.current - \hD7)) ELSE r
      binary == get_cbor_binary(Get(t))
  IN  CASE m.tags = "error" -> Fail(r, 112)
        [] m.tags = "ignore" \/ (m.tags = "store" /\ ~wide) -> Item(Get(t), m)
        [] m.tags = "store" /\ wide -> Give(binary, Binary(binary.octets, t.number))

(* A fault: a negative number is its bits, without the one more.           *)
CborNegativeOff(r) == Give(r, Integer(AsSigned(-r.number, 4)))
(* The value is computed in 64 bits, whatever the number.                  *)
CborNegative(r) == Give(r, Integer(AsSigned(-1 - r.number, 4)))

CborText(c) ==
  IF c.current < \h60 THEN GiveBinary(get_cbor_binary(c)) ELSE GiveString(get_cbor_string(c))

CborContainer(c, m) ==
  LET t == CborLength(c)
  IN  CASE c.current \in \h80 .. \h9B -> Then(t, get_cbor_array(t, t.number, m))
        [] c.current = \h9F -> get_cbor_array(c, Npos, m)
        [] c.current \in \hA0 .. \hBB -> Then(t, get_cbor_object(t, t.number, m))
        [] c.current = \hBF -> get_cbor_object(c, Npos, m)

CborSimple(c) ==
  CASE c.current \in {\hF4, \hF5} -> Give(c, Boolean(c.current = \hF5))
    [] c.current = \hF6 -> Give(c, Null)
    [] c.current = \hF9 -> GiveHalf(Take(c, 2))
    [] c.current \in {\hFA, \hFB} -> GetFloat(c, IF c.current = \hFA THEN 4 ELSE 8)
    [] OTHER -> Fail(c, 112)

parse_cbor(c, m) ==
  LET b == c.current
  IN  CASE b = Eof -> Fail(c, 110)
        [] b \in 0 .. \h1B -> GiveUnsigned(CborLength(c))
        [] b \in \h20 .. \h3B -> CborNegative(CborLength(c))
        [] b \in (\h40 .. \h5B) \cup (\h60 .. \h7B) \cup {\h5F, \h7F} -> CborText(c)
        [] b \in (\h80 .. \h9B) \cup (\hA0 .. \hBB) \cup {\h9F, \hBF} -> CborContainer(c, m)
        [] b \in (\hC6 .. \hD4) \cup (\hD8 .. \hDB) -> CborTag(c, m)
        [] OTHER -> CborSimple(c)

get_msgpack_array(r, len) ==
  CountedArray(Start(r, len), len, <<>>, Mode("msgpack", "error", 0))
get_msgpack_object(r, len) ==
  CountedObject(Start(r, len), len, <<>>, Mode("msgpack", "error", 0))

MsgpackText(c) == GiveString(get_msgpack_string(c))

(* Lengths in the first octet.                                             *)
MsgpackFixed(c) ==
  CASE c.current \in \h80 .. \h8F -> get_msgpack_object(c, c.current % 16)
    [] c.current \in \h90 .. \h9F -> get_msgpack_array(c, c.current % 16)
    [] c.current \in \hA0 .. \hBF -> MsgpackText(c)

MsgpackNumber(c) ==
  CASE c.current \in {\hCA, \hCB} -> GetFloat(c, IF c.current = \hCA THEN 4 ELSE 8)
    [] c.current \in \hCC .. \hCF -> GiveUnsigned(GetNumber(c, c.current - \hCB))
    [] c.current \in \hD0 .. \hD3 -> GiveInteger(GetSigned(c, c.current - \hCF))
    [] c.current \in \hE0 .. \hFF -> Give(c, Integer(c.current - 256))

MsgpackContainer(c) ==
  LET array  == GetNumber(c, c.current - \hDA)
      object == GetNumber(c, c.current - \hDC)
  IN  IF c.current < \hDE THEN Then(array, get_msgpack_array(array, array.number))
      ELSE Then(object, get_msgpack_object(object, object.number))

parse_msgpack(c) ==
  LET b == c.current
  IN  CASE b = Eof -> Fail(c, 110)
        [] b \in 0 .. \h7F -> Give(c, Unsigned(b))
        [] b \in \h80 .. \hBF -> MsgpackFixed(c)
        [] b \in \hD9 .. \hDB -> MsgpackText(c)
        [] b = \hC0 -> Give(c, Null)
        [] b \in {\hC2, \hC3} -> Give(c, Boolean(b = \hC3))
        [] b \in (\hC4 .. \hC9) \cup (\hD4 .. \hD8) -> get_msgpack_binary(c)
        [] b \in (\hCA .. \hD3) \cup (\hE0 .. \hFF) -> MsgpackNumber(c)
        [] b \in \hDC .. \hDF -> MsgpackContainer(c)
        [] OTHER -> Fail(c, 112)

-------------------------------------------------------------------------------
(* UBJSON and BSON                                                         *)

RECURSIVE UbjsonArrayToEnd(_, _), UbjsonObjectToEnd(_, _)
(* The reader is at the first octet of the next element, or at the end.    *)
UbjsonArrayToEnd(r, s) ==
  IF r.current = CloseList THEN Give(r, Array(s))
  ELSE LET e == Item(r, Mode("ubjson", "error", 0))
       IN  Then(e, UbjsonArrayToEnd(GetIgnoreNoop(e), Append(s, e.value)))
UbjsonObjectToEnd(r, members) ==
  IF r.current = CloseMap THEN Give(r, Object(members))
  ELSE LET e == KeyAndItem(r, Mode("ubjson", "error", 0))
       IN  Then(e, UbjsonObjectToEnd(GetIgnoreNoop(e), e.value @@ members))

(* number is the length and value the type.  The elements of the type "no  *)
(* operation" take no place and are left out.                              *)
UbjsonElements(r) ==
  CASE ~r.ok -> r
    [] r.ok /\ r.number = Npos -> UbjsonArrayToEnd(r, <<>>)
    [] r.ok /\ r.number # Npos /\ r.value = Noop -> Give(Start(r, r.number), Array(<<>>))
    [] OTHER -> CountedArray(Start(r, r.number), r.number, <<>>, Mode("ubjson", "error", r.value))
UbjsonMembers(r) ==
  CASE ~r.ok -> r
    [] r.ok /\ r.number = Npos -> UbjsonObjectToEnd(r, <<>>)
    [] OTHER -> CountedObject(Start(r, r.number), r.number, <<>>, Mode("ubjson", "error", r.value))
get_ubjson_array(r)  == UbjsonElements(get_ubjson_size_type(r))
get_ubjson_object(r) == UbjsonMembers(get_ubjson_size_type(r))

UbjsonChar(r) ==
  Then(r, IF r.current > 127 THEN Fail(r, 113) ELSE Give(r, String(<<r.current>>)))

get_ubjson_value(r, prefix) ==
  CASE prefix = Eof -> Fail(r, 110)
    [] prefix \in {Upper(20), Upper(6)} -> Give(r, Boolean(prefix = Upper(20)))
    [] prefix = Upper(26) -> Give(r, Null)
    [] prefix = UInt8 -> GiveUnsigned(GetNumber(r, 1))
    [] prefix \in {Int8, Int16, Int32, Int64} -> GiveInteger(GetSigned(r, UbjsonWidth[prefix]))
    [] prefix \in {Lower(4), Upper(4)} -> GetFloat(r, IF prefix = Lower(4) THEN 4 ELSE 8)
    [] prefix = HighPrecision -> get_ubjson_high_precision_number(r)
    [] prefix = Upper(3) -> UbjsonChar(unexpect_eof(Get(r)))
    [] prefix = Upper(19) -> GiveString(get_ubjson_string(r, TRUE))
    [] prefix = OpenList -> get_ubjson_array(r)
    [] prefix = OpenMap -> get_ubjson_object(r)
    [] OTHER -> Fail(r, 112)

Item(r, m) ==
  CASE m.format = "cbor" -> parse_cbor(r, m)
    [] m.format = "msgpack" -> parse_msgpack(r)
    [] m.format = "ubjson" -> get_ubjson_value(r, IF m.type = 0 THEN r.current ELSE m.type)

RECURSIVE parse_bson(_), parse_bson_array(_)
parse_bson_element(r, type) ==
  CASE type = 1 -> GetLittleFloat(r)
    [] type = 2 -> GiveString(get_bson_string(GetLittle(r, 3)))
    [] type = 3 -> parse_bson(r)
    [] type = 4 -> parse_bson_array(r)
    [] type = 5 -> get_bson_binary(GetLittle(r, 3))
    [] type = 8 -> LET t == Get(r) IN Give(t, Boolean(t.current # 0))
    [] type = 10 -> Give(r, Null)
    [] type \in {\h10, \h12} -> GiveInteger(GetLittle(r, IF type = \h10 THEN 3 ELSE 4))
    [] OTHER -> Fail(r, 114)

(* Both kinds of document, as elements and as members; the keys of an      *)
(* array are read and forgotten.  The reader is at the octet of the type.  *)
RECURSIVE parse_bson_element_list(_, _, _)
parse_bson_element_list(r, elements, members) ==
  LET k == get_bson_cstr(unexpect_eof(r))
      e == Then(k, parse_bson_element(k, r.current))
  IN  IF r.current = 0 THEN Give(r, <<elements, members>>)
      ELSE Then(e, parse_bson_element_list(Get(e), Append(elements, e.value),
                                           (k.octets :> e.value) @@ members))

(* The length of a document is read and forgotten.                         *)
BsonDocument(r) == parse_bson_element_list(Get(Anyway(GetLittle(r, 3))), <<>>, <<>>)
parse_bson(r) == LET t == BsonDocument(r) IN Then(t, Give(t, Object(t.value[2])))
parse_bson_array(r) == LET t == BsonDocument(r) IN Then(t, Give(t, Array(t.value[1])))

-------------------------------------------------------------------------------
(* from_cbor() and the others: a value, or the exception; without          *)
(* exceptions, the discarded value                                         *)

(* A fault: input that is left over is ignored.                            *)
NotStrict(r, format, strict) == r
Strict(r, format, strict) ==
  LET end == IF format = "ubjson" THEN GetIgnoreNoop(r) ELSE Get(r)
  IN  IF ~r.ok \/ ~strict THEN r ELSE IF end.current = Eof THEN r ELSE Fail(end, 110)

sax_parse(octets, format, strict, tags) ==
  LET r == Reader(octets)
      m == Mode(format, tags, 0)
  IN  Strict(IF format = "bson" THEN parse_bson(r) ELSE Item(First(r, m), m), format, strict)

(* Too great a length is thrown in any case.                               *)
Returned(r, allow_exceptions) ==
  IF r.error # 0 /\ (allow_exceptions \/ r.error = 408)
  THEN [value |-> Discarded, thrown |-> r.error]
  ELSE [value |-> IF r.ok THEN r.value ELSE Discarded, thrown |-> 0]
from_binary(octets, format, strict, allow_exceptions, tags) ==
  Returned(sax_parse(octets, format, strict, tags), allow_exceptions)
===============================================================================

---------------------------- MODULE JsonBinaryWriter ----------------------------
(***************************************************************************)
(* binary_writer (json.hpp:13580-15215): a value as octets in CBOR,        *)
(* MessagePack, UBJSON and BSON.                                           *)
(*                                                                         *)
(* The definitions whose comments say "A fault" are no part of the         *)
(* specification: each is the definition after it with a likely fault,     *)
(* against which a property was tried.                                     *)
(***************************************************************************)
EXTENDS JsonOctets, JsonSerializer

ASSUME JsonBinaryAssumption == IntegerBits = Bits[4]

Each(s, Write_(_)) == FlattenSeq([i \in DOMAIN s |-> Write_(s[i])])

-------------------------------------------------------------------------------
(* CBOR: the length or the number is in the first octet, or follows it     *)

CborHead(first, n) == IF n <= 23 THEN <<first + n>>
                      ELSE <<first + 23 + Narrowest(n)>> \o BigEndian(n, Narrowest(n))

CborInteger(i) == IF i >= 0 THEN CborHead(0, i)
                  ELSE LET positive_number == -1 - i IN CborHead(\h20, positive_number)
CborUnsigned(n) == CborHead(0, n)

write_compact_float(v, single, double) ==
  IF Exact(v) THEN <<single>> \o FloatOctets(v, 4) ELSE <<double>> \o FloatOctets(v, 8)
CborFloat(v) ==
  CASE v = NaN -> <<\hF9, \h7E, 0>>
    [] v = Infinite(FALSE) -> <<\hF9, \h7C, 0>>
    [] v = Infinite(TRUE) -> <<\hF9, \hFC, 0>>
    [] OTHER -> write_compact_float(v, \hFA, \hFB)

CborString(s) == CborHead(\h60, Len(s)) \o s

(* The tag with a subtype is at least one octet wide.                      *)
CborBinary(v) ==
  LET tag == IF v.subtype = NoSubtype THEN <<>>
             ELSE <<\hD7 + Narrowest(v.subtype)>> \o BigEndian(v.subtype, Narrowest(v.subtype))
  IN  tag \o CborHead(\h40, Len(v.bytes)) \o v.bytes

RECURSIVE write_cbor(_)
CborArray(elements) == CborHead(\h80, Len(elements)) \o Each(elements, write_cbor)
CborObject(members) ==
  LET member(k) == CborString(k) \o write_cbor(members[k])
  IN  CborHead(\hA0, Cardinality(DOMAIN members)) \o Each(Keys(members), member)

write_cbor(v) ==
  CASE v.type = "null" -> <<\hF6>>
    [] v.type = "boolean" -> IF v.boolean THEN <<\hF5>> ELSE <<\hF4>>
    [] v.type = "number_integer" -> CborInteger(v.number)
    [] v.type = "number_unsigned" -> CborUnsigned(v.number)
    [] v.type = "number_float" -> CborFloat(v)
    [] v.type = "string" -> CborString(v.string)
    [] v.type = "array" -> CborArray(v.elements)
    [] v.type = "binary" -> CborBinary(v)
    [] v.type = "object" -> CborObject(v.members)
    [] v.type = "discarded" -> <<>>

-------------------------------------------------------------------------------
(* MessagePack                                                             *)

MsgpackUnsigned(n) == IF n < 128 THEN <<n>>
                      ELSE <<\hCB + Narrowest(n)>> \o BigEndian(n, Narrowest(n))
(* A fault: one number too many.                                           *)
NegativeFixnumWide(i) ==
  IF i >= 0 THEN MsgpackUnsigned(i)
  ELSE IF i >= -33 THEN BigEndian(i, 1)
  ELSE <<\hCF + NarrowestSigned(i)>> \o BigEndian(i, NarrowestSigned(i))
MsgpackInteger(i) ==
  IF i >= 0 THEN MsgpackUnsigned(i)
  ELSE IF i >= -32 THEN BigEndian(i, 1)
  ELSE <<\hCF + NarrowestSigned(i)>> \o BigEndian(i, NarrowestSigned(i))

(* The head of the kinds that have lengths of some widths; a greater       *)
(* length has none.                                                        *)
MsgpackHead(n, fixed, fix, first, widths) ==
  IF n <= fixed THEN <<fix + n>>
  ELSE LET fits == {w \in widths : n <= UnsignedMax(w)}
           w == CHOOSE w \in fits : \A v \in fits : w <= v
           narrowest == CHOOSE v \in widths : \A u \in widths : v <= u
       IN  IF fits = {} THEN <<>> ELSE <<first + w - narrowest>> \o BigEndian(n, w)

MsgpackString(s) == MsgpackHead(Len(s), 31, \hA0, \hD9, 1 .. 3) \o s

Fixext == (1 :> \hD4) @@ (2 :> \hD5) @@ (4 :> \hD6) @@ (8 :> \hD7) @@ (16 :> \hD8)
MsgpackBinary(v) ==
  LET n == Len(v.bytes)
      use_ext == v.subtype # NoSubtype
      head == IF use_ext /\ n \in DOMAIN Fixext THEN <<Fixext[n]>>
              ELSE MsgpackHead(n, -1, 0, IF use_ext THEN \hC7 ELSE \hC4, 1 .. 3)
  IN  head \o (IF use_ext THEN BigEndian(v.subtype, 1) ELSE <<>>) \o v.bytes

RECURSIVE write_msgpack(_)
MsgpackArray(elements) ==
  MsgpackHead(Len(elements), 15, \h90, \hDC, 2 .. 3) \o Each(elements, write_msgpack)
MsgpackObject(members) ==
  LET member(k) == MsgpackString(k) \o write_msgpack(members[k])
  IN  MsgpackHead(Cardinality(DOMAIN members), 15, \h80, \hDE, 2 .. 3) \o Each(Keys(members), member)

write_msgpack(v) ==
  CASE v.type = "null" -> <<\hC0>>
    [] v.type = "boolean" -> IF v.boolean THEN <<\hC3>> ELSE <<\hC2>>
    [] v.type = "number_integer" -> MsgpackInteger(v.number)
    [] v.type = "number_unsigned" -> MsgpackUnsigned(v.number)
    [] v.type = "number_float" -> write_compact_float(v, \hCA, \hCB)
    [] v.type = "string" -> MsgpackString(v.string)
    [] v.type = "array" -> MsgpackArray(v.elements)
    [] v.type = "binary" -> MsgpackBinary(v)
    [] v.type = "object" -> MsgpackObject(v.members)
    [] v.type = "discarded" -> <<>>

-------------------------------------------------------------------------------
(* UBJSON: letters for types; count says that containers have their        *)
(* lengths, types that those of one type have it once                      *)

(* The type a number is written with.                                      *)
UbjsonLetter(n) ==
  CASE n \in SignedMin(1) .. SignedMax(1) -> Int8
    [] n \in SignedMax(1) + 1 .. UnsignedMax(1) -> UInt8
    [] n \notin SignedMin(1) .. UnsignedMax(1) /\ SignedMin(2) <= n /\ n <= SignedMax(2) -> Int16
    [] (n < SignedMin(2) \/ n > SignedMax(2)) /\ SignedMin(3) <= n /\ n <= SignedMax(3) -> Int32
    [] (n < SignedMin(3) \/ n > SignedMax(3)) /\ SignedMin(4) <= n /\ n <= SignedMax(4) -> Int64
    [] n > SignedMax(4) -> HighPrecision

(* The length of the text of a number has a type, too.                     *)
RECURSIVE UbjsonNumber(_, _)
UbjsonNumber(n, add_prefix) ==
  LET letter == UbjsonLetter(n)
      text == dump_integer(n)
  IN  (IF add_prefix THEN <<letter>> ELSE <<>>)
      \o (IF letter = HighPrecision THEN UbjsonNumber(Len(text), TRUE) \o text
          ELSE BigEndian(n, UbjsonWidth[letter]))

ubjson_prefix(v) ==
  CASE v.type = "null" -> Upper(26)
    [] v.type = "boolean" -> IF v.boolean THEN Upper(20) ELSE Upper(6)
    [] v.type \in {"number_integer", "number_unsigned"} -> UbjsonLetter(v.number)
    [] v.type = "number_float" -> Upper(4)
    [] v.type = "string" -> Upper(19)
    [] v.type \in {"array", "binary"} -> OpenList
    [] v.type = "object" -> OpenMap
    [] v.type = "discarded" -> Noop

UbjsonString(s) == UbjsonNumber(Len(s), TRUE) \o s

(* The type of the elements, if it is one and is to be written.            *)
SamePrefix(vs, o) ==
  IF o.use_type /\ vs # <<>> /\ \A i \in DOMAIN vs : ubjson_prefix(vs[i]) = ubjson_prefix(vs[1])
  THEN <<Dollar, ubjson_prefix(vs[1])>> ELSE <<>>
UbjsonCount(n, o) == IF o.use_count THEN <<Hash>> \o UbjsonNumber(n, TRUE) ELSE <<>>
UbjsonEnd(bracket, o) == IF o.use_count THEN <<>> ELSE <<bracket>>

RECURSIVE write_ubjson(_, _, _)
UbjsonArray(elements, o) ==
  LET type == SamePrefix(elements, o)
      element(v) == write_ubjson(v, o, type = <<>>)
  IN  type \o UbjsonCount(Len(elements), o) \o Each(elements, element) \o UbjsonEnd(CloseList, o)

UbjsonBinary(bytes, o) ==
  LET octet(b) == IF o.use_type THEN <<b>> ELSE <<UInt8, b>>
  IN  (IF o.use_type /\ bytes # <<>> THEN <<Dollar, UInt8>> ELSE <<>>)
      \o UbjsonCount(Len(bytes), o) \o Each(bytes, octet) \o UbjsonEnd(CloseList, o)

UbjsonObject(members, o) ==
  LET keys == Keys(members)
      type == SamePrefix([i \in DOMAIN keys |-> members[keys[i]]], o)
      member(k) == UbjsonString(k) \o write_ubjson(members[k], o, type = <<>>)
  IN  type \o UbjsonCount(Len(keys), o) \o Each(keys, member) \o UbjsonEnd(CloseMap, o)

write_ubjson(v, o, add_prefix) ==
  LET prefix == IF add_prefix /\ v.type # "discarded" THEN <<ubjson_prefix(v)>> ELSE <<>>
  IN  prefix \o
      CASE v.type \in {"null", "boolean", "discarded"} -> <<>>
        [] v.type \in {"number_integer", "number_unsigned"} -> UbjsonNumber(v.number, FALSE)
        [] v.type = "number_float" -> FloatOctets(v, 8)
        [] v.type = "string" -> UbjsonString(v.string)
        [] v.type = "array" -> UbjsonArray(v.elements, o)
        [] v.type = "binary" -> UbjsonBinary(v.bytes, o)
        [] v.type = "object" -> UbjsonObject(v.members, o)

-------------------------------------------------------------------------------
(* BSON: a document begins with its length, which is computed first        *)

BsonString == 2
header_size(name) == 1 + Len(name) + 1
calc_bson_string_size(s) == Octets(3) + Len(s) + 1
calc_bson_integer_size(i) == IF SignedMin(3) <= i /\ i <= SignedMax(3) THEN Octets(3) ELSE Octets(4)
calc_bson_unsigned_size(n) == IF n <= SignedMax(3) THEN Octets(3) ELSE Octets(4)
calc_bson_binary_size(bytes) == Octets(3) + Len(bytes) + 1

Sum_(s, Size(_)) == FoldLeft(LAMBDA n, x : n + Size(x), 0, s)

(* The names of the elements of an array: their indexes.                   *)
Index(i) == dump_integer(i - 1)

RECURSIVE calc_bson_element_size(_, _)
(* A fault: every index is taken to have one digit.                        *)
IndexesHaveOneDigit(elements) ==
  LET size(i) == calc_bson_element_size(<<Zero>>, elements[i])
  IN  Octets(3) + Sum_([i \in DOMAIN elements |-> i], size) + 1
calc_bson_array_size(elements) ==
  LET size(i) == calc_bson_element_size(Index(i), elements[i])
  IN  Octets(3) + Sum_([i \in DOMAIN elements |-> i], size) + 1
calc_bson_object_size(members) ==
  LET size(k) == calc_bson_element_size(k, members[k])
  IN  Octets(3) + Sum_(Keys(members), size) + 1
calc_bson_element_size(name, v) ==
  header_size(name) +
  CASE v.type = "object" -> calc_bson_object_size(v.members)
    [] v.type = "array" -> calc_bson_array_size(v.elements)
    [] v.type = "binary" -> calc_bson_binary_size(v.bytes)
    [] v.type = "boolean" -> 1
    [] v.type = "number_float" -> 8
    [] v.type = "number_integer" -> calc_bson_integer_size(v.number)
    [] v.type = "number_unsigned" -> calc_bson_unsigned_size(v.number)
    [] v.type = "string" -> calc_bson_string_size(v.string)
    [] v.type = "null" -> 0

BsonInteger(i) == IF SignedMin(3) <= i /\ i <= SignedMax(3) THEN LittleEndian(i, 3) ELSE LittleEndian(i, 4)
BsonUnsigned(n) == IF n <= SignedMax(3) THEN LittleEndian(n, 3) ELSE LittleEndian(n, 4)
BsonText(s) == LittleEndian(Len(s) + 1, 3) \o s \o <<0>>
(* A binary without a subtype gets the subtype 0.                          *)
BsonBinary(v) == LittleEndian(Len(v.bytes), 3)
                 \o <<IF v.subtype = NoSubtype THEN 0 ELSE AsUnsigned(v.subtype, 1)>> \o v.bytes

BsonType(v) ==
  CASE v.type = "number_float" -> 1
    [] v.type = "string" -> BsonString
    [] v.type = "object" -> 3
    [] v.type = "array" -> 4
    [] v.type = "binary" -> 5
    [] v.type = "boolean" -> 8
    [] v.type = "null" -> 10
    [] v.type \in {"number_integer", "number_unsigned"} ->
         IF v.number \in SignedMin(3) .. SignedMax(3) THEN \h10 ELSE \h12

RECURSIVE write_bson_element(_, _)
BsonArray(elements) ==
  LET element(i) == write_bson_element(Index(i), elements[i])
  IN  LittleEndian(calc_bson_array_size(elements), 3)
      \o Each([i \in DOMAIN elements |-> i], element) \o <<0>>
BsonObject(members) ==
  LET element(k) == write_bson_element(k, members[k])
  IN  LittleEndian(calc_bson_object_size(members), 3) \o Each(Keys(members), element) \o <<0>>
write_bson_element(name, v) ==
  <<BsonType(v)>> \o name \o <<0>> \o
  CASE v.type = "object" -> BsonObject(v.members)
    [] v.type = "array" -> BsonArray(v.elements)
    [] v.type = "binary" -> BsonBinary(v)
    [] v.type = "boolean" -> <<IF v.boolean THEN 1 ELSE 0>>
    [] v.type = "number_float" -> Reverse(FloatOctets(v, 8))
    [] v.type = "number_integer" -> BsonInteger(v.number)
    [] v.type = "number_unsigned" -> BsonUnsigned(v.number)
    [] v.type = "string" -> BsonText(v.string)
    [] v.type = "null" -> <<>>

(* The values and the names within a value.                                *)
RECURSIVE Within(_)
Within(v) == {v} \cup CASE v.type = "array" -> UNION {Within(v.elements[i]) : i \in DOMAIN v.elements}
                        [] v.type = "object" -> UNION {Within(v.members[k]) : k \in DOMAIN v.members}
                        [] v.type \notin {"array", "object"} -> {}
Names(v) == UNION {DOMAIN o.members : o \in {w \in Within(v) : w.type = "object"}}

-------------------------------------------------------------------------------
(* to_cbor() and the others: the octets, or the exception                  *)

Written(octets) == [o |-> octets, thrown |-> 0]
Throws(id)      == [o |-> <<>>, thrown |-> id]

to_cbor(v)       == Written(write_cbor(v))
to_msgpack(v)    == Written(write_msgpack(v))
to_ubjson(v, use_count, use_type) ==
  Written(write_ubjson(v, [use_count |-> use_count, use_type |-> use_type], TRUE))

(* The names are looked at when the size of the document is computed, an   *)
(* unsigned number when it is written.                                     *)
to_bson(v) ==
  IF v.type # "object" THEN Throws(317)
  ELSE IF \E k \in Names(v) : NUL \in Range(k) THEN Throws(409)
  ELSE IF \E w \in Within(v) : w.type = "number_unsigned" /\ w.number > SignedMax(4) THEN Throws(407)
  ELSE Written(BsonObject(v.members))
===============================================================================

-------------------------------- MODULE JsonForms --------------------------------
(***************************************************************************)
(* What CBOR (RFC 7049), MessagePack, UBJSON and BSON allow a value to be  *)
(* written as, without a reader or a writer: one form of it for each       *)
(* style.  The models of the writer and of the reader are compared with    *)
(* this.  The style of a value and that of its parts may differ.           *)
(***************************************************************************)
EXTENDS JsonOctets, FiniteSetsExt

Whole == {"number_integer", "number_unsigned"}

(* wide: numbers and lengths are in the type of that width, if that is not *)
(* too narrow (0: the shortest form).  back: members are in the other      *)
(* order.  layout: of containers and CBOR strings; "open" ones have no     *)
(* length and an end, "typed" ones have the type of all elements.  odd:    *)
(* the form that is used seldom: pieces of strings, characters, numbers as *)
(* text, int64 for small numbers, "no operation" before an element.        *)
Styles ==
  [wide : {0, 1, 4}, back : BOOLEAN, layout : {"counted", "open", "typed"}, odd : BOOLEAN]

WidthFor(n, st)  == IF st.wide > Narrowest(n) THEN st.wide ELSE Narrowest(n)
SignedWidth(n, st) ==
  Min({w \in Widths : SignedMin(w) <= n /\ n <= SignedMax(w) /\ w >= st.wide})
KeysFor(members, st) == IF st.back THEN Reverse(Keys(members)) ELSE Keys(members)
Rows(s, F(_)) == FlattenSeq([i \in DOMAIN s |-> F(s[i])])

-------------------------------------------------------------------------------
CborHeadForm(major, n, st) ==
  IF n < 24 /\ st.wide = 0 THEN <<32 * major + n>>
  ELSE <<32 * major + 23 + WidthFor(n, st)>> \o BigEndian(n, WidthFor(n, st))

CborTextForm(major, s, st) ==
  LET piece(t) == CborHeadForm(major, Len(t), st) \o t
      middle == Len(s) \div 2
  IN  IF st.layout # "open" THEN piece(s)
      ELSE <<32 * major + 31>>
           \o (IF st.odd THEN piece(SubSeq(s, 1, middle)) \o piece(SubSeq(s, middle + 1, Len(s)))
               ELSE IF s = <<>> THEN <<>> ELSE piece(s))
           \o <<\hFF>>

RECURSIVE CborForm(_, _, _)
CborForm(v, st, inner) ==
  LET part(w) == CborForm(w, inner, inner)
      member(k) == CborTextForm(3, k, inner) \o part(v.members[k])
      contained(major, n, parts) ==
        IF st.layout = "open" THEN <<32 * major + 31>> \o parts \o <<\hFF>>
        ELSE CborHeadForm(major, n, st) \o parts
  IN  CASE v.type = "null" -> <<\hF6>>
        [] v.type = "boolean" -> <<IF v.boolean THEN \hF5 ELSE \hF4>>
        [] v.type \in Whole -> IF v.number >= 0 THEN CborHeadForm(0, v.number, st)
                               ELSE CborHeadForm(1, -1 - v.number, st)
        [] v.type = "number_float" ->
             IF v = NaN THEN <<\hF9, \h7E, 0>>
             ELSE IF ~v.finite THEN <<\hF9, IF v.negative THEN \hFC ELSE \h7C, 0>>
             ELSE IF Exact(v) /\ st.wide < 4 THEN <<\hFA>> \o FloatOctets(v, 4)
             ELSE <<\hFB>> \o FloatOctets(v, 8)
        [] v.type = "string" -> CborTextForm(3, v.string, st)
        [] v.type = "binary" ->
             (IF v.subtype = NoSubtype THEN <<>>
              ELSE CborHeadForm(6, v.subtype, [st EXCEPT !.wide = IF @ = 0 THEN 1 ELSE @]))
             \o CborTextForm(2, v.bytes, st)
        [] v.type = "array" -> contained(4, Len(v.elements), Rows(v.elements, part))
        [] v.type = "object" ->
             contained(5, Cardinality(DOMAIN v.members), Rows(KeysFor(v.members, st), member))

-------------------------------------------------------------------------------
(* first has the first octet for each width of a length there is.          *)
MsgpackLengthForm(n, first, fixed, limit, st) ==
  LET fits == {w \in DOMAIN first : n <= UnsignedMax(w)}
      w == IF st.wide = 0 THEN Min(fits) ELSE Max(fits)
  IN  IF n <= limit /\ st.wide = 0 THEN <<fixed + n>> ELSE <<first[w]>> \o BigEndian(n, w)
MsgpackTextForm(s, st) ==
  MsgpackLengthForm(Len(s), (1 :> \hD9) @@ (2 :> \hDA) @@ (3 :> \hDB), \hA0, 31, st) \o s

RECURSIVE MsgpackForm(_, _, _)
MsgpackForm(v, st, inner) ==
  LET part(w) == MsgpackForm(w, inner, inner)
      member(k) == MsgpackTextForm(k, inner) \o part(v.members[k])
      n == Len(v.bytes)
      lengths(first) == [w \in 1 .. 3 |-> first + w]
  IN  CASE v.type = "null" -> <<\hC0>>
        [] v.type = "boolean" -> <<IF v.boolean THEN \hC3 ELSE \hC2>>
        [] v.type \in Whole ->
             IF v.number \in -32 .. 127 /\ st.wide = 0 THEN <<v.number % 256>>
             ELSE IF v.number < 0 \/ (st.odd /\ v.number <= SignedMax(4))
             THEN <<\hCF + SignedWidth(v.number, st)>> \o BigEndian(v.number, SignedWidth(v.number, st))
             ELSE <<\hCB + WidthFor(v.number, st)>> \o BigEndian(v.number, WidthFor(v.number, st))
        [] v.type = "number_float" -> IF Exact(v) /\ st.wide < 4 THEN <<\hCA>> \o FloatOctets(v, 4)
                                      ELSE <<\hCB>> \o FloatOctets(v, 8)
        [] v.type = "string" -> MsgpackTextForm(v.string, st)
        [] v.type = "binary" /\ v.subtype = NoSubtype ->
             MsgpackLengthForm(n, lengths(\hC3), 0, -1, st) \o v.bytes
        [] v.type = "binary" /\ v.subtype # NoSubtype ->
             (IF n \in {1, 2, 4, 8, 16} /\ st.wide = 0
              THEN <<\hD4 + (CHOOSE k \in 0 .. 4 : 2 ^ k = n)>>
              ELSE MsgpackLengthForm(n, lengths(\hC6), 0, -1, st)) \o <<v.subtype>> \o v.bytes
        [] v.type = "array" ->
             MsgpackLengthForm(Len(v.elements), (2 :> \hDC) @@ (3 :> \hDD), \h90, 15, st)
             \o Rows(v.elements, part)
        [] v.type = "object" ->
             MsgpackLengthForm(Cardinality(DOMAIN v.members), (2 :> \hDE) @@ (3 :> \hDF), \h80, 15, st)
             \o Rows(KeysFor(v.members, st), member)

-------------------------------------------------------------------------------
(* UBJSON: a letter and what follows it                                    *)

RECURSIVE DecimalText(_)
DecimalText(n) == IF n < 0 THEN <<Minus>> \o DecimalText(-n)
                  ELSE (IF n < 10 THEN <<>> ELSE DecimalText(n \div 10)) \o <<Zero + (n % 10)>>

(* Bytes are signed if they can be; those in the odd style are not.        *)
UbjsonNumberLetter(n, st) ==
  IF n > SignedMax(4) \/ (st.odd /\ st.wide = 4) THEN HighPrecision
  ELSE IF n \in 0 .. 255 /\ st.wide < 2 /\ (st.odd \/ n > 127) THEN UInt8
  ELSE <<Int8, Int16, Int32, Int64>>[SignedWidth(n, st)]
UbjsonLengthForm(n, st) ==
  LET letter == UbjsonNumberLetter(n, [st EXCEPT !.odd = @ /\ st.wide # 4])
  IN  <<letter>> \o BigEndian(n, UbjsonWidth[letter])
UbjsonTextForm(s, st) == UbjsonLengthForm(Len(s), st) \o s
UbjsonNumberForm(n, letter, st) == IF letter = HighPrecision THEN UbjsonTextForm(DecimalText(n), st)
                                   ELSE BigEndian(n, UbjsonWidth[letter])

RECURSIVE UbjsonPair(_, _, _)
UbjsonPair(v, st, inner) ==
  LET pair(w) == UbjsonPair(w, inner, inner)
      keys == KeysFor(v.members, st)
      (* heads come before the elements, noops before those of an array.    *)
      contained(vs, heads, noop, last) ==
        LET pairs == [i \in DOMAIN vs |-> pair(vs[i])]
            typed == st.layout = "typed" /\ pairs # <<>> /\ \A i \in DOMAIN vs : pairs[i][1] = pairs[1][1]
            element(i) == noop \o heads[i] \o (IF typed THEN <<>> ELSE <<pairs[i][1]>>) \o pairs[i][2]
            elements == Rows([i \in DOMAIN vs |-> i], element)
        IN  CASE typed -> <<Dollar, pairs[1][1], Hash>> \o UbjsonLengthForm(Len(vs), st) \o elements
              [] ~typed /\ st.layout = "open" -> elements \o <<last>>
              [] ~typed /\ st.layout # "open" -> <<Hash>> \o UbjsonLengthForm(Len(vs), st) \o elements
  IN  CASE v.type = "null" -> <<Upper(26), <<>>>>
        [] v.type = "boolean" -> <<IF v.boolean THEN Upper(20) ELSE Upper(6), <<>>>>
        [] v.type \in Whole ->
             LET letter == UbjsonNumberLetter(v.number, st)
             IN  <<letter, UbjsonNumberForm(v.number, letter, st)>>
        [] v.type = "number_float" -> IF Exact(v) /\ st.odd THEN <<Lower(4), FloatOctets(v, 4)>>
                                      ELSE <<Upper(4), FloatOctets(v, 8)>>
        [] v.type = "string" -> IF st.odd /\ Len(v.string) = 1 /\ v.string[1] < 128
                                THEN <<Upper(3), v.string>>
                                ELSE <<Upper(19), UbjsonTextForm(v.string, st)>>
        [] v.type = "binary" ->
             LET element(b) == <<UInt8, b>>
                 elements == IF st.layout = "typed" THEN v.bytes ELSE Rows(v.bytes, element)
             IN  <<OpenList, CASE st.layout = "open" -> elements \o <<CloseList>>
                               [] st.layout = "typed" /\ v.bytes # <<>> ->
                                    <<Dollar, UInt8, Hash>> \o UbjsonLengthForm(Len(v.bytes), st) \o elements
                               [] OTHER -> <<Hash>> \o UbjsonLengthForm(Len(v.bytes), st) \o elements>>
        [] v.type = "array" ->
             <<OpenList, contained(v.elements, [i \in DOMAIN v.elements |-> <<>>],
                                   IF st.odd /\ st.layout = "open" THEN <<Noop>> ELSE <<>>, CloseList)>>
        [] v.type = "object" ->
             <<OpenMap, contained([i \in DOMAIN keys |-> v.members[keys[i]]],
                                  [i \in DOMAIN keys |-> UbjsonTextForm(keys[i], inner)], <<>>, CloseMap)>>
UbjsonForm(v, st, inner) == LET p == UbjsonPair(v, st, inner) IN <<p[1]>> \o p[2]

-------------------------------------------------------------------------------
(* BSON: documents with their lengths                                      *)

Sized(s) == LittleEndian(Octets(3) + Len(s) + 1, 3) \o s \o <<0>>
RECURSIVE BsonElementForm(_, _, _, _)
BsonMembers(members, st, inner) ==
  LET member(k) == BsonElementForm(k, members[k], inner, inner)
  IN  Sized(Rows(KeysFor(members, st), member))
BsonElementForm(name, v, st, inner) ==
  LET element(i) == BsonElementForm(DecimalText(i - 1), v.elements[i], inner, inner)
      Of(type, payload) == <<type>> \o name \o <<0>> \o payload
  IN  CASE v.type = "null" -> Of(10, <<>>)
        [] v.type = "boolean" -> Of(8, <<IF v.boolean THEN 1 ELSE 0>>)
        [] v.type \in Whole ->
             IF st.wide = 4 \/ v.number < SignedMin(3) \/ v.number > SignedMax(3)
             THEN Of(\h12, LittleEndian(v.number, 4)) ELSE Of(\h10, LittleEndian(v.number, 3))
        [] v.type = "number_float" -> Of(1, Reverse(FloatOctets(v, 8)))
        [] v.type = "string" -> Of(2, LittleEndian(Len(v.string) + 1, 3) \o v.string \o <<0>>)
        [] v.type = "binary" ->
             Of(5, LittleEndian(Len(v.bytes), 3)
                   \o <<IF v.subtype = NoSubtype THEN 0 ELSE v.subtype>> \o v.bytes)
        [] v.type = "array" -> Of(4, Sized(Rows([i \in DOMAIN v.elements |-> i], element)))
        [] v.type = "object" -> Of(3, BsonMembers(v.members, st, inner))

Form(v, format, st, inner) ==
  CASE format = "cbor" -> CborForm(v, st, inner)
    [] format = "msgpack" -> MsgpackForm(v, st, inner)
    [] format = "ubjson" -> UbjsonForm(v, st, inner)
    [] format = "bson" -> BsonMembers(v.members, st, inner)

StylesOf(format) ==
  {st \in Styles :
     CASE format = "cbor" -> st.layout \in {"counted", "open"} /\ (st.odd => st.layout = "open")
       [] format = "msgpack" -> st.layout = "counted"
       [] format = "ubjson" -> st.back => st.wide = 0
       [] format = "bson" -> st.layout = "counted" /\ ~st.odd /\ st.wide \in {0, 4}}
Forms(v, format) ==
  LET inside == IF v.type \in {"array", "object"} THEN StylesOf(format) ELSE {}
  IN  {Form(v, format, st, st) : st \in StylesOf(format)}
      \cup {Form(v, format, st, in) : st \in {s \in StylesOf(format) : ~s.back}, in \in {s \in inside : ~s.back}}

(* The value, as far as the format can say it: a number that is not        *)
(* negative has no type, UBJSON has no binary values, and BSON no binary   *)
(* value without a subtype.                                                *)
RECURSIVE Said(_, _)
Said(v, format) ==
  CASE v.type \in Whole -> IF v.number >= 0 THEN Unsigned(v.number) ELSE Integer(v.number)
    [] v.type = "binary" /\ format = "ubjson" -> Array([i \in DOMAIN v.bytes |-> Unsigned(v.bytes[i])])
    [] v.type = "binary" /\ format = "bson" /\ v.subtype = NoSubtype -> Binary(v.bytes, 0)
    [] v.type = "array" -> Array([i \in DOMAIN v.elements |-> Said(v.elements[i], format)])
    [] v.type = "object" -> Object([k \in DOMAIN v.members |-> Said(v.members[k], format)])
    [] OTHER -> v
===============================================================================

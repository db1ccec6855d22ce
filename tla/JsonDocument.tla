------------------------------ MODULE JsonDocument ------------------------------
(***************************************************************************)
(* JSON in tokens (RFC 8259): which sequences of them are a document and   *)
(* which can become one, read from the grammar without stacks, without a   *)
(* state and without a tree.  The parser's model is compared with this.  A *)
(* token is its type, under the name it has in json.hpp.                   *)
(***************************************************************************)
EXTENDS Integers, Sequences

Simple == {"literal_true", "literal_false", "literal_null", "value_unsigned", "value_integer",
           "value_float", "value_string"}

Type(s, n) == IF n \in DOMAIN s THEN s[n] ELSE "nothing"

(* The place after the value, the elements or the members, with the        *)
(* bracket at their end, that start at place n of s; 0 if there are none.  *)
After(s) ==
  LET after[x \in {"value", "elements", "members"} \X (1 .. Len(s) + 1)] ==
        LET n == x[2]
            (* The rest of a list, after one of its values.                *)
            Rest(m, end, list) ==
              IF m # 0 /\ Type(s, m) = end THEN m + 1
              ELSE IF m # 0 /\ Type(s, m) = "value_separator" THEN after[<<list, m + 1>>]
              ELSE 0
        IN  CASE x[1] = "value" /\ Type(s, n) \in Simple -> n + 1
              [] x[1] = "value" /\ Type(s, n) = "begin_array" ->
                   IF Type(s, n + 1) = "end_array" THEN n + 2 ELSE after[<<"elements", n + 1>>]
              [] x[1] = "value" /\ Type(s, n) = "begin_object" ->
                   IF Type(s, n + 1) = "end_object" THEN n + 2 ELSE after[<<"members", n + 1>>]
              [] x[1] = "elements" -> Rest(after[<<"value", n>>], "end_array", "elements")
              [] x[1] = "members" /\ Type(s, n) = "value_string" /\ Type(s, n + 1) = "name_separator" ->
                   Rest(after[<<"value", n + 2>>], "end_object", "members")
              [] OTHER -> 0
  IN  after

IsDocument(s) == After(s)[<<"value", 1>>] = Len(s) + 1

(* The ends of what is open after s, innermost first.                      *)
Brackets(s) ==
  LET open[n \in 0 .. Len(s)] ==
        IF n = 0 THEN <<>>
        ELSE IF s[n] = "begin_array" THEN <<"end_array">> \o open[n - 1]
        ELSE IF s[n] = "begin_object" THEN <<"end_object">> \o open[n - 1]
        ELSE IF s[n] \in {"end_array", "end_object"} /\ open[n - 1] # <<>> THEN Tail(open[n - 1])
        ELSE open[n - 1]
  IN  open[Len(s)]

(* s can become a document: with one of these, and then what is open ends. *)
Missing == {<<>>, <<"value_string">>, <<"name_separator", "value_string">>,
            <<"value_string", "name_separator", "value_string">>}
Begins(s) == \E e \in Missing : IsDocument(s \o e \o Brackets(s))

(* The last token of s, and no earlier one, is one too many.               *)
GoesWrong(s) == s # <<>> /\ ~Begins(s) /\ Begins(SubSeq(s, 1, Len(s) - 1))
===============================================================================

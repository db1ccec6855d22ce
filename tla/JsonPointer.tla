------------------------------- MODULE JsonPointer -------------------------------
(***************************************************************************)
(* json_pointer (json.hpp:12380-13340) and the element access it is made   *)
(* of (json.hpp:20891-21320): a pointer is its reference tokens, and a     *)
(* token is its bytes.  What is returned by reference is the document and  *)
(* the way to the value in it: the reference can be assigned to, and the   *)
(* access itself may have added values to the document.                    *)
(***************************************************************************)
EXTENDS JsonValue, JsonText

CONSTANT IntegerBits       (* of size_type, unsigned long long,             *)
                           (* number_integer_t and number_unsigned_t       *)
ASSUME IntegerBitsAssumption == IntegerBits \in Nat \ {0}

Tilde == 126

(* What a call returns or throws: the number of the exception, or that of  *)
(* the library's own code std::invalid_argument, which std::stoull()       *)
(* throws and array_index() does not catch.                                *)
InvalidArgument == 1
(* An assertion of the library fails: the program is aborted.              *)
Aborted == 2
Ok(v)     == [thrown |-> 0, value |-> v]
Throw(id) == [thrown |-> id, value |-> Null]

-------------------------------------------------------------------------------
(* Texts of pointers                                                       *)

(* s with t in place of each f, which is two bytes or one, from left to    *)
(* right.                                                                  *)
RECURSIVE replace_substring(_, _, _)
replace_substring(s, f, t) ==
  CASE s = <<>> -> <<>>
    [] s # <<>> /\ IsPrefix(f, s) -> t \o replace_substring(From(s, Len(f) + 1), f, t)
    [] OTHER -> <<s[1]>> \o replace_substring(Tail(s), f, t)

escape(s) ==
  replace_substring(replace_substring(s, <<Tilde>>, <<Tilde, Zero>>), <<Slash>>, <<Tilde, Zero + 1>>)

unescape(s) ==
  replace_substring(replace_substring(s, <<Tilde, Zero + 1>>, <<Slash>>), <<Tilde, Zero>>, <<Tilde>>)

to_string(tokens) == FlattenSeq([i \in DOMAIN tokens |-> <<Slash>> \o escape(tokens[i])])

(* The text between a slash and the next one or the end is a token.        *)
split(s) ==
  LET slashes == {n \in DOMAIN s : s[n] = Slash}
      token(n) == SubSeq(s, n + 1, Min({m \in slashes : m > n} \cup {Len(s) + 1}) - 1)
      raw == [i \in 1 .. Cardinality(slashes) |->
                token(CHOOSE n \in slashes : Cardinality({m \in slashes : m < n}) = i - 1)]
      escaped(t) == \A n \in DOMAIN t : t[n] = Tilde => n < Len(t) /\ t[n + 1] \in {Zero, Zero + 1}
  IN  CASE s = <<>> -> Ok(<<>>)
        [] s # <<>> /\ s[1] # Slash -> Throw(107)
        [] OTHER -> IF \A i \in DOMAIN raw : escaped(raw[i])
                    THEN Ok([i \in DOMAIN raw |-> unescape(raw[i])]) ELSE Throw(108)

RECURSIVE ToDecimal(_)
ToDecimal(n) == (IF n < 10 THEN <<>> ELSE ToDecimal(n \div 10)) \o <<Zero + (n % 10)>>

Dash == <<Minus>>
Largest == 2 ^ IntegerBits - 1
(* Texts of one byte that is no digit, and the empty text, get as far as   *)
(* std::stoull(), which finds no number in them; nor does a number that is *)
(* too large for it, or just too large for an index.                       *)
array_index(s) ==
  CASE Len(s) > 1 /\ s[1] = Zero -> Throw(106)
    [] Len(s) > 1 /\ s[1] \notin Digit -> Throw(109)
    [] Len(s) <= 1 /\ ~IsDigits(s) -> Throw(InvalidArgument)
    [] Len(s) > 1 /\ s[1] \in Digit \ {Zero} /\ ~IsDigits(s) -> Throw(404)
    [] OTHER -> CASE Value(s) > Largest -> Throw(404)
                  [] Value(s) = Largest -> Throw(410)
                  [] OTHER -> Ok(Value(s))

-------------------------------------------------------------------------------
(* Access to elements.  A step is [thrown, value, step]: the value it was  *)
(* taken from, as it is afterwards, and the index or the key it leads to.  *)

Steps(v, step) == [thrown |-> 0, value |-> v, step |-> step]
NoStep(id)     == [thrown |-> id, value |-> Null, step |-> <<>>]

Nulls_(n) == [i \in 1 .. n |-> Null]
(* operator[](size_type): the array grows to hold the index.               *)
Index(v, i) ==
  CASE v.type = "null" -> Steps(Array(Nulls_(i + 1)), i + 1)
    [] v.type = "array" ->
         Steps(Array(v.elements \o Nulls_(IF i < Len(v.elements) THEN 0 ELSE i + 1 - Len(v.elements))), i + 1)
    [] OTHER -> NoStep(305)
(* operator[](key): the object gets the key.                               *)
Key_(v, k) ==
  CASE v.type = "null" -> Steps(Object(k :> Null), k)
    [] v.type = "object" -> Steps(Object(v.members @@ (k :> Null)), k)
    [] OTHER -> NoStep(305)
AtIndex(v, i) ==
  CASE v.type # "array" -> NoStep(304)
    [] v.type = "array" /\ i >= Len(v.elements) -> NoStep(401)
    [] OTHER -> Steps(v, i + 1)
AtKey(v, k) ==
  CASE v.type # "object" -> NoStep(304)
    [] v.type = "object" /\ k \notin DOMAIN v.members -> NoStep(403)
    [] OTHER -> Steps(v, k)

(* The index that a token says, and the step to it.                        *)
Indexed(v, token, To_(_, _)) ==
  LET i == array_index(token) IN IF i.thrown # 0 THEN NoStep(i.thrown) ELSE To_(v, i.value)

(* The value at the end of a way, and the document with w in its place.    *)
Deref(j, ref) == FoldLeft(LAMBDA v, s : IF v.type = "array" THEN v.elements[s] ELSE v.members[s], j, ref)
RECURSIVE Assign(_, _, _)
Assign(j, ref, w) ==
  CASE ref = <<>> -> w
    [] ref # <<>> /\ j.type = "array" -> [j EXCEPT !.elements[ref[1]] = Assign(@, Tail(ref), w)]
    [] ref # <<>> /\ j.type = "object" -> [j EXCEPT !.members[ref[1]] = Assign(@, Tail(ref), w)]

Walk(j, tokens, Step_(_, _)) ==
  FoldLeft(LAMBDA w, t :
             IF w.thrown # 0 THEN w
             ELSE LET s == Step_(Deref(w.j, w.ref), t)
                  IN  IF s.thrown # 0 THEN [w EXCEPT !.thrown = s.thrown]
                      ELSE [thrown |-> 0, j |-> Assign(w.j, w.ref, s.value), ref |-> Append(w.ref, s.step)],
           [thrown |-> 0, j |-> j, ref |-> <<>>], tokens)

-------------------------------------------------------------------------------
(* The ways a pointer is followed                                          *)

get_and_create(j, tokens) ==
  LET Step(v, token) ==
        CASE v.type = "null" /\ token = <<Zero>> -> Index(v, 0)
          [] (v.type = "null" /\ token # <<Zero>>) \/ v.type = "object" -> Key_(v, token)
          [] v.type = "array" -> Indexed(v, token, Index)
          [] OTHER -> NoStep(313)
  IN  Walk(j, tokens, Step)

(* Null becomes an array for digits, "-" and the empty token.              *)
get_unchecked(j, tokens) ==
  LET Opened(v, token) ==
        IF v.type # "null" THEN v
        ELSE IF In(token, Digit) \/ token = Dash THEN Array(<<>>) ELSE Object(<<>>)
      Step(u, token) ==
        LET v == Opened(u, token)
        IN  CASE v.type = "object" -> Key_(v, token)
              [] v.type = "array" /\ token = Dash -> Index(v, Len(v.elements))
              [] v.type = "array" /\ token # Dash -> Indexed(v, token, Index)
              [] OTHER -> NoStep(404)
  IN  Walk(j, tokens, Step)

get_checked(j, tokens) ==
  LET Step(v, token) ==
        CASE v.type = "object" -> AtKey(v, token)
          [] v.type = "array" /\ token = Dash -> NoStep(402)
          [] v.type = "array" /\ token # Dash -> Indexed(v, token, AtIndex)
          [] OTHER -> NoStep(404)
  IN  Walk(j, tokens, Step)

(* at(ptr) const                                                           *)
at(j, tokens) == LET w == get_checked(j, tokens)
                 IN  IF w.thrown # 0 THEN Throw(w.thrown) ELSE Ok(Deref(w.j, w.ref))

RECURSIVE contains(_, _)
(* Whether the array has the element.  No token but the empty one and a    *)
(* too large number gets to array_index() that it does not take.           *)
HasElement(v, token) ==
  IF token = Dash \/ (token # <<>> /\ ~IsDigits(token)) \/ (Len(token) > 1 /\ token[1] = Zero)
  THEN Ok(FALSE)
  ELSE LET i == array_index(token)
       IN  IF i.thrown # 0 THEN Throw(i.thrown) ELSE Ok(i.value < Len(v.elements))

contains(v, tokens) ==
  LET token == tokens[1]
      has == IF v.type = "object" THEN Ok(token \in DOMAIN v.members) ELSE HasElement(v, token)
  IN  CASE tokens = <<>> -> Ok(TRUE)
        [] tokens # <<>> /\ v.type \notin {"object", "array"} -> Ok(FALSE)
        [] OTHER -> IF has.thrown # 0 \/ ~has.value THEN has
                    ELSE contains(IF v.type = "object" THEN v.members[token]
                                  ELSE v.elements[Value(token) + 1], Tail(tokens))

-------------------------------------------------------------------------------
(* Flattening                                                              *)

IsPrimitive(v) == v.type \notin {"array", "object", "discarded"}

(* The members of the result: for each primitive value and each empty      *)
(* container, its path.                                                    *)
RECURSIVE Flattened(_, _)
Flattened(path, v) ==
  CASE v.type \notin {"array", "object"} -> path :> v
    [] v.type = "array" /\ v.elements = <<>> -> path :> Null
    [] v.type = "object" /\ DOMAIN v.members = {} -> path :> Null
    [] v.type = "array" /\ v.elements # <<>> ->
         FoldLeft(LAMBDA m, i : Flattened(path \o <<Slash>> \o ToDecimal(i - 1), v.elements[i]) @@ m,
                  <<>>, [i \in DOMAIN v.elements |-> i])
    [] OTHER -> FoldLeft(LAMBDA m, k : Flattened(path \o <<Slash>> \o escape(k), v.members[k]) @@ m,
                         <<>>, Keys(v.members))
flatten(v) == Object(Flattened(<<>>, v))

unflatten(v) ==
  LET Put(r, k) ==
        LET ptr == split(k)
            w == get_and_create(r.value, ptr.value)
        IN  CASE r.thrown # 0 -> r
              [] r.thrown = 0 /\ ~IsPrimitive(v.members[k]) -> Throw(315)
              [] OTHER -> IF ptr.thrown # 0 THEN ptr
                          ELSE IF w.thrown # 0 THEN Throw(w.thrown)
                          ELSE Ok(Assign(w.j, w.ref, v.members[k]))
  IN  IF v.type # "object" THEN Throw(314) ELSE FoldLeft(Put, Ok(Null), Keys(v.members))
===============================================================================

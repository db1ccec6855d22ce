------------------------------ MODULE MCJsonParser ------------------------------
(* JsonParser on all inputs of a few tokens, and what the documents mean:      *)
(* a reading of the tokens by recursion, without stacks or pointers.           *)
EXTENDS JsonParser

MCStrings == {1, 2}
MCScalars == {"literal_null", "infinite_float"}

T(type) == [type |-> type]
K(k) == [type |-> "value_string", string |-> k]
AnyOf(n) == [i \in 1 .. n |-> Tokens]
With(c, s, e, tokenSets) ==
  [consumer |-> c, strict |-> s, allow_exceptions |-> e, script |-> tokenSets]

(* An object of two members, the first of which may be a container, in which   *)
(* keys come twice.                                                            *)
Some == {T("begin_object"), T("end_object"), T("begin_array"), T("end_array"),
         T("name_separator"), T("value_separator"), K(1), T("literal_null")}
AnObject == <<{T("begin_object")}, {K(1)}, {T("name_separator")}>>
TwoMembers ==
  AnObject \o <<{T("literal_null"), T("begin_object"), T("begin_array")},
    {T("value_separator"), T("end_object"), T("end_array")},
    {K(1), K(2), T("value_separator")}, {T("name_separator"), K(2)},
    {T("name_separator"), T("begin_object"), T("begin_array"), K(2)},
    {T("end_object"), T("end_array"), T("literal_null")}, {T("end_object")}>>

MCCases ==
  {With("acceptor", s, TRUE, AnyOf(6)) : s \in BOOLEAN}
  \cup {With("dom", TRUE, TRUE, AnyOf(8)), With("callback", TRUE, TRUE, AnyOf(7))}
  \cup {With(c, s, e, AnyOf(4)) : c \in {"dom", "callback"}, s \in BOOLEAN, e \in BOOLEAN}
  \cup {With("dom", FALSE, FALSE, AnObject \o [i \in 1 .. 7 |-> Some]),
        With("callback", TRUE, FALSE, TwoMembers)}

-------------------------------------------------------------------------------
(* What it says, with what the callback refused left out                       *)

Absent == [type |-> "absent"]
TypeAt(n) == Type(Types(tokens), n)
Behind(n) == After(Types(tokens))[<<"value", n>>]

(* The values of the elements, or of the members with their keys, from n on.   *)
RECURSIVE Meaning(_), Elements(_), Members(_)
Meaning(n) ==
  CASE TypeAt(n) = "begin_array" ->
         IF answers[n] /\ answers[Behind(n) - 1]
         THEN [type |-> "array",
               elements |-> IF TypeAt(n + 1) = "end_array" THEN <<>> ELSE Elements(n + 1)]
         ELSE Absent
    [] TypeAt(n) = "begin_object" ->
         IF answers[n] /\ answers[Behind(n) - 1]
         THEN [type |-> "object",
               members |-> IF TypeAt(n + 1) = "end_object" THEN {}
                           ELSE LET all == Members(n + 1)
                                    last == {i \in DOMAIN all : \A j \in i + 1 .. Len(all) : all[j][1] # all[i][1]}
                                IN  {all[i] : i \in {j \in last : all[j][2] # Absent}}]
         ELSE Absent
    [] ~answers[n] -> Absent
    [] TypeAt(n) = "value_string" -> [type |-> "string", string |-> tokens[n].string]
    [] OTHER -> [type |-> tokens[n].type, at |-> n]
Elements(n) ==
  LET m == Behind(n)
  IN  (IF Meaning(n) = Absent THEN <<>> ELSE <<Meaning(n)>>)
      \o (IF TypeAt(m) = "value_separator" THEN Elements(m + 1) ELSE <<>>)
Members(n) ==
  LET m == Behind(n + 2)
  IN  (IF answers[n] THEN <<<<tokens[n].string, Meaning(n + 2)>>>> ELSE <<>>)
      \o (IF TypeAt(m) = "value_separator" THEN Members(m + 1) ELSE <<>>)

(* What was built, read through the pointers, without discarded members.       *)
RECURSIVE Tree(_)
Tree(ref) ==
  LET v == heap[ref]
  IN  CASE v.type = "array" ->
             [type |-> "array", elements |-> [n \in DOMAIN v.elements |-> Tree(v.elements[n])]]
        [] v.type = "object" ->
             [type |-> "object",
              members |-> {<<k, Tree(v.members[k])>> :
                             k \in {l \in DOMAIN v.members : heap[v.members[l]] # Discarded}}]
        [] OTHER -> v

RECURSIVE Holds(_, _)
Holds(ref, v) ==
  \/ heap[ref] = v
  \/ heap[ref].type = "array" /\ \E n \in DOMAIN heap[ref].elements : Holds(heap[ref].elements[n], v)
  \/ heap[ref].type = "object" /\ \E k \in DOMAIN heap[ref].members : Holds(heap[ref].members[k], v)

-------------------------------------------------------------------------------
(* The value that is built is what the document says.  Of several members      *)
(* with one key the last counts.  An element that the callback refused is left *)
(* out; a member that it refused is left out of the comparison, because it may *)
(* stay in the object as a discarded value (see DiscardedIsSkipped), in place  *)
(* of an earlier member with its key.  After an error without an exception     *)
(* the result is a discarded value (json.hpp:5972-6451, 10913-10965).          *)
Builds ==
  /\ outcome = "true" /\ consumer # "acceptor" =>
       Tree(1) = IF Meaning(1) = Absent THEN Null ELSE Meaning(1)
  /\ outcome = "false" /\ consumer # "acceptor" => heap[1] = Discarded

(* "Discarded values in structured types are skipped.  That is, the parser     *)
(* will behave as if the discarded value was never read" (json.hpp:18817-      *)
(* 18818): no value of the result is a discarded one.  A refused scalar stays  *)
(* in its object, as the discarded value that key() has put there              *)
(* (json.hpp:6240-6244, 6386-6389), so this does not hold.                     *)
DiscardedIsSkipped == outcome = "true" => ~Holds(1, Discarded)
===============================================================================

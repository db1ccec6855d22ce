------------------------------ MODULE JsonContainer ------------------------------
(***************************************************************************)
(* basic_json as a container (json.hpp:21384-23640) and its iterators      *)
(* (11361-12350).  A call is made on the value This; an iterator names the *)
(* value it belongs to, and has a place for each kind of container, of     *)
(* which the type of the value says which one counts.  The elements of an  *)
(* object are in the order of its keys.  What std::vector and std::map     *)
(* leave undefined is no argument here: an iterator is one that the value  *)
(* has now, and what it is moved to is there.                              *)
(***************************************************************************)
EXTENDS JsonPointer

This    == "this"
PastEnd == <<-1>>          (* object_t::end(), as no key has such a byte   *)
NoKey   == <<-2>>          (* object_t::iterator()                         *)
NoIndex == -1              (* array_t::iterator()                          *)
Lowest  == -(2 ^ 20)       (* numeric_limits<ptrdiff_t>::min(), scaled     *)

Failed == Throw(Aborted)

-------------------------------------------------------------------------------
(* Iterators                                                               *)

Iterator(name) == [m_object |-> name, object_iterator |-> NoKey, array_iterator |-> NoIndex,
                   primitive_iterator |-> Lowest]
(* The place of a value that is no container: on it, or past it.           *)
begin_value == 0
end_value   == 1
is_begin(it) == it.primitive_iterator = begin_value
is_end(it)   == it.primitive_iterator = end_value

Stops(v) == Append(Keys(v.members), PastEnd)
Stop(v, it) == CHOOSE i \in DOMAIN Stops(v) : Stops(v)[i] = it.object_iterator

(* A fault: null begins like the other values that are no containers.      *)
NullBegins(v, it) ==
  CASE v.type = "object" -> [it EXCEPT !.object_iterator = Stops(v)[1]]
    [] v.type = "array" -> [it EXCEPT !.array_iterator = 0]
    [] OTHER -> [it EXCEPT !.primitive_iterator = begin_value]
set_begin(v, it) ==
  CASE v.type = "object" -> [it EXCEPT !.object_iterator = Stops(v)[1]]
    [] v.type = "array" -> [it EXCEPT !.array_iterator = 0]
    [] v.type = "null" -> [it EXCEPT !.primitive_iterator = end_value]
    [] OTHER -> [it EXCEPT !.primitive_iterator = begin_value]
set_end(v, it) ==
  CASE v.type = "object" -> [it EXCEPT !.object_iterator = PastEnd]
    [] v.type = "array" -> [it EXCEPT !.array_iterator = Len(v.elements)]
    [] OTHER -> [it EXCEPT !.primitive_iterator = end_value]
begin(v, name) == set_begin(v, Iterator(name))
end(v, name)   == set_end(v, Iterator(name))

dereference(v, it) ==
  CASE v.type = "object" -> IF it.object_iterator = PastEnd THEN Failed ELSE Ok(v.members[it.object_iterator])
    [] v.type = "array" -> IF it.array_iterator = Len(v.elements) THEN Failed
                           ELSE Ok(v.elements[it.array_iterator + 1])
    [] OTHER -> IF v.type # "null" /\ is_begin(it) THEN Ok(v) ELSE Throw(214)

Moved(v, it, n) ==
  CASE v.type = "object" -> [it EXCEPT !.object_iterator = Stops(v)[Stop(v, it) + n]]
    [] v.type = "array" -> [it EXCEPT !.array_iterator = @ + n]
    [] OTHER -> [it EXCEPT !.primitive_iterator = @ + n]
increment(v, it) == Moved(v, it, 1)
decrement(v, it) == Moved(v, it, -1)
plus(v, it, n)   == IF v.type = "object" THEN Throw(209) ELSE Ok(Moved(v, it, n))

equal(v, it, other) ==
  IF it.m_object # other.m_object THEN Throw(212)
  ELSE Ok(CASE v.type = "object" -> it.object_iterator = other.object_iterator
            [] v.type = "array" -> it.array_iterator = other.array_iterator
            [] OTHER -> it.primitive_iterator = other.primitive_iterator)
less(v, it, other) ==
  CASE it.m_object # other.m_object -> Throw(212)
    [] it.m_object = other.m_object /\ v.type = "object" -> Throw(213)
    [] it.m_object = other.m_object /\ v.type = "array" -> Ok(it.array_iterator < other.array_iterator)
    [] OTHER -> Ok(it.primitive_iterator < other.primitive_iterator)
minus(v, it, other) ==
  CASE v.type = "object" -> Throw(209)
    [] v.type = "array" -> Ok(it.array_iterator - other.array_iterator)
    [] OTHER -> Ok(it.primitive_iterator - other.primitive_iterator)

subscript(v, it, n) ==
  CASE v.type = "object" -> Throw(208)
    [] v.type = "array" -> Ok(v.elements[it.array_iterator + n + 1])
    [] OTHER -> IF v.type # "null" /\ it.primitive_iterator = -n THEN Ok(v) ELSE Throw(214)
key(v, it) == IF v.type = "object" THEN Ok(it.object_iterator) ELSE Throw(207)

(* A reverse iterator stands one after the element it reads.               *)
rbegin(v, name) == end(v, name)
rend(v, name)   == begin(v, name)
reverse_increment(v, it)   == decrement(v, it)
reverse_dereference(v, it) == dereference(v, decrement(v, it))
reverse_key(v, it)         == key(v, decrement(v, it))

(* What items() goes through: the iterator and a count of its own, for the *)
(* keys of arrays.                                                         *)
proxy_begin(v, name) == [anchor |-> begin(v, name), array_index |-> 0]
proxy_increment(v, p) == [anchor |-> increment(v, p.anchor), array_index |-> p.array_index + 1]
proxy_key(v, p) ==
  CASE v.type = "array" -> ToDecimal(p.array_index)
    [] v.type = "object" -> p.anchor.object_iterator
    [] OTHER -> <<>>

-------------------------------------------------------------------------------
(* Calls that change nothing                                               *)

size(v) == CASE v.type = "null" -> 0
             [] v.type = "array" -> Len(v.elements)
             [] v.type = "object" -> Cardinality(DOMAIN v.members)
             [] OTHER -> 1
empty(v) == CASE v.type = "null" -> TRUE
              [] v.type = "array" -> v.elements = <<>>
              [] v.type = "object" -> DOMAIN v.members = {}
              [] OTHER -> FALSE

front(v) == dereference(v, begin(v, This))
back(v)  == dereference(v, decrement(v, end(v, This)))

find(v, k) == IF v.type = "object" /\ k \in DOMAIN v.members
              THEN [end(v, This) EXCEPT !.object_iterator = k] ELSE end(v, This)
count(v, k) == IF v.type = "object" /\ k \in DOMAIN v.members THEN 1 ELSE 0
contains_key(v, k) == v.type = "object" /\ find(v, k).object_iterator # PastEnd
value(v, k, default) ==
  CASE v.type # "object" -> Throw(306)
    [] v.type = "object" /\ find(v, k) = end(v, This) -> Ok(default)
    [] OTHER -> dereference(v, find(v, k))

(* basic_json(first, last), with the value the iterators belong to.  The   *)
(* range of a binary value is not looked at.                               *)
RangeChecked == {"boolean", "number_integer", "number_unsigned", "number_float", "string"}
KeysBetween(v, first, last) == {Stops(v)[i] : i \in Stop(v, first) .. Stop(v, last) - 1}
Members(v, keys) == [k \in keys |-> v.members[k]]
from_range(v, first, last) ==
  CASE first.m_object # last.m_object -> Throw(201)
    [] first.m_object = last.m_object /\ v.type \in RangeChecked ->
         IF ~is_begin(first) \/ ~is_end(last) THEN Throw(204) ELSE Ok(v)
    [] first.m_object = last.m_object /\ v.type = "object" -> Ok(Object(Members(v, KeysBetween(v, first, last))))
    [] first.m_object = last.m_object /\ v.type = "array" ->
         Ok(Array(SubSeq(v.elements, first.array_iterator + 1, last.array_iterator)))
    [] first.m_object = last.m_object /\ v.type = "binary" -> Ok(v)
    [] OTHER -> Throw(206)

(* basic_json(init), array(init) and object(init): of pairs with the same  *)
(* key the first one counts.                                               *)
IsPair(v) == v.type = "array" /\ Len(v.elements) = 2 /\ v.elements[1].type = "string"
ObjectOf(init) ==
  Object(FoldLeft(LAMBDA m, p : m @@ (p.elements[1].string :> p.elements[2]), <<>>, init))
from_list(init, type_deduction, manual_type) ==
  LET pairs == \A i \in DOMAIN init : IsPair(init[i])
  IN  CASE ~type_deduction /\ manual_type = "object" /\ ~pairs -> Throw(301)
        [] pairs /\ (type_deduction \/ manual_type # "array") -> Ok(ObjectOf(init))
        [] OTHER -> Ok(Array(init))

-------------------------------------------------------------------------------
(* Calls that change the value: what they leave and what they return       *)

Done(v, returned) == [thrown |-> 0, value |-> v, returned |-> returned]
Refused(v, id)    == [thrown |-> id, value |-> v, returned |-> Null]
Without(v, keys)  == Object(Members(v, DOMAIN v.members \ keys))

clear(v) ==
  CASE v.type \in {"number_integer", "number_unsigned"} -> [v EXCEPT !.number = 0]
    [] v.type = "number_float" -> Float(FALSE, <<>>, 0)
    [] v.type = "boolean" -> Boolean(FALSE)
    [] v.type = "string" -> String(<<>>)
    [] v.type = "binary" -> [v EXCEPT !.bytes = <<>>]
    [] v.type = "array" -> Array(<<>>)
    [] v.type = "object" -> Object(<<>>)
    [] OTHER -> v

Scalar == RangeChecked \cup {"binary"}
erase(v, pos) ==
  CASE pos.m_object # This -> Refused(v, 202)
    [] pos.m_object = This /\ v.type \in Scalar ->
         IF ~is_begin(pos) THEN Refused(v, 205) ELSE Done(Null, end(v, This))
    [] pos.m_object = This /\ v.type = "object" -> Done(Without(v, {pos.object_iterator}), increment(v, pos))
    [] pos.m_object = This /\ v.type = "array" -> Done(Array(RemoveAt(v.elements, pos.array_iterator + 1)), pos)
    [] OTHER -> Refused(v, 307)

erase_range(v, first, last) ==
  LET ours == first.m_object = This /\ last.m_object = This
      left == SubSeq(v.elements, 1, first.array_iterator) \o From(v.elements, last.array_iterator + 1)
  IN  CASE ~ours -> Refused(v, 203)
        [] ours /\ v.type \in Scalar ->
             IF ~is_begin(first) \/ ~is_end(last) THEN Refused(v, 204)
             ELSE Done(Null, end(v, This))
        [] ours /\ v.type = "object" -> Done(Without(v, KeysBetween(v, first, last)), last)
        [] ours /\ v.type = "array" -> Done(Array(left), first)
        [] OTHER -> Refused(v, 307)
erase_key(v, k) == IF v.type = "object" THEN Done(Without(v, {k}), count(v, k)) ELSE Refused(v, 307)
erase_index(v, i) ==
  CASE v.type # "array" -> Refused(v, 307)
    [] v.type = "array" /\ i >= size(v) -> Refused(v, 401)
    [] OTHER -> Done(Array(RemoveAt(v.elements, i + 1)), Null)

(* null becomes a container of the type asked for.                         *)
AsArray(v)  == IF v.type = "null" THEN Array(<<>>) ELSE v
AsObject(v) == IF v.type = "null" THEN Object(<<>>) ELSE v

push_back(v, w) ==
  IF v.type \notin {"null", "array"} THEN Refused(v, 308)
  ELSE Done(Array(Append(AsArray(v).elements, w)), Null)
push_back_member(v, k, w) ==
  IF v.type \notin {"null", "object"} THEN Refused(v, 308)
  ELSE Done(Object(AsObject(v).members @@ (k :> w)), Null)
push_back_list(v, init) ==
  IF v.type = "object" /\ Len(init) = 2 /\ init[1].type = "string"
  THEN push_back_member(v, init[1].string, init[2])
  ELSE push_back(v, from_list(init, TRUE, "array").value)
emplace_back(v, w) ==
  IF v.type \notin {"null", "array"} THEN Refused(v, 311)
  ELSE Done(Array(Append(AsArray(v).elements, w)), w)
(* What is returned is the iterator, and whether there was no such key.    *)
emplace(v, k, w) ==
  LET u == AsObject(v)
      members == u.members @@ (k :> w)
  IN  IF v.type \notin {"null", "object"} THEN Refused(v, 311)
      ELSE Done(Object(members),
                <<[begin(Object(members), This) EXCEPT !.object_iterator = k], k \notin DOMAIN u.members>>)

(* A fault: the iterator returned is that of the element after the new.    *)
InsertedAfter(v, pos, s) ==
  Done(Array(SubSeq(v.elements, 1, pos.array_iterator) \o s \o From(v.elements, pos.array_iterator + 1)),
       [Iterator(This) EXCEPT !.array_iterator = pos.array_iterator + Len(s)])
insert_iterator(v, pos, s) ==
  Done(Array(SubSeq(v.elements, 1, pos.array_iterator) \o s \o From(v.elements, pos.array_iterator + 1)),
       [Iterator(This) EXCEPT !.array_iterator = pos.array_iterator])

insert_list(v, pos, ilist) ==
  CASE v.type # "array" -> Refused(v, 309)
    [] v.type = "array" /\ pos.m_object # This -> Refused(v, 202)
    [] OTHER -> insert_iterator(v, pos, ilist)
insert(v, pos, w)          == insert_list(v, pos, <<w>>)
insert_count(v, pos, n, w) == insert_list(v, pos, [i \in 1 .. n |-> w])
(* Of a value that is no array the range is empty, whatever is in it.      *)
insert_range(v, pos, w, first, last) ==
  CASE v.type # "array" -> Refused(v, 309)
    [] v.type = "array" /\ pos.m_object # This -> Refused(v, 202)
    [] v.type = "array" /\ pos.m_object = This /\ first.m_object # last.m_object -> Refused(v, 210)
    [] v.type = "array" /\ pos.m_object = This /\ first.m_object = last.m_object /\ first.m_object = This ->
         Refused(v, 211)
    [] OTHER -> insert_iterator(v, pos, IF first.array_iterator = NoIndex THEN <<>>
                                        ELSE SubSeq(w.elements, first.array_iterator + 1, last.array_iterator))
insert_members(v, w, first, last) ==
  CASE v.type # "object" -> Refused(v, 309)
    [] v.type = "object" /\ first.m_object # last.m_object -> Refused(v, 210)
    [] v.type = "object" /\ first.m_object = last.m_object /\ w.type # "object" -> Refused(v, 202)
    [] OTHER -> Done(Object(v.members @@ Members(w, KeysBetween(w, first, last))), Null)

(* null is an object from here on, also when the call is refused.          *)
update(v, j) ==
  LET u == AsObject(v)
  IN  IF u.type # "object" \/ j.type # "object" THEN Refused(u, 312)
      ELSE Done(Object(j.members @@ u.members), Null)
update_range(v, w, first, last) ==
  LET u == AsObject(v)
  IN  CASE u.type # "object" -> Refused(u, 312)
        [] u.type = "object" /\ first.m_object # last.m_object -> Refused(u, 210)
        [] u.type = "object" /\ first.m_object = last.m_object /\ w.type # "object" -> Refused(u, 202)
        [] OTHER -> Done(Object(Members(w, KeysBetween(w, first, last)) @@ u.members), Null)

(* swap() with the content of a container: what was in it is returned.     *)
swap_with(v, w) == IF v.type # w.type THEN Refused(v, 310) ELSE Done(w, v)
===============================================================================

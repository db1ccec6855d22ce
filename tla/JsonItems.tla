-------------------------------- MODULE JsonItems --------------------------------
(***************************************************************************)
(* What a JSON value promises as a container: it is the list of its items, *)
(* and an iterator is a position in that list.  null has no items, and a   *)
(* value that is neither array nor object is its own only item.            *)
(***************************************************************************)
EXTENDS JsonContainer

IsStructured(v) == v.type \in {"array", "object"}
Items(v) ==
  CASE v.type = "null" -> <<>>
    [] v.type = "array" -> v.elements
    [] v.type = "object" -> [i \in DOMAIN Keys(v.members) |-> v.members[Keys(v.members)[i]]]
    [] OTHER -> <<v>>
Labels(v) ==
  CASE v.type = "array" -> [i \in DOMAIN v.elements |-> ToDecimal(i - 1)]
    [] v.type = "object" -> Keys(v.members)
    [] OTHER -> [i \in DOMAIN Items(v) |-> <<>>]

(* What is reached from begin(), step by step: the last one is end().      *)
Iterators(v, name) ==
  LET it[i \in 1 .. Len(Items(v)) + 1] == IF i = 1 THEN begin(v, name) ELSE increment(v, it[i - 1])
  IN  it
Proxies(v) ==
  LET p[i \in 1 .. Len(Items(v)) + 1] == IF i = 1 THEN proxy_begin(v, This) ELSE proxy_increment(v, p[i - 1])
  IN  p
Reversed(v) ==
  LET r[i \in 1 .. Len(Items(v)) + 1] == IF i = 1 THEN rbegin(v, This) ELSE reverse_increment(v, r[i - 1])
  IN  r

-------------------------------------------------------------------------------
(* Going through a value                                                   *)

Unless(v, id, result) == IF v.type = "object" THEN Throw(id) ELSE Ok(result)

(* Two positions are compared, and lead to each other.                     *)
Places(v) ==
  LET it == Iterators(v, This)
  IN  \A i, j \in DOMAIN it :
        /\ equal(v, it[i], it[j]) = Ok(i = j)
        /\ equal(v, it[i], Iterators(v, "other")[j]) = Throw(212)
        /\ less(v, it[i], it[j]) = Unless(v, 213, i < j)
        /\ minus(v, it[i], it[j]) = Unless(v, 209, i - j)
        /\ plus(v, it[i], j - i) = Unless(v, 209, it[j])
        /\ j \in DOMAIN Items(v) => subscript(v, it[i], j - i) = Unless(v, 208, Items(v)[j])
        /\ i > 1 => decrement(v, it[i]) = it[i - 1]

(* Each item is read in its place, from both ends, and nothing past them.  *)
Reads(v) ==
  LET it == Iterators(v, This)
      n  == Len(Items(v))
  IN  /\ \A i \in 1 .. n :
           /\ dereference(v, it[i]) = Ok(Items(v)[i])
           /\ reverse_dereference(v, Reversed(v)[i]) = Ok(Items(v)[n + 1 - i])
           /\ proxy_key(v, Proxies(v)[i]) = Labels(v)[i]
           /\ key(v, it[i]) = IF v.type = "object" THEN Ok(Labels(v)[i]) ELSE Throw(207)
           /\ reverse_key(v, Reversed(v)[i]) =
                IF v.type = "object" THEN Ok(Labels(v)[n + 1 - i]) ELSE Throw(207)
      /\ dereference(v, it[n + 1]) = IF IsStructured(v) THEN Failed ELSE Throw(214)
      /\ n > 0 => front(v) = Ok(Items(v)[1]) /\ back(v) = Ok(Items(v)[n])

(* A key is found where it stands, or nowhere.                             *)
Finds(v, k, default) ==
  LET here == {i \in DOMAIN Items(v) : v.type = "object" /\ Labels(v)[i] = k}
      n == Len(Items(v))
  IN  /\ find(v, k) = Iterators(v, This)[CHOOSE i \in 1 .. n + 1 : i \in here \/ (here = {} /\ i = n + 1)]
      /\ count(v, k) = Cardinality(here)
      /\ contains_key(v, k) <=> here # {}
      /\ value(v, k, default) = CASE v.type # "object" -> Throw(306)
                                  [] v.type = "object" /\ here = {} -> Ok(default)
                                  [] OTHER -> Ok(v.members[k])

Navigates(v, keys) ==
  LET n == Len(Items(v))
  IN  /\ Iterators(v, This)[n + 1] = end(v, This) /\ Reversed(v)[n + 1] = rend(v, This)
      /\ size(v) = n /\ (empty(v) <=> n = 0)
      /\ Places(v) /\ Reads(v)
      /\ \A k \in keys : Finds(v, k, Null)

-------------------------------------------------------------------------------
(* Changing it.  The call leaves these items, and returns the iterator at  *)
(* the i-th of them; or it is refused and leaves the value as it is.       *)

Gives(o, items, i) ==
  o.thrown = 0 /\ Items(o.value) = items /\ o.returned = Iterators(o.value, This)[i]
Refuses(o, v, ids) == o.thrown \in ids /\ o.value = v

Cut(s, i, j) == SubSeq(s, 1, i - 1) \o From(s, j)
Put(s, i, t) == SubSeq(s, 1, i - 1) \o t \o From(s, i)

(* Of a value without items nothing is erased, of a scalar all or nothing. *)
Erases(v, w, keys) ==
  LET it == Iterators(v, This)
      s  == Items(v)
      erasable == v \notin {Null, Discarded}
  IN  /\ \A i \in DOMAIN it :
           IF i \in DOMAIN s /\ erasable THEN Gives(erase(v, it[i]), Cut(s, i, i + 1), i)
           ELSE IsStructured(v) \/ Refuses(erase(v, it[i]), v, {205, 307})
      /\ \A i \in DOMAIN it : \A j \in i .. Len(it) :
           IF IsStructured(v) \/ (i < j /\ erasable)
           THEN Gives(erase_range(v, it[i], it[j]), Cut(s, i, j), i)
           ELSE Refuses(erase_range(v, it[i], it[j]), v, {204, 307})
      /\ \A i \in 0 .. Len(s) :
           IF v.type = "array" /\ i < Len(s)
           THEN erase_index(v, i).thrown = 0 /\ Items(erase_index(v, i).value) = Cut(s, i + 1, i + 2)
           ELSE Refuses(erase_index(v, i), v, {307, 401})
      /\ \A k \in keys :
           IF v.type # "object" THEN Refuses(erase_key(v, k), v, {307})
           ELSE erase_key(v, k) = Done(Object([l \in DOMAIN v.members \ {k} |-> v.members[l]]), count(v, k))
      /\ Refuses(erase(v, begin(w, "other")), v, {202})
      /\ Refuses(erase_range(v, begin(v, This), end(w, "other")), v, {203})

(* What is inserted stands before the position, in its order; a range of   *)
(* a value that is no array is left out here.                              *)
Inserts(v, w) ==
  LET it == Iterators(v, This)
      its == Iterators(w, "other")
      t == Items(w)
      Checked(o, i, x) == IF v.type = "array" THEN Gives(o, Put(v.elements, i, x), i) ELSE Refuses(o, v, {309})
  IN  \A i \in DOMAIN it :
        /\ Checked(insert(v, it[i], w), i, <<w>>)
        /\ Checked(insert_count(v, it[i], 2, w), i, <<w, w>>)
        /\ Checked(insert_list(v, it[i], t), i, t)
        /\ w.type = "array" => \A a \in DOMAIN its : \A b \in a .. Len(its) :
             Checked(insert_range(v, it[i], w, its[a], its[b]), i, SubSeq(t, a, b - 1))
        /\ Refuses(insert_range(v, it[i], w, its[1], it[1]), v, {309, 210})
        /\ Refuses(insert_range(v, it[i], v, it[1], it[i]), v, {309, 211})
        /\ Refuses(insert(v, its[1], v), v, {309, 202})

(* null takes whatever is added; a value that is there is kept or, by      *)
(* update(), replaced.  An update that is refused leaves the items.        *)
Adds(v, w, keys) ==
  LET its == Iterators(w, "other")
      Appended(o, ids) ==
        IF v.type \in {"null", "array"} THEN o.thrown = 0 /\ o.value = Array(Append(Items(v), w))
        ELSE Refuses(o, v, ids)
      old == IF v.type = "object" THEN v.members ELSE <<>>
      some(a, b) == {Labels(w)[n] : n \in a .. b - 1}
      Has(o, ks, new(_)) ==
        /\ o.thrown = 0 /\ o.value.type = "object" /\ DOMAIN o.value.members = DOMAIN old \cup ks
        /\ \A k \in DOMAIN old \cup ks : o.value.members[k] = IF k \in ks THEN new(k) ELSE old[k]
      Kept(k) == IF k \in DOMAIN old THEN old[k] ELSE IF w.type = "object" THEN w.members[k] ELSE w
      First(k) == IF k \in DOMAIN old THEN old[k] ELSE w
      Taken(k) == w.members[k]
      Updated(o, ks) == IF v.type \in {"null", "object"} /\ w.type = "object" THEN Has(o, ks, Taken)
                        ELSE o.thrown \in {202, 312} /\ Items(o.value) = Items(v)
  IN  /\ Appended(push_back(v, w), {308}) /\ Appended(emplace_back(v, w), {311})
      /\ v.type # "object" /\ w.type = "array" /\ (\E i \in DOMAIN w.elements : ~IsPair(w.elements[i])) =>
           Appended(push_back_list(v, w.elements), {308})
      /\ \A k \in keys :
           IF v.type \in {"null", "object"}
           THEN /\ Has(push_back_member(v, k, w), {k}, First)
                /\ Has(emplace(v, k, w), {k}, First)
                /\ emplace(v, k, w).returned = <<find(emplace(v, k, w).value, k), k \notin DOMAIN old>>
                /\ v.type = "object" => Has(push_back_list(v, <<String(k), w>>), {k}, First)
           ELSE Refuses(push_back_member(v, k, w), v, {308}) /\ Refuses(emplace(v, k, w), v, {311})
      /\ Updated(update(v, w), DOMAIN (IF w.type = "object" THEN w.members ELSE <<>>))
      /\ \A a \in DOMAIN its : \A b \in a .. Len(its) :
           /\ Updated(update_range(v, w, its[a], its[b]), some(a, b))
           /\ IF v.type = "object" /\ w.type = "object" THEN Has(insert_members(v, w, its[a], its[b]), some(a, b), Kept)
              ELSE Refuses(insert_members(v, w, its[a], its[b]), v, {309, 202})

(* basic_json(value_t): the value a type begins with.                      *)
Initial(type) ==
  CASE type = "boolean" -> Boolean(FALSE)
    [] type = "string" -> String(<<>>)
    [] type = "number_integer" -> Integer(0)
    [] type = "number_unsigned" -> Unsigned(0)
    [] type = "number_float" -> Float(FALSE, <<>>, 0)
    [] type = "binary" -> Binary(<<>>, NoSubtype)
    [] type = "array" -> Array(<<>>)
    [] type = "object" -> Object(<<>>)
    [] OTHER -> [type |-> type]

(* A range makes a value of the same type with the items in it, and pairs  *)
(* of keys and items make the object again.  clear() makes the value that  *)
(* its type begins with, but for a subtype, which is left out here.        *)
Makes(v) ==
  LET it == Iterators(v, This)
      s == Items(v)
      pairs == [i \in DOMAIN s |-> Array(<<String(Labels(v)[i]), s[i]>>)]
  IN  /\ \A i \in DOMAIN it : \A j \in i .. Len(it) :
           LET o == from_range(v, it[i], it[j])
           IN  IF IsStructured(v) THEN o.thrown = 0 /\ o.value.type = v.type /\ Items(o.value) = SubSeq(s, i, j - 1)
               ELSE o = Ok(v) \/ (o.thrown \in {204, 206} /\ (i = j \/ v = Discarded))
      /\ v.type = "object" => from_list(pairs, TRUE, "array") = Ok(v)
      /\ from_list(s, FALSE, "array") = Ok(Array(s))
      /\ v.type = "binary" => clear(v).type = "binary" /\ clear(v).bytes = <<>>
      /\ v.type # "binary" => clear(v) = Initial(v.type)

Changes(v, w, keys) == Erases(v, w, keys) /\ Inserts(v, w) /\ Adds(v, w, keys) /\ Makes(v)
===============================================================================

-------------------------------- MODULE JsonPatch --------------------------------
(***************************************************************************)
(* JSON Patch, JSON Merge Patch and the comparison of values (json.hpp:    *)
(* 23751-24000, 25830-26340).  patch() is a loop over the operations of a  *)
(* patch that works on a copy of the value, one action for an operation.   *)
(* The members of an operation are named by strings of TLA+, and so is     *)
(* what its member op says.                                                *)
(***************************************************************************)
EXTENDS JsonPointer

CONSTANT MantissaBits      (* of number_float_t                            *)
ASSUME MantissaBitsAssumption == MantissaBits \in Nat \ {0}

VARIABLES
  original,                (* what patch() is called on                     *)
  json_patch,              (* its argument                                  *)
  result,                  (* the copy                                      *)
  next,                    (* the operation the loop has come to            *)
  thrown                   (* 0, or the exception that left patch()         *)
vars == <<original, json_patch, result, next, thrown>>

-------------------------------------------------------------------------------
(* Comparison                                                              *)

IsNumberType(v) == v.type \in {"number_integer", "number_unsigned", "number_float"}

(* static_cast<number_integer_t>: the upper half of the unsigned numbers   *)
(* becomes negative.                                                       *)
AsInteger(n) == IF n >= 2 ^ (IntegerBits - 1) THEN n - 2 ^ IntegerBits ELSE n

(* -1, 0 or 1 as the left number is less, equal or greater; 2 when one of  *)
(* them is not a number.  Floats are compared by the texts they stand for. *)
Sign(n) == IF n < 0 THEN -1 ELSE IF n > 0 THEN 1 ELSE 0
Compared(m, n) == Sign(m - n)
Scaled(v, e) == (IF v.negative THEN -1 ELSE 1) * Value(v.digits) * 10 ^ (v.exponent - e)
(* The nearest number of MantissaBits, of two the even one.                *)
Rounded(n) ==
  LET unit == 2 ^ Max({0} \cup {b \in 1 .. IntegerBits : 2 ^ (b + MantissaBits - 1) <= n})
      down == n \div unit
      rest == n % unit
  IN  unit * (IF 2 * rest > unit \/ (2 * rest = unit /\ down % 2 = 1) THEN down + 1 ELSE down)
(* A fault: the sign of an integer is lost.                                *)
AsFloatUnsigned(v) ==
  IF v.type = "number_float" THEN v
  ELSE Float(FALSE, ToDecimal(Rounded(IF v.number < 0 THEN -v.number ELSE v.number)), 0)
(* static_cast<number_float_t>                                             *)
AsFloat(v) ==
  IF v.type = "number_float" THEN v
  ELSE Float(v.number < 0, ToDecimal(Rounded(IF v.number < 0 THEN -v.number ELSE v.number)), 0)
ComparedFloats(v, w) ==
  LET e == IF v.exponent < w.exponent THEN v.exponent ELSE w.exponent
      size(f) == IF f.finite THEN 0 ELSE IF f.negative THEN -1 ELSE 1
  IN  IF v = NaN \/ w = NaN THEN 2
      ELSE IF ~v.finite \/ ~w.finite THEN Compared(size(v), size(w))
      ELSE Compared(Scaled(v, e), Scaled(w, e))
ComparedNumbers(v, w) ==
  CASE v.type = "number_float" \/ w.type = "number_float" -> ComparedFloats(AsFloat(v), AsFloat(w))
    [] v.type = w.type /\ v.type # "number_float" -> Compared(v.number, w.number)
    [] OTHER -> Compared(IF v.type = "number_unsigned" THEN AsInteger(v.number) ELSE v.number,
                         IF w.type = "number_unsigned" THEN AsInteger(w.number) ELSE w.number)

(* operator== *)
RECURSIVE Equal(_, _)
Equal(v, w) ==
  CASE IsNumberType(v) /\ IsNumberType(w) -> ComparedNumbers(v, w) = 0
    [] v.type = "array" /\ w.type = "array" ->
         Len(v.elements) = Len(w.elements) /\ \A i \in DOMAIN v.elements : Equal(v.elements[i], w.elements[i])
    [] v.type = "object" /\ w.type = "object" ->
         DOMAIN v.members = DOMAIN w.members /\ \A k \in DOMAIN v.members : Equal(v.members[k], w.members[k])
    [] v.type = "discarded" -> FALSE
    [] OTHER -> v = w

TypeOrder == [null |-> 0, boolean |-> 1, number_integer |-> 2, number_unsigned |-> 2, number_float |-> 2,
              object |-> 3, array |-> 4, string |-> 5, binary |-> 6]

(* std::lexicographical_compare: the first place where they differ by      *)
(* less() decides, or the lengths.                                         *)
Lexicographic(s, t, less(_, _)) ==
  LET common == DOMAIN s \cap DOMAIN t
      apart == {n \in common : less(s[n], t[n]) \/ less(t[n], s[n])}
  IN  IF apart = {} THEN Len(s) < Len(t) ELSE less(s[Min(apart)], t[Min(apart)])

(* operator<: a member of an object is the pair of its key and its value.  *)
RECURSIVE Less(_, _)
Less(v, w) ==
  LET members(u) == [i \in DOMAIN Keys(u.members) |-> <<Keys(u.members)[i], u.members[Keys(u.members)[i]]>>]
      lessMember(a, b) == Before(a[1], b[1]) \/ (~Before(b[1], a[1]) /\ Less(a[2], b[2]))
      lessByte(a, b) == a < b
  IN  CASE IsNumberType(v) /\ IsNumberType(w) -> ComparedNumbers(v, w) = -1
        [] v.type = w.type /\ v.type = "array" -> Lexicographic(v.elements, w.elements, Less)
        [] v.type = w.type /\ v.type = "object" -> Lexicographic(members(v), members(w), lessMember)
        [] v.type = w.type /\ v.type = "string" -> Lexicographic(v.string, w.string, lessByte)
        [] v.type = w.type /\ v.type = "binary" -> Lexicographic(v.bytes, w.bytes, lessByte)
        [] v.type = w.type /\ v.type = "boolean" -> ~v.boolean /\ w.boolean
        [] v.type = w.type /\ v.type \in {"null", "discarded"} -> FALSE
        [] OTHER -> /\ {v.type, w.type} \subseteq DOMAIN TypeOrder
                    /\ TypeOrder[v.type] < TypeOrder[w.type]

-------------------------------------------------------------------------------
(* Changes of a document: operation_add and operation_remove, with the     *)
(* document that is changed                                                *)

(* parent with the value added at the last token: the new parent.          *)
AddLast(parent, token, v) ==
  LET i == array_index(token)
  IN  CASE parent.type \in {"null", "object"} ->
             Ok(Object((token :> v) @@ Key_(parent, token).value.members))
        [] parent.type = "array" /\ token = Dash -> Ok(Array(Append(parent.elements, v)))
        [] parent.type = "array" /\ token # Dash ->
             IF i.thrown # 0 THEN i ELSE IF i.value > Len(parent.elements) THEN Throw(401)
             ELSE Ok(Array(InsertAt(parent.elements, i.value + 1, v)))
        [] OTHER -> Throw(Aborted)

operation_add(j, tokens, v) ==
  LET top  == get_checked(j, SubSeq(tokens, 1, 1))
      way  == get_unchecked(j, Front(tokens))
      last == AddLast(Deref(way.j, way.ref), Last(tokens), v)
  IN  IF tokens = <<>> THEN Ok(v)
      ELSE IF Len(tokens) > 1 /\ top.thrown # 0 THEN Throw(top.thrown)
      ELSE IF way.thrown # 0 THEN Throw(way.thrown)
      ELSE IF last.thrown # 0 THEN last
      ELSE Ok(Assign(way.j, way.ref, last.value))

(* parent without what the last token says; a parent that is no container  *)
(* stays as it is.                                                         *)
RemoveLast(parent, token) ==
  LET i == array_index(token)
  IN  CASE parent.type = "object" ->
             IF token \in DOMAIN parent.members
             THEN Ok(Object([k \in DOMAIN parent.members \ {token} |-> parent.members[k]])) ELSE Throw(403)
        [] parent.type = "array" ->
             IF i.thrown # 0 THEN i ELSE IF i.value >= Len(parent.elements) THEN Throw(401)
             ELSE Ok(Array(RemoveAt(parent.elements, i.value + 1)))
        [] OTHER -> Ok(parent)

operation_remove(j, tokens) ==
  LET way  == get_checked(j, Front(tokens))
      last == RemoveLast(Deref(way.j, way.ref), Last(tokens))
  IN  IF tokens = <<>> THEN Throw(405)
      ELSE IF way.thrown # 0 THEN Throw(way.thrown)
      ELSE IF last.thrown # 0 THEN last
      ELSE Ok(Assign(way.j, way.ref, last.value))

-------------------------------------------------------------------------------
(* The operations of a patch                                               *)

val == json_patch.elements[next]
Running == json_patch.type = "array" /\ next <= Len(json_patch.elements) /\ thrown = 0

get_value(member, string_type) ==
  CASE member \notin DOMAIN val.members -> Throw(105)
    [] member \in DOMAIN val.members /\ string_type /\ val.members[member].type # "string" -> Throw(105)
    [] OTHER -> Ok(val.members[member])

(* What a member that is to be a pointer says.                             *)
Pointer(member) ==
  LET s == get_value(member, TRUE) IN IF s.thrown # 0 THEN s ELSE split(s.value.string)

(* The operation of that name, with a path, is the next one.               *)
get_op == val.members["op"].string
Is(op) ==
  /\ Running /\ val.type = "object" /\ get_value("op", TRUE).thrown = 0
  /\ get_op = op /\ Pointer("path").thrown = 0
ptr == Pointer("path").value

(* What follows o, unless o threw.                                         *)
Then(o, following) == IF o.thrown # 0 THEN o ELSE following

Outcome(o) ==
  /\ thrown' = o.thrown
  /\ result' = IF o.thrown = 0 THEN o.value ELSE result
  /\ next' = next + 1
  /\ UNCHANGED <<original, json_patch>>

add ==
  /\ Is("add")
  /\ LET value == get_value("value", FALSE)
     IN  Outcome(Then(value, operation_add(result, ptr, value.value)))

remove == Is("remove") /\ Outcome(operation_remove(result, ptr))

(* The two sides of the assignment are evaluated in either order.          *)
replace ==
  /\ Is("replace")
  /\ LET value == get_value("value", FALSE)
         way == get_checked(result, ptr)
     IN  IF value.thrown = 0 /\ way.thrown = 0 THEN Outcome(Ok(Assign(way.j, way.ref, value.value)))
         ELSE \E id \in {value.thrown, way.thrown} \ {0} : Outcome(Throw(id))


move ==
  /\ Is("move")
  /\ LET from  == Pointer("from")
         value == at(result, from.value)
         left  == operation_remove(result, from.value)
     IN  Outcome(Then(from, Then(value, Then(left, operation_add(left.value, ptr, value.value)))))

copy ==
  /\ Is("copy")
  /\ LET from  == Pointer("from")
         value == at(result, from.value)
     IN  Outcome(Then(from, Then(value, operation_add(result, ptr, value.value))))

(* An out_of_range exception is an unsuccessful test, another leaves.  The *)
(* two sides of the comparison are evaluated in either order.              *)
OutOfRange == 401 .. 499
test ==
  /\ Is("test")
  /\ LET is     == at(result, ptr)
         should == get_value("value", FALSE)
     IN  IF is.thrown = 0 /\ should.thrown = 0
         THEN Outcome(IF Equal(is.value, should.value) THEN Ok(result) ELSE Throw(501))
         ELSE \E id \in {is.thrown, should.thrown} \ {0} :
                Outcome(Throw(IF id \in OutOfRange THEN 501 ELSE id))

(* What is no operation: no object, no name, no path or no pointer in it,  *)
(* an unknown name.                                                        *)
invalid ==
  /\ Running
  /\ CASE val.type # "object" -> Outcome(Throw(104))
       [] val.type = "object" /\ get_value("op", TRUE).thrown # 0 -> Outcome(get_value("op", TRUE))
       [] OTHER -> IF Pointer("path").thrown # 0 THEN Outcome(Pointer("path"))
                   ELSE /\ get_op \notin {"add", "remove", "replace", "move", "copy", "test"}
                        /\ Outcome(Throw(105))

NoPatch ==
  /\ json_patch.type # "array" /\ thrown = 0
  /\ thrown' = 104
  /\ UNCHANGED <<original, json_patch, result, next>>

Init == /\ result = original /\ next = 1 /\ thrown = 0

Next == add \/ remove \/ replace \/ move \/ copy \/ test \/ invalid \/ NoPatch

Finished == thrown = 0 /\ json_patch.type = "array" /\ next > Len(json_patch.elements)

-------------------------------------------------------------------------------
(* diff() and merge_patch()                                                *)

Operation(op, path) == [type |-> "object", members |-> [op |-> String(op), path |-> String(path)]]
WithValue(op, path, v) ==
  [type |-> "object", members |-> [op |-> String(op), path |-> String(path), value |-> v]]

RECURSIVE diff(_, _, _)
(* A fault: elements are removed from the first on.                        *)
RemovesForwards(source, target, path) ==
  [i \in 1 .. Len(source.elements) - Len(target.elements) |->
     Operation("remove", path \o <<Slash>> \o ToDecimal(Len(target.elements) + i - 1))]
(* From the last element on: each removal leaves the indexes before it.    *)
Removes(source, target, path) ==
  [i \in 1 .. Len(source.elements) - Len(target.elements) |->
     Operation("remove", path \o <<Slash>> \o ToDecimal(Len(source.elements) - i))]

ArrayDiff(source, target, path) ==
  LET common == [i \in DOMAIN source.elements \cap DOMAIN target.elements |->
                   diff(source.elements[i], target.elements[i], path \o <<Slash>> \o ToDecimal(i - 1))]
      adds == [i \in 1 .. Len(target.elements) - Len(source.elements) |->
                 WithValue("add", path \o <<Slash>> \o Dash, target.elements[Len(source.elements) + i])]
  IN  FlattenSeq(common) \o Removes(source, target, path) \o adds
ObjectDiff(source, target, path) ==
  LET path_key(k) == path \o <<Slash>> \o escape(k)
      mine(k) == IF k \in DOMAIN target.members
                 THEN diff(source.members[k], target.members[k], path_key(k))
                 ELSE <<Operation("remove", path_key(k))>>
      new == SelectSeq(Keys(target.members), LAMBDA k : k \notin DOMAIN source.members)
      sources == Keys(source.members)
  IN  FlattenSeq([i \in DOMAIN sources |-> mine(sources[i])])
      \o [i \in DOMAIN new |-> WithValue("add", path_key(new[i]), target.members[new[i]])]
diff(source, target, path) ==
  CASE Equal(source, target) -> <<>>
    [] ~Equal(source, target) /\ source.type = target.type /\ source.type = "array" ->
         ArrayDiff(source, target, path)
    [] ~Equal(source, target) /\ source.type = target.type /\ source.type = "object" ->
         ObjectDiff(source, target, path)
    [] OTHER -> <<WithValue("replace", path, target)>>

RECURSIVE merge_patch(_, _)
(* A fault: what is new is taken with the nulls in it.                     *)
NewAsItIs(members, k, w) == IF k \in DOMAIN members THEN merge_patch(members[k], w) ELSE w
(* operator[] adds a null for a member that is not there yet.              *)
MergedMember(members, k, w) == merge_patch(Key_(Object(members), k).value.members[k], w)
merge_patch(v, patch) ==
  LET Merged(members, k) ==
        IF patch.members[k].type = "null" THEN [l \in DOMAIN members \ {k} |-> members[l]]
        ELSE (k :> MergedMember(members, k, patch.members[k])) @@ members
  IN  IF patch.type # "object" THEN patch
      ELSE Object(FoldLeft(Merged, IF v.type = "object" THEN v.members ELSE <<>>, Keys(patch.members)))
===============================================================================

------------------------------- MODULE MCJsonEdits -------------------------------
(* Patches of small documents: those that diff() makes, and single operations,  *)
(* right ones and wrong ones; and the calls of a container, with its iterators. *)
EXTENDS JsonPatch, JsonItems

VARIABLE target            (* what the patch was made for, or what is compared   *)
mcvars == <<vars, target>>

-------------------------------------------------------------------------------
(* The instance                                                                 *)

KeyA == <<97>>
KeyB == <<98>>
Key0 == <<Zero>>
Odd  == <<Tilde, Zero + 1, Slash>>      (* a key that has to be escaped          *)
Keyed == {KeyA, Key0, Odd, <<>>}
N(n) == Integer(n)

Leaves == {Null, N(1), N(2)}
Shallow == Leaves \cup {Array(<<>>), Object(<<>>), Array(<<N(1)>>), Array(<<N(2), Null>>),
                        Array(<<N(2), N(1), N(1)>>), Object(KeyA :> N(1)), Object(Key0 :> Null)}
Deep == Shallow
  \cup {Array(<<v, w>>) : v \in Shallow, w \in {N(1), Array(<<N(1)>>), Object(KeyA :> N(1))}}
  \cup {Object((k :> v) @@ (KeyB :> w)) : k \in Keyed, v \in Shallow, w \in {N(1), Array(<<N(1)>>)}}
Documents == Shallow \cup {Array(<<Array(<<N(2)>>), N(1)>>), Array(<<Object(KeyA :> N(1)), Null>>),
                           Object((KeyA :> Object(KeyB :> Null)) @@ (Odd :> N(1))),
                           Object(KeyA :> Array(<<N(1), N(2)>>))}

Small == Float(FALSE, <<53>>, -1)
Half == 2 ^ (IntegerBits - 1)
Numbers_ == {N(-1), N(1), Unsigned(1), Small, Float(FALSE, <<49>>, 0), Float(TRUE, <<>>, 0),
             Infinite(FALSE), Infinite(TRUE), NaN, N(0), N(Half - 1), Unsigned(Half - 1), Unsigned(Half),
             Unsigned(Largest), Float(FALSE, ToDecimal(Half), 0)}
Others == Numbers_ \cup Leaves \cup {Discarded, Boolean(FALSE), Boolean(TRUE), String(KeyA), String(Odd),
           String(<<97, 97>>), Binary(KeyA, NoSubtype), Binary(KeyB, 1), Binary(KeyA, 1), Object(KeyA :> N(2)),
           Object(KeyB :> N(1)), Object(KeyA :> NaN), Array(<<Unsigned(1)>>)}

Containers == Others \cup Shallow
              \cup {Object((KeyA :> N(2)) @@ (Key0 :> v) @@ (<<>> :> N(1))) : v \in {Null, Array(<<N(1)>>)}}

Tokens == {KeyA, KeyB, Key0, <<Zero + 1>>, <<Zero + 2>>, Dash, <<>>, Odd}
Long == {<<KeyA, KeyB, KeyA>>, <<Key0, KeyA, KeyB>>, <<Key0, Key0, Key0>>, <<KeyA, Dash, <<Zero + 3>>>>}
Huge == {ToDecimal(Largest), ToDecimal(Largest + 1)}
Pointers == {<<>>} \cup {<<t>> : t \in Tokens \cup Huge \cup {<<Zero, Zero>>, <<97, Zero>>, <<Zero + 1, 97>>}}
            \cup {<<s, t>> : s \in {KeyA, Key0, Dash} \cup Huge, t \in Tokens} \cup Long
Targets == {<<>>, <<KeyA>>, <<Key0>>, <<<<Zero + 1>>>>} \cup {<<KeyA, KeyB>>, <<Key0, KeyA>>, <<Key0, Key0>>}
Texts == {<<97>>, <<Slash, Tilde>>, <<Slash, Tilde, Zero + 2>>}

Op(members) == [type |-> "object", members |-> members]
P(tokens) == String(to_string(tokens))
Ops ==
  {Op([op |-> String(o), path |-> P(p), value |-> v]) :
     o \in {"add", "replace", "test"}, p \in Pointers, v \in {Null, N(1), Array(<<N(1)>>)}}
  \cup {Op([op |-> String("remove"), path |-> P(p)]) : p \in Pointers}
  \cup {Op([op |-> String(o), path |-> P(p), from |-> P(f)]) :
          o \in {"move", "copy"}, p \in Pointers, f \in Targets}
Wrong ==
  {Null, Op([path |-> P(<<>>)]), Op([op |-> N(1), path |-> P(<<>>)]), Op([op |-> String("add")]),
   Op([op |-> String("test"), path |-> N(1)])}
  \cup {Op([op |-> String(o), path |-> P(<<>>)]) : o \in {"add", "replace", "move", "copy", "test", "sort"}}
  \cup {Op([op |-> String("test"), path |-> P(p)]) : p \in Targets}
  \cup {Op([op |-> String("remove"), path |-> String(s)]) : s \in Texts}
  \cup {Op([op |-> String("copy"), path |-> P(<<>>), from |-> String(s)]) : s \in Texts}

MCInit ==
  /\ \/ /\ original \in Deep /\ target \in Deep
        /\ json_patch = Array(diff(original, target, <<>>))
     \/ /\ original \in Containers /\ target \in Containers
        /\ json_patch = Array(diff(original, target, <<>>))
     \/ /\ original \in Documents /\ target = original
        /\ json_patch \in {Array(<<o>>) : o \in Ops \cup Wrong} \cup {Null, Op(<<>>)}
  /\ Init
MCNext ==
  \/ add /\ UNCHANGED target
  \/ remove /\ UNCHANGED target
  \/ replace /\ UNCHANGED target
  \/ move /\ UNCHANGED target
  \/ copy /\ UNCHANGED target
  \/ test /\ UNCHANGED target
  \/ invalid /\ UNCHANGED target
  \/ NoPatch /\ UNCHANGED target
MCSpec == MCInit /\ [][MCNext]_mcvars

(* What has to be looked at once for a document, or for a pair of them.         *)
Alone  == json_patch = Array(<<>>)
Paired == next = 1 /\ (Alone \/ target # original)
IsDiff == json_patch.type = "array" /\ json_patch.elements = diff(original, target, <<>>)

-------------------------------------------------------------------------------
(* What RFC 6902 says an operation does: the set of the document it makes, or   *)
(* nothing when it is an error.  Locations are looked for from the root.        *)

RECURSIVE Located(_, _)
Child(v, token) ==
  CASE v.type = "object" -> {v.members[k] : k \in {token} \cap DOMAIN v.members}
    [] v.type = "array" -> {v.elements[i] : i \in {n \in DOMAIN v.elements : ToDecimal(n - 1) = token}}
    [] OTHER -> {}
Located(v, tokens) ==
  IF tokens = <<>> THEN {v} ELSE UNION {Located(w, Tail(tokens)) : w \in Child(v, tokens[1])}

WithChild(v, token, w) ==
  IF v.type = "object" THEN Object([v.members EXCEPT ![token] = w])
  ELSE Array([i \in DOMAIN v.elements |-> IF ToDecimal(i - 1) = token THEN w ELSE v.elements[i]])

RECURSIVE RfcAdd(_, _, _), RfcRemove(_, _), RfcReplace(_, _, _)
RfcAdd(doc, tokens, v) ==
  CASE tokens = <<>> -> {v}
    [] Len(tokens) = 1 /\ doc.type = "object" -> {Object((tokens[1] :> v) @@ doc.members)}
    [] Len(tokens) = 1 /\ doc.type = "array" ->
         {Array(SubSeq(doc.elements, 1, n) \o <<v>> \o From(doc.elements, n + 1)) :
            n \in {m \in 0 .. Len(doc.elements) :
                     ToDecimal(m) = tokens[1] \/ (tokens[1] = Dash /\ m = Len(doc.elements))}}
    [] OTHER -> UNION {{WithChild(doc, tokens[1], d) : d \in RfcAdd(c, Tail(tokens), v)} :
                         c \in Child(doc, tokens[1])}
RfcRemove(doc, tokens) ==
  CASE tokens = <<>> -> {}
    [] Len(tokens) = 1 /\ doc.type = "object" ->
         {Object([k \in DOMAIN doc.members \ {t} |-> doc.members[k]]) : t \in {tokens[1]} \cap DOMAIN doc.members}
    [] Len(tokens) = 1 /\ doc.type = "array" ->
         {Array(SubSeq(doc.elements, 1, n - 1) \o From(doc.elements, n + 1)) :
            n \in {m \in DOMAIN doc.elements : ToDecimal(m - 1) = tokens[1]}}
    [] OTHER -> UNION {{WithChild(doc, tokens[1], d) : d \in RfcRemove(c, Tail(tokens))} :
                         c \in Child(doc, tokens[1])}

RfcReplace(doc, tokens, v) ==
  IF tokens = <<>> THEN {v}
  ELSE UNION {{WithChild(doc, tokens[1], d) : d \in RfcReplace(c, Tail(tokens), v)} : c \in Child(doc, tokens[1])}

ToldBy(o, member) == split(o.members[member].string).value
WellFormed(o) ==
  /\ o.type = "object" /\ {"op", "path"} \subseteq DOMAIN o.members /\ o.members["op"].type = "string"
  /\ o.members["op"].string \in {"add", "remove", "replace", "move", "copy", "test"}
  /\ o.members["op"].string \in {"add", "replace", "test"} => "value" \in DOMAIN o.members
  /\ o.members["op"].string \in {"move", "copy"} => "from" \in DOMAIN o.members
  /\ \A member \in {"path", "from"} \cap DOMAIN o.members :
       o.members[member].type = "string" /\ split(o.members[member].string).thrown = 0
Rfc(doc, o) ==
  LET op == o.members["op"].string
      path == ToldBy(o, "path")
      from == ToldBy(o, "from")
  IN  CASE op = "add" -> RfcAdd(doc, path, o.members["value"])
        [] op = "remove" -> RfcRemove(doc, path)
        [] op = "replace" -> RfcReplace(doc, path, o.members["value"])
        [] op = "copy" -> UNION {RfcAdd(doc, path, v) : v \in Located(doc, from)}
        [] op = "test" -> {doc : v \in {w \in Located(doc, path) : Equal(w, o.members["value"])}}
        [] op = "move" -> IF IsStrictPrefix(from, path) THEN {}
                          ELSE UNION {RfcAdd(d, path, v) : d \in RfcRemove(doc, from), v \in Located(doc, from)}

(* The documents an operation adds to, and the values a path leads to there but *)
(* for its last token.                                                          *)
Before_(doc, o) ==
  IF o.members["op"].string = "move" THEN RfcRemove(doc, ToldBy(o, "from")) ELSE {doc}
Parents(d, path) == Located(d, Front(path))

(* What the library does instead of an error.  It makes containers on the way   *)
(* to a location when the first token leads somewhere, or out of a null; it     *)
(* moves a value to a place below the one it was at; and it removes nothing     *)
(* from a value that is no container.                                           *)
Lenient(doc, o) ==
  LET op == o.members["op"].string
      path == ToldBy(o, "path")
      from == ToldBy(o, "from")
      before == Before_(doc, o)
      parents(d) == Parents(d, path)
  IN  path # <<>> /\
        CASE op \in {"add", "copy", "move"} ->
               \/ \E d \in before : Null \in parents(d) \/ (Len(path) > 2 /\ parents(d) = {})
               \/ op = "move" /\ IsStrictPrefix(from, path)
          [] op = "remove" -> \E p \in parents(doc) : IsPrimitive(p)
          [] OTHER -> FALSE

(* Where it does not even throw, but fails its own assertion: it is to add to a *)
(* value that is neither a container nor null (see ParentIsContainer).          *)
Asserts(doc, o) ==
  LET path == ToldBy(o, "path")
  IN  /\ path # <<>> /\ o.members["op"].string \in {"add", "copy", "move"}
      /\ o.members["op"].string = "copy" => Located(doc, ToldBy(o, "from")) # {}
      /\ \E d \in Before_(doc, o) : \E p \in Parents(d, path) : IsPrimitive(p) /\ p # Null

-------------------------------------------------------------------------------
(* The properties                                                               *)

(* Each operation of a patch does what RFC 6902 says, and what is an error      *)
(* there throws an exception, but for what Lenient names; or it fails the       *)
(* assertion of operation_add, that a parent is never primitive, just where     *)
(* Asserts says (json.hpp:25860-26090, 25922-25931; see ParentIsContainer).     *)
Throws == thrown' \notin {0, Aborted}
Correct ==
  IF json_patch.type # "array" \/ ~WellFormed(val) THEN Throws
  ELSE IF Rfc(result, val) = {}
       THEN /\ thrown' = Aborted <=> Asserts(result, val)
            /\ thrown' = 0 => Lenient(result, val)
       ELSE thrown' = 0 /\ Rfc(result, val) = {result'}

(* The patch that diff() makes turns its source into its target, whatever is    *)
(* removed and added on the way: indexes stay right, keys are escaped.  Only    *)
(* values that do not equal themselves are left out (json.hpp:26136-26275).     *)
DiffPatches ==
  IsDiff /\ Equal(target, target) => thrown = 0 /\ (Finished => Equal(result, target))


RECURSIVE Inner(_)
Inner(v) ==
  {v} \cup CASE v.type = "array" -> UNION {Inner(v.elements[i]) : i \in DOMAIN v.elements}
             [] v.type = "object" -> UNION {Inner(v.members[k]) : k \in DOMAIN v.members}
             [] OTHER -> {}
(* An object whose first path begins with the key 0 comes back as an array.     *)
FirstPath(v) == LET m == Flattened(<<>>, v) IN CHOOSE p \in DOMAIN m : \A q \in DOMAIN m \ {p} : Before(p, q)
Restorable(v) ==
  \A w \in Inner(v) :
    /\ w # Discarded /\ w # Array(<<>>) /\ w # Object(<<>>)
    /\ w.type = "object" => split(FirstPath(w)).value[1] # Key0

RECURSIVE RfcMerge(_, _)
RfcMerge(v, patch) ==
  LET old == IF v.type = "object" THEN v.members ELSE <<>>
      new == patch.members
  IN  IF patch.type # "object" THEN patch
      ELSE Object([k \in {l \in DOMAIN old \cup DOMAIN new : l \in DOMAIN new => new[l] # Null} |->
                     IF k \notin DOMAIN new THEN old[k]
                     ELSE IF k \in DOMAIN old THEN RfcMerge(old[k], new[k]) ELSE RfcMerge(Null, new[k])])
(* merge_patch() is the algorithm of RFC 7396, and merging a patch again        *)
(* changes nothing (json.hpp:26319-26345).                                      *)
MergeIsRfc ==
  Paired => LET merged == merge_patch(original, target)
            IN  merged = RfcMerge(original, target) /\ merge_patch(merged, target) = merged

(* operator< and operator== fit together, though they are written apart and     *)
(* convert numbers case by case: of two values just one of <, > and == holds.   *)
(* Of three values < is transitive when the conversions of the numbers in them  *)
(* are exact: no unsigned number is too large for a signed one, and each        *)
(* integer is a float; where they are not it is not: see LessIsTransitive.      *)
(* Values that do not equal themselves are left out, and binary values that     *)
(* differ in the subtype only (json.hpp:23751-23825, 23912-23990).              *)
Ordered(v, w) == Less(v, w) \/ Less(w, v) \/ Equal(v, w)
SameBytes(v, w) == v.type = "binary" /\ w.type = "binary" /\ v.bytes = w.bytes /\ v # w
Exact(v) ==
  \A n \in {u \in Inner(v) : u.type \in {"number_integer", "number_unsigned"}} :
    n.number < Half /\ LET m == IF n.number < 0 THEN -n.number ELSE n.number IN Rounded(m) = m
OrderIsTotal ==
  Paired /\ Equal(original, original) /\ Equal(target, target) /\ ~SameBytes(original, target) =>
    /\ Ordered(original, target)
    /\ Less(original, target) => ~Less(target, original) /\ ~Equal(original, target)
    /\ Exact(original) /\ Exact(target) /\ Less(original, target) =>
         \A w \in Others : Exact(w) /\ Equal(w, w) /\ Less(target, w) => Less(original, w)

(* The iterators of a value are the positions of its items: stepping,           *)
(* comparing, reading and looking up agree, for the value that has no item, the *)
(* one that is its own and the containers, from both ends                       *)
(* (json.hpp:11677-12221, 21510-22191).                                         *)
NavigatesItems == Alone => Navigates(original, Keyed)

(* What a call erases, inserts, adds or replaces is what it says, in its place; *)
(* the iterator it returns stands there; and a call that is refused leaves all  *)
(* as it was, but that null may have become an empty object.  What clear() and  *)
(* insert() are documented to do besides is in ClearIsInitial and               *)
(* InsertsAnyRange (json.hpp:21621-21884, 22767-23478).                         *)
ChangesItems ==
  Paired /\ {original, target} \subseteq Containers => Changes(original, target, Keyed)

-------------------------------------------------------------------------------
(* What the library's documentation and its assertions say, but its code does   *)
(* not do: TLC finds each of these violated on the instance of the run edits.   *)

(* "if there exists a parent it cannot be primitive" (json.hpp:25922), which    *)
(* operation_add asserts.  Adding below a number that is a member of an object  *)
(* fails the assertion (json.hpp:25887-25931).                                  *)
ParentIsContainer == thrown # Aborted

(* "return true if the JSON pointer can be resolved to a stored value, false    *)
(* otherwise" (json.hpp:22020-22021), where just 106 and 109 are said to be     *)
(* thrown (json.hpp:22025-22026).  An empty token and an index that is too      *)
(* large throw something else (json.hpp:12715-12733).                           *)
ContainsAnswers ==
  Alone => \A tokens \in Pointers : contains(original, tokens).thrown \in {0, 106, 109}

(* "Empty objects and arrays are flattened by flatten() to null and can not     *)
(* unflattened to their original type.  Apart from this example, for a JSON     *)
(* value j, the following is always true: j == j.flatten().unflatten()"         *)
(* (json.hpp:25752-25755).  An object with the one key 0 comes back as an array *)
(* (json.hpp:12757-12820).                                                      *)
UnflattenRestoresAll ==
  Alone /\ Equal(original, original) /\ {Array(<<>>), Object(<<>>)} \cap Inner(original) = {} =>
    LET u == unflatten(flatten(original)) IN u.thrown = 0 /\ Equal(u.value, original)

(* The values are LessThanComparable (json.hpp:17546): < is a strict weak       *)
(* ordering.  An unsigned number too large for a signed one is greater than     *)
(* other unsigned numbers, but less than signed ones (json.hpp:23979-23986).    *)
LessIsTransitive ==
  Paired => \A w \in Others :
    Less(original, target) /\ Less(target, w) => Less(original, w)

(* "Has the same effect as calling *this = basic_json(type())" (json.hpp:       *)
(* 22747-22750).  The subtype of a binary value stays (json.hpp:22801-22805).   *)
ClearIsInitial == Alone => clear(original) = Initial(original.type)

(* "Inserts elements from range [first, last) before iterator pos" (json.hpp:   *)
(* 23232).  Of a range in an object nothing is inserted (json.hpp:23284-23285). *)
InsertsAnyRange ==
  Paired /\ {original, target} \subseteq Containers /\ original.type = "array" =>
    LET o == insert_range(original, begin(original, This), target,
                          begin(target, "other"), end(target, "other"))
    IN  Gives(o, Items(target) \o original.elements, 1)
===============================================================================

------------------------------- MODULE JsonParser -------------------------------
(***************************************************************************)
(* The parser of the JSON library (json.hpp:10883-11330) and the three     *)
(* things it can drive: the parser that builds a value, the one that asks  *)
(* a callback what to keep, and the acceptor (json.hpp:5956-6530).         *)
(*                                                                         *)
(* One step is one call of get_token() and all that follows until the      *)
(* next; pc is the place of that call.  The values live in a heap, so that *)
(* the pointers ref_stack and object_element are what they are in the      *)
(* code: heap[1] is the result, and a value that nothing refers to any     *)
(* more stays in the heap.  The value of a number or a literal is the      *)
(* place of its token; a string is a number, its rank in the order of      *)
(* the keys of a map.                                                      *)
(*                                                                         *)
(* DiscardedStays, CloseKeepsState and SeparatorOptional are no part of    *)
(* the specification: each is the definition after it with a likely        *)
(* fault, against which a property was tried.                              *)
(***************************************************************************)
EXTENDS Integers, Sequences, SequencesExt, FiniteSets, JsonDocument

CONSTANTS
  Strings,     (* what strings can hold                                    *)
  Scalars,     (* tokens that are a value by themselves, but for strings   *)
  Cases        (* what to parse and how: who consumes the events, the two  *)
               (* switches, and for each place the tokens that may be there*)

ASSUME JsonParserAssumption ==
  /\ Strings \subseteq Nat
  /\ Scalars \subseteq {"literal_true", "literal_false", "literal_null", "value_unsigned",
                        "value_integer", "value_float", "infinite_float"}
  /\ \A c \in Cases : /\ c.consumer \in {"dom", "callback", "acceptor"}
                        /\ c.strict \in BOOLEAN /\ c.allow_exceptions \in BOOLEAN

VARIABLES
  consumer, strict, allow_exceptions,
  script,           (* the tokens that may come                            *)
  tokens,           (* history: the tokens that were read                  *)
  answers,          (* history: what the callback said at each of them     *)
  pc,
  states,           (* of the open containers: TRUE for an array           *)
  heap, ref_stack, object_element,
  keep_stack, key_keep_stack,
  outcome

parameters == <<consumer, strict, allow_exceptions, script>>
dom  == <<heap, ref_stack, object_element, keep_stack, key_keep_stack>>
vars == <<parameters, tokens, answers, pc, states, dom, outcome>>

NoRef == 0      (* the null pointer                                        *)

Null      == [type |-> "null"]
Discarded == [type |-> "discarded"]
Array     == [type |-> "array", elements |-> <<>>]
Object    == [type |-> "object", members |-> <<>>]
Structured(v) == v.type \in {"array", "object"}

Top == Last(ref_stack)

-------------------------------------------------------------------------------
(* json_sax_dom_parser                                                     *)

(* handle_value(): where the value goes, and the heap with it there.       *)
Emplaced(h, v) ==
  [heap |-> Append([h EXCEPT ![Top].elements = Append(@, Len(h) + 1)], v), ref |-> Len(h) + 1]

handle_value(v) ==
  IF ref_stack = <<>> THEN [heap |-> [heap EXCEPT ![1] = v], ref |-> 1]
  ELSE IF heap[Top].type = "array" THEN Emplaced(heap, v)
  ELSE [heap |-> [heap EXCEPT ![object_element] = v], ref |-> object_element]

DomValue(v) ==
  /\ heap' = handle_value(v).heap
  /\ UNCHANGED <<ref_stack, object_element, keep_stack, key_keep_stack>>

DomStart(v) ==
  /\ heap' = handle_value(v).heap
  /\ ref_stack' = Append(ref_stack, handle_value(v).ref)
  /\ UNCHANGED <<object_element, keep_stack, key_keep_stack>>

(* operator[]: the member of that key, a new one if there is none.         *)
Member(k) ==
  LET members == heap[Top].members
  IN  IF k \in DOMAIN members
      THEN object_element' = members[k] /\ UNCHANGED heap
      ELSE /\ object_element' = Len(heap) + 1
           /\ heap' = Append([heap EXCEPT ![Top].members =
                        [m \in DOMAIN members \cup {k} |->
                           IF m = k THEN Len(heap) + 1 ELSE members[m]]], Null)

DomKey(k) == Member(k) /\ UNCHANGED <<ref_stack, keep_stack, key_keep_stack>>

DomEnd ==
  /\ ref_stack' = Front(ref_stack)
  /\ UNCHANGED <<heap, object_element, keep_stack, key_keep_stack>>

-------------------------------------------------------------------------------
(* json_sax_dom_callback_parser; the answer of the callback is keep        *)

(* handle_value() after the callback agreed.                               *)
Kept(v, keeps) ==
  LET dropped == [heap |-> heap, ref |-> NoRef, keys |-> key_keep_stack]
  IN  IF ~Last(keeps) THEN dropped
      ELSE IF ref_stack = <<>>
           THEN [heap |-> [heap EXCEPT ![1] = v], ref |-> 1, keys |-> key_keep_stack]
      ELSE IF Top = NoRef THEN dropped
      ELSE IF heap[Top].type = "array"
           THEN [heap |-> Emplaced(heap, v).heap, ref |-> Emplaced(heap, v).ref, keys |-> key_keep_stack]
      ELSE IF Last(key_keep_stack)
           THEN [heap |-> [heap EXCEPT ![object_element] = v], ref |-> object_element,
                 keys |-> Front(key_keep_stack)]
      ELSE [dropped EXCEPT !.keys = Front(key_keep_stack)]

CallbackValue(v, keep) ==
  /\ ~Last(keep_stack) => keep      (* the callback is not asked            *)
  /\ IF keep
     THEN heap' = Kept(v, keep_stack).heap /\ key_keep_stack' = Kept(v, keep_stack).keys
     ELSE UNCHANGED <<heap, key_keep_stack>>
  /\ UNCHANGED <<ref_stack, object_element, keep_stack>>

CallbackStart(v, keep) ==
  /\ keep_stack' = Append(keep_stack, keep)
  /\ heap' = Kept(v, keep_stack').heap /\ key_keep_stack' = Kept(v, keep_stack').keys
  /\ ref_stack' = Append(ref_stack, Kept(v, keep_stack').ref)
  /\ UNCHANGED object_element

CallbackKey(k, keep) ==
  /\ key_keep_stack' = Append(key_keep_stack, keep)
  /\ IF keep /\ Top # NoRef
     THEN LET members == heap[Top].members
              element == IF k \in DOMAIN members THEN members[k] ELSE Len(heap) + 1
          IN  /\ object_element' = element
              /\ heap' = IF k \in DOMAIN members THEN [heap EXCEPT ![element] = Discarded]
                         ELSE Append([heap EXCEPT ![Top].members =
                                [m \in DOMAIN members \cup {k} |->
                                   IF m = k THEN element ELSE members[m]]], Discarded)
     ELSE UNCHANGED <<heap, object_element>>
  /\ UNCHANGED <<ref_stack, keep_stack>>

(* The container without its first discarded value.                        *)
Purged(h, ref) ==
  IF h[ref].type = "array"
  THEN LET gone == {n \in DOMAIN h[ref].elements : h[h[ref].elements[n]] = Discarded}
       IN  IF gone = {} THEN h
           ELSE [h EXCEPT ![ref].elements =
                   RemoveAt(@, CHOOSE n \in gone : \A m \in gone : n <= m)]
  ELSE LET gone == {k \in DOMAIN h[ref].members : h[h[ref].members[k]] = Discarded}
       IN  IF gone = {} THEN h
           ELSE LET first == CHOOSE k \in gone : \A l \in gone : k <= l
                IN  [h EXCEPT ![ref].members = [k \in DOMAIN @ \ {first} |-> @[k]]]

Ended(keep) == IF keep THEN heap ELSE [heap EXCEPT ![Top] = Discarded]

(* The end of an object purges what is around it, whoever left it there.   *)
CallbackEndObject(keep) ==
  /\ Top = NoRef => keep      (* the callback is not asked                  *)
  /\ LET outer == Front(ref_stack)
     IN  heap' = IF outer # <<>> /\ Last(outer) # NoRef /\ Structured(Ended(keep)[Last(outer)])
                 THEN Purged(Ended(keep), Last(outer)) ELSE Ended(keep)
  /\ ref_stack' = Front(ref_stack) /\ keep_stack' = Front(keep_stack)
  /\ UNCHANGED <<object_element, key_keep_stack>>

DiscardedStays(keep) ==
  /\ Top = NoRef => keep
  /\ heap' = Ended(keep)
  /\ ref_stack' = Front(ref_stack) /\ keep_stack' = Front(keep_stack)
  /\ UNCHANGED <<object_element, key_keep_stack>>
CallbackEndArray(keep) ==
  /\ Top = NoRef => keep
  /\ LET outer == Front(ref_stack)
     IN  heap' = IF ~keep /\ outer # <<>> /\ Ended(keep)[Last(outer)].type = "array"
                 THEN [Ended(keep) EXCEPT ![Last(outer)].elements = Front(@)] ELSE Ended(keep)
  /\ ref_stack' = Front(ref_stack) /\ keep_stack' = Front(keep_stack)
  /\ UNCHANGED <<object_element, key_keep_stack>>

-------------------------------------------------------------------------------
(* The events, for whoever listens.  Only a callback can refuse.           *)

Answer(keep) == answers' = Append(answers, keep)

OnValue(v) ==
  \/ consumer = "acceptor" /\ Answer(TRUE) /\ UNCHANGED dom
  \/ consumer = "dom" /\ Answer(TRUE) /\ DomValue(v)
  \/ consumer = "callback" /\ \E keep \in BOOLEAN : Answer(keep) /\ CallbackValue(v, keep)

OnStart(v) ==
  \/ consumer = "acceptor" /\ Answer(TRUE) /\ UNCHANGED dom
  \/ consumer = "dom" /\ Answer(TRUE) /\ DomStart(v)
  \/ consumer = "callback" /\ \E keep \in BOOLEAN : Answer(keep) /\ CallbackStart(v, keep)

OnKey(k) ==
  \/ consumer = "acceptor" /\ Answer(TRUE) /\ UNCHANGED dom
  \/ consumer = "dom" /\ Answer(TRUE) /\ DomKey(k)
  \/ consumer = "callback" /\ \E keep \in BOOLEAN : Answer(keep) /\ CallbackKey(k, keep)

OnEndObject ==
  \/ consumer = "acceptor" /\ Answer(TRUE) /\ UNCHANGED dom
  \/ consumer = "dom" /\ Answer(TRUE) /\ DomEnd
  \/ consumer = "callback" /\ \E keep \in BOOLEAN : Answer(keep) /\ CallbackEndObject(keep)

OnEndArray ==
  \/ consumer = "acceptor" /\ Answer(TRUE) /\ UNCHANGED dom
  \/ consumer = "dom" /\ Answer(TRUE) /\ DomEnd
  \/ consumer = "callback" /\ \E keep \in BOOLEAN : Answer(keep) /\ CallbackEndArray(keep)

-------------------------------------------------------------------------------
(* sax_parse_internal()                                                    *)

StringTokens == {[type |-> "value_string", string |-> s] : s \in Strings}
Tokens == StringTokens
     \cup {[type |-> t] : t \in Scalars \cup
            {"begin_object", "end_object", "begin_array", "end_array", "name_separator",
             "value_separator", "parse_error", "end_of_input"}}
End == [type |-> "end_of_input"]

(* The lexer finds token t; after the script, the end.                     *)
Read(t) ==
  /\ t \in IF Len(tokens) < Len(script) THEN script[Len(tokens) + 1] ELSE {End}
  /\ tokens' = Append(tokens, t)

(* A value is complete: what is read next depends on what it is part of,   *)
(* and the value that is part of nothing is the result.                    *)
Complete(outer) ==
  /\ states' = outer
  /\ IF outer # <<>>
     THEN pc' = (IF Last(outer) THEN "after element" ELSE "after member") /\ UNCHANGED outcome
     ELSE pc' = "end" /\ UNCHANGED outcome

Goto(to) == pc' = to /\ UNCHANGED <<states, outcome>>

(* parse_error(): the parser that builds a value throws, or its result     *)
(* becomes a discarded value, after one more token in strict mode.         *)
Fail ==
  /\ IF consumer # "acceptor" /\ ~allow_exceptions /\ pc # "end"
     THEN pc' = "errored end" /\ UNCHANGED <<outcome, heap>>
     ELSE /\ pc' = "done"
          /\ IF consumer = "acceptor" THEN outcome' = "false" /\ UNCHANGED heap
             ELSE IF allow_exceptions THEN outcome' = "thrown" /\ UNCHANGED heap
             ELSE outcome' = "false" /\ heap' = [heap EXCEPT ![1] = Discarded]
  /\ Answer(TRUE)
  /\ UNCHANGED <<states, ref_stack, object_element, keep_stack, key_keep_stack>>

Scalar(t) ==
  IF t.type = "value_string" THEN [type |-> "string", string |-> t.string]
  ELSE [type |-> t.type, at |-> Len(tokens) + 1]

SeparatorOptional == pc \in {"value", "first element", "after element"}
BeforeValue == pc \in {"value", "first element"}

ReadValue ==
  /\ BeforeValue
  /\ \E t \in Tokens :
       /\ Read(t)
       /\ t.type \in (Scalars \ {"infinite_float"}) \cup {"value_string"}
       /\ OnValue(Scalar(t)) /\ Complete(states)
  /\ UNCHANGED parameters

StartObject ==
  /\ BeforeValue
  /\ Read([type |-> "begin_object"])
  /\ OnStart(Object) /\ Goto("first key")
  /\ UNCHANGED parameters

StartArray ==
  /\ BeforeValue
  /\ Read([type |-> "begin_array"])
  /\ OnStart(Array)
  /\ pc' = "first element" /\ states' = Append(states, TRUE)
  /\ UNCHANGED <<parameters, outcome>>

(* The end of an array or an object, also of an empty one: that of an      *)
(* object is read before the object was remembered in states.              *)
CloseKeepsState ==
  /\ pc \in {"first element", "after element"}
  /\ Read([type |-> "end_array"])
  /\ OnEndArray /\ Complete(states)
  /\ UNCHANGED parameters
EndArray ==
  /\ pc \in {"first element", "after element"}
  /\ Read([type |-> "end_array"])
  /\ OnEndArray /\ Complete(Front(states))
  /\ UNCHANGED parameters

EndObject ==
  /\ pc \in {"first key", "after member"}
  /\ Read([type |-> "end_object"])
  /\ OnEndObject /\ Complete(IF pc = "first key" THEN states ELSE Front(states))
  /\ UNCHANGED parameters

Separator ==
  /\ pc \in {"after element", "after member"}
  /\ Read([type |-> "value_separator"])
  /\ Goto(IF pc = "after element" THEN "value" ELSE "key")
  /\ Answer(TRUE) /\ UNCHANGED <<parameters, dom>>

ReadKey ==
  /\ pc \in {"first key", "key"}
  /\ \E t \in StringTokens : Read(t) /\ OnKey(t.string)
  /\ pc' = (IF pc = "first key" THEN "first separator" ELSE "separator")
  /\ UNCHANGED <<parameters, states, outcome>>

NameSeparator ==
  /\ pc \in {"first separator", "separator"}
  /\ Read([type |-> "name_separator"])
  /\ states' = IF pc = "first separator" THEN Append(states, FALSE) ELSE states
  /\ pc' = "value"
  /\ Answer(TRUE) /\ UNCHANGED <<parameters, dom, outcome>>

(* The tokens that are expected at each place.                             *)
Expected ==
  CASE pc = "value" ->
         (Scalars \ {"infinite_float"}) \cup {"value_string", "begin_object", "begin_array"}
    [] pc = "first element" ->
         (Scalars \ {"infinite_float"}) \cup {"value_string", "begin_object", "begin_array", "end_array"}
    [] pc = "after element" -> {"value_separator", "end_array"}
    [] pc = "first key" -> {"value_string", "end_object"}
    [] pc = "key" -> {"value_string"}
    [] pc \in {"first separator", "separator"} -> {"name_separator"}
    [] pc = "after member" -> {"value_separator", "end_object"}
    [] pc = "end" /\ strict -> {"end_of_input"}
    [] OTHER -> {}

Unexpected ==
  /\ pc \notin {"done", "errored end"} /\ (pc = "end" => strict)
  /\ \E t \in Tokens : Read(t) /\ t.type \notin Expected
  /\ Fail
  /\ UNCHANGED parameters

(* In strict mode nothing may follow.  A result the callback discarded is  *)
(* null.                                                                   *)
Undiscarded(h) == IF consumer = "callback" /\ h[1] = Discarded THEN [h EXCEPT ![1] = Null] ELSE h

Finish ==
  /\ pc = "end"
  /\ IF strict THEN Read(End) /\ Answer(TRUE) ELSE UNCHANGED <<tokens, answers>>
  /\ pc' = "done" /\ outcome' = "true"
  /\ heap' = Undiscarded(heap)
  /\ UNCHANGED <<parameters, states, ref_stack, object_element, keep_stack, key_keep_stack>>

FinishErrored ==
  /\ pc = "errored end"
  /\ IF strict THEN Answer(TRUE) /\ \E t \in Tokens : Read(t) ELSE UNCHANGED <<tokens, answers>>
  /\ pc' = "done" /\ outcome' = "false"
  /\ heap' = [heap EXCEPT ![1] = Discarded]
  /\ UNCHANGED <<parameters, states, ref_stack, object_element, keep_stack, key_keep_stack>>

-------------------------------------------------------------------------------
Init ==
  /\ \E c \in Cases : /\ consumer = c.consumer /\ strict = c.strict
                       /\ allow_exceptions = c.allow_exceptions /\ script = c.script
  /\ tokens = <<>> /\ answers = <<>>
  /\ pc = "value" /\ states = <<>>
  /\ heap = <<Null>> /\ ref_stack = <<>> /\ object_element = NoRef
  /\ keep_stack = (IF consumer = "callback" THEN <<TRUE>> ELSE <<>>)
  /\ key_keep_stack = <<>>
  /\ outcome = "none"

Next ==
  \/ ReadValue \/ StartObject \/ StartArray \/ EndArray \/ EndObject \/ Separator
  \/ ReadKey \/ NameSeparator \/ Unexpected \/ Finish \/ FinishErrored

Spec == Init /\ [][Next]_vars
-------------------------------------------------------------------------------
(* Properties                                                              *)

(* The values whose parts are among the places S of the heap.              *)
Named(S) == UNION {[D -> S] : D \in SUBSET Strings}
ValueOver(S) ==
  {Null, Discarded}
  \cup [type : {"string"}, string : Strings]
  \cup [type : Scalars, at : Nat]
  \cup [type : {"array"}, elements : Seq(S)]
  \cup [type : {"object"}, members : Named(S)]

Parts(v) ==
  IF v.type = "array" THEN {v.elements[n] : n \in DOMAIN v.elements}
  ELSE IF v.type = "object" THEN {v.members[k] : k \in DOMAIN v.members} ELSE {}

(* The parts of a value are in the heap, and came later than the value: no *)
(* value is a part of itself, however deep.                                *)
HeapOK(h) ==
  /\ h \in Seq(ValueOver(Nat)) /\ h # <<>>
  /\ \A r \in 1 .. Len(h) : h[r] \in ValueOver(r + 1 .. Len(h))

Places == {"value", "first element", "after element", "first key", "key", "first separator",
           "separator", "after member", "end", "errored end", "done"}

TypeOK ==
  /\ consumer \in {"dom", "callback", "acceptor"}
  /\ strict \in BOOLEAN /\ allow_exceptions \in BOOLEAN
  /\ tokens \in Seq(Tokens) /\ answers \in Seq(BOOLEAN)
  /\ pc \in Places /\ states \in Seq(BOOLEAN)
  /\ HeapOK(heap) /\ ref_stack \in Seq(Nat) /\ object_element \in Nat
  /\ keep_stack \in Seq(BOOLEAN) /\ key_keep_stack \in Seq(BOOLEAN)
  /\ outcome \in {"none", "true", "false", "thrown"}

(* What is open, outermost first: TRUE for an array.                       *)
Open == IF pc \in {"first key", "first separator"} THEN Append(states, FALSE) ELSE states
MemberDue == \/ pc \in {"separator", "first separator"}
             \/ pc = "value" /\ states # <<>> /\ ~Last(states)

(* While the parser runs, the stack of the listener has one reference for  *)
(* each open container, to a container of that kind in the tree or to      *)
(* nothing in a part that was discarded; and a member's value has a place. *)
(* These are the assertions of json_sax_dom_parser::handle_value,          *)
(* json_sax_dom_callback_parser and sax_parse_internal (json.hpp:          *)
(* 6119-6128, 6264-6265, 6320-6321, 6371-6427, 11217, 11271).              *)
StacksAgree ==
  consumer # "acceptor" /\ pc \notin {"done", "errored end"} =>
    /\ Len(ref_stack) = Len(Open)
    /\ \A n \in DOMAIN ref_stack :
         \/ /\ ref_stack[n] \in DOMAIN heap
            /\ heap[ref_stack[n]].type = IF Open[n] THEN "array" ELSE "object"
         \/ ref_stack[n] = NoRef /\ consumer = "callback"
    /\ consumer = "callback" => Len(keep_stack) = Len(ref_stack) + 1
    /\ MemberDue =>
         /\ consumer = "callback" => key_keep_stack # <<>>
         /\ consumer = "dom" \/ (Top # NoRef /\ Last(key_keep_stack)) =>
              \E k \in DOMAIN heap[Top].members : heap[Top].members[k] = object_element

(* The open containers are a path through the tree, from the result to the *)
(* one that is filled, and below a container that is kept nothing was      *)
(* dropped: no pointer of ref_stack is into a value that was erased, and   *)
(* end_array() may look behind ref_stack.back() without asking whether it  *)
(* is null (json.hpp:6248-6280, 6302-6330).                                *)
OpenIsPath ==
  consumer # "acceptor" /\ pc \notin {"done", "errored end"} =>
    \A n \in DOMAIN ref_stack : ref_stack[n] # NoRef =>
      IF n = 1 THEN ref_stack[n] = 1
      ELSE ref_stack[n - 1] # NoRef /\ ref_stack[n] \in Parts(heap[ref_stack[n - 1]])

(* What was read, but for the end that strict mode asks for.               *)
Types(s) == [n \in DOMAIN s |-> s[n].type]
Text == Types(IF outcome = "true" /\ strict THEN Front(tokens) ELSE tokens)

(* A text is accepted exactly if it is a JSON document, whoever listens;   *)
(* while the parser runs, a document can still come of what it read, so    *)
(* that no token after a document is asked for but the end; and an error   *)
(* is found at the first token that cannot be right, after which at most   *)
(* one more is read (json.hpp:11003-11270, 10913-10965).                   *)
Accepts ==
  /\ outcome = "true" => IsDocument(Text)
  /\ pc \notin {"done", "errored end"} => Begins(Text)
  /\ outcome \in {"false", "thrown"} =>
       \/ GoesWrong(Text)
       \/ /\ consumer # "acceptor" /\ ~allow_exceptions /\ strict
          /\ GoesWrong(Front(Text))
===============================================================================

-------------------------------- MODULE JsonValue --------------------------------
(***************************************************************************)
(* JSON values: the tagged union of basic_json (json.hpp:18379-18420).     *)
(* A string or a key is its bytes; an object is a function from its keys,  *)
(* and Keys lists them in the order of std::map.                           *)
(***************************************************************************)
EXTENDS Integers, Sequences, FiniteSets, SequencesExt

Null         == [type |-> "null"]
Discarded    == [type |-> "discarded"]
Boolean(b)   == [type |-> "boolean", boolean |-> b]
Integer(i)   == [type |-> "number_integer", number |-> i]
Unsigned(n)  == [type |-> "number_unsigned", number |-> n]
String(s)    == [type |-> "string", string |-> s]
Array(s)     == [type |-> "array", elements |-> s]
Object(m)    == [type |-> "object", members |-> m]

NoSubtype    == -1
Binary(s, t) == [type |-> "binary", bytes |-> s, subtype |-> t]

(* A float is what its shortest text says: the digits, the first of which  *)
(* is not zero, times a power of ten; zero has no digits.                  *)
Float(negative, digits, exponent) ==
  [type |-> "number_float", finite |-> TRUE, negative |-> negative, digits |-> digits,
   exponent |-> exponent]
Infinite(negative) == [type |-> "number_float", finite |-> FALSE, negative |-> negative]
NaN == [type |-> "number_float", finite |-> FALSE]

Before(s, t) ==
  \/ IsStrictPrefix(s, t)
  \/ \E n \in DOMAIN s \cap DOMAIN t : s[n] < t[n] /\ \A m \in 1 .. n - 1 : s[m] = t[m]

Keys(members) ==
  [i \in 1 .. Cardinality(DOMAIN members) |->
     CHOOSE k \in DOMAIN members : Cardinality({j \in DOMAIN members : Before(j, k)}) = i - 1]
===============================================================================

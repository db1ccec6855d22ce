------------------------------- MODULE JsonOctets -------------------------------
(***************************************************************************)
(* Numbers as octets, as the binary formats of the JSON library have them  *)
(* (write_number, json.hpp:15100-15130, and get_number, :10627-10673).     *)
(* The widths of the integer types are constants, so that the limits can   *)
(* be reached with numbers that TLC can hold.  The octets of a float are   *)
(* abstract: which float of Floats it is, in which size, and the place.    *)
(***************************************************************************)
EXTENDS JsonValue, JsonText

CONSTANTS
  Bits,      (* of int8_t, int16_t, int32_t and int64_t: <<8, 16, 32, 64>> *)
  Floats,    (* a sequence of floats                                       *)
  Singles    (* which of them are exact as float: indexes                  *)

ASSUME JsonOctetsAssumption ==
  /\ Len(Bits) = 4 /\ Bits[1] = 8
  /\ \A w \in 1 .. 3 : Bits[w] < Bits[w + 1]
  /\ Singles \subseteq DOMAIN Floats

Widths == 1 .. 4
Octets(w)      == (Bits[w] + 7) \div 8
UnsignedMax(w) == 2 ^ Bits[w] - 1
SignedMax(w)   == 2 ^ (Bits[w] - 1) - 1
SignedMin(w)   == -(2 ^ (Bits[w] - 1))

(* The narrowest unsigned, or signed, type that holds n.                   *)
Narrowest(n)       == CHOOSE w \in Widths : n <= UnsignedMax(w) /\ \A v \in 1 .. w - 1 : n > UnsignedMax(v)
NarrowestSigned(n) == CHOOSE w \in Widths : n >= SignedMin(w) /\ \A v \in 1 .. w - 1 : n < SignedMin(v)

AsUnsigned(n, w) == n % (2 ^ Bits[w])
AsSigned(n, w)   == IF AsUnsigned(n, w) > SignedMax(w) THEN AsUnsigned(n, w) - 2 ^ Bits[w]
                    ELSE AsUnsigned(n, w)

BigEndian(n, w) ==
  [i \in 1 .. Octets(w) |-> (AsUnsigned(n, w) \div (256 ^ (Octets(w) - i))) % 256]
LittleEndian(n, w) == Reverse(BigEndian(n, w))

Number(octets) == FoldLeft(LAMBDA n, o : 256 * n + o, 0, octets)

(* 4 octets of a float, 8 of a double; none of them is a byte.             *)
FloatOctets(v, size) ==
  [i \in 1 .. size |-> 1000 * (CHOOSE k \in DOMAIN Floats : Floats[k] = v) + 10 * size + i]
NoFloat == [type |-> "number_float"]
FloatOf(octets) ==
  LET k == octets[1] \div 1000
  IN  IF k \in DOMAIN Floats /\ octets = FloatOctets(Floats[k], Len(octets)) THEN Floats[k] ELSE NoFloat
Exact(v) == \E k \in Singles : Floats[k] = v

-------------------------------------------------------------------------------
(* The letters of UBJSON                                                   *)

UInt8 == Upper(21)
Int8  == Lower(9)
Int16 == Upper(9)
Int32 == Lower(12)
Int64 == Upper(12)
HighPrecision == Upper(8)
Noop  == Upper(14)
Dollar == 36
Hash   == 35

UbjsonWidth == (UInt8 :> 1) @@ (Int8 :> 1) @@ (Int16 :> 2) @@ (Int32 :> 3) @@ (Int64 :> 4)
===============================================================================

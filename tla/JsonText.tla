-------------------------------- MODULE JsonText --------------------------------
(***************************************************************************)
(* JSON in bytes (RFC 8259): what a number, a string and the characters in *)
(* it are, without a cursor or a state.  The models of the lexer and of    *)
(* the serializer are compared with this.  Bytes are their numbers.        *)
(***************************************************************************)
EXTENDS Integers, Sequences, FiniteSets, SequencesExt

NUL  == 0
HT   == 9
LF   == 10
CR   == 13
Blank     == 32
Quote     == 34
Star      == 42
Plus      == 43
Comma     == 44
Minus     == 45
Point     == 46
Slash     == 47
Digit     == 48 .. 57
Zero      == 48
Colon     == 58
OpenList  == 91
Backslash == 92
CloseList == 93
Lower(k)  == 96 + k     (* the k-th letter                                 *)
Upper(k)  == 64 + k
OpenMap   == 123
CloseMap  == 125
TrueText == <<Lower(20), Lower(18), Lower(21), Lower(5)>>
FalseText == <<Lower(6), Lower(1), Lower(12), Lower(19), Lower(5)>>
NullText == <<Lower(14), Lower(21), Lower(12), Lower(12)>>
Exponent == {Lower(5), Upper(5)}

-------------------------------------------------------------------------------
In(s, set) == \A n \in DOMAIN s : s[n] \in set
From(s, n) == SubSeq(s, n, Len(s))

Value(digits) == FoldLeft(LAMBDA v, d : 10 * v + d - Zero, 0, digits)

IsDigits(s) == s # <<>> /\ In(s, Digit)

IsInt(s) == IsDigits(s) /\ (s[1] = Zero => Len(s) = 1)
IsFraction(s) == s = <<>> \/ (s[1] = Point /\ IsDigits(Tail(s)))
IsExponent(s) ==
  \/ s = <<>>
  \/ /\ s[1] \in Exponent
     /\ IsDigits(Tail(s)) \/ (Len(s) > 1 /\ s[2] \in {Plus, Minus} /\ IsDigits(From(s, 3)))
IsNumber(text) ==
  LET s == IF text # <<>> /\ text[1] = Minus THEN Tail(text) ELSE text
  IN  \E i \in 1 .. Len(s), j \in 1 .. Len(s) :
        i <= j /\ IsInt(SubSeq(s, 1, i)) /\ IsFraction(SubSeq(s, i + 1, j)) /\ IsExponent(From(s, j + 1))

High == \hD800 .. \hDBFF
Low  == \hDC00 .. \hDFFF

(* The first code point that takes n bytes.                                *)
LeastPoint(n) == IF n = 1 THEN 0 ELSE IF n = 2 THEN \h80 ELSE IF n = 3 THEN \h800
                 ELSE IF n = 4 THEN \h10000 ELSE \h110000
(* The character of n bytes that s starts with: its length and code point. *)
Continuing == \h80 .. \hBF
CodePoint(s, n) ==
  IF n = 1 THEN s[1]
  ELSE IF n = 2 THEN 64 * (s[1] - \hC0) + s[2] - \h80
  ELSE IF n = 3 THEN 4096 * (s[1] - \hE0) + 64 * (s[2] - \h80) + s[3] - \h80
  ELSE 262144 * (s[1] - \hF0) + 4096 * (s[2] - \h80) + 64 * (s[3] - \h80) + s[4] - \h80
Utf8(s, n) ==
  IF /\ \A k \in 2 .. n : s[k] \in Continuing
     /\ LeastPoint(n) <= CodePoint(s, n) /\ CodePoint(s, n) < LeastPoint(n + 1)
     /\ CodePoint(s, n) \notin High \cup Low
  THEN {<<n, CodePoint(s, n)>>} ELSE {}
Raw(s) == UNION {Utf8(s, n) : n \in 1 .. (IF Len(s) < 4 THEN Len(s) ELSE 4)}

HexText == [n \in 0 .. 15 |-> IF n < 10 THEN {Zero + n} ELSE {Lower(n - 9), Upper(n - 9)}]
HexDigits == UNION {HexText[n] : n \in 0 .. 15}
HexValue(c) == CHOOSE n \in 0 .. 15 : c \in HexText[n]
Hex(s, n) == 4096 * HexValue(s[n]) + 256 * HexValue(s[n + 1]) + 16 * HexValue(s[n + 2]) + HexValue(s[n + 3])
Escape4(s) == IF /\ Len(s) >= 6 /\ s[1] = Backslash /\ s[2] = Lower(21)
                 /\ \A n \in 3 .. 6 : s[n] \in HexDigits
              THEN {Hex(s, 3)} ELSE {}
Escapes == [c \in {Quote, Backslash, Slash, Lower(2), Lower(6), Lower(14), Lower(18), Lower(20)} |->
              CASE c = Lower(2) -> 8 [] c = Lower(6) -> 12 [] c = Lower(14) -> LF
                [] c = Lower(18) -> CR [] c = Lower(20) -> HT [] OTHER -> c]
Quoted(s) ==
  IF s[1] = Backslash
  THEN {<<2, Escapes[s[n]]>> : n \in {m \in {2} \cap DOMAIN s : s[m] \in DOMAIN Escapes}}
       \cup {<<6, p>> : p \in Escape4(s) \ (High \cup Low)}
       \cup {<<12, \h10000 + (p - \hD800) * 1024 + q - \hDC00>> :
               p \in Escape4(s) \cap High, q \in Escape4(From(s, 7)) \cap Low}
  ELSE IF s[1] >= \h20 /\ s[1] # Quote THEN Raw(s) ELSE {}

(* The characters of s, of which the first is the one that s starts with.  *)
Bad == <<-1>>
Leading(s, quoted) == IF quoted THEN Quoted(s) ELSE Raw(s)
Decoded(s, quoted) ==
  LET rest[n \in 1 .. Len(s) + 1] ==
        IF n > Len(s) THEN <<>>
        ELSE IF Leading(From(s, n), quoted) = {} THEN Bad
        ELSE LET f == CHOOSE f \in Leading(From(s, n), quoted) : TRUE
             IN  <<f[2]>> \o rest[n + f[1]]
  IN  rest[1]

Inside(s) == SubSeq(s, 2, Len(s) - 1)
IsString(s) ==
  Len(s) >= 2 /\ s[1] = Quote /\ s[Len(s)] = Quote /\ In(Decoded(Inside(s), TRUE), Nat)
===============================================================================

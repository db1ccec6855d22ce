---------------------------- MODULE JsonLexerProofs ----------------------------
(***************************************************************************)
(* JsonLexer, for every input and every width of the integers.             *)
(*                                                                         *)
(* Two references of JsonText and JsonLexer are recursive over a text,     *)
(* Decoded and IsSpace.  A recursive function is some solution of its      *)
(* equation, so what it computes is found in two steps: the equation has a *)
(* solution, built without recursion, and every solution has the wanted    *)
(* value at each place, by the first place, from one of the ends, that     *)
(* might not.                                                              *)
(***************************************************************************)
EXTENDS JsonLexer, SequenceTheorems, FiniteSetTheorems, WellFoundedInduction, TLAPS

Byte == 0 .. 255
Lines(s) == Cardinality({n \in DOMAIN s : s[n] = LF})

(* What the reader keeps.  current is the last byte that came, and is the  *)
(* end until the first one.                                                *)
ReaderInv ==
  /\ script \in Scripts
  /\ input \in Seq(Byte) /\ Len(input) <= Len(script)
  /\ \A n \in DOMAIN input : input[n] \in script[n]
  /\ current \in -1 .. 255 /\ next_unget \in BOOLEAN
  /\ current # EOF => input # <<>> /\ current = input[Len(input)]
  /\ position \in [total : Nat, line : Nat, lines : Nat]
  /\ current # EOF => position.total = Len(Consumed) /\ position.lines = Lines(Consumed)
  /\ current = EOF /\ position.total = 0 => input = <<>> /\ position.lines = 0

LEMMA ScriptType ==
  ASSUME NEW s \in Scripts
  PROVE  s \in Seq(SUBSET Byte)
BY JsonLexerAssumption DEF Byte

(* Sequences in general.                                                   *)
LEMMA FrontOf ==
  ASSUME NEW S, NEW s \in Seq(S), s # <<>>
  PROVE  /\ Front(s) \in Seq(S) /\ Len(Front(s)) = Len(s) - 1
         /\ s = Append(Front(s), s[Len(s)])
<1>1. Len(s) \in Nat \ {0}
  BY EmptySeq, LenProperties
<1>2. Front(s) = SubSeq(s, 1, Len(s) - 1)
  BY DEF Front
<1>3. \A i \in 1 .. Len(s) - 1 : s[i] \in S
  BY <1>1, ElementOfSeq
<1>4. /\ Front(s) \in Seq(S) /\ Len(Front(s)) = Len(s) - 1
      /\ \A i \in 1 .. Len(s) - 1 : Front(s)[i] = s[i]
  <2>. DEFINE m == Len(s) - 1
  <2>1. m \in Int /\ 1 \in Int /\ \A i \in 1 .. m : s[i] \in S
    BY <1>1, <1>3
  <2>. HIDE DEF m
  <2>2. /\ SubSeq(s, 1, m) \in Seq(S)
        /\ Len(SubSeq(s, 1, m)) = IF 1 <= m THEN m - 1 + 1 ELSE 0
        /\ \A i \in 1 .. m - 1 + 1 : SubSeq(s, 1, m)[i] = s[1 + i - 1]
    BY <2>1, SubSeqProperties
  <2>3. m \in Nat
    BY <1>1 DEF m
  <2>4. Len(SubSeq(s, 1, m)) = m /\ \A i \in 1 .. m : SubSeq(s, 1, m)[i] = s[i]
    BY <2>2, <2>3
  <2>. QED
    BY <1>2, <2>2, <2>4 DEF m
<1>5. s[Len(s)] \in S
  BY <1>1, ElementOfSeq
<1>6. /\ Append(Front(s), s[Len(s)]) \in Seq(S)
      /\ Len(Append(Front(s), s[Len(s)])) = Len(s)
      /\ \A i \in 1 .. Len(s) - 1 : Append(Front(s), s[Len(s)])[i] = s[i]
      /\ Append(Front(s), s[Len(s)])[Len(s)] = s[Len(s)]
  BY <1>1, <1>4, <1>5, AppendProperties
<1>7. \A i \in 1 .. Len(s) : Append(Front(s), s[Len(s)])[i] = s[i]
  BY <1>1, <1>6
<1>. QED
  BY <1>4, <1>6, <1>7, SeqEqual

LEMMA FrontOfAppend ==
  ASSUME NEW S, NEW s \in Seq(S), NEW c \in S
  PROVE  Front(Append(s, c)) = s
<1>1. Append(s, c) \in Seq(S) /\ Append(s, c) # <<>>
  BY AppendProperties
<1>2. Append(s, c) = Append(Front(Append(s, c)), Append(s, c)[Len(Append(s, c))])
      /\ Front(Append(s, c)) \in Seq(S)
  BY <1>1, FrontOf
<1>3. Append(s, c)[Len(Append(s, c))] = c
  BY AppendProperties
<1>. QED
  BY <1>2, <1>3, AppendInjective

LEMMA LinesOfAppend ==
  ASSUME NEW s \in Seq(Byte), NEW c \in Byte
  PROVE  Lines(Append(s, c)) = Lines(s) + (IF c = LF THEN 1 ELSE 0) /\ Lines(s) \in Nat
<1>. DEFINE at(t) == {n \in DOMAIN t : t[n] = LF}
<1>1. /\ Len(s) \in Nat /\ DOMAIN s = 1 .. Len(s)
      /\ Append(s, c) \in Seq(Byte) /\ Len(Append(s, c)) = Len(s) + 1
      /\ \A i \in 1 .. Len(s) : Append(s, c)[i] = s[i]
      /\ Append(s, c)[Len(s) + 1] = c
  BY AppendProperties, LenProperties
<1>2. DOMAIN Append(s, c) = 1 .. Len(s) + 1
  BY <1>1, LenProperties
<1>3. IsFiniteSet(at(s)) /\ Cardinality(at(s)) \in Nat
  <2>1. IsFiniteSet(1 .. Len(s))
    BY <1>1, FS_Interval
  <2>. QED
    BY <1>1, <2>1, FS_Subset, FS_CardinalityType
<1>4. at(Append(s, c)) = IF c = LF THEN at(s) \cup {Len(s) + 1} ELSE at(s)
  BY <1>1, <1>2
<1>5. Len(s) + 1 \notin at(s)
  BY <1>1
<1>6. c = LF => Cardinality(at(Append(s, c))) = Cardinality(at(s)) + 1
  BY <1>3, <1>4, <1>5, FS_AddElement
<1>7. c # LF => Cardinality(at(Append(s, c))) = Cardinality(at(s))
  BY <1>4
<1>8. Lines(s) = Cardinality(at(s)) /\ Lines(Append(s, c)) = Cardinality(at(Append(s, c)))
  BY DEF Lines
<1>. HIDE DEF at
<1>. QED
  BY <1>3, <1>6, <1>7, <1>8

LEMMA ConsumedType ==
  ASSUME ReaderInv
  PROVE  Consumed \in Seq(Byte) /\ Len(Consumed) \in Nat /\ Len(Consumed) <= Len(input)
<1>1. CASE next_unget /\ current # EOF
  <2>1. Consumed = Front(input) /\ input # <<>> /\ input \in Seq(Byte)
    BY <1>1 DEF Consumed, ReaderInv
  <2>2. Consumed \in Seq(Byte) /\ Len(Consumed) = Len(input) - 1
    BY <2>1, FrontOf
  <2>. QED
    BY <2>1, <2>2, LenProperties
<1>2. CASE ~(next_unget /\ current # EOF)
  BY <1>2, LenProperties DEF Consumed, ReaderInv
<1>. QED
  BY <1>1, <1>2

(* The next byte follows those that were taken; after the end comes none.  *)
LEMMA NextByte ==
  ASSUME ReaderInv, NEW c \in Bytes, Incoming(c)
  PROVE  /\ c \in -1 .. 255
         /\ c = EOF => input' = input /\ Consumed = input
         /\ c # EOF => input' = Append(Consumed, c) /\ c \in Byte
         /\ input' \in Seq(Byte) /\ Len(input') <= Len(script)
         /\ \A n \in DOMAIN input' : input'[n] \in script[n]
         /\ input' # <<>> => input'[Len(input')] = c \/ c = EOF
<1>1. /\ script \in Seq(SUBSET Byte)
      /\ input \in Seq(Byte) /\ Len(input) <= Len(script)
      /\ \A n \in DOMAIN input : input[n] \in script[n]
      /\ current \in -1 .. 255 /\ next_unget \in BOOLEAN
      /\ current # EOF => input # <<>> /\ current = input[Len(input)]
      /\ Len(input) \in Nat /\ Len(script) \in Nat
  BY ScriptType, LenProperties DEF ReaderInv
<1>2. CASE UNCHANGED input /\ c = EOF
  <2>1. Consumed = input
    <3>1. CASE next_unget
      BY <1>2, <3>1 DEF Incoming, Consumed
    <3>2. CASE ~next_unget
      BY <3>2 DEF Consumed
    <3>. QED
      BY <3>1, <3>2
  <2>. QED
    BY <1>1, <1>2, <2>1 DEF EOF
<1>3. CASE UNCHANGED input /\ c # EOF
  <2>1. next_unget /\ c = current
    BY <1>3 DEF Incoming
  <2>2. Consumed = Front(input) /\ input # <<>> /\ c = input[Len(input)]
    BY <1>1, <1>3, <2>1 DEF Consumed
  <2>3. input = Append(Consumed, c)
    BY <1>1, <2>2, FrontOf
  <2>4. c \in Byte
    BY <1>1, <1>3, <2>1 DEF EOF, Byte
  <2>. QED
    <3>1. /\ c \in -1 .. 255 /\ input \in Seq(Byte) /\ Len(input) <= Len(script)
          /\ \A n \in DOMAIN input : input[n] \in script[n]
      BY <1>1, <1>3, <2>1
    <3>. QED
      BY <1>3, <2>2, <2>3, <2>4, <3>1
<1>4. CASE ~next_unget /\ Len(input) # Len(script) /\ c \in script[Len(input) + 1]
           /\ input' = Append(input, c)
  <2>1. Len(input) + 1 \in 1 .. Len(script)
    BY <1>1, <1>4
  <2>2. c \in Byte
    BY <1>1, <1>4, <2>1, ElementOfSeq
  <2>3. Consumed = input
    BY <1>4 DEF Consumed
  <2>4. /\ input' \in Seq(Byte) /\ Len(input') = Len(input) + 1
        /\ \A i \in 1 .. Len(input) : input'[i] = input[i]
        /\ input'[Len(input) + 1] = c
        /\ DOMAIN input' = 1 .. Len(input) + 1
    <3>1. /\ Append(input, c) \in Seq(Byte) /\ Len(Append(input, c)) = Len(input) + 1
          /\ \A i \in 1 .. Len(input) : Append(input, c)[i] = input[i]
          /\ Append(input, c)[Len(input) + 1] = c
      BY <1>1, <2>2, AppendProperties
    <3>2. DOMAIN Append(input, c) = 1 .. Len(Append(input, c))
      BY <3>1, LenProperties
    <3>. QED
      BY <1>4, <3>1, <3>2
  <2>5. DOMAIN input = 1 .. Len(input)
    BY <1>1, LenProperties
  <2>6. \A n \in DOMAIN input' : input'[n] \in script[n]
    BY <1>1, <1>4, <2>4, <2>5
  <2>7. c # EOF /\ c \in -1 .. 255
    BY <2>2 DEF Byte, EOF
  <2>. QED
    BY <1>1, <1>4, <2>1, <2>2, <2>3, <2>4, <2>6, <2>7
<1>. QED
  BY <1>2, <1>3, <1>4 DEF Incoming

(* get() takes the byte; unget() after it leaves what was taken as it was. *)
LEMMA GetStep ==
  ASSUME ReaderInv, NEW c \in Bytes, Get(c)
  PROVE  /\ ReaderInv' /\ c \in -1 .. 255 /\ (c # EOF => c \in Byte)
         /\ current' = c /\ next_unget' = FALSE
         /\ Consumed' = input'
         /\ Consumed' = IF c = EOF THEN Consumed ELSE Append(Consumed, c)
<1>. USE DEF EOF
<1>1. /\ Incoming(c) /\ current' = c /\ next_unget' = FALSE
      /\ position' = PositionAfter(position, c) /\ script' = script
  BY DEF Get
<1>2. /\ c \in -1 .. 255
      /\ c = EOF => input' = input /\ Consumed = input
      /\ c # EOF => input' = Append(Consumed, c) /\ c \in Byte
      /\ input' \in Seq(Byte) /\ Len(input') <= Len(script)
      /\ \A n \in DOMAIN input' : input'[n] \in script[n]
      /\ input' # <<>> => input'[Len(input')] = c \/ c = EOF
  BY <1>1, NextByte
<1>3. Consumed' = input'
  BY <1>1 DEF Consumed
<1>4. Consumed' = IF c = EOF THEN Consumed ELSE Append(Consumed, c)
  BY <1>2, <1>3
<1>5. Consumed \in Seq(Byte) /\ Len(Consumed) \in Nat
  BY ConsumedType
<1>6. position \in [total : Nat, line : Nat, lines : Nat]
  BY DEF ReaderInv
<1>7. position' \in [total : Nat, line : Nat, lines : Nat] /\ position'.total = position.total + 1
      /\ position'.lines = position.lines + (IF c = LF THEN 1 ELSE 0)
  BY <1>1, <1>6 DEF PositionAfter
<1>8. position'.total # 0
  BY <1>6, <1>7
<1>9. ASSUME c # EOF
      PROVE  position.total = Len(Consumed) /\ position.lines = Lines(Consumed)
  <2>1. CASE current # EOF
    BY <2>1 DEF ReaderInv
  <2>2. CASE current = EOF
    <3>1. position.total = 0
      BY <1>1, <1>6, <1>9, <2>2 DEF Incoming
    <3>2. input = <<>> /\ position.lines = 0 /\ Consumed = <<>>
      BY <2>2, <3>1 DEF ReaderInv, Consumed
    <3>3. Lines(<<>>) = 0
      <4>1. {n \in DOMAIN <<>> : <<>>[n] = LF} = {}
        OBVIOUS
      <4>. QED
        BY <4>1, FS_EmptySet DEF Lines
    <3>. QED
      BY <3>1, <3>2, <3>3
  <2>. QED
    BY <2>1, <2>2
<1>10. c # EOF => position'.total = Len(Consumed') /\ position'.lines = Lines(Consumed')
  <2>. SUFFICES ASSUME c # EOF
                PROVE  position'.total = Len(Consumed') /\ position'.lines = Lines(Consumed')
    OBVIOUS
  <2>1. c \in Byte /\ Consumed' = Append(Consumed, c)
    BY <1>2, <1>4
  <2>2. Len(Consumed') = Len(Consumed) + 1
    BY <1>5, <2>1, AppendProperties
  <2>3. Lines(Consumed') = Lines(Consumed) + (IF c = LF THEN 1 ELSE 0)
    BY <1>5, <2>1, LinesOfAppend
  <2>. QED
    BY <1>7, <1>9, <2>2, <2>3
<1>11. c # EOF => input' # <<>>
  BY <1>2, <1>5, AppendProperties
<1>12. script \in Scripts
  BY DEF ReaderInv
<1>. QED
  BY <1>1, <1>2, <1>3, <1>4, <1>7, <1>8, <1>10, <1>11, <1>12 DEF ReaderInv

LEMMA UngetStep ==
  ASSUME ReaderInv, NEW c \in Bytes, GetThenUnget(c)
  PROVE  /\ ReaderInv' /\ c \in -1 .. 255 /\ (c # EOF => c \in Byte)
         /\ current' = c /\ next_unget' = TRUE
         /\ Consumed' = Consumed
<1>. USE DEF EOF
<1>1. /\ Incoming(c) /\ current' = c /\ next_unget' = TRUE
      /\ position' = PositionBefore(PositionAfter(position, c)) /\ script' = script
  BY DEF GetThenUnget
<1>2. /\ c \in -1 .. 255
      /\ c = EOF => input' = input /\ Consumed = input
      /\ c # EOF => input' = Append(Consumed, c) /\ c \in Byte
      /\ input' \in Seq(Byte) /\ Len(input') <= Len(script)
      /\ \A n \in DOMAIN input' : input'[n] \in script[n]
      /\ input' # <<>> => input'[Len(input')] = c \/ c = EOF
  BY <1>1, NextByte
<1>3. Consumed \in Seq(Byte) /\ Len(Consumed) \in Nat
  BY ConsumedType
<1>4. Consumed' = Consumed
  <2>1. CASE c = EOF
    BY <1>1, <1>2, <2>1 DEF Consumed
  <2>2. CASE c # EOF
    <3>1. Consumed' = Front(input')
      BY <1>1, <2>2 DEF Consumed
    <3>. QED
      BY <1>2, <1>3, <2>2, <3>1, FrontOfAppend
  <2>. QED
    BY <2>1, <2>2
<1>5. position \in [total : Nat, line : Nat, lines : Nat]
  BY DEF ReaderInv
<1>6. /\ position' \in [total : Nat, line : Nat, lines : Nat]
      /\ position'.total = position.total /\ position'.lines = position.lines
  <2>1. CASE c = LF
    BY <1>1, <1>5, <2>1 DEF PositionAfter, PositionBefore
  <2>2. CASE c # LF
    BY <1>1, <1>5, <2>2 DEF PositionAfter, PositionBefore
  <2>. QED
    BY <2>1, <2>2
<1>7. Lines(<<>>) = 0
  <2>1. {n \in DOMAIN <<>> : <<>>[n] = LF} = {}
    OBVIOUS
  <2>. QED
    BY <2>1, FS_EmptySet DEF Lines
<1>8. c # EOF => position.total = Len(Consumed) /\ position.lines = Lines(Consumed)
  <2>1. CASE current # EOF
    BY <2>1 DEF ReaderInv
  <2>2. CASE current = EOF /\ c # EOF
    <3>1. position.total = 0
      BY <1>1, <1>5, <2>2 DEF Incoming
    <3>2. input = <<>> /\ position.lines = 0 /\ Consumed = <<>>
      BY <2>2, <3>1 DEF ReaderInv, Consumed
    <3>. QED
      BY <1>7, <3>1, <3>2
  <2>. QED
    BY <2>1, <2>2
<1>9. c = EOF /\ position.total = 0 => input' = <<>> /\ position.lines = 0
  <2>1. CASE current = EOF
    BY <1>2, <2>1 DEF ReaderInv
  <2>2. CASE current # EOF /\ position.total = 0 /\ c = EOF
    <3>1. Len(Consumed) = 0 /\ position.lines = Lines(Consumed)
      BY <2>2 DEF ReaderInv
    <3>2. Consumed = <<>>
      BY <1>3, <3>1, EmptySeq
    <3>. QED
      BY <1>2, <1>7, <2>2, <3>1, <3>2
  <2>. QED
    BY <2>1, <2>2
<1>10. c # EOF => input' # <<>>
  BY <1>2, <1>3, AppendProperties
<1>11. script \in Scripts
  BY DEF ReaderInv
<1>. QED
  BY <1>1, <1>2, <1>4, <1>6, <1>8, <1>9, <1>10, <1>11 DEF ReaderInv

-------------------------------------------------------------------------------
(* Numbers, byte by byte                                                   *)

Lead(s) == IF s[1] = Minus THEN 1 ELSE 0
Digits(s, a, b) == \A k \in a .. b : s[k] \in Digit

(* The first i bytes of s are an integer, bytes i + 1 to j a fraction or   *)
(* nothing, and bytes j + 1 to n an exponent or nothing.                   *)
Whole(s, i) ==
  /\ Lead(s) < i /\ Digits(s, Lead(s) + 1, i)
  /\ s[Lead(s) + 1] = Zero => i = Lead(s) + 1
Fraction(s, i, j) == j = i \/ (i + 1 < j /\ s[i + 1] = Point /\ Digits(s, i + 2, j))
Scale(s, j, n) ==
  \/ j = n
  \/ j + 1 < n /\ s[j + 1] \in Exponent /\ Digits(s, j + 2, n)
  \/ j + 2 < n /\ s[j + 1] \in Exponent /\ s[j + 2] \in {Plus, Minus} /\ Digits(s, j + 3, n)

LEMMA Part ==
  ASSUME NEW s \in Seq(Byte), NEW a \in Nat \ {0}, NEW b \in 0 .. Len(s)
  PROVE  /\ SubSeq(s, a, b) \in Seq(Byte)
         /\ Len(SubSeq(s, a, b)) = IF a <= b THEN b - a + 1 ELSE 0
         /\ \A k \in 1 .. b - a + 1 : SubSeq(s, a, b)[k] = s[a + k - 1]
         /\ SubSeq(s, a, b) = <<>> <=> b < a
<1>1. Len(s) \in Nat
  BY LenProperties
<1>2. \A i \in a .. b : s[i] \in Byte
  BY <1>1, ElementOfSeq
<1>3. a \in Int /\ b \in Int
  BY <1>1
<1>4. /\ SubSeq(s, a, b) \in Seq(Byte)
      /\ Len(SubSeq(s, a, b)) = IF a <= b THEN b - a + 1 ELSE 0
      /\ \A k \in 1 .. b - a + 1 : SubSeq(s, a, b)[k] = s[a + k - 1]
  BY <1>2, <1>3, SubSeqProperties
<1>. QED
  BY <1>1, <1>3, <1>4, EmptySeq

LEMMA PartOfPart ==
  ASSUME NEW s \in Seq(Byte), NEW a \in Nat \ {0}, NEW b \in 0 .. Len(s), a <= b + 1,
         NEW m \in Nat \ {0}, NEW n \in 0 .. b - a + 1
  PROVE  SubSeq(SubSeq(s, a, b), m, n) = SubSeq(s, a + m - 1, a + n - 1)
<1>. DEFINE t == SubSeq(s, a, b)
            p == a + m - 1
            q == a + n - 1
<1>1. Len(s) \in Nat
  BY LenProperties
<1>2. /\ t \in Seq(Byte) /\ Len(t) = b - a + 1
      /\ \A k \in 1 .. b - a + 1 : t[k] = s[a + k - 1]
  BY <1>1, Part
<1>3. n \in 0 .. Len(t)
  BY <1>2
<1>4. p \in Nat \ {0} /\ q \in 0 .. Len(s)
  BY <1>1
<1>. HIDE DEF t, p, q
<1>5. /\ SubSeq(t, m, n) \in Seq(Byte)
      /\ Len(SubSeq(t, m, n)) = IF m <= n THEN n - m + 1 ELSE 0
      /\ \A k \in 1 .. n - m + 1 : SubSeq(t, m, n)[k] = t[m + k - 1]
  BY <1>2, <1>3, Part
<1>6. /\ SubSeq(s, p, q) \in Seq(Byte)
      /\ Len(SubSeq(s, p, q)) = IF p <= q THEN q - p + 1 ELSE 0
      /\ \A k \in 1 .. q - p + 1 : SubSeq(s, p, q)[k] = s[p + k - 1]
  BY <1>4, Part
<1>7. Len(SubSeq(s, p, q)) = Len(SubSeq(t, m, n))
  BY <1>1, <1>5, <1>6 DEF p, q
<1>8. ASSUME NEW k \in 1 .. Len(SubSeq(t, m, n))
      PROVE  SubSeq(t, m, n)[k] = SubSeq(s, p, q)[k]
  <2>1. k \in 1 .. n - m + 1 /\ k \in 1 .. q - p + 1
    BY <1>1, <1>5, <1>7, <1>6 DEF p, q
  <2>2. m + k - 1 \in 1 .. b - a + 1 /\ a + (m + k - 1) - 1 = p + k - 1
    BY <1>1, <2>1 DEF p, q
  <2>. QED
    BY <1>2, <1>5, <1>6, <2>1, <2>2
<1>9. SubSeq(t, m, n) = SubSeq(s, p, q)
  BY <1>5, <1>6, <1>7, <1>8, SeqEqual
<1>. QED
  BY <1>9 DEF t, p, q

LEMMA DigitsOfPart ==
  ASSUME NEW s \in Seq(Byte), NEW a \in Nat \ {0}, NEW b \in 0 .. Len(s)
  PROVE  IsDigits(SubSeq(s, a, b)) <=> a <= b /\ Digits(s, a, b)
<1>1. Len(s) \in Nat
  BY LenProperties
<1>2. /\ SubSeq(s, a, b) \in Seq(Byte)
      /\ Len(SubSeq(s, a, b)) = IF a <= b THEN b - a + 1 ELSE 0
      /\ \A k \in 1 .. b - a + 1 : SubSeq(s, a, b)[k] = s[a + k - 1]
      /\ SubSeq(s, a, b) = <<>> <=> b < a
  BY Part
<1>3. DOMAIN SubSeq(s, a, b) = 1 .. Len(SubSeq(s, a, b))
  BY <1>2, LenProperties
<1>4. CASE a <= b
  <2>1. DOMAIN SubSeq(s, a, b) = 1 .. b - a + 1
    BY <1>2, <1>3, <1>4
  <2>2. In(SubSeq(s, a, b), Digit) <=> \A k \in 1 .. b - a + 1 : s[a + k - 1] \in Digit
    BY <1>2, <2>1 DEF In
  <2>3. ASSUME \A k \in 1 .. b - a + 1 : s[a + k - 1] \in Digit
        PROVE  Digits(s, a, b)
    <3>1. \A k \in a .. b : k - a + 1 \in 1 .. b - a + 1 /\ a + (k - a + 1) - 1 = k
      BY <1>1
    <3>. QED
      BY <2>3, <3>1 DEF Digits
  <2>4. ASSUME Digits(s, a, b)
        PROVE  \A k \in 1 .. b - a + 1 : s[a + k - 1] \in Digit
    <3>1. \A k \in 1 .. b - a + 1 : a + k - 1 \in a .. b
      BY <1>1
    <3>. QED
      BY <2>4, <3>1 DEF Digits
  <2>5. In(SubSeq(s, a, b), Digit) <=> Digits(s, a, b)
    BY <2>2, <2>3, <2>4
  <2>6. SubSeq(s, a, b) # <<>>
    BY <1>1, <1>2, <1>4
  <2>. QED
    BY <1>4, <2>5, <2>6 DEF IsDigits
<1>5. CASE b < a
  BY <1>1, <1>2, <1>5 DEF IsDigits
<1>. QED
  BY <1>1, <1>4, <1>5

(* IsNumber, without taking the text apart.                                *)
LEMMA NumberSplit ==
  ASSUME NEW s \in Seq(Byte), s # <<>>
  PROVE  IsNumber(s) <=> \E i \in 1 .. Len(s) : \E j \in i .. Len(s) :
                           Whole(s, i) /\ Fraction(s, i, j) /\ Scale(s, j, Len(s))
<1>. DEFINE b == Lead(s)
            u == IF s # <<>> /\ s[1] = Minus THEN Tail(s) ELSE s
<1>1. Len(s) \in Nat \ {0} /\ b \in {0, 1}
  BY EmptySeq DEF Lead
<1>2. u = SubSeq(s, b + 1, Len(s))
  <2>1. CASE s[1] = Minus
    BY <2>1, TailIsSubSeq DEF Lead
  <2>2. CASE s[1] # Minus
    BY <2>2, SubSeqFull DEF Lead
  <2>. QED
    BY <2>1, <2>2
<1>. HIDE DEF b, u
<1>3. u \in Seq(Byte) /\ Len(u) = Len(s) - b
  BY <1>1, <1>2, Part
<1>4. ASSUME NEW i \in 1 .. Len(u), NEW j \in i .. Len(u)
      PROVE  /\ IsInt(SubSeq(u, 1, i)) <=> Whole(s, b + i)
             /\ IsFraction(SubSeq(u, i + 1, j)) <=> Fraction(s, b + i, b + j)
             /\ IsExponent(From(u, j + 1)) <=> Scale(s, b + j, Len(s))
  <2>1. /\ SubSeq(u, 1, i) = SubSeq(s, b + 1, b + i)
        /\ SubSeq(u, i + 1, j) = SubSeq(s, b + i + 1, b + j)
        /\ SubSeq(u, j + 1, Len(u)) = SubSeq(s, b + j + 1, Len(s))
    BY <1>1, <1>2, <1>3, PartOfPart
  <2>2. IsInt(SubSeq(u, 1, i)) <=> Whole(s, b + i)
    <3>1. IsDigits(SubSeq(s, b + 1, b + i)) <=> Digits(s, b + 1, b + i)
      BY <1>1, <1>3, DigitsOfPart
    <3>2. SubSeq(s, b + 1, b + i)[1] = s[b + 1] /\ Len(SubSeq(s, b + 1, b + i)) = i
      BY <1>1, <1>3, Part
    <3>3. b < b + i /\ (i = 1 <=> b + i = b + 1)
      BY <1>1, <1>3
    <3>4. IsInt(SubSeq(u, 1, i)) <=> Digits(s, b + 1, b + i) /\ (s[b + 1] = Zero => b + i = b + 1)
      BY <2>1, <3>1, <3>2, <3>3 DEF IsInt
    <3>. QED
      BY <3>3, <3>4 DEF Whole, b
  <2>3. IsFraction(SubSeq(u, i + 1, j)) <=> Fraction(s, b + i, b + j)
    <3>. DEFINE p == b + i
                q == b + j
                t == SubSeq(s, p + 1, q)
    <3>1. p \in Nat /\ q \in p .. Len(s) /\ p + 1 \in Nat \ {0} /\ p + 2 \in Nat \ {0}
          /\ q \in 0 .. Len(s)
      BY <1>1, <1>3
    <3>. HIDE DEF p, q
    <3>2. CASE p = q
      <4>1. t = <<>>
        BY <1>1, <3>1, <3>2, Part
      <4>. QED
        BY <2>1, <3>2, <4>1 DEF IsFraction, Fraction, p, q
    <3>3. CASE p < q
      <4>1. t # <<>> /\ t[1] = s[p + 1]
        <5>1. 1 \in 1 .. q - (p + 1) + 1 /\ (p + 1) + 1 - 1 = p + 1 /\ ~(q < p + 1)
          BY <3>1, <3>3
        <5>. QED
          BY <3>1, <5>1, Part, SMTT(20)
      <4>2. Tail(t) = SubSeq(s, p + 2, q)
        BY <1>1, <3>1, <3>3, HeadTailOfSubSeq
      <4>3. IsDigits(Tail(t)) <=> p + 2 <= q /\ Digits(s, p + 2, q)
        BY <3>1, <4>2, DigitsOfPart
      <4>4. IsFraction(t) <=> Fraction(s, p, q)
        BY <3>1, <3>3, <4>1, <4>3 DEF IsFraction, Fraction
      <4>. QED
        BY <2>1, <4>4 DEF p, q
    <3>. QED
      BY <3>1, <3>2, <3>3
  <2>4. IsExponent(From(u, j + 1)) <=> Scale(s, b + j, Len(s))
    <3>. DEFINE q == b + j
                n == Len(s)
                t == SubSeq(s, q + 1, n)
    <3>1. /\ q \in Nat /\ q <= n /\ n \in Nat /\ n \in 0 .. Len(s)
          /\ q + 1 \in Nat \ {0} /\ q + 2 \in Nat \ {0} /\ q + 3 \in Nat \ {0}
      BY <1>1, <1>3
    <3>2. From(u, j + 1) = t
      BY <2>1 DEF From
    <3>. HIDE DEF q
    <3>3. CASE q = n
      <4>1. t = <<>>
        BY <1>1, <3>1, <3>3, Part
      <4>. QED
        BY <3>2, <3>3, <4>1 DEF IsExponent, Scale, q
    <3>4. CASE q < n
      <4>1. t \in Seq(Byte) /\ t # <<>> /\ t[1] = s[q + 1] /\ Len(t) = n - q
        <5>1. /\ 1 \in 1 .. n - (q + 1) + 1 /\ (q + 1) + 1 - 1 = q + 1 /\ ~(n < q + 1)
              /\ n - (q + 1) + 1 = n - q /\ q + 1 <= n
          BY <3>1, <3>4
        <5>. HIDE DEF n
        <5>. QED
          BY <3>1, <5>1, Part
      <4>2. Tail(t) = SubSeq(s, q + 2, n)
        BY <1>1, <3>1, <3>4, HeadTailOfSubSeq
      <4>3. IsDigits(Tail(t)) <=> q + 2 <= n /\ Digits(s, q + 2, n)
        <5>. HIDE DEF n
        <5>. QED
          BY <3>1, <4>2, DigitsOfPart
      <4>4. Len(t) > 1 => t[2] = s[q + 2]
        BY <1>1, <3>1, <3>4, <4>1, Part
      <4>5. From(t, 3) = SubSeq(s, q + 3, n)
        BY <1>1, <3>1, <3>4, <4>1, PartOfPart DEF From
      <4>6. IsDigits(From(t, 3)) <=> q + 3 <= n /\ Digits(s, q + 3, n)
        <5>. HIDE DEF n
        <5>. QED
          BY <3>1, <4>5, DigitsOfPart
      <4>7. IsExponent(t) <=> Scale(s, q, n)
        <5>1. t # <<>> /\ t[1] = s[q + 1] /\ q # n
          BY <3>1, <3>4, <4>1
        <5>2. Len(t) > 1 /\ t[2] \in {Plus, Minus} /\ IsDigits(From(t, 3))
                <=> q + 2 < n /\ s[q + 2] \in {Plus, Minus} /\ Digits(s, q + 3, n)
          BY <3>1, <4>1, <4>4, <4>6
        <5>3. IsDigits(Tail(t)) <=> q + 1 < n /\ Digits(s, q + 2, n)
          BY <3>1, <4>3
        <5>. QED
          BY <5>1, <5>2, <5>3 DEF IsExponent, Scale
      <4>. QED
        BY <3>2, <4>7 DEF q
    <3>. QED
      BY <3>1, <3>3, <3>4
  <2>. QED
    BY <2>2, <2>3, <2>4
<1>5. IsNumber(s) <=> \E i \in 1 .. Len(u), j \in 1 .. Len(u) :
                        /\ i <= j /\ IsInt(SubSeq(u, 1, i))
                        /\ IsFraction(SubSeq(u, i + 1, j)) /\ IsExponent(From(u, j + 1))
  BY DEF IsNumber, u
<1>6. ASSUME IsNumber(s)
      PROVE  \E i \in 1 .. Len(s) : \E j \in i .. Len(s) :
               Whole(s, i) /\ Fraction(s, i, j) /\ Scale(s, j, Len(s))
  <2>1. PICK i \in 1 .. Len(u), j \in 1 .. Len(u) :
               /\ i <= j /\ IsInt(SubSeq(u, 1, i))
               /\ IsFraction(SubSeq(u, i + 1, j)) /\ IsExponent(From(u, j + 1))
    BY <1>1, <1>3, <1>5, <1>6
  <2>2. Whole(s, b + i) /\ Fraction(s, b + i, b + j) /\ Scale(s, b + j, Len(s))
    <3>1. j \in i .. Len(u)
      BY <1>1, <1>3, <2>1
    <3>. QED
      BY <1>4, <2>1, <3>1
  <2>3. b + i \in 1 .. Len(s) /\ b + j \in (b + i) .. Len(s)
    BY <1>1, <1>3, <2>1
  <2>. QED
    BY <2>2, <2>3
<1>7. ASSUME NEW i \in 1 .. Len(s), NEW j \in i .. Len(s),
             Whole(s, i), Fraction(s, i, j), Scale(s, j, Len(s))
      PROVE  IsNumber(s)
  <2>1. b < i
    BY <1>7 DEF Whole, b
  <2>2. i - b \in 1 .. Len(u) /\ j - b \in (i - b) .. Len(u) /\ b + (i - b) = i /\ b + (j - b) = j
    BY <1>1, <1>3, <2>1
  <2>3. /\ IsInt(SubSeq(u, 1, i - b))
        /\ IsFraction(SubSeq(u, i - b + 1, j - b)) /\ IsExponent(From(u, j - b + 1))
    BY <1>4, <1>7, <2>2
  <2>4. i - b <= j - b /\ j - b \in 1 .. Len(u)
    BY <1>1, <1>3, <2>2
  <2>. QED
    BY <1>5, <2>2, <2>3, <2>4
<1>. QED
  BY <1>6, <1>7

(* The labels of scan_number(), the first n bytes of s that lead to each,  *)
(* and the bytes that go on from there.                                    *)
Complete == {"zero", "any1", "decimal2", "any2"}
Labels == Complete \cup {"minus", "decimal1", "exponent", "sign"}

Shape(label, s, n) ==
  \/ label = "minus" /\ n = 1 /\ s[1] = Minus
  \/ label = "zero" /\ n = Lead(s) + 1 /\ s[n] = Zero
  \/ label = "any1" /\ Lead(s) < n /\ Digits(s, Lead(s) + 1, n) /\ s[Lead(s) + 1] # Zero
  \/ label = "decimal1" /\ \E i \in 1 .. n : Whole(s, i) /\ n = i + 1 /\ s[i + 1] = Point
  \/ label = "decimal2" /\ \E i \in 1 .. n : Whole(s, i) /\ n # i /\ Fraction(s, i, n)
  \/ /\ label = "exponent"
     /\ \E i, j \in 1 .. n : /\ i <= j /\ Whole(s, i) /\ Fraction(s, i, j)
                             /\ n = j + 1 /\ s[j + 1] \in Exponent
  \/ /\ label = "sign"
     /\ \E i, j \in 1 .. n : /\ i <= j /\ Whole(s, i) /\ Fraction(s, i, j)
                             /\ n = j + 2 /\ s[j + 1] \in Exponent /\ s[j + 2] \in {Plus, Minus}
  \/ /\ label = "any2"
     /\ \E i, j \in 1 .. n : /\ i <= j /\ Whole(s, i) /\ Fraction(s, i, j)
                             /\ n # j /\ Scale(s, j, n)

Accepts(label) ==
  CASE label = "zero" -> {Point} \cup Exponent
    [] label = "any1" -> Digit \cup {Point} \cup Exponent
    [] label = "decimal2" -> Digit \cup Exponent
    [] label = "exponent" -> Digit \cup {Plus, Minus}
    [] OTHER -> Digit

Successor(label, c) ==
  CASE c = Point -> "decimal1"
    [] c \in Exponent -> "exponent"
    [] c \in {Plus, Minus} -> "sign"
    [] c \in Digit -> CASE label = "minus" -> IF c = Zero THEN "zero" ELSE "any1"
                        [] label = "any1" -> "any1"
                        [] label \in {"decimal1", "decimal2"} -> "decimal2"
                        [] OTHER -> "any2"

(* Every beginning of a number leads to a label.                           *)
LEMMA NumberHasLabels ==
  ASSUME NEW s \in Seq(Byte), IsNumber(s), s # <<>>, NEW n \in 1 .. Len(s)
  PROVE  \E label \in Labels : Shape(label, s, n)
<1>. USE DEF Minus, Plus, Point, Digit, Zero, Exponent, Lower, Upper
<1>1. Len(s) \in Nat \ {0} /\ Lead(s) \in {0, 1} /\ (Lead(s) = 1 <=> s[1] = Minus)
  BY EmptySeq DEF Lead
<1>2. PICK i \in 1 .. Len(s) : \E j \in i .. Len(s) :
             Whole(s, i) /\ Fraction(s, i, j) /\ Scale(s, j, Len(s))
  BY NumberSplit
<1>3. PICK j \in i .. Len(s) : Whole(s, i) /\ Fraction(s, i, j) /\ Scale(s, j, Len(s))
  BY <1>2
<1>4. CASE n <= Lead(s)
  <2>1. n = 1 /\ s[1] = Minus
    BY <1>1, <1>4
  <2>. QED
    BY <2>1 DEF Shape, Labels
<1>5. CASE Lead(s) < n /\ n <= i
  <2>1. CASE s[Lead(s) + 1] = Zero
    <3>1. n = Lead(s) + 1
      BY <1>1, <1>3, <1>5, <2>1 DEF Whole
    <3>. QED
      BY <2>1, <3>1 DEF Shape, Labels, Complete
  <2>2. CASE s[Lead(s) + 1] # Zero
    <3>1. Digits(s, Lead(s) + 1, n)
      BY <1>1, <1>3, <1>5 DEF Whole, Digits
    <3>. QED
      BY <1>5, <2>2, <3>1 DEF Shape, Labels, Complete
  <2>. QED
    BY <2>1, <2>2
<1>6. CASE i < n /\ n <= j
  <2>1. i + 1 < j /\ s[i + 1] = Point /\ Digits(s, i + 2, j)
    BY <1>1, <1>3, <1>6 DEF Fraction
  <2>2. CASE n = i + 1
    <3>1. i \in 1 .. n
      BY <1>1, <2>2
    <3>. QED
      BY <1>3, <2>1, <2>2, <3>1 DEF Shape, Labels
  <2>3. CASE i + 1 < n
    <3>1. i \in 1 .. n /\ n # i /\ Fraction(s, i, n)
      BY <1>1, <1>3, <1>6, <2>1, <2>3 DEF Fraction, Digits
    <3>. QED
      BY <1>3, <3>1 DEF Shape, Labels, Complete
  <2>. QED
    BY <1>1, <1>6, <2>2, <2>3
<1>7. CASE j < n
  <2>1. s[j + 1] \in Exponent
    BY <1>1, <1>3, <1>7 DEF Scale
  <2>2. i \in 1 .. n /\ j \in 1 .. n /\ i <= j
    BY <1>1, <1>7
  <2>3. CASE n = j + 1
    BY <1>3, <2>1, <2>2, <2>3 DEF Shape, Labels
  <2>4. CASE n = j + 2 /\ s[j + 2] \in {Plus, Minus}
    BY <1>3, <2>1, <2>2, <2>4 DEF Shape, Labels
  <2>5. CASE j + 1 < n /\ ~(n = j + 2 /\ s[j + 2] \in {Plus, Minus})
    <3>1. n # j /\ Scale(s, j, n)
      BY <1>1, <1>3, <2>1, <2>5 DEF Scale, Digits
    <3>. QED
      BY <1>3, <2>2, <3>1 DEF Shape, Labels, Complete
  <2>. QED
    BY <1>1, <1>7, <2>3, <2>4, <2>5
<1>. QED
  BY <1>1, <1>4, <1>5, <1>6, <1>7

(* A label is reached from another one, by a byte that goes on there.      *)
LEMMA LabelBefore ==
  ASSUME NEW s \in Seq(Byte), NEW n \in 1 .. Len(s), n + 1 <= Len(s),
         NEW label \in Labels, Shape(label, s, n + 1)
  PROVE  \E m \in Labels : Shape(m, s, n) /\ s[n + 1] \in Accepts(m)
<1>. USE DEF Minus, Plus, Point, Digit, Zero, Exponent, Lower, Upper
<1>1. Len(s) \in Nat /\ n \in Nat \ {0} /\ Lead(s) \in {0, 1} /\ (Lead(s) = 1 <=> s[1] = Minus)
  BY LenProperties DEF Lead
<1>2. ASSUME Whole(s, n)
      PROVE  \E m \in {"zero", "any1"} : Shape(m, s, n)
  <2>1. CASE s[Lead(s) + 1] = Zero
    BY <1>1, <1>2, <2>1 DEF Shape, Whole
  <2>2. CASE s[Lead(s) + 1] # Zero
    BY <1>1, <1>2, <2>2 DEF Shape, Whole
  <2>. QED
    BY <2>1, <2>2
<1>3. {Point} \cup Exponent \subseteq Accepts("zero") \cap Accepts("any1") /\ Digit \subseteq Accepts("any1")
  BY DEF Accepts
<1>4. CASE label = "minus"
  BY <1>1, <1>4 DEF Shape
<1>5. CASE label = "zero" \/ (label = "any1" /\ n = Lead(s))
  <2>1. Shape("minus", s, n) /\ s[n + 1] \in Digit
    BY <1>1, <1>5 DEF Shape, Digits
  <2>. QED
    BY <2>1 DEF Accepts, Labels
<1>6. CASE label = "any1" /\ n # Lead(s)
  <2>1. Shape("any1", s, n) /\ s[n + 1] \in Digit
    BY <1>1, <1>6 DEF Shape, Digits
  <2>. QED
    BY <1>3, <2>1 DEF Labels, Complete
<1>7. CASE label = "decimal1"
  <2>1. Whole(s, n) /\ s[n + 1] = Point
    BY <1>1, <1>7 DEF Shape
  <2>. QED
    BY <1>2, <1>3, <2>1 DEF Labels, Complete
<1>8. CASE label = "decimal2"
  <2>1. PICK i \in 1 .. n + 1 : Whole(s, i) /\ n + 1 # i /\ Fraction(s, i, n + 1)
    BY <1>8 DEF Shape
  <2>2. i < n /\ s[i + 1] = Point /\ Digits(s, i + 2, n + 1)
    BY <1>1, <2>1 DEF Fraction
  <2>3. i \in 1 .. n /\ s[n + 1] \in Digit
    BY <1>1, <2>2 DEF Digits
  <2>4. CASE n = i + 1
    <3>1. Shape("decimal1", s, n)
      BY <2>1, <2>2, <2>3, <2>4 DEF Shape
    <3>. QED
      BY <2>3, <3>1 DEF Labels, Accepts
  <2>5. CASE i + 1 < n
    <3>1. n # i /\ Fraction(s, i, n)
      BY <1>1, <2>2, <2>5 DEF Fraction, Digits
    <3>2. Shape("decimal2", s, n)
      BY <2>1, <2>3, <3>1 DEF Shape
    <3>. QED
      BY <2>3, <3>2 DEF Labels, Accepts, Complete
  <2>. QED
    BY <1>1, <2>2, <2>4, <2>5
<1>9. CASE label = "exponent"
  <2>1. PICK i, j \in 1 .. n + 1 : /\ i <= j /\ Whole(s, i) /\ Fraction(s, i, j)
                                   /\ n + 1 = j + 1 /\ s[j + 1] \in Exponent
    BY <1>9 DEF Shape
  <2>2. j = n /\ i \in 1 .. n
    BY <1>1, <2>1
  <2>3. CASE i = j
    BY <1>2, <1>3, <2>1, <2>2, <2>3 DEF Labels, Complete
  <2>4. CASE i # j
    <3>1. Shape("decimal2", s, n)
      BY <2>1, <2>2, <2>4 DEF Shape
    <3>. QED
      BY <2>1, <2>2, <3>1 DEF Labels, Accepts, Complete
  <2>. QED
    BY <2>3, <2>4
<1>10. CASE label = "sign"
  <2>1. PICK i, j \in 1 .. n + 1 : /\ i <= j /\ Whole(s, i) /\ Fraction(s, i, j)
                                   /\ n + 1 = j + 2 /\ s[j + 1] \in Exponent /\ s[j + 2] \in {Plus, Minus}
    BY <1>10 DEF Shape
  <2>2. n = j + 1 /\ i \in 1 .. n /\ j \in 1 .. n /\ s[n + 1] = s[j + 2]
    BY <1>1, <2>1
  <2>3. Shape("exponent", s, n)
    BY <2>1, <2>2 DEF Shape
  <2>. QED
    BY <2>1, <2>2, <2>3 DEF Labels, Accepts
<1>11. CASE label = "any2"
  <2>1. PICK i, j \in 1 .. n + 1 : /\ i <= j /\ Whole(s, i) /\ Fraction(s, i, j)
                                   /\ n + 1 # j /\ Scale(s, j, n + 1)
    BY <1>11 DEF Shape
  <2>2. s[j + 1] \in Exponent /\ j < n /\ s[n + 1] \in Digit
    <3>1. CASE j + 1 < n + 1 /\ s[j + 1] \in Exponent /\ Digits(s, j + 2, n + 1)
      <4>1. n + 1 \in j + 2 .. n + 1
        BY <1>1, <3>1
      <4>. QED
        BY <1>1, <3>1, <4>1 DEF Digits
    <3>2. CASE j + 2 < n + 1 /\ s[j + 1] \in Exponent /\ Digits(s, j + 3, n + 1)
      <4>1. n + 1 \in j + 3 .. n + 1
        BY <1>1, <3>2
      <4>. QED
        BY <1>1, <3>2, <4>1 DEF Digits
    <3>3. n + 1 # j /\ Scale(s, j, n + 1)
      BY <2>1
    <3>. QED
      BY <3>1, <3>2, <3>3 DEF Scale
  <2>3. i \in 1 .. n /\ j \in 1 .. n
    BY <1>1, <2>1, <2>2
  <2>4. CASE n = j + 1
    <3>1. Shape("exponent", s, n)
      BY <2>1, <2>2, <2>3, <2>4 DEF Shape
    <3>. QED
      BY <2>2, <3>1 DEF Labels, Accepts
  <2>5. CASE n = j + 2 /\ s[j + 2] \in {Plus, Minus}
    <3>1. Shape("sign", s, n)
      BY <2>1, <2>2, <2>3, <2>5 DEF Shape
    <3>. QED
      BY <2>2, <3>1 DEF Labels, Accepts
  <2>6. CASE j + 1 < n /\ ~(n = j + 2 /\ s[j + 2] \in {Plus, Minus})
    <3>1. n # j /\ Scale(s, j, n)
      BY <1>1, <2>1, <2>2, <2>6 DEF Scale, Digits
    <3>2. Shape("any2", s, n)
      BY <2>1, <2>3, <3>1 DEF Shape
    <3>. QED
      BY <2>2, <3>2 DEF Labels, Accepts, Complete
  <2>. QED
    BY <1>1, <2>2, <2>4, <2>5, <2>6
<1>. QED
  BY <1>4, <1>5, <1>6, <1>7, <1>8, <1>9, <1>10, <1>11 DEF Labels, Complete

(* The label is a matter of the last byte, of whether there are an         *)
(* exponent and a point, and of the first digit: there is only one.        *)
Marked(s, n, bytes) == \E k \in 1 .. n : s[k] \in bytes
LabelOf(s, n) ==
  CASE s[n] = Point -> "decimal1"
    [] s[n] \in Exponent -> "exponent"
    [] s[n] \in {Plus, Minus} -> IF n = 1 THEN "minus" ELSE "sign"
    [] s[n] \in Digit -> IF Marked(s, n, Exponent) THEN "any2"
                         ELSE IF Marked(s, n, {Point}) THEN "decimal2"
                         ELSE IF s[Lead(s) + 1] = Zero THEN "zero" ELSE "any1"

LEMMA OneLabel ==
  ASSUME NEW s \in Seq(Byte), NEW n \in 1 .. Len(s), NEW label, Shape(label, s, n)
  PROVE  label = LabelOf(s, n)
<1>. USE DEF Minus, Plus, Point, Digit, Zero, Exponent, Lower, Upper
<1>1. n \in Nat \ {0} /\ Lead(s) \in {0, 1} /\ (Lead(s) = 1 <=> s[1] = Minus)
  BY LenProperties DEF Lead
<1>2. ASSUME NEW i \in 1 .. n, Whole(s, i)
      PROVE  /\ Lead(s) < i /\ s[i] \in Digit
             /\ \A k \in 1 .. i : s[k] # Point /\ s[k] \notin Exponent
  <2>1. Lead(s) < i /\ \A k \in Lead(s) + 1 .. i : s[k] \in Digit
    BY <1>1, <1>2 DEF Whole, Digits
  <2>2. s[i] \in Digit
    BY <1>1, <2>1
  <2>3. ASSUME NEW k \in 1 .. i
        PROVE  s[k] # Point /\ s[k] \notin Exponent
    <3>1. (k = 1 /\ Lead(s) = 1) \/ k \in Lead(s) + 1 .. i
      BY <1>1
    <3>2. s[k] = Minus \/ s[k] \in Digit
      BY <1>1, <2>1, <3>1
    <3>. QED
      BY <3>2, SMTT(30)
  <2>. QED
    BY <2>1, <2>2, <2>3
<1>3. ASSUME NEW i \in 1 .. n, NEW j \in 1 .. n, i <= j, Whole(s, i), Fraction(s, i, j)
      PROVE  /\ s[j] \in Digit
             /\ \A k \in 1 .. j : s[k] \notin Exponent
  <2>1. s[i] \in Digit /\ \A k \in 1 .. i : s[k] # Point /\ s[k] \notin Exponent
    BY <1>2, <1>3
  <2>2. CASE i = j
    BY <2>1, <2>2
  <2>3. CASE i # j
    <3>1. i + 1 < j /\ s[i + 1] = Point /\ \A k \in i + 2 .. j : s[k] \in Digit
      BY <1>3, <2>3 DEF Fraction, Digits
    <3>2. s[j] \in Digit
      BY <1>1, <3>1
    <3>3. ASSUME NEW k \in 1 .. j
          PROVE  s[k] \notin Exponent
      <4>1. k \in 1 .. i \/ k = i + 1 \/ k \in i + 2 .. j
        BY <1>1
      <4>2. s[k] = Point \/ s[k] \in Digit \/ s[k] \notin Exponent
        BY <2>1, <3>1, <4>1
      <4>. QED
        BY <4>2
    <3>. QED
      BY <3>2, <3>3
  <2>. QED
    BY <2>2, <2>3
<1>4. CASE label = "minus"
  BY <1>1, <1>4 DEF Shape, LabelOf
<1>5. CASE label = "zero" \/ label = "any1"
  <2>1. Whole(s, n) /\ (s[Lead(s) + 1] = Zero <=> label = "zero")
    BY <1>1, <1>5, SMTT(30) DEF Shape, Whole, Digits
  <2>2. s[n] \in Digit /\ ~Marked(s, n, Exponent) /\ ~Marked(s, n, {Point})
    BY <1>1, <1>2, <2>1 DEF Marked
  <2>. QED
    BY <1>5, <2>1, <2>2 DEF LabelOf
<1>6. CASE label = "decimal1"
  BY <1>6 DEF Shape, LabelOf
<1>7. CASE label = "decimal2"
  <2>1. PICK i \in 1 .. n : Whole(s, i) /\ n # i /\ Fraction(s, i, n)
    BY <1>7 DEF Shape
  <2>2. s[i + 1] = Point /\ i + 1 \in 1 .. n
    BY <1>1, <2>1 DEF Fraction
  <2>3. n \in 1 .. n /\ i <= n
    BY <1>1
  <2>4. s[n] \in Digit /\ ~Marked(s, n, Exponent) /\ Marked(s, n, {Point})
    BY <1>3, <2>1, <2>2, <2>3 DEF Marked
  <2>. QED
    BY <1>7, <2>4 DEF LabelOf
<1>8. CASE label = "exponent"
  <2>1. s[n] = 101 \/ s[n] = 69
    BY <1>8 DEF Shape
  <2>. QED
    BY <1>8, <2>1 DEF LabelOf
<1>9. CASE label = "sign"
  <2>1. s[n] = Plus \/ s[n] = Minus
    BY <1>9 DEF Shape
  <2>2. n # 1
    BY <1>1, <1>9 DEF Shape
  <2>. QED
    BY <1>9, <2>1, <2>2 DEF LabelOf
<1>10. CASE label = "any2"
  <2>1. PICK i, j \in 1 .. n : /\ i <= j /\ Whole(s, i) /\ Fraction(s, i, j)
                               /\ n # j /\ Scale(s, j, n)
    BY <1>10 DEF Shape
  <2>2. s[j + 1] \in Exponent /\ j + 1 \in 1 .. n /\ s[n] \in Digit
    BY <1>1, <2>1 DEF Scale, Digits
  <2>3. Marked(s, n, Exponent)
    BY <2>2 DEF Marked
  <2>. QED
    BY <1>10, <2>2, <2>3 DEF LabelOf
<1>. QED
  BY <1>4, <1>5, <1>6, <1>7, <1>8, <1>9, <1>10 DEF Shape

(* A label is a matter of the first n bytes.                               *)
LEMMA SameLabel ==
  ASSUME NEW s \in Seq(Byte), NEW t \in Seq(Byte), NEW n \in 1 .. Len(s), n <= Len(t),
         \A k \in 1 .. n : s[k] = t[k], NEW label, Shape(label, s, n)
  PROVE  Shape(label, t, n)
<1>1. n \in Nat \ {0} /\ Lead(s) = Lead(t) /\ Lead(s) \in {0, 1} /\ s[1] = t[1]
  BY LenProperties DEF Lead
<1>2. ASSUME NEW i \in 1 .. n, Whole(s, i)
      PROVE  Whole(t, i)
  <2>1. \A k \in Lead(s) + 1 .. i : k \in 1 .. n
    BY <1>1
  <2>2. Lead(s) + 1 \in 1 .. n
    BY <1>1, <1>2 DEF Whole
  <2>. QED
    BY <1>1, <1>2, <2>1, <2>2 DEF Whole, Digits
<1>3. ASSUME NEW i \in 1 .. n, NEW j \in 1 .. n, i <= j, Fraction(s, i, j)
      PROVE  Fraction(t, i, j)
  <2>1. \A k \in i + 1 .. j : k \in 1 .. n
    BY <1>1
  <2>. QED
    BY <1>1, <1>3, <2>1 DEF Fraction, Digits
<1>4. ASSUME NEW j \in 1 .. n, n # j, Scale(s, j, n)
      PROVE  Scale(t, j, n)
  <2>1. \A k \in j + 1 .. n : k \in 1 .. n
    BY <1>1
  <2>. QED
    BY <1>1, <1>4, <2>1 DEF Scale, Digits
<1>5. CASE label = "minus"
  BY <1>1, <1>5 DEF Shape
<1>6. CASE label = "zero"
  BY <1>1, <1>6 DEF Shape
<1>7. CASE label = "any1"
  <2>1. \A k \in Lead(s) + 1 .. n : k \in 1 .. n
    BY <1>1
  <2>2. Lead(s) + 1 \in 1 .. n
    BY <1>1, <1>7 DEF Shape
  <2>. QED
    BY <1>1, <1>7, <2>1, <2>2 DEF Shape, Digits
<1>8. CASE label = "decimal1"
  <2>1. PICK i \in 1 .. n : Whole(s, i) /\ n = i + 1 /\ s[i + 1] = Point
    BY <1>8 DEF Shape
  <2>2. n \in 1 .. n
    BY <1>1
  <2>. QED
    BY <1>2, <1>8, <2>1, <2>2 DEF Shape
<1>9. CASE label = "decimal2"
  <2>1. PICK i \in 1 .. n : Whole(s, i) /\ n # i /\ Fraction(s, i, n)
    BY <1>9 DEF Shape
  <2>2. n \in 1 .. n /\ i <= n
    BY <1>1
  <2>. QED
    BY <1>2, <1>3, <1>9, <2>1, <2>2 DEF Shape
<1>10. CASE label = "exponent"
  <2>1. PICK i, j \in 1 .. n : /\ i <= j /\ Whole(s, i) /\ Fraction(s, i, j)
                               /\ n = j + 1 /\ s[j + 1] \in Exponent
    BY <1>10 DEF Shape
  <2>2. n \in 1 .. n
    BY <1>1
  <2>3. Whole(t, i) /\ Fraction(t, i, j) /\ t[j + 1] \in Exponent
    BY <1>2, <1>3, <2>1, <2>2
  <2>. QED
    BY <1>10, <2>1, <2>3 DEF Shape
<1>11. CASE label = "sign"
  <2>1. PICK i, j \in 1 .. n : /\ i <= j /\ Whole(s, i) /\ Fraction(s, i, j)
                               /\ n = j + 2 /\ s[j + 1] \in Exponent /\ s[j + 2] \in {Plus, Minus}
    BY <1>11 DEF Shape
  <2>2. j + 1 \in 1 .. n /\ j + 2 \in 1 .. n
    BY <1>1, <2>1
  <2>3. /\ Whole(t, i) /\ Fraction(t, i, j) /\ t[j + 1] \in Exponent
        /\ t[j + 2] \in {Plus, Minus}
    BY <1>2, <1>3, <2>1, <2>2
  <2>. QED
    BY <1>11, <2>1, <2>3 DEF Shape
<1>12. CASE label = "any2"
  <2>1. PICK i, j \in 1 .. n : /\ i <= j /\ Whole(s, i) /\ Fraction(s, i, j)
                               /\ n # j /\ Scale(s, j, n)
    BY <1>12 DEF Shape
  <2>2. Whole(t, i) /\ Fraction(t, i, j) /\ Scale(t, j, n)
    BY <1>2, <1>3, <1>4, <2>1
  <2>. QED
    BY <1>12, <2>1, <2>2 DEF Shape
<1>. QED
  BY <1>5, <1>6, <1>7, <1>8, <1>9, <1>10, <1>11, <1>12 DEF Shape

(* A byte that goes on leads to the next label.                            *)
LEMMA LabelAfter ==
  ASSUME NEW s \in Seq(Byte), NEW n \in 1 .. Len(s), n + 1 <= Len(s),
         NEW label \in Labels, Shape(label, s, n), s[n + 1] \in Accepts(label)
  PROVE  Shape(Successor(label, s[n + 1]), s, n + 1) /\ Successor(label, s[n + 1]) \in Labels
<1>. USE DEF Minus, Plus, Point, Digit, Zero, Exponent, Lower, Upper
<1>. DEFINE c == s[n + 1]
<1>1. n \in Nat \ {0} /\ Lead(s) \in {0, 1} /\ (Lead(s) = 1 <=> s[1] = Minus)
  BY LenProperties DEF Lead
<1>2. ASSUME label \in {"zero", "any1"}
      PROVE  Whole(s, n)
  BY <1>1, <1>2 DEF Shape, Whole, Digits
<1>3. ASSUME label = "decimal2"
      PROVE  \E i \in 1 .. n : Whole(s, i) /\ n # i /\ Fraction(s, i, n)
  BY <1>3 DEF Shape
<1>4. CASE c = Point
  <2>1. label \in {"zero", "any1"}
    BY <1>4 DEF Accepts, Labels, Complete
  <2>2. Shape("decimal1", s, n + 1)
    BY <1>1, <1>2, <1>4, <2>1 DEF Shape
  <2>. QED
    BY <1>4, <2>2 DEF Successor, Labels
<1>5. CASE c \in Exponent
  <2>1. label \in {"zero", "any1", "decimal2"}
    BY <1>5, SMTT(20) DEF Accepts, Labels, Complete
  <2>2. \E i \in 1 .. n : Whole(s, i) /\ Fraction(s, i, n)
    BY <1>1, <1>2, <1>3, <2>1 DEF Fraction
  <2>3. Shape("exponent", s, n + 1)
    <3>1. PICK i \in 1 .. n : Whole(s, i) /\ Fraction(s, i, n)
      BY <2>2
    <3>2. i \in 1 .. n + 1 /\ n \in 1 .. n + 1 /\ i <= n
      BY <1>1
    <3>. QED
      BY <1>5, <3>1, <3>2 DEF Shape
  <2>4. Successor(label, c) = "exponent"
    <3>1. CASE c = 101
      BY <3>1 DEF Successor
    <3>2. CASE c = 69
      BY <3>2 DEF Successor
    <3>. QED
      BY <1>5, <3>1, <3>2
  <2>. QED
    BY <2>3, <2>4 DEF Labels
<1>6. CASE c \in {Plus, Minus}
  <2>1. label = "exponent"
    <3>1. CASE label \in {"zero", "any1", "decimal2"}
      <4>1. Accepts(label) \subseteq {Point} \cup Exponent \cup Digit
        BY <3>1 DEF Accepts
      <4>. QED
        BY <1>6, <4>1
    <3>2. CASE label \in {"minus", "decimal1", "sign", "any2"}
      BY <1>6, <3>2 DEF Accepts
    <3>. QED
      BY <3>1, <3>2 DEF Labels, Complete
  <2>2. PICK i, j \in 1 .. n : /\ i <= j /\ Whole(s, i) /\ Fraction(s, i, j)
                               /\ n = j + 1 /\ s[j + 1] \in Exponent
    BY <2>1 DEF Shape
  <2>3. i \in 1 .. n + 1 /\ j \in 1 .. n + 1 /\ n + 1 = j + 2 /\ s[j + 2] \in {Plus, Minus}
    BY <1>1, <1>6, <2>2
  <2>4. Shape("sign", s, n + 1)
    BY <2>2, <2>3 DEF Shape
  <2>. QED
    BY <1>6, <2>4 DEF Successor, Labels
<1>7. CASE c \in Digit
  <2>1. CASE label = "minus"
    <3>1. n = 1 /\ Lead(s) = 1
      BY <1>1, <2>1 DEF Shape
    <3>2. Shape(IF c = Zero THEN "zero" ELSE "any1", s, n + 1)
      BY <1>7, <3>1 DEF Shape, Digits
    <3>. QED
      BY <1>7, <2>1, <3>2 DEF Successor, Labels, Complete
  <2>2. CASE label = "any1"
    <3>1. Shape("any1", s, n + 1)
      BY <1>1, <1>7, <2>2 DEF Shape, Digits
    <3>. QED
      BY <1>7, <2>2, <3>1 DEF Successor, Labels, Complete
  <2>3. CASE label \in {"decimal1", "decimal2"}
    <3>1. \E i \in 1 .. n : Whole(s, i) /\ Fraction(s, i, n + 1)
      <4>1. CASE label = "decimal1"
        BY <1>1, <1>7, <4>1 DEF Shape, Fraction, Digits
      <4>2. CASE label = "decimal2"
        BY <1>1, <1>7, <4>2 DEF Shape, Fraction, Digits
      <4>. QED
        BY <2>3, <4>1, <4>2
    <3>2. PICK i \in 1 .. n : Whole(s, i) /\ Fraction(s, i, n + 1)
      BY <3>1
    <3>3. i \in 1 .. n + 1 /\ n + 1 # i
      BY <1>1
    <3>4. Shape("decimal2", s, n + 1)
      BY <3>2, <3>3 DEF Shape
    <3>. QED
      BY <1>7, <2>3, <3>4 DEF Successor, Labels, Complete
  <2>4. CASE label \in {"exponent", "sign", "any2"}
    <3>1. PICK i, j \in 1 .. n : /\ i <= j /\ Whole(s, i) /\ Fraction(s, i, j) /\ n # j
                                 /\ \/ n = j + 1 /\ s[j + 1] \in Exponent
                                    \/ n = j + 2 /\ s[j + 1] \in Exponent /\ s[j + 2] \in {Plus, Minus}
                                    \/ Scale(s, j, n)
      BY <1>1, <2>4 DEF Shape
    <3>2. Scale(s, j, n + 1)
      <4>1. CASE n = j + 1 /\ s[j + 1] \in Exponent
        BY <1>1, <1>7, <4>1 DEF Scale, Digits
      <4>2. CASE n = j + 2 /\ s[j + 1] \in Exponent /\ s[j + 2] \in {Plus, Minus}
        BY <1>1, <1>7, <4>2 DEF Scale, Digits
      <4>3. CASE Scale(s, j, n)
        BY <1>1, <1>7, <3>1, <4>3 DEF Scale, Digits
      <4>. QED
        BY <3>1, <4>1, <4>2, <4>3
    <3>3. i \in 1 .. n + 1 /\ j \in 1 .. n + 1 /\ n + 1 # j
      BY <1>1
    <3>4. Shape("any2", s, n + 1)
      BY <3>1, <3>2, <3>3 DEF Shape
    <3>. QED
      BY <1>7, <2>4, <3>4 DEF Successor, Labels, Complete
  <2>5. label # "zero"
    BY <1>7 DEF Accepts
  <2>. QED
    BY <2>1, <2>2, <2>3, <2>4, <2>5 DEF Labels, Complete
<1>. QED
  BY <1>4, <1>5, <1>6, <1>7 DEF Accepts

(* From a label, a byte that does not go on can be part of no number.      *)
LEMMA NoNumberAfter ==
  ASSUME NEW s \in Seq(Byte), s # <<>>, NEW label \in Labels, Shape(label, s, Len(s)),
         NEW c \in Byte, c \notin Accepts(label)
  PROVE  ~BeginsNumber(Append(s, c))
<1>. DEFINE n == Len(s)
            t == Append(s, c)
            z == Append(t, Zero)
<1>0. Zero \in Byte
  BY DEF Zero, Byte
<1>1. n \in Nat \ {0}
  BY EmptySeq
<1>2. /\ t \in Seq(Byte) /\ Len(t) = n + 1 /\ t[n + 1] = c /\ \A k \in 1 .. n : t[k] = s[k]
      /\ t # <<>>
  BY AppendProperties
<1>3. /\ z \in Seq(Byte) /\ Len(z) = n + 2 /\ z[n + 1] = c /\ \A k \in 1 .. n : z[k] = s[k]
      /\ z # <<>>
  BY <1>0, <1>1, <1>2, AppendProperties
<1>4. ASSUME NEW u \in Seq(Byte), u # <<>>, n + 1 <= Len(u), u[n + 1] = c, IsNumber(u),
             \A k \in 1 .. n : u[k] = s[k]
      PROVE  FALSE
  <2>1. n \in 1 .. Len(s) /\ n \in 1 .. Len(u) /\ n + 1 \in 1 .. Len(u) /\ n <= Len(s)
    BY <1>1, <1>4, LenProperties
  <2>2. PICK l \in Labels : Shape(l, u, n + 1)
    BY <1>4, <2>1, NumberHasLabels
  <2>3. PICK m \in Labels : Shape(m, u, n) /\ c \in Accepts(m)
    BY <1>4, <2>1, <2>2, LabelBefore
  <2>4. Shape(m, s, n)
    BY <1>4, <2>1, <2>3, SameLabel
  <2>5. m = LabelOf(s, n) /\ label = LabelOf(s, n)
    BY <2>1, <2>4, OneLabel
  <2>. QED
    BY <2>3, <2>5
<1>5. ~IsNumber(t)
  <2>1. n + 1 <= Len(t)
    BY <1>1, <1>2
  <2>. HIDE DEF t
  <2>. QED
    BY <1>2, <1>4, <2>1
<1>6. ~IsNumber(z)
  <2>1. n + 1 <= Len(z)
    BY <1>1, <1>3
  <2>. HIDE DEF z
  <2>. QED
    BY <1>3, <1>4, <2>1
<1>. QED
  BY <1>5, <1>6 DEF BeginsNumber

LEMMA CompleteIsNumber ==
  ASSUME NEW s \in Seq(Byte), s # <<>>, NEW label \in Complete, Shape(label, s, Len(s))
  PROVE  IsNumber(s)
<1>1. Len(s) \in Nat \ {0} /\ Lead(s) \in {0, 1} /\ Len(s) \in 1 .. Len(s)
  BY EmptySeq DEF Lead
<1>2. \E i \in 1 .. Len(s), j \in 1 .. Len(s) :
        i <= j /\ Whole(s, i) /\ Fraction(s, i, j) /\ Scale(s, j, Len(s))
  <2>1. CASE label \in {"zero", "any1"}
    <3>1. Whole(s, Len(s))
      BY <1>1, <2>1 DEF Shape, Whole, Digits, Zero, Digit
    <3>2. Fraction(s, Len(s), Len(s)) /\ Scale(s, Len(s), Len(s))
      BY DEF Fraction, Scale
    <3>. QED
      BY <1>1, <3>1, <3>2
  <2>2. CASE label = "decimal2"
    <3>1. PICK i \in 1 .. Len(s) : Whole(s, i) /\ Len(s) # i /\ Fraction(s, i, Len(s))
      BY <2>2 DEF Shape
    <3>2. Scale(s, Len(s), Len(s)) /\ i <= Len(s)
      BY <1>1 DEF Scale
    <3>. QED
      BY <1>1, <3>1, <3>2
  <2>3. CASE label = "any2"
    BY <2>3 DEF Shape
  <2>. QED
    BY <2>1, <2>2, <2>3 DEF Complete
<1>3. PICK i \in 1 .. Len(s), j \in 1 .. Len(s) :
        i <= j /\ Whole(s, i) /\ Fraction(s, i, j) /\ Scale(s, j, Len(s))
  BY <1>2
<1>4. j \in i .. Len(s)
  BY <1>1, <1>3
<1>. QED
  BY <1>3, <1>4, NumberSplit

(* The lexer's buffer at a label is the beginning of a number.             *)
LEMMA LabelBeginsNumber ==
  ASSUME NEW s \in Seq(Byte), s # <<>>, NEW label \in Labels, Shape(label, s, Len(s))
  PROVE  BeginsNumber(s)
<1>1. CASE label \in Complete
  BY <1>1, CompleteIsNumber DEF BeginsNumber
<1>2. CASE label \notin Complete
  <2>. DEFINE n == Len(s)
              z == Append(s, Zero)
  <2>1. n \in Nat \ {0} /\ Zero \in Byte
    BY EmptySeq DEF Zero, Byte
  <2>2. /\ z \in Seq(Byte) /\ Len(z) = n + 1 /\ z[n + 1] = Zero /\ \A k \in 1 .. n : z[k] = s[k]
        /\ z # <<>>
    BY <2>1, AppendProperties
  <2>3. n \in 1 .. Len(s) /\ n \in 1 .. Len(z) /\ n <= Len(z) /\ n + 1 <= Len(z)
    BY <2>1, <2>2
  <2>4. Shape(label, z, n)
    BY <2>2, <2>3, SameLabel
  <2>5. label \in {"minus", "decimal1", "exponent", "sign"}
    BY <1>2 DEF Labels
  <2>6. Zero \in Accepts(label) /\ Successor(label, Zero) \in Complete
    BY <2>5 DEF Accepts, Successor, Complete, Zero, Digit, Point, Plus, Minus, Exponent, Lower, Upper
  <2>7. Shape(Successor(label, Zero), z, Len(z))
    BY <2>2, <2>3, <2>4, <2>6, LabelAfter
  <2>8. IsNumber(z)
    BY <2>2, <2>6, <2>7, CompleteIsNumber
  <2>. QED
    BY <2>8 DEF BeginsNumber
<1>. QED
  BY <1>1, <1>2

(* Taking a byte that goes on.                                             *)
LEMMA LabelStep ==
  ASSUME NEW s \in Seq(Byte), s # <<>>, NEW label \in Labels, Shape(label, s, Len(s)),
         NEW c \in Byte, c \in Accepts(label)
  PROVE  /\ Successor(label, c) \in Labels
         /\ Shape(Successor(label, c), Append(s, c), Len(Append(s, c)))
<1>. DEFINE n == Len(s)
            t == Append(s, c)
<1>1. n \in Nat \ {0}
  BY EmptySeq
<1>2. t \in Seq(Byte) /\ Len(t) = n + 1 /\ t[n + 1] = c /\ \A k \in 1 .. n : t[k] = s[k]
  BY AppendProperties
<1>3. n \in 1 .. Len(s) /\ n \in 1 .. Len(t) /\ n <= Len(t) /\ n + 1 <= Len(t)
  BY <1>1, <1>2
<1>4. Shape(label, t, n)
  BY <1>2, <1>3, SameLabel
<1>. QED
  BY <1>2, <1>3, <1>4, LabelAfter

LEMMA FirstLabel ==
  ASSUME NEW c \in Digit \cup {Minus}
  PROVE  LET label == IF c = Minus THEN "minus" ELSE IF c = Zero THEN "zero" ELSE "any1"
         IN  label \in Labels /\ Shape(label, <<c>>, 1)
<1>. USE DEF Minus, Digit, Zero
<1>1. <<c>>[1] = c /\ (c = Minus => Lead(<<c>>) = 1) /\ (c # Minus => Lead(<<c>>) = 0)
  BY DEF Lead
<1>2. CASE c = Minus
  BY <1>1, <1>2 DEF Shape, Labels
<1>3. CASE c = Zero
  BY <1>1, <1>3 DEF Shape, Labels, Complete
<1>4. CASE c \in Digit /\ c # Zero
  BY <1>1, <1>4 DEF Shape, Labels, Complete, Digits
<1>. QED
  BY <1>2, <1>3, <1>4

(* Which of the numbers are integers.                                      *)
LEMMA IntegerLabels ==
  ASSUME NEW s \in Seq(Byte), s # <<>>, NEW label \in Complete, Shape(label, s, Len(s))
  PROVE  /\ IsDigits(s) <=> label \in {"zero", "any1"} /\ s[1] # Minus
         /\ s[1] = Minus => (IsDigits(Tail(s)) <=> label \in {"zero", "any1"})
<1>. USE DEF Minus, Point, Digit, Zero, Exponent, Lower, Upper
<1>. DEFINE n == Len(s)
<1>1. n \in Nat \ {0} /\ Lead(s) \in {0, 1} /\ (Lead(s) = 1 <=> s[1] = Minus)
  BY EmptySeq DEF Lead
<1>2. s = SubSeq(s, 1, n) /\ Tail(s) = SubSeq(s, 2, n)
  BY SubSeqFull, TailIsSubSeq
<1>3. /\ IsDigits(s) <=> Digits(s, 1, n)
      /\ IsDigits(Tail(s)) <=> 2 <= n /\ Digits(s, 2, n)
  <2>1. n \in 0 .. Len(s) /\ 1 \in Nat \ {0} /\ 2 \in Nat \ {0} /\ 1 <= n
    BY <1>1
  <2>2. IsDigits(SubSeq(s, 1, n)) <=> 1 <= n /\ Digits(s, 1, n)
    BY <2>1, DigitsOfPart
  <2>3. IsDigits(SubSeq(s, 2, n)) <=> 2 <= n /\ Digits(s, 2, n)
    BY <2>1, DigitsOfPart
  <2>. QED
    BY <1>2, <2>1, <2>2, <2>3
<1>4. CASE label \in {"zero", "any1"}
  <2>1. Lead(s) < n /\ Digits(s, Lead(s) + 1, n)
    BY <1>1, <1>4 DEF Shape, Digits
  <2>2. CASE s[1] = Minus
    BY <1>1, <1>3, <1>4, <2>1, <2>2 DEF Digits
  <2>3. CASE s[1] # Minus
    BY <1>1, <1>3, <1>4, <2>1, <2>3 DEF Digits
  <2>. QED
    BY <2>2, <2>3
<1>5. CASE label \in {"decimal2", "any2"}
  <2>1. \E k \in 2 .. n : s[k] \notin Digit
    <3>1. CASE label = "decimal2"
      <4>1. PICK i \in 1 .. n : Whole(s, i) /\ n # i /\ Fraction(s, i, n)
        BY <3>1 DEF Shape
      <4>2. s[i + 1] = Point /\ i + 1 \in 2 .. n
        BY <1>1, <4>1 DEF Fraction
      <4>. QED
        BY <4>2
    <3>2. CASE label = "any2"
      <4>1. PICK i, j \in 1 .. n : /\ i <= j /\ Whole(s, i) /\ Fraction(s, i, j)
                                   /\ n # j /\ Scale(s, j, n)
        BY <3>2 DEF Shape
      <4>2. s[j + 1] \in Exponent /\ j + 1 \in 2 .. n
        BY <1>1, <4>1 DEF Scale
      <4>. QED
        BY <4>2
    <3>. QED
      BY <1>5, <3>1, <3>2
  <2>2. ~Digits(s, 1, n) /\ ~Digits(s, 2, n)
    BY <1>1, <2>1 DEF Digits
  <2>. QED
    BY <1>3, <1>5, <2>2
<1>. QED
  BY <1>4, <1>5 DEF Complete

-------------------------------------------------------------------------------
(* The state                                                               *)

StringPcs == {"string", "tail", "escape", "hex", "pair", "pair_u"}
Pcs == {"returned", "bom", "bom2", "bom3", "space", "comment", "line_comment", "comment_text",
        "comment_star", "literal"} \cup Labels \cup StringPcs

CodeUnit == {n \in Nat : n <= \hFFFF}
Surrogates == {<<h>> : h \in High}

PlaceInv == from \in Nat /\ start \in Nat /\ from <= start /\ start <= Len(Consumed)
ExpectedInv == /\ expected \in Seq(SUBSET Byte)
               /\ pc \in {"literal", "tail"} => expected # <<>>
HexInv == /\ hex \in Seq(-1 .. 15) /\ Len(hex) <= 4
          /\ pc = "hex" => hex \in Seq(0 .. 15) /\ Len(hex) < 4
CodeInv == /\ codepoints \in Seq(CodeUnit) /\ Len(codepoints) <= 2
           /\ pc = "escape" => codepoints = <<>>
           /\ pc = "hex" => codepoints = <<>> \/ codepoints \in Surrogates
           /\ pc \in {"pair", "pair_u"} => codepoints \in Surrogates
TypeInv ==
  /\ ignore_comments \in BOOLEAN /\ over \in BOOLEAN /\ pc \in Pcs
  /\ ReaderInv /\ PlaceInv
  /\ token_buffer \in Seq(Byte)
  /\ ExpectedInv /\ HexInv /\ CodeInv

TextIsPart ==
  /\ Text = SubSeq(Consumed, start + 1, Len(Consumed))
  /\ Text \in Seq(Byte) /\ Len(Text) = Len(Consumed) - start
  /\ \A k \in 1 .. Len(Text) : Text[k] = Consumed[start + k]

LEMMA TextPart == ReaderInv /\ start \in Nat /\ start <= Len(Consumed) => TextIsPart
<1>. SUFFICES ASSUME ReaderInv, start \in Nat, start <= Len(Consumed)
              PROVE  TextIsPart
  OBVIOUS
<1>. DEFINE k == Len(Consumed)
            t == SubSeq(Consumed, start + 1, k)
<1>1. Consumed \in Seq(Byte) /\ k \in Nat /\ k <= Len(input) /\ input \in Seq(Byte)
      /\ Len(input) \in Nat
  BY ConsumedType, LenProperties DEF ReaderInv
<1>2. \A i \in 1 .. k : Consumed[i] = input[i]
  <2>1. CASE next_unget /\ current # EOF
    <3>1. Consumed = Front(input) /\ input # <<>>
      BY <2>1 DEF Consumed, ReaderInv
    <3>2. input = Append(Consumed, input[Len(input)]) /\ input[Len(input)] \in Byte
      BY <1>1, <3>1, FrontOf, ElementOfSeq, EmptySeq
    <3>. QED
      BY <1>1, <3>2, AppendProperties
  <2>2. CASE ~(next_unget /\ current # EOF)
    BY <2>2 DEF Consumed
  <2>. QED
    BY <2>1, <2>2
<1>. HIDE DEF k
<1>3. start + 1 \in Nat \ {0} /\ k \in 0 .. k /\ k \in 0 .. Len(input)
  BY <1>1
<1>4. /\ t \in Seq(Byte) /\ Len(t) = k - start
      /\ \A i \in 1 .. k - start : t[i] = Consumed[start + i]
  <2>1. Len(Consumed) = k
    BY DEF k
  <2>2. /\ t \in Seq(Byte) /\ Len(t) = IF start + 1 <= k THEN k - (start + 1) + 1 ELSE 0
        /\ \A i \in 1 .. k - (start + 1) + 1 : t[i] = Consumed[(start + 1) + i - 1]
    BY <1>1, <1>3, <2>1, Part
  <2>3. start <= k
    BY <2>1
  <2>. QED
    BY <1>1, <2>2, <2>3
<1>5. /\ Text \in Seq(Byte) /\ Len(Text) = k - start
      /\ \A i \in 1 .. k - start : Text[i] = input[start + i]
  <2>1. Text = SubSeq(input, start + 1, k)
    BY DEF Text, k
  <2>2. /\ Text \in Seq(Byte) /\ Len(Text) = IF start + 1 <= k THEN k - (start + 1) + 1 ELSE 0
        /\ \A i \in 1 .. k - (start + 1) + 1 : Text[i] = input[(start + 1) + i - 1]
    BY <1>1, <1>3, <2>1, Part
  <2>3. start <= k
    BY DEF k
  <2>. QED
    BY <1>1, <2>2, <2>3
<1>6. \A i \in 1 .. k - start : start + i \in 1 .. k
  BY <1>1
<1>7. \A i \in 1 .. Len(t) : t[i] = Text[i]
  BY <1>1, <1>2, <1>4, <1>5, <1>6
<1>8. t = Text
  BY <1>4, <1>5, <1>7, SeqEqual
<1>. QED
  BY <1>4, <1>8 DEF k, TextIsPart

(* What get() and unget() do to the text of the token.                     *)
LEMMA TextGet ==
  ASSUME ReaderInv, start \in Nat, start <= Len(Consumed), NEW c \in Bytes, Get(c), start' = start
  PROVE  /\ ReaderInv' /\ c \in -1 .. 255 /\ (c # EOF => c \in Byte)
         /\ current' = c /\ next_unget' = FALSE
         /\ start' <= Len(Consumed')
         /\ Text' = IF c = EOF THEN Text ELSE Append(Text, c)
<1>1. /\ ReaderInv' /\ c \in -1 .. 255 /\ (c # EOF => c \in Byte)
      /\ current' = c /\ next_unget' = FALSE
      /\ Consumed' = IF c = EOF THEN Consumed ELSE Append(Consumed, c)
  BY GetStep
<1>2. Consumed \in Seq(Byte) /\ Len(Consumed) \in Nat
  BY ConsumedType
<1>3. /\ Len(Consumed) <= Len(Consumed')
  BY <1>1, <1>2, AppendProperties
<1>4. start' \in Nat /\ start' <= Len(Consumed')
  BY <1>1, <1>2, <1>3, AppendProperties
<1>5. /\ Text = SubSeq(Consumed, start + 1, Len(Consumed))
      /\ Text \in Seq(Byte) /\ Len(Text) = Len(Consumed) - start
      /\ \A k \in 1 .. Len(Text) : Text[k] = Consumed[start + k]
  BY TextPart DEF TextIsPart
<1>6. /\ Text' = SubSeq(Consumed', start' + 1, Len(Consumed'))
      /\ Text' \in Seq(Byte) /\ Len(Text') = Len(Consumed') - start'
      /\ \A k \in 1 .. Len(Text') : Text'[k] = Consumed'[start' + k]
  <2>1. (ReaderInv /\ start \in Nat /\ start <= Len(Consumed))' => TextIsPart'
    BY TextPart, PTL
  <2>. QED
    BY <1>1, <1>4, <2>1 DEF TextIsPart
<1>7. CASE c = EOF
  BY <1>1, <1>3, <1>4, <1>5, <1>6, <1>7
<1>8. CASE c # EOF
  <2>1. /\ Consumed' \in Seq(Byte) /\ Len(Consumed') = Len(Consumed) + 1
        /\ Consumed'[Len(Consumed) + 1] = c
        /\ \A k \in 1 .. Len(Consumed) : Consumed'[k] = Consumed[k]
    BY <1>1, <1>2, <1>8, AppendProperties
  <2>2. /\ Append(Text, c) \in Seq(Byte) /\ Len(Append(Text, c)) = Len(Text) + 1
        /\ Append(Text, c)[Len(Text) + 1] = c
        /\ \A k \in 1 .. Len(Text) : Append(Text, c)[k] = Text[k]
    <3>1. c \in Byte /\ Text \in Seq(Byte)
      BY <1>1, <1>5, <1>8
    <3>. QED
      BY <3>1, AppendProperties
  <2>3. Len(Text) \in Nat /\ Len(Text') = Len(Text) + 1
    BY <1>2, <1>5, <1>6, <2>1, LenProperties
  <2>4. ASSUME NEW k \in 1 .. Len(Text) + 1
        PROVE  Text'[k] = Append(Text, c)[k]
    <3>1. CASE k = Len(Text) + 1
      BY <1>2, <1>5, <1>6, <2>1, <2>2, <2>3, <3>1
    <3>2. CASE k # Len(Text) + 1
      <4>1. k \in 1 .. Len(Text) /\ start + k \in 1 .. Len(Consumed)
        <5>1. start \in Nat /\ Len(Text) = Len(Consumed) - start /\ Len(Consumed) \in Nat
          BY <1>2, <1>5
        <5>. QED
          BY <2>3, <3>2, <5>1
      <4>. QED
        BY <1>5, <1>6, <2>1, <2>2, <2>3, <4>1
    <3>. QED
      BY <3>1, <3>2
  <2>5. Text' = Append(Text, c)
    BY <1>6, <2>2, <2>3, <2>4, SeqEqual
  <2>. QED
    BY <1>1, <1>4, <1>8, <2>5
<1>. QED
  BY <1>7, <1>8

LEMMA TextUnget ==
  ASSUME ReaderInv, start \in Nat, start <= Len(Consumed), NEW c \in Bytes, GetThenUnget(c), start' = start
  PROVE  /\ ReaderInv' /\ c \in -1 .. 255 /\ (c # EOF => c \in Byte)
         /\ current' = c /\ next_unget' = TRUE
         /\ start' <= Len(Consumed')
         /\ Text' = Text
<1>1. /\ ReaderInv' /\ c \in -1 .. 255 /\ (c # EOF => c \in Byte)
      /\ current' = c /\ next_unget' = TRUE
      /\ Consumed' = Consumed
  BY UngetStep
<1>2. Text = SubSeq(Consumed, start + 1, Len(Consumed))
  BY TextPart DEF TextIsPart
<1>3. start' \in Nat /\ start' <= Len(Consumed')
  BY <1>1
<1>4. Text' = SubSeq(Consumed', start' + 1, Len(Consumed'))
  <2>1. (ReaderInv /\ start \in Nat /\ start <= Len(Consumed))' => TextIsPart'
    BY TextPart, PTL
  <2>. QED
    BY <1>1, <1>3, <2>1 DEF TextIsPart
<1>. QED
  BY <1>1, <1>2, <1>3, <1>4

LEMMA KeepType ==
  ASSUME TypeInv, ReaderInv', start' = start, from' = from, start' <= Len(Consumed'), pc' \in Pcs,
         UNCHANGED <<ignore_comments, over, expected, codepoints, hex>>, token_buffer' \in Seq(Byte),
         pc' \in {"literal", "tail", "escape", "hex", "pair", "pair_u"} => pc' = pc
  PROVE  TypeInv'
<1>1. PlaceInv'
  BY DEF TypeInv, PlaceInv
<1>2. ExpectedInv'
  BY DEF TypeInv, ExpectedInv
<1>3. HexInv'
  BY DEF TypeInv, HexInv
<1>4. CodeInv'
  BY DEF TypeInv, CodeInv
<1>5. ignore_comments' \in BOOLEAN /\ over' \in BOOLEAN
  BY DEF TypeInv
<1>. QED
  BY <1>1, <1>2, <1>3, <1>4, <1>5 DEF TypeInv

(* What each step but those of a string does to the types.                 *)
LEMMA TypeMark ==
  ASSUME TypeInv, Bom \/ BomRest \/ scan_comment
  PROVE  TypeInv'
<1>. USE DEF Goto, Return, Fail, Pcs
<1>1. ReaderInv /\ start \in Nat /\ start <= Len(Consumed) /\ token_buffer \in Seq(Byte)
  BY DEF TypeInv, PlaceInv
<1>2. /\ UNCHANGED <<ignore_comments, token_buffer, expected, codepoints, hex, over, from, start>>
      /\ \E c \in Bytes : Get(c) \/ GetThenUnget(c)
      /\ pc' \in {"returned", "space", "bom2", "bom3", "comment_text", "comment_star", "line_comment"}
  <2>1. CASE Bom
    BY <2>1 DEF Bom, literal, escape, history
  <2>2. CASE BomRest
    BY <2>2 DEF BomRest, literal, escape, history
  <2>3. CASE Comment
    BY <2>3 DEF Comment, literal, escape, history
  <2>4. CASE LineComment
    BY <2>4 DEF LineComment, literal, escape, history
  <2>5. CASE CommentText
    BY <2>5 DEF CommentText, literal, escape, history
  <2>6. CASE CommentStar
    BY <2>6 DEF CommentStar, literal, escape, history
  <2>. QED
    BY <2>1, <2>2, <2>3, <2>4, <2>5, <2>6 DEF scan_comment
<1>3. PICK c \in Bytes : Get(c) \/ GetThenUnget(c)
  BY <1>2
<1>4. ReaderInv' /\ start' <= Len(Consumed')
  BY <1>1, <1>2, <1>3, TextGet, TextUnget
<1>. QED
  BY <1>1, <1>2, <1>4, KeepType

LEMMA TypeNumber ==
  ASSUME TypeInv, scan_number
  PROVE  TypeInv'
<1>. USE DEF Goto, Return, Fail, Continue, NumberDone, NumberFails, Add, float
<1>1. ReaderInv /\ start \in Nat /\ start <= Len(Consumed) /\ token_buffer \in Seq(Byte)
  BY DEF TypeInv, PlaceInv
<1>2. /\ UNCHANGED <<ignore_comments, expected, codepoints, hex, over, from, start>>
      /\ pc' \in Labels \cup {"returned"}
      /\ \E c \in Bytes : \/ Get(c) /\ c # EOF /\ token_buffer' = token_buffer \o <<c>>
                          \/ (Get(c) \/ GetThenUnget(c)) /\ token_buffer' = token_buffer
  <2>. USE DEF literal, escape, history, Labels, Complete, Digit, EOF, Point, Exponent, Plus, Minus, Lower, Upper
  <2>1. CASE ScanMinus
    BY <2>1 DEF ScanMinus
  <2>2. CASE ScanInteger
    BY <2>2 DEF ScanInteger
  <2>3. CASE ScanDecimal1
    BY <2>3 DEF ScanDecimal1
  <2>4. CASE ScanDecimal2
    BY <2>4, SMTT(20) DEF ScanDecimal2
  <2>5. CASE ScanExponent
    BY <2>5 DEF ScanExponent
  <2>6. CASE ScanSign
    BY <2>6 DEF ScanSign
  <2>7. CASE ScanAny2
    BY <2>7 DEF ScanAny2
  <2>. QED
    BY <2>1, <2>2, <2>3, <2>4, <2>5, <2>6, <2>7 DEF scan_number
<1>3. PICK c \in Bytes : \/ Get(c) /\ c # EOF /\ token_buffer' = token_buffer \o <<c>>
                         \/ (Get(c) \/ GetThenUnget(c)) /\ token_buffer' = token_buffer
  BY <1>2
<1>4. ReaderInv' /\ start' <= Len(Consumed') /\ (c # EOF => c \in Byte)
  BY <1>1, <1>2, <1>3, TextGet, TextUnget
<1>5. token_buffer' \in Seq(Byte)
  BY <1>1, <1>3, <1>4
<1>6. pc' \in Pcs /\ pc' \notin {"literal", "tail", "escape", "hex", "pair", "pair_u"}
  BY <1>2 DEF Pcs, Labels, Complete
<1>. QED
  BY <1>1, <1>2, <1>4, <1>5, <1>6, KeepType

(* The end of a literal, after its first byte.                             *)
LEMMA LiteralTexts ==
  ASSUME NEW l \in Literals
  PROVE  /\ l = <<l[1], l[2]>> /\ l[1] \in Seq(Byte) /\ Len(l[1]) \in {4, 5}
         /\ l[2] \in {"literal_true", "literal_false", "literal_null"}
         /\ l[1][1] \in {116, 102, 110}
         /\ [n \in 1 .. Len(l[1]) - 1 |-> {l[1][n + 1]}] \in Seq(SUBSET Byte)
<1>. USE DEF Literals, Lower
<1>1. /\ l = <<l[1], l[2]>> /\ l[1] \in Seq(Byte) /\ Len(l[1]) \in {4, 5}
      /\ l[2] \in {"literal_true", "literal_false", "literal_null"}
      /\ l[1][1] \in {116, 102, 110}
  <2>1. CASE l = <<TrueText, "literal_true">>
    BY <2>1 DEF TrueText, Byte
  <2>2. CASE l = <<FalseText, "literal_false">>
    BY <2>2 DEF FalseText, Byte
  <2>3. CASE l = <<NullText, "literal_null">>
    BY <2>3 DEF NullText, Byte
  <2>. QED
    BY <2>1, <2>2, <2>3
<1>2. Len(l[1]) - 1 \in Nat /\ \A n \in 1 .. Len(l[1]) - 1 : {l[1][n + 1]} \in SUBSET Byte
  <2>1. \A n \in 1 .. Len(l[1]) - 1 : n + 1 \in 1 .. Len(l[1])
    BY <1>1
  <2>2. \A n \in 1 .. Len(l[1]) : l[1][n] \in Byte
    BY <1>1, ElementOfSeq
  <2>. QED
    BY <1>1, <2>1, <2>2
<1>3. [n \in 1 .. Len(l[1]) - 1 |-> {l[1][n + 1]}] \in Seq(SUBSET Byte)
  BY <1>2, IsASeq
<1>. QED
  BY <1>1, <1>3

LEMMA LiteralFirst ==
  ASSUME NEW l \in Literals
  PROVE  l[1][1] \notin Digit \cup {Minus, Quote, Slash, \hEF, EOF}
<1>1. l[1][1] \in {116, 102, 110}
  BY LiteralTexts
<1>. QED
  BY <1>1 DEF Digit, Minus, Quote, Slash, EOF

(* The text after the first byte that is no white space.                   *)
LEMMA TextFirst ==
  ASSUME TypeInv, NEW c \in Bytes, Get(c),
         start' = (IF c = EOF THEN Len(input') ELSE Len(input') - 1)
  PROVE  /\ ReaderInv' /\ c \in -1 .. 255 /\ (c # EOF => c \in Byte)
         /\ current' = c /\ next_unget' = FALSE
         /\ start' \in Nat /\ from <= start' /\ start' <= Len(Consumed')
         /\ Text' = IF c = EOF THEN <<>> ELSE <<c>>
<1>1. /\ ReaderInv /\ start \in Nat /\ from \in Nat /\ from <= start /\ start <= Len(Consumed)
  BY DEF TypeInv, PlaceInv
<1>2. /\ ReaderInv' /\ c \in -1 .. 255 /\ (c # EOF => c \in Byte)
      /\ current' = c /\ next_unget' = FALSE
      /\ Consumed' = input' /\ Consumed' = IF c = EOF THEN Consumed ELSE Append(Consumed, c)
  BY <1>1, GetStep
<1>3. Consumed \in Seq(Byte) /\ Len(Consumed) \in Nat
  BY <1>1, ConsumedType
<1>4. c # EOF => Len(Append(Consumed, c)) = Len(Consumed) + 1 /\ Append(Consumed, c)[Len(Consumed) + 1] = c
  BY <1>2, <1>3, AppendProperties
<1>5. start' = Len(Consumed) /\ Len(Consumed') = IF c = EOF THEN Len(Consumed) ELSE Len(Consumed) + 1
  BY <1>2, <1>3, <1>4
<1>6. start' \in Nat /\ from <= start' /\ start' <= Len(Consumed')
  BY <1>1, <1>3, <1>5
<1>7. TextIsPart'
  <2>1. (ReaderInv /\ start \in Nat /\ start <= Len(Consumed))' => TextIsPart'
    BY TextPart, PTL
  <2>. QED
    BY <1>2, <1>6, <2>1
<1>8. CASE c = EOF
  <2>1. Text' \in Seq(Byte) /\ Len(Text') = 0
    BY <1>3, <1>5, <1>7, <1>8 DEF TextIsPart
  <2>2. Text' = <<>>
    BY <2>1, EmptySeq
  <2>. QED
    BY <1>2, <1>6, <1>8, <2>2
<1>9. CASE c # EOF
  <2>1. Text' \in Seq(Byte) /\ Len(Text') = 1 /\ Text'[1] = c
    BY <1>2, <1>3, <1>4, <1>5, <1>7, <1>9 DEF TextIsPart
  <2>2. Text' = <<c>>
    BY <2>1
  <2>. QED
    BY <1>2, <1>6, <1>9, <2>2
<1>. QED
  BY <1>8, <1>9

LEMMA TypeSpace ==
  ASSUME TypeInv, Space
  PROVE  TypeInv'
<1>. USE DEF Goto, Return, Fail
<1>1. PICK c \in Bytes :
        /\ Get(c)
        /\ start' = IF c = EOF THEN Len(input') ELSE Len(input') - 1
        /\ \/ c \in {Blank, HT, LF, CR} /\ Goto("space") /\ UNCHANGED <<token_buffer, literal>>
           \/ c = Slash /\ ignore_comments /\ Goto("comment") /\ UNCHANGED <<token_buffer, literal>>
           \/ \E t \in Structural : c = t[1] /\ Return(t[2]) /\ UNCHANGED <<token_buffer, literal>>
           \/ \E l \in Literals :
                /\ c = l[1][1]
                /\ expected' = [n \in 1 .. Len(l[1]) - 1 |-> {l[1][n + 1]}]
                /\ type' = l[2]
                /\ Goto("literal") /\ UNCHANGED token_buffer
           \/ c = Quote /\ Goto("string") /\ token_buffer' = <<>> /\ UNCHANGED literal
           \/ /\ c \in Digit \cup {Minus}
              /\ Goto(IF c = Minus THEN "minus" ELSE IF c = Zero THEN "zero" ELSE "any1")
              /\ type' = IF c = Minus THEN "value_integer" ELSE "value_unsigned"
              /\ token_buffer' = <<c>> /\ UNCHANGED expected
           \/ Stray(c) /\ Fail /\ UNCHANGED <<token_buffer, literal>>
  BY DEF Space
<1>2. /\ UNCHANGED <<ignore_comments, hex, codepoints, over, from>>
  BY DEF Space, escape
<1>3. /\ ReaderInv' /\ (c # EOF => c \in Byte)
      /\ start' \in Nat /\ from <= start' /\ start' <= Len(Consumed')
  BY <1>1, TextFirst
<1>4. /\ token_buffer' \in Seq(Byte) /\ expected' \in Seq(SUBSET Byte) /\ pc' \in Pcs
      /\ pc' \notin {"tail", "escape", "hex", "pair", "pair_u"}
      /\ pc' = "literal" => expected' # <<>>
  <2>. USE DEF Pcs, Labels, Complete, StringPcs
  <2>0. token_buffer \in Seq(Byte) /\ expected \in Seq(SUBSET Byte)
    BY DEF TypeInv, ExpectedInv
  <2>1. CASE /\ UNCHANGED <<token_buffer, literal>>
             /\ pc' \in {"space", "comment", "returned"}
    BY <2>0, <2>1 DEF literal
  <2>2. CASE \E l \in Literals :
                /\ expected' = [n \in 1 .. Len(l[1]) - 1 |-> {l[1][n + 1]}]
                /\ Goto("literal") /\ UNCHANGED token_buffer
    <3>1. PICK l \in Literals : /\ expected' = [n \in 1 .. Len(l[1]) - 1 |-> {l[1][n + 1]}]
                                /\ Goto("literal") /\ UNCHANGED token_buffer
      BY <2>2
    <3>2. expected' \in Seq(SUBSET Byte) /\ Len(l[1]) \in {4, 5}
      BY <3>1, LiteralTexts
    <3>3. expected' # <<>>
      <4>1. 1 \in 1 .. Len(l[1]) - 1
        <5>1. CASE Len(l[1]) = 4
          BY <5>1
        <5>2. CASE Len(l[1]) = 5
          BY <5>2
        <5>. QED
          BY <5>1, <5>2, LiteralTexts
      <4>2. DOMAIN expected' = 1 .. Len(l[1]) - 1
        BY <3>1
      <4>. QED
        BY <4>1, <4>2
    <3>. QED
      BY <2>0, <3>1, <3>2, <3>3
  <2>3. CASE Goto("string") /\ token_buffer' = <<>> /\ UNCHANGED literal
    BY <2>0, <2>3 DEF literal
  <2>4. CASE /\ c \in Digit \cup {Minus}
             /\ Goto(IF c = Minus THEN "minus" ELSE IF c = Zero THEN "zero" ELSE "any1")
             /\ token_buffer' = <<c>> /\ UNCHANGED expected
    <3>1. c \in Byte
      BY <2>4 DEF Digit, Minus, Byte
    <3>. QED
      BY <2>0, <2>4, <3>1
  <2>. QED
    BY <1>1, <2>1, <2>2, <2>3, <2>4
<1>5. PlaceInv' /\ ExpectedInv'
  BY <1>2, <1>3, <1>4 DEF TypeInv, PlaceInv, ExpectedInv
<1>6. HexInv' /\ CodeInv'
  BY <1>2, <1>4 DEF TypeInv, HexInv, CodeInv
<1>. QED
  BY <1>2, <1>3, <1>4, <1>5, <1>6 DEF TypeInv

LEMMA TypeLiteral ==
  ASSUME TypeInv, Literal
  PROVE  TypeInv'
<1>. USE DEF Goto, Return, Fail
<1>1. PICK c \in Bytes :
        /\ Get(c)
        /\ IF c \notin Head(expected) THEN Fail
           ELSE IF Len(expected) > 1 THEN Goto("literal") ELSE Return(type)
  BY DEF Literal
<1>2. /\ UNCHANGED <<ignore_comments, token_buffer, hex, codepoints, over, from, start>>
      /\ expected' = Tail(expected) /\ pc = "literal"
  BY DEF Literal, escape, history
<1>3. ReaderInv' /\ start' <= Len(Consumed')
  BY <1>1, <1>2, TextGet DEF TypeInv, PlaceInv
<1>4. /\ expected' \in Seq(SUBSET Byte) /\ Len(expected') = Len(expected) - 1
      /\ Len(expected) \in Nat
  <2>1. expected \in Seq(SUBSET Byte) /\ expected # <<>>
    BY <1>2 DEF TypeInv, ExpectedInv
  <2>. QED
    BY <1>2, <2>1, HeadTailProperties, LenProperties
<1>5. pc' \in {"returned", "literal"} /\ (pc' = "literal" => expected' # <<>>)
  BY <1>1, <1>4
<1>6. PlaceInv' /\ ExpectedInv'
  BY <1>2, <1>3, <1>4, <1>5 DEF TypeInv, PlaceInv, ExpectedInv
<1>7. HexInv' /\ CodeInv'
  BY <1>2, <1>5 DEF TypeInv, HexInv, CodeInv
<1>. QED
  BY <1>2, <1>3, <1>5, <1>6, <1>7 DEF TypeInv, Pcs

LEMMA TypeScan ==
  ASSUME TypeInv, Scan
  PROVE  TypeInv'
<1>1. /\ UNCHANGED <<ignore_comments, reader, token_buffer, literal, escape>>
      /\ pc' \in {"bom", "space"} /\ over' \in BOOLEAN
      /\ from' = Len(Consumed) /\ start' = Len(Consumed)
  BY DEF Scan
<1>2. Consumed' = Consumed /\ Len(Consumed) \in Nat
  BY <1>1, ConsumedType DEF Consumed, reader, TypeInv
<1>3. ReaderInv'
  BY <1>1, <1>2 DEF TypeInv, ReaderInv, reader
<1>4. PlaceInv' /\ ExpectedInv'
  BY <1>1, <1>2 DEF TypeInv, PlaceInv, ExpectedInv, literal
<1>5. HexInv' /\ CodeInv'
  BY <1>1 DEF TypeInv, HexInv, CodeInv, escape
<1>. QED
  BY <1>1, <1>3, <1>4, <1>5 DEF TypeInv, Pcs

-------------------------------------------------------------------------------
(* Strings: types                                                          *)

LEMMA ShortSeq ==
  ASSUME NEW S, NEW a \in S, NEW b \in S, NEW c \in S, NEW d \in S
  PROVE  /\ <<a>> \in Seq(S) /\ <<a, b>> \in Seq(S)
         /\ <<a, b, c>> \in Seq(S) /\ <<a, b, c, d>> \in Seq(S)
OBVIOUS

LEMMA ContinuationType ==
  ASSUME NEW c \in \hC2 .. \hF4
  PROVE  /\ Continuation(c) \in Seq(SUBSET Byte) /\ Continuation(c) # <<>>
<1>. DEFINE S == SUBSET Byte
            IsFine(s) == s \in Seq(S) /\ s # <<>>
<1>1. /\ Tails \in S /\ \hA0 .. \hBF \in S /\ \h80 .. \h9F \in S
      /\ \h90 .. \hBF \in S /\ \h80 .. \h8F \in S
  BY DEF Tails, Byte
<1>2. \/ c \in \hC2 .. \hDF \/ c = \hE0 \/ c \in (\hE1 .. \hEC) \cup (\hEE .. \hEF) \/ c = \hED
      \/ c = \hF0 \/ c \in \hF1 .. \hF3 \/ c = \hF4
  OBVIOUS
<1>. HIDE DEF S
<1>3. \A A \in S : IsFine(<<A>>) /\ IsFine(<<A, Tails>>) /\ IsFine(<<A, Tails, Tails>>)
  BY <1>1, ShortSeq
<1>. HIDE DEF IsFine
<1>4. ASSUME NEW A \in S, Continuation(c) \in {<<A>>, <<A, Tails>>, <<A, Tails, Tails>>}
      PROVE  IsFine(Continuation(c))
  BY <1>3, <1>4
<1>5. \E A \in S : Continuation(c) \in {<<A>>, <<A, Tails>>, <<A, Tails, Tails>>}
  <2>1. CASE c \in \hC2 .. \hDF
    BY <1>1, <2>1 DEF Continuation
  <2>2. CASE c = \hE0
    BY <1>1, <2>2 DEF Continuation
  <2>3. CASE c \in (\hE1 .. \hEC) \cup (\hEE .. \hEF)
    BY <1>1, <2>3 DEF Continuation
  <2>4. CASE c = \hED
    BY <1>1, <2>4 DEF Continuation
  <2>5. CASE c = \hF0
    BY <1>1, <2>5 DEF Continuation
  <2>6. CASE c \in \hF1 .. \hF3
    BY <1>1, <2>6 DEF Continuation
  <2>7. CASE c = \hF4
    BY <1>1, <2>7 DEF Continuation
  <2>. QED
    BY <1>2, <2>1, <2>2, <2>3, <2>4, <2>5, <2>6, <2>7
<1>6. IsFine(Continuation(c))
  BY <1>4, <1>5
<1>. QED
  BY <1>6 DEF IsFine, S

LEMMA EncodedType ==
  ASSUME NEW p \in Nat, p <= \h10FFFF
  PROVE  Encoded(p) \in Seq(Byte)
<1>1. \A q \in Nat : Continued(q) \in Byte
  BY DEF Continued, Byte
<1>2. p \in Nat /\ p \div 64 \in Nat /\ p \div 4096 \in Nat
  OBVIOUS
<1>4. CASE p < \h80
  <2>1. Encoded(p) = <<p>> /\ p \in Byte
    BY <1>4 DEF Encoded, Byte
  <2>. QED
    BY <2>1, ShortSeq
<1>5. CASE \h80 <= p /\ p < \h800
  <2>1. Encoded(p) = <<\hC0 + p \div 64, Continued(p)>> /\ \hC0 + p \div 64 \in Byte
    BY <1>5 DEF Encoded, Byte
  <2>. QED
    BY <1>1, <1>2, <2>1, ShortSeq
<1>6. CASE \h800 <= p /\ p < \h10000
  <2>1. Encoded(p) = <<\hE0 + p \div 4096, Continued(p \div 64), Continued(p)>>
        /\ \hE0 + p \div 4096 \in Byte
    BY <1>6 DEF Encoded, Byte
  <2>. QED
    BY <1>1, <1>2, <2>1, ShortSeq
<1>7. CASE \h10000 <= p
  <2>1. Encoded(p) = <<\hF0 + p \div 262144, Continued(p \div 4096), Continued(p \div 64), Continued(p)>>
        /\ \hF0 + p \div 262144 \in Byte
    BY <1>7 DEF Encoded, Byte
  <2>. QED
    BY <1>1, <1>2, <2>1, ShortSeq
<1>. QED
  BY <1>2, <1>4, <1>5, <1>6, <1>7

LEMMA HexDigitType ==
  ASSUME NEW c \in -1 .. 255
  PROVE  HexDigit(c) \in -1 .. 15
BY DEF HexDigit, Digit, Zero, Upper, Lower

LEMMA HighType ==
  ASSUME NEW p \in High
  PROVE  p \in Nat /\ \hD800 <= p /\ p <= \hDBFF
BY DEF High

LEMMA LowType ==
  ASSUME NEW p \in Low
  PROVE  p \in Nat /\ \hDC00 <= p /\ p <= \hDFFF
BY DEF Low

(* The value of four hexadecimal digits.                                   *)
Four(d) == 4096 * d[1] + 256 * d[2] + 16 * d[3] + d[4]

LEMMA FourType ==
  ASSUME NEW d \in Seq(0 .. 15), Len(d) = 4
  PROVE  Four(d) \in Nat /\ Four(d) <= \hFFFF /\ Four(d) \in CodeUnit
<1>1. d[1] \in 0 .. 15 /\ d[2] \in 0 .. 15 /\ d[3] \in 0 .. 15 /\ d[4] \in 0 .. 15
  <2>1. 1 \in 1 .. Len(d) /\ 2 \in 1 .. Len(d) /\ 3 \in 1 .. Len(d) /\ 4 \in 1 .. Len(d)
    OBVIOUS
  <2>. QED
    BY <2>1, ElementOfSeq
<1>2. \A x \in 0 .. 15 : x \in Nat /\ x <= 15
  OBVIOUS
<1>3. /\ d[1] \in Nat /\ d[1] <= 15 /\ d[2] \in Nat /\ d[2] <= 15
      /\ d[3] \in Nat /\ d[3] <= 15 /\ d[4] \in Nat /\ d[4] <= 15
  BY <1>1, <1>2, Zenon
<1>4. \A a, b, e, f \in Nat : a <= 15 /\ b <= 15 /\ e <= 15 /\ f <= 15 =>
        4096 * a + 256 * b + 16 * e + f \in Nat /\ 4096 * a + 256 * b + 16 * e + f <= \hFFFF
  OBVIOUS
<1>5. Four(d) \in Nat /\ Four(d) <= \hFFFF
  <2>. DEFINE a == d[1]
              b == d[2]
              e == d[3]
              f == d[4]
  <2>1. /\ a \in Nat /\ b \in Nat /\ e \in Nat /\ f \in Nat
        /\ a <= 15 /\ b <= 15 /\ e <= 15 /\ f <= 15
    BY <1>3
  <2>2. Four(d) = 4096 * a + 256 * b + 16 * e + f
    BY DEF Four
  <2>. HIDE DEF a, b, e, f
  <2>. QED
    BY <2>1, <2>2
<1>. QED
  <2>. DEFINE v == Four(d)
  <2>. HIDE DEF v
  <2>1. v \in Nat /\ v <= \hFFFF
    BY <1>5 DEF v
  <2>2. v \in CodeUnit
    BY <2>1 DEF CodeUnit
  <2>. QED
    BY <2>1, <2>2 DEF v

LEMMA TypeString ==
  ASSUME TypeInv, ScanString
  PROVE  TypeInv'
<1>. USE DEF Goto, Return, Fail, Add
<1>1. /\ ReaderInv /\ start \in Nat /\ start <= Len(Consumed) /\ token_buffer \in Seq(Byte)
      /\ expected \in Seq(SUBSET Byte)
  BY DEF TypeInv, PlaceInv, ExpectedInv
<1>2. PICK c \in Bytes :
        /\ Get(c)
        /\ \/ c = Quote /\ Return("value_string") /\ UNCHANGED <<token_buffer, expected, codepoints>>
           \/ /\ c = Backslash /\ Goto("escape")
              /\ codepoints' = <<>> /\ UNCHANGED <<token_buffer, expected>>
           \/ c \in Plain /\ Goto("string") /\ Add(<<c>>) /\ UNCHANGED <<expected, codepoints>>
           \/ /\ c \in \hC2 .. \hF4 /\ Goto("tail") /\ Add(<<c>>)
              /\ expected' = Continuation(c) /\ UNCHANGED codepoints
           \/ Fail /\ UNCHANGED <<token_buffer, expected, codepoints>>
  BY DEF ScanString
<1>3. UNCHANGED <<ignore_comments, hex, over, from, start>>
  BY DEF ScanString, history
<1>4. ReaderInv' /\ start' <= Len(Consumed') /\ (c # EOF => c \in Byte) /\ c \in -1 .. 255
  BY <1>1, <1>2, <1>3, TextGet
<1>5. (c \in Plain \/ c \in \hC2 .. \hF4) => c \in Byte
  BY DEF Plain, Byte
<1>6. /\ pc' \in {"returned", "escape", "string", "tail"}
      /\ token_buffer' \in Seq(Byte)
      /\ expected' \in Seq(SUBSET Byte) /\ (pc' = "tail" => expected' # <<>>)
      /\ codepoints' \in {codepoints, <<>>} /\ (pc' = "escape" => codepoints' = <<>>)
  <2>1. CASE c = Backslash /\ Goto("escape") /\ codepoints' = <<>> /\ UNCHANGED <<token_buffer, expected>>
    BY <1>1, <2>1
  <2>2. CASE c \in Plain /\ Goto("string") /\ Add(<<c>>) /\ UNCHANGED <<expected, codepoints>>
    BY <1>1, <1>5, <2>2, ConcatProperties, ShortSeq
  <2>3. CASE /\ c \in \hC2 .. \hF4 /\ Goto("tail") /\ Add(<<c>>)
             /\ expected' = Continuation(c) /\ UNCHANGED codepoints
    <3>1. expected' \in Seq(SUBSET Byte) /\ expected' # <<>>
      BY <2>3, ContinuationType
    <3>2. c \in Byte
      BY <1>5, <2>3
    <3>. QED
      BY <1>1, <2>3, <3>1, <3>2, ConcatProperties, ShortSeq
  <2>4. CASE pc' = "returned" /\ UNCHANGED <<token_buffer, expected, codepoints>>
    BY <1>1, <2>4
  <2>. QED
    BY <1>2, <2>1, <2>2, <2>3, <2>4
<1>7. PlaceInv' /\ ExpectedInv'
  BY <1>3, <1>4, <1>6 DEF TypeInv, PlaceInv, ExpectedInv
<1>8. HexInv'
  BY <1>3, <1>6 DEF TypeInv, HexInv
<1>9. CodeInv'
  <2>1. codepoints \in Seq(CodeUnit) /\ Len(codepoints) <= 2
    BY DEF TypeInv, CodeInv
  <2>2. codepoints' \in Seq(CodeUnit) /\ Len(codepoints') <= 2
    <3>1. CASE codepoints' = codepoints
      BY <2>1, <3>1
    <3>2. CASE codepoints' = <<>>
      BY <3>2
    <3>. QED
      BY <1>6, <3>1, <3>2
  <2>. QED
    BY <1>6, <2>2 DEF CodeInv
<1>. QED
  BY <1>3, <1>4, <1>6, <1>7, <1>8, <1>9 DEF TypeInv, Pcs, StringPcs

LEMMA TypeTail ==
  ASSUME TypeInv, ScanTail
  PROVE  TypeInv'
<1>. USE DEF Goto, Return, Fail, Add
<1>1. /\ ReaderInv /\ start \in Nat /\ start <= Len(Consumed) /\ token_buffer \in Seq(Byte)
      /\ expected \in Seq(SUBSET Byte)
  BY DEF TypeInv, PlaceInv, ExpectedInv
<1>2. PICK c \in Bytes :
        /\ Get(c)
        /\ IF c \in Head(expected)
           THEN Goto(IF Len(expected) > 1 THEN "tail" ELSE "string") /\ Add(<<c>>)
           ELSE Fail /\ UNCHANGED token_buffer
  BY DEF ScanTail
<1>3. /\ UNCHANGED <<ignore_comments, hex, codepoints, over, from, start>>
      /\ expected' = Tail(expected) /\ expected # <<>>
  BY DEF ScanTail, history, escape, TypeInv, ExpectedInv
<1>4. ReaderInv' /\ start' <= Len(Consumed')
  BY <1>1, <1>2, <1>3, TextGet
<1>5. /\ Head(expected) \in SUBSET Byte /\ expected' \in Seq(SUBSET Byte)
      /\ Len(expected') = Len(expected) - 1 /\ Len(expected) \in Nat
  BY <1>1, <1>3, HeadTailProperties, LenProperties
<1>6. /\ pc' \in {"returned", "string", "tail"} /\ token_buffer' \in Seq(Byte)
      /\ pc' = "tail" => expected' # <<>>
  <2>1. CASE c \in Head(expected)
    <3>1. c \in Byte
      BY <1>5, <2>1
    <3>2. token_buffer' = token_buffer \o <<c>>
      BY <1>2, <2>1
    <3>3. token_buffer' \in Seq(Byte)
      BY <1>1, <3>1, <3>2, AppendIsConcat, AppendProperties
    <3>. QED
      BY <1>2, <1>5, <2>1, <3>3
  <2>2. CASE c \notin Head(expected)
    BY <1>1, <1>2, <2>2
  <2>. QED
    BY <2>1, <2>2
<1>7. PlaceInv' /\ ExpectedInv'
  BY <1>3, <1>4, <1>5, <1>6 DEF TypeInv, PlaceInv, ExpectedInv
<1>8. HexInv' /\ CodeInv'
  BY <1>3, <1>6 DEF TypeInv, HexInv, CodeInv
<1>. QED
  BY <1>3, <1>4, <1>6, <1>7, <1>8 DEF TypeInv, Pcs, StringPcs

LEMMA TypeEscape ==
  ASSUME TypeInv, ScanEscape
  PROVE  TypeInv'
<1>. USE DEF Goto, Return, Fail, Add
<1>1. ReaderInv /\ start \in Nat /\ start <= Len(Consumed) /\ token_buffer \in Seq(Byte)
  BY DEF TypeInv, PlaceInv
<1>2. PICK c \in Bytes :
        /\ Get(c)
        /\ CASE c \in DOMAIN Unescaped -> Goto("string") /\ Add(<<Unescaped[c]>>)
             [] c = Lower(21) -> Goto("hex") /\ UNCHANGED token_buffer
             [] OTHER -> Fail /\ UNCHANGED token_buffer
  BY DEF ScanEscape
<1>3. /\ UNCHANGED <<ignore_comments, expected, codepoints, over, from, start>>
      /\ hex' = <<>> /\ codepoints = <<>>
  BY DEF ScanEscape, history, literal, TypeInv, CodeInv
<1>4. ReaderInv' /\ start' <= Len(Consumed')
  BY <1>1, <1>2, <1>3, TextGet
<1>5. ASSUME c \in DOMAIN Unescaped
      PROVE  Unescaped[c] \in Byte /\ c # Lower(21)
  BY <1>5 DEF Unescaped, Quote, Backslash, Slash, Lower, LF, CR, HT, Byte
<1>6. pc' \in {"returned", "string", "hex"} /\ token_buffer' \in Seq(Byte)
  <2>1. CASE c \in DOMAIN Unescaped
    BY <1>1, <1>2, <1>5, <2>1
  <2>2. CASE c \notin DOMAIN Unescaped
    BY <1>1, <1>2, <2>2
  <2>. QED
    BY <2>1, <2>2
<1>7. PlaceInv' /\ ExpectedInv'
  BY <1>3, <1>4, <1>6 DEF TypeInv, PlaceInv, ExpectedInv
<1>8. HexInv' /\ CodeInv'
  BY <1>3, <1>6 DEF TypeInv, HexInv, CodeInv
<1>. QED
  BY <1>3, <1>4, <1>6, <1>7, <1>8 DEF TypeInv, Pcs, StringPcs

LEMMA TypePair ==
  ASSUME TypeInv, ScanPair
  PROVE  TypeInv'
<1>. USE DEF Goto, Return, Fail
<1>1. ReaderInv /\ start \in Nat /\ start <= Len(Consumed)
  BY DEF TypeInv, PlaceInv
<1>2. PICK c \in Bytes : Get(c) /\ pc' \in {"pair_u", "hex", "returned"}
  BY DEF ScanPair
<1>3. /\ UNCHANGED <<ignore_comments, expected, codepoints, token_buffer, over, from, start>>
      /\ hex' = <<>> /\ codepoints \in Surrogates
  BY DEF ScanPair, history, literal, TypeInv, CodeInv
<1>4. ReaderInv' /\ start' <= Len(Consumed')
  BY <1>1, <1>2, <1>3, TextGet
<1>5. PlaceInv' /\ ExpectedInv'
  BY <1>2, <1>3, <1>4 DEF TypeInv, PlaceInv, ExpectedInv
<1>6. HexInv' /\ CodeInv'
  BY <1>2, <1>3 DEF TypeInv, HexInv, CodeInv
<1>. QED
  BY <1>2, <1>3, <1>4, <1>5, <1>6 DEF TypeInv, Pcs, StringPcs

(* One more digit of a \u escape.                                          *)
LEMMA DigitAdded ==
  ASSUME NEW c \in -1 .. 255, hex \in Seq(0 .. 15), Len(hex) < 4, hex' = Append(hex, HexDigit(c))
  PROVE  /\ hex' \in Seq(-1 .. 15) /\ Len(hex') = Len(hex) + 1 /\ Len(hex) \in Nat
         /\ HexDigit(c) # -1 => hex' \in Seq(0 .. 15) /\ HexDigit(c) \in 0 .. 15
<1>1. HexDigit(c) \in -1 .. 15
  BY HexDigitType
<1>2. hex \in Seq(-1 .. 15)
  BY SeqMonotonic
<1>3. HexDigit(c) # -1 => HexDigit(c) \in 0 .. 15
  BY <1>1
<1>. QED
  BY <1>1, <1>2, <1>3, AppendProperties, LenProperties

LEMMA TypeHex ==
  ASSUME TypeInv, ScanHex
  PROVE  TypeInv'
<1>. USE DEF Goto, Return, Fail, Add
<1>1. /\ ReaderInv /\ start \in Nat /\ start <= Len(Consumed) /\ token_buffer \in Seq(Byte)
      /\ hex \in Seq(0 .. 15) /\ Len(hex) < 4 /\ codepoints \in Seq(CodeUnit)
      /\ codepoints = <<>> \/ codepoints \in Surrogates
  BY DEF TypeInv, PlaceInv, HexInv, CodeInv, ScanHex
<1>2. PICK c \in Bytes :
        /\ Get(c)
        /\ hex' = Append(hex, HexDigit(c))
        /\ IF HexDigit(c) = -1 THEN Fail /\ UNCHANGED <<token_buffer, codepoints>>
           ELSE IF Len(hex') < 4 THEN Goto("hex") /\ UNCHANGED <<token_buffer, codepoints>>
           ELSE codepoints' = Append(codepoints, Four(hex')) /\ EndEscape(Four(hex'))
  BY DEF ScanHex, Four
<1>3. UNCHANGED <<ignore_comments, expected, over, from, start>>
  BY DEF ScanHex, history, literal
<1>4. ReaderInv' /\ start' <= Len(Consumed') /\ c \in -1 .. 255
  BY <1>1, <1>2, <1>3, TextGet
<1>5. /\ hex' \in Seq(-1 .. 15) /\ Len(hex') = Len(hex) + 1 /\ Len(hex) \in Nat
      /\ HexDigit(c) # -1 => hex' \in Seq(0 .. 15)
  BY <1>1, <1>2, <1>4, DigitAdded
<1>6. CASE HexDigit(c) = -1 \/ Len(hex') < 4
  <2>1. /\ UNCHANGED <<token_buffer, codepoints>> /\ pc' \in {"returned", "hex"}
        /\ pc' = "hex" => HexDigit(c) # -1
    BY <1>2, <1>6
  <2>2. PlaceInv' /\ ExpectedInv'
    BY <1>3, <1>4, <2>1 DEF TypeInv, PlaceInv, ExpectedInv
  <2>3. HexInv' /\ CodeInv'
    BY <1>1, <1>5, <1>6, <2>1 DEF TypeInv, HexInv, CodeInv
  <2>. QED
    BY <1>3, <1>4, <2>1, <2>2, <2>3 DEF TypeInv, Pcs, StringPcs
<1>7. CASE HexDigit(c) # -1 /\ ~(Len(hex') < 4)
  <2>. DEFINE p == Four(hex')
  <2>1. p \in Nat /\ p <= \hFFFF /\ p \in CodeUnit
    <3>1. hex' \in Seq(0 .. 15) /\ Len(hex') = 4
      BY <1>1, <1>5, <1>7
    <3>. QED
      BY <3>1, FourType
  <2>2. codepoints' = Append(codepoints, p) /\ EndEscape(p)
    BY <1>2, <1>7
  <2>. HIDE DEF p
  <2>3. /\ codepoints' \in Seq(CodeUnit) /\ Len(codepoints') = Len(codepoints) + 1
        /\ codepoints'[Len(codepoints) + 1] = p
    BY <1>1, <2>1, <2>2, AppendProperties
  <2>4. CASE codepoints = <<>>
    <3>1. codepoints' = <<p>>
      BY <2>2, <2>4
    <3>2. \/ p \in High /\ pc' = "pair" /\ UNCHANGED token_buffer
          \/ pc' = "returned" /\ UNCHANGED token_buffer
          \/ pc' = "string" /\ token_buffer' = token_buffer \o Encoded(p)
      BY <2>2, <3>1 DEF EndEscape
    <3>3. Encoded(p) \in Seq(Byte)
      BY <2>1, EncodedType
    <3>4. token_buffer' \in Seq(Byte)
      BY <1>1, <3>2, <3>3, ConcatProperties
    <3>5. pc' = "pair" => codepoints' \in Surrogates
      BY <3>1, <3>2 DEF Surrogates, High
    <3>6. Len(codepoints') <= 2
      BY <3>1
    <3>7. PlaceInv' /\ ExpectedInv'
      BY <1>3, <1>4, <3>2 DEF TypeInv, PlaceInv, ExpectedInv
    <3>8. HexInv' /\ CodeInv'
      BY <1>1, <1>5, <2>3, <3>2, <3>5, <3>6 DEF TypeInv, HexInv, CodeInv
    <3>. QED
      BY <1>3, <1>4, <3>2, <3>4, <3>7, <3>8 DEF TypeInv, Pcs, StringPcs
  <2>5. CASE codepoints \in Surrogates
    <3>1. PICK h \in High : codepoints = <<h>>
      BY <2>5 DEF Surrogates
    <3>2. codepoints' # <<p>> /\ codepoints[1] = h /\ Len(codepoints') = 2
      BY <2>3, <3>1
    <3>3. \/ pc' = "returned" /\ UNCHANGED token_buffer
          \/ /\ p \in Low
             /\ pc' = "string" /\ token_buffer' = token_buffer \o Encoded(h * 1024 + p - \h35FDC00)
      BY <2>2, <3>2 DEF EndEscape
    <3>4. p \in Low => h * 1024 + p - \h35FDC00 \in Nat /\ h * 1024 + p - \h35FDC00 <= \h10FFFF
      BY HighType, LowType
    <3>5. token_buffer' \in Seq(Byte)
      <4>1. CASE UNCHANGED token_buffer
        BY <1>1, <4>1
      <4>2. CASE p \in Low /\ token_buffer' = token_buffer \o Encoded(h * 1024 + p - \h35FDC00)
        <5>1. Encoded(h * 1024 + p - \h35FDC00) \in Seq(Byte)
          BY <3>4, <4>2, EncodedType
        <5>. QED
          BY <1>1, <4>2, <5>1, ConcatProperties
      <4>. QED
        BY <3>3, <4>1, <4>2
    <3>6. PlaceInv' /\ ExpectedInv'
      BY <1>3, <1>4, <3>3 DEF TypeInv, PlaceInv, ExpectedInv
    <3>7. HexInv' /\ CodeInv'
      <4>1. pc' \in {"returned", "string"}
        BY <3>3
      <4>2. HexInv'
        BY <1>1, <1>5, <4>1 DEF HexInv
      <4>. QED
        <5>1. codepoints' \in Seq(CodeUnit)
          BY <2>3, Zenon
        <5>2. Len(codepoints') <= 2
          BY <3>2
        <5>. QED
          BY <4>1, <4>2, <5>1, <5>2 DEF CodeInv
    <3>. QED
      BY <1>3, <1>4, <3>3, <3>5, <3>6, <3>7 DEF TypeInv, Pcs, StringPcs
  <2>. QED
    BY <1>1, <2>4, <2>5
<1>. QED
  BY <1>6, <1>7

LEMMA TypeInit ==
  ASSUME Init
  PROVE  TypeInv
<1>1. /\ input = <<>> /\ current = EOF /\ next_unget = FALSE /\ start = 0 /\ from = 0
      /\ script \in Scripts /\ position = [total |-> 0, line |-> 0, lines |-> 0]
  BY DEF Init
<1>2. /\ ignore_comments \in BOOLEAN /\ over = FALSE /\ pc = "returned" /\ token_buffer = <<>>
      /\ expected = <<>> /\ hex = <<>> /\ codepoints = <<>>
  BY DEF Init
<1>3. Consumed = <<>>
  BY <1>1 DEF Consumed
<1>4. ReaderInv
  <2>1. script \in Seq(SUBSET Byte) /\ Len(script) \in Nat
    BY <1>1, ScriptType, LenProperties
  <2>2. Len(<<>>) = 0 /\ <<>> \in Seq(Byte) /\ DOMAIN <<>> = {}
    OBVIOUS
  <2>3. Len(input) <= Len(script)
    BY <1>1, <2>1, <2>2
  <2>4. position \in [total : Nat, line : Nat, lines : Nat] /\ position.lines = 0
    BY <1>1
  <2>5. current \in -1 .. 255 /\ next_unget \in BOOLEAN
    <3>1. current = -1
      BY <1>1 DEF EOF
    <3>2. current \in -1 .. 255
      BY <3>1
    <3>3. next_unget \in BOOLEAN
      BY <1>1, Zenon
    <3>. QED
      BY <3>2, <3>3
  <2>6. input \in Seq(Byte) /\ \A n \in DOMAIN input : input[n] \in script[n]
    BY <1>1, <2>2
  <2>. QED
    BY <1>1, <2>3, <2>4, <2>5, <2>6 DEF ReaderInv
<1>5. PlaceInv /\ ExpectedInv
  BY <1>1, <1>2, <1>3 DEF PlaceInv, ExpectedInv
<1>6. HexInv /\ CodeInv
  BY <1>2 DEF HexInv, CodeInv
<1>7. pc \in Pcs
  BY <1>2 DEF Pcs
<1>8. ignore_comments \in BOOLEAN /\ over \in BOOLEAN /\ token_buffer \in Seq(Byte)
  <2>1. token_buffer \in Seq(Byte)
    BY <1>2
  <2>2. ignore_comments \in BOOLEAN /\ over \in BOOLEAN
    BY <1>2, Zenon
  <2>. QED
    BY <2>1, <2>2
<1>. QED
  BY <1>4, <1>5, <1>6, <1>7, <1>8 DEF TypeInv

LEMMA TypeStep ==
  ASSUME TypeInv, [Next]_vars
  PROVE  TypeInv'
<1>1. CASE UNCHANGED vars
  <2>1. UNCHANGED <<ignore_comments, over, pc, script, input, current, next_unget, position, from, start,
                    token_buffer, expected, hex, codepoints>>
    BY <1>1 DEF vars, reader, literal, escape, history
  <2>2. Consumed' = Consumed
    BY <2>1 DEF Consumed
  <2>3. ReaderInv'
    BY <2>1, <2>2 DEF TypeInv, ReaderInv
  <2>4. PlaceInv' /\ ExpectedInv'
    BY <2>1, <2>2 DEF TypeInv, PlaceInv, ExpectedInv
  <2>5. HexInv' /\ CodeInv'
    BY <2>1 DEF TypeInv, HexInv, CodeInv
  <2>. QED
    BY <2>1, <2>3, <2>4, <2>5 DEF TypeInv
<1>2. CASE Next
  BY <1>2, TypeScan, TypeMark, TypeSpace, TypeLiteral, TypeNumber, TypeString, TypeTail, TypeEscape,
     TypeHex, TypePair DEF Next, Reading, scan_string
<1>. QED
  BY <1>1, <1>2

(* The types; a position counts the bytes and the lines that were taken,   *)
(* also after a line's end was given back (json.hpp:7328-7429).            *)
THEOREM TypeCorrect == Spec => []TypeOK
<1>1. TypeInv => TypeOK
  <2>. SUFFICES ASSUME TypeInv PROVE TypeOK
    OBVIOUS
  <2>1. current # EOF => /\ position.total = Len(Consumed)
                         /\ position.lines = Cardinality({n \in DOMAIN Consumed : Consumed[n] = LF})
    BY DEF TypeInv, ReaderInv, Lines
  <2>2. token_buffer \in Seq(0 .. 255)
    BY DEF TypeInv, Byte
  <2>3. /\ ignore_comments \in BOOLEAN /\ over \in BOOLEAN
        /\ Len(hex) <= 4 /\ Len(codepoints) <= 2
        /\ 0 <= from /\ from <= start /\ start <= Len(Consumed)
    BY DEF TypeInv, HexInv, CodeInv, PlaceInv
  <2>4. /\ script \in Scripts /\ Len(input) <= Len(script)
        /\ \A n \in DOMAIN input : input[n] \in script[n]
        /\ current \in -1 .. 255 /\ next_unget \in BOOLEAN
    BY DEF TypeInv, ReaderInv
  <2>. QED
    BY <2>1, <2>2, <2>3, <2>4 DEF TypeOK
<1>. QED
  BY <1>1, TypeInit, TypeStep, PTL DEF Spec

-------------------------------------------------------------------------------
(* What the bytes of the token are, at each place of the scan              *)

MarkInv ==
  /\ pc = "bom" => Text = <<>>
  /\ pc = "bom2" => Text = <<\hEF>>
  /\ pc = "bom3" => Text = <<\hEF, \hBB>>
CommentInv ==
  /\ pc = "comment" => Text = <<Slash>>
  /\ pc \in {"comment_text", "comment_star"} =>
       Len(Text) >= 2 /\ Text[1] = Slash /\ \A n \in 3 .. Len(Text) : ~EndsComment(Text, n)
  /\ pc = "comment_text" /\ Len(Text) >= 3 /\ Text[Len(Text)] = Star => next_unget /\ current # Slash
Matched(l, s) == Len(s) <= Len(l[1]) /\ \A k \in 1 .. Len(s) : s[k] = l[1][k]
LiteralInv ==
  pc = "literal" =>
    /\ Text # <<>>
    /\ \E l \in Literals : /\ Matched(l, Text) /\ type = l[2] /\ Len(Text) < Len(l[1])
                           /\ expected = [n \in 1 .. Len(l[1]) - Len(Text) |-> {l[1][Len(Text) + n]}]
NumberInv ==
  pc \in Labels =>
    /\ Text # <<>> /\ token_buffer = Text /\ Shape(pc, Text, Len(Text))
    /\ type = IF pc \notin {"minus", "zero", "any1"} THEN "value_float"
              ELSE IF Text[1] = Minus THEN "value_integer" ELSE "value_unsigned"
StringInv == pc \in StringPcs => Text # <<>> /\ Text[1] = Quote
ErrorInv == Found /\ token = "parse_error" /\ current # EOF => Text # <<>> /\ (Text[1] = Quote \/ ~Begins(Text))
FoundInv == NumberIsText /\ WordIsText /\ ErrorInv
TextInv == MarkInv /\ CommentInv /\ LiteralInv /\ NumberInv /\ StringInv /\ FoundInv

LEMMA TextBytes ==
  ASSUME TypeInv
  PROVE  Text \in Seq(Byte) /\ Len(Text) \in Nat
BY TextPart, LenProperties DEF TypeInv, PlaceInv, TextIsPart

(* An error at a byte that no token starts with, or after one; and in      *)
(* what starts like a number or a word.                                    *)
LEMMA BeginsByKind ==
  ASSUME NEW s
  PROVE  /\ s[1] \in Digit \cup {Minus} /\ Begins(s) => BeginsNumber(s)
         /\ s[1] \in Digit \cup {Minus} /\ BeginsNumber(s) => Begins(s)
         /\ \A l \in Literals : s[1] = l[1][1] => (Begins(s) <=> BeginsLiteral(s))
         /\ (s[1] \notin Digit \cup {Minus, Quote} /\ \A l \in Literals : s[1] # l[1][1]) => ~Begins(s)
<1>. USE DEF Digit, Minus, Quote
<1>1. CASE s[1] \in Digit \cup {Minus}
  <2>1. \A l \in Literals : s[1] # l[1][1]
    BY <1>1, LiteralFirst
  <2>2. Begins(s) <=> BeginsNumber(s)
    BY <1>1, <2>1 DEF Begins
  <2>. QED
    BY <1>1, <2>1, <2>2
<1>2. CASE s[1] \notin Digit \cup {Minus}
  <2>1. ASSUME NEW l \in Literals, s[1] = l[1][1]
        PROVE  Begins(s) <=> BeginsLiteral(s)
    <3>1. s[1] # Quote
      BY <2>1, LiteralFirst
    <3>. QED
      BY <1>2, <2>1, <3>1 DEF Begins
  <2>2. ASSUME s[1] # Quote, \A l \in Literals : s[1] # l[1][1]
        PROVE  ~Begins(s)
    BY <1>2, <2>2 DEF Begins
  <2>. QED
    BY <1>2, <2>1, <2>2
<1>. QED
  BY <1>1, <1>2

LEMMA PrefixMatched ==
  ASSUME NEW s \in Seq(Byte), NEW l \in Literals
  PROVE  IsPrefix(s, l[1]) <=> Matched(l, s)
<1>1. l[1] \in Seq(Byte) /\ Len(l[1]) \in Nat /\ Len(s) \in Nat
  BY LiteralTexts, LenProperties
<1>2. CASE Len(s) <= Len(l[1])
  <2>. DEFINE a == SubSeq(s, 1, Len(s))
              b == SubSeq(l[1], 1, Len(s))
  <2>1. /\ a \in Seq(Byte) /\ Len(a) = Len(s) /\ \A k \in 1 .. Len(s) : a[k] = s[k]
        /\ b \in Seq(Byte) /\ Len(b) = Len(s) /\ \A k \in 1 .. Len(s) : b[k] = l[1][k]
    BY <1>1, <1>2, Part
  <2>2. a = b <=> \A k \in 1 .. Len(s) : s[k] = l[1][k]
    BY <1>1, <2>1, SeqEqual
  <2>. QED
    BY <1>2, <2>2 DEF IsPrefix, Matched
<1>3. CASE ~(Len(s) <= Len(l[1]))
  BY <1>3 DEF IsPrefix, Matched
<1>. QED
  BY <1>2, <1>3

(* A token that is not there yet.                                          *)
LEMMA NotFound ==
  ASSUME pc' # "returned"
  PROVE  FoundInv'
BY DEF FoundInv, NumberIsText, WordIsText, ErrorInv, Found

LEMMA Appended ==
  ASSUME NEW s \in Seq(Byte), NEW c \in Byte
  PROVE  /\ Append(s, c) \in Seq(Byte) /\ Append(s, c) # <<>>
         /\ Len(s) \in Nat /\ Len(Append(s, c)) = Len(s) + 1
         /\ \A k \in 1 .. Len(s) : Append(s, c)[k] = s[k]
         /\ Append(s, c)[Len(s) + 1] = c
         /\ s # <<>> => Append(s, c)[1] = s[1]
<1>1. /\ Append(s, c) \in Seq(Byte) /\ Len(s) \in Nat /\ Len(Append(s, c)) = Len(s) + 1
      /\ \A k \in 1 .. Len(s) : Append(s, c)[k] = s[k]
      /\ Append(s, c)[Len(s) + 1] = c
  BY AppendProperties, LenProperties
<1>2. Append(s, c) # <<>>
  BY <1>1, EmptySeq
<1>3. s # <<>> => 1 \in 1 .. Len(s)
  BY <1>1, EmptySeq
<1>. QED
  BY <1>1, <1>2, <1>3

LEMMA AppendOne ==
  ASSUME NEW a \in Byte, NEW b \in Byte
  PROVE  Append(<<a>>, b) = <<a, b>>
<1>. DEFINE s == <<a>>
            t == <<a, b>>
<1>1. s \in Seq(Byte) /\ Len(s) = 1 /\ s[1] = a
  OBVIOUS
<1>2. t \in Seq(Byte) /\ Len(t) = 2 /\ t[1] = a /\ t[2] = b
  OBVIOUS
<1>. HIDE DEF s, t
<1>3. /\ Append(s, b) \in Seq(Byte) /\ Len(Append(s, b)) = 2
      /\ Append(s, b)[2] = b /\ Append(s, b)[1] = a
  <2>1. /\ Append(s, b) \in Seq(Byte) /\ Len(Append(s, b)) = Len(s) + 1
        /\ \A k \in 1 .. Len(s) : Append(s, b)[k] = s[k]
        /\ Append(s, b)[Len(s) + 1] = b
    BY <1>1, Appended, Zenon
  <2>2. Len(s) + 1 = 2 /\ 1 \in 1 .. Len(s)
    BY <1>1
  <2>. QED
    BY <1>1, <2>1, <2>2
<1>4. \A i \in 1 .. 2 : Append(s, b)[i] = t[i]
  BY <1>1, <1>2, <1>3
<1>5. Append(s, b) = t
  BY <1>2, <1>3, <1>4, SeqEqual
<1>. QED
  BY <1>5 DEF s, t

LEMMA TailElements ==
  ASSUME NEW S, NEW s \in Seq(S), Len(s) > 1
  PROVE  /\ Tail(s) \in Seq(S) /\ Len(Tail(s)) = Len(s) - 1
         /\ \A i \in 1 .. Len(s) - 1 : Tail(s)[i] = s[i + 1]
<1>1. s # <<>>
  BY EmptySeq
<1>. QED
  BY <1>1, HeadTailProperties

(* What each step does to the text.                                        *)
LEMMA TextScan ==
  ASSUME TypeInv, TextInv, Scan
  PROVE  TextInv'
<1>1. pc' \in {"bom", "space"} /\ start' = Len(Consumed) /\ UNCHANGED reader
  BY DEF Scan
<1>2. TypeInv'
  BY TypeScan
<1>3. Text' = <<>>
  <2>1. Consumed' = Consumed
    BY <1>1 DEF Consumed, reader
  <2>2. (ReaderInv /\ start \in Nat /\ start <= Len(Consumed))' => TextIsPart'
    BY TextPart, PTL
  <2>3. Text' \in Seq(Byte) /\ Len(Text') = Len(Consumed') - start' /\ start' \in Nat
    BY <1>2, <2>2 DEF TypeInv, PlaceInv, TextIsPart
  <2>4. Len(Text') = 0
    BY <1>1, <2>1, <2>3
  <2>. QED
    BY <2>3, <2>4, EmptySeq
<1>4. FoundInv'
  BY <1>1, NotFound
<1>5. MarkInv' /\ CommentInv'
  BY <1>1, <1>3 DEF MarkInv, CommentInv
<1>6. LiteralInv' /\ NumberInv' /\ StringInv'
  BY <1>1 DEF LiteralInv, NumberInv, StringInv, Labels, Complete, StringPcs
<1>. QED
  BY <1>4, <1>5, <1>6 DEF TextInv

LEMMA TextMark ==
  ASSUME TypeInv, TextInv, Bom \/ BomRest
  PROVE  TextInv'
<1>. USE DEF Goto, Return, Fail
<1>1. ReaderInv /\ start \in Nat /\ start <= Len(Consumed) /\ Text \in Seq(Byte)
  BY TextBytes DEF TypeInv, PlaceInv
<1>2. UNCHANGED start
  BY DEF Bom, BomRest, history
<1>3. CASE pc' \in {"space", "bom2", "bom3"}
  <2>1. FoundInv' /\ CommentInv' /\ LiteralInv' /\ NumberInv' /\ StringInv'
    BY <1>3, NotFound DEF CommentInv, LiteralInv, NumberInv, StringInv, Labels, Complete, StringPcs
  <2>2. MarkInv'
    <3>1. CASE pc' = "bom2"
      <4>1. PICK c \in Bytes : c = \hEF /\ Get(c)
        BY <3>1 DEF Bom, BomRest
      <4>2. Text' = Append(Text, \hEF)
        <5>1. Text' = IF c = EOF THEN Text ELSE Append(Text, c)
          BY <1>1, <1>2, <4>1, TextGet
        <5>2. c # EOF
          BY <4>1 DEF EOF
        <5>. QED
          BY <4>1, <5>1, <5>2
      <4>3. pc = "bom"
        BY <3>1 DEF Bom, BomRest
      <4>. QED
        BY <3>1, <4>2, <4>3 DEF TextInv, MarkInv
    <3>2. CASE pc' = "bom3"
      <4>1. PICK c \in Bytes : c = \hBB /\ Get(c)
        BY <3>2 DEF Bom, BomRest
      <4>2. Text' = Append(Text, \hBB)
        <5>1. Text' = IF c = EOF THEN Text ELSE Append(Text, c)
          BY <1>1, <1>2, <4>1, TextGet
        <5>2. c # EOF
          BY <4>1 DEF EOF
        <5>. QED
          BY <4>1, <5>1, <5>2
      <4>3. pc = "bom2"
        BY <3>2 DEF Bom, BomRest
      <4>4. Text = <<\hEF>>
        BY <4>3 DEF TextInv, MarkInv
      <4>5. Text' = <<\hEF, \hBB>>
        <5>1. \hEF \in Byte /\ \hBB \in Byte
          BY DEF Byte
        <5>. QED
          BY <4>2, <4>4, <5>1, AppendOne
      <4>. QED
        BY <3>2, <4>5 DEF MarkInv
    <3>. QED
      BY <1>3, <3>1, <3>2 DEF MarkInv
  <2>. QED
    BY <2>1, <2>2 DEF TextInv
<1>4. CASE pc' = "returned"
  <2>1. token' = "parse_error" /\ pc \in {"bom2", "bom3"}
    BY <1>4 DEF Bom, BomRest
  <2>2. PICK c \in Bytes : Get(c)
    BY <1>4 DEF Bom, BomRest
  <2>3. Text[1] = \hEF /\ Text # <<>>
    BY <2>1 DEF TextInv, MarkInv
  <2>4. current' = c /\ (c # EOF => Text' = Append(Text, c) /\ c \in Byte)
    BY <1>1, <1>2, <2>2, TextGet
  <2>5. c # EOF => Text' # <<>> /\ Text'[1] = \hEF
    BY <1>1, <2>3, <2>4, Appended
  <2>6. c # EOF => ~Begins(Text')
    <3>1. c # EOF => /\ Text'[1] \notin Digit \cup {Minus, Quote}
                     /\ \A l \in Literals : Text'[1] # l[1][1]
      BY <2>5, LiteralFirst DEF Digit, Minus, Quote
    <3>. QED
      BY <3>1, BeginsByKind
  <2>7. ErrorInv'
    BY <2>1, <2>4, <2>5, <2>6 DEF ErrorInv
  <2>8. NumberIsText' /\ WordIsText'
    BY <2>1 DEF NumberIsText, WordIsText
  <2>9. MarkInv' /\ CommentInv' /\ LiteralInv' /\ NumberInv' /\ StringInv'
    BY <1>4 DEF MarkInv, CommentInv, LiteralInv, NumberInv, StringInv, Labels, Complete, StringPcs
  <2>. QED
    BY <2>7, <2>8, <2>9 DEF TextInv, FoundInv
<1>. QED
  BY <1>3, <1>4 DEF Bom, BomRest

LEMMA TextComment ==
  ASSUME TypeInv, TextInv, scan_comment
  PROVE  TextInv'
<1>. USE DEF Goto, Return, Fail
<1>1. /\ ReaderInv /\ start \in Nat /\ start <= Len(Consumed)
      /\ Text \in Seq(Byte) /\ Len(Text) \in Nat
  BY TextBytes DEF TypeInv, PlaceInv
<1>2. UNCHANGED start
  BY DEF scan_comment, Comment, LineComment, CommentText, CommentStar, history
<1>3. \/ pc \in {"comment", "comment_text"} /\ pc' = "returned" /\ token' = "parse_error" 
         /\ \E c \in Bytes : Get(c) /\ (pc = "comment" => c \notin {Slash, Star})
      \/ pc = "comment" /\ pc' = "comment_text" /\ \E c \in Bytes : Get(c) /\ c = Star
      \/ /\ pc = "comment_text" /\ pc' \in {"comment_text", "comment_star"}
         /\ \E c \in Bytes : Get(c) /\ c # EOF /\ (pc' = "comment_text" => c # Star)
      \/ pc = "comment_star" /\ pc' = "comment_text" /\ \E c \in Bytes : GetThenUnget(c) /\ c # Slash
      \/ pc' \in {"space", "line_comment"}
  <2>1. CASE Comment
    BY <2>1 DEF Comment
  <2>2. CASE LineComment
    BY <2>2 DEF LineComment
  <2>3. CASE CommentText
    BY <2>3 DEF CommentText
  <2>4. CASE CommentStar
    BY <2>4 DEF CommentStar
  <2>. QED
    BY <2>1, <2>2, <2>3, <2>4 DEF scan_comment
<1>4. pc' \in {"returned", "space", "line_comment", "comment_text", "comment_star"}
  BY <1>3
<1>5. MarkInv' /\ LiteralInv' /\ NumberInv' /\ StringInv'
  BY <1>4 DEF MarkInv, LiteralInv, NumberInv, StringInv, Labels, Complete, StringPcs
<1>6. pc \in {"comment", "comment_text", "comment_star"} => Text # <<>> /\ Text[1] = Slash
  <2>1. CASE pc = "comment"
    BY <2>1 DEF TextInv, CommentInv
  <2>2. CASE pc \in {"comment_text", "comment_star"}
    BY <1>1, <2>2, EmptySeq DEF TextInv, CommentInv
  <2>. QED
    BY <2>1, <2>2
<1>7. CASE pc' = "returned"
  <2>1. PICK c \in Bytes : Get(c)
    BY <1>3, <1>7
  <2>2. token' = "parse_error" /\ pc \in {"comment", "comment_text"}
    BY <1>3, <1>7
  <2>3. current' = c /\ (c # EOF => Text' = Append(Text, c) /\ c \in Byte)
    BY <1>1, <1>2, <2>1, TextGet
  <2>4. c # EOF => Text' # <<>> /\ Text'[1] = Slash
    BY <1>1, <1>6, <2>2, <2>3, Appended
  <2>5. c # EOF => ~Begins(Text')
    <3>1. c # EOF => /\ Text'[1] \notin Digit \cup {Minus, Quote}
                     /\ \A l \in Literals : Text'[1] # l[1][1]
      BY <2>4, LiteralFirst DEF Digit, Minus, Quote, Slash
    <3>. QED
      BY <3>1, BeginsByKind
  <2>6. ErrorInv'
    BY <2>2, <2>3, <2>4, <2>5 DEF ErrorInv
  <2>7. NumberIsText' /\ WordIsText' /\ CommentInv'
    BY <1>7, <2>2 DEF NumberIsText, WordIsText, CommentInv
  <2>. QED
    BY <1>5, <2>6, <2>7 DEF TextInv, FoundInv
<1>8. CASE pc' \in {"comment_text", "comment_star"}
  <2>1. CommentInv'
    <3>1. CASE pc = "comment" /\ pc' = "comment_text" /\ \E c \in Bytes : Get(c) /\ c = Star
      <4>0. PICK c \in Bytes : Get(c) /\ c = Star
        BY <3>1
      <4>1. Text' = Append(Text, Star)
        <5>1. Text' = IF c = EOF THEN Text ELSE Append(Text, c)
          BY <1>1, <1>2, <4>0, TextGet
        <5>2. c # EOF
          BY <4>0 DEF EOF, Star
        <5>. QED
          BY <4>0, <5>1, <5>2
      <4>2. Text = <<Slash>> /\ Slash \in Byte /\ Star \in Byte
        BY <3>1 DEF TextInv, CommentInv, Slash, Star, Byte
      <4>3. Text' = <<Slash, Star>>
        BY <4>1, <4>2, AppendOne
      <4>4. Len(Text') = 2 /\ Text'[1] = Slash /\ Text'[2] = Star
        BY <4>3
      <4>. QED
        BY <3>1, <4>4 DEF CommentInv
    <3>2. CASE /\ pc = "comment_text"
               /\ \E c \in Bytes : Get(c) /\ c # EOF /\ (pc' = "comment_text" => c # Star)
      <4>1. PICK c \in Bytes : Get(c) /\ c # EOF /\ (pc' = "comment_text" => c # Star)
        BY <3>2
      <4>2. Text' = Append(Text, c) /\ c \in Byte
        BY <1>1, <1>2, <4>1, TextGet
      <4>3. /\ Len(Text) >= 2 /\ Text[1] = Slash /\ \A n \in 3 .. Len(Text) : ~EndsComment(Text, n)
            /\ Len(Text) >= 3 /\ Text[Len(Text)] = Star => next_unget /\ current # Slash
        BY <3>2 DEF TextInv, CommentInv
      <4>4. next_unget => c = current
        BY <4>1 DEF Get, Incoming
      <4>5. /\ Len(Text') = Len(Text) + 1 /\ \A k \in 1 .. Len(Text) : Text'[k] = Text[k]
            /\ Text'[Len(Text) + 1] = c
        BY <1>1, <4>2, Appended
      <4>6. \A n \in 3 .. Len(Text') : ~EndsComment(Text', n)
        <5>1. ASSUME NEW n \in 3 .. Len(Text)
              PROVE  ~EndsComment(Text', n)
          <6>1. Text'[n - 1] = Text[n - 1] /\ Text'[n] = Text[n]
            BY <1>1, <4>5
          <6>. QED
            BY <4>3, <6>1 DEF EndsComment
        <5>2. ~EndsComment(Text', Len(Text) + 1)
          <6>1. SUFFICES ASSUME Len(Text) >= 3, Text[Len(Text)] = Star, c = Slash
                         PROVE  FALSE
            <7>1. Text'[Len(Text)] = Text[Len(Text)] /\ Len(Text) + 1 - 1 = Len(Text)
              BY <1>1, <4>3, <4>5
            <7>. QED
              BY <1>1, <4>5, <7>1 DEF EndsComment
          <6>. QED
            BY <4>3, <4>4, <6>1
        <5>. QED
          BY <1>1, <4>5, <5>1, <5>2
      <4>7. Len(Text') >= 2 /\ Text'[1] = Slash
        BY <1>1, <4>3, <4>5
      <4>8. pc' = "comment_text" => Text'[Len(Text')] # Star
        BY <4>1, <4>5
      <4>. QED
        BY <1>8, <4>6, <4>7, <4>8 DEF CommentInv
    <3>3. CASE pc = "comment_star" /\ pc' = "comment_text" /\ \E c \in Bytes : GetThenUnget(c) /\ c # Slash
      <4>1. PICK c \in Bytes : GetThenUnget(c) /\ c # Slash
        BY <3>3
      <4>2. Text' = Text /\ next_unget' = TRUE /\ current' = c
        BY <1>1, <1>2, <4>1, TextUnget
      <4>3. Len(Text) >= 2 /\ Text[1] = Slash /\ \A n \in 3 .. Len(Text) : ~EndsComment(Text, n)
        BY <3>3 DEF TextInv, CommentInv
      <4>. QED
        BY <3>3, <4>1, <4>2, <4>3 DEF CommentInv
    <3>. QED
      BY <1>3, <1>8, <3>1, <3>2, <3>3
  <2>. QED
    BY <1>5, <1>8, <2>1, NotFound DEF TextInv
<1>9. CASE pc' \in {"space", "line_comment"}
  BY <1>5, <1>9, NotFound DEF TextInv, CommentInv
<1>. QED
  BY <1>4, <1>7, <1>8, <1>9

LEMMA StructuralTokens ==
  ASSUME NEW t \in Structural
  PROVE  t[2] \notin {"value_unsigned", "value_integer", "value_float", "parse_error", "uninitialized"}
BY DEF Structural

LEMMA TextSpace ==
  ASSUME TypeInv, TextInv, Space
  PROVE  TextInv'
<1>. USE DEF Goto, Return, Fail
<1>1. PICK c \in Bytes :
        /\ Get(c)
        /\ start' = IF c = EOF THEN Len(input') ELSE Len(input') - 1
        /\ \/ c \in {Blank, HT, LF, CR} /\ Goto("space") /\ UNCHANGED <<token_buffer, literal>>
           \/ c = Slash /\ ignore_comments /\ Goto("comment") /\ UNCHANGED <<token_buffer, literal>>
           \/ \E t \in Structural : c = t[1] /\ Return(t[2]) /\ UNCHANGED <<token_buffer, literal>>
           \/ \E l \in Literals :
                /\ c = l[1][1]
                /\ expected' = [n \in 1 .. Len(l[1]) - 1 |-> {l[1][n + 1]}]
                /\ type' = l[2]
                /\ Goto("literal") /\ UNCHANGED token_buffer
           \/ c = Quote /\ Goto("string") /\ token_buffer' = <<>> /\ UNCHANGED literal
           \/ /\ c \in Digit \cup {Minus}
              /\ Goto(IF c = Minus THEN "minus" ELSE IF c = Zero THEN "zero" ELSE "any1")
              /\ type' = IF c = Minus THEN "value_integer" ELSE "value_unsigned"
              /\ token_buffer' = <<c>> /\ UNCHANGED expected
           \/ Stray(c) /\ Fail /\ UNCHANGED <<token_buffer, literal>>
  BY DEF Space
<1>2. /\ current' = c /\ (c # EOF => c \in Byte)
      /\ Text' = IF c = EOF THEN <<>> ELSE <<c>>
  BY <1>1, TextFirst
<1>3. c # EOF => Text' = <<c>> /\ Text' # <<>> /\ Len(Text') = 1 /\ Text'[1] = c
  BY <1>2
<1>4. CASE pc' = "space"
  BY <1>4, NotFound DEF TextInv, MarkInv, CommentInv, LiteralInv, NumberInv, StringInv, Labels, Complete, StringPcs
<1>5. CASE c = Slash /\ pc' = "comment"
  <2>1. c # EOF
    BY <1>5 DEF Slash, EOF
  <2>2. CommentInv'
    BY <1>3, <1>5, <2>1 DEF CommentInv
  <2>. QED
    BY <1>5, <2>2, NotFound
    DEF TextInv, MarkInv, LiteralInv, NumberInv, StringInv, Labels, Complete, StringPcs
<1>6. CASE \E t \in Structural : c = t[1] /\ Return(t[2])
  <2>1. PICK t \in Structural : c = t[1] /\ pc' = "returned" /\ token' = t[2]
    BY <1>6
  <2>2. WordIsText'
    BY <1>2, <2>1 DEF WordIsText
  <2>3. NumberIsText' /\ ErrorInv'
    BY <2>1, StructuralTokens DEF NumberIsText, ErrorInv
  <2>. QED
    BY <2>1, <2>2, <2>3
    DEF TextInv, FoundInv, MarkInv, CommentInv, LiteralInv, NumberInv, StringInv, Labels, Complete, StringPcs
<1>7. CASE \E l \in Literals :
                /\ c = l[1][1]
                /\ expected' = [n \in 1 .. Len(l[1]) - 1 |-> {l[1][n + 1]}]
                /\ type' = l[2]
                /\ Goto("literal")
  <2>1. PICK l \in Literals :
                /\ c = l[1][1]
                /\ expected' = [n \in 1 .. Len(l[1]) - 1 |-> {l[1][n + 1]}]
                /\ type' = l[2]
                /\ pc' = "literal"
    BY <1>7
  <2>2. c # EOF
    BY <2>1, LiteralFirst
  <2>3. Len(l[1]) = 4 \/ Len(l[1]) = 5
    BY LiteralTexts
  <2>4. /\ Matched(l, Text') /\ type' = l[2] /\ Len(Text') < Len(l[1])
        /\ expected' = [n \in 1 .. Len(l[1]) - Len(Text') |-> {l[1][Len(Text') + n]}]
    <3>1. Matched(l, Text') /\ type' = l[2] /\ Len(Text') < Len(l[1])
      <4>1. Len(Text') = 1 /\ Text'[1] = l[1][1]
        BY <1>3, <2>1, <2>2
      <4>2. Len(Text') < Len(l[1]) /\ Len(Text') <= Len(l[1])
        <5>1. CASE Len(l[1]) = 4
          BY <4>1, <5>1
        <5>2. CASE Len(l[1]) = 5
          BY <4>1, <5>2
        <5>. QED
          BY <2>3, <5>1, <5>2
      <4>3. \A k \in 1 .. Len(Text') : k = 1
        BY <4>1
      <4>. QED
        BY <2>1, <4>1, <4>2, <4>3 DEF Matched
    <3>2. \A n \in 1 .. Len(l[1]) - 1 : n + 1 = 1 + n
      BY <2>3
    <3>3. expected' = [n \in 1 .. Len(l[1]) - 1 |-> {l[1][1 + n]}]
      BY <2>1, <3>2
    <3>. QED
      BY <1>3, <2>2, <3>1, <3>3
  <2>5. LiteralInv'
    BY <1>3, <2>2, <2>4 DEF LiteralInv
  <2>. QED
    BY <2>1, <2>5, NotFound
    DEF TextInv, MarkInv, CommentInv, NumberInv, StringInv, Labels, Complete, StringPcs
<1>8. CASE c = Quote /\ Goto("string")
  <2>1. c # EOF
    BY <1>8 DEF Quote, EOF
  <2>2. StringInv'
    BY <1>3, <1>8, <2>1 DEF StringInv
  <2>. QED
    BY <1>8, <2>2, NotFound DEF TextInv, MarkInv, CommentInv, LiteralInv, NumberInv, Labels, Complete
<1>9. CASE /\ c \in Digit \cup {Minus}
           /\ Goto(IF c = Minus THEN "minus" ELSE IF c = Zero THEN "zero" ELSE "any1")
           /\ type' = IF c = Minus THEN "value_integer" ELSE "value_unsigned"
           /\ token_buffer' = <<c>>
  <2>1. c # EOF
    BY <1>9 DEF Digit, Minus, EOF
  <2>2. /\ pc' \in {"minus", "zero", "any1"} /\ pc' \in Labels /\ Shape(pc', <<c>>, 1)
        /\ type' = IF c = Minus THEN "value_integer" ELSE "value_unsigned"
        /\ token_buffer' = <<c>>
    BY <1>9, FirstLabel
  <2>3. NumberInv'
    BY <1>3, <2>1, <2>2 DEF NumberInv
  <2>. QED
    BY <2>2, <2>3, NotFound DEF TextInv, MarkInv, CommentInv, LiteralInv, StringInv, StringPcs
<1>10. CASE Stray(c) /\ Fail
  <2>1. c \notin Digit \cup {Minus, Quote} /\ \A l \in Literals : c # l[1][1]
    BY <1>10 DEF Stray
  <2>2. c # EOF => ~Begins(Text')
    BY <1>3, <2>1, BeginsByKind
  <2>3. ErrorInv'
    BY <1>2, <1>3, <1>10, <2>2 DEF ErrorInv
  <2>4. NumberIsText' /\ WordIsText'
    BY <1>10 DEF NumberIsText, WordIsText
  <2>. QED
    BY <1>10, <2>3, <2>4
    DEF TextInv, FoundInv, MarkInv, CommentInv, LiteralInv, NumberInv, StringInv, Labels, Complete, StringPcs
<1>. QED
  BY <1>1, <1>4, <1>5, <1>6, <1>7, <1>8, <1>9, <1>10

LEMMA TextLiteral ==
  ASSUME TypeInv, TextInv, Literal
  PROVE  TextInv'
<1>. USE DEF Goto, Return, Fail
<1>1. /\ ReaderInv /\ start \in Nat /\ start <= Len(Consumed)
      /\ Text \in Seq(Byte) /\ Len(Text) \in Nat
  BY TextBytes DEF TypeInv, PlaceInv
<1>2. PICK c \in Bytes :
        /\ Get(c)
        /\ IF c \notin Head(expected) THEN Fail
           ELSE IF Len(expected) > 1 THEN Goto("literal") ELSE Return(type)
  BY DEF Literal
<1>3. UNCHANGED <<start, type>> /\ expected' = Tail(expected) /\ pc = "literal"
  BY DEF Literal, history
<1>4. /\ current' = c /\ (c # EOF => c \in Byte) /\ (c # EOF => Text' = Append(Text, c))
  BY <1>1, <1>2, <1>3, TextGet
<1>5. PICK l \in Literals :
        /\ Matched(l, Text) /\ type = l[2] /\ Len(Text) < Len(l[1])
        /\ expected = [n \in 1 .. Len(l[1]) - Len(Text) |-> {l[1][Len(Text) + n]}]
  BY <1>3 DEF TextInv, LiteralInv
<1>6. Text # <<>> /\ 1 \in 1 .. Len(Text)
  BY <1>1, <1>3, EmptySeq DEF TextInv, LiteralInv
<1>. DEFINE k == Len(Text)
            m == Len(l[1])
<1>7. k \in Nat \ {0} /\ m \in Nat /\ k < m /\ l[1] \in Seq(Byte)
  BY <1>1, <1>5, <1>6, LiteralTexts, LenProperties
<1>8. /\ expected \in Seq(SUBSET Byte) /\ Len(expected) = m - k
      /\ Head(expected) = {l[1][k + 1]}
  <2>1. expected \in Seq(SUBSET Byte)
    BY DEF TypeInv, ExpectedInv
  <2>2. DOMAIN expected = 1 .. m - k /\ m - k \in Nat /\ 1 \in 1 .. m - k
    BY <1>5, <1>7
  <2>3. Len(expected) = m - k
    BY <2>1, <2>2, LenProperties
  <2>4. Head(expected) = expected[1]
    BY <2>1, <2>2, <2>3, EmptySeq, HeadTailProperties
  <2>. QED
    BY <1>5, <2>1, <2>2, <2>3, <2>4
<1>9. c # EOF => /\ Text' \in Seq(Byte) /\ Text' # <<>> /\ Len(Text') = k + 1 /\ Text'[1] = Text[1]
                 /\ \A n \in 1 .. k : Text'[n] = Text[n]
                 /\ Text'[k + 1] = c
  BY <1>1, <1>4, <1>6, Appended
<1>10. pc' \in {"returned", "literal"}
  BY <1>2
<1>11. MarkInv' /\ CommentInv' /\ NumberInv' /\ StringInv'
  BY <1>10 DEF MarkInv, CommentInv, NumberInv, StringInv, Labels, Complete, StringPcs
<1>12. Text[1] = l[1][1]
  BY <1>5, <1>6 DEF Matched
<1>13. CASE c \notin Head(expected)
  <2>1. pc' = "returned" /\ token' = "parse_error"
    BY <1>2, <1>13
  <2>2. ASSUME c # EOF
        PROVE  ~Begins(Text')
    <3>1. SUFFICES ASSUME NEW o \in Literals, IsPrefix(Text', o[1])
                   PROVE  FALSE
      BY <1>9, <1>12, <2>2, BeginsByKind DEF BeginsLiteral
    <3>2. Matched(o, Text')
      BY <1>9, <2>2, <3>1, PrefixMatched
    <3>3. o[1][1] = l[1][1] /\ o[1][k + 1] = c
      BY <1>7, <1>9, <1>12, <2>2, <3>2 DEF Matched
    <3>4. o = l
      BY <3>3 DEF Literals, TrueText, FalseText, NullText, Lower
    <3>. QED
      BY <1>8, <1>13, <3>3, <3>4
  <2>3. ErrorInv'
    BY <1>4, <1>9, <2>1, <2>2 DEF ErrorInv
  <2>4. NumberIsText' /\ WordIsText' /\ LiteralInv'
    BY <2>1 DEF NumberIsText, WordIsText, LiteralInv
  <2>. QED
    BY <1>11, <2>3, <2>4 DEF TextInv, FoundInv
<1>14. CASE c \in Head(expected)
  <2>1. c = l[1][k + 1] /\ k + 1 \in 1 .. m
    BY <1>7, <1>8, <1>14
  <2>2. c # EOF
    <3>1. c \in Byte
      BY <1>7, <2>1, ElementOfSeq
    <3>. QED
      BY <3>1 DEF EOF, Byte
  <2>3. Matched(l, Text')
    BY <1>5, <1>7, <1>9, <2>1, <2>2 DEF Matched
  <2>4. CASE Len(expected) > 1
    <3>1. pc' = "literal" /\ type' = l[2] /\ k + 1 < m
      BY <1>2, <1>3, <1>5, <1>7, <1>8, <1>14, <2>4
    <3>2. expected' = [n \in 1 .. m - (k + 1) |-> {l[1][(k + 1) + n]}]
      <4>1. /\ Len(expected') = m - (k + 1) /\ expected' \in Seq(SUBSET Byte)
            /\ \A n \in 1 .. m - (k + 1) : expected'[n] = expected[n + 1]
        BY <1>3, <1>7, <1>8, <3>1, TailElements
      <4>2. DOMAIN expected' = 1 .. m - (k + 1)
        BY <4>1, LenProperties
      <4>3. \A n \in 1 .. m - (k + 1) : expected'[n] = {l[1][(k + 1) + n]}
        <5>. TAKE n \in 1 .. m - (k + 1)
        <5>1. n + 1 \in 1 .. m - k /\ k + (n + 1) = (k + 1) + n
          BY <1>7
        <5>. QED
          BY <1>5, <4>1, <5>1
      <4>. QED
        BY <4>1, <4>2, <4>3
    <3>3. LiteralInv'
      BY <1>9, <2>2, <2>3, <3>1, <3>2 DEF LiteralInv
    <3>. QED
      BY <1>11, <3>1, <3>3, NotFound DEF TextInv
  <2>5. CASE ~(Len(expected) > 1)
    <3>1. pc' = "returned" /\ token' = l[2] /\ k + 1 = m
      BY <1>2, <1>5, <1>7, <1>8, <1>14, <2>5
    <3>2. Text' = l[1]
      BY <1>7, <1>9, <2>2, <2>3, <3>1, SeqEqual DEF Matched
    <3>3. l = <<Text', token'>>
      BY <3>1, <3>2, LiteralTexts
    <3>4. WordIsText'
      BY <3>3 DEF WordIsText
    <3>5. NumberIsText' /\ ErrorInv'
      BY <3>1, LiteralTexts DEF NumberIsText, ErrorInv
    <3>6. LiteralInv'
      BY <3>1 DEF LiteralInv
    <3>. QED
      BY <1>11, <3>4, <3>5, <3>6 DEF TextInv, FoundInv
  <2>. QED
    BY <2>4, <2>5
<1>. QED
  BY <1>13, <1>14

LEMMA ShapeFirst ==
  ASSUME NEW s \in Seq(Byte), s # <<>>, NEW label \in Labels, Shape(label, s, Len(s))
  PROVE  s[1] \in Digit \cup {Minus}
<1>1. Len(s) \in Nat \ {0} /\ Lead(s) \in {0, 1}
  BY LenProperties, EmptySeq DEF Lead
<1>2. CASE s[1] # Minus
  <2>1. Lead(s) = 0
    BY <1>2 DEF Lead
  <2>2. CASE label \in {"minus", "zero", "any1"}
    BY <1>1, <1>2, <2>1, <2>2 DEF Shape, Digits, Digit, Zero
  <2>3. CASE label \notin {"minus", "zero", "any1"}
    <3>1. \E i \in 1 .. Len(s) : Whole(s, i)
      BY <2>3 DEF Shape
    <3>. QED
      BY <1>1, <2>1, <3>1 DEF Whole, Digits
  <2>. QED
    BY <2>2, <2>3
<1>. QED
  BY <1>2

(* A step of scan_number(): a byte goes on from the label, or ends the     *)
(* number, or there is none.                                               *)
Lengthens(c) == /\ c \in Accepts(pc) /\ Get(c) /\ pc' = Successor(pc, c)
                /\ token_buffer' = token_buffer \o <<c>>
                /\ type' = IF pc' \in {"minus", "zero", "any1"} THEN type ELSE "value_float"
Stops(c) == /\ c \notin Accepts(pc) /\ pc \in Complete /\ GetThenUnget(c)
            /\ Return(NumberToken) /\ UNCHANGED token_buffer
Breaks(c) == c \notin Accepts(pc) /\ pc \notin Complete /\ Get(c) /\ Fail

LEMMA NumberSteps ==
  ASSUME NumberInv, scan_number
  PROVE  \E c \in Bytes : Lengthens(c) \/ Stops(c) \/ Breaks(c)
<1>. USE DEF Accepts, Complete, Continue, NumberDone, NumberFails, Goto, Fail, Return, Add, float,
             literal, Labels, Digit, Zero, Point, Plus, Minus, Exponent, Lower, Upper
<1>1. CASE ScanMinus
  BY <1>1 DEF ScanMinus, NumberInv, Lengthens, Breaks, Successor
<1>2. CASE ScanInteger
  <2>1. PICK c \in Bytes :
          \/ c = Point /\ Continue(c, "decimal1") /\ float
          \/ c \in Exponent /\ Continue(c, "exponent") /\ float
          \/ c \in Digit /\ pc = "any1" /\ Continue(c, "any1") /\ UNCHANGED type
          \/ /\ c \notin {Point} \cup Exponent
             /\ pc = "any1" => c \notin Digit
             /\ NumberDone(c) /\ UNCHANGED type
    BY <1>2 DEF ScanInteger
  <2>2. pc \in {"zero", "any1"}
    BY <1>2 DEF ScanInteger
  <2>3. CASE c = Point /\ Continue(c, "decimal1") /\ float
    BY <2>2, <2>3 DEF Lengthens, Successor
  <2>4. CASE c \in Exponent /\ Continue(c, "exponent") /\ float
    BY <2>2, <2>4 DEF Lengthens, Successor
  <2>5. CASE c \in Digit /\ pc = "any1" /\ Continue(c, "any1") /\ UNCHANGED type
    BY <2>5 DEF Lengthens, Successor
  <2>6. CASE /\ c \notin {Point} \cup Exponent
             /\ pc = "any1" => c \notin Digit
             /\ NumberDone(c)
    BY <2>2, <2>6 DEF Stops
  <2>. QED
    BY <2>1, <2>3, <2>4, <2>5, <2>6
<1>3. CASE ScanDecimal1
  BY <1>3 DEF ScanDecimal1, NumberInv, Lengthens, Breaks, Successor
<1>4. CASE ScanDecimal2
  BY <1>4 DEF ScanDecimal2, NumberInv, Lengthens, Stops, Successor
<1>5. CASE ScanExponent
  BY <1>5 DEF ScanExponent, NumberInv, Lengthens, Breaks, Successor
<1>6. CASE ScanSign
  BY <1>6 DEF ScanSign, NumberInv, Lengthens, Breaks, Successor
<1>7. CASE ScanAny2
  BY <1>7 DEF ScanAny2, NumberInv, Lengthens, Stops, Successor
<1>. QED
  BY <1>1, <1>2, <1>3, <1>4, <1>5, <1>6, <1>7 DEF scan_number

(* The type of an integer that ends is its sign's, if it fits.             *)
LEMMA TokenOfNumber ==
  ASSUME Text \in Seq(Byte), NumberInv, pc \in Complete
  PROVE  NumberToken = IF IsDigits(Text) /\ Value(Text) <= MaxUnsigned THEN "value_unsigned"
                       ELSE IF Text[1] = Minus /\ IsDigits(Tail(Text))
                               /\ Value(Tail(Text)) <= MaxInteger + 1 THEN "value_integer"
                       ELSE "value_float"
<1>1. /\ Text # <<>> /\ token_buffer = Text /\ Shape(pc, Text, Len(Text))
      /\ type = IF pc \notin {"minus", "zero", "any1"} THEN "value_float"
                ELSE IF Text[1] = Minus THEN "value_integer" ELSE "value_unsigned"
  BY DEF NumberInv, Labels
<1>2. /\ IsDigits(Text) <=> pc \in {"zero", "any1"} /\ Text[1] # Minus
      /\ Text[1] = Minus => (IsDigits(Tail(Text)) <=> pc \in {"zero", "any1"})
  BY <1>1, IntegerLabels
<1>3. CASE pc \notin {"zero", "any1"}
  <2>1. type = "value_float" /\ ~IsDigits(Text) /\ ~(Text[1] = Minus /\ IsDigits(Tail(Text)))
    BY <1>1, <1>2, <1>3 DEF Complete
  <2>. QED
    BY <2>1 DEF NumberToken
<1>4. CASE pc \in {"zero", "any1"} /\ Text[1] = Minus
  <2>1. type = "value_integer" /\ ~IsDigits(Text) /\ IsDigits(Tail(Text))
    BY <1>1, <1>2, <1>4
  <2>. QED
    BY <1>1, <1>4, <2>1 DEF NumberToken
<1>5. CASE pc \in {"zero", "any1"} /\ Text[1] # Minus
  <2>1. type = "value_unsigned" /\ IsDigits(Text)
    BY <1>1, <1>2, <1>5
  <2>. QED
    BY <1>1, <1>5, <2>1 DEF NumberToken
<1>. QED
  BY <1>3, <1>4, <1>5

LEMMA TextNumber ==
  ASSUME TypeInv, TextInv, scan_number
  PROVE  TextInv'
<1>. USE DEF Goto, Return, Fail
<1>1. /\ ReaderInv /\ start \in Nat /\ start <= Len(Consumed)
      /\ Text \in Seq(Byte) /\ Len(Text) \in Nat
  BY TextBytes DEF TypeInv, PlaceInv
<1>2. UNCHANGED start /\ pc \in Labels
  BY DEF scan_number, ScanMinus, ScanInteger, ScanDecimal1, ScanDecimal2, ScanExponent, ScanSign, ScanAny2,
         history, Labels, Complete
<1>3. /\ Text # <<>> /\ token_buffer = Text /\ Shape(pc, Text, Len(Text))
      /\ type = IF pc \notin {"minus", "zero", "any1"} THEN "value_float"
                ELSE IF Text[1] = Minus THEN "value_integer" ELSE "value_unsigned"
  BY <1>2 DEF TextInv, NumberInv
<1>4. PICK c \in Bytes : Lengthens(c) \/ Stops(c) \/ Breaks(c)
  BY NumberSteps DEF TextInv
<1>5. CASE Lengthens(c)
  <2>1. c \in Byte /\ c # EOF
    BY <1>5 DEF Lengthens, Accepts, Byte, EOF, Digit, Point, Plus, Minus, Exponent, Lower, Upper
  <2>2. Text' = Append(Text, c)
    BY <1>1, <1>2, <1>5, <2>1, TextGet DEF Lengthens
  <2>3. pc' \in Labels /\ Shape(pc', Append(Text, c), Len(Append(Text, c)))
    BY <1>1, <1>2, <1>3, <1>5, <2>1, LabelStep DEF Lengthens
  <2>4. Text' # <<>> /\ Text'[1] = Text[1]
    BY <1>1, <1>3, <2>1, <2>2, Appended
  <2>5. token_buffer' = Text'
    BY <1>1, <1>3, <1>5, <2>1, <2>2, AppendIsConcat DEF Lengthens
  <2>6. type' = IF pc' \notin {"minus", "zero", "any1"} THEN "value_float"
                ELSE IF Text'[1] = Minus THEN "value_integer" ELSE "value_unsigned"
    <3>1. pc' \in {"minus", "zero", "any1"} => pc \in {"minus", "zero", "any1"}
      BY <1>5 DEF Lengthens, Successor, Accepts, Digit, Point, Plus, Minus, Zero, Exponent, Lower, Upper
    <3>. QED
      BY <1>3, <1>5, <2>4, <3>1 DEF Lengthens
  <2>7. NumberInv'
    BY <2>2, <2>3, <2>4, <2>5, <2>6 DEF NumberInv
  <2>. QED
    BY <2>3, <2>7, NotFound
    DEF TextInv, MarkInv, CommentInv, LiteralInv, StringInv, StringPcs, Labels, Complete
<1>6. CASE Stops(c)
  <2>1. /\ pc \in Complete /\ c \notin Accepts(pc) /\ GetThenUnget(c)
        /\ pc' = "returned" /\ token' = NumberToken /\ token_buffer' = token_buffer
    BY <1>6 DEF Stops
  <2>2. Text' = Text /\ current' = c /\ (c # EOF => c \in Byte)
    BY <1>1, <1>2, <2>1, TextUnget
  <2>3. IsNumber(Text)
    BY <1>1, <1>3, <2>1, CompleteIsNumber
  <2>4. c # EOF => ~BeginsNumber(Append(Text, c))
    BY <1>1, <1>2, <1>3, <2>1, <2>2, NoNumberAfter
  <2>5. token' = IF IsDigits(Text) /\ Value(Text) <= MaxUnsigned THEN "value_unsigned"
                 ELSE IF Text[1] = Minus /\ IsDigits(Tail(Text))
                         /\ Value(Tail(Text)) <= MaxInteger + 1 THEN "value_integer"
                 ELSE "value_float"
    BY <1>1, <2>1, TokenOfNumber DEF TextInv
  <2>6. token' \in {"value_unsigned", "value_integer", "value_float"}
    BY <2>5
  <2>7. NumberIsText'
    BY <1>3, <2>1, <2>2, <2>3, <2>4, <2>5 DEF NumberIsText
  <2>8. WordIsText' /\ ErrorInv'
    BY <2>6 DEF WordIsText, ErrorInv
  <2>. QED
    BY <2>1, <2>7, <2>8
    DEF TextInv, FoundInv, MarkInv, CommentInv, LiteralInv, NumberInv, StringInv, StringPcs, Labels, Complete
<1>7. CASE Breaks(c)
  <2>1. c \notin Accepts(pc) /\ Get(c) /\ pc' = "returned" /\ token' = "parse_error"
    BY <1>7 DEF Breaks
  <2>2. current' = c /\ (c # EOF => c \in Byte /\ Text' = Append(Text, c))
    BY <1>1, <1>2, <2>1, TextGet
  <2>3. ASSUME c # EOF
        PROVE  Text' # <<>> /\ ~Begins(Text')
    <3>1. ~BeginsNumber(Text')
      BY <1>1, <1>2, <1>3, <2>1, <2>2, <2>3, NoNumberAfter
    <3>2. Text' # <<>> /\ Text'[1] = Text[1]
      BY <1>1, <1>3, <2>2, <2>3, Appended
    <3>3. Text'[1] \in Digit \cup {Minus}
      BY <1>1, <1>2, <1>3, <3>2, ShapeFirst
    <3>. QED
      BY <3>1, <3>2, <3>3, BeginsByKind
  <2>4. ErrorInv'
    BY <2>1, <2>2, <2>3 DEF ErrorInv
  <2>5. NumberIsText' /\ WordIsText'
    BY <2>1 DEF NumberIsText, WordIsText
  <2>. QED
    BY <2>1, <2>4, <2>5
    DEF TextInv, FoundInv, MarkInv, CommentInv, LiteralInv, NumberInv, StringInv, StringPcs, Labels, Complete
<1>. QED
  BY <1>4, <1>5, <1>6, <1>7

LEMMA TextString ==
  ASSUME TypeInv, TextInv, scan_string
  PROVE  TextInv'
<1>. USE DEF Goto, Return, Fail
<1>1. /\ ReaderInv /\ start \in Nat /\ start <= Len(Consumed)
      /\ Text \in Seq(Byte) /\ Len(Text) \in Nat
  BY TextBytes DEF TypeInv, PlaceInv
<1>2. /\ UNCHANGED start /\ pc \in StringPcs /\ \E c \in Bytes : Get(c)
      /\ \/ pc' \in StringPcs
         \/ pc' = "returned" /\ token' \in {"value_string", "parse_error"}
  <2>1. CASE ScanString
    BY <2>1 DEF ScanString, history, StringPcs
  <2>2. CASE ScanTail
    BY <2>2 DEF ScanTail, history, StringPcs
  <2>3. CASE ScanEscape
    BY <2>3 DEF ScanEscape, history, StringPcs
  <2>4. CASE ScanHex
    BY <2>4 DEF ScanHex, EndEscape, history, StringPcs
  <2>5. CASE ScanPair
    BY <2>5 DEF ScanPair, history, StringPcs
  <2>. QED
    BY <2>1, <2>2, <2>3, <2>4, <2>5 DEF scan_string
<1>3. Text # <<>> /\ Text[1] = Quote
  BY <1>2 DEF TextInv, StringInv
<1>4. PICK c \in Bytes : Get(c)
  BY <1>2
<1>5. (c # EOF => c \in Byte) /\ Text' = IF c = EOF THEN Text ELSE Append(Text, c)
  BY <1>1, <1>2, <1>4, TextGet
<1>6. Text' # <<>> /\ Text'[1] = Quote
  BY <1>1, <1>3, <1>5, Appended
<1>7. MarkInv' /\ CommentInv' /\ LiteralInv' /\ NumberInv' /\ StringInv'
  BY <1>2, <1>6 DEF MarkInv, CommentInv, LiteralInv, NumberInv, StringInv, Labels, Complete, StringPcs
<1>8. FoundInv'
  BY <1>2, <1>6 DEF FoundInv, NumberIsText, WordIsText, ErrorInv, Found, StringPcs
<1>. QED
  BY <1>7, <1>8 DEF TextInv

LEMMA TextInit ==
  ASSUME Init
  PROVE  TextInv
<1>1. pc = "returned" /\ token = "uninitialized"
  BY DEF Init
<1>. QED
  BY <1>1 DEF TextInv, FoundInv, NumberIsText, WordIsText, ErrorInv, Found,
              MarkInv, CommentInv, LiteralInv, NumberInv, StringInv, StringPcs, Labels, Complete

LEMMA TextStep ==
  ASSUME TypeInv, TextInv, [Next]_vars
  PROVE  TextInv'
<1>1. CASE UNCHANGED vars
  <2>1. /\ Text' = Text
        /\ UNCHANGED <<pc, next_unget, current, type, expected, token, token_buffer>>
    BY <1>1 DEF vars, reader, literal, escape, history, Text, Consumed
  <2>2. MarkInv' /\ CommentInv' /\ LiteralInv' /\ NumberInv' /\ StringInv'
    BY <2>1 DEF TextInv, MarkInv, CommentInv, LiteralInv, NumberInv, StringInv
  <2>3. NumberIsText' /\ WordIsText' /\ ErrorInv'
    BY <2>1 DEF TextInv, FoundInv, NumberIsText, WordIsText, ErrorInv, Found
  <2>. QED
    BY <2>2, <2>3 DEF TextInv, FoundInv
<1>2. CASE Next
  BY <1>2, TextScan, TextMark, TextComment, TextSpace, TextLiteral, TextNumber, TextString
  DEF Next, Reading
<1>. QED
  BY <1>1, <1>2

(* All of it, always.                                                      *)
LEMMA Invariant == Spec => [](TypeInv /\ TextInv)
BY TypeInit, TypeStep, TextInit, TextStep, PTL DEF Spec

-------------------------------------------------------------------------------
(* Least numbers, and sequences of bytes: joined, and from a place on.     *)
LEMMA Least ==
  ASSUME NEW T, T \subseteq Nat, T # {}
  PROVE \E x \in T : \A y \in T : x <= y
<1>. DEFINE Below(n) == {m \in Nat : m <= n}
<1>. DEFINE S == {Below(n) : n \in T}
<1>1. \A n \in Nat : IsFiniteSet(Below(n))
  <2>. TAKE n \in Nat
  <2>1. Below(n) = 0 .. n
    OBVIOUS
  <2>2. IsFiniteSet(0 .. n)
    BY FS_Interval
  <2>. QED BY <2>1, <2>2
<1>2. S \subseteq FiniteSubsetsOf(Nat)
  BY <1>1 DEF FiniteSubsetsOf
<1>3. S # {}
  OBVIOUS
<1>4. \E x \in S : \A y \in S : ~(<<y, x>> \in StrictSubsetOrdering(Nat))
  <2>. HIDE DEF S
  <2>1. IsWellFoundedOn(StrictSubsetOrdering(Nat), FiniteSubsetsOf(Nat))
    BY FS_StrictSubsetOrderingWellFounded
  <2>. QED BY <2>1, <1>2, <1>3, WFMin
<1>5. PICK x \in T : \A y \in T : ~(<<Below(y), Below(x)>> \in StrictSubsetOrdering(Nat))
  BY <1>4
<1>6. ASSUME NEW y \in T, y < x PROVE FALSE
  <2>1. Below(y) \subseteq Below(x) /\ x \in Below(x) /\ x \notin Below(y)
    BY <1>6
  <2>2. <<Below(y), Below(x)>> \in StrictSubsetOrdering(Nat)
    <3>1. Below(y) # Below(x)
      BY <2>1
    <3>2. Below(y) \in SUBSET Nat /\ Below(x) \in SUBSET Nat
      OBVIOUS
    <3>. HIDE DEF Below
    <3>. QED BY <2>1, <3>1, <3>2 DEF StrictSubsetOrdering
  <2>. QED BY <2>2, <1>5
<1>7. \A y \in T : x <= y
  BY <1>6
<1>. QED BY <1>7

(* Induction: what holds of 0 and with n of n + 1 holds up to any bound.   *)
LEMMA UpTo ==
  ASSUME NEW N \in Nat, NEW T, 0 \in T, \A n \in 0 .. N - 1 : n \in T => n + 1 \in T
  PROVE  \A n \in 0 .. N : n \in T
<1>. DEFINE out == {n \in 0 .. N : n \notin T}
<1>1. SUFFICES ASSUME out # {} PROVE FALSE
  OBVIOUS
<1>2. PICK x \in out : \A y \in out : x <= y
  <2>. HIDE DEF out
  <2>1. out \subseteq Nat
    BY DEF out
  <2>. QED
    BY <1>1, <2>1, Least
<1>3. x \in 1 .. N /\ x \notin T
  OBVIOUS
<1>4. x - 1 \in 0 .. N - 1 /\ (x - 1) + 1 = x
  BY <1>3
<1>5. x - 1 \in T
  BY <1>2, <1>4
<1>. QED
  BY <1>3, <1>4, <1>5

(* Parts of sequences put together.                                        *)
LEMMA Joined ==
  ASSUME NEW s \in Seq(Byte), NEW t \in Seq(Byte)
  PROVE  /\ s \o t \in Seq(Byte) /\ Len(s) \in Nat /\ Len(t) \in Nat
         /\ Len(s \o t) = Len(s) + Len(t)
         /\ \A k \in 1 .. Len(s) : (s \o t)[k] = s[k]
         /\ \A k \in 1 .. Len(t) : (s \o t)[Len(s) + k] = t[k]
<1>1. /\ s \o t \in Seq(Byte) /\ Len(s) \in Nat /\ Len(t) \in Nat
      /\ Len(s \o t) = Len(s) + Len(t)
      /\ \A i \in 1 .. Len(s) + Len(t) : (s \o t)[i] = IF i <= Len(s) THEN s[i] ELSE t[i - Len(s)]
  BY ConcatProperties, LenProperties
<1>2. \A k \in 1 .. Len(s) : (s \o t)[k] = s[k]
  BY <1>1
<1>3. ASSUME NEW k \in 1 .. Len(t)
      PROVE  (s \o t)[Len(s) + k] = t[k]
  <2>1. Len(s) + k \in 1 .. Len(s) + Len(t) /\ ~(Len(s) + k <= Len(s)) /\ (Len(s) + k) - Len(s) = k
    BY <1>1
  <2>. QED
    BY <1>1, <2>1
<1>. QED
  BY <1>1, <1>2, <1>3

LEMMA FromPart ==
  ASSUME NEW s \in Seq(Byte), NEW n \in 1 .. Len(s) + 1
  PROVE  /\ From(s, n) \in Seq(Byte) /\ Len(s) \in Nat /\ Len(From(s, n)) = Len(s) - n + 1
         /\ \A k \in 1 .. Len(s) - n + 1 : From(s, n)[k] = s[n + k - 1]
         /\ From(s, n) = <<>> <=> n = Len(s) + 1
<1>1. Len(s) \in Nat /\ Len(s) \in 0 .. Len(s) /\ n \in Nat \ {0}
  BY LenProperties
<1>2. /\ SubSeq(s, n, Len(s)) \in Seq(Byte)
      /\ Len(SubSeq(s, n, Len(s))) = IF n <= Len(s) THEN Len(s) - n + 1 ELSE 0
      /\ \A k \in 1 .. Len(s) - n + 1 : SubSeq(s, n, Len(s))[k] = s[n + k - 1]
      /\ SubSeq(s, n, Len(s)) = <<>> <=> Len(s) < n
  BY <1>1, Part
<1>. QED
  BY <1>1, <1>2 DEF From

LEMMA FromFrom ==
  ASSUME NEW s \in Seq(Byte), NEW n \in 1 .. Len(s) + 1, NEW k \in 1 .. Len(s) - n + 2
  PROVE  From(From(s, n), k) = From(s, n + k - 1)
<1>1. Len(s) \in Nat /\ n \in Nat \ {0} /\ k \in Nat \ {0} /\ Len(s) \in 0 .. Len(s)
      /\ n <= Len(s) + 1 /\ Len(s) - n + 1 \in 0 .. Len(s) - n + 1
      /\ n + (Len(s) - n + 1) - 1 = Len(s) /\ Len(From(s, n)) = Len(s) - n + 1
  BY LenProperties, FromPart
<1>2. SubSeq(SubSeq(s, n, Len(s)), k, Len(s) - n + 1) = SubSeq(s, n + k - 1, n + (Len(s) - n + 1) - 1)
  BY <1>1, PartOfPart
<1>. QED
  BY <1>1, <1>2 DEF From

LEMMA FromJoined ==
  ASSUME NEW s \in Seq(Byte), NEW t \in Seq(Byte), NEW n \in 1 .. Len(s) + 1
  PROVE  From(s \o t, n) = From(s, n) \o t
<1>. DEFINE u == s \o t
            a == From(u, n)
            b == From(s, n) \o t
<1>1. /\ u \in Seq(Byte) /\ Len(s) \in Nat /\ Len(t) \in Nat /\ Len(u) = Len(s) + Len(t)
      /\ \A k \in 1 .. Len(s) : u[k] = s[k]
      /\ \A k \in 1 .. Len(t) : u[Len(s) + k] = t[k]
  BY Joined
<1>. HIDE DEF u
<1>2. n \in 1 .. Len(u) + 1
  BY <1>1
<1>3. a \in Seq(Byte) /\ Len(a) = Len(u) - n + 1 /\ \A k \in 1 .. Len(u) - n + 1 : a[k] = u[n + k - 1]
  BY <1>1, <1>2, FromPart
<1>4. /\ From(s, n) \in Seq(Byte) /\ Len(From(s, n)) = Len(s) - n + 1
      /\ \A k \in 1 .. Len(s) - n + 1 : From(s, n)[k] = s[n + k - 1]
  BY FromPart
<1>5. /\ b \in Seq(Byte) /\ Len(b) = Len(From(s, n)) + Len(t)
      /\ \A k \in 1 .. Len(From(s, n)) : b[k] = From(s, n)[k]
      /\ \A k \in 1 .. Len(t) : b[Len(From(s, n)) + k] = t[k]
  BY <1>4, Joined
<1>. HIDE DEF a, b
<1>6. Len(a) = Len(b)
  BY <1>1, <1>3, <1>4, <1>5
<1>7. ASSUME NEW k \in 1 .. Len(a)
      PROVE  a[k] = b[k]
  <2>1. CASE k <= Len(s) - n + 1
    <3>1. k \in 1 .. Len(From(s, n)) /\ k \in 1 .. Len(s) - n + 1 /\ n + k - 1 \in 1 .. Len(s)
          /\ k \in 1 .. Len(u) - n + 1
      BY <1>1, <1>3, <1>4, <2>1
    <3>. QED
      BY <1>1, <1>3, <1>4, <1>5, <3>1
  <2>2. CASE k > Len(s) - n + 1
    <3>. DEFINE j == k - (Len(s) - n + 1)
    <3>1. j \in 1 .. Len(t) /\ Len(From(s, n)) + j = k /\ Len(s) + j = n + k - 1
          /\ k \in 1 .. Len(u) - n + 1
      BY <1>1, <1>3, <1>4, <2>2
    <3>. HIDE DEF j
    <3>2. u[n + k - 1] = t[j]
      BY <1>1, <3>1
    <3>3. b[k] = t[j]
      BY <1>5, <3>1
    <3>. QED
      BY <1>3, <3>1, <3>2, <3>3
  <2>. QED
    BY <1>1, <1>3, <2>1, <2>2
<1>8. a = b
  BY <1>3, <1>5, <1>6, <1>7, SeqEqual
<1>. QED
  BY <1>8 DEF a, b, u

-------------------------------------------------------------------------------
(* Characters in UTF-8: the ranges that the scanner tries byte by byte are *)
(* those of the code points.                                               *)
Scalar(n, p) == LeastPoint(n) <= p /\ p < LeastPoint(n + 1) /\ p \notin High \cup Low

LEMMA ScalarIs ==
  ASSUME NEW p \in Int
  PROVE  /\ Scalar(1, p) <=> 0 <= p /\ p <= \h7F
         /\ Scalar(2, p) <=> \h80 <= p /\ p <= \h7FF
         /\ Scalar(3, p) <=> \h800 <= p /\ p <= \hFFFF /\ (p < \hD800 \/ \hDFFF < p)
         /\ Scalar(4, p) <=> \h10000 <= p /\ p <= \h10FFFF
<1>1. p \notin High \cup Low <=> p < \hD800 \/ \hDFFF < p
  BY SMT DEF High, Low
<1>2. /\ LeastPoint(1) = 0 /\ LeastPoint(1 + 1) = \h80 /\ LeastPoint(2) = \h80
      /\ LeastPoint(2 + 1) = \h800 /\ LeastPoint(3) = \h800 /\ LeastPoint(3 + 1) = \h10000
      /\ LeastPoint(4) = \h10000 /\ LeastPoint(4 + 1) = \h110000
  BY SMT DEF LeastPoint
<1>. HIDE DEF LeastPoint
<1>. QED
  BY <1>1, <1>2, SMT DEF Scalar

(* How many bytes a character takes that starts with a, and what more the  *)
(* scanner expects of the second byte.                                     *)
Width(a) == IF a < \h80 THEN 1 ELSE IF a <= \hDF THEN 2 ELSE IF a <= \hEF THEN 3 ELSE 4
Starts == (0 .. \h7F) \cup (\hC2 .. \hF4)
Second(a, b) == /\ (a = \hE0 => b >= \hA0) /\ (a = \hED => b <= \h9F)
                /\ (a = \hF0 => b >= \h90) /\ (a = \hF4 => b <= \h8F)
Follows(s, k) == s[k + 1] \in Tails /\ (k = 1 => Second(s[1], s[2]))

Point2(a, b) == 64 * (a - \hC0) + b - \h80
Point3(a, b, c) == 4096 * (a - \hE0) + 64 * (b - \h80) + c - \h80
Point4(a, b, c, d) == 262144 * (a - \hF0) + 4096 * (b - \h80) + 64 * (c - \h80) + d - \h80

LEMMA ScalarOne ==
  ASSUME NEW a \in Byte
  PROVE  /\ a \in Int
         /\ Scalar(1, a) <=> a \in Starts /\ Width(a) = 1
<1>1. Scalar(1, a) <=> a < \h80
  BY ScalarIs, SMT DEF Byte
<1>. QED
  BY <1>1, SMT DEF Byte, Starts, Width

LEMMA ScalarTwo ==
  ASSUME NEW a \in Byte, NEW b \in Tails
  PROVE  /\ Point2(a, b) \in Int
         /\ Scalar(2, Point2(a, b)) <=> a \in Starts /\ Width(a) = 2 /\ Second(a, b)
<1>. DEFINE p == 64 * (a - \hC0) + b - \h80
<1>1. p \in Int
  BY SMT DEF Byte, Tails
<1>2. Scalar(2, p) <=> \h80 <= p /\ p <= \h7FF
  BY <1>1, ScalarIs, SMT
<1>3. Scalar(2, p) <=> a \in \hC2 .. \hDF
  BY <1>2, SMT DEF Byte, Tails
<1>4. a \in \hC2 .. \hDF <=> a \in Starts /\ Width(a) = 2 /\ Second(a, b)
  BY SMT DEF Byte, Starts, Width, Second
<1>5. Point2(a, b) = p
  BY DEF Point2
<1>. HIDE DEF p
<1>. QED
  BY <1>1, <1>3, <1>4, <1>5

LEMMA ScalarThree ==
  ASSUME NEW a \in Byte, NEW b \in Tails, NEW c \in Tails
  PROVE  /\ Point3(a, b, c) \in Int
         /\ Scalar(3, Point3(a, b, c)) <=> a \in Starts /\ Width(a) = 3 /\ Second(a, b)
<1>. DEFINE p == 4096 * (a - \hE0) + 64 * (b - \h80) + c - \h80
<1>1. p \in Int
  BY SMT DEF Byte, Tails
<1>2. Scalar(3, p) <=> \h800 <= p /\ p <= \hFFFF /\ (p < \hD800 \/ \hDFFF < p)
  BY <1>1, ScalarIs, SMT
<1>3. Scalar(3, p) <=> /\ a \in \hE0 .. \hEF /\ (a = \hE0 => b >= \hA0) /\ (a = \hED => b <= \h9F)
  BY <1>2, SMT DEF Byte, Tails
<1>4. (a \in \hE0 .. \hEF /\ (a = \hE0 => b >= \hA0) /\ (a = \hED => b <= \h9F))
      <=> (a \in Starts /\ Width(a) = 3 /\ Second(a, b))
  BY SMT DEF Byte, Starts, Width, Second, Tails
<1>5. Point3(a, b, c) = p
  BY DEF Point3
<1>. HIDE DEF p
<1>. QED
  BY <1>1, <1>3, <1>4, <1>5

LEMMA ScalarFour ==
  ASSUME NEW a \in Byte, NEW b \in Tails, NEW c \in Tails, NEW d \in Tails
  PROVE  /\ Point4(a, b, c, d) \in Int
         /\ Scalar(4, Point4(a, b, c, d)) <=> a \in Starts /\ Width(a) = 4 /\ Second(a, b)
<1>. DEFINE p == 262144 * (a - \hF0) + 4096 * (b - \h80) + 64 * (c - \h80) + d - \h80
<1>1. p \in Int
  BY SMT DEF Byte, Tails
<1>2. Scalar(4, p) <=> \h10000 <= p /\ p <= \h10FFFF
  BY <1>1, ScalarIs, SMT
<1>3. Scalar(4, p) <=> /\ a \in \hF0 .. \hF4 /\ (a = \hF0 => b >= \h90) /\ (a = \hF4 => b <= \h8F)
  BY <1>2, SMT DEF Byte, Tails
<1>4. (a \in \hF0 .. \hF4 /\ (a = \hF0 => b >= \h90) /\ (a = \hF4 => b <= \h8F))
      <=> (a \in Starts /\ Width(a) = 4 /\ Second(a, b))
  BY SMT DEF Byte, Starts, Width, Second, Tails
<1>5. Point4(a, b, c, d) = p
  BY DEF Point4
<1>. HIDE DEF p
<1>. QED
  BY <1>1, <1>3, <1>4, <1>5

LEMMA PointOf ==
  ASSUME NEW s
  PROVE  /\ CodePoint(s, 1) = s[1] /\ CodePoint(s, 2) = Point2(s[1], s[2])
         /\ CodePoint(s, 3) = Point3(s[1], s[2], s[3])
         /\ CodePoint(s, 4) = Point4(s[1], s[2], s[3], s[4])
BY DEF CodePoint, Point2, Point3, Point4

OneChar(s) == s[1] \in Starts /\ Width(s[1]) <= Len(s) /\ \A k \in 1 .. Width(s[1]) - 1 : Follows(s, k)

LEMMA Utf8Is ==
  ASSUME NEW s \in Seq(Byte), NEW n \in 1 .. 4, n <= Len(s)
  PROVE  /\ Utf8(s, n) = IF s[1] \in Starts /\ n = Width(s[1]) /\ \A k \in 1 .. n - 1 : Follows(s, k)
                         THEN {<<n, CodePoint(s, n)>>} ELSE {}
         /\ Utf8(s, n) # {} => CodePoint(s, n) \in Nat
<1>1. Len(s) \in Nat /\ \A k \in 1 .. n : s[k] \in Byte
  BY LenProperties, ElementOfSeq
<1>2. Utf8(s, n) = IF (\A k \in 2 .. n : s[k] \in Tails) /\ Scalar(n, CodePoint(s, n))
                   THEN {<<n, CodePoint(s, n)>>} ELSE {}
  BY DEF Utf8, Scalar, Continuing, Tails
<1>3. SUFFICES /\ (\A k \in 2 .. n : s[k] \in Tails) /\ Scalar(n, CodePoint(s, n))
                  <=> s[1] \in Starts /\ n = Width(s[1]) /\ \A k \in 1 .. n - 1 : Follows(s, k)
               /\ (\A k \in 2 .. n : s[k] \in Tails) => CodePoint(s, n) \in Int
  <2>1. (\A k \in 2 .. n : s[k] \in Tails) /\ Scalar(n, CodePoint(s, n)) => CodePoint(s, n) \in Nat
    <3>1. n = 1 \/ n = 2 \/ n = 3 \/ n = 4
      OBVIOUS
    <3>. QED
      BY <1>3, <3>1, ScalarIs, SMT
  <2>. QED
    BY <1>2, <1>3, <2>1
<1>. HIDE DEF Starts, Width, Follows, Scalar, CodePoint
<1>4. CASE n = 1
  <2>1. CodePoint(s, n) = s[1] /\ s[1] \in Byte
    BY <1>1, <1>4, PointOf
  <2>2. Scalar(n, CodePoint(s, n)) <=> s[1] \in Starts /\ Width(s[1]) = n
    BY <1>4, <2>1, ScalarOne
  <2>3. CodePoint(s, n) \in Int
    BY <2>1, ScalarOne
  <2>. QED
    BY <1>4, <2>2, <2>3
<1>5. CASE n = 2
  <2>1. CodePoint(s, n) = Point2(s[1], s[2]) /\ s[1] \in Byte /\ s[2] \in Byte
    BY <1>1, <1>5, PointOf
  <2>2. /\ (\A k \in 2 .. n : s[k] \in Tails) <=> s[2] \in Tails
        /\ (\A k \in 1 .. n - 1 : Follows(s, k)) <=> s[2] \in Tails /\ Second(s[1], s[2])
    BY <1>5 DEF Follows
  <2>3. s[2] \in Tails => /\ CodePoint(s, n) \in Int
                          /\ Scalar(n, CodePoint(s, n)) <=> s[1] \in Starts /\ Width(s[1]) = n /\ Second(s[1], s[2])
    BY <1>5, <2>1, ScalarTwo
  <2>. QED
    BY <2>2, <2>3
<1>6. CASE n = 3
  <2>1. CodePoint(s, n) = Point3(s[1], s[2], s[3]) /\ s[1] \in Byte /\ s[2] \in Byte /\ s[3] \in Byte
    BY <1>1, <1>6, PointOf
  <2>2. /\ (\A k \in 2 .. n : s[k] \in Tails) <=> s[2] \in Tails /\ s[3] \in Tails
        /\ (\A k \in 1 .. n - 1 : Follows(s, k)) <=> s[2] \in Tails /\ s[3] \in Tails /\ Second(s[1], s[2])
    BY <1>6 DEF Follows
  <2>3. s[2] \in Tails /\ s[3] \in Tails =>
          /\ CodePoint(s, n) \in Int
          /\ Scalar(n, CodePoint(s, n)) <=> s[1] \in Starts /\ Width(s[1]) = n /\ Second(s[1], s[2])
    BY <1>6, <2>1, ScalarThree
  <2>. QED
    BY <2>2, <2>3
<1>7. CASE n = 4
  <2>1. CodePoint(s, n) = Point4(s[1], s[2], s[3], s[4])
        /\ s[1] \in Byte /\ s[2] \in Byte /\ s[3] \in Byte /\ s[4] \in Byte
    BY <1>1, <1>7, PointOf
  <2>2. /\ (\A k \in 2 .. n : s[k] \in Tails) <=> s[2] \in Tails /\ s[3] \in Tails /\ s[4] \in Tails
        /\ (\A k \in 1 .. n - 1 : Follows(s, k))
           <=> s[2] \in Tails /\ s[3] \in Tails /\ s[4] \in Tails /\ Second(s[1], s[2])
    BY <1>7 DEF Follows
  <2>3. s[2] \in Tails /\ s[3] \in Tails /\ s[4] \in Tails =>
          /\ CodePoint(s, n) \in Int
          /\ Scalar(n, CodePoint(s, n)) <=> s[1] \in Starts /\ Width(s[1]) = n /\ Second(s[1], s[2])
    BY <1>7, <2>1, ScalarFour
  <2>. QED
    BY <2>2, <2>3
<1>. QED
  BY <1>4, <1>5, <1>6, <1>7

LEMMA RawIs ==
  ASSUME NEW s \in Seq(Byte), s # <<>>
  PROVE  /\ Width(s[1]) \in 1 .. 4
         /\ Raw(s) = IF OneChar(s) THEN {<<Width(s[1]), CodePoint(s, Width(s[1]))>>} ELSE {}
         /\ OneChar(s) => CodePoint(s, Width(s[1])) \in Nat
<1>. DEFINE m == IF Len(s) < 4 THEN Len(s) ELSE 4
            w == Width(s[1])
<1>1. Len(s) \in Nat \ {0} /\ m \in 1 .. 4 /\ m <= Len(s)
  <2>1. Len(s) \in Nat \ {0}
    BY EmptySeq
  <2>2. CASE Len(s) < 4
    <3>1. m = Len(s)
      BY <2>2
    <3>. HIDE DEF m
    <3>. QED
      BY <2>1, <2>2, <3>1
  <2>3. CASE ~(Len(s) < 4)
    BY <2>1, <2>3
  <2>. QED
    BY <2>2, <2>3
<1>2. w \in 1 .. 4
  BY DEF Width
<1>3. Raw(s) = UNION {Utf8(s, n) : n \in 1 .. m}
  BY DEF Raw
<1>4. \A n \in 1 .. m : n \in 1 .. 4 /\ n <= Len(s)
  BY <1>1
<1>. HIDE DEF m, w
<1>5. CASE OneChar(s)
  <2>1. w \in 1 .. m
    BY <1>1, <1>2, <1>5 DEF OneChar, m, w
  <2>2. Utf8(s, w) = {<<w, CodePoint(s, w)>>}
    <3>1. w <= Len(s)
      BY <1>5 DEF OneChar, w
    <3>. QED
      BY <1>2, <1>5, <3>1, Utf8Is DEF OneChar, w
  <2>3. \A n \in 1 .. m : n # w => Utf8(s, n) = {}
    BY <1>4, Utf8Is DEF w
  <2>4. Raw(s) = Utf8(s, w)
    BY <1>3, <2>1, <2>3
  <2>6. CodePoint(s, w) \in Nat
    BY <1>1, <1>2, <1>5, <2>2, Utf8Is DEF OneChar, w
  <2>. QED
    BY <1>2, <1>5, <2>2, <2>4, <2>6 DEF w
<1>6. CASE ~OneChar(s)
  <2>1. ASSUME NEW n \in 1 .. m PROVE Utf8(s, n) = {}
    <3>1. ~(s[1] \in Starts /\ n = Width(s[1]) /\ \A k \in 1 .. n - 1 : Follows(s, k))
      BY <1>4, <1>6 DEF OneChar
    <3>. QED
      BY <1>4, <3>1, Utf8Is
  <2>. QED
    BY <1>2, <1>3, <1>6, <2>1 DEF w
<1>. QED
  BY <1>5, <1>6

-------------------------------------------------------------------------------
(* Escapes: the digits of the code are those of the text, and which text   *)
(* is an escape.                                                           *)
LEMMA HexIs ==
  ASSUME NEW c \in -1 .. 255
  PROVE  /\ c \in HexDigits <=> HexDigit(c) # -1
         /\ HexDigit(c) # -1 => HexValue(c) = HexDigit(c) /\ HexDigit(c) \in 0 .. 15
<1>1. ASSUME NEW n \in 0 .. 15
      PROVE  c \in HexText[n] <=> HexDigit(c) = n
  <2>1. HexText[n] = IF n < 10 THEN {Zero + n} ELSE {Lower(n - 9), Upper(n - 9)}
    BY DEF HexText
  <2>2. CASE n < 10
    <3>1. HexText[n] = {48 + n}
      BY <2>1, <2>2 DEF Zero
    <3>2. c = 48 + n <=> HexDigit(c) = n
      BY <2>2, SMT DEF HexDigit, Digit, Zero, Upper, Lower
    <3>. QED
      BY <3>1, <3>2
  <2>3. CASE ~(n < 10)
    <3>1. HexText[n] = {96 + (n - 9), 64 + (n - 9)}
      BY <2>1, <2>3 DEF Lower, Upper
    <3>2. (c = 96 + (n - 9) \/ c = 64 + (n - 9)) <=> HexDigit(c) = n
      BY <2>3, SMT DEF HexDigit, Digit, Zero, Upper, Lower
    <3>. QED
      BY <3>1, <3>2
  <2>. QED
    BY <2>2, <2>3
<1>2. HexDigit(c) \in -1 .. 15
  BY HexDigitType
<1>3. c \in HexDigits <=> \E n \in 0 .. 15 : c \in HexText[n]
  BY DEF HexDigits
<1>4. HexDigit(c) # -1 => HexDigit(c) \in 0 .. 15
  BY <1>2, SMT
<1>5. \A n \in 0 .. 15 : n # -1
  BY SMT
<1>6. c \in HexDigits <=> HexDigit(c) # -1
  BY <1>1, <1>3, <1>4, <1>5
<1>7. ASSUME HexDigit(c) # -1
      PROVE  HexValue(c) = HexDigit(c)
  <2>1. \E n \in 0 .. 15 : c \in HexText[n]
    BY <1>1, <1>4, <1>7
  <2>2. HexValue(c) \in 0 .. 15 /\ c \in HexText[HexValue(c)]
    BY <2>1 DEF HexValue
  <2>. QED
    BY <1>1, <2>2
<1>. QED
  BY <1>4, <1>6, <1>7

Hex4(s, k) == \A n \in k .. k + 3 : s[n] \in HexDigits

LEMMA HexNumber ==
  ASSUME NEW s \in Seq(Byte), NEW k \in Nat \ {0}, k + 3 <= Len(s), Hex4(s, k)
  PROVE  /\ Hex(s, k) \in Nat /\ Hex(s, k) <= \hFFFF
         /\ \A m \in k .. k + 3 : HexValue(s[m]) = HexDigit(s[m])
<1>1. Len(s) \in Nat /\ \A n \in 0 .. 3 : k + n \in 1 .. Len(s) /\ k + n \in k .. k + 3
  BY LenProperties
<1>2. \A n \in 0 .. 3 : s[k + n] \in Byte /\ s[k + n] \in HexDigits
  BY <1>1, ElementOfSeq DEF Hex4
<1>3. \A b \in Byte : b \in -1 .. 255
  BY SMT DEF Byte
<1>4. \A n \in 0 .. 3 : /\ HexDigit(s[k + n]) # -1 /\ HexValue(s[k + n]) = HexDigit(s[k + n])
                        /\ HexValue(s[k + n]) \in 0 .. 15
  <2>1. \A n \in 0 .. 3 : s[k + n] \in -1 .. 255
    BY <1>2, <1>3
  <2>. QED
    BY <1>2, <2>1, HexIs
<1>5. /\ HexValue(s[k]) \in 0 .. 15 /\ HexValue(s[k + 1]) \in 0 .. 15
      /\ HexValue(s[k + 2]) \in 0 .. 15 /\ HexValue(s[k + 3]) \in 0 .. 15
  <2>1. k + 0 = k
    OBVIOUS
  <2>. QED
    BY <1>4, <2>1
<1>6. \A a, b, c, d \in 0 .. 15 : 4096 * a + 256 * b + 16 * c + d \in Nat
                                  /\ 4096 * a + 256 * b + 16 * c + d <= \hFFFF
  BY SMT
<1>7. /\ Hex(s, k) \in Nat /\ Hex(s, k) <= \hFFFF
  <2>. DEFINE a == HexValue(s[k])
              b == HexValue(s[k + 1])
              c == HexValue(s[k + 2])
              d == HexValue(s[k + 3])
  <2>1. Hex(s, k) = 4096 * a + 256 * b + 16 * c + d
    BY DEF Hex
  <2>2. a \in 0 .. 15 /\ b \in 0 .. 15 /\ c \in 0 .. 15 /\ d \in 0 .. 15
    BY <1>5
  <2>. HIDE DEF a, b, c, d
  <2>. QED
    BY <1>6, <2>1, <2>2
<1>8. ASSUME NEW m \in k .. k + 3
      PROVE  HexValue(s[m]) = HexDigit(s[m])
  <2>1. m - k \in 0 .. 3 /\ k + (m - k) = m
    OBVIOUS
  <2>2. HexValue(s[k + (m - k)]) = HexDigit(s[k + (m - k)])
    BY <1>4, <2>1, SMTT(20)
  <2>. QED
    BY <2>1, <2>2
<1>. QED
  BY <1>7, <1>8

(* What an escape stands for: one letter, four digits, or twice four.      *)
IsEscape4(s) == Len(s) >= 6 /\ s[1] = Backslash /\ s[2] = Lower(21) /\ Hex4(s, 3)
IsShort(s) == Len(s) >= 2 /\ s[2] \in DOMAIN Escapes
Both(p, q) == \h10000 + (p - \hD800) * 1024 + q - \hDC00

LEMMA HalvesDiffer ==
  /\ \A p \in High : p \in Nat /\ p \notin Low /\ \hD800 <= p /\ p <= \hDBFF
  /\ \A p \in Low : p \in Nat /\ p \notin High /\ \hDC00 <= p /\ p <= \hDFFF
<1>1. ASSUME NEW p \in High
      PROVE  p \in Nat /\ p \notin Low /\ \hD800 <= p /\ p <= \hDBFF
  BY <1>1 DEF High, Low
<1>2. ASSUME NEW p \in Low
      PROVE  p \in Nat /\ p \notin High /\ \hDC00 <= p /\ p <= \hDFFF
  BY <1>2 DEF High, Low
<1>. QED
  BY ONLY <1>1, <1>2

LEMMA QuotedIs ==
  ASSUME NEW s \in Seq(Byte), s # <<>>, s[1] = Backslash
  PROVE  /\ IsShort(s) => Quoted(s) = {<<2, Escapes[s[2]]>>}
         /\ ~IsShort(s) /\ ~IsEscape4(s) => Quoted(s) = {}
         /\ IsEscape4(s) /\ Hex(s, 3) \notin High \cup Low => Quoted(s) = {<<6, Hex(s, 3)>>}
         /\ IsEscape4(s) /\ Hex(s, 3) \in Low => Quoted(s) = {}
         /\ IsEscape4(s) /\ Hex(s, 3) \in High =>
              Quoted(s) = IF IsEscape4(From(s, 7)) /\ Hex(From(s, 7), 3) \in Low
                          THEN {<<12, Both(Hex(s, 3), Hex(From(s, 7), 3))>>} ELSE {}
<1>. DEFINE A == {<<2, Escapes[s[n]]>> : n \in {m \in {2} \cap DOMAIN s : s[m] \in DOMAIN Escapes}}
            B == {<<6, p>> : p \in Escape4(s) \ (High \cup Low)}
            C == {<<12, \h10000 + (p - \hD800) * 1024 + q - \hDC00>> :
                    p \in Escape4(s) \cap High, q \in Escape4(From(s, 7)) \cap Low}
<1>1. Quoted(s) = A \cup B \cup C
  BY DEF Quoted
<1>2. A = IF IsShort(s) THEN {<<2, Escapes[s[2]]>>} ELSE {}
  <2>1. DOMAIN s = 1 .. Len(s) /\ Len(s) \in Nat
    BY LenProperties
  <2>2. 2 \in DOMAIN s <=> Len(s) >= 2
    BY <2>1
  <2>3. A = {<<2, Escapes[s[n]]>> : n \in {m \in {2} : m \in DOMAIN s /\ s[m] \in DOMAIN Escapes}}
    OBVIOUS
  <2>4. CASE IsShort(s)
    <3>1. {m \in {2} : m \in DOMAIN s /\ s[m] \in DOMAIN Escapes} = {2}
      BY <2>2, <2>4 DEF IsShort
    <3>. QED
      BY <2>3, <2>4, <3>1
  <2>5. CASE ~IsShort(s)
    <3>1. {m \in {2} : m \in DOMAIN s /\ s[m] \in DOMAIN Escapes} = {}
      BY <2>2, <2>5 DEF IsShort
    <3>. QED
      BY <2>3, <2>5, <3>1
  <2>. QED
    BY <2>4, <2>5
<1>3. \A t : Escape4(t) = IF IsEscape4(t) THEN {Hex(t, 3)} ELSE {}
  <2>. TAKE t
  <2>1. (\A n \in 3 .. 6 : t[n] \in HexDigits) <=> Hex4(t, 3)
    <3>1. 3 .. 6 = 3 .. 3 + 3
      OBVIOUS
    <3>. QED
      BY <3>1 DEF Hex4
  <2>. QED
    BY <2>1 DEF Escape4, IsEscape4
<1>4. IsEscape4(s) => ~IsShort(s)
  BY DEF IsEscape4, IsShort, Escapes, Lower, Quote, Backslash, Slash
<1>. HIDE DEF A, B, C
<1>5. ~IsEscape4(s) => B = {} /\ C = {}
  BY <1>3 DEF B, C
<1>6. IsEscape4(s) /\ Hex(s, 3) \notin High => C = {}
  BY <1>3 DEF C
<1>7. IsEscape4(s) /\ Hex(s, 3) \notin High \cup Low => B = {<<6, Hex(s, 3)>>}
  <2>1. IsEscape4(s) /\ Hex(s, 3) \notin High \cup Low => Escape4(s) \ (High \cup Low) = {Hex(s, 3)}
    BY <1>3
  <2>. QED
    BY <2>1 DEF B
<1>8. IsEscape4(s) /\ Hex(s, 3) \in High \cup Low => B = {}
  <2>1. IsEscape4(s) /\ Hex(s, 3) \in High \cup Low => Escape4(s) \ (High \cup Low) = {}
    BY <1>3
  <2>. QED
    BY <2>1 DEF B
<1>9. ASSUME IsEscape4(s), Hex(s, 3) \in High
      PROVE  C = IF IsEscape4(From(s, 7)) /\ Hex(From(s, 7), 3) \in Low
                 THEN {<<12, Both(Hex(s, 3), Hex(From(s, 7), 3))>>} ELSE {}
  <2>1. Escape4(s) \cap High = {Hex(s, 3)}
    BY <1>3, <1>9
  <2>2. CASE IsEscape4(From(s, 7)) /\ Hex(From(s, 7), 3) \in Low
    <3>1. Escape4(From(s, 7)) \cap Low = {Hex(From(s, 7), 3)}
      BY <1>3, <2>2
    <3>2. C = {<<12, Both(p, q)>> : p \in {Hex(s, 3)}, q \in {Hex(From(s, 7), 3)}}
      BY <2>1, <3>1 DEF C, Both
    <3>. QED
      BY <2>2, <3>2
  <2>3. CASE ~(IsEscape4(From(s, 7)) /\ Hex(From(s, 7), 3) \in Low)
    <3>1. Escape4(From(s, 7)) \cap Low = {}
      BY <1>3, <2>3
    <3>. QED
      BY <2>3, <3>1 DEF C
  <2>. QED
    BY <2>2, <2>3
<1>10. Hex(s, 3) \in Low => Hex(s, 3) \notin High
  BY HalvesDiffer
<1>. QED
  BY <1>1, <1>2, <1>4, <1>5, <1>6, <1>7, <1>8, <1>9, <1>10

-------------------------------------------------------------------------------
(* The character that a text starts with: there is one at most, and more   *)
(* text behind it does not change it.                                      *)
LEMMA EscapesNat ==
  ASSUME NEW c \in DOMAIN Escapes
  PROVE  c \in Byte /\ Escapes[c] \in Byte /\ Escapes[c] \in Nat
<1>1. c \in Byte /\ Escapes[c] \in Byte
  BY DEF Escapes, Quote, Backslash, Slash, Lower, LF, CR, HT, Byte
<1>. QED
  BY <1>1 DEF Byte

LEMMA BothNat ==
  ASSUME NEW p \in High, NEW q \in Low
  PROVE  /\ Both(p, q) \in Nat
         /\ \h10000 <= Both(p, q) /\ Both(p, q) <= \h10FFFF
         /\ p * 1024 + q - \h35FDC00 = Both(p, q)
<1>1. \A x, y \in Int : x * 1024 + y - \h35FDC00 = \h10000 + (x - \hD800) * 1024 + y - \hDC00
  BY SMT
<1>2. p \in Int /\ q \in Int
  BY SMT DEF High, Low
<1>3. p * 1024 + q - \h35FDC00 = Both(p, q)
  BY <1>1, <1>2, SMT DEF Both
<1>4. /\ Both(p, q) \in Nat
      /\ \h10000 <= Both(p, q) /\ Both(p, q) <= \h10FFFF
  BY SMT DEF Both, High, Low
<1>. QED
  BY <1>3, <1>4

LEMMA LeadingIs ==
  ASSUME NEW s \in Seq(Byte), s # <<>>, NEW q \in BOOLEAN, NEW f \in Leading(s, q)
  PROVE  Leading(s, q) = {f} /\ f[1] \in 1 .. Len(s) /\ f[2] \in Nat
<1>0. Len(s) \in Nat \ {0} /\ 1 \in 1 .. Len(s)
  BY LenProperties, EmptySeq
<1>1. ASSUME f \in Raw(s)
      PROVE  Raw(s) = {f} /\ f[1] \in 1 .. Len(s) /\ f[2] \in Nat
  <2>1. OneChar(s) /\ Raw(s) = {<<Width(s[1]), CodePoint(s, Width(s[1]))>>}
    BY <1>1, RawIs
  <2>2. f = <<Width(s[1]), CodePoint(s, Width(s[1]))>>
    BY <1>1, <2>1
  <2>3. Width(s[1]) \in 1 .. 4 /\ Width(s[1]) <= Len(s) /\ CodePoint(s, Width(s[1])) \in Nat
    BY <2>1, RawIs DEF OneChar
  <2>. HIDE DEF Width, CodePoint
  <2>. QED
    BY <1>0, <2>1, <2>2, <2>3
<1>2. CASE q = FALSE
  BY <1>1, <1>2 DEF Leading
<1>3. CASE q = TRUE /\ s[1] # Backslash
  <2>1. Leading(s, q) = Raw(s)
    BY <1>3 DEF Leading, Quoted
  <2>. QED
    BY <1>1, <2>1
<1>4. CASE q = TRUE /\ s[1] = Backslash
  <2>1. Leading(s, q) = Quoted(s)
    BY <1>4 DEF Leading
  <2>2. CASE IsShort(s)
    <3>1. Quoted(s) = {<<2, Escapes[s[2]]>>} /\ Len(s) >= 2 /\ Escapes[s[2]] \in Nat
      BY <1>4, <2>2, QuotedIs, EscapesNat DEF IsShort
    <3>. QED
      BY <1>0, <2>1, <3>1
  <2>3. CASE IsEscape4(s)
    <3>1. Hex(s, 3) \in Nat /\ Len(s) >= 6
      BY <2>3, HexNumber DEF IsEscape4
    <3>2. CASE Hex(s, 3) \notin High \cup Low
      <4>1. Quoted(s) = {<<6, Hex(s, 3)>>}
        BY <1>4, <2>3, <3>2, QuotedIs
      <4>. QED
        BY <1>0, <2>1, <3>1, <4>1
    <3>3. CASE Hex(s, 3) \in High
      <4>. DEFINE z == From(s, 7)
      <4>1. z \in Seq(Byte) /\ Len(z) = Len(s) - 6
        BY <1>0, <3>1, FromPart
      <4>2. Quoted(s) = IF IsEscape4(z) /\ Hex(z, 3) \in Low THEN {<<12, Both(Hex(s, 3), Hex(z, 3))>>} ELSE {}
        BY <1>4, <2>3, <3>3, QuotedIs
      <4>. HIDE DEF z
      <4>3. IsEscape4(z) /\ Hex(z, 3) \in Low /\ Quoted(s) = {<<12, Both(Hex(s, 3), Hex(z, 3))>>}
        BY <2>1, <4>2
      <4>4. Both(Hex(s, 3), Hex(z, 3)) \in Nat /\ Len(z) >= 6
        <5>. HIDE DEF Both, Hex
        <5>. QED
          BY <3>3, <4>3, BothNat, SMT DEF IsEscape4
      <4>. HIDE DEF Both, Hex
      <4>. QED
        BY <1>0, <2>1, <4>1, <4>3, <4>4
    <3>. QED
      BY <1>4, <2>1, <2>3, <3>2, <3>3, QuotedIs
  <2>. QED
    BY <1>4, <2>1, <2>2, <2>3, QuotedIs
<1>. QED
  BY <1>2, <1>3, <1>4

LEMMA Escape4Joined ==
  ASSUME NEW s \in Seq(Byte), NEW z \in Seq(Byte), IsEscape4(s)
  PROVE  IsEscape4(s \o z) /\ Hex(s \o z, 3) = Hex(s, 3)
<1>1. /\ Len(s \o z) = Len(s) + Len(z) /\ Len(s) \in Nat /\ Len(z) \in Nat /\ Len(s) >= 6
      /\ \A k \in 1 .. Len(s) : (s \o z)[k] = s[k]
  BY Joined DEF IsEscape4
<1>2. \A k \in 1 .. 6 : (s \o z)[k] = s[k]
  BY <1>1
<1>. QED
  BY <1>1, <1>2 DEF IsEscape4, Hex, Hex4

LEMMA RawJoined ==
  ASSUME NEW s \in Seq(Byte), s # <<>>, NEW z \in Seq(Byte), Raw(s) # {}
  PROVE  Raw(s \o z) = Raw(s)
<1>. DEFINE t == s \o z
<1>1. /\ t \in Seq(Byte) /\ Len(t) = Len(s) + Len(z) /\ Len(s) \in Nat /\ Len(z) \in Nat
      /\ \A k \in 1 .. Len(s) : t[k] = s[k]
  BY Joined
<1>2. Len(s) >= 1 /\ Len(t) >= 1 /\ t # <<>>
  BY <1>1, EmptySeq
<1>. HIDE DEF t
<1>3. OneChar(s) /\ Width(s[1]) \in 1 .. 4 /\ Raw(s) = {<<Width(s[1]), CodePoint(s, Width(s[1]))>>}
  BY <1>2, RawIs
<1>4. t[1] = s[1] /\ Width(s[1]) <= Len(s)
  BY <1>1, <1>2, <1>3 DEF OneChar
<1>5. \A k \in 1 .. Width(s[1]) : t[k] = s[k]
  BY <1>1, <1>3, <1>4
<1>6. \A k \in 1 .. Width(s[1]) - 1 : Follows(t, k)
  <2>. TAKE k \in 1 .. Width(s[1]) - 1
  <2>1. k \in 1 .. Width(s[1]) /\ k + 1 \in 1 .. Width(s[1]) /\ Follows(s, k)
    BY <1>3 DEF OneChar
  <2>2. t[k + 1] = s[k + 1] /\ (k = 1 => t[2] = s[2])
    BY <1>5, <2>1
  <2>. QED
    BY <1>4, <2>1, <2>2 DEF Follows
<1>. DEFINE w == Width(s[1])
<1>7. OneChar(t) /\ w \in 1 .. 4 /\ \A k \in 1 .. w : t[k] = s[k]
  BY <1>1, <1>3, <1>4, <1>5, <1>6 DEF OneChar
<1>8. Raw(s) = {<<w, CodePoint(s, w)>>} /\ Raw(t) = {<<w, CodePoint(t, w)>>}
  BY <1>1, <1>2, <1>3, <1>4, <1>7, RawIs
<1>. HIDE DEF w
<1>9. CodePoint(t, w) = CodePoint(s, w)
  <2>1. w = 1 \/ w = 2 \/ w = 3 \/ w = 4
    BY <1>7
  <2>. QED
    BY <1>7, <2>1, PointOf
<1>. QED
  BY <1>8, <1>9 DEF t

LEMMA LeadingJoined ==
  ASSUME NEW s \in Seq(Byte), s # <<>>, NEW z \in Seq(Byte), NEW q \in BOOLEAN, Leading(s, q) # {}
  PROVE  Leading(s \o z, q) = Leading(s, q)
<1>. DEFINE t == s \o z
<1>1. /\ t \in Seq(Byte) /\ Len(t) = Len(s) + Len(z) /\ Len(s) \in Nat /\ Len(z) \in Nat
      /\ \A k \in 1 .. Len(s) : t[k] = s[k]
  BY Joined
<1>2. Len(s) >= 1 /\ Len(t) >= 1 /\ t # <<>>
  BY <1>1, EmptySeq
<1>3. t[1] = s[1] /\ (Len(s) >= 2 => t[2] = s[2] /\ Len(t) >= 2)
  BY <1>1, <1>2
<1>4. Raw(s) # {} => Raw(t) = Raw(s)
  BY <1>2, RawJoined
<1>5. IsEscape4(s) => IsEscape4(t) /\ Hex(t, 3) = Hex(s, 3)
  BY Escape4Joined
<1>6. IsShort(s) => IsShort(t)
  BY <1>3 DEF IsShort
<1>7. IsEscape4(s) => From(s, 7) \in Seq(Byte) /\ From(t, 7) = From(s, 7) \o z
  BY <1>1, FromPart, FromJoined, SMTT(20) DEF IsEscape4
<1>. HIDE DEF t
<1>8. CASE q = FALSE
  BY <1>4, <1>8 DEF Leading, t
<1>9. CASE q = TRUE /\ s[1] # Backslash
  <2>1. Leading(s, q) = Quoted(s) /\ Leading(t, q) = Quoted(t)
    BY <1>9 DEF Leading
  <2>. QED
    BY <1>3, <1>4, <1>9, <2>1 DEF Quoted, t
<1>10. CASE q = TRUE /\ s[1] = Backslash
  <2>1. Leading(s, q) = Quoted(s) /\ Leading(t, q) = Quoted(t) /\ t[1] = Backslash
    BY <1>3, <1>10 DEF Leading
  <2>2. CASE IsShort(s)
    <3>1. Quoted(s) = {<<2, Escapes[s[2]]>>}
      BY <1>2, <1>10, <2>2, QuotedIs
    <3>2. Quoted(t) = {<<2, Escapes[t[2]]>>}
      BY <1>1, <1>2, <1>6, <2>1, <2>2, QuotedIs
    <3>. QED
      BY <1>3, <2>1, <2>2, <3>1, <3>2 DEF t, IsShort
  <2>3. CASE IsEscape4(s) /\ Hex(s, 3) \notin High \cup Low
    <3>1. Quoted(s) = {<<6, Hex(s, 3)>>}
      BY <1>2, <1>10, <2>3, QuotedIs
    <3>2. Quoted(t) = {<<6, Hex(t, 3)>>}
      BY <1>1, <1>2, <1>5, <2>1, <2>3, QuotedIs
    <3>. QED
      BY <1>5, <2>1, <2>3, <3>1, <3>2 DEF t
  <2>4. CASE IsEscape4(s) /\ Hex(s, 3) \in High
    <3>. DEFINE u == From(s, 7)
                v == From(t, 7)
    <3>1. Quoted(s) = IF IsEscape4(u) /\ Hex(u, 3) \in Low THEN {<<12, Both(Hex(s, 3), Hex(u, 3))>>} ELSE {}
      BY <1>2, <1>10, <2>4, QuotedIs
    <3>2. Quoted(t) = IF IsEscape4(v) /\ Hex(v, 3) \in Low THEN {<<12, Both(Hex(t, 3), Hex(v, 3))>>} ELSE {}
      BY <1>1, <1>2, <1>5, <2>1, <2>4, QuotedIs
    <3>3. u \in Seq(Byte) /\ v = u \o z
      BY <1>7, <2>4
    <3>. HIDE DEF u, v
    <3>4. IsEscape4(u)
      BY <2>1, <3>1
    <3>5. IsEscape4(v) /\ Hex(v, 3) = Hex(u, 3)
      BY <3>3, <3>4, Escape4Joined
    <3>. QED
      BY <1>5, <2>1, <2>4, <3>1, <3>2, <3>5 DEF t
  <2>5. IsShort(s) \/ IsEscape4(s)
    BY <1>2, <1>10, <2>1, QuotedIs
  <2>6. ~(IsEscape4(s) /\ Hex(s, 3) \in Low)
    BY <1>2, <1>10, <2>1, QuotedIs
  <2>. QED
    BY <2>2, <2>3, <2>4, <2>5, <2>6
<1>. QED
  BY <1>8, <1>9, <1>10

-------------------------------------------------------------------------------
(* The recursion of Decoded has a solution, one only, and so unfolds.      *)
Rest(s, q, g, n) ==
  IF n > Len(s) THEN <<>>
  ELSE IF Leading(From(s, n), q) = {} THEN Bad
  ELSE LET f == CHOOSE f \in Leading(From(s, n), q) : TRUE
       IN  <<f[2]>> \o g[n + f[1]]
Solves(g, s, q) == g = [n \in 1 .. Len(s) + 1 |-> Rest(s, q, g, n)]

LEMMA RestIs ==
  ASSUME NEW s \in Seq(Byte), NEW q \in BOOLEAN, NEW g, NEW n \in 1 .. Len(s) + 1
  PROVE  /\ n = Len(s) + 1 => Rest(s, q, g, n) = <<>>
         /\ n <= Len(s) /\ Leading(From(s, n), q) = {} => Rest(s, q, g, n) = Bad
         /\ n <= Len(s) => \A f \in Leading(From(s, n), q) :
              /\ Rest(s, q, g, n) = <<f[2]>> \o g[n + f[1]]
              /\ f[1] \in 1 .. Len(s) + 1 - n /\ n + f[1] \in n + 1 .. Len(s) + 1 /\ f[2] \in Nat
<1>1. Len(s) \in Nat /\ n \in Nat
  BY LenProperties
<1>2. ASSUME n <= Len(s), NEW f \in Leading(From(s, n), q)
      PROVE  /\ Rest(s, q, g, n) = <<f[2]>> \o g[n + f[1]]
             /\ f[1] \in 1 .. Len(s) + 1 - n /\ n + f[1] \in n + 1 .. Len(s) + 1 /\ f[2] \in Nat
  <2>. DEFINE z == From(s, n)
  <2>1. z \in Seq(Byte) /\ Len(z) = Len(s) - n + 1 /\ z # <<>>
    BY <1>1, <1>2, FromPart
  <2>. HIDE DEF z
  <2>2. f \in Leading(z, q)
    BY <1>2 DEF z
  <2>3. Leading(z, q) = {f} /\ f[1] \in 1 .. Len(z) /\ f[2] \in Nat
    BY <2>1, <2>2, LeadingIs
  <2>4. (CHOOSE x \in Leading(z, q) : TRUE) = f
    BY <2>3
  <2>5. Rest(s, q, g, n) = LET x == CHOOSE x \in Leading(z, q) : TRUE IN  <<x[2]>> \o g[n + x[1]]
    BY <1>1, <1>2, <2>2 DEF Rest, z
  <2>. QED
    BY <1>1, <1>2, <2>1, <2>3, <2>4, <2>5, SMTT(20)
<1>3. n = Len(s) + 1 => Rest(s, q, g, n) = <<>>
  BY <1>1 DEF Rest
<1>4. n <= Len(s) /\ Leading(From(s, n), q) = {} => Rest(s, q, g, n) = Bad
  BY <1>1 DEF Rest
<1>. QED
  BY <1>2, <1>3, <1>4

Agrees(h, g, d, k, m) == \A i \in k + 1 .. m : h[i] = g[d + i - 1]

LEMMA RestSame ==
  ASSUME NEW s \in Seq(Byte), NEW q \in BOOLEAN, NEW d \in 1 .. Len(s) + 1,
         NEW k \in 1 .. Len(s) - d + 2, NEW g, NEW h,
         Agrees(h, g, d, k, Len(s) - d + 2)
  PROVE  Rest(From(s, d), q, h, k) = Rest(s, q, g, d + k - 1)
<1>. DEFINE z == From(s, d)
            n == d + k - 1
<1>1. z \in Seq(Byte) /\ Len(s) \in Nat /\ Len(z) = Len(s) - d + 1
  BY FromPart
<1>2. k \in 1 .. Len(z) + 1 /\ n \in 1 .. Len(s) + 1 /\ From(z, k) = From(s, n)
      /\ (k = Len(z) + 1 <=> n = Len(s) + 1)
  BY <1>1, FromFrom
<1>3. CASE k = Len(z) + 1
  <2>. HIDE DEF z, n
  <2>. QED
    BY <1>1, <1>2, <1>3, RestIs DEF z, n
<1>4. CASE k # Len(z) + 1
  <2>1. k <= Len(z) /\ n <= Len(s)
    BY <1>1, <1>2, <1>4
  <2>. HIDE DEF z, n
  <2>2. CASE Leading(From(z, k), q) = {}
    BY <1>1, <1>2, <2>1, <2>2, RestIs DEF z, n
  <2>3. CASE Leading(From(z, k), q) # {}
    <3>1. PICK f : f \in Leading(From(z, k), q)
      BY <2>3
    <3>2. /\ Rest(z, q, h, k) = <<f[2]>> \o h[k + f[1]]
          /\ f[1] \in 1 .. Len(z) + 1 - k /\ k + f[1] \in k + 1 .. Len(z) + 1
      BY <1>1, <1>2, <2>1, <3>1, RestIs
    <3>0. f \in Leading(From(s, n), q)
      BY <1>2, <3>1
    <3>3. Rest(s, q, g, n) = <<f[2]>> \o g[n + f[1]]
      BY <1>1, <1>2, <2>1, <3>0, RestIs
    <3>4. h[k + f[1]] = g[n + f[1]]
      <4>. DEFINE m == f[1]
      <4>1. m \in Nat /\ k + m \in k + 1 .. Len(s) - d + 2
        BY <1>1, <3>2
      <4>. HIDE DEF m
      <4>2. d + (k + m) - 1 = n + m
        BY <1>1, <4>1 DEF n
      <4>3. h[k + m] = g[d + (k + m) - 1]
        BY <4>1 DEF Agrees
      <4>. QED
        BY <4>2, <4>3 DEF m
    <3>. QED
      BY <3>2, <3>3, <3>4 DEF z, n
  <2>. QED
    BY <2>2, <2>3
<1>. QED
  BY <1>3, <1>4

LEMMA Solvable ==
  ASSUME NEW s \in Seq(Byte), NEW q \in BOOLEAN
  PROVE  \E g : Solves(g, s, q)
<1>. DEFINE N == Len(s) + 1
            T == {m \in 0 .. Len(s) : \E g : g = [n \in N - m .. N |-> Rest(s, q, g, n)]}
<1>1. Len(s) \in Nat /\ N \in Nat \ {0}
  BY LenProperties
<1>2. 0 \in T
  <2>. DEFINE g == [n \in N .. N |-> Rest(s, q, <<>>, n)]
  <2>1. Rest(s, q, <<>>, N) = <<>> /\ Rest(s, q, g, N) = <<>>
    BY <1>1, RestIs
  <2>2. g = [n \in N .. N |-> g[n]] /\ g[N] = <<>>
    BY <1>1, <2>1
  <2>. HIDE DEF g
  <2>3. \A n \in N .. N : g[n] = Rest(s, q, g, n)
    BY <1>1, <2>1, <2>2
  <2>4. g = [n \in N .. N |-> Rest(s, q, g, n)]
    BY <2>2, <2>3
  <2>. QED
    BY <1>1, <2>4
<1>3. ASSUME NEW m \in 0 .. Len(s) - 1, m \in T
      PROVE  m + 1 \in T
  <2>1. PICK g : g = [n \in N - m .. N |-> Rest(s, q, g, n)]
    BY <1>3
  <2>. DEFINE k == N - m - 1
              h == [n \in k .. N |-> IF n = k THEN Rest(s, q, g, k) ELSE g[n]]
  <2>2. k \in 1 .. N /\ N - (m + 1) = k /\ N - m = k + 1 /\ m + 1 \in 0 .. Len(s)
    BY <1>1, <1>3
  <2>3. /\ h = [n \in k .. N |-> h[n]] /\ h[k] = Rest(s, q, g, k)
        /\ \A n \in k + 1 .. N : h[n] = g[n]
    BY <1>1, <2>2
  <2>4. \A n \in k + 1 .. N : g[n] = Rest(s, q, g, n)
    BY <2>1, <2>2
  <2>. HIDE DEF h, k, T
  <2>5. ASSUME NEW n \in k .. N
        PROVE  h[n] = Rest(s, q, h, n)
    <3>1. n \in 1 .. N /\ Len(s) - 1 + 2 = N /\ From(s, 1) = s /\ 1 + n - 1 = n
          /\ \A i \in n + 1 .. N : i \in k + 1 .. N /\ 1 + i - 1 = i
      BY <1>1, <2>2 DEF From
    <3>2. Rest(s, q, h, n) = Rest(s, q, g, n)
      <4>1. Agrees(h, g, 1, n, Len(s) - 1 + 2)
        BY <1>1, <2>3, <3>1 DEF Agrees
      <4>2. 1 \in 1 .. Len(s) + 1 /\ n \in 1 .. Len(s) - 1 + 2
        BY <1>1, <3>1
      <4>. HIDE DEF N
      <4>3. Rest(From(s, 1), q, h, n) = Rest(s, q, g, 1 + n - 1)
        BY <4>1, <4>2, RestSame
      <4>. QED
        BY <3>1, <4>3
    <3>3. CASE n = k
      BY <2>3, <3>2, <3>3
    <3>4. CASE n # k
      <4>1. n \in k + 1 .. N
        BY <1>1, <2>2, <2>5, <3>4
      <4>. QED
        BY <2>3, <2>4, <3>2, <4>1
    <3>. QED
      BY <3>3, <3>4
  <2>6. h = [n \in k .. N |-> Rest(s, q, h, n)]
    BY <2>3, <2>5
  <2>. QED
    BY <2>2, <2>6 DEF T
<1>4. Len(s) \in T
  <2>. HIDE DEF T
  <2>1. \A m \in 0 .. Len(s) : m \in T
    BY <1>1, <1>2, <1>3, UpTo
  <2>. QED
    BY <1>1, <2>1
<1>5. PICK g : g = [n \in N - Len(s) .. N |-> Rest(s, q, g, n)]
  BY <1>4
<1>. QED
  <2>1. N - Len(s) = 1
    BY <1>1
  <2>. QED
    BY <1>5, <2>1 DEF Solves

(* The sequence of a text is that of its first character and of what       *)
(* comes after it.                                                         *)
LEMMA Solved ==
  ASSUME NEW s \in Seq(Byte), NEW q \in BOOLEAN, NEW d \in 1 .. Len(s) + 1,
         NEW g, Solves(g, s, q), NEW h, Solves(h, From(s, d), q)
  PROVE  h[1] = g[d]
<1>. DEFINE z == From(s, d)
            N == Len(s) - d + 2
            T == {m \in 0 .. N - 1 : \A k \in N - m .. N : h[k] = g[d + k - 1]}
<1>1. z \in Seq(Byte) /\ Len(s) \in Nat /\ Len(z) + 1 = N /\ N \in Nat \ {0} /\ d \in Nat
  <2>1. z \in Seq(Byte) /\ Len(s) \in Nat /\ Len(z) = Len(s) - d + 1
    BY FromPart
  <2>. HIDE DEF z
  <2>. QED
    BY <2>1
<1>2. ASSUME NEW k \in 1 .. N, \A i \in k + 1 .. N : h[i] = g[d + i - 1]
      PROVE  h[k] = g[d + k - 1]
  <2>1. k \in 1 .. Len(s) - d + 2 /\ d + k - 1 \in 1 .. Len(s) + 1 /\ k \in 1 .. Len(z) + 1
    BY <1>1
  <2>2. h[k] = Rest(z, q, h, k)
    BY <2>1 DEF Solves
  <2>3. g[d + k - 1] = Rest(s, q, g, d + k - 1)
    <3>. DEFINE n == d + k - 1
    <3>1. n \in 1 .. Len(s) + 1
      BY <2>1
    <3>. HIDE DEF n
    <3>2. g[n] = Rest(s, q, g, n)
      BY <3>1 DEF Solves
    <3>. QED
      BY <3>2 DEF n
  <2>4. Rest(From(s, d), q, h, k) = Rest(s, q, g, d + k - 1)
    <3>1. Agrees(h, g, d, k, Len(s) - d + 2)
      BY <1>2 DEF Agrees
    <3>. QED
      BY <2>1, <3>1, RestSame
  <2>. QED
    BY <2>2, <2>3, <2>4
<1>3. 0 \in T
  <2>1. N \in 1 .. N /\ \A i \in N + 1 .. N : FALSE
    BY <1>1
  <2>2. h[N] = g[d + N - 1]
    <3>. HIDE DEF N
    <3>. QED
      BY <1>2, <2>1
  <2>. QED
    BY <1>1, <2>2
<1>4. ASSUME NEW m \in 0 .. N - 2, m \in T
      PROVE  m + 1 \in T
  <2>1. N - (m + 1) \in 1 .. N /\ N - (m + 1) + 1 = N - m /\ m + 1 \in 0 .. N - 1
    BY <1>1
  <2>. DEFINE k == N - (m + 1)
  <2>2. \A i \in k + 1 .. N : h[i] = g[d + i - 1]
    BY <1>4, <2>1
  <2>3. k \in 1 .. N /\ N - m = k + 1
    BY <2>1
  <2>. HIDE DEF k, N
  <2>4. h[k] = g[d + k - 1]
    BY <1>2, <2>2, <2>3
  <2>5. \A i \in k .. N : i = k \/ i \in k + 1 .. N
    BY <1>1, <2>3
  <2>6. \A i \in k .. N : h[i] = g[d + i - 1]
    BY <2>2, <2>4, <2>5
  <2>. QED
    BY <2>1, <2>6 DEF T, k
<1>5. \A m \in 0 .. N - 1 : m \in T
  <2>. HIDE DEF T
  <2>1. N - 1 \in Nat /\ (N - 1) - 1 = N - 2
    BY <1>1
  <2>. HIDE DEF N
  <2>. QED
    BY <1>3, <1>4, <2>1, UpTo
<1>6. N - 1 \in T
  <2>. HIDE DEF T
  <2>. QED
    BY <1>1, <1>5
<1>7. 1 \in N - (N - 1) .. N /\ d + 1 - 1 = d
  BY <1>1
<1>. HIDE DEF N
<1>8. h[1] = g[d + 1 - 1]
  BY <1>6, <1>7
<1>. QED
  BY <1>7, <1>8

LEMMA DecodedOf ==
  ASSUME NEW s \in Seq(Byte), NEW q \in BOOLEAN
  PROVE  \E g : Solves(g, s, q) /\ Decoded(s, q) = g[1]
<1>1. Decoded(s, q) = (CHOOSE g : g = [n \in 1 .. Len(s) + 1 |-> Rest(s, q, g, n)])[1]
  BY DEF Decoded, Rest
<1>2. Decoded(s, q) = (CHOOSE g : Solves(g, s, q))[1]
  BY <1>1 DEF Solves
<1>3. Solves(CHOOSE g : Solves(g, s, q), s, q)
  BY Solvable, Zenon
<1>. QED
  BY <1>2, <1>3, Zenon

LEMMA DecodedStep ==
  ASSUME NEW s \in Seq(Byte), NEW q \in BOOLEAN
  PROVE  /\ s = <<>> => Decoded(s, q) = <<>>
         /\ s # <<>> /\ Leading(s, q) = {} => Decoded(s, q) = Bad
         /\ s # <<>> => \A f \in Leading(s, q) :
              Decoded(s, q) = <<f[2]>> \o Decoded(From(s, 1 + f[1]), q)
<1>1. Len(s) \in Nat /\ From(s, 1) = s /\ 1 \in 1 .. Len(s) + 1 /\ (s = <<>> <=> Len(s) = 0)
  BY LenProperties, EmptySeq DEF From
<1>2. PICK g : Solves(g, s, q) /\ Decoded(s, q) = g[1]
  BY DecodedOf
<1>3. Decoded(s, q) = Rest(s, q, g, 1)
  BY <1>1, <1>2 DEF Solves
<1>4. s = <<>> => Decoded(s, q) = <<>>
  <2>1. s = <<>> => 1 = Len(s) + 1
    BY <1>1
  <2>2. 1 = Len(s) + 1 => Rest(s, q, g, 1) = <<>>
    BY <1>1, RestIs
  <2>. QED
    BY <1>3, <2>1, <2>2
<1>5. s # <<>> /\ Leading(s, q) = {} => Decoded(s, q) = Bad
  BY <1>1, <1>3, RestIs
<1>6. ASSUME s # <<>>, NEW f \in Leading(s, q)
      PROVE  Decoded(s, q) = <<f[2]>> \o Decoded(From(s, 1 + f[1]), q)
  <2>. DEFINE d == 1 + f[1]
  <2>1. 1 <= Len(s) /\ f \in Leading(From(s, 1), q)
    BY <1>1, <1>6
  <2>2. Rest(s, q, g, 1) = <<f[2]>> \o g[d] /\ d \in 1 + 1 .. Len(s) + 1
    BY <1>1, <2>1, RestIs
  <2>. HIDE DEF d
  <2>3. d \in 1 .. Len(s) + 1 /\ From(s, d) \in Seq(Byte)
    BY <1>1, <2>2, FromPart
  <2>4. PICK h : Solves(h, From(s, d), q) /\ Decoded(From(s, d), q) = h[1]
    BY <2>3, DecodedOf
  <2>5. h[1] = g[d]
    BY <1>2, <2>3, <2>4, Solved
  <2>. QED
    BY <1>3, <2>2, <2>4, <2>5 DEF d
<1>. QED
  BY <1>4, <1>5, <1>6

-------------------------------------------------------------------------------
(* A text whose characters are all good can be decoded part by part, and a *)
(* text with a bad one stays bad.                                          *)
LEMMA InJoined ==
  ASSUME NEW a \in Seq(Int), NEW b \in Seq(Int)
  PROVE  /\ a \o b \in Seq(Int)
         /\ In(a \o b, Nat) <=> In(a, Nat) /\ In(b, Nat)
<1>1. /\ a \o b \in Seq(Int) /\ Len(a \o b) = Len(a) + Len(b)
      /\ \A i \in 1 .. Len(a) + Len(b) : (a \o b)[i] = IF i <= Len(a) THEN a[i] ELSE b[i - Len(a)]
  BY ConcatProperties
<1>2. /\ Len(a) \in Nat /\ Len(b) \in Nat /\ DOMAIN a = 1 .. Len(a) /\ DOMAIN b = 1 .. Len(b)
      /\ DOMAIN (a \o b) = 1 .. Len(a) + Len(b)
  BY <1>1, LenProperties
<1>. DEFINE c == a \o b
<1>3. \A k \in 1 .. Len(a) : k \in 1 .. Len(a) + Len(b) /\ c[k] = a[k]
  BY <1>1, <1>2
<1>4. \A k \in 1 .. Len(b) : Len(a) + k \in 1 .. Len(a) + Len(b) /\ c[Len(a) + k] = b[k]
  <2>. TAKE k \in 1 .. Len(b)
  <2>1. Len(a) + k \in 1 .. Len(a) + Len(b) /\ ~(Len(a) + k <= Len(a)) /\ (Len(a) + k) - Len(a) = k
    BY <1>2
  <2>. QED
    BY <1>1, <2>1
<1>5. \A i \in 1 .. Len(a) + Len(b) : i \in 1 .. Len(a) \/ \E k \in 1 .. Len(b) : i = Len(a) + k
  <2>. TAKE i \in 1 .. Len(a) + Len(b)
  <2>1. i \notin 1 .. Len(a) => i - Len(a) \in 1 .. Len(b) /\ i = Len(a) + (i - Len(a))
    BY <1>2
  <2>. QED
    BY <2>1
<1>6. c \in Seq(Int) /\ DOMAIN c = 1 .. Len(a) + Len(b)
  BY <1>1, <1>2
<1>. HIDE DEF c
<1>7. In(c, Nat) => In(a, Nat) /\ In(b, Nat)
  <2>. SUFFICES ASSUME In(c, Nat) PROVE In(a, Nat) /\ In(b, Nat)
    OBVIOUS
  <2>1. \A i \in 1 .. Len(a) + Len(b) : c[i] \in Nat
    BY <1>6 DEF In
  <2>2. In(a, Nat)
    BY <1>2, <1>3, <2>1 DEF In
  <2>3. In(b, Nat)
    BY <1>2, <1>4, <2>1 DEF In
  <2>. QED
    BY <2>2, <2>3
<1>8. In(a, Nat) /\ In(b, Nat) => In(c, Nat)
  <2>. SUFFICES ASSUME In(a, Nat), In(b, Nat), NEW i \in 1 .. Len(a) + Len(b)
                PROVE  c[i] \in Nat
    BY <1>6 DEF In
  <2>1. CASE i \in 1 .. Len(a)
    BY <1>2, <1>3, <2>1 DEF In
  <2>2. CASE \E k \in 1 .. Len(b) : i = Len(a) + k
    BY <1>2, <1>4, <2>2 DEF In
  <2>. QED
    BY <1>5, <2>1, <2>2
<1>. QED
  BY <1>6, <1>7, <1>8 DEF c

LEMMA InBad == ~In(Bad, Nat) /\ Bad \in Seq(Int) /\ \A p \in Nat : In(<<p>>, Nat) /\ <<p>> \in Seq(Int)
BY DEF In, Bad

LEMMA DecodedType ==
  ASSUME NEW s \in Seq(Byte), NEW q \in BOOLEAN
  PROVE  Decoded(s, q) \in Seq(Int)
<1>. DEFINE T == {n \in Nat : \A t \in Seq(Byte) : Len(t) <= n => Decoded(t, q) \in Seq(Int)}
<1>1. 0 \in T
  <2>. SUFFICES ASSUME NEW t \in Seq(Byte), Len(t) <= 0 PROVE Decoded(t, q) \in Seq(Int)
    OBVIOUS
  <2>1. t = <<>>
    BY EmptySeq, LenProperties
  <2>2. Decoded(t, q) = <<>>
    BY <2>1, DecodedStep
  <2>. QED
    BY <2>2
<1>2. ASSUME NEW n \in Nat, n \in T
      PROVE  n + 1 \in T
  <2>. SUFFICES ASSUME NEW t \in Seq(Byte), Len(t) <= n + 1 PROVE Decoded(t, q) \in Seq(Int)
    OBVIOUS
  <2>1. CASE t = <<>>
    <3>1. Decoded(t, q) = <<>>
      BY <2>1, DecodedStep
    <3>. QED
      BY <3>1
  <2>2. CASE t # <<>> /\ Leading(t, q) = {}
    BY <2>2, DecodedStep, InBad
  <2>3. CASE t # <<>> /\ Leading(t, q) # {}
    <3>1. PICK f : f \in Leading(t, q)
      BY <2>3
    <3>2. f[1] \in 1 .. Len(t) /\ f[2] \in Nat /\ Len(t) \in Nat
      BY <2>3, <3>1, LeadingIs, LenProperties
    <3>. DEFINE z == From(t, 1 + f[1])
    <3>3. z \in Seq(Byte) /\ Len(z) <= n
      <4>1. 1 + f[1] \in 1 .. Len(t) + 1
        BY <3>2
      <4>2. z \in Seq(Byte) /\ Len(z) = Len(t) - (1 + f[1]) + 1
        BY <4>1, FromPart
      <4>. HIDE DEF z
      <4>. QED
        BY <3>2, <4>2
    <3>4. Decoded(z, q) \in Seq(Int)
      <4>. HIDE DEF z
      <4>. QED
        BY <1>2, <3>3
    <3>5. Decoded(t, q) = <<f[2]>> \o Decoded(z, q)
      BY <2>3, <3>1, DecodedStep
    <3>. HIDE DEF z
    <3>. QED
      BY <3>2, <3>4, <3>5, InBad, InJoined
  <2>. QED
    BY <2>1, <2>2, <2>3
<1>3. Len(s) \in Nat
  BY LenProperties
<1>4. Len(s) \in T
  <2>. HIDE DEF T
  <2>1. \A n \in 0 .. Len(s) - 1 : n \in T => n + 1 \in T
    BY <1>2, <1>3
  <2>2. \A n \in 0 .. Len(s) : n \in T
    BY <1>1, <1>3, <2>1, UpTo
  <2>. QED
    BY <1>3, <2>2
<1>. QED
  BY <1>3, <1>4

LEMMA DecodedJoined ==
  ASSUME NEW s \in Seq(Byte), NEW z \in Seq(Byte), NEW q \in BOOLEAN, In(Decoded(s, q), Nat)
  PROVE  Decoded(s \o z, q) = Decoded(s, q) \o Decoded(z, q)
<1>. DEFINE T == {n \in Nat : \A t \in Seq(Byte) : Len(t) <= n /\ In(Decoded(t, q), Nat) =>
                                Decoded(t \o z, q) = Decoded(t, q) \o Decoded(z, q)}
<1>1. ASSUME NEW t \in Seq(Byte), t = <<>>
      PROVE  Decoded(t \o z, q) = Decoded(t, q) \o Decoded(z, q)
  <2>1. Decoded(t, q) = <<>> /\ t \o z = z /\ Decoded(z, q) \in Seq(Int)
    BY <1>1, DecodedStep, DecodedType, ConcatEmptySeq
  <2>2. <<>> \o Decoded(z, q) = Decoded(z, q)
    BY <2>1, ConcatEmptySeq
  <2>. QED
    BY <2>1, <2>2
<1>2. 0 \in T
  <2>1. \A t \in Seq(Byte) : Len(t) <= 0 => t = <<>>
    BY EmptySeq, LenProperties
  <2>. QED
    BY <1>1, <2>1
<1>3. ASSUME NEW n \in Nat, n \in T
      PROVE  n + 1 \in T
  <2>. SUFFICES ASSUME NEW t \in Seq(Byte), Len(t) <= n + 1, In(Decoded(t, q), Nat)
                PROVE  Decoded(t \o z, q) = Decoded(t, q) \o Decoded(z, q)
    OBVIOUS
  <2>. SUFFICES ASSUME t # <<>>
                PROVE  Decoded(t \o z, q) = Decoded(t, q) \o Decoded(z, q)
    BY <1>1
  <2>1. Leading(t, q) # {}
    BY DecodedStep, InBad
  <2>2. PICK f : f \in Leading(t, q)
    BY <2>1
  <2>3. f[1] \in 1 .. Len(t) /\ f[2] \in Nat /\ Len(t) \in Nat
    BY <2>2, LeadingIs, LenProperties
  <2>. DEFINE d == 1 + f[1]
              r == From(t, d)
              v == t \o z
  <2>4. d \in 1 .. Len(t) + 1
    BY <2>3
  <2>5. r \in Seq(Byte) /\ Len(r) <= n
    <3>1. r \in Seq(Byte) /\ Len(r) = Len(t) - d + 1
      BY <2>4, FromPart
    <3>. HIDE DEF r
    <3>. QED
      BY <2>3, <3>1
  <2>6. v \in Seq(Byte) /\ v # <<>> /\ Leading(v, q) = Leading(t, q)
    <3>1. v \in Seq(Byte) /\ Len(v) = Len(t) + Len(z) /\ Len(z) \in Nat
      BY Joined
    <3>2. Leading(v, q) = Leading(t, q)
      BY <2>1, LeadingJoined
    <3>. HIDE DEF v
    <3>. QED
      BY <2>3, <3>1, <3>2, EmptySeq
  <2>7. From(v, d) = r \o z
    BY <2>4, FromJoined
  <2>. HIDE DEF v, r, d
  <2>8. Decoded(t, q) = <<f[2]>> \o Decoded(r, q)
    BY <2>2, DecodedStep DEF r, d
  <2>9. Decoded(v, q) = <<f[2]>> \o Decoded(r \o z, q)
    <3>1. f \in Leading(v, q)
      BY <2>2, <2>6
    <3>. QED
      BY <2>6, <2>7, <3>1, DecodedStep DEF d
  <2>10. Decoded(r, q) \in Seq(Int) /\ Decoded(z, q) \in Seq(Int) /\ <<f[2]>> \in Seq(Int)
    BY <2>3, <2>5, DecodedType, InBad
  <2>11. In(Decoded(r, q), Nat)
    <3>1. In(<<f[2]>> \o Decoded(r, q), Nat)
      BY <2>8
    <3>. QED
      BY <2>10, <3>1, InJoined
  <2>12. Decoded(r \o z, q) = Decoded(r, q) \o Decoded(z, q)
    BY <1>3, <2>5, <2>11
  <2>13. (<<f[2]>> \o Decoded(r, q)) \o Decoded(z, q) = <<f[2]>> \o (Decoded(r, q) \o Decoded(z, q))
    BY <2>10, ConcatAssociative
  <2>. QED
    BY <2>8, <2>9, <2>12, <2>13 DEF v
<1>4. Len(s) \in Nat
  BY LenProperties
<1>5. Len(s) \in T
  <2>. HIDE DEF T
  <2>1. \A n \in 0 .. Len(s) - 1 : n \in T => n + 1 \in T
    BY <1>3, <1>4
  <2>2. \A n \in 0 .. Len(s) : n \in T
    BY <1>2, <1>4, <2>1, UpTo
  <2>. QED
    BY <1>4, <2>2
<1>. QED
  BY <1>4, <1>5

(* One more character, or what is none.                                    *)
LEMMA DecodedOne ==
  ASSUME NEW t \in Seq(Byte), t # <<>>, NEW q \in BOOLEAN, NEW p \in Nat,
         Leading(t, q) = {<<Len(t), p>>}
  PROVE  Decoded(t, q) = <<p>>
<1>. DEFINE f == <<Len(t), p>>
<1>1. f \in Leading(t, q) /\ f[1] = Len(t) /\ f[2] = p /\ Len(t) \in Nat
  BY LenProperties
<1>. HIDE DEF f
<1>2. Decoded(t, q) = <<p>> \o Decoded(From(t, 1 + Len(t)), q)
  BY <1>1, DecodedStep
<1>3. 1 + Len(t) \in 1 .. Len(t) + 1 /\ 1 + Len(t) = Len(t) + 1
  BY <1>1
<1>4. From(t, 1 + Len(t)) = <<>>
  BY <1>3, FromPart
<1>5. Decoded(From(t, 1 + Len(t)), q) = <<>>
  <2>1. <<>> \in Seq(Byte)
    OBVIOUS
  <2>2. Decoded(<<>>, q) = <<>>
    BY <2>1, DecodedStep
  <2>. QED
    BY <1>4, <2>2
<1>6. <<p>> \o <<>> = <<p>>
  BY InBad, ConcatEmptySeq
<1>. QED
  BY <1>2, <1>5, <1>6

LEMMA DecodedMore ==
  ASSUME NEW s \in Seq(Byte), NEW t \in Seq(Byte), t # <<>>, NEW q \in BOOLEAN, NEW p \in Nat,
         In(Decoded(s, q), Nat), Leading(t, q) = {<<Len(t), p>>}
  PROVE  /\ Decoded(s \o t, q) = Decoded(s, q) \o <<p>>
         /\ In(Decoded(s \o t, q), Nat)
<1>1. Decoded(t, q) = <<p>>
  BY DecodedOne
<1>2. Decoded(s \o t, q) = Decoded(s, q) \o <<p>>
  <2>1. Decoded(s \o t, q) = Decoded(s, q) \o Decoded(t, q)
    BY DecodedJoined
  <2>. QED
    BY ONLY <1>1, <2>1
<1>3. Decoded(s, q) \in Seq(Int) /\ <<p>> \in Seq(Int) /\ In(<<p>>, Nat)
  BY DecodedType, InBad
<1>. QED
  BY <1>2, <1>3, InJoined

LEMMA DecodedBad ==
  ASSUME NEW s \in Seq(Byte), NEW t \in Seq(Byte), t # <<>>, NEW q \in BOOLEAN,
         In(Decoded(s, q), Nat), Leading(t, q) = {}
  PROVE  ~In(Decoded(s \o t, q), Nat)
<1>1. Decoded(t, q) = Bad
  BY DecodedStep
<1>2. Decoded(s \o t, q) = Decoded(s, q) \o Bad
  BY <1>1, DecodedJoined
<1>. QED
  BY <1>2, DecodedType, InBad, InJoined

-------------------------------------------------------------------------------
(* The scanner's own tables: what it expects of the bytes of a character,  *)
(* how it writes a code point, and what its one-letter escapes are.        *)
LEMMA ContinuationIs ==
  ASSUME NEW a \in \hC2 .. \hF4
  PROVE  /\ a \in Starts /\ Width(a) \in 2 .. 4 /\ Len(Continuation(a)) = Width(a) - 1
         /\ \A b \in Byte : b \in Continuation(a)[1] <=> b \in Tails /\ Second(a, b)
         /\ \A k \in 2 .. Width(a) - 1 : Continuation(a)[k] = Tails
<1>. DEFINE C == Continuation(a)
            Fits(A) == \A b \in Byte : b \in A <=> b \in Tails /\ Second(a, b)
<1>0. a \in Starts
  BY SMT DEF Starts
<1>1. CASE a \in \hC2 .. \hDF
  <2>1. C = <<Tails>> /\ Width(a) = 2 /\ Fits(Tails)
    BY <1>1 DEF Continuation, Width, Second
  <2>. HIDE DEF C, Fits, Width
  <2>. QED
    BY <1>0, <2>1 DEF C, Fits
<1>2. ASSUME NEW A, C = <<A, Tails>>, Width(a) = 3, Fits(A)
      PROVE  /\ Width(a) \in 2 .. 4 /\ Len(C) = Width(a) - 1 /\ Fits(C[1])
             /\ \A k \in 2 .. Width(a) - 1 : C[k] = Tails
  <2>. HIDE DEF C, Fits, Width
  <2>. QED
    BY <1>2
<1>3. ASSUME NEW A, C = <<A, Tails, Tails>>, Width(a) = 4, Fits(A)
      PROVE  /\ Width(a) \in 2 .. 4 /\ Len(C) = Width(a) - 1 /\ Fits(C[1])
             /\ \A k \in 2 .. Width(a) - 1 : C[k] = Tails
  <2>. HIDE DEF C, Fits, Width
  <2>1. \A k \in 2 .. Width(a) - 1 : k = 2 \/ k = 3
    BY <1>3
  <2>. QED
    BY <1>3, <2>1
<1>4. CASE a = \hE0
  <2>1. C = <<\hA0 .. \hBF, Tails>> /\ Width(a) = 3
    BY <1>4 DEF Continuation, Width
  <2>2. Fits(\hA0 .. \hBF)
    BY <1>4, SMT DEF Second, Tails, Byte
  <2>. HIDE DEF Fits, Width, C
  <2>. QED
    BY <1>0, <1>2, <2>1, <2>2 DEF C, Fits
<1>5. CASE a \in (\hE1 .. \hEC) \cup (\hEE .. \hEF)
  <2>1. C = <<Tails, Tails>> /\ Width(a) = 3
    BY <1>5 DEF Continuation, Width
  <2>2. Fits(Tails)
    BY <1>5, SMT DEF Second, Byte
  <2>. HIDE DEF Fits, Width, C
  <2>. QED
    BY <1>0, <1>2, <2>1, <2>2 DEF C, Fits
<1>6. CASE a = \hED
  <2>1. C = <<\h80 .. \h9F, Tails>> /\ Width(a) = 3
    BY <1>6 DEF Continuation, Width
  <2>2. Fits(\h80 .. \h9F)
    BY <1>6, SMT DEF Second, Tails, Byte
  <2>. HIDE DEF Fits, Width, C
  <2>. QED
    BY <1>0, <1>2, <2>1, <2>2 DEF C, Fits
<1>7. CASE a = \hF0
  <2>1. C = <<\h90 .. \hBF, Tails, Tails>> /\ Width(a) = 4
    BY <1>7 DEF Continuation, Width
  <2>2. Fits(\h90 .. \hBF)
    BY <1>7, SMT DEF Second, Tails, Byte
  <2>. HIDE DEF Fits, Width, C
  <2>. QED
    BY <1>0, <1>3, <2>1, <2>2 DEF C, Fits
<1>8. CASE a \in \hF1 .. \hF3
  <2>1. C = <<Tails, Tails, Tails>> /\ Width(a) = 4
    BY <1>8 DEF Continuation, Width
  <2>2. Fits(Tails)
    BY <1>8, SMT DEF Second, Byte
  <2>. HIDE DEF Fits, Width, C
  <2>. QED
    BY <1>0, <1>3, <2>1, <2>2 DEF C, Fits
<1>9. CASE a = \hF4
  <2>1. C = <<\h80 .. \h8F, Tails, Tails>> /\ Width(a) = 4
    BY <1>9 DEF Continuation, Width
  <2>2. Fits(\h80 .. \h8F)
    BY <1>9, SMT DEF Second, Tails, Byte
  <2>. HIDE DEF Fits, Width, C
  <2>. QED
    BY <1>0, <1>3, <2>1, <2>2 DEF C, Fits
<1>10. \/ a \in \hC2 .. \hDF \/ a = \hE0 \/ a \in (\hE1 .. \hEC) \cup (\hEE .. \hEF) \/ a = \hED
       \/ a = \hF0 \/ a \in \hF1 .. \hF3 \/ a = \hF4
  OBVIOUS
<1>. QED
  BY <1>1, <1>4, <1>5, <1>6, <1>7, <1>8, <1>9, <1>10

LEMMA UnescapedIs == Unescaped = Escapes
BY DEF Unescaped, Escapes

IsPoint(p) == p \in Nat /\ p <= \h10FFFF /\ p \notin High \cup Low

LEMMA EncodedIs ==
  ASSUME NEW p, IsPoint(p)
  PROVE  /\ Encoded(p) \in Seq(Byte) /\ Encoded(p) # <<>>
         /\ Leading(Encoded(p), FALSE) = {<<Len(Encoded(p)), p>>}
<1>. DEFINE s == Encoded(p)
            m(x) == \h80 + (x % 64)
<1>. p \in Nat /\ p <= \h10FFFF /\ p \notin High \cup Low
  BY SMT DEF IsPoint
<1>1. s \in Seq(Byte)
  BY EncodedType
<1>2. SUFFICES s # <<>> /\ OneChar(s) /\ Width(s[1]) = Len(s) /\ CodePoint(s, Len(s)) = p
  <2>. HIDE DEF s
  <2>. QED
    BY <1>1, <1>2, RawIs DEF Leading, s
<1>3. /\ p < \h80 => Scalar(1, p)
      /\ \h80 <= p /\ p < \h800 => Scalar(2, p)
      /\ \h800 <= p /\ p < \h10000 => Scalar(3, p)
      /\ \h10000 <= p => Scalar(4, p)
  BY SMT DEF Scalar, LeastPoint
<1>4. \A x \in Nat : m(x) \in Tails /\ m(x) \in Byte
  BY SMT DEF Tails, Byte
<1>5. \A x \in Nat : Continued(x) = m(x)
  BY DEF Continued
<1>6. CASE p < \h80
  <2>1. s = <<p>> /\ p \in Byte
    BY <1>6 DEF Encoded, Byte
  <2>. HIDE DEF s
  <2>2. p \in Starts /\ Width(p) = 1
    BY <1>3, <1>6, <2>1, ScalarOne
  <2>3. Len(s) = 1 /\ s[1] = p /\ s # <<>>
    BY <2>1
  <2>4. \A k \in 1 .. Width(p) - 1 : FALSE
    BY <2>2
  <2>. QED
    BY <2>2, <2>3, <2>4, PointOf DEF OneChar
<1>7. CASE \h80 <= p /\ p < \h800
  <2>. DEFINE a == \hC0 + p \div 64
              b == m(p)
  <2>1. s = <<a, b>>
    BY <1>5, <1>7 DEF Encoded
  <2>2. a \in Byte /\ b \in Tails
    BY <1>4, <1>7, SMT DEF Byte
  <2>3. Point2(a, b) = p
    BY <1>7, SMT DEF Point2
  <2>. HIDE DEF s, a, b
  <2>4. a \in Starts /\ Width(a) = 2 /\ Second(a, b)
    BY <1>3, <1>7, <2>2, <2>3, ScalarTwo
  <2>5. Len(s) = 2 /\ s[1] = a /\ s[2] = b /\ s # <<>>
    BY <2>1
  <2>6. \A k \in 1 .. Width(a) - 1 : Follows(s, k)
    <3>1. \A k \in 1 .. Width(a) - 1 : k = 1
      BY <2>4
    <3>. QED
      BY <2>2, <2>4, <2>5, <3>1 DEF Follows
  <2>. QED
    BY <2>3, <2>4, <2>5, <2>6, PointOf DEF OneChar
<1>8. CASE \h800 <= p /\ p < \h10000
  <2>. DEFINE a == \hE0 + p \div 4096
              b == m(p \div 64)
              c == m(p)
  <2>0. p \div 64 \in Nat
    OBVIOUS
  <2>1. s = <<a, b, c>>
    BY <1>5, <1>8, <2>0 DEF Encoded
  <2>2. a \in Byte /\ b \in Tails /\ c \in Tails
    BY <1>4, <1>8, <2>0, SMT DEF Byte
  <2>3. Point3(a, b, c) = p
    BY <1>8, SMT DEF Point3
  <2>. HIDE DEF s, a, b, c
  <2>4. a \in Starts /\ Width(a) = 3 /\ Second(a, b)
    BY <1>3, <1>8, <2>2, <2>3, ScalarThree
  <2>5. Len(s) = 3 /\ s[1] = a /\ s[2] = b /\ s[3] = c /\ s # <<>>
    BY <2>1
  <2>6. \A k \in 1 .. Width(a) - 1 : Follows(s, k)
    <3>1. \A k \in 1 .. Width(a) - 1 : k = 1 \/ k = 2
      BY <2>4
    <3>. QED
      BY <2>2, <2>4, <2>5, <3>1 DEF Follows
  <2>. QED
    BY <2>3, <2>4, <2>5, <2>6, PointOf DEF OneChar
<1>9. CASE \h10000 <= p
  <2>. DEFINE a == \hF0 + p \div 262144
              b == m(p \div 4096)
              c == m(p \div 64)
              d == m(p)
  <2>0. p \div 64 \in Nat /\ p \div 4096 \in Nat
    OBVIOUS
  <2>1. s = <<a, b, c, d>>
    BY <1>5, <1>9, <2>0 DEF Encoded
  <2>2. a \in Byte /\ b \in Tails /\ c \in Tails /\ d \in Tails
    BY <1>4, <1>9, <2>0, SMT DEF Byte
  <2>3. Point4(a, b, c, d) = p
    BY <1>9, SMT DEF Point4
  <2>. HIDE DEF s, a, b, c, d
  <2>4. a \in Starts /\ Width(a) = 4 /\ Second(a, b)
    BY <1>3, <1>9, <2>2, <2>3, ScalarFour
  <2>5. Len(s) = 4 /\ s[1] = a /\ s[2] = b /\ s[3] = c /\ s[4] = d /\ s # <<>>
    BY <2>1
  <2>6. \A k \in 1 .. Width(a) - 1 : Follows(s, k)
    <3>1. \A k \in 1 .. Width(a) - 1 : k = 1 \/ k = 2 \/ k = 3
      BY <2>4
    <3>. QED
      BY <2>2, <2>4, <2>5, <3>1 DEF Follows
  <2>. QED
    BY <2>3, <2>4, <2>5, <2>6, PointOf DEF OneChar
<1>10. p < \h80 \/ (\h80 <= p /\ p < \h800) \/ (\h800 <= p /\ p < \h10000) \/ \h10000 <= p
  OBVIOUS
<1>. QED
  BY <1>6, <1>7, <1>8, <1>9, <1>10

-------------------------------------------------------------------------------
(* Texts in quotes, and what can no longer become one.                     *)
LEMMA OneByte ==
  ASSUME NEW c \in Byte
  PROVE  <<c>> \in Seq(Byte) /\ Len(<<c>>) = 1 /\ <<c>>[1] = c /\ <<c>> # <<>>
OBVIOUS

LEMMA QuoteByte == Quote \in Byte /\ Backslash \in Byte /\ \A n \in 1 .. 26 : Lower(n) \in Byte /\ Upper(n) \in Byte
BY DEF Quote, Backslash, Lower, Upper, Byte

LEMMA AppendJoined ==
  ASSUME NEW s \in Seq(Byte), NEW t \in Seq(Byte), NEW c \in Byte
  PROVE  /\ Append(s \o t, c) = s \o Append(t, c) /\ Append(t, c) = t \o <<c>>
         /\ Append(t, c) \in Seq(Byte)
<1>1. <<c>> \in Seq(Byte) /\ s \o t \in Seq(Byte)
  BY OneByte, Joined
<1>2. Append(s \o t, c) = (s \o t) \o <<c>> /\ Append(t, c) = t \o <<c>>
  BY <1>1, AppendIsConcat
<1>3. (s \o t) \o <<c>> = s \o (t \o <<c>>)
  BY <1>1, ConcatAssociative
<1>. QED
  BY <1>2, <1>3, AppendProperties

LEMMA Regrouped ==
  ASSUME NEW s \in Seq(Byte), NEW t \in Seq(Byte), NEW u \in Seq(Byte)
  PROVE  (s \o t) \o u = s \o (t \o u) /\ t \o u \in Seq(Byte) /\ s \o t \in Seq(Byte)
BY ConcatAssociative, ConcatProperties

InQuotes(v) == (<<Quote>> \o v) \o <<Quote>>

LEMMA Quoting ==
  ASSUME NEW v \in Seq(Byte)
  PROVE  /\ Inside(InQuotes(v)) = v
         /\ IsString(InQuotes(v)) <=> In(Decoded(v, TRUE), Nat)
<1>. DEFINE u == <<Quote>> \o v
            s == InQuotes(v)
<1>1. /\ u \in Seq(Byte) /\ Len(v) \in Nat /\ Len(u) = 1 + Len(v)
      /\ \A k \in 1 .. 1 : u[k] = <<Quote>>[k]
      /\ \A k \in 1 .. Len(v) : u[1 + k] = v[k]
  BY Joined, OneByte, QuoteByte, SMTT(20)
<1>2. u[1] = Quote
  BY <1>1, OneByte, QuoteByte
<1>. HIDE DEF u
<1>3. s = u \o <<Quote>>
  BY DEF u, InQuotes
<1>. HIDE DEF s
<1>4. /\ s \in Seq(Byte) /\ Len(s) = 2 + Len(v)
      /\ \A k \in 1 .. Len(u) : s[k] = u[k]
      /\ s[Len(s)] = Quote
  <2>1. s = Append(u, Quote)
    BY <1>1, <1>3, QuoteByte, AppendIsConcat
  <2>. DEFINE a == Append(u, Quote)
  <2>2. /\ a \in Seq(Byte) /\ Len(a) = Len(u) + 1
        /\ \A k \in 1 .. Len(u) : a[k] = u[k]
        /\ a[Len(u) + 1] = Quote
    BY <1>1, QuoteByte, Appended, Zenon
  <2>. HIDE DEF a
  <2>3. s = a
    BY <2>1 DEF a
  <2>. QED
    BY <1>1, <2>2, <2>3
<1>5. s[1] = Quote /\ Len(s) >= 2
  BY <1>1, <1>2, <1>4
<1>6. Inside(s) = v
  <2>1. /\ Inside(s) = SubSeq(s, 2, 1 + Len(v)) /\ 1 + Len(v) \in 0 .. Len(s) /\ 2 \in Nat \ {0}
    BY <1>1, <1>4 DEF Inside
  <2>2. /\ Inside(s) \in Seq(Byte)
        /\ Len(Inside(s)) = IF 2 <= 1 + Len(v) THEN (1 + Len(v)) - 2 + 1 ELSE 0
        /\ \A k \in 1 .. (1 + Len(v)) - 2 + 1 : Inside(s)[k] = s[2 + k - 1]
    BY <1>4, <2>1, Part
  <2>3. Len(Inside(s)) = Len(v)
    BY <1>1, <2>2
  <2>4. \A k \in 1 .. Len(v) : k \in 1 .. (1 + Len(v)) - 2 + 1 /\ 2 + k - 1 = 1 + k /\ 1 + k \in 1 .. Len(u)
    BY <1>1
  <2>5. \A k \in 1 .. Len(v) : Inside(s)[k] = v[k]
    BY <1>1, <1>4, <2>2, <2>4
  <2>. QED
    BY <2>2, <2>3, <2>5, SeqEqual
<1>7. IsString(s) <=> In(Decoded(v, TRUE), Nat)
  BY <1>4, <1>5, <1>6 DEF IsString
<1>. QED
  BY <1>6, <1>7 DEF s

Str(C, t) == (<<Quote>> \o C) \o t

LEMMA StrIs ==
  ASSUME NEW C \in Seq(Byte), NEW t \in Seq(Byte)
  PROVE  /\ Str(C, t) \in Seq(Byte) /\ Str(C, t) # <<>> /\ Str(C, t)[1] = Quote
         /\ Str(C, t) = <<Quote>> \o (C \o t)
         /\ \A c \in Byte : Append(Str(C, t), c) = Str(C, Append(t, c))
         /\ \A e \in Seq(Byte) : Str(C, t) \o e \o <<Quote>> = InQuotes(C \o (t \o e))
<1>. DEFINE Q == <<Quote>>
<1>1. Q \in Seq(Byte) /\ Q[1] = Quote /\ Len(Q) = 1
  BY OneByte, QuoteByte
<1>. HIDE DEF Q
<1>2. Q \o C \in Seq(Byte) /\ C \o t \in Seq(Byte) /\ (Q \o C) \o t \in Seq(Byte)
  BY <1>1, ConcatProperties
<1>3. (Q \o C) \o t = Q \o (C \o t)
  BY <1>1, Regrouped
<1>4. (Q \o C) \o t # <<>> /\ ((Q \o C) \o t)[1] = Quote
  <2>. DEFINE v == C \o t
  <2>1. v \in Seq(Byte)
    BY <1>2
  <2>. HIDE DEF v
  <2>2. Len(Q \o v) = Len(Q) + Len(v) /\ Len(v) \in Nat /\ \A k \in 1 .. Len(Q) : (Q \o v)[k] = Q[k]
    BY <1>1, <2>1, Joined
  <2>3. (Q \o v)[1] = Quote /\ Len(Q \o v) # 0
    BY <1>1, <2>2
  <2>4. Q \o v # <<>>
    BY <2>3
  <2>. QED
    BY <1>3, <2>3, <2>4 DEF v
<1>5. \A c \in Byte : Append((Q \o C) \o t, c) = (Q \o C) \o Append(t, c)
  BY <1>2, AppendJoined
<1>6. ASSUME NEW e \in Seq(Byte)
      PROVE  ((Q \o C) \o t) \o e \o Q = (Q \o (C \o (t \o e))) \o Q
  <2>1. ((Q \o C) \o t) \o e = (Q \o C) \o (t \o e)
    BY <1>2, ConcatAssociative
  <2>2. t \o e \in Seq(Byte)
    BY ConcatProperties
  <2>3. (Q \o C) \o (t \o e) = Q \o (C \o (t \o e))
    BY <1>1, <2>2, Regrouped, SMTT(30)
  <2>. QED
    BY <2>1, <2>3
<1>. QED
  BY <1>2, <1>3, <1>4, <1>5, <1>6 DEF Str, InQuotes, Q

Stuck(t) == \A y \in Seq(Byte) : Leading(t \o y, TRUE) = {}

LEMMA EscapeEndIs ==
  /\ EscapeEnd \in Seq(Byte) /\ Len(EscapeEnd) = 6
  /\ EscapeEnd[1] = Backslash /\ EscapeEnd[2] = Lower(21) /\ EscapeEnd[3] = Upper(4)
  /\ EscapeEnd[4] = Upper(3) /\ EscapeEnd[5] = Zero /\ EscapeEnd[6] = Zero
<1>1. /\ Backslash \in Byte /\ Lower(21) \in Byte /\ Upper(4) \in Byte /\ Upper(3) \in Byte /\ Zero \in Byte
  BY DEF Backslash, Lower, Upper, Zero, Byte
<1>2. \A a, b, c, d \in Byte : LET s == <<Backslash, a, b, c, d, d>>
        IN  Backslash \in Byte => /\ s \in Seq(Byte) /\ Len(s) = 6 /\ s[1] = Backslash /\ s[2] = a /\ s[3] = b
                                  /\ s[4] = c /\ s[5] = d /\ s[6] = d
  OBVIOUS
<1>. QED
  BY <1>1, <1>2, Zenon DEF EscapeEnd

LEMMA EndsBytes ==
  ASSUME NEW e \in Ends
  PROVE  e \in Seq(Byte)
<1>0. /\ \A n \in 1 .. 26 : Lower(n) \in Byte
      /\ Zero \in Byte /\ \h80 \in Byte /\ \h90 \in Byte /\ \hA0 \in Byte /\ <<>> \in Seq(Byte)
  BY DEF Lower, Zero, Byte
<1>1. \A k \in Nat, d \in Byte : [n \in 1 .. k |-> d] \in Seq(Byte)
  BY IsASeq
<1>2. CASE e = <<>> \/ e = <<Lower(14)>>
  <2>1. 14 \in 1 .. 26
    OBVIOUS
  <2>2. Lower(14) \in Byte
    BY <1>0, <2>1
  <2>. QED
    BY <1>0, <1>2, <2>2, OneByte
<1>3. ASSUME NEW k \in 0 .. 4, NEW x \in {<<>>, EscapeEnd}, e = [n \in 1 .. k |-> Zero] \o x
      PROVE  e \in Seq(Byte)
  <2>1. x \in Seq(Byte)
    BY <1>0, EscapeEndIs
  <2>2. k \in Nat
    OBVIOUS
  <2>3. [n \in 1 .. k |-> Zero] \in Seq(Byte)
    BY <1>0, <1>1, <2>2
  <2>. QED
    BY <1>3, <2>1, <2>3, ConcatProperties
<1>4. ASSUME NEW n \in 2 .. 6, e = From(EscapeEnd, n)
      PROVE  e \in Seq(Byte)
  <2>1. n \in 1 .. Len(EscapeEnd) + 1 /\ EscapeEnd \in Seq(Byte)
    BY EscapeEndIs
  <2>. QED
    BY <1>4, <2>1, FromPart
<1>5. ASSUME NEW k \in 1 .. 3, NEW b \in {\h80, \h90, \hA0}, e = [n \in 1 .. k |-> IF n = 1 THEN b ELSE \h80]
      PROVE  e \in Seq(Byte)
  <2>1. \A n \in 1 .. k : (IF n = 1 THEN b ELSE \h80) \in Byte
    BY <1>0
  <2>. QED
    BY <1>5, <2>1, IsASeq
<1>. DEFINE A == {[n \in 1 .. k |-> Zero] \o x : k \in 0 .. 4, x \in {<<>>, EscapeEnd}}
            B == {From(EscapeEnd, n) : n \in 2 .. 6}
            D == {[n \in 1 .. k |-> IF n = 1 THEN b ELSE \h80] : k \in 1 .. 3, b \in {\h80, \h90, \hA0}}
<1>6. e \in {<<>>} \cup {<<Lower(14)>>} \cup DigitEnds \cup EscapeEnds \cup ByteEnds
  BY DEF Ends
<1>7. e \in A => e \in Seq(Byte)
  <2>. DEFINE f(k, x) == [n \in 1 .. k |-> Zero] \o x
              K == 0 .. 4
              X == {<<>>, EscapeEnd}
  <2>1. A = {f(k, x) : k \in K, x \in X}
    OBVIOUS
  <2>2. \A k \in K : \A x \in X : e = f(k, x) => e \in Seq(Byte)
    BY <1>3
  <2>. HIDE DEF f, A, K, X
  <2>. QED
    BY <2>1, <2>2
<1>8. e \in B => e \in Seq(Byte)
  BY <1>4
<1>9. e \in D => e \in Seq(Byte)
  BY <1>5
<1>10. DigitEnds = A /\ EscapeEnds = B /\ ByteEnds = D
  <2>1. DigitEnds = A
    BY DEF DigitEnds
  <2>2. EscapeEnds = B
    BY DEF EscapeEnds
  <2>3. ByteEnds = D
    BY DEF ByteEnds
  <2>. QED
    BY <2>1, <2>2, <2>3
<1>. HIDE DEF A, B, D
<1>. QED
  BY <1>2, <1>6, <1>7, <1>8, <1>9, <1>10

LEMMA StuckNever ==
  ASSUME NEW C \in Seq(Byte), NEW t \in Seq(Byte), NEW c \in Byte,
         In(Decoded(C, TRUE), Nat), Stuck(Append(t, c)), t = <<>> => c # Quote
  PROVE  ~BeginsString(Str(C, Append(t, c)))
<1>. DEFINE w == Append(t, c)
            S == Str(C, w)
<1>1. w \in Seq(Byte) /\ w # <<>> /\ Len(w) = Len(t) + 1 /\ w = t \o <<c>> /\ <<c>> \in Seq(Byte)
      /\ w[Len(w)] = c
  BY AppendProperties, AppendIsConcat, OneByte
<1>2. ASSUME NEW e \in Seq(Byte)
      PROVE  ~IsString(S \o e \o <<Quote>>)
  <2>1. w \o e \in Seq(Byte) /\ w \o e # <<>> /\ Leading(w \o e, TRUE) = {}
    <3>. HIDE DEF w
    <3>1. w \o e \in Seq(Byte) /\ Len(w \o e) = Len(w) + Len(e) /\ Len(w) \in Nat /\ Len(e) \in Nat /\ Len(w) # 0
      BY <1>1, Joined, EmptySeq
    <3>2. w \o e # <<>>
      BY <3>1, EmptySeq
    <3>3. Leading(w \o e, TRUE) = {}
      BY DEF Stuck, w
    <3>. QED
      BY <3>1, <3>2, <3>3
  <2>2. ~In(Decoded(C \o (w \o e), TRUE), Nat)
    BY <2>1, DecodedBad
  <2>3. S \o e \o <<Quote>> = InQuotes(C \o (w \o e))
    <3>. HIDE DEF w
    <3>1. \A x \in Seq(Byte) : Str(C, w) \o x \o <<Quote>> = InQuotes(C \o (w \o x))
      BY <1>1, StrIs, Zenon
    <3>. QED
      BY <3>1
  <2>4. C \o (w \o e) \in Seq(Byte)
    BY <2>1, ConcatProperties
  <2>. QED
    BY <2>2, <2>3, <2>4, Quoting
<1>3. ~IsString(S)
  <2>. SUFFICES ASSUME IsString(S) PROVE FALSE
    OBVIOUS
  <2>. DEFINE v == <<Quote>> \o (C \o t)
  <2>1. v \in Seq(Byte) /\ C \o t \in Seq(Byte) /\ v = Str(C, t)
    BY StrIs, Joined
  <2>2. S = Append(v, c)
    <3>1. Append(Str(C, t), c) = Str(C, Append(t, c))
      BY StrIs
    <3>. QED
      BY <2>1, <3>1
  <2>3. S[Len(S)] = c
    <3>. HIDE DEF v, S
    <3>. QED
      BY <2>1, <2>2, AppendProperties
  <2>4. c = Quote
    BY <2>3 DEF IsString
  <2>5. t # <<>>
    BY <2>4
  <2>6. S = InQuotes(C \o t)
    BY <2>1, <2>2, <2>4, AppendIsConcat, QuoteByte DEF InQuotes
  <2>7. In(Decoded(C \o t, TRUE), Nat)
    BY <2>1, <2>6, Quoting
  <2>8. Leading(t, TRUE) # {}
    BY <2>5, <2>7, DecodedBad
  <2>9. Leading(w, TRUE) = Leading(t, TRUE)
    BY <1>1, <2>5, <2>8, LeadingJoined
  <2>10. w \o <<>> = w /\ <<>> \in Seq(Byte)
    BY <1>1, ConcatEmptySeq
  <2>. QED
    BY <2>8, <2>9, <2>10 DEF Stuck
<1>4. \A e \in Ends : ~IsString(S \o e \o <<Quote>>)
  BY <1>2, EndsBytes
<1>. QED
  BY <1>3, <1>4 DEF BeginsString

LEMMA CanEnd ==
  ASSUME NEW C \in Seq(Byte), NEW t \in Seq(Byte), NEW e \in Ends, NEW p \in Nat,
         In(Decoded(C, TRUE), Nat), t \o e # <<>> => Leading(t \o e, TRUE) = {<<Len(t \o e), p>>}
  PROVE  BeginsString(Str(C, t))
<1>1. e \in Seq(Byte) /\ t \o e \in Seq(Byte)
  BY EndsBytes, ConcatProperties
<1>2. In(Decoded(C \o (t \o e), TRUE), Nat)
  <2>1. CASE t \o e = <<>>
    BY <2>1, ConcatEmptySeq
  <2>2. CASE t \o e # <<>>
    <3>. DEFINE u == t \o e
    <3>1. u \in Seq(Byte) /\ u # <<>> /\ Leading(u, TRUE) = {<<Len(u), p>>}
      BY <1>1, <2>2
    <3>. HIDE DEF u
    <3>2. In(Decoded(C \o u, TRUE), Nat)
      BY <3>1, DecodedMore
    <3>. QED
      BY <3>2 DEF u
  <2>. QED
    BY <2>1, <2>2
<1>3. Str(C, t) \o e \o <<Quote>> = InQuotes(C \o (t \o e))
  BY <1>1, StrIs, SMTT(20)
<1>4. IsString(InQuotes(C \o (t \o e)))
  BY <1>1, <1>2, Quoting, ConcatProperties
<1>. QED
  BY <1>3, <1>4 DEF BeginsString

-------------------------------------------------------------------------------
(* A character of several bytes, as far as it came.                        *)
TailOf(t) ==
  /\ t \in Seq(Byte) /\ t # <<>> /\ t[1] \in \hC2 .. \hF4 /\ Len(t) < Width(t[1])
  /\ \A k \in 1 .. Len(t) - 1 : Follows(t, k)
FollowsLast(t, c) == c \in Tails /\ (Len(t) = 1 => Second(t[1], c))

LEMMA RawWhenLarge ==
  ASSUME NEW u \in Seq(Byte), u # <<>>, u[1] \in \hC2 .. \hF4, NEW q \in BOOLEAN
  PROVE  Leading(u, q) = Raw(u)
<1>1. \A a \in \hC2 .. \hF4 : a # Backslash /\ a >= \h20 /\ a # Quote
  BY SMT DEF Backslash, Quote
<1>2. u[1] # Backslash /\ u[1] >= \h20 /\ u[1] # Quote
  BY <1>1
<1>3. Quoted(u) = Raw(u)
  BY <1>2, SMT DEF Quoted
<1>. QED
  BY <1>3 DEF Leading

LEMMA TailMore ==
  ASSUME NEW t, TailOf(t), NEW c \in Byte
  PROVE  /\ ~FollowsLast(t, c) => Stuck(Append(t, c))
         /\ FollowsLast(t, c) /\ Len(t) + 1 < Width(t[1]) => TailOf(Append(t, c))
         /\ FollowsLast(t, c) /\ Len(t) + 1 = Width(t[1]) =>
              \E p \in Nat : \A q \in BOOLEAN : Leading(Append(t, c), q) = {<<Len(Append(t, c)), p>>}
<1>. DEFINE w == Append(t, c)
            n == Len(t)
<1>1. /\ t \in Seq(Byte) /\ t # <<>> /\ t[1] \in \hC2 .. \hF4 /\ n < Width(t[1])
      /\ \A k \in 1 .. n - 1 : Follows(t, k)
  BY DEF TailOf
<1>2. /\ w \in Seq(Byte) /\ w # <<>> /\ n \in Nat /\ Len(w) = n + 1
      /\ \A k \in 1 .. n : w[k] = t[k]
      /\ w[n + 1] = c /\ w[1] = t[1]
  BY <1>1, Appended
<1>3. n >= 1 /\ Width(t[1]) \in 2 .. 4 /\ t[1] \in Starts
  <2>1. n # 0
    BY <1>1, EmptySeq
  <2>2. Width(t[1]) \in 2 .. 4 /\ t[1] \in Starts
    BY <1>1, ContinuationIs
  <2>. QED
    BY <1>2, <2>1, <2>2
<1>. HIDE DEF w, n
<1>4. n = Len(t) /\ w = Append(t, c)
  BY DEF n, w
<1>5. Follows(w, n) <=> FollowsLast(t, c)
  <2>1. n = 1 => w[2] = c
    BY <1>2
  <2>. QED
    BY <1>2, <1>4, <2>1 DEF Follows, FollowsLast
<1>6. \A k \in 1 .. n - 1 : Follows(w, k)
  <2>. TAKE k \in 1 .. n - 1
  <2>1. k \in 1 .. n /\ k + 1 \in 1 .. n /\ Follows(t, k)
    BY <1>1, <1>2
  <2>2. w[k + 1] = t[k + 1] /\ (k = 1 => w[2] = t[2])
    BY <1>2, <2>1
  <2>. QED
    BY <1>2, <2>1, <2>2 DEF Follows
<1>7. ASSUME ~FollowsLast(t, c), NEW y \in Seq(Byte)
      PROVE  Leading(w \o y, TRUE) = {}
  <2>. DEFINE u == w \o y
  <2>1. /\ u \in Seq(Byte) /\ Len(u) = Len(w) + Len(y) /\ Len(y) \in Nat
        /\ \A k \in 1 .. Len(w) : u[k] = w[k]
    BY <1>2, Joined
  <2>. HIDE DEF u
  <2>2. u[1] = w[1] /\ u[n + 1] = w[n + 1] /\ (n = 1 => u[2] = w[2]) /\ Len(u) # 0
    BY <1>2, <1>3, <2>1
  <2>3. ~Follows(u, n) /\ u # <<>> /\ u[1] = t[1]
    BY <1>2, <1>5, <1>7, <2>2, EmptySeq DEF Follows
  <2>4. n \in 1 .. Width(t[1]) - 1
    BY <1>1, <1>2, <1>3
  <2>5. ~OneChar(u)
    BY <2>3, <2>4 DEF OneChar
  <2>6. Raw(u) = {}
    BY <2>1, <2>3, <2>5, RawIs
  <2>. QED
    BY <1>1, <2>1, <2>3, <2>6, RawWhenLarge DEF u
<1>8. ASSUME FollowsLast(t, c)
      PROVE  \A k \in 1 .. n : Follows(w, k)
  <2>1. \A k \in 1 .. n : k = n \/ k \in 1 .. n - 1
    BY <1>2
  <2>. QED
    BY <1>5, <1>6, <1>8, <2>1
<1>9. ASSUME FollowsLast(t, c), n + 1 < Width(t[1])
      PROVE  TailOf(w)
  <2>1. Len(w) - 1 = n /\ Len(w) < Width(w[1]) /\ w[1] \in \hC2 .. \hF4
    BY <1>1, <1>2, <1>9
  <2>. QED
    BY <1>2, <1>8, <1>9, <2>1 DEF TailOf
<1>10. ASSUME FollowsLast(t, c), n + 1 = Width(t[1])
       PROVE  \E p \in Nat : \A q \in BOOLEAN : Leading(w, q) = {<<Len(w), p>>}
  <2>1. Width(w[1]) = Len(w) /\ w[1] \in Starts /\ \A k \in 1 .. Width(w[1]) - 1 : Follows(w, k)
    BY <1>2, <1>3, <1>8, <1>10
  <2>2. OneChar(w)
    BY <1>2, <2>1 DEF OneChar
  <2>3. Raw(w) = {<<Len(w), CodePoint(w, Len(w))>>} /\ CodePoint(w, Len(w)) \in Nat
    BY <1>2, <2>1, <2>2, RawIs
  <2>4. \A q \in BOOLEAN : Leading(w, q) = Raw(w)
    BY <1>1, <1>2, RawWhenLarge
  <2>. QED
    BY <2>3, <2>4
<1>. QED
  BY <1>4, <1>7, <1>9, <1>10 DEF Stuck

LEMMA TailEnd ==
  ASSUME NEW t, TailOf(t)
  PROVE  \E e \in Ends, p \in Nat : Leading(t \o e, TRUE) = {<<Len(t \o e), p>>}
<1>. DEFINE n == Len(t)
            w == Width(t[1])
<1>1. /\ t \in Seq(Byte) /\ t # <<>> /\ t[1] \in \hC2 .. \hF4 /\ n < w
      /\ \A k \in 1 .. n - 1 : Follows(t, k)
  BY DEF TailOf
<1>2. n \in Nat /\ n >= 1 /\ w \in 2 .. 4 /\ t[1] \in Starts
  <2>1. n \in Nat /\ n # 0
    BY <1>1, LenProperties, EmptySeq
  <2>2. w \in 2 .. 4 /\ t[1] \in Starts
    BY <1>1, ContinuationIs
  <2>. QED
    BY <2>1, <2>2
<1>3. PICK b \in {\h80, \h90, \hA0} : Second(t[1], b)
  <2>1. Second(t[1], IF t[1] = \hE0 THEN \hA0 ELSE IF t[1] = \hF0 THEN \h90 ELSE \h80)
    BY <1>1 DEF Second
  <2>. QED
    BY <2>1
<1>. DEFINE e == [k \in 1 .. w - n |-> IF k = 1 THEN b ELSE \h80]
            u == t \o e
<1>4. e \in Ends
  <2>1. w - n \in 1 .. 3
    BY <1>1, <1>2
  <2>2. \A m \in 1 .. 3 : [k \in 1 .. m |-> IF k = 1 THEN b ELSE \h80] \in Ends
    <3>. DEFINE f(m, x) == [k \in 1 .. m |-> IF k = 1 THEN x ELSE \h80]
                K == 1 .. 3
                B == {\h80, \h90, \hA0}
    <3>1. {f(m, x) : m \in K, x \in B} \subseteq Ends
      <4>1. ByteEnds = {f(m, x) : m \in K, x \in B}
        BY DEF ByteEnds
      <4>2. ByteEnds \subseteq Ends
        BY DEF Ends
      <4>. QED
        BY <4>1, <4>2
    <3>2. b \in B
      OBVIOUS
    <3>. HIDE DEF f, K, B
    <3>3. \A m \in K : f(m, b) \in Ends
      BY <3>1, <3>2
    <3>. QED
      BY <3>3 DEF f, K
  <2>. HIDE DEF w, n
  <2>. QED
    BY <2>1, <2>2
<1>5. e \in Seq(Byte) /\ Len(e) = w - n /\ \A k \in 1 .. w - n : e[k] \in Tails /\ (k = 1 => e[k] = b)
  <2>1. e \in Seq(Byte)
    BY <1>4, EndsBytes
  <2>2. w - n \in Nat /\ DOMAIN e = 1 .. w - n
    BY <1>1, <1>2
  <2>3. Len(e) = w - n
    <3>. HIDE DEF w, n, e
    <3>. QED
      BY <2>1, <2>2, LenProperties
  <2>4. b \in Tails /\ \h80 \in Tails
    BY DEF Tails
  <2>. HIDE DEF w, n
  <2>. QED
    BY <2>1, <2>3, <2>4
<1>. HIDE DEF e
<1>6. /\ u \in Seq(Byte) /\ Len(u) = w
      /\ \A k \in 1 .. n : u[k] = t[k]
      /\ \A k \in 1 .. w - n : u[n + k] = e[k]
  BY <1>1, <1>2, <1>5, Joined
<1>. HIDE DEF u, w, n
<1>7. u # <<>> /\ u[1] = t[1]
  BY <1>2, <1>6, EmptySeq
<1>8. ASSUME NEW k \in 1 .. w - 1
      PROVE  Follows(u, k)
  <2>1. CASE k < n
    <3>1. k \in 1 .. n /\ k + 1 \in 1 .. n /\ k \in 1 .. n - 1
      BY <1>2, <2>1
    <3>2. u[k + 1] = t[k + 1] /\ (k = 1 => u[2] = t[2])
      BY <1>6, <3>1
    <3>. QED
      BY <1>1, <1>7, <3>1, <3>2 DEF Follows
  <2>2. CASE ~(k < n)
    <3>1. k + 1 - n \in 1 .. w - n /\ n + (k + 1 - n) = k + 1 /\ (k = 1 => n = 1 /\ k + 1 - n = 1)
      BY <1>2, <2>2
    <3>2. u[k + 1] = e[k + 1 - n]
      BY <1>6, <3>1
    <3>3. u[k + 1] \in Tails /\ (k = 1 => u[2] = b)
      BY <1>5, <3>1, <3>2
    <3>. QED
      BY <1>3, <1>7, <3>3 DEF Follows
  <2>. QED
    BY <2>1, <2>2
<1>9. Width(u[1]) = Len(u) /\ u[1] \in Starts
  BY <1>2, <1>6, <1>7 DEF w
<1>10. OneChar(u)
  BY <1>6, <1>8, <1>9 DEF OneChar
<1>11. Raw(u) = {<<Len(u), CodePoint(u, Len(u))>>} /\ CodePoint(u, Len(u)) \in Nat
  BY <1>6, <1>7, <1>9, <1>10, RawIs
<1>12. Leading(u, TRUE) = Raw(u)
  BY <1>1, <1>6, <1>7, RawWhenLarge
<1>. QED
  BY <1>4, <1>11, <1>12 DEF u

-------------------------------------------------------------------------------
(* Escapes, as far as they came.                                           *)
LEMMA NotAnEscape ==
  ASSUME NEW v \in Seq(Byte), NEW n \in 1 .. 6, n <= Len(v),
         \/ n = 1 /\ v[n] # Backslash
         \/ n = 2 /\ v[n] # Lower(21)
         \/ n > 2 /\ v[n] \notin HexDigits,
         NEW y \in Seq(Byte)
  PROVE  ~IsEscape4(v \o y)
<1>. DEFINE u == v \o y
<1>1. n \in 1 .. Len(v) /\ \A k \in 1 .. Len(v) : u[k] = v[k]
  BY Joined
<1>2. u[n] = v[n]
  BY <1>1
<1>. HIDE DEF u
<1>3. n > 2 => n \in 3 .. 3 + 3
  OBVIOUS
<1>4. ~IsEscape4(u)
  BY <1>2, <1>3 DEF IsEscape4, Hex4
<1>. QED
  BY <1>4 DEF u

HighHalf(z) == z \in Seq(Byte) /\ Len(z) = 6 /\ IsEscape4(z) /\ Hex(z, 3) \in High

LEMMA AfterHalf ==
  ASSUME NEW z, HighHalf(z), NEW v \in Seq(Byte)
  PROVE  /\ Leading(z \o v, TRUE) = IF IsEscape4(v) /\ Hex(v, 3) \in Low
                                    THEN {<<12, Both(Hex(z, 3), Hex(v, 3))>>} ELSE {}
         /\ (\A y \in Seq(Byte) : ~(IsEscape4(v \o y) /\ Hex(v \o y, 3) \in Low)) => Stuck(z \o v)
<1>1. z \in Seq(Byte) /\ Len(z) = 6 /\ IsEscape4(z) /\ Hex(z, 3) \in High
  BY DEF HighHalf
<1>2. ASSUME NEW x \in Seq(Byte)
      PROVE  Leading(z \o x, TRUE) = IF IsEscape4(x) /\ Hex(x, 3) \in Low
                                     THEN {<<12, Both(Hex(z, 3), Hex(x, 3))>>} ELSE {}
  <2>. DEFINE u == z \o x
  <2>1. u \in Seq(Byte) /\ IsEscape4(u) /\ Hex(u, 3) = Hex(z, 3)
    BY <1>1, Joined, Escape4Joined
  <2>2. From(u, 7) = x
    <3>1. 7 \in 1 .. Len(z) + 1 /\ 7 = Len(z) + 1
      BY <1>1
    <3>2. From(u, 7) = From(z, 7) \o x
      BY <1>1, <3>1, FromJoined
    <3>3. From(z, 7) = <<>>
      BY <1>1, <3>1, FromPart
    <3>. QED
      BY <3>2, <3>3, ConcatEmptySeq
  <2>. HIDE DEF u
  <2>3. u # <<>> /\ u[1] = Backslash
    BY <2>1, EmptySeq DEF IsEscape4
  <2>4. Quoted(u) = IF IsEscape4(From(u, 7)) /\ Hex(From(u, 7), 3) \in Low
                    THEN {<<12, Both(Hex(u, 3), Hex(From(u, 7), 3))>>} ELSE {}
    BY <1>1, <2>1, <2>3, QuotedIs
  <2>. QED
    BY <2>1, <2>2, <2>4 DEF u, Leading
<1>3. ASSUME \A y \in Seq(Byte) : ~(IsEscape4(v \o y) /\ Hex(v \o y, 3) \in Low), NEW y \in Seq(Byte)
      PROVE  Leading((z \o v) \o y, TRUE) = {}
  <2>1. v \o y \in Seq(Byte) /\ (z \o v) \o y = z \o (v \o y)
    BY <1>1, Regrouped
  <2>. QED
    BY <1>2, <1>3, <2>1
<1>. QED
  BY <1>2, <1>3 DEF Stuck

LEMMA EscapeStart ==
  ASSUME NEW c \in Byte
  PROVE  /\ <<Backslash, c>> \in Seq(Byte)
         /\ c \in DOMAIN Escapes => /\ Leading(<<Backslash, c>>, TRUE) = {<<2, Escapes[c]>>}
                                    /\ Leading(<<Escapes[c]>>, FALSE) = {<<1, Escapes[c]>>}
         /\ c \notin DOMAIN Escapes /\ c # Lower(21) => Stuck(<<Backslash, c>>)
<1>. DEFINE v == <<Backslash, c>>
<1>1. v \in Seq(Byte) /\ Len(v) = 2 /\ v[1] = Backslash /\ v[2] = c /\ v # <<>>
  BY QuoteByte
<1>. HIDE DEF v
<1>2. c \in DOMAIN Escapes => Leading(v, TRUE) = {<<2, Escapes[c]>>}
  BY <1>1, QuotedIs DEF Leading, IsShort
<1>3. c \in DOMAIN Escapes => Leading(<<Escapes[c]>>, FALSE) = {<<1, Escapes[c]>>}
  <2>. SUFFICES ASSUME c \in DOMAIN Escapes
                PROVE  Leading(<<Escapes[c]>>, FALSE) = {<<1, Escapes[c]>>}
    OBVIOUS
  <2>. DEFINE p == Escapes[c]
  <2>1. p \in Nat /\ p < \h80
    BY DEF Escapes, Quote, Backslash, Slash, Lower, LF, CR, HT
  <2>2. IsPoint(p)
    BY <2>1, SMT DEF IsPoint, High, Low
  <2>3. Encoded(p) = <<p>>
    BY <2>1 DEF Encoded
  <2>. HIDE DEF p
  <2>4. Leading(Encoded(p), FALSE) = {<<Len(Encoded(p)), p>>}
    BY <2>2, EncodedIs
  <2>5. Len(<<p>>) = 1
    OBVIOUS
  <2>. QED
    BY <2>3, <2>4, <2>5 DEF p
<1>4. ASSUME c \notin DOMAIN Escapes, c # Lower(21), NEW y \in Seq(Byte)
      PROVE  Leading(v \o y, TRUE) = {}
  <2>. DEFINE u == v \o y
  <2>1. /\ u \in Seq(Byte) /\ Len(u) = 2 + Len(y) /\ Len(y) \in Nat
        /\ u[1] = Backslash /\ u[2] = c
    <3>1. /\ u \in Seq(Byte) /\ Len(u) = Len(v) + Len(y) /\ Len(y) \in Nat
          /\ \A k \in 1 .. Len(v) : u[k] = v[k]
      BY <1>1, Joined
    <3>. HIDE DEF u
    <3>. QED
      BY <1>1, <3>1
  <2>. HIDE DEF u
  <2>2. u # <<>> /\ ~IsShort(u) /\ ~IsEscape4(u)
    BY <1>4, <2>1, EmptySeq DEF IsShort, IsEscape4
  <2>. QED
    BY <2>1, <2>2, QuotedIs DEF Leading, u
<1>5. c \notin DOMAIN Escapes /\ c # Lower(21) => Stuck(v)
  BY <1>4 DEF Stuck
<1>. QED
  BY <1>1, <1>2, <1>3, <1>5 DEF v

(* The digits of a \u escape.                                              *)
HexStart == <<Backslash, Lower(21)>>
HexSum(h) == 4096 * HexDigit(h[1]) + 256 * HexDigit(h[2]) + 16 * HexDigit(h[3]) + HexDigit(h[4])

LEMMA HexStartIs == HexStart \in Seq(Byte) /\ Len(HexStart) = 2 /\ HexStart[1] = Backslash /\ HexStart[2] = Lower(21)
<1>1. 21 \in 1 .. 26
  OBVIOUS
<1>2. Lower(21) \in Byte /\ Backslash \in Byte
  BY <1>1, QuoteByte
<1>. QED
  BY <1>2 DEF HexStart

LEMMA NotShort ==
  ASSUME NEW h \in Seq(Byte)
  PROVE  /\ HexStart \o h \in Seq(Byte) /\ Len(HexStart \o h) = 2 + Len(h) /\ Len(h) \in Nat
         /\ HexStart \o h # <<>> /\ (HexStart \o h)[1] = Backslash /\ (HexStart \o h)[2] = Lower(21)
         /\ \A k \in 1 .. Len(h) : (HexStart \o h)[2 + k] = h[k]
         /\ ~IsShort(HexStart \o h)
<1>. DEFINE v == HexStart \o h
<1>1. /\ v \in Seq(Byte) /\ Len(v) = Len(HexStart) + Len(h) /\ Len(h) \in Nat
      /\ \A k \in 1 .. Len(HexStart) : v[k] = HexStart[k]
      /\ \A k \in 1 .. Len(h) : v[Len(HexStart) + k] = h[k]
  BY HexStartIs, Joined
<1>. HIDE DEF v
<1>2. Len(v) = 2 + Len(h) /\ v[1] = Backslash /\ v[2] = Lower(21)
  BY <1>1, HexStartIs
<1>3. \A k \in 1 .. Len(h) : v[2 + k] = h[k]
  BY <1>1, HexStartIs
<1>4. v # <<>>
  BY <1>1, <1>2, EmptySeq
<1>5. Lower(21) \notin DOMAIN Escapes
  BY DEF Escapes, Lower, Quote, Backslash, Slash
<1>6. ~IsShort(v)
  BY <1>2, <1>5 DEF IsShort
<1>. QED
  BY <1>1, <1>2, <1>3, <1>4, <1>6 DEF v

LEMMA HexBad ==
  ASSUME NEW h \in Seq(Byte), Len(h) < 4, NEW c \in Byte, c \notin HexDigits, NEW y \in Seq(Byte)
  PROVE  ~IsEscape4((HexStart \o Append(h, c)) \o y)
<1>. DEFINE g == Append(h, c)
            v == HexStart \o g
            n == 3 + Len(h)
<1>1. g \in Seq(Byte) /\ Len(g) = Len(h) + 1 /\ g[Len(h) + 1] = c /\ Len(h) \in Nat
  BY AppendProperties, LenProperties
<1>. HIDE DEF g
<1>2. /\ v \in Seq(Byte) /\ Len(v) = 2 + Len(g)
      /\ \A k \in 1 .. Len(g) : v[2 + k] = g[k]
  BY <1>1, NotShort
<1>. HIDE DEF v
<1>3. n \in 1 .. 6 /\ n > 2 /\ n <= Len(v) /\ v[n] = c
  <2>1. Len(h) + 1 \in 1 .. Len(g) /\ 2 + (Len(h) + 1) = n
    BY <1>1
  <2>2. v[2 + (Len(h) + 1)] = c
    BY <1>1, <1>2, <2>1
  <2>. QED
    BY <1>1, <1>2, <2>1, <2>2
<1>. HIDE DEF n
<1>4. ~IsEscape4(v \o y)
  BY <1>2, <1>3, NotAnEscape
<1>. QED
  BY <1>4 DEF v, g

LEMMA HexAt ==
  ASSUME NEW v \in Seq(Byte), NEW k \in Nat \ {0}, k + 3 <= Len(v), Hex4(v, k)
  PROVE  Hex(v, k) \in Nat /\ Hex(v, k) <= \hFFFF
BY HexNumber

LEMMA HexDigitAt ==
  ASSUME NEW v \in Seq(Byte), NEW k \in Nat \ {0}, k + 3 <= Len(v), Hex4(v, k), NEW m \in k .. k + 3
  PROVE  HexValue(v[m]) = HexDigit(v[m])
BY HexNumber

HexFits(s, k) == Hex(s, k) \in Nat /\ Hex(s, k) <= \hFFFF
LEMMA HexFrom ==
  ASSUME NEW v \in Seq(Byte), NEW k \in Nat \ {0}, k + 3 <= Len(v), Hex4(v, k)
  PROVE  /\ HexFits(v, k)
         /\ Hex(v, k) =
              4096 * HexDigit(v[k]) + 256 * HexDigit(v[k + 1]) + 16 * HexDigit(v[k + 2]) + HexDigit(v[k + 3])
<1>6. k \in k .. k + 3 /\ k + 1 \in k .. k + 3 /\ k + 2 \in k .. k + 3 /\ k + 3 \in k .. k + 3
  OBVIOUS
<1>4. HexValue(v[k]) = HexDigit(v[k]) /\ HexValue(v[k + 1]) = HexDigit(v[k + 1])
      /\ HexValue(v[k + 2]) = HexDigit(v[k + 2]) /\ HexValue(v[k + 3]) = HexDigit(v[k + 3])
  BY <1>6, HexDigitAt
<1>5. Hex(v, k) = 4096 * HexDigit(v[k]) + 256 * HexDigit(v[k + 1]) + 16 * HexDigit(v[k + 2]) + HexDigit(v[k + 3])
  BY <1>4 DEF Hex
<1>. QED
  BY <1>5, HexAt DEF HexFits

LEMMA HexFromThree ==
  ASSUME NEW v \in Seq(Byte), Len(v) = 6, Hex4(v, 3)
  PROVE  /\ HexFits(v, 3)
         /\ Hex(v, 3) = 4096 * HexDigit(v[3]) + 256 * HexDigit(v[4]) + 16 * HexDigit(v[5]) + HexDigit(v[6])
<1>1. 3 \in Nat \ {0} /\ 3 + 3 <= Len(v) /\ 3 + 1 = 4 /\ 3 + 2 = 5 /\ 3 + 3 = 6
  OBVIOUS
<1>2. HexFits(v, 3)
  BY <1>1, HexFrom
<1>4. Hex(v, 3) = 4096 * HexDigit(v[3]) + 256 * HexDigit(v[3 + 1]) + 16 * HexDigit(v[3 + 2]) + HexDigit(v[3 + 3])
  BY <1>1, HexFrom
<1>. QED
  BY <1>1, <1>2, <1>4

LEMMA HexGood ==
  ASSUME NEW h \in Seq(Byte), Len(h) = 4, \A n \in 1 .. 4 : h[n] \in HexDigits
  PROVE  /\ IsEscape4(HexStart \o h) /\ Len(HexStart \o h) = 6
         /\ Hex(HexStart \o h, 3) = HexSum(h) /\ HexFits(HexStart \o h, 3)
<1>. DEFINE v == HexStart \o h
<1>1. /\ v \in Seq(Byte) /\ Len(v) = 6 /\ v[1] = Backslash /\ v[2] = Lower(21)
      /\ \A k \in 1 .. 4 : v[2 + k] = h[k]
  <2>1. /\ v \in Seq(Byte) /\ Len(v) = 2 + Len(h) /\ v[1] = Backslash /\ v[2] = Lower(21)
        /\ \A k \in 1 .. Len(h) : v[2 + k] = h[k]
    BY NotShort
  <2>. HIDE DEF v
  <2>. QED
    BY <2>1
<1>. HIDE DEF v
<1>2. v[3] = h[1] /\ v[4] = h[2] /\ v[5] = h[3] /\ v[6] = h[4]
  <2>1. v[2 + 1] = h[1] /\ v[2 + 2] = h[2] /\ v[2 + 3] = h[3] /\ v[2 + 4] = h[4]
    BY <1>1
  <2>. QED
    BY <2>1
<1>3. \A k \in 3 .. 3 + 3 : k = 3 \/ k = 4 \/ k = 5 \/ k = 6
  OBVIOUS
<1>4. Hex4(v, 3)
  BY <1>2, <1>3 DEF Hex4
<1>5. IsEscape4(v)
  BY <1>1, <1>4 DEF IsEscape4
<1>6. /\ HexFits(v, 3)
      /\ Hex(v, 3) = 4096 * HexDigit(v[3]) + 256 * HexDigit(v[4]) + 16 * HexDigit(v[5]) + HexDigit(v[6])
  BY <1>1, <1>4, HexFromThree, SMT
<1>7. Hex(v, 3) = HexSum(h)
  BY <1>2, <1>6, SMT DEF HexSum
<1>. QED
  BY <1>1, <1>5, <1>6, <1>7, SMT DEF v

-------------------------------------------------------------------------------
(* What was read of a string: the characters C that are whole, for which   *)
(* the buffer keeps b, and the beginning t of the next one.                *)
Kept(C, b) == In(Decoded(C, TRUE), Nat) /\ Decoded(b, FALSE) = Decoded(C, TRUE)

(* The first half of a pair, if there is one, and its value.               *)
Half(z, p) == (z = <<>> /\ p = <<>>) \/ (HighHalf(z) /\ p = <<Hex(z, 3)>>)
TailPart(t, e) ==
  /\ TailOf(t) /\ e # <<>> /\ Len(t) + Len(e) = Width(t[1])
  /\ \A k \in 1 .. Len(e) : e[k] = Continuation(t[1])[Len(t) - 1 + k]
DigitsOf(h, d) == /\ Len(h) = Len(d) /\ Len(h) < 4
                  /\ \A n \in 1 .. Len(h) : h[n] \in HexDigits /\ d[n] = HexDigit(h[n])
HexPart(t, p, d) == \E z, h \in Seq(Byte) : Half(z, p) /\ t = z \o (HexStart \o h) /\ DigitsOf(h, d)
PairPart(t, p) == \E z \in Seq(Byte) : HighHalf(z) /\ p = <<Hex(z, 3)>> /\ t = z \o <<Backslash>>
Pending(at, t, x, e, p, d) ==
  \/ at = "string" /\ t = <<>> /\ x = <<>>
  \/ at = "tail" /\ x = t /\ TailPart(t, e)
  \/ at = "escape" /\ x = <<>> /\ t = <<Backslash>> /\ p = <<>>
  \/ at = "hex" /\ x = <<>> /\ HexPart(t, p, d)
  \/ at = "pair" /\ x = <<>> /\ HighHalf(t) /\ p = <<Hex(t, 3)>>
  \/ at = "pair_u" /\ x = <<>> /\ PairPart(t, p)

LEMMA KeptMore ==
  ASSUME NEW C \in Seq(Byte), NEW b \in Seq(Byte), Kept(C, b),
         NEW t \in Seq(Byte), t # <<>>, NEW u \in Seq(Byte), u # <<>>, NEW p \in Nat,
         Leading(t, TRUE) = {<<Len(t), p>>}, Leading(u, FALSE) = {<<Len(u), p>>}
  PROVE  Kept(C \o t, b \o u) /\ C \o t \in Seq(Byte) /\ b \o u \in Seq(Byte)
<1>1. In(Decoded(C, TRUE), Nat) /\ Decoded(b, FALSE) = Decoded(C, TRUE)
  BY DEF Kept
<1>2. In(Decoded(b, FALSE), Nat)
  BY <1>1
<1>3. Decoded(C \o t, TRUE) = Decoded(C, TRUE) \o <<p>> /\ In(Decoded(C \o t, TRUE), Nat)
  BY <1>1, DecodedMore
<1>4. Decoded(b \o u, FALSE) = Decoded(b, FALSE) \o <<p>>
  BY <1>2, DecodedMore
<1>. QED
  BY <1>1, <1>3, <1>4, ConcatProperties DEF Kept

(* The text of one character, in a string and by itself.                   *)
IsChar(w) == \E p \in Nat : Leading(w, TRUE) = {<<Len(w), p>>} /\ Leading(w, FALSE) = {<<Len(w), p>>}

LEMMA TailStep ==
  ASSUME NEW t, NEW e \in Seq(SUBSET Byte), TailPart(t, e), NEW c \in Byte
  PROVE  /\ c \notin Head(e) => Stuck(Append(t, c))
         /\ c \in Head(e) /\ Len(e) > 1 => TailPart(Append(t, c), Tail(e))
         /\ c \in Head(e) /\ ~(Len(e) > 1) => IsChar(Append(t, c))
<1>. DEFINE n == Len(t)
            m == Len(e)
            w == Append(t, c)
            K == Continuation(t[1])
<1>1. /\ TailOf(t) /\ e # <<>> /\ n + m = Width(t[1]) /\ m \in Nat /\ m # 0
      /\ \A k \in 1 .. m : e[k] = K[n - 1 + k]
  BY LenProperties, EmptySeq DEF TailPart
<1>2. t \in Seq(Byte) /\ t # <<>> /\ t[1] \in \hC2 .. \hF4 /\ n \in Nat /\ n # 0
  BY <1>1, LenProperties, EmptySeq DEF TailOf
<1>3. /\ Width(t[1]) \in 2 .. 4
      /\ \A b \in Byte : b \in K[1] <=> b \in Tails /\ Second(t[1], b)
      /\ \A k \in 2 .. Width(t[1]) - 1 : K[k] = Tails
  BY <1>2, ContinuationIs
<1>4. Head(e) = K[n]
  <2>1. Head(e) = e[1]
    BY <1>1
  <2>2. 1 \in 1 .. m /\ n - 1 + 1 = n
    BY <1>1, <1>2
  <2>. HIDE DEF K, n, m
  <2>3. e[1] = K[n - 1 + 1]
    BY <1>1, <2>2
  <2>. QED
    BY <2>1, <2>2, <2>3
<1>5. c \in Head(e) <=> FollowsLast(t, c)
  <2>1. CASE n = 1
    BY <1>3, <1>4, <2>1 DEF FollowsLast
  <2>2. CASE n # 1
    <3>1. n \in 2 .. Width(t[1]) - 1
      <4>. DEFINE W == Width(t[1])
      <4>1. W \in 2 .. 4 /\ n + m = W /\ m \in Nat /\ m # 0 /\ n \in Nat /\ n # 0
        BY <1>1, <1>2, <1>3
      <4>. HIDE DEF W, n, m
      <4>2. n \in 2 .. W - 1
        BY <2>2, <4>1
      <4>. QED
        BY <4>2 DEF W
    <3>2. K[n] = Tails
      BY <1>3, <3>1
    <3>. QED
      BY <1>4, <2>2, <3>2 DEF FollowsLast
  <2>. QED
    BY <2>1, <2>2
<1>6. /\ w \in Seq(Byte) /\ Len(w) = n + 1 /\ w[1] = t[1]
  BY <1>2, Appended
<1>7. ASSUME c \in Head(e), m > 1
      PROVE  TailPart(w, Tail(e))
  <2>1. Tail(e) \in Seq(SUBSET Byte) /\ Len(Tail(e)) = m - 1 /\ \A k \in 1 .. m - 1 : Tail(e)[k] = e[k + 1]
    BY <1>7, TailElements
  <2>2. TailOf(w)
    BY <1>1, <1>2, <1>5, <1>7, TailMore
  <2>. HIDE DEF w, n, m, K
  <2>3. Tail(e) # <<>>
    <3>1. m - 1 # 0
      BY <1>1, <1>7
    <3>. QED
      BY <2>1, <3>1
  <2>4. ASSUME NEW k \in 1 .. m - 1
        PROVE  Tail(e)[k] = K[Len(w) - 1 + k]
    <3>1. k + 1 \in 1 .. m /\ n - 1 + (k + 1) = n + k /\ Len(w) - 1 + k = n + k
      BY <1>1, <1>2, <1>6
    <3>. QED
      BY <1>1, <2>1, <3>1
  <2>5. Len(w) + Len(Tail(e)) = Width(w[1])
    <3>1. (n + 1) + (m - 1) = n + m
      BY <1>1, <1>2
    <3>. QED
      BY <1>1, <1>6, <2>1, <3>1
  <2>. QED
    BY <1>6, <2>1, <2>2, <2>3, <2>4, <2>5 DEF TailPart, K
<1>8. ~(m > 1) => n + 1 = Width(t[1])
  BY <1>1, <1>2
<1>9. c \in Head(e) /\ ~(m > 1) => IsChar(w)
  <2>1. SUFFICES ASSUME c \in Head(e), ~(m > 1) PROVE IsChar(w)
    OBVIOUS
  <2>2. \E p \in Nat : \A q \in BOOLEAN : Leading(w, q) = {<<Len(w), p>>}
    BY <1>1, <1>5, <1>8, <2>1, TailMore
  <2>. HIDE DEF w
  <2>. QED
    BY <2>2 DEF IsChar
<1>. QED
  BY <1>1, <1>5, <1>7, <1>9, TailMore

LEMMA EscapeStep ==
  ASSUME NEW c \in Byte
  PROVE  LET w == Append(<<Backslash>>, c) IN
         /\ w = <<Backslash, c>> /\ w \in Seq(Byte) /\ Len(w) = 2
         /\ c \in DOMAIN Unescaped =>
              /\ Leading(w, TRUE) = {<<Len(w), Unescaped[c]>>}
              /\ Leading(<<Unescaped[c]>>, FALSE) = {<<1, Unescaped[c]>>}
              /\ Unescaped[c] \in Byte /\ Unescaped[c] \in Nat
         /\ c = Lower(21) => HexPart(w, <<>>, <<>>)
         /\ c \notin DOMAIN Unescaped /\ c # Lower(21) => Stuck(w)
<1>. DEFINE w == Append(<<Backslash>>, c)
            v == <<Backslash, c>>
<1>1. w = v
  BY QuoteByte, AppendOne
<1>2. v \in Seq(Byte) /\ Len(v) = 2
  BY EscapeStart
<1>. HIDE DEF w
<1>3. c \in DOMAIN Unescaped =>
        /\ Leading(w, TRUE) = {<<Len(w), Unescaped[c]>>}
        /\ Leading(<<Unescaped[c]>>, FALSE) = {<<1, Unescaped[c]>>}
        /\ Unescaped[c] \in Byte /\ Unescaped[c] \in Nat
  BY <1>1, <1>2, EscapeStart, UnescapedIs, EscapesNat
<1>4. c \notin DOMAIN Unescaped /\ c # Lower(21) => Stuck(w)
  BY <1>1, EscapeStart, UnescapedIs
<1>5. c = Lower(21) => HexPart(w, <<>>, <<>>)
  <2>1. ASSUME c = Lower(21)
        PROVE  w = <<>> \o (HexStart \o <<>>)
    <3>1. HexStart \in Seq(Byte)
      BY HexStartIs
    <3>2. w = HexStart
      BY <1>1, <2>1 DEF HexStart
    <3>. QED
      BY <3>1, <3>2, ConcatEmptySeq
  <2>2. Half(<<>>, <<>>) /\ DigitsOf(<<>>, <<>>) /\ <<>> \in Seq(Byte)
    BY DEF Half, DigitsOf
  <2>. QED
    BY <2>1, <2>2 DEF HexPart
<1>. QED
  BY <1>1, <1>2, <1>3, <1>4, <1>5 DEF w

LEMMA PairStep ==
  ASSUME NEW t, NEW p, NEW c \in Byte
  PROVE  /\ HighHalf(t) /\ p = <<Hex(t, 3)>> => IF c = Backslash THEN PairPart(Append(t, c), p)
                                                ELSE Stuck(Append(t, c))
         /\ PairPart(t, p) => IF c = Lower(21) THEN HexPart(Append(t, c), p, <<>>)
                              ELSE Stuck(Append(t, c))
<1>0. Backslash \in Byte /\ <<Backslash>> \in Seq(Byte) /\ <<c>> \in Seq(Byte) /\ <<>> \in Seq(Byte)
  BY QuoteByte, OneByte
<1>1. ASSUME HighHalf(t), p = <<Hex(t, 3)>>
      PROVE  IF c = Backslash THEN PairPart(Append(t, c), p) ELSE Stuck(Append(t, c))
  <2>1. t \in Seq(Byte) /\ Append(t, c) = t \o <<c>>
    BY <1>1, AppendIsConcat DEF HighHalf
  <2>2. c = Backslash => PairPart(Append(t, c), p)
    BY <1>1, <2>1 DEF PairPart
  <2>3. ASSUME c # Backslash, NEW y \in Seq(Byte)
        PROVE  ~IsEscape4(<<c>> \o y)
    <3>1. 1 \in 1 .. 6 /\ 1 <= Len(<<c>>) /\ <<c>>[1] # Backslash
      BY <2>3
    <3>. QED
      BY <1>0, <3>1, NotAnEscape
  <2>4. c # Backslash => Stuck(t \o <<c>>)
    BY <1>0, <1>1, <2>3, AfterHalf
  <2>. QED
    BY <2>1, <2>2, <2>4
<1>2. ASSUME PairPart(t, p)
      PROVE  IF c = Lower(21) THEN HexPart(Append(t, c), p, <<>>) ELSE Stuck(Append(t, c))
  <2>1. PICK z \in Seq(Byte) : HighHalf(z) /\ p = <<Hex(z, 3)>> /\ t = z \o <<Backslash>>
    BY <1>2 DEF PairPart
  <2>. DEFINE v == <<Backslash, c>>
  <2>2. v \in Seq(Byte) /\ Len(v) = 2 /\ v[2] = c
    BY EscapeStart
  <2>3. Append(t, c) = z \o v
    <3>1. Append(t, c) = z \o Append(<<Backslash>>, c)
      BY <1>0, <2>1, AppendJoined
    <3>2. Append(<<Backslash>>, c) = v
      BY <1>0, AppendOne
    <3>. QED
      BY <3>1, <3>2
  <2>4. ASSUME c = Lower(21)
        PROVE  HexPart(Append(t, c), p, <<>>)
    <3>1. v = HexStart /\ HexStart \in Seq(Byte)
      BY <2>4, HexStartIs DEF HexStart
    <3>2. HexStart \o <<>> = HexStart
      BY <3>1, ConcatEmptySeq
    <3>3. Half(z, p) /\ DigitsOf(<<>>, <<>>)
      BY <2>1 DEF Half, DigitsOf
    <3>4. Append(t, c) = z \o (HexStart \o <<>>)
      BY <2>3, <3>1, <3>2
    <3>. QED
      BY <1>0, <3>3, <3>4 DEF HexPart
  <2>5. ASSUME c # Lower(21), NEW y \in Seq(Byte)
        PROVE  ~IsEscape4(v \o y)
    <3>1. 2 \in 1 .. 6 /\ 2 <= Len(v) /\ v[2] # Lower(21)
      BY <2>2, <2>5
    <3>. HIDE DEF v
    <3>. QED
      BY <2>2, <3>1, NotAnEscape
  <2>. HIDE DEF v
  <2>6. c # Lower(21) => Stuck(z \o v)
    BY <2>1, <2>2, <2>5, AfterHalf
  <2>. QED
    BY <2>3, <2>4, <2>6
<1>. QED
  BY <1>1, <1>2

LEMMA HexStuck ==
  ASSUME NEW g \in Seq(Byte),
         \A y \in Seq(Byte) : IsEscape4((HexStart \o g) \o y) => Hex((HexStart \o g) \o y, 3) \in Low
  PROVE  Stuck(HexStart \o g)
<1>1. ASSUME NEW y \in Seq(Byte)
      PROVE  Leading((HexStart \o g) \o y, TRUE) = {}
  <2>. DEFINE u == (HexStart \o g) \o y
              k == g \o y
  <2>1. k \in Seq(Byte) /\ u = HexStart \o k
    BY HexStartIs, Regrouped
  <2>. HIDE DEF u, k
  <2>2. u \in Seq(Byte) /\ u # <<>> /\ u[1] = Backslash /\ ~IsShort(u)
    BY <2>1, NotShort
  <2>3. IsEscape4(u) => Hex(u, 3) \in Low
    BY <1>1 DEF u
  <2>4. Quoted(u) = {}
    BY <2>2, <2>3, QuotedIs
  <2>. QED
    BY <2>4 DEF Leading, u
<1>. QED
  BY <1>1 DEF Stuck

LEMMA HexAdded ==
  ASSUME NEW h \in Seq(Byte), NEW d \in Seq(-1 .. 15), DigitsOf(h, d), NEW c \in Byte, HexDigit(c) # -1
  PROVE  LET g == Append(h, c)
             e == Append(d, HexDigit(c))
         IN  /\ g \in Seq(Byte) /\ e \in Seq(-1 .. 15) /\ Len(g) = Len(d) + 1 /\ Len(e) = Len(d) + 1
             /\ \A n \in 1 .. Len(g) : g[n] \in HexDigits /\ e[n] = HexDigit(g[n])
<1>. DEFINE g == Append(h, c)
            x == HexDigit(c)
            e == Append(d, x)
<1>1. /\ Len(h) = Len(d) /\ Len(h) \in Nat /\ Len(d) \in Nat
      /\ \A n \in 1 .. Len(h) : h[n] \in HexDigits /\ d[n] = HexDigit(h[n])
  BY LenProperties DEF DigitsOf
<1>2. c \in HexDigits /\ x \in -1 .. 15
  <2>1. c \in -1 .. 255
    BY DEF Byte
  <2>2. c \in HexDigits /\ x \in 0 .. 15
    BY <2>1, HexIs
  <2>. HIDE DEF x
  <2>. QED
    BY <2>2
<1>3. g \in Seq(Byte) /\ Len(g) = Len(h) + 1 /\ g[Len(h) + 1] = c /\ \A n \in 1 .. Len(h) : g[n] = h[n]
  BY Appended
<1>4. e \in Seq(-1 .. 15) /\ Len(e) = Len(d) + 1 /\ e[Len(d) + 1] = x /\ \A n \in 1 .. Len(d) : e[n] = d[n]
  <2>. HIDE DEF x
  <2>. QED
    BY <1>2, AppendProperties
<1>. HIDE DEF g, e
<1>5. ASSUME NEW n \in 1 .. Len(g)
      PROVE  g[n] \in HexDigits /\ e[n] = HexDigit(g[n])
  <2>1. CASE n = Len(h) + 1
    BY <1>1, <1>2, <1>3, <1>4, <2>1
  <2>2. CASE n # Len(h) + 1
    <3>1. n \in 1 .. Len(h) /\ n \in 1 .. Len(d)
      BY <1>1, <1>3, <2>2
    <3>. QED
      BY <1>1, <1>3, <1>4, <3>1
  <2>. QED
    BY <2>1, <2>2
<1>. QED
  BY <1>1, <1>3, <1>4, <1>5 DEF g, e

LEMMA HexJoined ==
  ASSUME NEW z \in Seq(Byte), NEW h \in Seq(Byte), NEW c \in Byte
  PROVE  /\ Append(z \o (HexStart \o h), c) = z \o (HexStart \o Append(h, c))
         /\ Append(z \o (HexStart \o h), c) \in Seq(Byte) /\ HexStart \o h \in Seq(Byte)
<1>1. HexStart \in Seq(Byte) /\ HexStart \o h \in Seq(Byte)
  BY HexStartIs, ConcatProperties
<1>2. /\ Append(z \o (HexStart \o h), c) = z \o Append(HexStart \o h, c)
      /\ Append(HexStart \o h, c) = HexStart \o Append(h, c)
      /\ Append(HexStart \o h, c) \in Seq(Byte)
  BY <1>1, AppendJoined, AppendProperties
<1>. QED
  BY <1>1, <1>2, ConcatProperties

LEMMA HexStep ==
  ASSUME NEW t, NEW p, NEW d \in Seq(-1 .. 15), HexPart(t, p, d), NEW c \in Byte
  PROVE  /\ HexDigit(c) = -1 => Stuck(Append(t, c))
         /\ HexDigit(c) # -1 /\ Len(d) + 1 < 4 => HexPart(Append(t, c), p, Append(d, HexDigit(c)))
<1>1. PICK z \in Seq(Byte), h \in Seq(Byte) : Half(z, p) /\ t = z \o (HexStart \o h) /\ DigitsOf(h, d)
  BY DEF HexPart
<1>. DEFINE w == Append(t, c)
            g == Append(h, c)
            v == HexStart \o g
<1>2. w = z \o v /\ w \in Seq(Byte) /\ g \in Seq(Byte) /\ v \in Seq(Byte)
  BY <1>1, HexJoined, AppendProperties
<1>3. HexDigit(c) # -1 /\ Len(d) + 1 < 4 => HexPart(w, p, Append(d, HexDigit(c)))
  <2>. DEFINE e == Append(d, HexDigit(c))
  <2>1. ASSUME HexDigit(c) # -1, Len(d) + 1 < 4
        PROVE  DigitsOf(g, e)
    <3>1. /\ Len(g) = Len(d) + 1 /\ Len(e) = Len(d) + 1
          /\ \A n \in 1 .. Len(g) : g[n] \in HexDigits /\ e[n] = HexDigit(g[n])
      BY <1>1, <2>1, HexAdded
    <3>. HIDE DEF g, e
    <3>. QED
      BY <2>1, <3>1 DEF DigitsOf
  <2>. HIDE DEF w, g, e
  <2>. QED
    BY <1>1, <1>2, <2>1 DEF HexPart, e
<1>4. ASSUME HexDigit(c) = -1, NEW y \in Seq(Byte)
      PROVE  ~IsEscape4(v \o y)
  <2>1. Len(h) < 4 /\ c \in -1 .. 255
    BY <1>1 DEF DigitsOf, Byte
  <2>2. c \notin HexDigits
    BY <1>4, <2>1, HexIs
  <2>. QED
    BY <2>1, <2>2, HexBad
<1>5. HexDigit(c) = -1 => Stuck(w)
  <2>. SUFFICES ASSUME HexDigit(c) = -1 PROVE Stuck(w)
    OBVIOUS
  <2>1. \A y \in Seq(Byte) : ~IsEscape4(v \o y)
    BY <1>4
  <2>2. CASE z = <<>>
    <3>1. Stuck(v)
      BY <1>2, <2>1, HexStuck
    <3>2. w = v
      <4>. HIDE DEF w, v
      <4>. QED
        BY <1>2, <2>2, ConcatEmptySeq
    <3>. QED
      BY <3>1, <3>2
  <2>3. CASE HighHalf(z)
    <3>. HIDE DEF w, v
    <3>1. Stuck(z \o v)
      BY <1>2, <2>1, <2>3, AfterHalf
    <3>. QED
      BY <1>2, <3>1
  <2>. QED
    BY <1>1, <2>2, <2>3 DEF Half
<1>. QED
  BY <1>3, <1>5

(* After the fourth digit.                                                 *)
LEMMA HexDone ==
  ASSUME NEW t, NEW p, NEW d \in Seq(-1 .. 15), HexPart(t, p, d), NEW c \in Byte,
         HexDigit(c) # -1, ~(Len(d) + 1 < 4)
  PROVE  LET w == Append(t, c)
             v == Four(Append(d, HexDigit(c)))
         IN  /\ v \in CodeUnit /\ w \in Seq(Byte) /\ w # <<>>
             /\ p = <<>> =>
                  /\ v \in High => HighHalf(w) /\ Hex(w, 3) = v
                  /\ v \in Low => Stuck(w)
                  /\ v \notin High \cup Low => Leading(w, TRUE) = {<<Len(w), v>>}
             /\ p # <<>> =>
                  \E q \in High : /\ p = <<q>>
                                  /\ IF v \in Low THEN Leading(w, TRUE) = {<<Len(w), Both(q, v)>>}
                                     ELSE Stuck(w)
<1>1. PICK z \in Seq(Byte), h \in Seq(Byte) : Half(z, p) /\ t = z \o (HexStart \o h) /\ DigitsOf(h, d)
  BY DEF HexPart
<1>. DEFINE w == Append(t, c)
            g == Append(h, c)
            e == Append(d, HexDigit(c))
            u == HexStart \o g
            v == Four(e)
<1>2. w = z \o u /\ w \in Seq(Byte) /\ g \in Seq(Byte) /\ u \in Seq(Byte)
  BY <1>1, HexJoined, AppendProperties
<1>3. Len(g) = 4 /\ \A n \in 1 .. 4 : g[n] \in HexDigits /\ e[n] = HexDigit(g[n])
  <2>1. Len(d) \in Nat /\ Len(d) < 4
    BY <1>1, LenProperties DEF DigitsOf
  <2>2. Len(d) + 1 = 4
    BY <2>1
  <2>3. Len(g) = Len(d) + 1 /\ \A n \in 1 .. Len(g) : g[n] \in HexDigits /\ e[n] = HexDigit(g[n])
    BY <1>1, HexAdded
  <2>. HIDE DEF g, e
  <2>. QED
    BY <2>2, <2>3
<1>. HIDE DEF w, g, e
<1>4. IsEscape4(u) /\ Len(u) = 6 /\ Hex(u, 3) = HexSum(g) /\ HexFits(u, 3)
  <2>1. \A n \in 1 .. 4 : g[n] \in HexDigits
    BY <1>3
  <2>. QED
    BY <1>2, <1>3, <2>1, HexGood
<1>5. v = HexSum(g)
  <2>1. 1 \in 1 .. 4 /\ 2 \in 1 .. 4 /\ 3 \in 1 .. 4 /\ 4 \in 1 .. 4
    OBVIOUS
  <2>2. e[1] = HexDigit(g[1]) /\ e[2] = HexDigit(g[2]) /\ e[3] = HexDigit(g[3]) /\ e[4] = HexDigit(g[4])
    BY <1>3, <2>1
  <2>. QED
    BY <2>2 DEF Four, HexSum
<1>6. u # <<>> /\ u[1] = Backslash /\ ~IsShort(u)
  BY <1>2, NotShort
<1>7. \A y \in Seq(Byte) : IsEscape4(u \o y) /\ Hex(u \o y, 3) = Hex(u, 3)
  <2>. HIDE DEF u
  <2>. QED
    BY <1>2, <1>4, Escape4Joined
<1>8. v \in Low => Stuck(u)
  BY <1>2, <1>4, <1>5, <1>7, HexStuck
<1>. HIDE DEF u, v
<1>9. v = Hex(u, 3) /\ v \in CodeUnit
  BY <1>4, <1>5, SMT DEF HexFits, CodeUnit
<1>14. Len(w) = Len(z) + 6 /\ Len(z) \in Nat
  <2>1. z \in Seq(Byte) /\ u \in Seq(Byte)
    BY <1>1, <1>2
  <2>2. Len(z \o u) = Len(z) + Len(u) /\ Len(z) \in Nat
    BY <2>1, Joined
  <2>. QED
    BY <1>2, <1>4, <2>2
<1>10. w # <<>>
  <2>1. Len(w) # 0
    BY <1>14
  <2>. QED
    BY <1>2, <2>1, EmptySeq
<1>11. CASE z = <<>> /\ p = <<>>
  <2>1. w = u
    BY <1>2, <1>11, ConcatEmptySeq
  <2>2. v \in High => HighHalf(w) /\ Hex(w, 3) = v
    BY <1>2, <1>4, <1>9, <2>1 DEF HighHalf
  <2>3. v \notin High \cup Low => Leading(w, TRUE) = {<<Len(w), v>>}
    <3>1. v \notin High \cup Low => Quoted(u) = {<<6, Hex(u, 3)>>}
      BY <1>2, <1>4, <1>6, <1>9, QuotedIs
    <3>. QED
      BY <1>4, <1>9, <2>1, <3>1 DEF Leading
  <2>. QED
    BY <1>2, <1>8, <1>9, <1>10, <1>11, <2>1, <2>2, <2>3 DEF w, v, e
<1>12. CASE HighHalf(z) /\ p = <<Hex(z, 3)>>
  <2>. DEFINE q == Hex(z, 3)
  <2>1. q \in High /\ p = <<q>> /\ p # <<>>
    BY <1>12 DEF HighHalf
  <2>2. v \in Low => Leading(w, TRUE) = {<<Len(w), Both(q, v)>>}
    <3>1. Len(w) = 12
      <4>1. Len(z) = 6
        BY <1>12 DEF HighHalf
      <4>. QED
        BY <1>14, <4>1
    <3>2. Leading(z \o u, TRUE) =
            IF IsEscape4(u) /\ Hex(u, 3) \in Low THEN {<<12, Both(Hex(z, 3), Hex(u, 3))>>} ELSE {}
      BY <1>2, <1>12, AfterHalf
    <3>. QED
      BY <1>2, <1>4, <1>9, <3>1, <3>2
  <2>3. v \notin Low => Stuck(w)
    <3>1. v \notin Low => \A y \in Seq(Byte) : ~(IsEscape4(u \o y) /\ Hex(u \o y, 3) \in Low)
      BY <1>7, <1>9
    <3>2. v \notin Low => Stuck(z \o u)
      BY <1>2, <1>12, <3>1, AfterHalf
    <3>. QED
      BY <1>2, <3>2
  <2>. HIDE DEF q
  <2>. QED
    BY <1>2, <1>9, <1>10, <2>1, <2>2, <2>3 DEF w, v, e
<1>13. (z = <<>> /\ p = <<>>) \/ (HighHalf(z) /\ p = <<Hex(z, 3)>>)
  BY <1>1 DEF Half
<1>. QED
  BY <1>11, <1>12, <1>13

-------------------------------------------------------------------------------
(* The first byte of a character.                                          *)
LEMMA PlainByte ==
  ASSUME NEW c \in Plain, NEW q \in BOOLEAN
  PROVE  c \in Byte /\ c \in Nat /\ Leading(<<c>>, q) = {<<Len(<<c>>), c>>}
<1>. DEFINE s == <<c>>
<1>1. c \in Byte /\ c \in Nat /\ c # Backslash /\ c # Quote /\ c >= \h20 /\ c < \h80
  BY DEF Plain, Byte, Backslash, Quote
<1>2. s \in Seq(Byte) /\ Len(s) = 1 /\ s[1] = c /\ s # <<>>
  BY <1>1, OneByte
<1>. HIDE DEF s
<1>3. Width(c) = 1 /\ c \in Starts
  BY <1>1 DEF Width, Starts
<1>4. OneChar(s)
  BY <1>2, <1>3 DEF OneChar
<1>5. Raw(s) = {<<1, c>>}
  <2>1. Raw(s) = {<<Width(s[1]), CodePoint(s, Width(s[1]))>>}
    BY <1>2, <1>4, RawIs
  <2>2. CodePoint(s, 1) = s[1]
    BY PointOf
  <2>. QED
    BY <1>2, <1>3, <2>1, <2>2
<1>6. Quoted(s) = Raw(s)
  BY <1>1, <1>2, SMT DEF Quoted
<1>. QED
  BY <1>1, <1>2, <1>5, <1>6 DEF Leading, s

LEMMA TailByte ==
  ASSUME NEW c \in \hC2 .. \hF4
  PROVE  c \in Byte /\ TailPart(<<c>>, Continuation(c))
<1>. DEFINE t == <<c>>
            e == Continuation(c)
<1>0. c \in Byte
  BY SMT DEF Byte
<1>1. t \in Seq(Byte) /\ Len(t) = 1 /\ t[1] = c /\ t # <<>>
  BY <1>0, OneByte
<1>2. Width(c) \in 2 .. 4 /\ Len(e) = Width(c) - 1
  BY ContinuationIs
<1>3. e \in Seq(SUBSET Byte) /\ e # <<>>
  BY ContinuationType
<1>. HIDE DEF t, e
<1>4. Len(t) < Width(t[1]) /\ Len(t) + Len(e) = Width(t[1])
  <2>. DEFINE W == Width(c)
  <2>1. W \in 2 .. 4 /\ Len(e) = W - 1 /\ Len(t) = 1
    BY <1>1, <1>2
  <2>. HIDE DEF W
  <2>2. Len(t) < W /\ Len(t) + Len(e) = W
    BY <2>1
  <2>. QED
    BY <1>1, <2>2 DEF W
<1>5. TailOf(t)
  BY <1>1, <1>4 DEF TailOf
<1>6. \A k \in 1 .. Len(e) : e[k] = Continuation(t[1])[Len(t) - 1 + k]
  BY <1>1 DEF e
<1>. QED
  BY <1>0, <1>3, <1>4, <1>5, <1>6 DEF TailPart, t, e

LEMMA BadByte ==
  ASSUME NEW c \in Control \cup (\h80 .. \hC1) \cup (\hF5 .. \hFF)
  PROVE  c \in Byte /\ c # Quote /\ Stuck(<<c>>)
<1>1. c \in Byte /\ c # Quote /\ c # Backslash /\ (c < \h20 \/ (c \notin Starts /\ c >= \h20))
  BY SMT DEF Control, Byte, Quote, Backslash, Starts
<1>2. ASSUME NEW y \in Seq(Byte)
      PROVE  Leading(<<c>> \o y, TRUE) = {}
  <2>. DEFINE s == <<c>>
              u == s \o y
  <2>1. s \in Seq(Byte) /\ Len(s) = 1 /\ s[1] = c
    BY <1>1, OneByte
  <2>. HIDE DEF s
  <2>2. u \in Seq(Byte) /\ Len(u) = 1 + Len(y) /\ Len(y) \in Nat /\ u[1] = c
    BY <2>1, Joined
  <2>. HIDE DEF u
  <2>3. u # <<>>
    BY <2>2, EmptySeq
  <2>4. CASE c < \h20
    <3>1. ~(u[1] >= \h20)
      BY <1>1, <2>2, <2>4 DEF Byte
    <3>. QED
      BY <1>1, <2>2, <3>1 DEF Quoted, Leading, u, s
  <2>5. CASE c \notin Starts /\ c >= \h20
    <3>1. Raw(u) = {}
      BY <2>2, <2>3, <2>5, RawIs DEF OneChar
    <3>. QED
      BY <1>1, <2>2, <3>1 DEF Quoted, Leading, u, s
  <2>. QED
    BY <1>1, <2>4, <2>5
<1>. QED
  BY <1>1, <1>2 DEF Stuck

(* The state while a string is read.                                       *)
Parts(C, b, t, x) == /\ Kept(C, b) /\ Text = Str(C, t) /\ token_buffer = b \o x
                     /\ Pending(pc, t, x, expected, codepoints, hex)
PartsInv == pc \in StringPcs => \E C, b, t, x \in Seq(Byte) : Parts(C, b, t, x)
PromptInv == Found /\ token = "parse_error" /\ current # EOF /\ Text # <<>> /\ Text[1] = Quote => ~BeginsString(Text)
QuotedInv == PartsInv /\ StringIsText /\ PromptInv

LEMMA CharDone ==
  ASSUME NEW C \in Seq(Byte), NEW w \in Seq(Byte)
  PROVE  Str(C, w) = Str(C \o w, <<>>)
<1>1. <<Quote>> \in Seq(Byte) /\ C \o w \in Seq(Byte)
  BY QuoteByte, OneByte, ConcatProperties
<1>2. (<<Quote>> \o C) \o w = <<Quote>> \o (C \o w) /\ <<Quote>> \o (C \o w) \in Seq(Byte)
  BY <1>1, Regrouped
<1>. QED
  BY <1>2, ConcatEmptySeq DEF Str

LEMMA StrAppend ==
  ASSUME NEW C \in Seq(Byte), NEW t \in Seq(Byte), NEW c \in Byte
  PROVE  Append(Str(C, t), c) = Str(C, Append(t, c))
BY StrIs

LEMMA NoByte == \A a \in Byte : a # EOF
BY DEF Byte, EOF

LEMMA NoString ==
  ASSUME pc' \notin StringPcs, pc' = "returned" => token' \notin {"value_string", "parse_error"}
  PROVE  QuotedInv'
BY DEF QuotedInv, PartsInv, StringIsText, PromptInv, Found

LEMMA StringGoes ==
  ASSUME pc' # "returned", NEW C \in Seq(Byte), NEW b \in Seq(Byte), NEW t \in Seq(Byte), NEW x \in Seq(Byte),
         Parts(C, b, t, x)'
  PROVE  QuotedInv'
BY DEF QuotedInv, PartsInv, StringIsText, PromptInv, Found

LEMMA StringFails ==
  ASSUME pc' = "returned", token' = "parse_error", NEW c, current' = c, c # EOF => c \in Byte,
         NEW C \in Seq(Byte), NEW b, NEW t \in Seq(Byte), Kept(C, b), Text = Str(C, t),
         Text' = IF c = EOF THEN Text ELSE Append(Text, c),
         c # EOF => Stuck(Append(t, c)) /\ (t = <<>> => c # Quote)
  PROVE  QuotedInv'
<1>1. PartsInv' /\ StringIsText'
  BY DEF PartsInv, StringPcs, StringIsText, Found
<1>2. ASSUME c # EOF
      PROVE  ~BeginsString(Text')
  <2>1. Text' = Str(C, Append(t, c))
    BY <1>2, StrIs
  <2>. QED
    BY <1>2, <2>1, StuckNever DEF Kept
<1>3. PromptInv'
  BY <1>2 DEF PromptInv
<1>. QED
  BY <1>1, <1>3 DEF QuotedInv

LEMMA PartsString ==
  ASSUME TypeInv, PartsInv, ScanString
  PROVE  QuotedInv'
<1>. USE DEF Goto, Return, Fail, Add
<1>1. /\ ReaderInv /\ start \in Nat /\ start <= Len(Consumed) /\ token_buffer \in Seq(Byte)
  BY DEF TypeInv, PlaceInv
<1>2. PICK c \in Bytes :
        /\ Get(c)
        /\ \/ c = Quote /\ Return("value_string") /\ UNCHANGED token_buffer
           \/ c = Backslash /\ Goto("escape") /\ codepoints' = <<>> /\ UNCHANGED token_buffer
           \/ c \in Plain /\ Goto("string") /\ Add(<<c>>)
           \/ c \in \hC2 .. \hF4 /\ Goto("tail") /\ Add(<<c>>) /\ expected' = Continuation(c)
           \/ c \in Control \cup {EOF} \cup (\h80 .. \hC1) \cup (\hF5 .. \hFF) /\ Fail
  BY DEF ScanString
<1>3. UNCHANGED start /\ pc = "string"
  BY DEF ScanString, history
<1>4. (c # EOF => c \in Byte) /\ current' = c /\ Text' = IF c = EOF THEN Text ELSE Append(Text, c)
  BY <1>1, <1>2, <1>3, TextGet
<1>5. PICK C \in Seq(Byte), b \in Seq(Byte), t \in Seq(Byte), x \in Seq(Byte) : Parts(C, b, t, x)
  BY <1>3 DEF PartsInv, StringPcs
<1>6. Kept(C, b) /\ Text = Str(C, <<>>) /\ t = <<>> /\ token_buffer = b /\ <<>> \in Seq(Byte)
  BY <1>3, <1>5, ConcatEmptySeq DEF Parts, Pending
<1>7. c \in Byte => Append(<<>>, c) = <<c>> /\ <<c>> \in Seq(Byte)
  BY OneByte, ConcatEmptySeq, AppendIsConcat
<1>8. c \in Byte /\ c # EOF => Text' = Str(C, <<c>>)
  <2>1. c \in Byte => Append(Str(C, <<>>), c) = Str(C, Append(<<>>, c))
    BY <1>6, StrAppend
  <2>. QED
    BY <1>4, <1>6, <1>7, <2>1
<1>9. \A a \in Byte : a # EOF
  BY NoByte
<1>10. CASE c = Quote /\ Return("value_string") /\ UNCHANGED token_buffer
  <2>1. c \in Byte /\ c # EOF
    BY <1>9, <1>10, QuoteByte
  <2>2. Str(C, <<>>) = <<Quote>> \o C
    BY QuoteByte, OneByte, ConcatProperties, ConcatEmptySeq DEF Str
  <2>3. Text' = InQuotes(C)
    <3>1. <<Quote>> \o C \in Seq(Byte)
      BY QuoteByte, OneByte, ConcatProperties
    <3>. QED
      BY <1>4, <1>6, <1>10, <2>1, <2>2, <3>1, AppendIsConcat DEF InQuotes
  <2>4. IsString(Text') /\ Decoded(token_buffer', FALSE) = Decoded(Inside(Text'), TRUE)
    BY <1>6, <1>10, <2>3, Quoting DEF Kept
  <2>5. PartsInv' /\ PromptInv'
    BY <1>10 DEF PartsInv, PromptInv, StringPcs
  <2>. QED
    BY <2>4, <2>5 DEF QuotedInv, StringIsText
<1>11. CASE c = Backslash /\ Goto("escape") /\ codepoints' = <<>> /\ UNCHANGED token_buffer
  <2>1. c \in Byte /\ c # EOF
    BY <1>9, <1>11, QuoteByte
  <2>2. Parts(C, b, <<c>>, <<>>)'
    BY <1>6, <1>8, <1>11, <2>1, ConcatEmptySeq DEF Parts, Pending
  <2>. QED
    BY <1>6, <1>7, <1>11, <2>1, <2>2, StringGoes
<1>12. CASE c \in Plain /\ Goto("string") /\ Add(<<c>>)
  <2>. DEFINE w == <<c>>
  <2>1. c \in Byte /\ c \in Nat /\ c # EOF /\ \A q \in BOOLEAN : Leading(w, q) = {<<Len(w), c>>}
    BY <1>9, <1>12, PlainByte
  <2>2. w \in Seq(Byte) /\ w # <<>>
    BY <2>1, OneByte
  <2>. HIDE DEF w
  <2>3. Kept(C \o w, b \o w) /\ C \o w \in Seq(Byte) /\ b \o w \in Seq(Byte)
    BY <1>6, <2>1, <2>2, KeptMore
  <2>4. Text' = Str(C \o w, <<>>) /\ token_buffer' = (b \o w) \o <<>>
    BY <1>6, <1>8, <1>12, <2>1, <2>2, <2>3, CharDone, ConcatEmptySeq DEF w
  <2>5. Parts(C \o w, b \o w, <<>>, <<>>)'
    BY <1>12, <2>3, <2>4 DEF Parts, Pending
  <2>. QED
    BY <1>6, <1>12, <2>3, <2>5, StringGoes
<1>13. CASE c \in \hC2 .. \hF4 /\ Goto("tail") /\ Add(<<c>>) /\ expected' = Continuation(c)
  <2>1. c \in Byte /\ c # EOF /\ TailPart(<<c>>, Continuation(c))
    BY <1>9, <1>13, TailByte
  <2>2. Parts(C, b, <<c>>, <<c>>)'
    BY <1>6, <1>8, <1>13, <2>1 DEF Parts, Pending
  <2>. QED
    BY <1>7, <1>13, <2>1, <2>2, StringGoes
<1>14. CASE c \in Control \cup {EOF} \cup (\h80 .. \hC1) \cup (\hF5 .. \hFF) /\ Fail
  <2>1. c # EOF => c # Quote /\ Stuck(Append(<<>>, c))
    BY <1>4, <1>7, <1>14, BadByte
  <2>. QED
    BY <1>4, <1>6, <1>14, <2>1, StringFails
<1>. QED
  BY <1>2, <1>10, <1>11, <1>12, <1>13, <1>14

LEMMA PartsTail ==
  ASSUME TypeInv, PartsInv, ScanTail
  PROVE  QuotedInv'
<1>. USE DEF Goto, Return, Fail, Add
<1>1. /\ ReaderInv /\ start \in Nat /\ start <= Len(Consumed) /\ token_buffer \in Seq(Byte)
      /\ expected \in Seq(SUBSET Byte)
  BY DEF TypeInv, PlaceInv, ExpectedInv
<1>2. PICK c \in Bytes :
        /\ Get(c)
        /\ IF c \in Head(expected)
           THEN Goto(IF Len(expected) > 1 THEN "tail" ELSE "string") /\ Add(<<c>>)
           ELSE Fail /\ UNCHANGED token_buffer
  BY DEF ScanTail
<1>3. UNCHANGED start /\ pc = "tail" /\ expected' = Tail(expected) /\ expected # <<>>
  BY DEF ScanTail, history, TypeInv, ExpectedInv
<1>4. (c # EOF => c \in Byte) /\ current' = c /\ Text' = IF c = EOF THEN Text ELSE Append(Text, c)
  BY <1>1, <1>2, <1>3, TextGet
<1>5. PICK C \in Seq(Byte), b \in Seq(Byte), t \in Seq(Byte), x \in Seq(Byte) : Parts(C, b, t, x)
  BY <1>3 DEF PartsInv, StringPcs
<1>6. Kept(C, b) /\ Text = Str(C, t) /\ token_buffer = b \o t /\ TailPart(t, expected) /\ t # <<>>
  BY <1>3, <1>5 DEF Parts, Pending, TailPart, TailOf
<1>. DEFINE w == Append(t, c)
<1>7. CASE c \notin Head(expected)
  <2>1. c # EOF => Stuck(Append(t, c))
    BY <1>1, <1>4, <1>6, <1>7, TailStep
  <2>. QED
    BY <1>2, <1>4, <1>6, <1>7, <2>1, StringFails
<1>8. CASE c \in Head(expected)
  <2>1. c \in Byte /\ c # EOF
    <3>1. Head(expected) \in SUBSET Byte
      BY <1>1, <1>3, HeadTailProperties
    <3>. QED
      BY <1>8, <3>1, NoByte
  <2>2. w \in Seq(Byte) /\ w = t \o <<c>> /\ w # <<>>
    BY <2>1, Appended, AppendIsConcat
  <2>3. Text' = Str(C, w)
    <3>1. Append(Str(C, t), c) = Str(C, w)
      BY <1>6, <2>1, StrAppend
    <3>. QED
      BY <1>4, <1>6, <2>1, <3>1
  <2>4. token_buffer' = b \o w
    <3>1. (b \o t) \o <<c>> = b \o (t \o <<c>>)
      BY <2>1, OneByte, Regrouped, SMTT(20)
    <3>. QED
      BY <1>2, <1>6, <1>8, <2>2, <3>1
  <2>5. CASE Len(expected) > 1
    <3>1. TailPart(w, expected')
      BY <1>1, <1>3, <1>6, <1>8, <2>1, <2>5, TailStep
    <3>2. Parts(C, b, w, w)'
      BY <1>2, <1>6, <1>8, <2>3, <2>4, <2>5, <3>1 DEF Parts, Pending
    <3>. QED
      BY <1>2, <1>8, <2>2, <2>5, <3>2, StringGoes
  <2>6. CASE ~(Len(expected) > 1)
    <3>0. IsChar(w)
      BY <1>1, <1>6, <1>8, <2>1, <2>6, TailStep
    <3>1. PICK p \in Nat : Leading(w, TRUE) = {<<Len(w), p>>} /\ Leading(w, FALSE) = {<<Len(w), p>>}
      BY <3>0 DEF IsChar
    <3>. HIDE DEF w
    <3>2. Kept(C \o w, b \o w) /\ C \o w \in Seq(Byte) /\ b \o w \in Seq(Byte)
      BY <1>6, <2>2, <3>1, KeptMore
    <3>3. Text' = Str(C \o w, <<>>) /\ token_buffer' = (b \o w) \o <<>>
      BY <2>2, <2>3, <2>4, <3>2, CharDone, ConcatEmptySeq
    <3>4. Parts(C \o w, b \o w, <<>>, <<>>)'
      BY <1>2, <1>8, <2>6, <3>2, <3>3 DEF Parts, Pending
    <3>5. pc' = "string" /\ <<>> \in Seq(Byte)
      BY <1>2, <1>8, <2>6
    <3>. QED
      BY <3>2, <3>4, <3>5, StringGoes
  <2>. QED
    BY <2>5, <2>6
<1>. QED
  BY <1>7, <1>8

LEMMA PartsEscape ==
  ASSUME TypeInv, PartsInv, ScanEscape
  PROVE  QuotedInv'
<1>. USE DEF Goto, Return, Fail, Add
<1>1. /\ ReaderInv /\ start \in Nat /\ start <= Len(Consumed) /\ token_buffer \in Seq(Byte)
  BY DEF TypeInv, PlaceInv
<1>2. PICK c \in Bytes :
        /\ Get(c)
        /\ \/ c \in DOMAIN Unescaped /\ Goto("string") /\ Add(<<Unescaped[c]>>)
           \/ c = Lower(21) /\ Goto("hex") /\ UNCHANGED token_buffer
           \/ c \notin DOMAIN Unescaped /\ c # Lower(21) /\ Fail
  BY DEF ScanEscape
<1>3. UNCHANGED <<start, codepoints>> /\ pc = "escape" /\ hex' = <<>>
  BY DEF ScanEscape, history
<1>4. (c # EOF => c \in Byte) /\ current' = c /\ Text' = IF c = EOF THEN Text ELSE Append(Text, c)
  BY <1>1, <1>2, <1>3, TextGet
<1>5. PICK C \in Seq(Byte), b \in Seq(Byte), t \in Seq(Byte), x \in Seq(Byte) : Parts(C, b, t, x)
  BY <1>3 DEF PartsInv, StringPcs
<1>6. Kept(C, b) /\ Text = Str(C, t) /\ token_buffer = b /\ t = <<Backslash>> /\ codepoints = <<>>
  BY <1>3, <1>5, ConcatEmptySeq DEF Parts, Pending
<1>. DEFINE w == Append(t, c)
<1>7. c # EOF => /\ w \in Seq(Byte) /\ Len(w) = 2
                 /\ c \in DOMAIN Unescaped =>
                      /\ Leading(w, TRUE) = {<<Len(w), Unescaped[c]>>}
                      /\ Leading(<<Unescaped[c]>>, FALSE) = {<<1, Unescaped[c]>>}
                      /\ Unescaped[c] \in Byte /\ Unescaped[c] \in Nat
                 /\ c = Lower(21) => HexPart(w, <<>>, <<>>)
                 /\ c \notin DOMAIN Unescaped /\ c # Lower(21) => Stuck(w)
  BY <1>4, <1>6, EscapeStep
<1>8. c # EOF => Text' = Str(C, w)
  BY <1>4, <1>6, StrAppend
<1>9. c \in DOMAIN Unescaped \/ c = Lower(21) => c # EOF
  <2>1. c \in DOMAIN Unescaped => c \in Byte
    BY EscapesNat, UnescapedIs
  <2>2. Lower(21) \in Byte
    BY HexStartIs DEF Lower, Byte
  <2>. QED
    BY <2>1, <2>2, NoByte
<1>. HIDE DEF w
<1>10. CASE c \in DOMAIN Unescaped /\ Goto("string") /\ Add(<<Unescaped[c]>>)
  <2>. DEFINE u == <<Unescaped[c]>>
              p == Unescaped[c]
  <2>1. u \in Seq(Byte) /\ u # <<>> /\ Len(u) = 1 /\ p \in Nat
    BY <1>7, <1>9, <1>10, OneByte
  <2>2. Leading(w, TRUE) = {<<Len(w), p>>} /\ Leading(u, FALSE) = {<<Len(u), p>>} /\ w \in Seq(Byte) /\ w # <<>>
    <3>1. w \in Seq(Byte) /\ Len(w) = 2 /\ Leading(w, TRUE) = {<<Len(w), p>>} /\ Leading(u, FALSE) = {<<1, p>>}
      BY <1>7, <1>9, <1>10
    <3>2. w # <<>>
      <4>1. Len(w) # 0
        BY <3>1
      <4>. QED
        BY <4>1
    <3>. HIDE DEF u, p
    <3>. QED
      BY <2>1, <3>1, <3>2
  <2>3. token_buffer' = b \o u
    BY <1>6, <1>10
  <2>. HIDE DEF u, p
  <2>4. Kept(C \o w, b \o u) /\ C \o w \in Seq(Byte) /\ b \o u \in Seq(Byte)
    BY <1>6, <2>1, <2>2, KeptMore
  <2>5. Text' = Str(C \o w, <<>>) /\ token_buffer' = (b \o u) \o <<>>
    BY <1>8, <1>9, <1>10, <2>2, <2>3, <2>4, CharDone, ConcatEmptySeq
  <2>6. Parts(C \o w, b \o u, <<>>, <<>>)'
    BY <1>10, <2>4, <2>5 DEF Parts, Pending
  <2>7. pc' = "string" /\ <<>> \in Seq(Byte)
    BY <1>10
  <2>. QED
    BY <2>4, <2>6, <2>7, StringGoes
<1>11. CASE c = Lower(21) /\ Goto("hex") /\ UNCHANGED token_buffer
  <2>1. HexPart(w, <<>>, <<>>) /\ w \in Seq(Byte) /\ Text' = Str(C, w)
    BY <1>7, <1>8, <1>9, <1>11
  <2>2. Parts(C, b, w, <<>>)'
    BY <1>3, <1>6, <1>11, <2>1, ConcatEmptySeq DEF Parts, Pending
  <2>3. pc' = "hex" /\ <<>> \in Seq(Byte)
    BY <1>11
  <2>. QED
    BY <2>1, <2>2, <2>3, StringGoes
<1>12. CASE c \notin DOMAIN Unescaped /\ c # Lower(21) /\ Fail
  <2>1. c # EOF => Stuck(Append(t, c))
    BY <1>7, <1>12 DEF w
  <2>2. t # <<>>
    BY <1>6
  <2>. QED
    BY <1>4, <1>6, <1>12, <2>1, <2>2, StringFails
<1>. QED
  BY <1>2, <1>10, <1>11, <1>12

LEMMA PartsPair ==
  ASSUME TypeInv, PartsInv, ScanPair
  PROVE  QuotedInv'
<1>. USE DEF Goto, Return, Fail, Add
<1>1. /\ ReaderInv /\ start \in Nat /\ start <= Len(Consumed) /\ token_buffer \in Seq(Byte)
  BY DEF TypeInv, PlaceInv
<1>2. PICK c \in Bytes :
        /\ Get(c)
        /\ \/ pc = "pair" /\ c = Backslash /\ Goto("pair_u")
           \/ pc = "pair_u" /\ c = Lower(21) /\ Goto("hex")
           \/ c # (IF pc = "pair" THEN Backslash ELSE Lower(21)) /\ Fail
  BY DEF ScanPair
<1>3. UNCHANGED <<start, codepoints, token_buffer>> /\ pc \in {"pair", "pair_u"} /\ hex' = <<>>
  BY DEF ScanPair, history
<1>4. (c # EOF => c \in Byte) /\ current' = c /\ Text' = IF c = EOF THEN Text ELSE Append(Text, c)
  BY <1>1, <1>2, <1>3, TextGet
<1>5. PICK C \in Seq(Byte), b \in Seq(Byte), t \in Seq(Byte), x \in Seq(Byte) : Parts(C, b, t, x)
  BY <1>3 DEF PartsInv, StringPcs
<1>6. /\ Kept(C, b) /\ Text = Str(C, t) /\ token_buffer = b
      /\ \/ pc = "pair" /\ HighHalf(t) /\ codepoints = <<Hex(t, 3)>>
         \/ pc = "pair_u" /\ PairPart(t, codepoints)
  BY <1>3, <1>5, ConcatEmptySeq DEF Parts, Pending
<1>7. t # <<>>
  <2>1. HighHalf(t) => t # <<>>
    <3>1. HighHalf(t) => Len(t) # 0
      BY DEF HighHalf
    <3>. QED
      BY <3>1
  <2>2. PairPart(t, codepoints) => t # <<>>
    <3>1. \A z \in Seq(Byte) : z \o <<Backslash>> # <<>>
      BY QuoteByte, Appended, AppendIsConcat
    <3>. QED
      BY <3>1 DEF PairPart
  <2>. QED
    BY <1>6, <2>1, <2>2
<1>. DEFINE w == Append(t, c)
<1>8. c # EOF => w \in Seq(Byte) /\ Text' = Str(C, w)
  BY <1>4, <1>6, StrAppend, AppendProperties
<1>9. Backslash # EOF /\ Lower(21) # EOF
  BY DEF Backslash, Lower, EOF
<1>10. c # EOF => IF pc = "pair" THEN IF c = Backslash THEN PairPart(w, codepoints) ELSE Stuck(w)
                  ELSE IF c = Lower(21) THEN HexPart(w, codepoints, <<>>) ELSE Stuck(w)
  BY <1>4, <1>6, PairStep
<1>. HIDE DEF w
<1>11. CASE pc = "pair" /\ c = Backslash /\ Goto("pair_u")
  <2>1. PairPart(w, codepoints') /\ w \in Seq(Byte) /\ Text' = Str(C, w)
    BY <1>3, <1>8, <1>9, <1>10, <1>11
  <2>2. Parts(C, b, w, <<>>)'
    BY <1>3, <1>6, <1>11, <2>1, ConcatEmptySeq DEF Parts, Pending
  <2>3. pc' = "pair_u" /\ <<>> \in Seq(Byte)
    BY <1>11
  <2>. QED
    BY <2>1, <2>2, <2>3, StringGoes
<1>12. CASE pc = "pair_u" /\ c = Lower(21) /\ Goto("hex")
  <2>1. HexPart(w, codepoints', hex') /\ w \in Seq(Byte) /\ Text' = Str(C, w)
    BY <1>3, <1>8, <1>9, <1>10, <1>12
  <2>2. Parts(C, b, w, <<>>)'
    BY <1>3, <1>6, <1>12, <2>1, ConcatEmptySeq DEF Parts, Pending
  <2>3. pc' = "hex" /\ <<>> \in Seq(Byte)
    BY <1>12
  <2>. QED
    BY <2>1, <2>2, <2>3, StringGoes
<1>13. CASE c # (IF pc = "pair" THEN Backslash ELSE Lower(21)) /\ Fail
  <2>1. c # EOF => Stuck(Append(t, c))
    BY <1>3, <1>10, <1>13 DEF w
  <2>. QED
    BY <1>4, <1>6, <1>7, <1>13, <2>1, StringFails
<1>. QED
  BY <1>2, <1>11, <1>12, <1>13

LEMMA PairPoint ==
  ASSUME NEW q \in High, NEW v \in Low
  PROVE  IsPoint(Both(q, v)) /\ q * 1024 + v - \h35FDC00 = Both(q, v)
<1>. DEFINE p == Both(q, v)
<1>1. p \in Nat /\ \h10000 <= p /\ p <= \h10FFFF /\ q * 1024 + v - \h35FDC00 = p
  BY BothNat
<1>. HIDE DEF p
<1>2. p \notin High /\ p \notin Low
  <2>1. \A x \in High : x < \h10000
    BY SMT DEF High
  <2>2. \A x \in Low : x < \h10000
    BY SMT DEF Low
  <2>3. ~(p < \h10000)
    BY <1>1, SMT
  <2>. QED
    BY <2>1, <2>2, <2>3
<1>. QED
  BY <1>1, <1>2, SMT DEF IsPoint, p

LEMMA UnitPoint ==
  ASSUME NEW v \in CodeUnit, v \notin High \cup Low
  PROVE  IsPoint(v)
BY SMT DEF CodeUnit, IsPoint

(* A code point from escapes w that take the place of its UTF-8.           *)
LEMMA PointKept ==
  ASSUME NEW C \in Seq(Byte), NEW b \in Seq(Byte), Kept(C, b), NEW w \in Seq(Byte), w # <<>>,
         NEW p, IsPoint(p), Leading(w, TRUE) = {<<Len(w), p>>}
  PROVE  /\ Kept(C \o w, b \o Encoded(p)) /\ C \o w \in Seq(Byte) /\ b \o Encoded(p) \in Seq(Byte)
<1>1. p \in Nat
  BY SMT DEF IsPoint
<1>2. Encoded(p) \in Seq(Byte) /\ Encoded(p) # <<>> /\ Leading(Encoded(p), FALSE) = {<<Len(Encoded(p)), p>>}
  BY EncodedIs
<1>. QED
  BY <1>1, <1>2, KeptMore

(* The escape that w ends with is complete, and its value is v.            *)
Finished(w, p, v) ==
  /\ p = <<>> =>
       /\ v \in High => HighHalf(w) /\ Hex(w, 3) = v
       /\ v \in Low => Stuck(w)
       /\ v \notin High \cup Low => Leading(w, TRUE) = {<<Len(w), v>>}
  /\ p # <<>> =>
       \E q \in High : /\ p = <<q>>
                       /\ IF v \in Low THEN Leading(w, TRUE) = {<<Len(w), Both(q, v)>>}
                          ELSE Stuck(w)

LEMMA HexFinished ==
  ASSUME NEW t, NEW p, NEW d \in Seq(-1 .. 15), HexPart(t, p, d), NEW c \in Byte,
         HexDigit(c) # -1, ~(Len(d) + 1 < 4)
  PROVE  /\ Four(Append(d, HexDigit(c))) \in CodeUnit /\ Append(t, c) \in Seq(Byte) /\ Append(t, c) # <<>>
         /\ Finished(Append(t, c), p, Four(Append(d, HexDigit(c))))
BY HexDone DEF Finished

LEMMA PartsHex ==
  ASSUME TypeInv, PartsInv, ScanHex
  PROVE  QuotedInv'
<1>. USE DEF Goto, Return, Fail, Add
<1>1. /\ ReaderInv /\ start \in Nat /\ start <= Len(Consumed) /\ token_buffer \in Seq(Byte)
      /\ hex \in Seq(-1 .. 15) /\ Len(hex) \in Nat
  BY LenProperties DEF TypeInv, PlaceInv, HexInv
<1>2. PICK c \in Bytes :
        /\ Get(c)
        /\ hex' = Append(hex, HexDigit(c))
        /\ IF HexDigit(c) = -1 THEN Fail /\ UNCHANGED <<token_buffer, codepoints>>
           ELSE IF Len(hex') < 4 THEN Goto("hex") /\ UNCHANGED <<token_buffer, codepoints>>
           ELSE codepoints' = Append(codepoints, Four(hex')) /\ EndEscape(Four(hex'))
  BY DEF ScanHex, Four
<1>3. UNCHANGED start /\ pc = "hex"
  BY DEF ScanHex, history
<1>4. /\ c \in -1 .. 255 /\ (c # EOF => c \in Byte) /\ current' = c
      /\ Text' = IF c = EOF THEN Text ELSE Append(Text, c)
  BY <1>1, <1>2, <1>3, TextGet
<1>5. PICK C \in Seq(Byte), b \in Seq(Byte), t \in Seq(Byte), x \in Seq(Byte) : Parts(C, b, t, x)
  BY <1>3 DEF PartsInv, StringPcs
<1>6. Kept(C, b) /\ Text = Str(C, t) /\ token_buffer = b /\ HexPart(t, codepoints, hex)
  BY <1>3, <1>5, ConcatEmptySeq DEF Parts, Pending
<1>7. t # <<>>
  <2>1. PICK z \in Seq(Byte), h \in Seq(Byte) : t = z \o (HexStart \o h)
    BY <1>6 DEF HexPart
  <2>. DEFINE v == HexStart \o h
  <2>2. v \in Seq(Byte) /\ Len(v) = 2 + Len(h) /\ Len(h) \in Nat
    BY NotShort
  <2>. HIDE DEF v
  <2>3. Len(z \o v) = Len(z) + Len(v) /\ Len(z) \in Nat
    BY <2>2, Joined
  <2>4. Len(t) # 0
    BY <2>1, <2>2, <2>3 DEF v
  <2>. QED
    BY <2>4
<1>8. Len(hex') = Len(hex) + 1
  <2>1. HexDigit(c) \in -1 .. 15
    BY <1>4, HexDigitType
  <2>. QED
    BY <1>1, <1>2, <2>1, AppendProperties
<1>9. HexDigit(EOF) = -1
  BY DEF HexDigit, EOF, Digit, Upper, Lower
<1>. DEFINE w == Append(t, c)
<1>10. c # EOF => w \in Seq(Byte) /\ Text' = Str(C, w)
  BY <1>4, <1>6, StrAppend, AppendProperties
<1>11. CASE HexDigit(c) = -1
  <2>1. c # EOF => Stuck(Append(t, c))
    BY <1>1, <1>4, <1>6, <1>11, HexStep
  <2>2. pc' = "returned" /\ token' = "parse_error"
    BY <1>2, <1>11
  <2>. QED
    BY <1>4, <1>6, <1>7, <2>1, <2>2, StringFails
<1>12. CASE HexDigit(c) # -1 /\ Len(hex') < 4
  <2>1. c \in Byte /\ c # EOF /\ Len(hex) + 1 < 4 /\ HexDigit(c) # -1
    BY <1>4, <1>8, <1>9, <1>12
  <2>2. HexPart(w, codepoints, hex')
    BY <1>1, <1>2, <1>6, <2>1, HexStep
  <2>3. pc' = "hex" /\ UNCHANGED <<token_buffer, codepoints>> /\ <<>> \in Seq(Byte)
    BY <1>2, <1>12
  <2>. HIDE DEF w
  <2>4. Parts(C, b, w, <<>>)'
    BY <1>6, <1>10, <2>1, <2>2, <2>3, ConcatEmptySeq DEF Parts, Pending
  <2>. QED
    BY <1>10, <2>1, <2>3, <2>4, StringGoes
<1>13. CASE HexDigit(c) # -1 /\ ~(Len(hex') < 4)
  <2>. DEFINE v == Four(hex')
  <2>1. c \in Byte /\ c # EOF /\ ~(Len(hex) + 1 < 4) /\ HexDigit(c) # -1
    BY <1>4, <1>8, <1>9, <1>13
  <2>2. /\ v \in CodeUnit /\ w \in Seq(Byte) /\ w # <<>>
        /\ Finished(w, codepoints, v)
    <3>1. /\ Four(Append(hex, HexDigit(c))) \in CodeUnit /\ w \in Seq(Byte) /\ w # <<>>
          /\ Finished(w, codepoints, Four(Append(hex, HexDigit(c))))
      BY <1>1, <1>6, <2>1, HexFinished
    <3>2. hex' = Append(hex, HexDigit(c))
      BY <1>2
    <3>. QED
      BY <3>1, <3>2
  <2>3. codepoints' = Append(codepoints, v) /\ EndEscape(v)
    BY <1>2, <1>13
  <2>4. Text' = Str(C, w) /\ <<>> \in Seq(Byte)
    BY <1>10, <2>1
  <2>5. Stuck(w) /\ Fail => QuotedInv'
    BY <1>4, <1>6, <1>7, <2>1, StringFails
  <2>. HIDE DEF w, v
  <2>6. ASSUME NEW r, IsPoint(r), Leading(w, TRUE) = {<<Len(w), r>>}, Goto("string"), Add(Encoded(r))
        PROVE  QuotedInv'
    <3>. DEFINE u == Encoded(r)
    <3>1. Kept(C \o w, b \o u) /\ C \o w \in Seq(Byte) /\ b \o u \in Seq(Byte)
      BY <1>6, <2>2, <2>6, PointKept
    <3>2. Text' = Str(C \o w, <<>>) /\ token_buffer' = (b \o u) \o <<>>
      BY <1>6, <2>2, <2>4, <2>6, <3>1, CharDone, ConcatEmptySeq
    <3>. HIDE DEF u
    <3>3. Parts(C \o w, b \o u, <<>>, <<>>)'
      BY <2>6, <3>1, <3>2 DEF Parts, Pending
    <3>4. pc' = "string"
      BY <2>6
    <3>. QED
      BY <2>4, <3>1, <3>3, <3>4, StringGoes
  <2>7. CASE codepoints = <<>>
    <3>1. codepoints' = <<v>>
      BY <2>3, <2>7
    <3>2. \/ v \in High /\ Goto("pair") /\ UNCHANGED token_buffer
          \/ v \in Low /\ Fail
          \/ v \notin High \cup Low /\ Goto("string") /\ Add(Encoded(v))
      BY <2>3, <3>1 DEF EndEscape
    <3>3. CASE v \in High /\ Goto("pair") /\ UNCHANGED token_buffer
      <4>1. HighHalf(w) /\ codepoints' = <<Hex(w, 3)>>
        BY <2>2, <2>7, <3>1, <3>3 DEF Finished
      <4>2. Parts(C, b, w, <<>>)'
        BY <1>6, <2>4, <3>3, <4>1, ConcatEmptySeq DEF Parts, Pending
      <4>3. pc' = "pair"
        BY <3>3
      <4>. QED
        BY <2>2, <2>4, <4>2, <4>3, StringGoes
    <3>4. CASE v \in Low /\ Fail
      BY <2>2, <2>5, <2>7, <3>4 DEF Finished
    <3>5. CASE v \notin High \cup Low /\ Goto("string") /\ Add(Encoded(v))
      <4>1. IsPoint(v) /\ Leading(w, TRUE) = {<<Len(w), v>>}
        BY <2>2, <2>7, <3>5, UnitPoint DEF Finished
      <4>. QED
        BY <2>6, <3>5, <4>1
    <3>. QED
      BY <3>2, <3>3, <3>4, <3>5
  <2>8. CASE codepoints # <<>>
    <3>1. PICK q \in High : /\ codepoints = <<q>>
                            /\ IF v \in Low THEN Leading(w, TRUE) = {<<Len(w), Both(q, v)>>}
                               ELSE Stuck(w)
      BY <2>2, <2>8 DEF Finished
    <3>2. codepoints' # <<v>> /\ codepoints[1] = q
      <4>1. codepoints' = Append(<<q>>, v)
        BY <2>3, <3>1
      <4>2. Len(codepoints') = 2 /\ Len(<<v>>) = 1
        BY <4>1
      <4>3. codepoints' # <<v>>
        BY <4>2
      <4>. QED
        BY <3>1, <4>3
    <3>3. IF v \in Low THEN Goto("string") /\ Add(Encoded(q * 1024 + v - \h35FDC00)) ELSE Fail
      BY <2>3, <3>2, SMT DEF EndEscape
    <3>4. v \notin Low => QuotedInv'
      BY <2>5, <3>1, <3>3
    <3>5. ASSUME v \in Low
          PROVE  QuotedInv'
      <4>. DEFINE r == q * 1024 + v - \h35FDC00
                  s == Both(q, v)
      <4>1. IsPoint(s) /\ r = s
        BY <3>5, PairPoint
      <4>2. Leading(w, TRUE) = {<<Len(w), s>>}
        BY <3>1, <3>5
      <4>4. Goto("string") /\ Add(Encoded(r))
        BY <3>3, <3>5
      <4>. HIDE DEF r, s
      <4>3. Goto("string") /\ Add(Encoded(s))
        BY <4>1, <4>4
      <4>. QED
        BY <2>6, <4>1, <4>2, <4>3
    <3>. QED
      BY <3>4, <3>5
  <2>. QED
    BY <2>7, <2>8
<1>. QED
  BY <1>11, <1>12, <1>13

(* A token that starts with another byte than a quote keeps it.            *)
LEMMA OtherFirst ==
  ASSUME TypeInv, TextInv, pc \in Labels \cup {"literal", "bom2", "bom3", "comment", "comment_text", "comment_star"}
  PROVE  Text # <<>> /\ Text[1] # Quote
<1>0. Text \in Seq(Byte) /\ Len(Text) \in Nat
  BY TextBytes
<1>1. CASE pc \in Labels
  <2>1. Text # <<>> /\ Shape(pc, Text, Len(Text))
    BY <1>1 DEF TextInv, NumberInv
  <2>2. Text[1] \in Digit \cup {Minus}
    BY <1>0, <1>1, <2>1, ShapeFirst
  <2>. QED
    BY <2>1, <2>2 DEF Digit, Minus, Quote
<1>2. CASE pc = "literal"
  <2>1. PICK l \in Literals : Matched(l, Text) /\ Text # <<>>
    BY <1>2 DEF TextInv, LiteralInv
  <2>2. Text[1] = l[1][1]
    BY <1>0, <2>1, EmptySeq DEF Matched
  <2>. QED
    BY <2>1, <2>2, LiteralFirst
<1>3. CASE pc \in {"bom2", "bom3"}
  BY <1>3 DEF TextInv, MarkInv, Quote
<1>4. CASE pc = "comment"
  BY <1>4 DEF TextInv, CommentInv, Slash, Quote
<1>5. CASE pc \in {"comment_text", "comment_star"}
  <2>1. Len(Text) >= 2 /\ Text[1] = Slash
    BY <1>5 DEF TextInv, CommentInv
  <2>2. Len(Text) # 0
    BY <1>0, <2>1
  <2>3. Text # <<>>
    BY <2>2
  <2>. QED
    BY <2>1, <2>3 DEF Slash, Quote
<1>. QED
  BY <1>1, <1>2, <1>3, <1>4, <1>5

LEMMA OtherStep ==
  ASSUME TypeInv, Text # <<>>, Text[1] # Quote, NEW c \in Bytes, Get(c) \/ GetThenUnget(c), start' = start,
         pc' \notin StringPcs, pc' = "returned" => token' # "value_string"
  PROVE  QuotedInv'
<1>1. /\ ReaderInv /\ start \in Nat /\ start <= Len(Consumed) /\ Text \in Seq(Byte)
  BY TextBytes DEF TypeInv, PlaceInv
<1>2. (c # EOF => c \in Byte) /\ (Text' = Text \/ (c # EOF /\ Text' = Append(Text, c)))
  BY <1>1, TextGet, TextUnget
<1>3. Text'[1] # Quote
  <2>1. c # EOF => Append(Text, c)[1] = Text[1]
    BY <1>1, <1>2, Appended
  <2>. QED
    BY <1>2, <2>1
<1>. QED
  BY <1>3 DEF QuotedInv, PartsInv, StringIsText, PromptInv, Found

LEMMA PartsOther ==
  ASSUME TypeInv, TextInv, Scan \/ Bom \/ BomRest \/ scan_comment \/ Literal
  PROVE  QuotedInv'
<1>. USE DEF Goto, Return, Fail, StringPcs
<1>1. CASE Scan
  BY <1>1, NoString DEF Scan
<1>2. CASE Bom
  BY <1>2, NoString DEF Bom
<1>3. CASE BomRest
  <2>1. pc \in {"bom2", "bom3"} /\ UNCHANGED start
    BY <1>3 DEF BomRest, history
  <2>2. PICK c \in Bytes : Get(c) /\ pc' \notin StringPcs /\ (pc' = "returned" => token' # "value_string")
    BY <1>3 DEF BomRest
  <2>. QED
    BY <2>1, <2>2, OtherFirst, OtherStep
<1>4. CASE LineComment
  BY <1>4, NoString DEF LineComment
<1>5. CASE Comment \/ CommentText \/ CommentStar
  <2>1. pc \in {"comment", "comment_text", "comment_star"} /\ UNCHANGED start
    BY <1>5 DEF Comment, CommentText, CommentStar, history
  <2>2. PICK c \in Bytes : /\ Get(c) \/ GetThenUnget(c)
                           /\ pc' \notin StringPcs /\ (pc' = "returned" => token' # "value_string")
    BY <1>5 DEF Comment, CommentText, CommentStar
  <2>. QED
    BY <2>1, <2>2, OtherFirst, OtherStep
<1>6. CASE Literal
  <2>1. pc = "literal" /\ UNCHANGED start
    BY <1>6 DEF Literal, history
  <2>2. type # "value_string"
    BY <2>1 DEF TextInv, LiteralInv, Literals
  <2>3. PICK c \in Bytes : Get(c) /\ pc' \notin StringPcs /\ (pc' = "returned" => token' # "value_string")
    BY <1>6, <2>2 DEF Literal
  <2>. QED
    BY <2>1, <2>3, OtherFirst, OtherStep
<1>. QED
  BY <1>1, <1>2, <1>3, <1>4, <1>5, <1>6 DEF scan_comment

LEMMA PartsNumber ==
  ASSUME TypeInv, TextInv, scan_number
  PROVE  QuotedInv'
<1>1. UNCHANGED start /\ pc \in Labels
  BY DEF scan_number, ScanMinus, ScanInteger, ScanDecimal1, ScanDecimal2, ScanExponent, ScanSign, ScanAny2,
         history, Labels, Complete
<1>2. PICK c \in Bytes : Lengthens(c) \/ Stops(c) \/ Breaks(c)
  BY NumberSteps DEF TextInv
<1>3. Text \in Seq(Byte)
  BY TextBytes
<1>4. CASE Lengthens(c)
  <2>1. c \in Byte /\ c # EOF
    BY <1>4 DEF Lengthens, Accepts, Byte, EOF, Digit, Point, Plus, Minus, Exponent, Lower, Upper
  <2>2. pc' \in Labels
    BY <1>1, <1>3, <1>4, <2>1, LabelStep DEF Lengthens, TextInv, NumberInv
  <2>. QED
    BY <2>2, NoString DEF Labels, Complete, StringPcs
<1>5. CASE Stops(c)
  <2>1. pc \in Complete /\ GetThenUnget(c) /\ pc' = "returned" /\ token' = NumberToken
    BY <1>5 DEF Stops, Return
  <2>2. NumberToken # "value_string"
    BY <1>3, <2>1, TokenOfNumber DEF TextInv
  <2>. QED
    BY <1>1, <2>1, <2>2, OtherFirst, OtherStep DEF StringPcs
<1>6. CASE Breaks(c)
  BY <1>1, <1>6, OtherFirst, OtherStep DEF Breaks, Fail, Return, StringPcs
<1>. QED
  BY <1>2, <1>4, <1>5, <1>6

LEMMA PartsSpace ==
  ASSUME TypeInv, Space
  PROVE  QuotedInv'
<1>. USE DEF Goto, Return, Fail
<1>1. PICK c \in Bytes :
        /\ Get(c)
        /\ start' = IF c = EOF THEN Len(input') ELSE Len(input') - 1
        /\ \/ pc' \in {"space", "comment", "literal", "minus", "zero", "any1"}
           \/ \E t \in Structural : pc' = "returned" /\ token' = t[2]
           \/ c = Quote /\ pc' = "string" /\ token_buffer' = <<>>
           \/ c # Quote /\ pc' = "returned" /\ token' = "parse_error"
  BY DEF Space, Stray
<1>2. current' = c /\ (c # EOF => c \in Byte) /\ Text' = IF c = EOF THEN <<>> ELSE <<c>>
  BY <1>1, TextFirst
<1>3. CASE pc' \in {"space", "comment", "literal", "minus", "zero", "any1"}
  BY <1>3, NoString DEF StringPcs
<1>4. CASE \E t \in Structural : pc' = "returned" /\ token' = t[2]
  BY <1>4, NoString DEF StringPcs, Structural
<1>5. CASE c = Quote /\ pc' = "string" /\ token_buffer' = <<>>
  <2>1. Text' = <<Quote>>
    BY <1>2, <1>5 DEF Quote, EOF
  <2>2. Str(<<>>, <<>>) = <<Quote>> /\ <<>> \in Seq(Byte)
    BY QuoteByte, OneByte, ConcatEmptySeq DEF Str
  <2>3. Kept(<<>>, <<>>)
    <3>2. Decoded(<<>>, TRUE) = <<>> /\ Decoded(<<>>, FALSE) = <<>>
      <4>1. <<>> \in Seq(Byte) /\ TRUE \in BOOLEAN /\ FALSE \in BOOLEAN
        OBVIOUS
      <4>. QED
        BY <4>1, DecodedStep
    <3>3. In(<<>>, Nat)
      BY DEF In
    <3>. QED
      BY <3>2, <3>3 DEF Kept
  <2>4. token_buffer' = <<>> \o <<>>
    BY <1>5
  <2>5. Parts(<<>>, <<>>, <<>>, <<>>)'
    BY <1>5, <2>1, <2>2, <2>3, <2>4 DEF Parts, Pending
  <2>. QED
    BY <1>5, <2>2, <2>5, StringGoes
<1>6. CASE c # Quote /\ pc' = "returned" /\ token' = "parse_error"
  <2>1. PromptInv'
    <3>1. c # EOF => Text' # <<>> /\ Text'[1] = c
      BY <1>2
    <3>. QED
      BY <1>2, <1>6, <3>1 DEF PromptInv
  <2>. QED
    BY <1>6, <2>1 DEF QuotedInv, PartsInv, StringIsText, StringPcs
<1>. QED
  BY <1>1, <1>3, <1>4, <1>5, <1>6

LEMMA QuotedStep ==
  ASSUME TypeInv, TextInv, QuotedInv, [Next]_vars
  PROVE  QuotedInv'
<1>1. CASE UNCHANGED vars
  <2>1. /\ Text' = Text
        /\ UNCHANGED <<pc, current, expected, token, token_buffer, codepoints, hex>>
    BY <1>1 DEF vars, reader, literal, escape, history, Text, Consumed
  <2>2. PartsInv'
    BY <2>1 DEF QuotedInv, PartsInv, Parts
  <2>. QED
    BY <2>1, <2>2 DEF QuotedInv, StringIsText, PromptInv, Found
<1>2. CASE Next
  <2>1. CASE scan_string
    BY <2>1, PartsString, PartsTail, PartsEscape, PartsHex, PartsPair DEF scan_string, QuotedInv
  <2>2. CASE ~scan_string
    BY <1>2, <2>2, PartsOther, PartsNumber, PartsSpace DEF Next, Reading
  <2>. QED
    BY <2>1, <2>2
<1>. QED
  BY <1>1, <1>2

LEMMA StringInvariant == Spec => [](TypeInv /\ TextInv /\ QuotedInv)
<1>1. Init => QuotedInv
  BY DEF Init, QuotedInv, PartsInv, StringIsText, PromptInv, StringPcs, Found
<1>2. QuotedInv /\ TypeInv /\ TextInv /\ [Next]_vars => QuotedInv'
  BY QuotedStep
<1>. QED
  BY <1>1, <1>2, Invariant, PTL DEF Spec

-------------------------------------------------------------------------------
(* A string that is being read can still become one.                       *)
LEMMA LowEnd ==
  /\ EscapeEnd \in Ends /\ From(EscapeEnd, 2) \in Ends
  /\ IsEscape4(EscapeEnd) /\ Hex(EscapeEnd, 3) \in Low
<1>. DEFINE h == <<Upper(4), Upper(3), Zero, Zero>>
<1>1. EscapeEnd \in Seq(Byte) /\ Len(EscapeEnd) = 6 /\ <<>> \in Seq(Byte)
  BY EscapeEndIs
<1>2. EscapeEnd \in Ends
  <2>1. [n \in 1 .. 0 |-> Zero] = <<>>
    OBVIOUS
  <2>2. EscapeEnd = [n \in 1 .. 0 |-> Zero] \o EscapeEnd
    BY <1>1, <2>1, ConcatEmptySeq
  <2>3. 0 \in 0 .. 4 /\ EscapeEnd \in {<<>>, EscapeEnd}
    OBVIOUS
  <2>. DEFINE A == {[n \in 1 .. k |-> Zero] \o e : k \in 0 .. 4, e \in {<<>>, EscapeEnd}}
              f(k, e) == [n \in 1 .. k |-> Zero] \o e
              K == 0 .. 4
              X == {<<>>, EscapeEnd}
  <2>4. EscapeEnd = f(0, EscapeEnd) /\ EscapeEnd \in X /\ 0 \in K
    BY <2>2
  <2>5. DigitEnds = A /\ DigitEnds \subseteq Ends
    <3>1. DigitEnds = A
      BY DEF DigitEnds
    <3>2. DigitEnds \subseteq Ends
      BY DEF Ends
    <3>. QED
      BY <3>1, <3>2, SMTT(20)
  <2>6. EscapeEnd \in A
    <3>1. A = {f(k, e) : k \in K, e \in X}
      OBVIOUS
    <3>. HIDE DEF f, A, K, X
    <3>. QED
      BY <2>4, <3>1
  <2>. HIDE DEF A
  <2>. QED
    BY <2>5, <2>6
<1>3. From(EscapeEnd, 2) \in Ends
  <2>1. 2 \in 2 .. 6 /\ EscapeEnds \subseteq Ends
    BY DEF Ends
  <2>. QED
    BY <2>1 DEF EscapeEnds
<1>4. Upper(4) \in Byte /\ Upper(3) \in Byte /\ Zero \in Byte
  BY DEF Upper, Zero, Byte
<1>5. h \in Seq(Byte) /\ Len(h) = 4 /\ h[1] = Upper(4) /\ h[2] = Upper(3) /\ h[3] = Zero /\ h[4] = Zero
  BY <1>4
<1>6. EscapeEnd = HexStart \o h
  <2>1. /\ HexStart \o h \in Seq(Byte) /\ Len(HexStart \o h) = 6
        /\ (HexStart \o h)[1] = Backslash /\ (HexStart \o h)[2] = Lower(21)
        /\ \A k \in 1 .. 4 : (HexStart \o h)[2 + k] = h[k]
    <3>. HIDE DEF h
    <3>1. /\ HexStart \o h \in Seq(Byte) /\ Len(HexStart \o h) = 2 + Len(h)
          /\ (HexStart \o h)[1] = Backslash /\ (HexStart \o h)[2] = Lower(21)
          /\ \A k \in 1 .. Len(h) : (HexStart \o h)[2 + k] = h[k]
      BY <1>5, NotShort
    <3>. QED
      BY <1>5, <3>1
  <2>. DEFINE v == HexStart \o h
  <2>. HIDE DEF v, h
  <2>2. v[3] = h[1] /\ v[4] = h[2] /\ v[5] = h[3] /\ v[6] = h[4]
    <3>1. /\ 1 \in 1 .. 4 /\ 2 \in 1 .. 4 /\ 3 \in 1 .. 4 /\ 4 \in 1 .. 4
          /\ 2 + 1 = 3 /\ 2 + 2 = 4 /\ 2 + 3 = 5 /\ 2 + 4 = 6
      OBVIOUS
    <3>. QED
      BY <2>1, <3>1 DEF v
  <2>3. \A k \in 1 .. 6 : v[k] = EscapeEnd[k]
    <3>. TAKE k \in 1 .. 6
    <3>1. k = 1 \/ k = 2 \/ k = 3 \/ k = 4 \/ k = 5 \/ k = 6
      OBVIOUS
    <3>. QED
      BY <1>5, <2>1, <2>2, <3>1, EscapeEndIs DEF v
  <2>. QED
    BY <1>1, <2>1, <2>3, SeqEqual DEF v
<1>7. \A c \in {Upper(4), Upper(3), Zero} : c \in HexDigits
  <2>1. \A c \in {Upper(4), Upper(3), Zero} : c \in -1 .. 255 /\ HexDigit(c) # -1
    BY DEF Upper, Zero, HexDigit, Digit, Lower
  <2>. QED
    BY <2>1, HexIs
<1>8. HexDigit(Upper(4)) = 13 /\ HexDigit(Upper(3)) = 12 /\ HexDigit(Zero) = 0
  BY DEF Upper, Zero, HexDigit, Digit, Lower
<1>9. HexSum(h) = 56320
  BY <1>5, <1>8 DEF HexSum
<1>10. \A n \in 1 .. 4 : h[n] \in HexDigits
  <2>. TAKE n \in 1 .. 4
  <2>1. n = 1 \/ n = 2 \/ n = 3 \/ n = 4
    OBVIOUS
  <2>. QED
    BY <1>5, <1>7, <2>1
<1>. HIDE DEF h
<1>11. IsEscape4(EscapeEnd) /\ Hex(EscapeEnd, 3) = 56320
  BY <1>5, <1>6, <1>9, <1>10, HexGood
<1>12. 56320 \in Low
  BY DEF Low
<1>. QED
  BY <1>2, <1>3, <1>11, <1>12

LEMMA PendingEnds ==
  ASSUME NEW at \in StringPcs \ {"hex"}, NEW t \in Seq(Byte), NEW x, NEW e, NEW p, NEW d,
         Pending(at, t, x, e, p, d)
  PROVE  \E y \in Ends, n \in Nat : t \o y # <<>> => Leading(t \o y, TRUE) = {<<Len(t \o y), n>>}
<1>1. EscapeEnd \in Seq(Byte) /\ Len(EscapeEnd) = 6 /\ <<>> \in Seq(Byte) /\ <<>> \in Ends
  BY EscapeEndIs DEF Ends
<1>2. ASSUME NEW z, HighHalf(z)
      PROVE  \E n \in Nat : Leading(z \o EscapeEnd, TRUE) = {<<Len(z \o EscapeEnd), n>>}
  <2>. DEFINE u == z \o EscapeEnd
              n == Both(Hex(z, 3), Hex(EscapeEnd, 3))
  <2>1. z \in Seq(Byte) /\ Len(z) = 6 /\ Hex(z, 3) \in High
    BY <1>2 DEF HighHalf
  <2>2. Len(u) = 12
    <3>1. Len(z \o EscapeEnd) = Len(z) + Len(EscapeEnd)
      BY <1>1, <2>1, Joined
    <3>. QED
      BY <1>1, <2>1, <3>1
  <2>3. Leading(u, TRUE) = {<<12, n>>}
    BY <1>1, <1>2, LowEnd, AfterHalf
  <2>4. n \in Nat
    BY <2>1, LowEnd, PairPoint, SMT DEF IsPoint
  <2>. HIDE DEF u, n
  <2>. QED
    BY <2>2, <2>3, <2>4 DEF u
<1>3. CASE at = "string"
  <2>1. t \o <<>> = <<>> /\ 0 \in Nat
    BY <1>3 DEF Pending
  <2>. QED
    BY <1>1, <2>1
<1>4. CASE at = "tail"
  <2>1. TailOf(t)
    BY <1>4 DEF Pending, TailPart
  <2>. QED
    BY <2>1, TailEnd
<1>5. CASE at = "escape"
  <2>. DEFINE c == Lower(14)
              w == Append(<<Backslash>>, c)
  <2>1. c \in Byte /\ c \in DOMAIN Unescaped
    BY DEF Lower, Byte, Unescaped
  <2>2. Leading(w, TRUE) = {<<Len(w), Unescaped[c]>>} /\ Unescaped[c] \in Nat
    BY <2>1, EscapeStep
  <2>3. w = t \o <<c>>
    BY <1>5, <2>1, QuoteByte, OneByte, AppendIsConcat DEF Pending
  <2>4. <<c>> \in Ends
    BY DEF Ends
  <2>. HIDE DEF w, c
  <2>. QED
    BY <2>2, <2>3, <2>4
<1>6. CASE at = "pair"
  <2>1. HighHalf(t)
    BY <1>6 DEF Pending
  <2>. QED
    BY <1>2, <2>1, LowEnd
<1>7. CASE at = "pair_u"
  <2>1. PICK z \in Seq(Byte) : HighHalf(z) /\ t = z \o <<Backslash>>
    BY <1>7 DEF Pending, PairPart
  <2>. DEFINE y == From(EscapeEnd, 2)
  <2>2. /\ y \in Seq(Byte) /\ Len(y) = 5 /\ \A k \in 1 .. 5 : y[k] = EscapeEnd[k + 1]
    <3>1. 2 \in 1 .. Len(EscapeEnd) + 1
      BY <1>1
    <3>2. /\ y \in Seq(Byte) /\ Len(y) = Len(EscapeEnd) - 2 + 1
          /\ \A k \in 1 .. Len(EscapeEnd) - 2 + 1 : y[k] = EscapeEnd[2 + k - 1]
      BY <1>1, <3>1, FromPart
    <3>. HIDE DEF y
    <3>3. Len(EscapeEnd) - 2 + 1 = 5 /\ \A k \in 1 .. 5 : 2 + k - 1 = k + 1
      BY <1>1
    <3>. QED
      BY <3>2, <3>3
  <2>. HIDE DEF y
  <2>3. <<Backslash>> \o y = EscapeEnd
    <3>. DEFINE b == <<Backslash>>
                v == b \o y
    <3>1. b \in Seq(Byte) /\ Len(b) = 1 /\ b[1] = EscapeEnd[1]
      BY QuoteByte, OneByte, EscapeEndIs
    <3>. HIDE DEF b
    <3>2. v \in Seq(Byte) /\ Len(v) = 6 /\ v[1] = b[1] /\ \A k \in 1 .. 5 : v[1 + k] = y[k]
      <4>1. /\ v \in Seq(Byte) /\ Len(v) = Len(b) + Len(y) /\ \A k \in 1 .. Len(b) : v[k] = b[k]
            /\ \A k \in 1 .. Len(y) : v[Len(b) + k] = y[k]
        BY <2>2, <3>1, Joined
      <4>. HIDE DEF v
      <4>. QED
        BY <2>2, <3>1, <4>1
    <3>. HIDE DEF v
    <3>3. \A k \in 1 .. 6 : v[k] = EscapeEnd[k]
      <4>. TAKE k \in 1 .. 6
      <4>1. CASE k = 1
        BY <3>1, <3>2, <4>1
      <4>2. CASE k # 1
        <5>1. k - 1 \in 1 .. 5 /\ 1 + (k - 1) = k /\ (k - 1) + 1 = k
          BY <4>2
        <5>. QED
          BY <2>2, <3>2, <5>1
      <4>. QED
        BY <4>1, <4>2
    <3>. QED
      BY <1>1, <3>2, <3>3, SeqEqual DEF v, b
  <2>4. t \o y = z \o EscapeEnd
    <3>. DEFINE b == <<Backslash>>
    <3>1. b \in Seq(Byte) /\ z \in Seq(Byte)
      BY QuoteByte, OneByte
    <3>. HIDE DEF b
    <3>2. (z \o b) \o y = z \o (b \o y)
      BY <2>2, <3>1, Regrouped
    <3>. QED
      BY <2>1, <2>3, <3>2 DEF b
  <2>. QED
    BY <1>2, <2>1, <2>4, LowEnd DEF y
<1>. QED
  BY <1>3, <1>4, <1>5, <1>6, <1>7 DEF StringPcs

LEMMA StringBegins ==
  ASSUME PartsInv, pc \in StringPcs \ {"hex"}
  PROVE  BeginsString(Text)
<1>1. PICK C \in Seq(Byte), b \in Seq(Byte), t \in Seq(Byte), x \in Seq(Byte) : Parts(C, b, t, x)
  BY DEF PartsInv
<1>2. PICK y \in Ends, n \in Nat : t \o y # <<>> => Leading(t \o y, TRUE) = {<<Len(t \o y), n>>}
  BY <1>1, PendingEnds DEF Parts
<1>3. In(Decoded(C, TRUE), Nat) /\ Text = Str(C, t)
  BY <1>1 DEF Parts, Kept
<1>. QED
  BY <1>2, <1>3, CanEnd

LEMMA QuoteBegins ==
  ASSUME NEW s, s[1] = Quote
  PROVE  Begins(s) <=> BeginsString(s)
<1>1. s[1] \notin Digit \cup {Minus}
  BY DEF Digit, Minus, Quote
<1>2. \A l \in Literals : s[1] # l[1][1]
  BY LiteralFirst
<1>. QED
  BY <1>1, <1>2 DEF Begins

-------------------------------------------------------------------------------
(* White space: a way through the bytes from f to k, over blanks and whole *)
(* comments.                                                               *)
Gap(s, comments, n, m) ==
  \/ m = n + 1 /\ s[n] \in {Blank, HT, LF, CR}
  \/ comments /\ m >= n + 3 /\ IsComment(SubSeq(s, n, m - 1))
Tailed(s, comments, ended, n) ==
  n = Len(s) + 1 \/ (n <= Len(s) /\ comments /\ ended /\ IsComment(Append(From(s, n), LF)))
Way(s, comments, ended, P) ==
  \A n \in P : Tailed(s, comments, ended, n) \/ \E m \in P : m > n /\ Gap(s, comments, n, m)

(* The recursion of IsSpace has a solution, and any solution finds a way.  *)
Blanks(s, comments, ended, g, n) ==
  \/ n > Len(s)
  \/ s[n] \in {Blank, HT, LF, CR} /\ g[n + 1]
  \/ /\ comments
     /\ \/ \E m \in n + 2 .. Len(s) : IsComment(SubSeq(s, n, m)) /\ g[m + 1]
        \/ ended /\ IsComment(Append(From(s, n), LF))
Settles(g, s, comments, ended) == g = [n \in 1 .. Len(s) + 1 |-> Blanks(s, comments, ended, g, n)]

LEMMA BlanksIs ==
  ASSUME NEW s \in Seq(Byte), NEW comments \in BOOLEAN, NEW ended \in BOOLEAN, NEW g,
         NEW n \in 1 .. Len(s) + 1
  PROVE  Blanks(s, comments, ended, g, n) <=>
           Tailed(s, comments, ended, n) \/ \E m \in n + 1 .. Len(s) + 1 : Gap(s, comments, n, m) /\ g[m]
<1>1. Len(s) \in Nat /\ n \in Nat \ {0} /\ (n > Len(s) <=> n = Len(s) + 1)
  BY LenProperties
<1>2. CASE n > Len(s)
  BY <1>1, <1>2 DEF Blanks, Tailed
<1>3. CASE ~(n > Len(s))
  <2>0. n + 1 \in n + 1 .. Len(s) + 1 /\ n # Len(s) + 1 /\ n <= Len(s)
    BY <1>1, <1>3
  <2>1. ASSUME NEW m \in n + 2 .. Len(s), IsComment(SubSeq(s, n, m)), g[m + 1], comments
        PROVE  \E i \in n + 1 .. Len(s) + 1 : Gap(s, comments, n, i) /\ g[i]
    <3>1. m + 1 \in n + 1 .. Len(s) + 1 /\ m + 1 >= n + 3 /\ (m + 1) - 1 = m
      BY <1>1
    <3>. QED
      BY <2>1, <3>1 DEF Gap
  <2>2. ASSUME NEW m \in n + 1 .. Len(s) + 1, m >= n + 3, IsComment(SubSeq(s, n, m - 1)), g[m]
        PROVE  \E i \in n + 2 .. Len(s) : IsComment(SubSeq(s, n, i)) /\ g[i + 1]
    <3>1. m - 1 \in n + 2 .. Len(s) /\ (m - 1) + 1 = m
      BY <1>1, <2>2
    <3>. QED
      BY <2>2, <3>1
  <2>3. ASSUME s[n] \in {Blank, HT, LF, CR}, g[n + 1]
        PROVE  \E i \in n + 1 .. Len(s) + 1 : Gap(s, comments, n, i) /\ g[i]
    BY <2>0, <2>3 DEF Gap
  <2>4. ASSUME Blanks(s, comments, ended, g, n)
        PROVE  Tailed(s, comments, ended, n) \/ \E m \in n + 1 .. Len(s) + 1 : Gap(s, comments, n, m) /\ g[m]
    BY <1>3, <2>0, <2>1, <2>3, <2>4 DEF Blanks, Tailed
  <2>5. ASSUME NEW m \in n + 1 .. Len(s) + 1, Gap(s, comments, n, m), g[m]
        PROVE  Blanks(s, comments, ended, g, n)
    BY <2>2, <2>5 DEF Blanks, Gap
  <2>6. Tailed(s, comments, ended, n) => Blanks(s, comments, ended, g, n)
    BY <2>0 DEF Blanks, Tailed
  <2>. QED
    BY <2>4, <2>5, <2>6
<1>. QED
  BY <1>2, <1>3

LEMMA Settleable ==
  ASSUME NEW s \in Seq(Byte), NEW comments \in BOOLEAN, NEW ended \in BOOLEAN
  PROVE  \E g : Settles(g, s, comments, ended)
<1>. DEFINE N == Len(s) + 1
            Can(n) == \E P \in SUBSET (1 .. N) : n \in P /\ Way(s, comments, ended, P)
            g == [n \in 1 .. N |-> Can(n)]
            B(n) == Blanks(s, comments, ended, g, n)
<1>1. Len(s) \in Nat
  BY LenProperties
<1>2. ASSUME NEW n \in 1 .. N
      PROVE  Can(n) <=> B(n)
  <2>1. B(n) <=> Tailed(s, comments, ended, n) \/ \E m \in n + 1 .. N : Gap(s, comments, n, m) /\ g[m]
    <3>. HIDE DEF g
    <3>. QED
      BY BlanksIs
  <2>2. \A m \in 1 .. N : g[m] <=> Can(m)
    <3>. HIDE DEF Can
    <3>. QED
      OBVIOUS
  <2>3. \A m \in n + 1 .. N : m \in 1 .. N /\ m > n
    BY <1>1
  <2>. HIDE DEF g, B
  <2>4. ASSUME NEW P \in SUBSET (1 .. N), n \in P, Way(s, comments, ended, P)
        PROVE  B(n)
    <3>1. CASE Tailed(s, comments, ended, n)
      BY <2>1, <3>1
    <3>2. CASE \E m \in P : m > n /\ Gap(s, comments, n, m)
      <4>1. PICK m \in P : m > n /\ Gap(s, comments, n, m)
        BY <3>2
      <4>2. m \in n + 1 .. N
        BY <1>1, <4>1
      <4>3. g[m]
        BY <2>2, <2>4
      <4>. QED
        BY <2>1, <4>1, <4>2, <4>3
    <3>. QED
      BY <2>4, <3>1, <3>2 DEF Way
  <2>5. ASSUME Tailed(s, comments, ended, n)
        PROVE  Can(n)
    <3>1. {n} \in SUBSET (1 .. N) /\ n \in {n} /\ Way(s, comments, ended, {n})
      BY <2>5 DEF Way
    <3>. QED
      BY <3>1
  <2>6. ASSUME NEW m \in n + 1 .. N, Gap(s, comments, n, m), g[m]
        PROVE  Can(n)
    <3>1. PICK P \in SUBSET (1 .. N) : m \in P /\ Way(s, comments, ended, P)
      BY <2>2, <2>3, <2>6
    <3>2. P \cup {n} \in SUBSET (1 .. N) /\ n \in P \cup {n}
      OBVIOUS
    <3>3. Way(s, comments, ended, P \cup {n})
      BY <2>3, <2>6, <3>1 DEF Way
    <3>. QED
      BY <3>2, <3>3
  <2>. QED
    BY <2>1, <2>4, <2>5, <2>6
<1>3. \A n \in 1 .. N : Can(n) \in BOOLEAN /\ B(n) \in BOOLEAN
  BY DEF Blanks
<1>4. g = [n \in 1 .. N |-> B(n)]
  <2>1. \A n \in 1 .. N : Can(n) = B(n)
    <3>. HIDE DEF Can, B
    <3>. QED
      BY <1>2, <1>3
  <2>. HIDE DEF Can, B
  <2>. QED
    BY <2>1 DEF g
<1>. HIDE DEF g
<1>5. Settles(g, s, comments, ended)
  BY <1>4 DEF Settles
<1>. QED
  BY <1>5

LEMMA SpaceOf ==
  ASSUME NEW s \in Seq(Byte), NEW comments \in BOOLEAN, NEW ended \in BOOLEAN
  PROVE  \E g : Settles(g, s, comments, ended) /\ (g[1] => IsSpace(s, comments, ended))
<1>1. IsSpace(s, comments, ended) = (CHOOSE g : g = [n \in 1 .. Len(s) + 1 |-> Blanks(s, comments, ended, g, n)])[1]
  BY DEF IsSpace, Blanks
<1>2. IsSpace(s, comments, ended) = (CHOOSE g : Settles(g, s, comments, ended))[1]
  BY <1>1 DEF Settles
<1>3. Settles(CHOOSE g : Settles(g, s, comments, ended), s, comments, ended)
  BY Settleable, Zenon
<1>. QED
  BY <1>2, <1>3, Zenon

LEMMA SpaceFound ==
  ASSUME NEW s \in Seq(Byte), NEW comments \in BOOLEAN, NEW ended \in BOOLEAN,
         NEW P \in SUBSET (1 .. Len(s) + 1), 1 \in P, Way(s, comments, ended, P)
  PROVE  IsSpace(s, comments, ended)
<1>1. PICK g : Settles(g, s, comments, ended) /\ (g[1] => IsSpace(s, comments, ended))
  BY SpaceOf
<1>. DEFINE N == Len(s) + 1
            T == {m \in Nat : \A n \in P : n >= N - m => g[n]}
<1>2. Len(s) \in Nat /\ N \in Nat
  BY LenProperties
<1>3. ASSUME NEW n \in P, \A i \in P : i > n => g[i]
      PROVE  g[n]
  <2>1. n \in 1 .. N /\ n \in Nat
    BY <1>2
  <2>2. g[n] = Blanks(s, comments, ended, g, n)
    BY <1>1, <2>1 DEF Settles
  <2>3. Blanks(s, comments, ended, g, n) <=>
          Tailed(s, comments, ended, n) \/ \E m \in n + 1 .. N : Gap(s, comments, n, m) /\ g[m]
    BY <2>1, BlanksIs
  <2>4. Tailed(s, comments, ended, n) \/ \E m \in P : m > n /\ Gap(s, comments, n, m)
    BY DEF Way
  <2>5. \A m \in P : m > n => m \in n + 1 .. N
    BY <1>2, <2>1
  <2>. QED
    BY <1>3, <2>2, <2>3, <2>4, <2>5
<1>4. 0 \in T
  <2>1. ASSUME NEW n \in P, n >= N - 0
        PROVE  g[n]
    <3>1. \A i \in P : ~(i > n)
      BY <1>2, <2>1
    <3>. QED
      BY <1>3, <3>1
  <2>. QED
    BY <2>1
<1>5. ASSUME NEW m \in 0 .. N - 1, m \in T
      PROVE  m + 1 \in T
  <2>1. ASSUME NEW n \in P, n >= N - (m + 1)
        PROVE  g[n]
    <3>1. CASE n >= N - m
      BY <1>5, <3>1
    <3>2. CASE ~(n >= N - m)
      <4>1. \A i \in P : i > n => i >= N - m
        BY <1>2, <2>1, <3>2
      <4>2. \A i \in P : i > n => g[i]
        BY <1>5, <4>1
      <4>. QED
        BY <1>3, <4>2
    <3>. QED
      BY <3>1, <3>2
  <2>. QED
    BY <2>1
<1>6. N \in T
  <2>. HIDE DEF T, N
  <2>1. \A m \in 0 .. N : m \in T
    BY <1>2, <1>4, <1>5, UpTo
  <2>. QED
    BY <1>2, <2>1
<1>7. g[1]
  BY <1>2, <1>6
<1>. QED
  BY <1>1, <1>7

-------------------------------------------------------------------------------
(* A way in what was read, from its place f to its place k, and the one    *)
(* that ends in a comment which only the end of the input ends.            *)
Route(s, comments, P, k) == \A n \in P : n = k \/ \E m \in P : m > n /\ Gap(s, comments, n, m)
Crosses(s, comments, f, k) == f <= k /\ \E P \in SUBSET (f .. k) : f \in P /\ Route(s, comments, P, k)
Open(s, comments, f) ==
  comments /\ \E j \in f .. Len(s) : Crosses(s, comments, f, j) /\ IsComment(Append(SubSeq(s, j, Len(s)), LF))

LEMMA PartAppended ==
  ASSUME NEW s \in Seq(Byte), NEW c \in Byte, NEW a \in Nat \ {0}, NEW b \in 0 .. Len(s)
  PROVE  SubSeq(Append(s, c), a, b) = SubSeq(s, a, b)
<1>. DEFINE t == Append(s, c)
            u == SubSeq(s, a, b)
            v == SubSeq(t, a, b)
<1>1. t \in Seq(Byte) /\ Len(s) \in Nat /\ Len(t) = Len(s) + 1 /\ \A k \in 1 .. Len(s) : t[k] = s[k]
  BY Appended
<1>. HIDE DEF t
<1>2. b \in 0 .. Len(t)
  BY <1>1
<1>3. /\ u \in Seq(Byte) /\ Len(u) = IF a <= b THEN b - a + 1 ELSE 0
      /\ \A k \in 1 .. b - a + 1 : u[k] = s[a + k - 1]
  BY Part
<1>4. /\ v \in Seq(Byte) /\ Len(v) = IF a <= b THEN b - a + 1 ELSE 0
      /\ \A k \in 1 .. b - a + 1 : v[k] = t[a + k - 1]
  BY <1>1, <1>2, Part
<1>. HIDE DEF u, v
<1>5. \A k \in 1 .. Len(u) : u[k] = v[k]
  <2>. TAKE k \in 1 .. Len(u)
  <2>1. k \in 1 .. b - a + 1 /\ a + k - 1 \in 1 .. Len(s)
    BY <1>1, <1>3
  <2>. QED
    BY <1>1, <1>3, <1>4, <2>1
<1>6. Len(u) = Len(v)
  BY <1>3, <1>4
<1>7. u = v
  BY <1>3, <1>4, <1>5, <1>6, SeqEqual
<1>. QED
  BY <1>7 DEF u, v, t

LEMMA GapKept ==
  ASSUME NEW s \in Seq(Byte), NEW c \in Byte, NEW comments, NEW n \in Nat \ {0}, NEW m \in Nat, m <= Len(s) + 1,
         m > n, Gap(s, comments, n, m)
  PROVE  Gap(Append(s, c), comments, n, m)
<1>1. Len(s) \in Nat /\ m - 1 \in 0 .. Len(s) /\ n \in 1 .. Len(s)
  BY LenProperties
<1>2. SubSeq(Append(s, c), n, m - 1) = SubSeq(s, n, m - 1)
  BY <1>1, PartAppended
<1>3. Append(s, c)[n] = s[n]
  BY <1>1, Appended
<1>. QED
  BY <1>2, <1>3 DEF Gap

LEMMA CrossesKept ==
  ASSUME NEW s \in Seq(Byte), NEW c \in Byte, NEW comments, NEW f \in Nat \ {0}, NEW k \in Nat, k <= Len(s) + 1,
         Crosses(s, comments, f, k)
  PROVE  Crosses(Append(s, c), comments, f, k)
<1>1. PICK P \in SUBSET (f .. k) : f \in P /\ Route(s, comments, P, k)
  BY DEF Crosses
<1>2. Len(s) \in Nat
  BY LenProperties
<1>3. \A n \in P : n \in Nat \ {0} /\ n <= Len(s) + 1
  BY <1>2
<1>4. \A n, m \in P : m > n /\ Gap(s, comments, n, m) => Gap(Append(s, c), comments, n, m)
  BY <1>3, GapKept
<1>5. Route(Append(s, c), comments, P, k)
  BY <1>1, <1>4 DEF Route
<1>. QED
  BY <1>1, <1>5 DEF Crosses

LEMMA CrossesMore ==
  ASSUME NEW s, NEW comments, NEW f \in Nat, NEW k \in Nat, NEW m \in Nat, m > k,
         Crosses(s, comments, f, k), Gap(s, comments, k, m)
  PROVE  Crosses(s, comments, f, m)
<1>1. PICK P \in SUBSET (f .. k) : f \in P /\ Route(s, comments, P, k) /\ f <= k
  BY DEF Crosses
<1>. DEFINE Q == P \cup {k, m}
<1>2. Q \in SUBSET (f .. m) /\ f \in Q /\ f <= m
  BY <1>1
<1>3. Route(s, comments, Q, m)
  BY <1>1 DEF Route
<1>. HIDE DEF Q
<1>. QED
  BY <1>2, <1>3 DEF Crosses

LEMMA CrossesNone ==
  ASSUME NEW s, NEW comments, NEW f \in Nat
  PROVE  Crosses(s, comments, f, f)
<1>1. {f} \in SUBSET (f .. f) /\ f \in {f} /\ Route(s, comments, {f}, f)
  BY DEF Route
<1>. QED
  BY <1>1 DEF Crosses

LEMMA CommentFirst ==
  ASSUME NEW s, IsComment(s)
  PROVE  s[1] = Slash /\ Len(s) >= 3
BY DEF IsComment

LEMMA CrossesFirst ==
  ASSUME NEW s \in Seq(Byte), NEW comments, NEW f \in Nat \ {0}, NEW k \in Nat, k <= Len(s) + 1, f < k,
         Crosses(s, comments, f, k)
  PROVE  s[f] \in {Blank, HT, LF, CR, Slash}
<1>1. PICK P \in SUBSET (f .. k) : f \in P /\ Route(s, comments, P, k)
  BY DEF Crosses
<1>2. PICK m \in P : m > f /\ Gap(s, comments, f, m)
  BY <1>1 DEF Route
<1>3. Len(s) \in Nat /\ m - 1 \in 0 .. Len(s) /\ m \in Nat
  BY <1>2, LenProperties
<1>4. ASSUME m >= f + 3, IsComment(SubSeq(s, f, m - 1))
      PROVE  s[f] = Slash
  <2>1. \A i \in 1 .. (m - 1) - f + 1 : SubSeq(s, f, m - 1)[i] = s[f + i - 1]
    BY <1>3, Part
  <2>2. 1 \in 1 .. (m - 1) - f + 1 /\ f + 1 - 1 = f
    BY <1>3, <1>4
  <2>3. SubSeq(s, f, m - 1)[1] = s[f]
    BY <2>1, <2>2
  <2>. QED
    BY <1>4, <2>3, CommentFirst
<1>. QED
  BY <1>2, <1>4 DEF Gap

LEMMA OpenFirst ==
  ASSUME NEW s \in Seq(Byte), NEW comments, NEW f \in Nat \ {0}, Open(s, comments, f)
  PROVE  f <= Len(s) /\ s[f] \in {Blank, HT, LF, CR, Slash}
<1>1. PICK j \in f .. Len(s) : Crosses(s, comments, f, j) /\ IsComment(Append(SubSeq(s, j, Len(s)), LF))
  BY DEF Open
<1>2. Len(s) \in Nat /\ j \in Nat /\ f <= Len(s)
  BY LenProperties
<1>3. CASE f < j
  BY <1>1, <1>2, <1>3, CrossesFirst
<1>4. CASE f = j
  <2>. DEFINE u == SubSeq(s, f, Len(s))
  <2>1. u \in Seq(Byte) /\ Len(u) = Len(s) - f + 1 /\ \A i \in 1 .. Len(s) - f + 1 : u[i] = s[f + i - 1]
    <3>1. Len(s) \in 0 .. Len(s)
      BY <1>2
    <3>. QED
      BY <1>2, <3>1, Part
  <2>. HIDE DEF u
  <2>2. 1 \in 1 .. Len(s) - f + 1 /\ f + 1 - 1 = f
    BY <1>2
  <2>3. u[1] = s[f] /\ u # <<>>
    BY <2>1, <2>2
  <2>4. LF \in Byte
    BY DEF LF, Byte
  <2>5. Append(u, LF)[1] = u[1]
    BY <2>1, <2>3, <2>4, Appended
  <2>6. Append(u, LF)[1] = Slash
    BY <1>1, <1>4, CommentFirst DEF u
  <2>. QED
    BY <1>2, <2>3, <2>5, <2>6
<1>. QED
  BY <1>2, <1>3, <1>4

LEMMA GapMoved ==
  ASSUME NEW s \in Seq(Byte), NEW comments, NEW f \in Nat \ {0}, NEW k \in Nat, k <= Len(s) + 1, f <= k,
         NEW n \in f .. k, NEW m \in f .. k, m > n, Gap(s, comments, n, m)
  PROVE  Gap(SubSeq(s, f, k - 1), comments, n - f + 1, m - f + 1)
<1>. DEFINE z == SubSeq(s, f, k - 1)
            a == n - f + 1
            b == m - f + 1
<1>1. /\ Len(s) \in Nat /\ k - 1 \in 0 .. Len(s) /\ n \in Nat /\ m \in Nat
      /\ a \in Nat \ {0} /\ f + a - 1 = n /\ a \in 1 .. (k - 1) - f + 1
      /\ b - 1 \in 0 .. (k - 1) - f + 1 /\ f + (b - 1) - 1 = m - 1 /\ f <= (k - 1) + 1
      /\ (m = n + 1 => b = a + 1) /\ (m >= n + 3 => b >= a + 3)
  BY LenProperties
<1>2. \A i \in 1 .. (k - 1) - f + 1 : z[i] = s[f + i - 1]
  BY <1>1, Part
<1>3. SubSeq(z, a, b - 1) = SubSeq(s, f + a - 1, f + (b - 1) - 1)
  <2>. HIDE DEF a, b
  <2>. QED
    BY <1>1, PartOfPart
<1>. HIDE DEF z, a, b
<1>4. z[a] = s[n] /\ SubSeq(z, a, b - 1) = SubSeq(s, n, m - 1)
  BY <1>1, <1>2, <1>3
<1>5. Gap(z, comments, a, b)
  BY <1>1, <1>4 DEF Gap
<1>. QED
  BY <1>5 DEF z, a, b

LEMMA SpaceMoved ==
  ASSUME NEW s \in Seq(Byte), NEW comments \in BOOLEAN, NEW ended \in BOOLEAN, NEW f \in Nat \ {0},
         NEW k \in Nat, k <= Len(s) + 1, f <= k, NEW P \in SUBSET (f .. k), f \in P, NEW j \in f .. k,
         Route(s, comments, P, j),
         j = k \/ (comments /\ ended /\ j < k /\ IsComment(Append(SubSeq(s, j, k - 1), LF)))
  PROVE  IsSpace(SubSeq(s, f, k - 1), comments, ended)
<1>. DEFINE z == SubSeq(s, f, k - 1)
            at(n) == n - f + 1
            Q == {at(n) : n \in P}
<1>1. Len(s) \in Nat /\ k - 1 \in 0 .. Len(s) /\ \A n \in P : n \in f .. k /\ n \in Nat
  BY LenProperties
<1>2. z \in Seq(Byte) /\ Len(z) = k - f
  <2>1. z \in Seq(Byte) /\ Len(z) = IF f <= k - 1 THEN (k - 1) - f + 1 ELSE 0
    BY <1>1, Part
  <2>. HIDE DEF z
  <2>. QED
    BY <1>1, <2>1
<1>3. /\ \A n \in P : at(n) \in 1 .. Len(z) + 1
      /\ at(f) = 1 /\ at(k) = Len(z) + 1
      /\ \A n, m \in P : m > n => at(m) > at(n)
  <2>. HIDE DEF z
  <2>. QED
    BY <1>1, <1>2
<1>4. \A n, m \in P : m > n /\ Gap(s, comments, n, m) => Gap(z, comments, at(n), at(m))
  BY <1>1, GapMoved
<1>5. Tailed(z, comments, ended, at(j))
  <2>1. CASE j = k
    BY <1>3, <2>1 DEF Tailed
  <2>2. CASE comments /\ ended /\ j < k /\ IsComment(Append(SubSeq(s, j, k - 1), LF))
    <3>1. /\ at(j) <= Len(z) /\ at(j) \in Nat \ {0} /\ f + at(j) - 1 = j /\ f <= (k - 1) + 1
          /\ Len(z) \in 0 .. (k - 1) - f + 1 /\ f + Len(z) - 1 = k - 1
      <4>. HIDE DEF z
      <4>. QED
        BY <1>1, <1>2, <2>2
    <3>2. From(z, at(j)) = SubSeq(s, j, k - 1)
      <4>. DEFINE a == at(j)
                  b == Len(z)
      <4>. HIDE DEF a, b
      <4>1. SubSeq(z, a, b) = SubSeq(s, f + a - 1, f + b - 1)
        BY <1>1, <3>1, PartOfPart DEF a, b
      <4>. QED
        BY <3>1, <4>1 DEF a, b, From
    <3>. HIDE DEF z, at
    <3>. QED
      BY <2>2, <3>1, <3>2 DEF Tailed
  <2>. QED
    BY <2>1, <2>2
<1>. HIDE DEF z, at
<1>6. Q \in SUBSET (1 .. Len(z) + 1) /\ 1 \in Q
  BY <1>3
<1>7. Way(z, comments, ended, Q)
  BY <1>3, <1>4, <1>5 DEF Way, Route
<1>8. IsSpace(z, comments, ended)
  <2>. HIDE DEF Q
  <2>. QED
    BY <1>2, <1>6, <1>7, SpaceFound
<1>. QED
  BY <1>8 DEF z

LEMMA SpaceCrossed ==
  ASSUME NEW s \in Seq(Byte), NEW comments \in BOOLEAN, NEW ended \in BOOLEAN, NEW f \in Nat \ {0},
         NEW k \in Nat, k <= Len(s) + 1, Crosses(s, comments, f, k)
  PROVE  IsSpace(SubSeq(s, f, k - 1), comments, ended)
<1>1. PICK P \in SUBSET (f .. k) : f \in P /\ Route(s, comments, P, k) /\ f <= k
  BY DEF Crosses
<1>2. k \in f .. k
  BY <1>1
<1>. QED
  BY <1>1, <1>2, SpaceMoved

LEMMA SpaceOpen ==
  ASSUME NEW s \in Seq(Byte), NEW comments \in BOOLEAN, NEW f \in Nat \ {0}, Open(s, comments, f)
  PROVE  IsSpace(SubSeq(s, f, Len(s)), comments, TRUE)
<1>1. PICK j \in f .. Len(s) : /\ comments /\ Crosses(s, comments, f, j)
                               /\ IsComment(Append(SubSeq(s, j, Len(s)), LF))
  BY DEF Open
<1>2. PICK P \in SUBSET (f .. j) : f \in P /\ Route(s, comments, P, j) /\ f <= j
  BY <1>1 DEF Crosses
<1>. DEFINE k == Len(s) + 1
<1>3. Len(s) \in Nat /\ k \in Nat /\ k - 1 = Len(s) /\ j \in f .. k /\ j < k /\ f <= k /\ k <= Len(s) + 1
  BY <1>2, LenProperties
<1>4. P \in SUBSET (f .. k)
  BY <1>2, <1>3
<1>. HIDE DEF k
<1>5. IsSpace(SubSeq(s, f, k - 1), comments, TRUE)
  BY <1>1, <1>2, <1>3, <1>4, SpaceMoved
<1>. QED
  BY <1>3, <1>5

-------------------------------------------------------------------------------
(* The white space that was read after the first a bytes, without the byte *)
(* order mark in front.                                                    *)
HasMark(s) == Len(s) >= 3 /\ s[1] = \hEF /\ s[2] = \hBB /\ s[3] = \hBF
IsFirst(s, a, f) == f = a + 1 \/ (a = 0 /\ f = 4 /\ HasMark(s))
Led(s, comments, a, k) == \E f \in 1 .. k : IsFirst(s, a, f) /\ Crosses(s, comments, f, k)
Ended(s, comments, a) == \E f \in 1 .. Len(s) : IsFirst(s, a, f) /\ Open(s, comments, f)
Bare(z, a) == IF a = 0 /\ Len(z) >= 3 /\ SubSeq(z, 1, 3) = <<\hEF, \hBB, \hBF>> THEN From(z, 4) ELSE z

LEMMA LedKept ==
  ASSUME NEW s \in Seq(Byte), NEW c \in Byte, NEW comments, NEW a, NEW k \in Nat, k <= Len(s) + 1,
         Led(s, comments, a, k)
  PROVE  Led(Append(s, c), comments, a, k)
<1>1. PICK f \in 1 .. k : IsFirst(s, a, f) /\ Crosses(s, comments, f, k)
  BY DEF Led
<1>2. Crosses(Append(s, c), comments, f, k)
  BY <1>1, CrossesKept
<1>3. HasMark(s) => HasMark(Append(s, c))
  <2>1. Len(s) \in Nat /\ Len(Append(s, c)) = Len(s) + 1 /\ \A i \in 1 .. Len(s) : Append(s, c)[i] = s[i]
    BY Appended
  <2>2. Len(s) >= 3 => 1 \in 1 .. Len(s) /\ 2 \in 1 .. Len(s) /\ 3 \in 1 .. Len(s) /\ Len(s) + 1 >= 3
    BY <2>1
  <2>. QED
    BY <2>1, <2>2 DEF HasMark
<1>. QED
  BY <1>1, <1>2, <1>3 DEF Led, IsFirst

LEMMA LedMore ==
  ASSUME NEW s, NEW comments, NEW a, NEW k \in Nat, NEW m \in Nat, m > k, Led(s, comments, a, k),
         Gap(s, comments, k, m)
  PROVE  Led(s, comments, a, m)
<1>1. PICK f \in 1 .. k : IsFirst(s, a, f) /\ Crosses(s, comments, f, k)
  BY DEF Led
<1>2. Crosses(s, comments, f, m) /\ f \in 1 .. m
  BY <1>1, CrossesMore
<1>. QED
  BY <1>1, <1>2 DEF Led

LEMMA LedNone ==
  ASSUME NEW s, NEW comments, NEW a \in Nat
  PROVE  Led(s, comments, a, a + 1) /\ (a = 0 /\ HasMark(s) => Led(s, comments, a, 4))
<1>1. Crosses(s, comments, a + 1, a + 1) /\ Crosses(s, comments, 4, 4) /\ a + 1 \in 1 .. a + 1 /\ 4 \in 1 .. 4
  BY CrossesNone
<1>. QED
  BY <1>1 DEF Led, IsFirst

LEMMA EndedBy ==
  ASSUME NEW s, NEW comments, NEW a, NEW j \in 1 .. Len(s), Len(s) \in Nat, Led(s, comments, a, j), comments,
         IsComment(Append(SubSeq(s, j, Len(s)), LF))
  PROVE  Ended(s, comments, a)
<1>1. PICK f \in 1 .. j : IsFirst(s, a, f) /\ Crosses(s, comments, f, j)
  BY DEF Led
<1>2. f \in 1 .. Len(s) /\ j \in f .. Len(s)
  OBVIOUS
<1>3. Open(s, comments, f)
  BY <1>1, <1>2 DEF Open
<1>. QED
  BY <1>1, <1>2, <1>3 DEF Ended

LEMMA BareIs ==
  ASSUME NEW s \in Seq(Byte), NEW a \in Nat, NEW k \in Nat, k <= Len(s) + 1, NEW f \in 1 .. k, IsFirst(s, a, f),
         f < k => s[f] \in {Blank, HT, LF, CR, Slash}
  PROVE  Bare(SubSeq(s, a + 1, k - 1), a) = SubSeq(s, f, k - 1)
<1>. DEFINE z == SubSeq(s, a + 1, k - 1)
            b == SubSeq(z, 1, 3)
<1>1. Len(s) \in Nat /\ k - 1 \in 0 .. Len(s) /\ a + 1 \in Nat \ {0}
  BY LenProperties
<1>2. /\ z \in Seq(Byte) /\ Len(z) = IF a + 1 <= k - 1 THEN (k - 1) - (a + 1) + 1 ELSE 0
      /\ \A i \in 1 .. (k - 1) - (a + 1) + 1 : z[i] = s[(a + 1) + i - 1]
  BY <1>1, Part
<1>. HIDE DEF z
<1>3. CASE a = 0 /\ f = 4 /\ HasMark(s)
  <2>1. Len(z) = k - 1 /\ k - 1 >= 3 /\ \A i \in 1 .. k - 1 : z[i] = s[i]
    <3>1. \A i \in 1 .. k - 1 : i \in 1 .. (k - 1) - (a + 1) + 1 /\ (a + 1) + i - 1 = i
      BY <1>1, <1>3
    <3>2. k - 1 >= 3 /\ (k - 1) - (a + 1) + 1 = k - 1 /\ a + 1 <= k - 1
      BY <1>1, <1>3
    <3>. QED
      BY <1>2, <3>1, <3>2
  <2>2. 3 \in 0 .. Len(z) /\ 1 \in 1 .. k - 1 /\ 2 \in 1 .. k - 1 /\ 3 \in 1 .. k - 1
    BY <1>1, <2>1
  <2>3. b \in Seq(Byte) /\ Len(b) = 3 /\ b[1] = \hEF /\ b[2] = \hBB /\ b[3] = \hBF
    <3>1. b \in Seq(Byte) /\ Len(b) = 3 /\ \A i \in 1 .. 3 : b[i] = z[i]
      <4>1. /\ b \in Seq(Byte) /\ Len(b) = IF 1 <= 3 THEN 3 - 1 + 1 ELSE 0
            /\ \A i \in 1 .. 3 - 1 + 1 : b[i] = z[1 + i - 1]
        BY <1>2, <2>2, Part
      <4>. HIDE DEF b
      <4>. QED
        BY <4>1
    <3>. HIDE DEF b
    <3>2. b[1] = z[1] /\ b[2] = z[2] /\ b[3] = z[3]
      BY <3>1
    <3>. QED
      BY <1>3, <2>1, <2>2, <3>1, <3>2 DEF HasMark
  <2>4. b = <<\hEF, \hBB, \hBF>>
    <3>. HIDE DEF b
    <3>. QED
      BY <2>3
  <2>5. Bare(z, a) = From(z, 4)
    <3>1. Len(z) >= 3
      BY <2>1
    <3>. QED
      BY <1>3, <2>4, <3>1 DEF Bare
  <2>6. From(z, 4) = SubSeq(s, 4, k - 1)
    <3>1. SubSeq(SubSeq(s, 1, k - 1), 4, k - 1) = SubSeq(s, 1 + 4 - 1, 1 + (k - 1) - 1)
      <4>1. 1 <= (k - 1) + 1 /\ k - 1 \in 0 .. (k - 1) - 1 + 1 /\ 4 \in Nat \ {0} /\ 1 \in Nat \ {0}
        BY <1>1
      <4>. QED
        BY <1>1, <4>1, PartOfPart
    <3>2. 1 + 4 - 1 = 4 /\ 1 + (k - 1) - 1 = k - 1 /\ a + 1 = 1
      BY <1>1, <1>3
    <3>3. z = SubSeq(s, 1, k - 1)
      BY <3>2 DEF z
    <3>. QED
      BY <2>1, <3>1, <3>2, <3>3 DEF From
  <2>. QED
    BY <1>3, <2>5, <2>6 DEF z
<1>4. CASE f = a + 1
  <2>1. ASSUME a = 0, Len(z) >= 3, b = <<\hEF, \hBB, \hBF>>
        PROVE  FALSE
    <3>1. f < k /\ 1 \in 1 .. (k - 1) - (a + 1) + 1 /\ (a + 1) + 1 - 1 = f
      BY <1>1, <1>2, <1>4, <2>1
    <3>2. z[1] = s[f]
      BY <1>2, <3>1
    <3>3. 3 \in 0 .. Len(z)
      BY <1>1, <1>2, <2>1
    <3>4. b[1] = z[1]
      <4>1. \A i \in 1 .. 3 - 1 + 1 : b[i] = z[1 + i - 1]
        BY <1>2, <3>3, Part
      <4>2. 1 \in 1 .. 3 - 1 + 1 /\ 1 + 1 - 1 = 1
        OBVIOUS
      <4>. HIDE DEF b
      <4>. QED
        BY <4>1, <4>2
    <3>5. b[1] = \hEF
      <4>1. b = <<\hEF, \hBB, \hBF>>
        BY <2>1
      <4>. HIDE DEF b
      <4>. QED
        BY <4>1
    <3>. HIDE DEF b
    <3>6. s[f] = \hEF
      BY <3>2, <3>4, <3>5
    <3>. QED
      BY <3>1, <3>6 DEF Blank, HT, LF, CR, Slash
  <2>2. Bare(z, a) = z
    BY <2>1 DEF Bare
  <2>. QED
    BY <1>4, <2>2 DEF z
<1>. QED
  BY <1>3, <1>4 DEF IsFirst

LEMMA LedSpace ==
  ASSUME NEW s \in Seq(Byte), NEW comments \in BOOLEAN, NEW ended \in BOOLEAN, NEW a \in Nat, NEW k \in Nat,
         k <= Len(s) + 1, Led(s, comments, a, k)
  PROVE  IsSpace(Bare(SubSeq(s, a + 1, k - 1), a), comments, ended)
<1>1. PICK f \in 1 .. k : IsFirst(s, a, f) /\ Crosses(s, comments, f, k)
  BY DEF Led
<1>2. f \in Nat \ {0}
  OBVIOUS
<1>3. f < k => s[f] \in {Blank, HT, LF, CR, Slash}
  BY <1>1, <1>2, CrossesFirst
<1>4. Bare(SubSeq(s, a + 1, k - 1), a) = SubSeq(s, f, k - 1)
  BY <1>1, <1>3, BareIs
<1>. QED
  BY <1>1, <1>2, <1>4, SpaceCrossed

LEMMA EndedSpace ==
  ASSUME NEW s \in Seq(Byte), NEW comments \in BOOLEAN, NEW a \in Nat, Ended(s, comments, a)
  PROVE  IsSpace(Bare(SubSeq(s, a + 1, Len(s)), a), comments, TRUE)
<1>1. PICK f \in 1 .. Len(s) : IsFirst(s, a, f) /\ Open(s, comments, f)
  BY DEF Ended
<1>. DEFINE k == Len(s) + 1
<1>2. Len(s) \in Nat /\ f \in Nat \ {0} /\ k \in Nat /\ k - 1 = Len(s) /\ f \in 1 .. k /\ k <= Len(s) + 1
  BY LenProperties
<1>3. s[f] \in {Blank, HT, LF, CR, Slash}
  BY <1>1, <1>2, OpenFirst
<1>. HIDE DEF k
<1>4. Bare(SubSeq(s, a + 1, k - 1), a) = SubSeq(s, f, k - 1)
  BY <1>1, <1>2, <1>3, BareIs
<1>. QED
  BY <1>1, <1>2, <1>4, SpaceOpen

-------------------------------------------------------------------------------
(* Comments while they are read                                            *)

LineOpen(s) == Len(s) >= 2 /\ s[1] = Slash /\ s[2] = Slash /\ \A n \in 3 .. Len(s) : s[n] \notin {LF, CR, NUL}
BlockOpen(s) == Len(s) >= 2 /\ s[1] = Slash /\ s[2] = Star /\ \A n \in 3 .. Len(s) : s[n] # NUL
NotClosed(s) == \A n \in 3 .. Len(s) : ~EndsComment(s, n)

LEMMA LineMore ==
  ASSUME NEW s \in Seq(Byte), NEW c \in Byte, LineOpen(s)
  PROVE  /\ c \notin {LF, CR, NUL} => LineOpen(Append(s, c))
         /\ c \in {LF, CR, NUL} => IsComment(Append(s, c))
<1>. DEFINE t == Append(s, c)
<1>1. /\ Len(s) \in Nat /\ Len(t) = Len(s) + 1
      /\ \A k \in 1 .. Len(s) : t[k] = s[k]
      /\ t[Len(s) + 1] = c
  BY Appended
<1>. HIDE DEF t
<1>2. Len(s) >= 2 /\ s[1] = Slash /\ s[2] = Slash /\ \A n \in 3 .. Len(s) : s[n] \notin {LF, CR, NUL}
  BY DEF LineOpen
<1>3. 1 \in 1 .. Len(s) /\ 2 \in 1 .. Len(s) /\ Len(t) >= 3 /\ Len(t) - 1 = Len(s)
  BY <1>1, <1>2
<1>4. t[1] = Slash /\ t[2] = Slash /\ \A n \in 3 .. Len(s) : t[n] \notin {LF, CR, NUL}
  BY <1>1, <1>2, <1>3
<1>5. c \notin {LF, CR, NUL} => LineOpen(t)
  <2>. SUFFICES ASSUME c \notin {LF, CR, NUL} PROVE LineOpen(t)
    OBVIOUS
  <2>1. \A n \in 3 .. Len(t) : n \in 3 .. Len(s) \/ n = Len(s) + 1
    BY <1>1
  <2>2. Len(t) >= 2
    BY <1>3
  <2>. QED
    BY <1>1, <1>4, <2>1, <2>2 DEF LineOpen
<1>6. c \in {LF, CR, NUL} => IsComment(t)
  BY <1>1, <1>3, <1>4 DEF IsComment
<1>. QED
  BY <1>5, <1>6 DEF t

LEMMA BlockMore ==
  ASSUME NEW s \in Seq(Byte), NEW c \in Byte, BlockOpen(s)
  PROVE  /\ c # NUL => BlockOpen(Append(s, c))
         /\ c = Slash /\ Len(s) >= 3 /\ s[Len(s)] = Star /\ NotClosed(s) => IsComment(Append(s, c))
<1>. DEFINE t == Append(s, c)
<1>1. /\ Len(s) \in Nat /\ Len(t) = Len(s) + 1
      /\ \A k \in 1 .. Len(s) : t[k] = s[k]
      /\ t[Len(s) + 1] = c
  BY Appended
<1>. HIDE DEF t
<1>2. Len(s) >= 2 /\ s[1] = Slash /\ s[2] = Star /\ \A n \in 3 .. Len(s) : s[n] # NUL
  BY DEF BlockOpen
<1>3. 1 \in 1 .. Len(s) /\ 2 \in 1 .. Len(s) /\ Len(t) >= 3 /\ Len(t) - 1 = Len(s) /\ Len(s) \in 1 .. Len(s)
  BY <1>1, <1>2
<1>4. t[1] = Slash /\ t[2] = Star /\ \A n \in 3 .. Len(s) : t[n] # NUL
  BY <1>1, <1>2, <1>3
<1>5. c # NUL => BlockOpen(t)
  <2>. SUFFICES ASSUME c # NUL PROVE BlockOpen(t)
    OBVIOUS
  <2>1. \A n \in 3 .. Len(t) : n \in 3 .. Len(s) \/ n = Len(s) + 1
    BY <1>1
  <2>2. Len(t) >= 2
    BY <1>3
  <2>. QED
    BY <1>1, <1>4, <2>1, <2>2 DEF BlockOpen
<1>6. ASSUME c = Slash, Len(s) >= 3, s[Len(s)] = Star, NotClosed(s)
      PROVE  IsComment(t)
  <2>1. EndsComment(t, Len(t))
    <3>1. Len(t) >= 4 /\ t[Len(t) - 1] = Star /\ t[Len(t)] = Slash
      BY <1>1, <1>3, <1>6
    <3>. QED
      BY <3>1 DEF EndsComment
  <2>2. \A n \in 3 .. Len(s) : ~EndsComment(t, n)
    <3>1. \A n \in 3 .. Len(s) : n \in 1 .. Len(s) /\ n - 1 \in 1 .. Len(s)
      BY <1>1
    <3>2. \A n \in 3 .. Len(s) : t[n] = s[n] /\ t[n - 1] = s[n - 1]
      BY <1>1, <3>1
    <3>. QED
      BY <1>6, <3>2 DEF EndsComment, NotClosed
  <2>. QED
    BY <1>3, <1>4, <2>1, <2>2 DEF IsComment
<1>. QED
  BY <1>5, <1>6 DEF t

-------------------------------------------------------------------------------
(* What was skipped, at each place of the scan                             *)

ScanInv ==
  /\ pc \in {"bom", "bom2", "bom3"} => from = 0 /\ start = 0
  /\ pc \in {"comment", "line_comment", "comment_text", "comment_star"} => ignore_comments
  /\ pc = "line_comment" => LineOpen(Text)
  /\ pc \in {"comment_text", "comment_star"} => BlockOpen(Text)
  /\ pc = "comment_star" => Len(Text) >= 3 /\ Text[Len(Text)] = Star
AtEnd == current = EOF /\ next_unget = FALSE /\ input # <<>>
Before(k) == Led(Consumed, ignore_comments, from, k)
SpaceInv ==
  pc = "space" => Before(Len(Consumed) + 1) \/ (AtEnd /\ Ended(Consumed, ignore_comments, from))
Unknown == {"uninitialized", "parse_error"}
PastInv ==
  pc \notin {"bom", "bom2", "bom3", "space"} /\ (pc = "returned" => token \notin Unknown) =>
    \/ Before(start + 1)
    \/ /\ pc = "returned" /\ current = EOF /\ start = Len(Consumed)
       /\ Ended(Consumed, ignore_comments, from)
SkipInv == ScanInv /\ SpaceInv /\ PastInv

Within == {"comment", "line_comment", "comment_text", "comment_star", "literal"} \cup Labels \cup StringPcs

LEMMA BeforeKept ==
  ASSUME TypeInv, PastInv, pc \in Within, NEW c \in Bytes, Get(c) \/ GetThenUnget(c),
         UNCHANGED <<ignore_comments, from, start>>
  PROVE  Before(start + 1)'
<1>1. Before(start + 1)
  <2>1. pc \notin {"bom", "bom2", "bom3", "space", "returned"}
    BY DEF Within, Labels, Complete, StringPcs
  <2>. QED
    BY <2>1 DEF PastInv
<1>2. /\ Consumed \in Seq(Byte) /\ Len(Consumed) \in Nat /\ start \in Nat /\ start <= Len(Consumed)
      /\ from \in Nat /\ ReaderInv /\ start + 1 \in Nat /\ start + 1 <= Len(Consumed) + 1
  BY ConsumedType DEF TypeInv, PlaceInv
<1>3. Consumed' = Consumed \/ (c \in Byte /\ Consumed' = Append(Consumed, c))
  <2>1. CASE Get(c)
    BY <1>2, <2>1, GetStep
  <2>2. CASE GetThenUnget(c)
    BY <1>2, <2>2, UngetStep
  <2>. QED
    BY <2>1, <2>2
<1>4. Led(Consumed', ignore_comments, from, start + 1)
  <2>1. CASE Consumed' = Consumed
    BY <1>1, <2>1 DEF Before
  <2>2. CASE c \in Byte /\ Consumed' = Append(Consumed, c)
    BY <1>1, <1>2, <2>2, LedKept DEF Before
  <2>. QED
    BY <1>3, <2>1, <2>2
<1>. QED
  BY <1>4 DEF Before

LEMMA SkipScan ==
  ASSUME TypeInv, Scan
  PROVE  SkipInv'
<1>1. /\ pc' = (IF position.total = 0 THEN "bom" ELSE "space")
      /\ from' = Len(Consumed) /\ start' = Len(Consumed)
      /\ UNCHANGED <<ignore_comments, reader>>
  BY DEF Scan
<1>2. /\ Consumed' = Consumed /\ input' = input
  BY <1>1 DEF Consumed, reader
<1>3. ReaderInv /\ Consumed \in Seq(Byte) /\ Len(Consumed) \in Nat
  BY ConsumedType DEF TypeInv
<1>4. position.total = 0 => Len(Consumed) = 0
  <2>1. CASE current = EOF
    <3>1. position.total = 0 => input = <<>>
      BY <1>3, <2>1 DEF ReaderInv
    <3>2. Consumed = input
      BY <2>1 DEF Consumed
    <3>. QED
      BY <3>1, <3>2
  <2>2. CASE current # EOF
    BY <1>3, <2>2 DEF ReaderInv
  <2>. QED
    BY <2>1, <2>2
<1>5. ScanInv'
  BY <1>1, <1>4 DEF ScanInv
<1>6. SpaceInv'
  <2>1. Led(Consumed, ignore_comments, Len(Consumed), Len(Consumed) + 1)
    BY <1>3, LedNone
  <2>2. Before(Len(Consumed) + 1)'
    BY <1>1, <1>2, <2>1 DEF Before
  <2>. QED
    BY <2>2 DEF SpaceInv
<1>7. PastInv'
  BY <1>1 DEF PastInv
<1>. QED
  BY <1>5, <1>6, <1>7 DEF SkipInv

LEMMA SkipMark ==
  ASSUME TypeInv, TextInv, SkipInv, Bom \/ BomRest
  PROVE  SkipInv'
<1>. USE DEF Goto, Return, Fail
<1>1. /\ ReaderInv /\ start \in Nat /\ start <= Len(Consumed) /\ Text \in Seq(Byte)
      /\ Consumed \in Seq(Byte) /\ Len(Consumed) \in Nat /\ TextIsPart
  BY TextBytes, TextPart, ConsumedType DEF TypeInv, PlaceInv
<1>2. UNCHANGED <<ignore_comments, from, start>> /\ from = 0 /\ start = 0
  BY DEF Bom, BomRest, history, SkipInv, ScanInv
<1>3. CASE pc' \in {"bom2", "bom3"}
  <2>1. ScanInv' /\ SpaceInv' /\ PastInv'
    BY <1>2, <1>3 DEF ScanInv, SpaceInv, PastInv
  <2>. QED
    BY <2>1 DEF SkipInv
<1>4. CASE pc' = "returned"
  <2>1. token' = "parse_error"
    BY <1>4 DEF Bom, BomRest
  <2>2. ScanInv' /\ SpaceInv' /\ PastInv'
    BY <1>4, <2>1 DEF ScanInv, SpaceInv, PastInv, Unknown
  <2>. QED
    BY <2>2 DEF SkipInv
<1>5. CASE pc' = "space"
  <2>1. ScanInv' /\ PastInv'
    BY <1>5 DEF ScanInv, PastInv
  <2>2. Before(Len(Consumed) + 1)'
    <3>1. CASE Bom
      <4>1. PICK c \in Bytes : GetThenUnget(c)
        BY <1>5, <3>1 DEF Bom
      <4>2. Consumed' = Consumed
        BY <1>1, <4>1, UngetStep
      <4>3. Text = <<>>
        BY <3>1 DEF Bom, TextInv, MarkInv
      <4>4. Len(Consumed) = 0
        BY <1>1, <1>2, <4>3 DEF TextIsPart
      <4>5. Led(Consumed, ignore_comments, 0, 0 + 1)
        BY LedNone
      <4>. QED
        BY <1>2, <4>2, <4>4, <4>5 DEF Before
    <3>2. CASE BomRest
      <4>1. PICK c \in Bytes : pc = "bom3" /\ c = \hBF /\ Get(c)
        BY <1>5, <3>2 DEF BomRest
      <4>2. Text = <<\hEF, \hBB>>
        BY <4>1 DEF TextInv, MarkInv
      <4>3. c \in Byte /\ Consumed' = Append(Consumed, c)
        <5>1. Consumed' = IF c = EOF THEN Consumed ELSE Append(Consumed, c)
          BY <1>1, <4>1, GetStep
        <5>. QED
          BY <4>1, <5>1 DEF EOF, Byte
      <4>4. Len(Consumed) = 2 /\ Consumed[1] = \hEF /\ Consumed[2] = \hBB
        <5>1. Len(Text) = 2 /\ Text[1] = \hEF /\ Text[2] = \hBB
          BY <4>2
        <5>2. Len(Text) = Len(Consumed) - 0 /\ \A k \in 1 .. Len(Text) : Text[k] = Consumed[0 + k]
          BY <1>1, <1>2 DEF TextIsPart
        <5>3. Text[1] = Consumed[0 + 1] /\ Text[2] = Consumed[0 + 2]
          BY <5>1, <5>2
        <5>4. Len(Consumed) = 2
          <6>1. Len(Text) = 2 /\ Len(Text) = Len(Consumed) - 0 /\ Len(Consumed) \in Nat
            BY <1>1, <5>1, <5>2
          <6>2. \A n \in Nat : 2 = n - 0 => n = 2
            OBVIOUS
          <6>3. 2 = Len(Consumed) - 0
            BY <6>1, Zenon
          <6>. QED
            BY <6>1, <6>2, <6>3, Zenon
        <5>5. 0 + 1 = 1 /\ 0 + 2 = 2
          OBVIOUS
        <5>. QED
          BY <5>1, <5>3, <5>4, <5>5
      <4>5. HasMark(Consumed') /\ Len(Consumed') = 3
        <5>1. /\ Len(Append(Consumed, c)) = Len(Consumed) + 1
              /\ \A k \in 1 .. Len(Consumed) : Append(Consumed, c)[k] = Consumed[k]
              /\ Append(Consumed, c)[Len(Consumed) + 1] = c
          BY <1>1, <4>3, Appended
        <5>2. 1 \in 1 .. Len(Consumed) /\ 2 \in 1 .. Len(Consumed) /\ Len(Consumed) + 1 = 3
          BY <4>4
        <5>3. Len(Consumed') = 3 /\ Consumed'[1] = \hEF /\ Consumed'[2] = \hBB /\ Consumed'[3] = c
          BY <4>3, <4>4, <5>1, <5>2
        <5>. QED
          BY <4>1, <5>3 DEF HasMark
      <4>6. Led(Consumed', ignore_comments, 0, 4)
        BY <4>5, LedNone
      <4>. QED
        BY <1>2, <4>5, <4>6 DEF Before
    <3>. QED
      BY <3>1, <3>2
  <2>. QED
    BY <2>1, <2>2 DEF SkipInv, SpaceInv
<1>. QED
  BY <1>3, <1>4, <1>5 DEF Bom, BomRest

LEMMA SkipComment ==
  ASSUME TypeInv, TextInv, SkipInv, scan_comment
  PROVE  SkipInv'
<1>. USE DEF Goto, Return, Fail
<1>1. /\ ReaderInv /\ start \in Nat /\ start <= Len(Consumed) /\ from \in Nat
      /\ Text \in Seq(Byte) /\ Len(Text) \in Nat
      /\ Consumed \in Seq(Byte) /\ Len(Consumed) \in Nat /\ PastInv
  BY TextBytes, ConsumedType DEF TypeInv, PlaceInv, SkipInv
<1>2. /\ UNCHANGED <<ignore_comments, from, start>> /\ ignore_comments
      /\ pc \in {"comment", "line_comment", "comment_text", "comment_star"} /\ pc \in Within
  BY DEF scan_comment, Comment, LineComment, CommentText, CommentStar, history, SkipInv, ScanInv, Within
<1>3. \/ pc' = "returned" /\ token' = "parse_error"
      \/ /\ pc = "comment"
         /\ \E c \in Bytes : Get(c) /\ ((c = Slash /\ pc' = "line_comment") \/ (c = Star /\ pc' = "comment_text"))
      \/ /\ pc = "line_comment"
         /\ \E c \in Bytes : Get(c) /\ pc' = IF c \in {LF, CR, EOF, NUL} THEN "space" ELSE "line_comment"
      \/ /\ pc = "comment_text"
         /\ \E c \in Bytes : /\ Get(c) /\ c \notin {EOF, NUL}
                               /\ pc' = IF c = Star THEN "comment_star" ELSE "comment_text"
      \/ pc = "comment_star" /\ pc' = "space" /\ \E c \in Bytes : Get(c) /\ c = Slash
      \/ pc = "comment_star" /\ pc' = "comment_text" /\ \E c \in Bytes : GetThenUnget(c)
  <2>1. CASE Comment
    BY <2>1 DEF Comment
  <2>2. CASE LineComment
    BY <2>2 DEF LineComment
  <2>3. CASE CommentText
    BY <2>3 DEF CommentText
  <2>4. CASE CommentStar
    BY <2>4 DEF CommentStar
  <2>. QED
    BY <2>1, <2>2, <2>3, <2>4 DEF scan_comment
(* A place inside of a comment needs only its text.                        *)
<1>4. ASSUME pc' \in {"line_comment", "comment_text", "comment_star"},
             NEW c \in Bytes, Get(c) \/ GetThenUnget(c),
             pc' = "line_comment" => LineOpen(Text'),
             pc' # "line_comment" => BlockOpen(Text'),
             pc' = "comment_star" => Len(Text') >= 3 /\ Text'[Len(Text')] = Star
      PROVE  SkipInv'
  <2>1. ScanInv'
    BY <1>2, <1>4 DEF ScanInv
  <2>2. Before(start + 1)'
    BY <1>1, <1>2, <1>4, BeforeKept
  <2>3. SpaceInv' /\ PastInv'
    BY <1>4, <2>2 DEF SpaceInv, PastInv
  <2>. QED
    BY <2>1, <2>3 DEF SkipInv
(* A whole comment is one step of the way.                                 *)
<1>5. ASSUME pc' = "space", NEW c \in Byte, c \in Bytes, Get(c), IsComment(Append(Text, c)), c # EOF
      PROVE  SkipInv'
  <2>1. /\ Text' = Append(Text, c) /\ Consumed' = Append(Consumed, c) /\ ReaderInv'
        /\ start' <= Len(Consumed')
    BY <1>1, <1>2, <1>5, TextGet, GetStep
  <2>2. Text' = SubSeq(Consumed', start' + 1, Len(Consumed'))
    <3>1. (ReaderInv /\ start \in Nat /\ start <= Len(Consumed))' => TextIsPart'
      BY TextPart, PTL
    <3>. QED
      BY <1>1, <1>2, <2>1, <3>1 DEF TextIsPart
  <2>3. Len(Consumed') = Len(Consumed) + 1 /\ Len(Text') = Len(Text) + 1 /\ Len(Text) = Len(Consumed) - start
    BY <1>1, <1>5, <2>1, Appended, TextPart DEF TextIsPart
  <2>4. Len(Text') >= 3
    BY <1>5, <2>1, CommentFirst
  <2>5. Gap(Consumed', ignore_comments, start + 1, Len(Consumed') + 1)
    <3>1. Len(Consumed') + 1 >= (start + 1) + 3 /\ (Len(Consumed') + 1) - 1 = Len(Consumed')
      BY <1>1, <2>3, <2>4
    <3>2. IsComment(SubSeq(Consumed', start + 1, Len(Consumed')))
      BY <1>2, <1>5, <2>1, <2>2
    <3>. QED
      BY <1>2, <3>1, <3>2 DEF Gap
  <2>6. Led(Consumed', ignore_comments, from, start + 1)
    <3>1. Before(start + 1)'
      BY <1>1, <1>2, <1>5, BeforeKept
    <3>. QED
      BY <1>2, <3>1 DEF Before
  <2>7. Led(Consumed', ignore_comments, from, Len(Consumed') + 1)
    <3>1. start + 1 \in Nat /\ Len(Consumed') + 1 \in Nat /\ Len(Consumed') + 1 > start + 1
      BY <1>1, <2>3
    <3>. QED
      BY <2>5, <2>6, <3>1, LedMore
  <2>8. Before(Len(Consumed) + 1)'
    BY <1>2, <2>7 DEF Before
  <2>9. ScanInv' /\ SpaceInv' /\ PastInv'
    BY <1>5, <2>8 DEF ScanInv, SpaceInv, PastInv
  <2>. QED
    BY <2>9 DEF SkipInv
<1>6. CASE pc' = "returned" /\ token' = "parse_error"
  BY <1>6 DEF SkipInv, ScanInv, SpaceInv, PastInv, Unknown
<1>7. CASE /\ pc = "comment"
           /\ \E c \in Bytes : Get(c) /\ ((c = Slash /\ pc' = "line_comment") \/ (c = Star /\ pc' = "comment_text"))
  <2>1. PICK c \in Bytes : Get(c) /\ ((c = Slash /\ pc' = "line_comment") \/ (c = Star /\ pc' = "comment_text"))
    BY <1>7
  <2>2. Text = <<Slash>> /\ Slash \in Byte /\ c \in Byte /\ c # EOF
    BY <1>7, <2>1 DEF TextInv, CommentInv, Slash, Star, Byte, EOF
  <2>3. Text' = Append(Text, c)
    BY <1>1, <1>2, <2>1, <2>2, TextGet
  <2>4. Text' = <<Slash, c>>
    BY <2>2, <2>3, AppendOne
  <2>5. Len(Text') = 2 /\ Text'[1] = Slash /\ Text'[2] = c
    BY <2>4
  <2>6. c = Slash => LineOpen(Text')
    BY <2>5 DEF LineOpen
  <2>7. c = Star => BlockOpen(Text')
    BY <2>5 DEF BlockOpen
  <2>. QED
    BY <1>4, <2>1, <2>6, <2>7
<1>8. CASE /\ pc = "line_comment"
           /\ \E c \in Bytes : Get(c) /\ pc' = IF c \in {LF, CR, EOF, NUL} THEN "space" ELSE "line_comment"
  <2>1. PICK c \in Bytes : Get(c) /\ pc' = IF c \in {LF, CR, EOF, NUL} THEN "space" ELSE "line_comment"
    BY <1>8
  <2>2. LineOpen(Text)
    BY <1>8 DEF SkipInv, ScanInv
  <2>3. (c # EOF => c \in Byte) /\ Text' = IF c = EOF THEN Text ELSE Append(Text, c)
    BY <1>1, <1>2, <2>1, TextGet
  <2>4. CASE c \notin {LF, CR, EOF, NUL}
    <3>1. LineOpen(Text') /\ pc' = "line_comment"
      BY <1>1, <2>1, <2>2, <2>3, <2>4, LineMore
    <3>. QED
      BY <1>4, <2>1, <3>1
  <2>5. CASE c \in {LF, CR, NUL}
    <3>1. c # EOF
      BY <2>5 DEF LF, CR, NUL, EOF
    <3>2. IsComment(Append(Text, c)) /\ pc' = "space" /\ c \in Byte
      BY <1>1, <2>1, <2>2, <2>3, <2>5, <3>1, LineMore
    <3>. QED
      BY <1>5, <2>1, <3>1, <3>2
  <2>6. CASE c = EOF
    <3>1. /\ Consumed' = Consumed /\ current' = EOF /\ next_unget' = FALSE /\ Consumed' = input'
      BY <1>1, <2>1, <2>6, GetStep
    <3>2. Text = SubSeq(Consumed, start + 1, Len(Consumed)) /\ Len(Text) = Len(Consumed) - start
      BY <1>1, TextPart DEF TextIsPart
    <3>3. Len(Text) >= 2
      BY <2>2 DEF LineOpen
    <3>4. start + 1 \in 1 .. Len(Consumed)
      BY <1>1, <3>2, <3>3
    <3>5. IsComment(Append(SubSeq(Consumed, start + 1, Len(Consumed)), LF))
      <4>1. LF \in Byte /\ LF \in {LF, CR, NUL}
        BY DEF LF, Byte
      <4>. QED
        BY <1>1, <2>2, <3>2, <4>1, LineMore
    <3>6. Led(Consumed, ignore_comments, from, start + 1)
      <4>1. Before(start + 1)'
        BY <1>1, <1>2, <2>1, BeforeKept
      <4>. QED
        BY <1>2, <3>1, <4>1 DEF Before
    <3>7. Ended(Consumed, ignore_comments, from)
      BY <1>1, <1>2, <3>4, <3>5, <3>6, EndedBy
    <3>8. AtEnd'
      <4>1. Consumed # <<>>
        BY <1>1, <3>4
      <4>. QED
        BY <3>1, <4>1 DEF AtEnd
    <3>9. pc' = "space"
      BY <2>1, <2>6
    <3>10. SpaceInv'
      BY <1>2, <3>1, <3>7, <3>8 DEF SpaceInv
    <3>11. ScanInv' /\ PastInv'
      BY <3>9 DEF ScanInv, PastInv
    <3>. QED
      BY <3>10, <3>11 DEF SkipInv
  <2>. QED
    BY <2>4, <2>5, <2>6
<1>9. CASE /\ pc = "comment_text"
           /\ \E c \in Bytes : /\ Get(c) /\ c \notin {EOF, NUL}
                                 /\ pc' = IF c = Star THEN "comment_star" ELSE "comment_text"
  <2>1. PICK c \in Bytes : Get(c) /\ c \notin {EOF, NUL} /\ pc' = IF c = Star THEN "comment_star" ELSE "comment_text"
    BY <1>9
  <2>2. BlockOpen(Text) /\ Len(Text) >= 2
    BY <1>9 DEF SkipInv, ScanInv, BlockOpen
  <2>3. c \in Byte /\ Text' = Append(Text, c)
    BY <1>1, <1>2, <2>1, TextGet
  <2>4. BlockOpen(Text')
    BY <1>1, <2>1, <2>2, <2>3, BlockMore
  <2>5. Len(Text') = Len(Text) + 1 /\ Text'[Len(Text) + 1] = c
    BY <1>1, <2>3, Appended
  <2>6. Len(Text') >= 3 /\ Text'[Len(Text')] = c
    BY <1>1, <2>2, <2>5
  <2>. QED
    BY <1>4, <2>1, <2>4, <2>6
<1>10. CASE pc = "comment_star" /\ pc' = "space" /\ \E c \in Bytes : Get(c) /\ c = Slash
  <2>1. PICK c \in Bytes : Get(c) /\ c = Slash
    BY <1>10
  <2>2. BlockOpen(Text) /\ Len(Text) >= 3 /\ Text[Len(Text)] = Star /\ NotClosed(Text)
    BY <1>10 DEF SkipInv, ScanInv, TextInv, CommentInv, NotClosed
  <2>3. c \in Byte /\ c # EOF
    BY <2>1 DEF Slash, Byte, EOF
  <2>4. IsComment(Append(Text, c))
    BY <1>1, <2>1, <2>2, <2>3, BlockMore
  <2>. QED
    BY <1>5, <1>10, <2>1, <2>3, <2>4
<1>11. CASE pc = "comment_star" /\ pc' = "comment_text" /\ \E c \in Bytes : GetThenUnget(c)
  <2>1. PICK c \in Bytes : GetThenUnget(c)
    BY <1>11
  <2>2. Text' = Text
    BY <1>1, <1>2, <2>1, TextUnget
  <2>3. BlockOpen(Text')
    BY <1>11, <2>2 DEF SkipInv, ScanInv
  <2>. QED
    BY <1>4, <1>11, <2>1, <2>3
<1>. QED
  BY <1>3, <1>6, <1>7, <1>8, <1>9, <1>10, <1>11

LEMMA SkipWithin ==
  ASSUME TypeInv, TextInv, SkipInv, Literal \/ scan_number \/ scan_string
  PROVE  SkipInv'
<1>. USE DEF Goto, Return, Fail
<1>1. /\ UNCHANGED <<ignore_comments, from, start>> /\ pc \in Within
      /\ pc' \in {"returned", "literal"} \cup Labels \cup StringPcs
      /\ \E c \in Bytes : Get(c) \/ GetThenUnget(c)
  <2>1. CASE Literal
    BY <2>1 DEF Literal, history, Within
  <2>2. CASE scan_number
    <3>1. UNCHANGED <<ignore_comments, from, start>> /\ pc \in Labels
      BY <2>2 DEF scan_number, ScanMinus, ScanInteger, ScanDecimal1, ScanDecimal2, ScanExponent, ScanSign, ScanAny2,
                  history, Labels, Complete
    <3>2. PICK c \in Bytes : Lengthens(c) \/ Stops(c) \/ Breaks(c)
      BY <2>2, NumberSteps DEF TextInv
    <3>3. pc' \in {"returned"} \cup Labels
      <4>1. CASE Lengthens(c)
        <5>1. pc' = Successor(pc, c) /\ c \in Accepts(pc)
          BY <4>1 DEF Lengthens
        <5>2. c \in Byte
          BY <5>1 DEF Accepts, Digit, Point, Exponent, Plus, Minus, Zero, Lower, Upper, Byte
        <5>3. Text \in Seq(Byte) /\ Text # <<>> /\ Shape(pc, Text, Len(Text))
          BY <3>1, TextBytes DEF TextInv, NumberInv
        <5>. QED
          BY <3>1, <5>1, <5>2, <5>3, LabelStep
      <4>2. CASE Stops(c) \/ Breaks(c)
        BY <4>2 DEF Stops, Breaks
      <4>. QED
        BY <3>2, <4>1, <4>2
    <3>4. Get(c) \/ GetThenUnget(c)
      BY <3>2 DEF Lengthens, Stops, Breaks
    <3>. QED
      BY <3>1, <3>3, <3>4 DEF Within
  <2>3. CASE scan_string
    <3>1. CASE ScanString
      BY <3>1 DEF ScanString, history, StringPcs, Within
    <3>2. CASE ScanTail
      BY <3>2 DEF ScanTail, history, StringPcs, Within
    <3>3. CASE ScanEscape
      BY <3>3 DEF ScanEscape, history, StringPcs, Within
    <3>4. CASE ScanHex
      BY <3>4 DEF ScanHex, EndEscape, history, StringPcs, Within
    <3>5. CASE ScanPair
      BY <3>5 DEF ScanPair, history, StringPcs, Within
    <3>. QED
      BY <2>3, <3>1, <3>2, <3>3, <3>4, <3>5 DEF scan_string
  <2>. QED
    BY <2>1, <2>2, <2>3
<1>2. Before(start + 1)'
  BY <1>1, BeforeKept DEF SkipInv
<1>3. PastInv'
  BY <1>2 DEF PastInv
<1>4. ScanInv' /\ SpaceInv'
  BY <1>1 DEF ScanInv, SpaceInv, Labels, Complete, StringPcs
<1>. QED
  BY <1>3, <1>4 DEF SkipInv

(* After the end comes nothing but the end.                                *)
LEMMA EndStays ==
  ASSUME TypeInv, AtEnd, NEW c \in Bytes, Get(c)
  PROVE  c = EOF
<1>1. position.total # 0 /\ position.total \in Nat
  BY DEF TypeInv, ReaderInv, AtEnd
<1>2. position.total > 0
  BY <1>1
<1>. QED
  BY <1>2 DEF AtEnd, Get, Incoming

LEMMA SkipSpace ==
  ASSUME TypeInv, TextInv, SkipInv, Space
  PROVE  SkipInv'
<1>. USE DEF Goto, Return, Fail
<1>1. PICK c \in Bytes :
        /\ Get(c)
        /\ start' = IF c = EOF THEN Len(input') ELSE Len(input') - 1
        /\ \/ c \in {Blank, HT, LF, CR} /\ pc' = "space"
           \/ c # EOF /\ pc' = "comment" /\ ignore_comments
           \/ c # EOF /\ pc' \in {"literal", "string", "minus", "zero", "any1"}
           \/ pc' = "returned"
  <2>1. \A l \in Literals : EOF # l[1][1]
    BY LiteralFirst
  <2>. QED
    BY <2>1 DEF Space, Slash, Quote, Digit, Minus, EOF
<1>2. /\ UNCHANGED <<ignore_comments, from>> /\ pc = "space"
  BY DEF Space
<1>3. /\ ReaderInv /\ Consumed \in Seq(Byte) /\ Len(Consumed) \in Nat
  BY ConsumedType DEF TypeInv
<1>4. /\ Consumed' = input' /\ Consumed' = (IF c = EOF THEN Consumed ELSE Append(Consumed, c))
      /\ (c # EOF => c \in Byte) /\ current' = c
  BY <1>1, <1>3, GetStep
<1>5. c # EOF => /\ Len(Consumed') = Len(Consumed) + 1
                 /\ Consumed'[Len(Consumed) + 1] = c
  BY <1>3, <1>4, Appended
<1>6. start' = Len(Consumed)
  BY <1>1, <1>3, <1>4, <1>5
<1>7. ScanInv'
  BY <1>1, <1>2 DEF ScanInv
<1>8. CASE Before(Len(Consumed) + 1)
  <2>1. Led(Consumed', ignore_comments, from, Len(Consumed) + 1)
    <3>1. CASE c = EOF
      BY <1>4, <1>8, <3>1 DEF Before
    <3>2. CASE c # EOF
      BY <1>3, <1>4, <1>8, <3>2, LedKept DEF Before
    <3>. QED
      BY <3>1, <3>2
  <2>2. Before(start + 1)'
    BY <1>2, <1>6, <2>1 DEF Before
  <2>3. PastInv'
    BY <2>2 DEF PastInv
  <2>4. ASSUME pc' = "space"
        PROVE  Before(Len(Consumed) + 1)'
    <3>1. c \in {Blank, HT, LF, CR} /\ c # EOF
      BY <1>1, <2>4 DEF Blank, HT, LF, CR, EOF
    <3>2. Gap(Consumed', ignore_comments, Len(Consumed) + 1, (Len(Consumed) + 1) + 1)
      BY <1>5, <3>1 DEF Gap
    <3>3. Led(Consumed', ignore_comments, from, (Len(Consumed) + 1) + 1)
      <4>1. /\ Len(Consumed) + 1 \in Nat /\ (Len(Consumed) + 1) + 1 \in Nat
            /\ (Len(Consumed) + 1) + 1 > Len(Consumed) + 1
        BY <1>3
      <4>. QED
        BY <2>1, <3>2, <4>1, LedMore
    <3>. QED
      BY <1>2, <1>5, <3>1, <3>3 DEF Before
  <2>5. SpaceInv'
    BY <2>4 DEF SpaceInv
  <2>. QED
    BY <1>7, <2>3, <2>5 DEF SkipInv
<1>9. CASE AtEnd /\ Ended(Consumed, ignore_comments, from)
  <2>1. c = EOF
    BY <1>1, <1>9, EndStays
  <2>2. pc' = "returned"
    BY <1>1, <2>1 DEF Blank, HT, LF, CR, EOF
  <2>3. Consumed' = Consumed
    BY <1>4, <2>1
  <2>4. PastInv'
    BY <1>2, <1>4, <1>6, <1>9, <2>1, <2>2, <2>3 DEF PastInv
  <2>5. SpaceInv'
    BY <2>2 DEF SpaceInv
  <2>. QED
    BY <1>7, <2>4, <2>5 DEF SkipInv
<1>. QED
  BY <1>2, <1>8, <1>9 DEF SkipInv, SpaceInv

LEMMA SkipStep ==
  ASSUME TypeInv, TextInv, SkipInv, [Next]_vars
  PROVE  SkipInv'
<1>1. CASE UNCHANGED vars
  <2>1. /\ Text' = Text /\ Consumed' = Consumed
        /\ UNCHANGED <<pc, current, next_unget, input, ignore_comments, from, start, token>>
    BY <1>1 DEF vars, reader, literal, escape, history, Text, Consumed
  <2>2. ScanInv'
    BY <2>1 DEF SkipInv, ScanInv
  <2>3. SpaceInv' /\ PastInv'
    BY <2>1 DEF SkipInv, SpaceInv, PastInv, Before, AtEnd
  <2>. QED
    BY <2>2, <2>3 DEF SkipInv
<1>2. CASE Next
  BY <1>2, SkipScan, SkipMark, SkipComment, SkipWithin, SkipSpace DEF Next, Reading
<1>. QED
  BY <1>1, <1>2

(* A token's white space, of the whole invariant.                          *)
LEMMA SpaceSkipped ==
  ASSUME TypeInv, SkipInv
  PROVE  SkippedIsSpace
<1>. SUFFICES ASSUME Found, token # "parse_error"
              PROVE  IsSpace(Bare(Skipped, from), ignore_comments, current = EOF)
  BY DEF SkippedIsSpace, Bare
<1>1. /\ Consumed \in Seq(Byte) /\ Len(Consumed) \in Nat /\ from \in Nat /\ start \in Nat /\ from <= start
      /\ start <= Len(Consumed) /\ ignore_comments \in BOOLEAN /\ (current = EOF) \in BOOLEAN
  BY ConsumedType DEF TypeInv, PlaceInv
<1>2. Skipped = SubSeq(Consumed, from + 1, start)
  <2>1. CASE next_unget /\ current # EOF
    <3>1. Consumed = Front(input) /\ input # <<>> /\ input \in Seq(Byte)
      BY <2>1 DEF Consumed, TypeInv, ReaderInv
    <3>2. PICK d \in Byte : input = Append(Front(input), d)
      BY <3>1, FrontOf
    <3>. QED
      BY <1>1, <3>1, <3>2, PartAppended DEF Skipped
  <2>2. CASE ~(next_unget /\ current # EOF)
    BY <2>2 DEF Consumed, Skipped
  <2>. QED
    BY <2>1, <2>2
<1>3. \/ Before(start + 1)
      \/ current = EOF /\ start = Len(Consumed) /\ Ended(Consumed, ignore_comments, from)
  BY DEF Found, SkipInv, PastInv, Unknown
<1>4. CASE Before(start + 1)
  <2>1. Led(Consumed, ignore_comments, from, start + 1) /\ start + 1 \in Nat /\ start + 1 <= Len(Consumed) + 1
        /\ (start + 1) - 1 = start
    BY <1>1, <1>4 DEF Before
  <2>2. IsSpace(Bare(SubSeq(Consumed, from + 1, (start + 1) - 1), from), ignore_comments, current = EOF)
    BY <1>1, <2>1, LedSpace
  <2>. QED
    BY <1>2, <2>1, <2>2
<1>5. CASE current = EOF /\ start = Len(Consumed) /\ Ended(Consumed, ignore_comments, from)
  <2>1. IsSpace(Bare(SubSeq(Consumed, from + 1, Len(Consumed)), from), ignore_comments, TRUE)
    BY <1>1, <1>5, EndedSpace
  <2>2. (current = EOF) = TRUE
    BY <1>5
  <2>. QED
    BY <1>2, <1>5, <2>1, <2>2
<1>. QED
  BY <1>3, <1>4, <1>5

LEMMA WholeInvariant == Spec => [](TypeInv /\ TextInv /\ QuotedInv /\ SkipInv)
<1>1. Init => SkipInv
  BY DEF Init, SkipInv, ScanInv, SpaceInv, PastInv, Unknown
<1>2. SkipInv /\ TypeInv /\ TextInv /\ [Next]_vars => SkipInv'
  BY SkipStep
<1>. QED
  BY <1>1, <1>2, StringInvariant, PTL DEF Spec

-------------------------------------------------------------------------------
(* A number that is found is the longest that the input starts with there, *)
(* and its type says whether it is an integer and fits                     *)
(* (json.hpp:7495-7820).                                                   *)
THEOREM NumbersAreText == Spec => []NumberIsText
BY Invariant, PTL DEF TextInv, FoundInv

(* Any other token is its word or its sign (json.hpp:7826-8121).           *)
THEOREM WordsAreText == Spec => []WordIsText
BY Invariant, PTL DEF TextInv, FoundInv

(* A token that is found is what the text says, by its kind: a number, a   *)
(* word or a string; and what was skipped to get to it is white space,     *)
(* whole comments and a byte order mark in front (json.hpp:6695-8121).     *)
THEOREM TokensAreText == Spec => []TokenIsText
<1>1. TypeInv /\ TextInv /\ QuotedInv /\ SkipInv => TokenIsText
  BY SpaceSkipped DEF TextInv, FoundInv, QuotedInv, TokenIsText
<1>. QED
  BY <1>1, WholeInvariant, PTL

(* An error is found at the first byte after which no token can come any   *)
(* more, and not before; a \u escape is taken to its end before it is      *)
(* judged (json.hpp:6796-7435, 7495-7839).                                 *)
THEOREM ErrorsArePrompt == Spec => []ErrorIsPrompt
<1>1. TypeInv /\ TextInv /\ QuotedInv => ErrorIsPrompt
  <2>. SUFFICES ASSUME TypeInv, TextInv, QuotedInv
                PROVE  ErrorIsPrompt
    OBVIOUS
  <2>1. Text \in Seq(Byte)
    BY TextBytes
  <2>2. ASSUME pc \notin {"returned", "bom", "bom2", "bom3", "space", "comment", "line_comment",
                           "comment_text", "comment_star", "hex"}
        PROVE  Begins(Text)
    <3>1. pc \in Labels \cup {"literal"} \cup (StringPcs \ {"hex"})
      BY <2>2 DEF TypeInv, Pcs, StringPcs
    <3>2. CASE pc \in Labels
      <4>1. Text # <<>> /\ Shape(pc, Text, Len(Text))
        BY <3>2 DEF TextInv, NumberInv
      <4>2. BeginsNumber(Text) /\ Text[1] \in Digit \cup {Minus}
        BY <2>1, <3>2, <4>1, LabelBeginsNumber, ShapeFirst
      <4>. QED
        BY <4>2, BeginsByKind
    <3>3. CASE pc = "literal"
      <4>1. PICK l \in Literals : Matched(l, Text) /\ Text # <<>>
        BY <3>3 DEF TextInv, LiteralInv
      <4>2. BeginsLiteral(Text)
        BY <2>1, <4>1, PrefixMatched DEF BeginsLiteral
      <4>3. Text[1] = l[1][1]
        BY <2>1, <4>1, LenProperties, EmptySeq DEF Matched
      <4>. QED
        BY <4>2, <4>3, BeginsByKind
    <3>4. CASE pc \in StringPcs \ {"hex"}
      <4>1. BeginsString(Text)
        BY <3>4, StringBegins DEF QuotedInv
      <4>2. Text[1] = Quote
        BY <3>4 DEF TextInv, StringInv
      <4>. QED
        BY <4>1, <4>2, QuoteBegins
    <3>. QED
      BY <3>1, <3>2, <3>3, <3>4
  <2>3. pc \in {"comment_text", "comment_star"} => \A n \in 3 .. Len(Text) : ~EndsComment(Text, n)
    BY DEF TextInv, CommentInv
  <2>4. ASSUME Found, token = "parse_error", current # EOF
        PROVE  Text = <<>> \/ ~Begins(Text)
    <3>1. Text # <<>> /\ (Text[1] = Quote \/ ~Begins(Text))
      BY <2>4 DEF TextInv, FoundInv, ErrorInv
    <3>2. CASE Text[1] = Quote
      <4>1. ~BeginsString(Text)
        BY <2>4, <3>1, <3>2 DEF QuotedInv, PromptInv
      <4>. QED
        BY <3>2, <4>1, QuoteBegins
    <3>. QED
      BY <3>1, <3>2
  <2>. QED
    BY <2>2, <2>3, <2>4 DEF ErrorIsPrompt
<1>. QED
  BY <1>1, WholeInvariant, PTL

===============================================================================

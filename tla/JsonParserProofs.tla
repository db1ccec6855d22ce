---------------------------- MODULE JsonParserProofs ----------------------------
(***************************************************************************)
(* Proofs about JsonParser, for every set of inputs.                       *)
(*                                                                         *)
(* The parser keeps in states what is open, its listener keeps in          *)
(* ref_stack where that is in the tree, and each relies on the other       *)
(* without asking: handle_value() takes the last reference to be a         *)
(* container, and object_element to be a member of it.  The invariant      *)
(* compares them at every place where a token is read.  It rests on two    *)
(* facts about the heap: a part is later in the heap than the value it is  *)
(* part of, so that writing a member cannot touch what is open; and the    *)
(* open containers are a path, so that what end_object() erases is not     *)
(* open.                                                                   *)
(*                                                                         *)
(* That it accepts the documents of JsonDocument and no others is proved   *)
(* from what is due: at every place the continuations that make a document *)
(* of what was read are those that make one of pc and states alone.  The   *)
(* equations of After() and of Brackets() come first, then what each token *)
(* does to what is due, then the actions.                                  *)
(***************************************************************************)
EXTENDS JsonParser, FiniteSetTheorems, SequenceTheorems, WellFoundedInduction, TLAPS

(* A set of natural numbers has a least element, from the library's well-   *)
(* founded order on finite sets: n stands for the numbers up to n.          *)
LEMMA Least ==
  ASSUME NEW T, T \subseteq Nat, T # {}
  PROVE \E x \in T : \A y \in T : x <= y
<1>. DEFINE Below(n) == {m \in Nat : m <= n}
<1>. DEFINE S == {Below(n) : n \in T}
<1>1. \A n \in Nat : IsFiniteSet(Below(n))
  <2>. TAKE n \in Nat
  <2>1. Below(n) = 0 .. n
    OBVIOUS
  <2>2. IsFiniteSet(0 .. n)
    BY FS_Interval
  <2>. QED BY <2>1, <2>2
<1>2. S \subseteq FiniteSubsetsOf(Nat)
  BY <1>1 DEF FiniteSubsetsOf
<1>3. S # {}
  OBVIOUS
<1>4. \E x \in S : \A y \in S : ~(<<y, x>> \in StrictSubsetOrdering(Nat))
  <2>. HIDE DEF S
  <2>1. IsWellFoundedOn(StrictSubsetOrdering(Nat), FiniteSubsetsOf(Nat))
    BY FS_StrictSubsetOrderingWellFounded
  <2>. QED BY <2>1, <1>2, <1>3, WFMin
<1>5. PICK x \in T : \A y \in T : ~(<<Below(y), Below(x)>> \in StrictSubsetOrdering(Nat))
  BY <1>4
<1>6. ASSUME NEW y \in T, y < x PROVE FALSE
  <2>1. Below(y) \subseteq Below(x) /\ x \in Below(x) /\ x \notin Below(y)
    BY <1>6
  <2>2. <<Below(y), Below(x)>> \in StrictSubsetOrdering(Nat)
    <3>1. Below(y) # Below(x)
      BY <2>1
    <3>2. Below(y) \in SUBSET Nat /\ Below(x) \in SUBSET Nat
      OBVIOUS
    <3>. HIDE DEF Below
    <3>. QED BY <2>1, <3>1, <3>2 DEF StrictSubsetOrdering
  <2>. QED BY <2>2, <1>5
<1>7. \A y \in T : x <= y
  BY <1>6
<1>. QED BY <1>7

(* What Last() and Front() give.                                            *)
LEMMA LastFront ==
  ASSUME NEW S, NEW s \in Seq(S)
  PROVE /\ Front(s) \in Seq(S)
        /\ s # <<>> => /\ Last(s) \in S /\ Len(s) \in Nat \ {0} /\ Last(s) = s[Len(s)]
                       /\ Len(Front(s)) = Len(s) - 1
                       /\ \A n \in 1 .. Len(s) - 1 : Front(s)[n] = s[n]
<1>1. Len(s) \in Nat /\ \A n \in 1 .. Len(s) - 1 : s[n] \in S
  BY LenProperties, ElementOfSeq
<1>2. /\ SubSeq(s, 1, Len(s) - 1) \in Seq(S)
      /\ Len(SubSeq(s, 1, Len(s) - 1)) = IF 1 <= Len(s) - 1 THEN (Len(s) - 1) - 1 + 1 ELSE 0
      /\ \A n \in 1 .. (Len(s) - 1) - 1 + 1 : SubSeq(s, 1, Len(s) - 1)[n] = s[1 + n - 1]
  BY <1>1, SubSeqProperties
<1>3. ASSUME s # <<>> PROVE Len(s) \in Nat \ {0} /\ s[Len(s)] \in S
  <2>1. Len(s) \in Nat \ {0}
    BY <1>3, EmptySeq
  <2>. QED BY <2>1, ElementOfSeq
<1>4. ASSUME s # <<>>
      PROVE /\ Len(SubSeq(s, 1, Len(s) - 1)) = Len(s) - 1
            /\ \A n \in 1 .. Len(s) - 1 : SubSeq(s, 1, Len(s) - 1)[n] = s[n]
  <2>1. Len(s) \in Nat \ {0}
    BY <1>3, <1>4
  <2>2. 1 .. (Len(s) - 1) - 1 + 1 = 1 .. Len(s) - 1
    BY <2>1
  <2>3. \A n \in 1 .. Len(s) - 1 : 1 + n - 1 = n
    BY <2>1
  <2>4. \A n \in 1 .. Len(s) - 1 : SubSeq(s, 1, Len(s) - 1)[n] = s[n]
    BY <1>2, <2>2, <2>3
  <2>5. ASSUME NEW n \in Nat \ {0}, NEW k, k = (IF 1 <= n - 1 THEN (n - 1) - 1 + 1 ELSE 0)
        PROVE k = n - 1
    <3>1. CASE n = 1
      BY <2>5, <3>1
    <3>2. CASE n # 1
      BY <2>5, <3>2
    <3>. QED BY <3>1, <3>2
  <2>6. Len(SubSeq(s, 1, Len(s) - 1)) = Len(s) - 1
    BY <1>2, <2>1, <2>5, Zenon
  <2>. QED BY <2>4, <2>6
<1>. QED BY <1>2, <1>3, <1>4 DEF Front, Last

(* Last() of what was appended to.                                          *)
LEMMA AppendLast ==
  ASSUME NEW S, NEW s \in Seq(S), NEW e \in S
  PROVE /\ Append(s, e) \in Seq(S) /\ Append(s, e) # <<>>
        /\ Len(Append(s, e)) = Len(s) + 1 /\ Last(Append(s, e)) = e
        /\ \A n \in 1 .. Len(s) : Append(s, e)[n] = s[n]
        /\ Append(s, e)[Len(s) + 1] = e
BY AppendProperties DEF Last

-------------------------------------------------------------------------------
(* Only arrays and objects are called so.                                   *)
LEMMA ValueKinds ==
  ASSUME NEW S, NEW v \in ValueOver(S)
  PROVE \/ v \in {Null, Discarded} /\ v.type \notin {"array", "object"}
        \/ v \in [type : {"string"}, string : Strings] /\ v.type \notin {"array", "object"}
        \/ v \in [type : Scalars, at : Nat] /\ v.type \notin {"array", "object"}
        \/ v \in [type : {"array"}, elements : Seq(S)] /\ v.type = "array"
        \/ v \in [type : {"object"}, members : Named(S)] /\ v.type = "object"
<1>1. CASE v \in {Null, Discarded}
  BY <1>1 DEF Null, Discarded
<1>2. CASE v \in [type : {"string"}, string : Strings]
  BY <1>2
<1>3. CASE v \in [type : Scalars, at : Nat]
  BY <1>3, JsonParserAssumption
<1>4. CASE v \in [type : {"array"}, elements : Seq(S)]
  BY <1>4
<1>5. CASE v \in [type : {"object"}, members : Named(S)]
  BY <1>5
<1>. QED BY <1>1, <1>2, <1>3, <1>4, <1>5 DEF ValueOver

(* The elements of an array, and the array with others.                     *)
LEMMA ArrayValue ==
  ASSUME NEW S, NEW v \in ValueOver(S), v.type = "array"
  PROVE /\ v.elements \in Seq(S)
        /\ \A T : \A e \in Seq(T) : /\ [v EXCEPT !.elements = e] \in ValueOver(T)
                                    /\ [v EXCEPT !.elements = e].type = "array"
                                    /\ [v EXCEPT !.elements = e].elements = e
<1>1. v \in [type : {"array"}, elements : Seq(S)]
  BY ValueKinds
<1>2. ASSUME NEW T, NEW e \in Seq(T)
      PROVE /\ [v EXCEPT !.elements = e] \in [type : {"array"}, elements : Seq(T)]
            /\ [v EXCEPT !.elements = e].type = "array"
            /\ [v EXCEPT !.elements = e].elements = e
  BY <1>1
<1>. QED BY <1>1, <1>2 DEF ValueOver

(* The members of an object, and the object with others.                    *)
LEMMA ObjectValue ==
  ASSUME NEW S, NEW v \in ValueOver(S), v.type = "object"
  PROVE /\ v.members \in Named(S)
        /\ \A T : \A m \in Named(T) : /\ [v EXCEPT !.members = m] \in ValueOver(T)
                                    /\ [v EXCEPT !.members = m].type = "object"
                                    /\ [v EXCEPT !.members = m].members = m
<1>1. v \in [type : {"object"}, members : Named(S)]
  BY ValueKinds DEF Named
<1>2. ASSUME NEW T, NEW m \in Named(T)
      PROVE /\ [v EXCEPT !.members = m] \in [type : {"object"}, members : Named(T)]
            /\ [v EXCEPT !.members = m].type = "object"
            /\ [v EXCEPT !.members = m].members = m
  BY <1>1
<1>. QED BY <1>1, <1>2 DEF ValueOver, Named

(* Members stay members of a larger heap.                                   *)
LEMMA NamedWider ==
  ASSUME NEW S, NEW T, S \subseteq T, NEW m \in Named(S)
  PROVE m \in Named(T)
BY DEF Named

(* A value stays a value of a larger heap.                                  *)
LEMMA Wider ==
  ASSUME NEW S, NEW T, S \subseteq T, NEW v \in ValueOver(S)
  PROVE v \in ValueOver(T)
<1>1. CASE v \in [type : {"array"}, elements : Seq(S)]
  <2>1. v.elements \in Seq(T)
    BY <1>1, SeqMonotonic
  <2>2. v \in [type : {"array"}, elements : Seq(T)]
    BY <1>1, <2>1
  <2>. QED BY <2>2 DEF ValueOver
<1>2. CASE v \in [type : {"object"}, members : Named(S)]
  <2>1. v.members \in Named(T)
    BY <1>2, NamedWider
  <2>2. v \in [type : {"object"}, members : Named(T)]
    BY <1>2, <2>1
  <2>. QED BY <2>2 DEF ValueOver, Named
<1>. QED BY <1>1, <1>2 DEF ValueOver, Named

-------------------------------------------------------------------------------
(* A heap as a function of its places.                                      *)
LEMMA HeapIs ==
  ASSUME NEW h, HeapOK(h)
  PROVE /\ Len(h) \in Nat \ {0} /\ DOMAIN h = 1 .. Len(h) /\ h \in [1 .. Len(h) -> ValueOver(Nat)]
        /\ h \in Seq(ValueOver(Nat))
        /\ \A r \in 1 .. Len(h) : h[r] \in ValueOver(r + 1 .. Len(h))
BY LenProperties, EmptySeq DEF HeapOK

(* A value in the place of another that may have the same parts.            *)
LEMMA Put ==
  ASSUME NEW h, HeapOK(h), NEW r \in 1 .. Len(h), NEW v \in ValueOver(r + 1 .. Len(h))
  PROVE /\ HeapOK([h EXCEPT ![r] = v])
        /\ Len([h EXCEPT ![r] = v]) = Len(h)
        /\ [h EXCEPT ![r] = v][r] = v
        /\ \A q \in 1 .. Len(h) : q # r => [h EXCEPT ![r] = v][q] = h[q]
<1>. DEFINE g == [h EXCEPT ![r] = v]
<1>1. Len(h) \in Nat \ {0} /\ h \in Seq(ValueOver(Nat))
  BY HeapIs
<1>2. v \in ValueOver(Nat)
  <2>1. r + 1 .. Len(h) \subseteq Nat
    BY <1>1
  <2>. QED BY <2>1, Wider
<1>3. g \in Seq(ValueOver(Nat)) /\ Len(g) = Len(h)
      /\ \A q \in 1 .. Len(h) : g[q] = IF q = r THEN v ELSE h[q]
  BY <1>1, <1>2, ExceptSeq
<1>4. g # <<>>
  BY <1>1, <1>3
<1>5. \A q \in 1 .. Len(g) : g[q] \in ValueOver(q + 1 .. Len(g))
  BY <1>3 DEF HeapOK
<1>6. HeapOK(g)
  BY <1>3, <1>4, <1>5 DEF HeapOK
<1>. QED BY <1>3, <1>6

(* The same with a new place at the end, which the value may refer to.      *)
LEMMA PutAdd ==
  ASSUME NEW h, HeapOK(h), NEW r \in 1 .. Len(h), NEW w \in ValueOver(r + 1 .. Len(h) + 1),
         NEW v \in ValueOver({})
  PROVE /\ HeapOK(Append([h EXCEPT ![r] = w], v))
        /\ Len(Append([h EXCEPT ![r] = w], v)) = Len(h) + 1
        /\ Append([h EXCEPT ![r] = w], v)[r] = w
        /\ Append([h EXCEPT ![r] = w], v)[Len(h) + 1] = v
        /\ \A q \in 1 .. Len(h) : q # r => Append([h EXCEPT ![r] = w], v)[q] = h[q]
<1>. DEFINE g == Append([h EXCEPT ![r] = w], v)
<1>1. Len(h) \in Nat \ {0} /\ h \in Seq(ValueOver(Nat))
  BY HeapIs
<1>2. w \in ValueOver(Nat) /\ v \in ValueOver(Nat)
  <2>1. r + 1 .. Len(h) + 1 \subseteq Nat
    BY <1>1
  <2>. QED BY <2>1, Wider
<1>3. /\ [h EXCEPT ![r] = w] \in Seq(ValueOver(Nat)) /\ Len([h EXCEPT ![r] = w]) = Len(h)
      /\ \A q \in 1 .. Len(h) : [h EXCEPT ![r] = w][q] = IF q = r THEN w ELSE h[q]
  BY <1>1, <1>2, ExceptSeq
<1>4. /\ g \in Seq(ValueOver(Nat)) /\ g # <<>> /\ Len(g) = Len(h) + 1
      /\ \A q \in 1 .. Len(h) : g[q] = [h EXCEPT ![r] = w][q]
      /\ g[Len(h) + 1] = v
  <2>. HIDE DEF g
  <2>1. /\ Append([h EXCEPT ![r] = w], v) \in Seq(ValueOver(Nat))
        /\ Append([h EXCEPT ![r] = w], v) # <<>>
        /\ Len(Append([h EXCEPT ![r] = w], v)) = Len([h EXCEPT ![r] = w]) + 1
        /\ \A q \in 1 .. Len([h EXCEPT ![r] = w]) : Append([h EXCEPT ![r] = w], v)[q] = [h EXCEPT ![r] = w][q]
        /\ Append([h EXCEPT ![r] = w], v)[Len([h EXCEPT ![r] = w]) + 1] = v
    BY <1>2, <1>3, AppendProperties
  <2>. QED BY <2>1, <1>3 DEF g
<1>. HIDE DEF g
<1>5. \A q \in 1 .. Len(h) : g[q] = IF q = r THEN w ELSE h[q]
  BY <1>3, <1>4
<1>6. ASSUME NEW q \in 1 .. Len(g) PROVE g[q] \in ValueOver(q + 1 .. Len(g))
  <2>1. CASE q = Len(h) + 1
    BY <2>1, <1>4, Wider
  <2>2. CASE q \in 1 .. Len(h) /\ q # r
    <3>1. g[q] \in ValueOver(q + 1 .. Len(h))
      BY <2>2, <1>5, HeapIs
    <3>2. q + 1 .. Len(h) \subseteq q + 1 .. Len(g)
      BY <1>1, <1>4, <2>2
    <3>. QED BY <3>1, <3>2, Wider
  <2>3. CASE q = r
    BY <2>3, <1>4, <1>5
  <2>4. q \in 1 .. Len(h) \/ q = Len(h) + 1
    BY <1>1, <1>4
  <2>. QED BY <2>1, <2>2, <2>3, <2>4
<1>7. HeapOK(g)
  BY <1>4, <1>6 DEF HeapOK
<1>. QED BY <1>1, <1>4, <1>5, <1>7 DEF g

(* The parts of a value come after it.                                      *)
LEMMA ChildIsLater ==
  ASSUME NEW h, HeapOK(h), NEW r \in 1 .. Len(h), NEW c \in Parts(h[r])
  PROVE c \in r + 1 .. Len(h)
<1>1. h[r] \in ValueOver(r + 1 .. Len(h))
  BY HeapIs
<1>2. CASE h[r].type = "array"
  <2>1. h[r].elements \in Seq(r + 1 .. Len(h))
    BY <1>1, <1>2, ArrayValue
  <2>2. c \in Range(h[r].elements)
    BY <1>2 DEF Parts, Range
  <2>. QED BY <2>1, <2>2, RangeOfSeq
<1>3. CASE h[r].type = "object"
  <2>1. h[r].members \in Named(r + 1 .. Len(h))
    BY <1>1, <1>3, ObjectValue
  <2>2. c \in Range(h[r].members)
    BY <1>3 DEF Parts, Range
  <2>. QED BY <2>1, <2>2 DEF Named, Range
<1>. QED BY <1>2, <1>3 DEF Parts

-------------------------------------------------------------------------------
(* What states says of a container.                                         *)
Kind(array) == IF array THEN "array" ELSE "object"

(* Reference r is to a container of a kind, or the callback has dropped it. *)
Holds(h, r, kind, c) ==
  \/ r \in 1 .. Len(h) /\ h[r].type = kind
  \/ r = NoRef /\ c = "callback"

(* The references refs belong to the open containers open: one for each, of *)
(* its kind; what is in a dropped container is dropped; the later is the    *)
(* inner; and the kept ones are a path from the result.                     *)
StackOK(h, refs, open, c) ==
  /\ refs \in Seq(Nat) /\ open \in Seq(BOOLEAN)
  /\ Len(refs) = Len(open)
  /\ \A n \in 1 .. Len(refs) : Holds(h, refs[n], Kind(open[n]), c)
  /\ \A m, n \in 1 .. Len(refs) : m < n /\ refs[n] # NoRef => refs[m] # NoRef /\ refs[m] < refs[n]
  /\ \A n \in 1 .. Len(refs) : refs[n] # NoRef =>
       IF n = 1 THEN refs[n] = 1 ELSE refs[n] \in Parts(h[refs[n - 1]])

(* The last open container is the latest of them.                           *)
LEMMA TopIs ==
  ASSUME NEW h, NEW refs, NEW open, NEW c, StackOK(h, refs, open, c), refs # <<>>
  PROVE /\ Len(refs) \in Nat \ {0} /\ open # <<>> /\ Last(refs) = refs[Len(refs)] /\ Last(refs) \in Nat
        /\ Holds(h, Last(refs), Kind(Last(open)), c)
        /\ \A n \in 1 .. Len(refs) : Last(refs) # NoRef =>
             refs[n] # NoRef /\ refs[n] <= Last(refs) /\ (n < Len(refs) => refs[n] < Last(refs))
<1>1. refs \in Seq(Nat) /\ open \in Seq(BOOLEAN) /\ Len(refs) = Len(open)
  BY DEF StackOK
<1>2. Len(refs) \in Nat \ {0} /\ Last(refs) = refs[Len(refs)] /\ Last(refs) \in Nat
  BY <1>1, LastFront
<1>3. open # <<>>
  BY <1>1, <1>2, EmptySeq
<1>4. Last(open) = open[Len(refs)]
  BY <1>1 DEF Last
<1>5. Holds(h, Last(refs), Kind(Last(open)), c)
  BY <1>2, <1>4 DEF StackOK
<1>6. ASSUME NEW n \in 1 .. Len(refs), Last(refs) # NoRef
      PROVE refs[n] # NoRef /\ refs[n] <= Last(refs) /\ (n < Len(refs) => refs[n] < Last(refs))
  <2>1. CASE n = Len(refs)
    BY <2>1, <1>2, <1>6
  <2>2. CASE n < Len(refs)
    <3>1. refs[n] # NoRef /\ refs[n] < Last(refs)
      BY <2>2, <1>2, <1>6 DEF StackOK
    <3>2. refs[n] \in Nat
      BY <1>1, ElementOfSeq
    <3>. QED BY <3>1, <3>2, <1>2
  <2>. QED BY <2>1, <2>2, <1>2
<1>. QED BY <1>2, <1>3, <1>5, <1>6

(* What the stack of references needs of the heap.                          *)
LEMMA StackKept ==
  ASSUME NEW h, NEW refs, NEW open, NEW c, StackOK(h, refs, open, c),
         NEW g, Len(h) \in Nat, Len(g) \in Nat, Len(h) <= Len(g),
         \A n \in 1 .. Len(refs) : refs[n] # NoRef => g[refs[n]].type = h[refs[n]].type,
         \A n \in 1 .. Len(refs) : n < Len(refs) /\ refs[n] # NoRef =>
            Parts(h[refs[n]]) \subseteq Parts(g[refs[n]])
  PROVE StackOK(g, refs, open, c)
<1>1. refs \in Seq(Nat) /\ Len(refs) \in Nat
  BY LenProperties DEF StackOK
<1>2. ASSUME NEW n \in 1 .. Len(refs) PROVE Holds(g, refs[n], Kind(open[n]), c)
  <2>1. Holds(h, refs[n], Kind(open[n]), c)
    BY DEF StackOK
  <2>. QED BY <2>1 DEF Holds, NoRef
<1>3. ASSUME NEW n \in 1 .. Len(refs), refs[n] # NoRef
      PROVE IF n = 1 THEN refs[n] = 1 ELSE refs[n] \in Parts(g[refs[n - 1]])
  <2>1. IF n = 1 THEN refs[n] = 1 ELSE refs[n] \in Parts(h[refs[n - 1]])
    BY <1>3 DEF StackOK
  <2>2. CASE n # 1
    <3>1. n - 1 \in 1 .. Len(refs) /\ n - 1 < n /\ n - 1 < Len(refs)
      BY <1>1, <2>2
    <3>2. refs[n - 1] # NoRef
      BY <3>1, <1>3 DEF StackOK
    <3>3. Parts(h[refs[n - 1]]) \subseteq Parts(g[refs[n - 1]])
      BY <3>1, <3>2
    <3>. QED BY <2>1, <2>2, <3>3
  <2>. QED BY <2>1, <2>2
<1>. QED BY <1>2, <1>3 DEF StackOK

(* It is enough that one place changes that is not open, or that is the last*)
(* open one and stays a container of its kind.                              *)
LEMMA StackPut ==
  ASSUME NEW h, NEW refs, NEW open, NEW c, StackOK(h, refs, open, c),
         NEW g, Len(h) \in Nat, Len(g) \in Nat, Len(h) <= Len(g), NEW r,
         \A q \in 1 .. Len(h) : q # r => g[q] = h[q],
         \/ \A n \in 1 .. Len(refs) : refs[n] # r
         \/ refs # <<>> /\ r = Last(refs) /\ g[r].type = h[r].type
  PROVE StackOK(g, refs, open, c)
<1>1. \A n \in 1 .. Len(refs) : refs[n] # NoRef => refs[n] \in 1 .. Len(h)
  BY DEF StackOK, Holds
<1>2. CASE \A n \in 1 .. Len(refs) : refs[n] # r
  <2>1. \A n \in 1 .. Len(refs) : refs[n] # NoRef => g[refs[n]] = h[refs[n]]
    BY <1>1, <1>2
  <2>. QED BY <2>1, StackKept
<1>3. CASE refs # <<>> /\ r = Last(refs) /\ r # NoRef /\ g[r].type = h[r].type
  <2>1. \A n \in 1 .. Len(refs) : n < Len(refs) => refs[n] # r
    <3>1. \A n \in 1 .. Len(refs) : n < Len(refs) => refs[n] < Last(refs)
      BY <1>3, TopIs
    <3>2. refs \in Seq(Nat)
      BY DEF StackOK
    <3>3. \A n \in 1 .. Len(refs) : refs[n] \in Nat
      BY <3>2, ElementOfSeq
    <3>. QED BY <3>1, <3>3, <1>3
  <2>2. \A n \in 1 .. Len(refs) : n < Len(refs) /\ refs[n] # NoRef => g[refs[n]] = h[refs[n]]
    BY <1>1, <2>1
  <2>3. \A n \in 1 .. Len(refs) : refs[n] # NoRef => g[refs[n]].type = h[refs[n]].type
    BY <1>1, <1>3
  <2>. QED BY <2>2, <2>3, StackKept
<1>4. CASE refs # <<>> /\ r = Last(refs) /\ r = NoRef
  <2>1. \A n \in 1 .. Len(refs) : refs[n] # NoRef => g[refs[n]] = h[refs[n]]
    BY <1>1, <1>4
  <2>. QED BY <2>1, StackKept
<1>. QED BY <1>2, <1>3, <1>4

(* A container is opened in the one that was the last.                      *)
LEMMA Push ==
  ASSUME NEW h, NEW refs, NEW open, NEW c, StackOK(h, refs, open, c),
         NEW b \in BOOLEAN, NEW r \in Nat, Holds(h, r, Kind(b), c),
         r # NoRef /\ refs = <<>> => r = 1,
         r # NoRef /\ refs # <<>> =>
           Last(refs) # NoRef /\ Last(refs) < r /\ r \in Parts(h[Last(refs)])
  PROVE StackOK(h, Append(refs, r), Append(open, b), c)
<1>. DEFINE s == Append(refs, r)
<1>. DEFINE o == Append(open, b)
<1>1. refs \in Seq(Nat) /\ open \in Seq(BOOLEAN) /\ Len(refs) = Len(open) /\ Len(refs) \in Nat
  BY LenProperties DEF StackOK
<1>2. /\ s \in Seq(Nat) /\ Len(s) = Len(refs) + 1 /\ s[Len(refs) + 1] = r
      /\ \A n \in 1 .. Len(refs) : s[n] = refs[n]
  BY <1>1, AppendProperties
<1>3. /\ o \in Seq(BOOLEAN) /\ Len(o) = Len(refs) + 1 /\ o[Len(refs) + 1] = b
      /\ \A n \in 1 .. Len(refs) : o[n] = open[n]
  BY <1>1, AppendProperties
<1>. HIDE DEF s, o
<1>4. \A n \in 1 .. Len(s) : n \in 1 .. Len(refs) \/ n = Len(refs) + 1
  BY <1>1, <1>2
<1>5. ASSUME NEW n \in 1 .. Len(s) PROVE Holds(h, s[n], Kind(o[n]), c)
  <2>1. CASE n \in 1 .. Len(refs)
    BY <2>1, <1>2, <1>3 DEF StackOK
  <2>. QED BY <2>1, <1>2, <1>3, <1>4
<1>6. ASSUME NEW m \in 1 .. Len(s), NEW n \in 1 .. Len(s), m < n, s[n] # NoRef
      PROVE s[m] # NoRef /\ s[m] < s[n]
  <2>1. m \in 1 .. Len(refs)
    BY <1>1, <1>2, <1>6
  <2>2. CASE n \in 1 .. Len(refs)
    BY <2>1, <2>2, <1>2, <1>6 DEF StackOK
  <2>3. CASE n = Len(refs) + 1
    <3>1. refs # <<>>
      BY <2>1, <1>1, EmptySeq
    <3>2. Last(refs) # NoRef /\ Last(refs) < r
      BY <3>1, <2>3, <1>2, <1>6
    <3>3. refs[m] # NoRef /\ refs[m] <= Last(refs) /\ Last(refs) \in Nat
      BY <2>1, <3>1, <3>2, TopIs
    <3>4. refs[m] \in Nat
      BY <2>1, <1>1, ElementOfSeq
    <3>. QED BY <3>2, <3>3, <3>4, <2>1, <2>3, <1>2
  <2>. QED BY <2>2, <2>3, <1>4
<1>7. ASSUME NEW n \in 1 .. Len(s), s[n] # NoRef
      PROVE IF n = 1 THEN s[n] = 1 ELSE s[n] \in Parts(h[s[n - 1]])
  <2>1. CASE n \in 1 .. Len(refs)
    <3>1. IF n = 1 THEN refs[n] = 1 ELSE refs[n] \in Parts(h[refs[n - 1]])
      BY <2>1, <1>2, <1>7 DEF StackOK
    <3>2. n # 1 => n - 1 \in 1 .. Len(refs)
      BY <2>1, <1>1
    <3>. QED BY <3>1, <3>2, <2>1, <1>2
  <2>2. CASE n = Len(refs) + 1 /\ refs = <<>>
    <3>1. n = 1 /\ r = 1
      BY <2>2, <1>1, <1>2, <1>7, EmptySeq
    <3>. QED BY <3>1, <2>2, <1>2
  <2>3. CASE n = Len(refs) + 1 /\ refs # <<>>
    <3>1. Len(refs) \in Nat \ {0} /\ Last(refs) = refs[Len(refs)]
      BY <2>3, TopIs
    <3>2. r \in Parts(h[Last(refs)])
      BY <2>3, <1>2, <1>7
    <3>3. n # 1 /\ n - 1 = Len(refs)
      BY <3>1, <2>3
    <3>4. s[n - 1] = Last(refs)
      BY <3>1, <3>3, <1>2
    <3>. QED BY <3>2, <3>3, <3>4, <2>3, <1>2
  <2>. QED BY <2>1, <2>2, <2>3, <1>4
<1>8. StackOK(h, s, o, c)
  BY <1>2, <1>3, <1>5, <1>6, <1>7 DEF StackOK
<1>. QED BY <1>8 DEF s, o

(* The last open container is closed.                                       *)
LEMMA Pop ==
  ASSUME NEW h, NEW refs, NEW open, NEW c, StackOK(h, refs, open, c), refs # <<>>
  PROVE StackOK(h, Front(refs), Front(open), c)
<1>. DEFINE s == Front(refs)
<1>. DEFINE o == Front(open)
<1>1. refs \in Seq(Nat) /\ open \in Seq(BOOLEAN) /\ Len(refs) = Len(open) /\ Len(refs) \in Nat \ {0} /\ open # <<>>
  BY TopIs DEF StackOK
<1>2. /\ s \in Seq(Nat) /\ Len(s) = Len(refs) - 1
      /\ \A n \in 1 .. Len(refs) - 1 : s[n] = refs[n]
  BY <1>1, LastFront
<1>3. /\ o \in Seq(BOOLEAN) /\ Len(o) = Len(refs) - 1
      /\ \A n \in 1 .. Len(refs) - 1 : o[n] = open[n]
  BY <1>1, LastFront
<1>. HIDE DEF s, o
<1>4. \A n \in 1 .. Len(s) : n \in 1 .. Len(refs) /\ s[n] = refs[n] /\ o[n] = open[n]
  BY <1>1, <1>2, <1>3
<1>5. \A n \in 1 .. Len(s) : Holds(h, s[n], Kind(o[n]), c)
  BY <1>4 DEF StackOK
<1>6. \A m, n \in 1 .. Len(s) : m < n /\ s[n] # NoRef => s[m] # NoRef /\ s[m] < s[n]
  BY <1>4 DEF StackOK
<1>7. ASSUME NEW n \in 1 .. Len(s), s[n] # NoRef
      PROVE IF n = 1 THEN s[n] = 1 ELSE s[n] \in Parts(h[s[n - 1]])
  <2>1. IF n = 1 THEN refs[n] = 1 ELSE refs[n] \in Parts(h[refs[n - 1]])
    BY <1>4, <1>7 DEF StackOK
  <2>2. n # 1 => n - 1 \in 1 .. Len(s)
    BY <1>1, <1>2
  <2>. QED BY <2>1, <2>2, <1>4
<1>8. StackOK(h, s, o, c)
  BY <1>2, <1>3, <1>5, <1>6, <1>7 DEF StackOK
<1>. QED BY <1>8 DEF s, o

-------------------------------------------------------------------------------
(* Heap g is h with a new value v in the container at r.                    *)
Grows(h, g, r, v) ==
  /\ HeapOK(g) /\ Len(g) = Len(h) + 1
  /\ g[Len(h) + 1] = v /\ g[r].type = h[r].type /\ Len(h) + 1 \in Parts(g[r])
  /\ \A q \in 1 .. Len(h) : q # r => g[q] = h[q]

(* emplace_back() on an array of the heap.                                  *)
LEMMA NewElement ==
  ASSUME NEW h, HeapOK(h), NEW r \in 1 .. Len(h), h[r].type = "array", NEW v \in ValueOver({})
  PROVE Grows(h, Append([h EXCEPT ![r].elements = Append(@, Len(h) + 1)], v), r, v)
<1>. DEFINE e == Append(h[r].elements, Len(h) + 1)
<1>. DEFINE w == [h[r] EXCEPT !.elements = e]
<1>1. Len(h) \in Nat \ {0} /\ h[r] \in ValueOver(r + 1 .. Len(h))
  BY HeapIs
<1>2. h[r].elements \in Seq(r + 1 .. Len(h))
  BY <1>1, ArrayValue
<1>3. h[r].elements \in Seq(r + 1 .. Len(h) + 1)
  <2>1. r + 1 .. Len(h) \subseteq r + 1 .. Len(h) + 1
    BY <1>1
  <2>. QED BY <2>1, <1>2, SeqMonotonic
<1>4. e \in Seq(r + 1 .. Len(h) + 1) /\ Len(h) + 1 \in Range(e)
  <2>1. Len(h) + 1 \in r + 1 .. Len(h) + 1
    BY <1>1
  <2>2. /\ e \in Seq(r + 1 .. Len(h) + 1) /\ Len(e) = Len(h[r].elements) + 1
        /\ e[Len(h[r].elements) + 1] = Len(h) + 1
    BY <2>1, <1>3, AppendProperties
  <2>3. Len(h[r].elements) + 1 \in DOMAIN e
    BY <2>2, <1>3, LenProperties
  <2>. QED BY <2>2, <2>3 DEF Range
<1>. HIDE DEF e
<1>5. w \in ValueOver(r + 1 .. Len(h) + 1) /\ w.type = "array" /\ w.elements = e
  BY <1>1, <1>4, ArrayValue
<1>6. Len(h) + 1 \in Parts(w)
  BY <1>4, <1>5 DEF Parts, Range
<1>7. Append([h EXCEPT ![r].elements = Append(@, Len(h) + 1)], v) = Append([h EXCEPT ![r] = w], v)
  BY DEF e
<1>. HIDE DEF w
<1>. DEFINE g == Append([h EXCEPT ![r] = w], v)
<1>8. /\ HeapOK(g) /\ Len(g) = Len(h) + 1 /\ g[r] = w /\ g[Len(h) + 1] = v
      /\ \A q \in 1 .. Len(h) : q # r => g[q] = h[q]
  BY <1>5, PutAdd
<1>. HIDE DEF g
<1>9. Grows(h, g, r, v)
  BY <1>5, <1>6, <1>8 DEF Grows
<1>. QED BY <1>7, <1>9 DEF g

(* operator[] with a new key on an object of the heap.                      *)
LEMMA NewMember ==
  ASSUME NEW h, HeapOK(h), NEW r \in 1 .. Len(h), h[r].type = "object", NEW k \in Strings,
         NEW v \in ValueOver({})
  PROVE Grows(h, Append([h EXCEPT ![r].members =
                    [m \in DOMAIN h[r].members \cup {k} |->
                       IF m = k THEN Len(h) + 1 ELSE h[r].members[m]]], v), r, v)
<1>. DEFINE e == [m \in DOMAIN h[r].members \cup {k} |->
                       IF m = k THEN Len(h) + 1 ELSE h[r].members[m]]
<1>. DEFINE w == [h[r] EXCEPT !.members = e]
<1>1. Len(h) \in Nat \ {0} /\ h[r] \in ValueOver(r + 1 .. Len(h))
  BY HeapIs
<1>2. PICK D \in SUBSET Strings : h[r].members \in [D -> r + 1 .. Len(h)]
  <2>1. h[r].members \in Named(r + 1 .. Len(h))
    BY <1>1, ObjectValue
  <2>. QED BY <2>1 DEF Named
<1>3. e \in Named(r + 1 .. Len(h) + 1) /\ Len(h) + 1 \in Range(e)
  <2>1. e \in [D \cup {k} -> r + 1 .. Len(h) + 1]
    BY <1>1, <1>2
  <2>2. D \cup {k} \in SUBSET Strings
    OBVIOUS
  <2>3. e[k] = Len(h) + 1 /\ k \in DOMAIN e
    BY <1>2
  <2>4. Len(h) + 1 \in Range(e)
    BY <2>3 DEF Range
  <2>. QED BY <2>1, <2>2, <2>4 DEF Named
<1>. HIDE DEF e
<1>5. w \in ValueOver(r + 1 .. Len(h) + 1) /\ w.type = "object" /\ w.members = e
  BY <1>1, <1>3, ObjectValue
<1>6. Len(h) + 1 \in Parts(w)
  BY <1>3, <1>5 DEF Parts, Range
<1>7. Append([h EXCEPT ![r].members =
                    [m \in DOMAIN h[r].members \cup {k} |->
                       IF m = k THEN Len(h) + 1 ELSE h[r].members[m]]], v) = Append([h EXCEPT ![r] = w], v)
  BY DEF e
<1>. HIDE DEF w
<1>. DEFINE g == Append([h EXCEPT ![r] = w], v)
<1>8. /\ HeapOK(g) /\ Len(g) = Len(h) + 1 /\ g[r] = w /\ g[Len(h) + 1] = v
      /\ \A q \in 1 .. Len(h) : q # r => g[q] = h[q]
  BY <1>5, PutAdd
<1>. HIDE DEF g
<1>9. Grows(h, g, r, v)
  BY <1>5, <1>6, <1>8 DEF Grows
<1>. QED BY <1>7, <1>9 DEF g

(* Heap g is h with v at r, in the last of the open containers.             *)
Placed(h, refs, g, r, v) ==
  /\ HeapOK(g) /\ Len(h) <= Len(g)
  /\ r \in 1 .. Len(g) /\ g[r] = v
  /\ refs = <<>> => r = 1
  /\ refs # <<>> => Last(refs) # NoRef /\ Last(refs) < r /\ r \in Parts(g[Last(refs)])
  /\ \A open, c : StackOK(h, refs, open, c) => StackOK(g, refs, open, c)

(* handle_value() while nothing is open.                                    *)
LEMMA PlacedAsResult ==
  ASSUME NEW h, HeapOK(h), NEW v \in ValueOver({})
  PROVE Placed(h, <<>>, [h EXCEPT ![1] = v], 1, v)
<1>. DEFINE g == [h EXCEPT ![1] = v]
<1>1. Len(h) \in Nat \ {0} /\ 1 \in 1 .. Len(h)
  BY HeapIs
<1>2. v \in ValueOver(1 + 1 .. Len(h))
  BY Wider
<1>3. HeapOK(g) /\ Len(g) = Len(h) /\ g[1] = v /\ \A q \in 1 .. Len(h) : q # 1 => g[q] = h[q]
  BY <1>1, <1>2, Put, SMTT(20)
<1>. HIDE DEF g
<1>4. ASSUME NEW open, NEW c, StackOK(h, <<>>, open, c) PROVE StackOK(g, <<>>, open, c)
  <2>1. \A n \in 1 .. Len(<<>>) : <<>>[n] # 1
    OBVIOUS
  <2>. QED BY <2>1, <1>1, <1>3, <1>4, StackPut
<1>5. Placed(h, <<>>, g, 1, v)
  BY <1>1, <1>3, <1>4 DEF Placed
<1>. QED BY <1>5 DEF g

(* handle_value() in an array, also a new member of an object.              *)
LEMMA PlacedInArray ==
  ASSUME NEW h, HeapOK(h), NEW refs \in Seq(Nat), refs # <<>>, NEW g, NEW v,
         Last(refs) \in 1 .. Len(h), Grows(h, g, Last(refs), v)
  PROVE Placed(h, refs, g, Len(h) + 1, v)
<1>1. Len(h) \in Nat \ {0} /\ Len(g) = Len(h) + 1
  BY HeapIs DEF Grows
<1>2. ASSUME NEW open, NEW c, StackOK(h, refs, open, c) PROVE StackOK(g, refs, open, c)
  <2>1. \A q \in 1 .. Len(h) : q # Last(refs) => g[q] = h[q]
    BY DEF Grows
  <2>2. g[Last(refs)].type = h[Last(refs)].type
    BY DEF Grows
  <2>3. Len(h) \in Nat /\ Len(g) \in Nat /\ Len(h) <= Len(g)
    BY <1>1
  <2>. QED BY <2>1, <2>2, <2>3, <1>2, StackPut
<1>. QED BY <1>1, <1>2 DEF Placed, Grows, NoRef

(* handle_value() in an object: the place is a member already.              *)
LEMMA PlacedInObject ==
  ASSUME NEW h, HeapOK(h), NEW refs \in Seq(Nat), refs # <<>>, NEW v \in ValueOver({}),
         Last(refs) \in 1 .. Len(h), NEW r \in Parts(h[Last(refs)])
  PROVE Placed(h, refs, [h EXCEPT ![r] = v], r, v)
<1>. DEFINE g == [h EXCEPT ![r] = v]
<1>1. Len(h) \in Nat \ {0} /\ r \in Last(refs) + 1 .. Len(h) /\ Last(refs) \in Nat
  BY HeapIs, ChildIsLater
<1>2. r \in 1 .. Len(h) /\ Last(refs) < r
  BY <1>1
<1>3. HeapOK(g) /\ Len(g) = Len(h) /\ g[r] = v /\ \A q \in 1 .. Len(h) : q # r => g[q] = h[q]
  <2>1. v \in ValueOver(r + 1 .. Len(h))
    BY Wider
  <2>. QED BY <1>2, <2>1, Put
<1>. HIDE DEF g
<1>4. r \in Parts(g[Last(refs)])
  BY <1>1, <1>2, <1>3
<1>5. ASSUME NEW open, NEW c, StackOK(h, refs, open, c) PROVE StackOK(g, refs, open, c)
  <2>1. \A n \in 1 .. Len(refs) : refs[n] # r
    <3>1. \A n \in 1 .. Len(refs) : refs[n] <= Last(refs)
      BY <1>1, <1>5, TopIs DEF NoRef
    <3>2. \A n \in 1 .. Len(refs) : refs[n] \in Nat
      BY ElementOfSeq
    <3>. QED BY <3>1, <3>2, <1>1
  <2>2. Len(h) \in Nat /\ Len(g) \in Nat /\ Len(h) <= Len(g)
    BY <1>1, <1>3
  <2>. QED BY <2>1, <2>2, <1>3, <1>5, StackPut
<1>6. Placed(h, refs, g, r, v)
  BY <1>1, <1>2, <1>3, <1>4, <1>5 DEF Placed, NoRef
<1>. QED BY <1>6 DEF g

-------------------------------------------------------------------------------
(* Heap g is h with other parts in the container at r.                      *)
Alters(h, g, r) ==
  /\ HeapOK(g) /\ Len(g) = Len(h) /\ g[r].type = h[r].type
  /\ \A q \in 1 .. Len(h) : q # r => g[q] = h[q]

(* An array keeps some of its elements.                                     *)
LEMMA OtherElements ==
  ASSUME NEW h, HeapOK(h), NEW r \in 1 .. Len(h), h[r].type = "array",
         NEW e \in Seq(r + 1 .. Len(h))
  PROVE Alters(h, [h EXCEPT ![r].elements = e], r)
<1>. DEFINE w == [h[r] EXCEPT !.elements = e]
<1>1. h[r] \in ValueOver(r + 1 .. Len(h))
  BY HeapIs
<1>2. w \in ValueOver(r + 1 .. Len(h)) /\ w.type = "array"
  BY <1>1, ArrayValue
<1>3. [h EXCEPT ![r].elements = e] = [h EXCEPT ![r] = w]
  OBVIOUS
<1>. HIDE DEF w
<1>. QED BY <1>2, <1>3, Put DEF Alters

(* An object keeps some of its members.                                     *)
LEMMA OtherMembers ==
  ASSUME NEW h, HeapOK(h), NEW r \in 1 .. Len(h), h[r].type = "object",
         NEW m \in Named(r + 1 .. Len(h))
  PROVE Alters(h, [h EXCEPT ![r].members = m], r)
<1>. DEFINE w == [h[r] EXCEPT !.members = m]
<1>1. h[r] \in ValueOver(r + 1 .. Len(h))
  BY HeapIs
<1>2. w \in ValueOver(r + 1 .. Len(h)) /\ w.type = "object"
  BY <1>1, ObjectValue
<1>3. [h EXCEPT ![r].members = m] = [h EXCEPT ![r] = w]
  OBVIOUS
<1>. HIDE DEF w
<1>. QED BY <1>2, <1>3, Put DEF Alters

(* pop_back() on an array of the heap.                                      *)
LEMMA LastElementGone ==
  ASSUME NEW h, HeapOK(h), NEW r \in 1 .. Len(h), h[r].type = "array"
  PROVE Alters(h, [h EXCEPT ![r].elements = Front(@)], r)
<1>1. h[r].elements \in Seq(r + 1 .. Len(h))
  BY HeapIs, ArrayValue
<1>2. Front(h[r].elements) \in Seq(r + 1 .. Len(h))
  BY <1>1, LastFront
<1>. QED BY <1>2, OtherElements

(* RemoveAt() gives a sequence of the same elements.                        *)
LEMMA RemoveAtType ==
  ASSUME NEW S, NEW s \in Seq(S), NEW i \in 1 .. Len(s)
  PROVE RemoveAt(s, i) \in Seq(S)
<1>1. Len(s) \in Nat /\ \A n \in 1 .. Len(s) : s[n] \in S
  BY LenProperties, ElementOfSeq
<1>2. SubSeq(s, 1, i - 1) \in Seq(S)
  BY <1>1, SubSeqProperties
<1>3. SubSeq(s, i + 1, Len(s)) \in Seq(S)
  BY <1>1, SubSeqProperties
<1>4. SubSeq(s, 1, i - 1) \o SubSeq(s, i + 1, Len(s)) \in Seq(S)
  BY <1>2, <1>3, ConcatProperties
<1>. QED BY <1>4 DEF RemoveAt

(* Purging a container leaves a container of its kind; which of the discarded*)
(* values is the first is where Least is needed.                            *)
LEMMA PurgedAlters ==
  ASSUME NEW h, HeapOK(h), NEW r \in 1 .. Len(h), Structured(h[r])
  PROVE Alters(h, Purged(h, r), r)
<1>1. Alters(h, h, r)
  BY DEF Alters
<1>2. CASE h[r].type = "array"
  <2>. DEFINE gone == {n \in DOMAIN h[r].elements : h[h[r].elements[n]] = Discarded}
  <2>. DEFINE first == CHOOSE n \in gone : \A m \in gone : n <= m
  <2>1. Purged(h, r) = IF gone = {} THEN h ELSE [h EXCEPT ![r].elements = RemoveAt(@, first)]
    BY <1>2 DEF Purged
  <2>2. h[r].elements \in Seq(r + 1 .. Len(h))
    BY <1>2, HeapIs, ArrayValue
  <2>3. gone \subseteq Nat /\ gone \subseteq 1 .. Len(h[r].elements)
    BY <2>2, LenProperties
  <2>4. gone # {} => first \in 1 .. Len(h[r].elements)
    <3>. HIDE DEF gone
    <3>1. gone # {} => \E n \in gone : \A m \in gone : n <= m
      BY <2>3, Least
    <3>2. gone # {} => first \in gone
      BY <3>1
    <3>. QED BY <3>2, <2>3
  <2>5. gone # {} => RemoveAt(h[r].elements, first) \in Seq(r + 1 .. Len(h))
    <3>. HIDE DEF gone, first
    <3>. QED BY <2>2, <2>4, RemoveAtType
  <2>6. gone # {} => Alters(h, [h EXCEPT ![r].elements = RemoveAt(@, first)], r)
    <3>. HIDE DEF gone, first
    <3>. QED BY <2>5, <1>2, OtherElements
  <2>. QED BY <1>1, <2>1, <2>6
<1>3. CASE h[r].type = "object"
  <2>. DEFINE gone == {k \in DOMAIN h[r].members : h[h[r].members[k]] = Discarded}
  <2>. DEFINE first == CHOOSE k \in gone : \A l \in gone : k <= l
  <2>1. Purged(h, r) = IF gone = {} THEN h
                       ELSE [h EXCEPT ![r].members = [k \in DOMAIN @ \ {first} |-> @[k]]]
    BY <1>3 DEF Purged
  <2>2. h[r].members \in Named(r + 1 .. Len(h))
    BY <1>3, HeapIs, ObjectValue
  <2>3. [k \in DOMAIN h[r].members \ {first} |-> h[r].members[k]] \in Named(r + 1 .. Len(h))
    <3>. HIDE DEF first
    <3>1. PICK D \in SUBSET Strings : h[r].members \in [D -> r + 1 .. Len(h)]
      BY <2>2 DEF Named
    <3>2. D \ {first} \in SUBSET Strings
      OBVIOUS
    <3>3. [k \in DOMAIN h[r].members \ {first} |-> h[r].members[k]] \in [D \ {first} -> r + 1 .. Len(h)]
      BY <3>1
    <3>. QED BY <3>2, <3>3 DEF Named
  <2>4. Alters(h, [h EXCEPT ![r].members = [k \in DOMAIN @ \ {first} |-> @[k]]], r)
    <3>. HIDE DEF first
    <3>. QED BY <2>3, <1>3, OtherMembers
  <2>. QED BY <1>1, <2>1, <2>4
<1>. QED BY <1>2, <1>3 DEF Structured

-------------------------------------------------------------------------------
(* What the listener keeps is right while open is open.                     *)
Listener(open) ==
  /\ HeapOK(heap) /\ StackOK(heap, ref_stack, open, consumer)
  /\ keep_stack \in Seq(BOOLEAN) /\ key_keep_stack \in Seq(BOOLEAN) /\ object_element \in Nat
  /\ consumer = "callback" => Len(keep_stack) = Len(ref_stack) + 1

(* The place of a member whose key was read.                                *)
DueOK ==
  /\ consumer = "callback" => key_keep_stack # <<>>
  /\ consumer = "dom" \/ (Top # NoRef /\ Last(key_keep_stack)) => object_element \in Parts(heap[Top])

(* json_sax_dom_parser::handle_value() finds a place for every value.       *)
LEMMA HandleValue ==
  ASSUME NEW open, Listener(open), NEW v \in ValueOver({}), consumer = "dom",
         open # <<>> /\ ~Last(open) => DueOK
  PROVE Placed(heap, ref_stack, handle_value(v).heap, handle_value(v).ref, v)
<1>. USE DEF Listener
<1>1. CASE ref_stack = <<>>
  <2>1. handle_value(v).heap = [heap EXCEPT ![1] = v] /\ handle_value(v).ref = 1
    BY <1>1 DEF handle_value
  <2>. QED BY <2>1, <1>1, PlacedAsResult
<1>2. CASE ref_stack # <<>>
  <2>1. ref_stack \in Seq(Nat) /\ open # <<>>
    BY <1>2, TopIs DEF StackOK
  <2>2. Top \in 1 .. Len(heap) /\ heap[Top].type = Kind(Last(open))
    <3>1. Holds(heap, Last(ref_stack), Kind(Last(open)), consumer)
      BY <1>2, TopIs
    <3>. QED BY <3>1 DEF Holds, Top
  <2>3. CASE heap[Top].type = "array"
    <3>1. /\ handle_value(v).heap = Append([heap EXCEPT ![Top].elements = Append(@, Len(heap) + 1)], v)
          /\ handle_value(v).ref = Len(heap) + 1
      BY <1>2, <2>3 DEF handle_value, Emplaced
    <3>2. Grows(heap, handle_value(v).heap, Top, v)
      BY <3>1, <2>2, <2>3, NewElement
    <3>. QED BY <3>1, <3>2, <2>1, <2>2, <1>2, PlacedInArray DEF Top
  <2>4. CASE heap[Top].type # "array"
    <3>1. handle_value(v).heap = [heap EXCEPT ![object_element] = v] /\ handle_value(v).ref = object_element
      BY <1>2, <2>4 DEF handle_value
    <3>2. ~Last(open)
      BY <2>2, <2>4 DEF Kind
    <3>3. object_element \in Parts(heap[Top])
      BY <3>2, <2>1 DEF DueOK
    <3>. QED BY <3>1, <3>3, <2>1, <2>2, <1>2, PlacedInObject, SMTT(20) DEF Top
  <2>. QED BY <2>3, <2>4
<1>. QED BY <1>1, <1>2

(* json_sax_dom_callback_parser::handle_value() finds one, or drops the value.*)
LEMMA KeptValue ==
  ASSUME NEW open, Listener(open), NEW v \in ValueOver({}), consumer = "callback",
         open # <<>> /\ ~Last(open) => DueOK, NEW keeps
  PROVE /\ Kept(v, keeps).keys \in Seq(BOOLEAN)
        /\ \/ Kept(v, keeps).ref = NoRef /\ Kept(v, keeps).heap = heap
           \/ Placed(heap, ref_stack, Kept(v, keeps).heap, Kept(v, keeps).ref, v)
<1>. USE DEF Listener
<1>. DEFINE kept == Kept(v, keeps)
<1>. DEFINE Good == /\ kept.keys \in Seq(BOOLEAN)
                    /\ \/ kept.ref = NoRef /\ kept.heap = heap
                       \/ Placed(heap, ref_stack, kept.heap, kept.ref, v)
<1>0. Front(key_keep_stack) \in Seq(BOOLEAN)
  BY LastFront
<1>1. CASE ~Last(keeps)
  BY <1>1 DEF Kept
<1>2. CASE Last(keeps) /\ ref_stack = <<>>
  <2>1. kept.heap = [heap EXCEPT ![1] = v] /\ kept.ref = 1 /\ kept.keys = key_keep_stack
    BY <1>2 DEF Kept
  <2>. QED BY <2>1, <1>2, PlacedAsResult
<1>3. CASE Last(keeps) /\ ref_stack # <<>> /\ Top = NoRef
  BY <1>3 DEF Kept
<1>4. CASE Last(keeps) /\ ref_stack # <<>> /\ Top # NoRef
  <2>1. ref_stack \in Seq(Nat) /\ open # <<>>
    BY <1>4, TopIs DEF StackOK
  <2>2. Top \in 1 .. Len(heap) /\ heap[Top].type = Kind(Last(open))
    <3>1. Holds(heap, Last(ref_stack), Kind(Last(open)), consumer)
      BY <1>4, TopIs
    <3>. QED BY <3>1, <1>4 DEF Holds, Top
  <2>3. CASE heap[Top].type = "array"
    <3>1. /\ kept.heap = Append([heap EXCEPT ![Top].elements = Append(@, Len(heap) + 1)], v)
          /\ kept.ref = Len(heap) + 1 /\ kept.keys = key_keep_stack
      BY <1>4, <2>3 DEF Kept, Emplaced
    <3>2. Grows(heap, kept.heap, Top, v)
      BY <3>1, <2>2, <2>3, NewElement
    <3>3. Placed(heap, ref_stack, kept.heap, kept.ref, v)
      BY <3>1, <3>2, <1>4, <2>1, <2>2, PlacedInArray DEF Top
    <3>. QED BY <3>1, <3>3
  <2>4. CASE heap[Top].type # "array" /\ Last(key_keep_stack)
    <3>1. /\ kept.heap = [heap EXCEPT ![object_element] = v] /\ kept.ref = object_element
          /\ kept.keys = Front(key_keep_stack)
      BY <1>4, <2>4 DEF Kept
    <3>2. ~Last(open)
      BY <2>2, <2>4 DEF Kind
    <3>3. object_element \in Parts(heap[Top])
      BY <3>2, <2>1, <2>4, <1>4 DEF DueOK
    <3>4. Placed(heap, ref_stack, kept.heap, kept.ref, v)
      BY <3>1, <3>3, <1>4, <2>1, <2>2, PlacedInObject DEF Top
    <3>. QED BY <3>1, <3>4, <1>0
  <2>5. CASE heap[Top].type # "array" /\ ~Last(key_keep_stack)
    <3>1. kept.heap = heap /\ kept.ref = NoRef /\ kept.keys = Front(key_keep_stack)
      BY <1>4, <2>5 DEF Kept
    <3>. QED BY <3>1, <1>0
  <2>. QED BY <2>3, <2>4, <2>5
<1>. QED BY <1>1, <1>2, <1>3, <1>4

(* Values without parts.                                                    *)
LEMMA StartValues ==
  /\ Null \in ValueOver({}) /\ Discarded \in ValueOver({})
  /\ Array \in ValueOver({}) /\ Array.type = Kind(TRUE)
  /\ Object \in ValueOver({}) /\ Object.type = Kind(FALSE)
<1>1. Null \in ValueOver({}) /\ Discarded \in ValueOver({})
  BY DEF ValueOver
<1>2. Array \in ValueOver({}) /\ Array.type = "array"
  <2>1. <<>> \in Seq({})
    BY EmptySeq
  <2>2. Array \in [type : {"array"}, elements : Seq({})] /\ Array.type = "array"
    BY <2>1 DEF Array
  <2>. QED BY <2>2 DEF ValueOver
<1>3. Object \in ValueOver({}) /\ Object.type = "object"
  <2>1. <<>> \in [{} -> {}]
    <3>1. <<>> \in Seq({}) /\ Len(<<>>) = 0
      BY EmptySeq
    <3>2. DOMAIN <<>> = 1 .. 0 /\ <<>> \in [1 .. 0 -> {}]
      BY <3>1, LenProperties
    <3>3. 1 .. 0 = {}
      OBVIOUS
    <3>. QED BY <3>2, <3>3
  <2>2. <<>> \in Named({})
    BY <2>1 DEF Named
  <2>3. Object \in [type : {"object"}, members : Named({})] /\ Object.type = "object"
    BY <2>2 DEF Object
  <2>. QED BY <2>3 DEF ValueOver, Named
<1>. QED BY <1>1, <1>2, <1>3 DEF Kind

(* The events, each for the parser that builds and the one that asks: a value*)
(* leaves open what is open.                                                *)
LEMMA ValueHeard ==
  ASSUME NEW open, Listener(open), consumer # "acceptor", consumer' = consumer,
         NEW v \in ValueOver({}), open # <<>> /\ ~Last(open) => DueOK, OnValue(v)
  PROVE Listener(open)'
<1>1. CASE consumer = "dom"
  <2>1. DomValue(v)
    BY <1>1 DEF OnValue
  <2>2. Placed(heap, ref_stack, handle_value(v).heap, handle_value(v).ref, v)
    BY <1>1, HandleValue
  <2>3. HeapOK(heap') /\ StackOK(heap', ref_stack, open, consumer)
    BY <2>1, <2>2 DEF DomValue, Placed, Listener
  <2>. QED BY <2>1, <2>3 DEF DomValue, Listener
<1>2. CASE consumer = "callback"
  <2>1. PICK keep \in BOOLEAN : CallbackValue(v, keep)
    BY <1>2 DEF OnValue
  <2>2. CASE keep
    <3>1. heap' = Kept(v, keep_stack).heap /\ key_keep_stack' = Kept(v, keep_stack).keys
      BY <2>1, <2>2 DEF CallbackValue
    <3>2. /\ Kept(v, keep_stack).keys \in Seq(BOOLEAN)
          /\ \/ Kept(v, keep_stack).ref = NoRef /\ Kept(v, keep_stack).heap = heap
             \/ Placed(heap, ref_stack, Kept(v, keep_stack).heap, Kept(v, keep_stack).ref, v)
      BY <1>2, KeptValue
    <3>3. HeapOK(heap') /\ StackOK(heap', ref_stack, open, consumer)
      BY <3>1, <3>2 DEF Placed, Listener
    <3>4. UNCHANGED <<ref_stack, object_element, keep_stack>>
      BY <2>1 DEF CallbackValue
    <3>. QED BY <3>1, <3>2, <3>3, <3>4 DEF Listener
  <2>3. CASE ~keep
    BY <2>1, <2>3 DEF CallbackValue, Listener
  <2>. QED BY <2>2, <2>3
<1>. QED BY <1>1, <1>2 DEF OnValue

(* The start of a container opens it.                                       *)
LEMMA StartHeard ==
  ASSUME NEW open, Listener(open), consumer # "acceptor", consumer' = consumer,
         NEW b \in BOOLEAN, NEW v \in ValueOver({}), v.type = Kind(b),
         open # <<>> /\ ~Last(open) => DueOK, OnStart(v)
  PROVE Listener(Append(open, b))'
<1>0. ref_stack \in Seq(Nat)
  BY DEF Listener, StackOK
<1>1. ASSUME NEW g, NEW r, Placed(heap, ref_stack, g, r, v)
      PROVE StackOK(g, Append(ref_stack, r), Append(open, b), consumer)
  <2>1. StackOK(g, ref_stack, open, consumer)
    BY <1>1 DEF Placed, Listener
  <2>2. r \in Nat /\ Holds(g, r, Kind(b), consumer)
    <3>1. HeapOK(g) /\ r \in 1 .. Len(g) /\ g[r] = v
      BY <1>1 DEF Placed
    <3>. QED BY <3>1, HeapIs DEF Holds
  <2>3. /\ r # NoRef /\ ref_stack = <<>> => r = 1
        /\ r # NoRef /\ ref_stack # <<>> =>
             Last(ref_stack) # NoRef /\ Last(ref_stack) < r /\ r \in Parts(g[Last(ref_stack)])
    BY <1>1 DEF Placed
  <2>. QED BY <2>1, <2>2, <2>3, Push
<1>2. CASE consumer = "dom"
  <2>1. DomStart(v)
    BY <1>2 DEF OnStart
  <2>2. Placed(heap, ref_stack, handle_value(v).heap, handle_value(v).ref, v)
    BY <1>2, HandleValue
  <2>3. HeapOK(heap') /\ StackOK(heap', ref_stack', Append(open, b), consumer)
    BY <2>1, <2>2, <1>1 DEF DomStart, Placed
  <2>. QED BY <1>2, <2>1, <2>3 DEF DomStart, Listener
<1>3. CASE consumer = "callback"
  <2>1. PICK keep \in BOOLEAN : CallbackStart(v, keep)
    BY <1>3 DEF OnStart
  <2>2. PICK keeps : keeps = keep_stack'
    OBVIOUS
  <2>3. /\ heap' = Kept(v, keeps).heap /\ key_keep_stack' = Kept(v, keeps).keys
        /\ ref_stack' = Append(ref_stack, Kept(v, keeps).ref)
        /\ keep_stack' = Append(keep_stack, keep) /\ object_element' = object_element
    BY <2>1, <2>2 DEF CallbackStart
  <2>4. /\ Kept(v, keeps).keys \in Seq(BOOLEAN)
        /\ \/ Kept(v, keeps).ref = NoRef /\ Kept(v, keeps).heap = heap
           \/ Placed(heap, ref_stack, Kept(v, keeps).heap, Kept(v, keeps).ref, v)
    BY <1>3, KeptValue
  <2>5. HeapOK(heap') /\ StackOK(heap', ref_stack', Append(open, b), consumer)
    <3>1. CASE Kept(v, keeps).ref = NoRef /\ Kept(v, keeps).heap = heap
      <4>1. Holds(heap, NoRef, Kind(b), consumer) /\ NoRef \in Nat
        BY <1>3 DEF Holds, NoRef
      <4>2. StackOK(heap, Append(ref_stack, NoRef), Append(open, b), consumer)
        BY <4>1, Push DEF Listener
      <4>. QED BY <2>3, <3>1, <4>2 DEF Listener
    <3>2. CASE Placed(heap, ref_stack, Kept(v, keeps).heap, Kept(v, keeps).ref, v)
      BY <2>3, <3>2, <1>1 DEF Placed
    <3>. QED BY <2>4, <3>1, <3>2
  <2>6. keep_stack' \in Seq(BOOLEAN) /\ Len(keep_stack') = Len(keep_stack) + 1
    BY <2>3, AppendProperties DEF Listener
  <2>7. Len(ref_stack') = Len(ref_stack) + 1
    <3>1. Kept(v, keeps).ref \in Nat
      BY <2>4, HeapIs DEF Placed, NoRef
    <3>. QED BY <2>3, <3>1, <1>0, AppendProperties
  <2>8. Len(keep_stack') = Len(ref_stack') + 1
    BY <1>3, <2>6, <2>7 DEF Listener
  <2>. QED BY <2>3, <2>4, <2>5, <2>6, <2>8 DEF Listener
<1>. QED BY <1>2, <1>3 DEF OnStart

(* A key makes a member due.                                                *)
LEMMA KeyHeard ==
  ASSUME NEW open, Listener(open), consumer # "acceptor", consumer' = consumer,
         NEW k \in Strings, open # <<>>, ~Last(open), OnKey(k)
  PROVE Listener(open)' /\ DueOK'
<1>1. ref_stack \in Seq(Nat) /\ ref_stack # <<>> /\ Top \in Nat
  <2>1. ref_stack \in Seq(Nat) /\ open \in Seq(BOOLEAN) /\ Len(ref_stack) = Len(open)
    BY DEF Listener, StackOK
  <2>2. ref_stack # <<>>
    BY <2>1, EmptySeq
  <2>. QED BY <2>1, <2>2, LastFront DEF Top
<1>2. Top # NoRef \/ consumer = "dom" => Top \in 1 .. Len(heap) /\ heap[Top].type = "object"
  <2>1. Holds(heap, Last(ref_stack), Kind(Last(open)), consumer)
    BY <1>1, TopIs DEF Listener
  <2>. QED BY <2>1 DEF Holds, Kind, Top
<1>3. ASSUME Top \in 1 .. Len(heap), heap[Top].type = "object", NEW v \in ValueOver({}), NEW g,
             k \notin DOMAIN heap[Top].members,
             g = Append([heap EXCEPT ![Top].members =
                    [m \in DOMAIN heap[Top].members \cup {k} |->
                       IF m = k THEN Len(heap) + 1 ELSE heap[Top].members[m]]], v)
      PROVE HeapOK(g) /\ StackOK(g, ref_stack, open, consumer) /\ Len(heap) + 1 \in Parts(g[Top])
  <2>1. Grows(heap, g, Top, v)
    BY <1>3, NewMember DEF Listener
  <2>2. Placed(heap, ref_stack, g, Len(heap) + 1, v)
    BY <1>1, <1>3, <2>1, PlacedInArray DEF Listener, Top
  <2>. QED BY <2>1, <2>2 DEF Placed, Listener, Grows
<1>4. ASSUME Top \in 1 .. Len(heap), heap[Top].type = "object", k \in DOMAIN heap[Top].members
      PROVE heap[Top].members[k] \in Parts(heap[Top])
  BY <1>4 DEF Parts, Range
<1>5. Len(heap) \in Nat
  BY HeapIs DEF Listener
<1>6. CASE consumer = "dom"
  <2>1. Member(k) /\ UNCHANGED <<ref_stack, keep_stack, key_keep_stack>>
    BY <1>6 DEF OnKey, DomKey
  <2>2. CASE k \in DOMAIN heap[Top].members
    <3>1. object_element' = heap[Top].members[k] /\ heap' = heap
      BY <2>1, <2>2 DEF Member
    <3>2. object_element' \in Parts(heap[Top])
      BY <3>1, <2>2, <1>2, <1>4, <1>6
    <3>3. object_element' \in Nat
      <4>1. HeapOK(heap) /\ Top \in 1 .. Len(heap)
        BY <1>2, <1>6 DEF Listener
      <4>2. object_element' \in Top + 1 .. Len(heap)
        BY <4>1, <3>2, ChildIsLater
      <4>. QED BY <4>1, <4>2, <1>5
    <3>. QED BY <1>6, <2>1, <3>1, <3>2, <3>3 DEF Listener, DueOK, Top
  <2>3. CASE k \notin DOMAIN heap[Top].members
    <3>1. /\ object_element' = Len(heap) + 1
          /\ heap' = Append([heap EXCEPT ![Top].members =
                    [m \in DOMAIN heap[Top].members \cup {k} |->
                       IF m = k THEN Len(heap) + 1 ELSE heap[Top].members[m]]], Null)
      BY <2>1, <2>3 DEF Member
    <3>2. HeapOK(heap') /\ StackOK(heap', ref_stack, open, consumer) /\ Len(heap) + 1 \in Parts(heap'[Top])
      BY <3>1, <2>3, <1>2, <1>3, <1>6, StartValues
    <3>3. Listener(open)'
      BY <1>5, <1>6, <2>1, <3>1, <3>2 DEF Listener
    <3>4. DueOK'
      BY <1>6, <2>1, <3>1, <3>2 DEF DueOK, Top
    <3>. QED BY <3>3, <3>4
  <2>. QED BY <2>2, <2>3
<1>7. CASE consumer = "callback"
  <2>1. PICK keep \in BOOLEAN : CallbackKey(k, keep)
    BY <1>7 DEF OnKey
  <2>2. /\ key_keep_stack' = Append(key_keep_stack, keep)
        /\ ref_stack' = ref_stack /\ keep_stack' = keep_stack
    BY <2>1 DEF CallbackKey
  <2>3. key_keep_stack' \in Seq(BOOLEAN) /\ key_keep_stack' # <<>> /\ Last(key_keep_stack') = keep
    BY <2>2, AppendLast DEF Listener
  <2>4. CASE ~(keep /\ Top # NoRef)
    <3>1. heap' = heap /\ object_element' = object_element
      BY <2>1, <2>4 DEF CallbackKey
    <3>2. Listener(open)'
      BY <1>7, <2>2, <2>3, <3>1 DEF Listener
    <3>3. DueOK'
      BY <1>7, <2>2, <2>3, <2>4 DEF DueOK, Top
    <3>. QED BY <3>2, <3>3
  <2>5. CASE keep /\ Top # NoRef /\ k \in DOMAIN heap[Top].members
    <3>1. /\ object_element' = heap[Top].members[k]
          /\ heap' = [heap EXCEPT ![heap[Top].members[k]] = Discarded]
      BY <2>1, <2>5 DEF CallbackKey
    <3>2. object_element' \in Parts(heap[Top])
      BY <3>1, <2>5, <1>2, <1>4
    <3>3. Placed(heap, ref_stack, heap', object_element', Discarded)
      BY <3>1, <3>2, <1>1, <1>2, <2>5, PlacedInObject, StartValues DEF Listener, Top
    <3>4. /\ HeapOK(heap') /\ StackOK(heap', ref_stack, open, consumer)
          /\ object_element' \in Nat /\ object_element' \in Parts(heap'[Top])
      BY <3>3, <1>1, HeapIs DEF Placed, Listener, Top
    <3>5. Listener(open)'
      BY <1>7, <2>2, <2>3, <3>4 DEF Listener
    <3>6. DueOK'
      BY <1>7, <2>2, <2>3, <3>4 DEF DueOK, Top
    <3>. QED BY <3>5, <3>6
  <2>6. CASE keep /\ Top # NoRef /\ k \notin DOMAIN heap[Top].members
    <3>1. /\ object_element' = Len(heap) + 1
          /\ heap' = Append([heap EXCEPT ![Top].members =
                    [m \in DOMAIN heap[Top].members \cup {k} |->
                       IF m = k THEN Len(heap) + 1 ELSE heap[Top].members[m]]], Discarded)
      BY <2>1, <2>6 DEF CallbackKey
    <3>2. HeapOK(heap') /\ StackOK(heap', ref_stack, open, consumer) /\ Len(heap) + 1 \in Parts(heap'[Top])
      BY <3>1, <2>6, <1>2, <1>3, StartValues
    <3>3. Listener(open)'
      BY <1>5, <1>7, <2>2, <2>3, <3>1, <3>2 DEF Listener
    <3>4. DueOK'
      BY <1>7, <2>2, <2>3, <3>1, <3>2 DEF DueOK, Top
    <3>. QED BY <3>3, <3>4
  <2>. QED BY <2>4, <2>5, <2>6
<1>. QED BY <1>6, <1>7 DEF OnKey

-------------------------------------------------------------------------------
(* A value without parts can go anywhere.                                   *)
LEMMA PutLeaf ==
  ASSUME NEW h, HeapOK(h), NEW r \in 1 .. Len(h), NEW v \in ValueOver({})
  PROVE /\ HeapOK([h EXCEPT ![r] = v])
        /\ Len([h EXCEPT ![r] = v]) = Len(h)
        /\ \A q \in 1 .. Len(h) : q # r => [h EXCEPT ![r] = v][q] = h[q]
<1>1. v \in ValueOver(r + 1 .. Len(h))
  BY Wider
<1>. QED BY <1>1, Put

(* The last open container can be discarded, if it is closed.               *)
LEMMA DiscardedTop ==
  ASSUME NEW open, Listener(open), open # <<>>, Top # NoRef
  PROVE /\ HeapOK([heap EXCEPT ![Top] = Discarded])
        /\ StackOK([heap EXCEPT ![Top] = Discarded], Front(ref_stack), Front(open), consumer)
<1>. DEFINE g == [heap EXCEPT ![Top] = Discarded]
<1>1. ref_stack \in Seq(Nat) /\ ref_stack # <<>> /\ Len(ref_stack) \in Nat \ {0}
  <2>1. ref_stack \in Seq(Nat) /\ open \in Seq(BOOLEAN) /\ Len(ref_stack) = Len(open)
    BY DEF Listener, StackOK
  <2>. QED BY <2>1, EmptySeq
<1>2. HeapOK(heap) /\ Top \in 1 .. Len(heap)
  <2>1. Holds(heap, Last(ref_stack), Kind(Last(open)), consumer)
    BY <1>1, TopIs DEF Listener
  <2>. QED BY <2>1 DEF Holds, Top, Listener
<1>3. HeapOK(g) /\ Len(g) = Len(heap) /\ \A q \in 1 .. Len(heap) : q # Top => g[q] = heap[q]
  <2>1. Discarded \in ValueOver({})
    BY StartValues
  <2>. QED BY <2>1, <1>2, PutLeaf
<1>. HIDE DEF g
<1>4. StackOK(heap, Front(ref_stack), Front(open), consumer)
  BY <1>1, Pop DEF Listener
<1>5. \A n \in 1 .. Len(Front(ref_stack)) : Front(ref_stack)[n] # Top
  <2>1. Len(Front(ref_stack)) = Len(ref_stack) - 1
        /\ \A n \in 1 .. Len(ref_stack) - 1 : Front(ref_stack)[n] = ref_stack[n]
    BY <1>1, LastFront
  <2>2. \A n \in 1 .. Len(ref_stack) : n < Len(ref_stack) => ref_stack[n] < Top
    BY <1>1, TopIs DEF Listener, Top
  <2>3. \A n \in 1 .. Len(ref_stack) : ref_stack[n] \in Nat
    BY <1>1, ElementOfSeq
  <2>4. Top \in Nat
    BY <1>1, LastFront DEF Top
  <2>5. \A n \in 1 .. Len(ref_stack) - 1 : n \in 1 .. Len(ref_stack) /\ n < Len(ref_stack)
    BY <1>1
  <2>. QED BY <2>1, <2>2, <2>3, <2>4, <2>5
<1>6. Len(heap) \in Nat /\ Len(g) \in Nat /\ Len(heap) <= Len(g)
  BY <1>2, <1>3, HeapIs
<1>7. StackOK(g, Front(ref_stack), Front(open), consumer)
  BY <1>3, <1>4, <1>5, <1>6, StackPut
<1>. QED BY <1>3, <1>7 DEF g

(* Closing, before the container around it is looked at.                    *)
LEMMA EndedKeeps ==
  ASSUME NEW open, Listener(open), open # <<>>, NEW keep \in BOOLEAN, ~keep => Top # NoRef
  PROVE HeapOK(Ended(keep)) /\ StackOK(Ended(keep), Front(ref_stack), Front(open), consumer)
<1>1. CASE keep
  <2>1. Ended(keep) = heap
    BY <1>1 DEF Ended
  <2>2. ref_stack # <<>>
    <3>1. ref_stack \in Seq(Nat) /\ open \in Seq(BOOLEAN) /\ Len(ref_stack) = Len(open)
      BY DEF Listener, StackOK
    <3>. QED BY <3>1, EmptySeq
  <2>3. StackOK(heap, Front(ref_stack), Front(open), consumer)
    BY <2>2, Pop DEF Listener
  <2>. QED BY <2>1, <2>3 DEF Listener
<1>2. CASE ~keep
  <2>1. Ended(keep) = [heap EXCEPT ![Top] = Discarded]
    BY <1>2 DEF Ended
  <2>. QED BY <2>1, <1>2, DiscardedTop
<1>. QED BY <1>1, <1>2

(* The last open container may lose parts.                                  *)
LEMMA AltersStack ==
  ASSUME NEW h, HeapOK(h), NEW refs, NEW open, NEW c, StackOK(h, refs, open, c), refs # <<>>,
         NEW g, Alters(h, g, Last(refs))
  PROVE HeapOK(g) /\ StackOK(g, refs, open, c)
<1>1. Len(h) \in Nat /\ Len(g) \in Nat /\ Len(h) <= Len(g)
  BY HeapIs DEF Alters
<1>2. \A q \in 1 .. Len(h) : q # Last(refs) => g[q] = h[q]
  BY DEF Alters
<1>3. g[Last(refs)].type = h[Last(refs)].type
  BY DEF Alters
<1>4. StackOK(g, refs, open, c)
  BY <1>1, <1>2, <1>3, StackPut
<1>. QED BY <1>4 DEF Alters

(* The end of a container closes it, whatever the callback says.            *)
LEMMA EndHeard ==
  ASSUME NEW open, Listener(open), consumer # "acceptor", consumer' = consumer, open # <<>>,
         OnEndObject \/ OnEndArray
  PROVE Listener(Front(open))'
<1>1. ref_stack \in Seq(Nat) /\ ref_stack # <<>> /\ Len(ref_stack) \in Nat \ {0}
  <2>1. ref_stack \in Seq(Nat) /\ open \in Seq(BOOLEAN) /\ Len(ref_stack) = Len(open)
    BY DEF Listener, StackOK
  <2>. QED BY <2>1, EmptySeq
<1>2. CASE consumer = "dom"
  <2>1. DomEnd
    BY <1>2 DEF OnEndObject, OnEndArray
  <2>2. StackOK(heap, Front(ref_stack), Front(open), consumer)
    BY <1>1, Pop DEF Listener
  <2>. QED BY <1>2, <2>1, <2>2 DEF DomEnd, Listener
<1>3. CASE consumer = "callback"
  <2>. DEFINE outer == Front(ref_stack)
  <2>1. PICK keep \in BOOLEAN : CallbackEndObject(keep) \/ CallbackEndArray(keep)
    BY <1>3 DEF OnEndObject, OnEndArray
  <2>2. /\ Top = NoRef => keep
        /\ ref_stack' = outer /\ keep_stack' = Front(keep_stack)
        /\ object_element' = object_element /\ key_keep_stack' = key_keep_stack
    BY <2>1 DEF CallbackEndObject, CallbackEndArray
  <2>3. HeapOK(Ended(keep)) /\ StackOK(Ended(keep), outer, Front(open), consumer)
    BY <2>2, EndedKeeps
  <2>4. outer # <<>> => Holds(Ended(keep), Last(outer), Kind(Last(Front(open))), consumer)
    <3>. HIDE DEF outer
    <3>. QED BY <2>3, TopIs
  <2>5. ~keep /\ outer # <<>> => Last(outer) # NoRef
    <3>1. ASSUME Top # NoRef, outer # <<>> PROVE Last(outer) # NoRef
      <4>1. outer \in Seq(Nat) /\ Len(outer) = Len(ref_stack) - 1
            /\ \A n \in 1 .. Len(ref_stack) - 1 : outer[n] = ref_stack[n]
        BY <1>1, LastFront
      <4>2. Len(outer) \in Nat \ {0} /\ Last(outer) = outer[Len(outer)]
        BY <4>1, <3>1, LastFront
      <4>3. Len(outer) \in 1 .. Len(ref_stack) - 1 /\ Len(outer) \in 1 .. Len(ref_stack)
        BY <4>1, <4>2, <1>1
      <4>4. ref_stack[Len(outer)] # NoRef
        BY <4>3, <3>1, <1>1, TopIs DEF Listener, Top
      <4>. QED BY <4>1, <4>2, <4>3, <4>4
    <3>. QED BY <3>1, <2>2
  <2>6. HeapOK(heap') /\ StackOK(heap', outer, Front(open), consumer)
    <3>. HIDE DEF outer
    <3>1. ASSUME outer # <<>>, Last(outer) # NoRef, Structured(Ended(keep)[Last(outer)]),
                 heap' = Purged(Ended(keep), Last(outer))
          PROVE HeapOK(heap') /\ StackOK(heap', outer, Front(open), consumer)
      <4>1. Last(outer) \in 1 .. Len(Ended(keep))
        BY <2>4, <3>1 DEF Holds
      <4>2. Alters(Ended(keep), heap', Last(outer))
        BY <4>1, <2>3, <3>1, PurgedAlters
      <4>. QED BY <4>2, <2>3, <3>1, AltersStack
    <3>2. ASSUME outer # <<>>, Last(outer) # NoRef, Ended(keep)[Last(outer)].type = "array",
                 heap' = [Ended(keep) EXCEPT ![Last(outer)].elements = Front(@)]
          PROVE HeapOK(heap') /\ StackOK(heap', outer, Front(open), consumer)
      <4>1. Last(outer) \in 1 .. Len(Ended(keep))
        BY <2>4, <3>2 DEF Holds
      <4>2. Alters(Ended(keep), heap', Last(outer))
        BY <4>1, <2>3, <3>2, LastElementGone
      <4>. QED BY <4>2, <2>3, <3>2, AltersStack
    <3>3. CASE CallbackEndObject(keep)
      <4>1. heap' = IF outer # <<>> /\ Last(outer) # NoRef /\ Structured(Ended(keep)[Last(outer)])
                    THEN Purged(Ended(keep), Last(outer)) ELSE Ended(keep)
        BY <3>3 DEF CallbackEndObject, outer
      <4>. QED BY <4>1, <3>1, <2>3
    <3>4. CASE CallbackEndArray(keep)
      <4>1. heap' = IF ~keep /\ outer # <<>> /\ Ended(keep)[Last(outer)].type = "array"
                    THEN [Ended(keep) EXCEPT ![Last(outer)].elements = Front(@)] ELSE Ended(keep)
        BY <3>4 DEF CallbackEndArray, outer
      <4>. QED BY <4>1, <3>2, <2>3, <2>5
    <3>. QED BY <2>1, <3>3, <3>4
  <2>7. keep_stack' \in Seq(BOOLEAN) /\ Len(keep_stack') = Len(ref_stack') + 1
    <3>1. keep_stack \in Seq(BOOLEAN) /\ Len(keep_stack) = Len(ref_stack) + 1
      BY <1>3 DEF Listener
    <3>2. keep_stack # <<>>
      BY <3>1, <1>1, EmptySeq
    <3>3. Front(keep_stack) \in Seq(BOOLEAN) /\ Len(Front(keep_stack)) = Len(keep_stack) - 1
      BY <3>1, <3>2, LastFront
    <3>4. Len(outer) = Len(ref_stack) - 1
      BY <1>1, LastFront
    <3>. QED BY <3>1, <3>3, <3>4, <1>1, <2>2
  <2>. QED BY <2>2, <2>6, <2>7 DEF Listener
<1>. QED BY <1>2, <1>3 DEF OnEndObject, OnEndArray

-------------------------------------------------------------------------------
Running == pc \notin {"done", "errored end"}

(* The types of what the listener keeps.                                    *)
DomOK ==
  /\ HeapOK(heap) /\ ref_stack \in Seq(Nat) /\ object_element \in Nat
  /\ keep_stack \in Seq(BOOLEAN) /\ key_keep_stack \in Seq(BOOLEAN)

(* Where the parser is fits what is open.                                   *)
PlaceInv ==
  /\ pc \in {"first element", "after element"} => states # <<>> /\ Last(states)
  /\ pc \in {"key", "separator", "after member"} => states # <<>> /\ ~Last(states)
  /\ pc = "end" => states = <<>>

(* The listener knows what is open, and where a member that is due goes.    *)
ListenerInv ==
  consumer # "acceptor" /\ Running => Listener(Open) /\ (MemberDue => DueOK)

(* The inductive invariant.                                                 *)
IInv == TypeOK /\ PlaceInv /\ ListenerInv

(* Front() undoes Append().                                                 *)
LEMMA FrontOfAppend ==
  ASSUME NEW S, NEW s \in Seq(S), NEW e \in S
  PROVE Front(Append(s, e)) = s
<1>1. /\ Append(s, e) \in Seq(S) /\ Append(s, e) # <<>> /\ Len(Append(s, e)) = Len(s) + 1
      /\ \A n \in 1 .. Len(s) : Append(s, e)[n] = s[n]
  BY AppendLast
<1>2. Len(s) \in Nat
  BY LenProperties
<1>3. /\ Front(Append(s, e)) \in Seq(S)
      /\ Len(Front(Append(s, e))) = Len(Append(s, e)) - 1
      /\ \A n \in 1 .. Len(Append(s, e)) - 1 : Front(Append(s, e))[n] = Append(s, e)[n]
  BY <1>1, LastFront
<1>4. Len(Append(s, e)) - 1 = Len(s)
  BY <1>1, <1>2
<1>5. /\ Len(Front(Append(s, e))) = Len(s)
      /\ \A n \in 1 .. Len(s) : Front(Append(s, e))[n] = s[n]
  BY <1>1, <1>3, <1>4
<1>. QED BY <1>3, <1>5, SeqEqual

(* An object is the last of what is open.                                   *)
LEMMA AppendFalse ==
  ASSUME NEW s \in Seq(BOOLEAN)
  PROVE /\ Append(s, FALSE) \in Seq(BOOLEAN) /\ Append(s, FALSE) # <<>>
        /\ Last(Append(s, FALSE)) = FALSE /\ Front(Append(s, FALSE)) = s
<1>1. FALSE \in BOOLEAN
  OBVIOUS
<1>2. /\ Append(s, FALSE) \in Seq(BOOLEAN) /\ Append(s, FALSE) # <<>>
      /\ Last(Append(s, FALSE)) = FALSE
  BY <1>1, AppendLast, Zenon
<1>3. Front(Append(s, FALSE)) = s
  BY <1>1, FrontOfAppend, Zenon
<1>. QED BY <1>2, <1>3

(* The first state.                                                         *)
LEMMA InitIInv == Init => IInv
<1>. SUFFICES ASSUME Init PROVE IInv
  OBVIOUS
<1>1. PICK c \in Cases : consumer = c.consumer /\ strict = c.strict /\ allow_exceptions = c.allow_exceptions
  BY DEF Init
<1>2. consumer \in {"dom", "callback", "acceptor"} /\ strict \in BOOLEAN /\ allow_exceptions \in BOOLEAN
  BY <1>1, JsonParserAssumption
<1>3. HeapOK(heap)
  <2>1. heap = <<Null>>
    BY DEF Init
  <2>2. \A S : <<Null>> \in Seq(ValueOver(S))
    <3>. SUFFICES ASSUME NEW S PROVE <<Null>> \in Seq(ValueOver(S))
      OBVIOUS
    <3>1. Null \in ValueOver(S)
      BY StartValues, Wider
    <3>. QED BY <3>1
  <2>3. <<Null>> # <<>> /\ Len(<<Null>>) = 1 /\ <<Null>>[1] = Null
    OBVIOUS
  <2>4. \A r \in 1 .. 1 : <<Null>>[r] \in ValueOver(r + 1 .. 1)
    <3>1. Null \in ValueOver(1 + 1 .. 1)
      BY StartValues, Wider
    <3>. QED BY <3>1, <2>3
  <2>. QED BY <2>1, <2>2, <2>3, <2>4 DEF HeapOK
<1>4. TypeOK
  <2>1. tokens \in Seq(Tokens) /\ answers \in Seq(BOOLEAN) /\ states \in Seq(BOOLEAN)
    BY EmptySeq DEF Init
  <2>2. /\ ref_stack \in Seq(Nat) /\ object_element \in Nat
        /\ keep_stack \in Seq(BOOLEAN) /\ key_keep_stack \in Seq(BOOLEAN)
    <3>1. keep_stack = <<TRUE>> \/ keep_stack = <<>>
      BY DEF Init
    <3>2. <<TRUE>> \in Seq(BOOLEAN)
      OBVIOUS
    <3>. QED BY <3>1, <3>2, EmptySeq DEF Init, NoRef
  <2>. QED BY <1>2, <1>3, <2>1, <2>2 DEF Init, TypeOK, Places
<1>5. PlaceInv
  BY DEF Init, PlaceInv
<1>6. StackOK(heap, <<>>, <<>>, consumer)
  <2>1. <<>> \in Seq(Nat) /\ <<>> \in Seq(BOOLEAN) /\ Len(<<>>) = 0 /\ 1 .. 0 = {}
    BY EmptySeq
  <2>. QED BY <2>1 DEF StackOK
<1>7. Listener(<<>>)
  <2>1. keep_stack \in Seq(BOOLEAN) /\ (consumer = "callback" => Len(keep_stack) = 1)
    <3>1. CASE consumer = "callback"
      <4>1. keep_stack = <<TRUE>>
        BY <3>1 DEF Init
      <4>. QED BY <4>1
    <3>2. CASE consumer # "callback"
      <4>1. keep_stack = <<>>
        BY <3>2 DEF Init
      <4>. QED BY <4>1, <3>2, EmptySeq
    <3>. QED BY <3>1, <3>2
  <2>2. key_keep_stack \in Seq(BOOLEAN) /\ object_element \in Nat /\ ref_stack = <<>>
    BY EmptySeq DEF Init, NoRef
  <2>. QED BY <2>1, <2>2, <1>3, <1>6 DEF Listener
<1>8. Open = <<>> /\ ~MemberDue
  BY DEF Init, Open, MemberDue
<1>. QED BY <1>4, <1>5, <1>7, <1>8 DEF IInv, ListenerInv

(* The value of a token has no parts.                                       *)
LEMMA ScalarValue ==
  ASSUME TypeOK, NEW t \in Tokens, t.type \in (Scalars \ {"infinite_float"}) \cup {"value_string"}
  PROVE Scalar(t) \in ValueOver({})
<1>1. CASE t \in StringTokens
  <2>1. t.type = "value_string" /\ t.string \in Strings
    BY <1>1 DEF StringTokens
  <2>2. Scalar(t) = [type |-> "string", string |-> t.string]
    BY <2>1 DEF Scalar
  <2>3. Scalar(t) \in [type : {"string"}, string : Strings]
    BY <2>1, <2>2
  <2>. QED BY <2>3 DEF ValueOver
<1>2. CASE t \notin StringTokens
  <2>1. t.type # "value_string"
    <3>1. PICK k \in Scalars \cup {"begin_object", "end_object", "begin_array", "end_array",
                     "name_separator", "value_separator", "parse_error", "end_of_input"} : t = [type |-> k]
      BY <1>2 DEF Tokens
    <3>2. k # "value_string" /\ t.type = k
      BY <3>1, JsonParserAssumption
    <3>. QED BY <3>2
  <2>2. Scalar(t) = [type |-> t.type, at |-> Len(tokens) + 1]
    BY <2>1 DEF Scalar
  <2>3. Len(tokens) + 1 \in Nat /\ t.type \in Scalars
    BY <2>1, LenProperties DEF TypeOK
  <2>4. Scalar(t) \in [type : Scalars, at : Nat]
    BY <2>2, <2>3
  <2>. QED BY <2>4 DEF ValueOver
<1>. QED BY <1>1, <1>2

(* The history of the tokens.                                               *)
LEMMA TokensRead ==
  ASSUME TypeOK, NEW t \in Tokens, Read(t)
  PROVE tokens' \in Seq(Tokens)
BY AppendProperties DEF TypeOK, Read

(* The tokens that the parser asks for.                                     *)
LEMMA KnownTokens ==
  /\ \A k \in {"begin_object", "end_object", "begin_array", "end_array", "name_separator",
               "value_separator", "parse_error", "end_of_input"} : [type |-> k] \in Tokens
  /\ StringTokens \subseteq Tokens
BY DEF Tokens

(* The history of the answers.                                              *)
LEMMA Answered ==
  ASSUME TypeOK, NEW keep \in BOOLEAN, Answer(keep)
  PROVE answers' \in Seq(BOOLEAN)
BY AppendProperties DEF TypeOK, Answer

(* Every event is answered, and the acceptor builds nothing.                *)
LEMMA Heard ==
  ASSUME TypeOK, (\E v : OnValue(v)) \/ (\E v : OnStart(v)) \/ (\E k : OnKey(k)) \/ OnEndObject \/ OnEndArray
  PROVE answers' \in Seq(BOOLEAN) /\ (consumer = "acceptor" => UNCHANGED dom)
<1>1. \E keep \in BOOLEAN : Answer(keep)
  BY DEF OnValue, OnStart, OnKey, OnEndObject, OnEndArray
<1>2. consumer = "acceptor" => UNCHANGED dom
  BY DEF OnValue, OnStart, OnKey, OnEndObject, OnEndArray
<1>. QED BY <1>1, <1>2, Answered

-------------------------------------------------------------------------------
(* The types of what the listener keeps.                                    *)
LEMMA DomStays ==
  ASSUME TypeOK, NEW open, consumer = "acceptor" => UNCHANGED dom,
         consumer # "acceptor" => Listener(open)'
  PROVE DomOK'
<1>1. CASE consumer = "acceptor"
  BY <1>1 DEF TypeOK, DomOK, dom
<1>2. CASE consumer # "acceptor"
  BY <1>2 DEF Listener, StackOK, DomOK
<1>. QED BY <1>1, <1>2

(* A complete value: the parser is in what is around it.                    *)
LEMMA Completed ==
  ASSUME IInv, NEW outer \in Seq(BOOLEAN), Complete(outer), consumer' = consumer,
         consumer # "acceptor" => Listener(outer)'
  PROVE PlaceInv' /\ ListenerInv' /\ pc' \in Places /\ states' \in Seq(BOOLEAN) /\ outcome' = outcome
<1>1. states' = outer /\ outcome' = outcome
  BY DEF Complete
<1>2. \/ outer # <<>> /\ Last(outer) /\ pc' = "after element"
      \/ outer # <<>> /\ ~Last(outer) /\ pc' = "after member"
      \/ outer = <<>> /\ pc' = "end"
  BY DEF Complete
<1>3. PlaceInv'
  BY <1>1, <1>2 DEF PlaceInv
<1>4. Open' = outer /\ ~MemberDue'
  BY <1>1, <1>2 DEF Open, MemberDue
<1>5. ListenerInv'
  BY <1>4 DEF ListenerInv
<1>. QED BY <1>1, <1>2, <1>3, <1>5 DEF Places

(* Where a value may start, and that it has a place there.                  *)
LEMMA BeforeValueIs ==
  ASSUME IInv, BeforeValue
  PROVE /\ Open = states /\ Running
        /\ consumer # "acceptor" => Listener(states) /\ (states # <<>> /\ ~Last(states) => DueOK)
<1>1. Open = states /\ Running
  BY DEF BeforeValue, Open, Running
<1>2. states # <<>> /\ ~Last(states) => MemberDue
  BY DEF IInv, PlaceInv, BeforeValue, MemberDue
<1>. QED BY <1>1, <1>2 DEF IInv, ListenerInv

(* The actions, one by one.                                                 *)
LEMMA ReadValueStep == IInv /\ ReadValue => IInv'
<1>. SUFFICES ASSUME IInv, ReadValue PROVE IInv'
  OBVIOUS
<1>1. PICK t \in Tokens : /\ Read(t)
                          /\ t.type \in (Scalars \ {"infinite_float"}) \cup {"value_string"}
                          /\ OnValue(Scalar(t)) /\ Complete(states)
  BY DEF ReadValue
<1>2. BeforeValue /\ UNCHANGED parameters /\ TypeOK
  BY DEF ReadValue, IInv
<1>3. PICK v \in ValueOver({}) : v = Scalar(t)
  BY <1>1, <1>2, ScalarValue
<1>4. PICK open : open = states
  OBVIOUS
<1>5. consumer' = consumer
  BY <1>2 DEF parameters
<1>6. consumer # "acceptor" => Listener(open)'
  <2>1. OnValue(v)
    BY <1>1, <1>3
  <2>2. consumer # "acceptor" => Listener(open) /\ (open # <<>> /\ ~Last(open) => DueOK)
    BY <1>2, <1>4, BeforeValueIs
  <2>. QED BY <2>1, <2>2, <1>5, ValueHeard
<1>7. answers' \in Seq(BOOLEAN) /\ (consumer = "acceptor" => UNCHANGED dom)
  BY <1>1, <1>2, Heard
<1>8. PlaceInv' /\ ListenerInv' /\ pc' \in Places /\ states' \in Seq(BOOLEAN) /\ outcome' = outcome
  <2>1. open \in Seq(BOOLEAN) /\ Complete(open)
    BY <1>1, <1>2, <1>4 DEF TypeOK
  <2>. QED BY <2>1, <1>5, <1>6, Completed
<1>9. DomOK'
  BY <1>2, <1>6, <1>7, DomStays
<1>10. tokens' \in Seq(Tokens)
  BY <1>1, <1>2, TokensRead
<1>11. TypeOK'
  BY <1>2, <1>7, <1>8, <1>9, <1>10 DEF TypeOK, DomOK, parameters
<1>. QED BY <1>8, <1>11 DEF IInv

LEMMA StartObjectStep == IInv /\ StartObject => IInv'
<1>. SUFFICES ASSUME IInv, StartObject PROVE IInv'
  OBVIOUS
<1>1. /\ BeforeValue /\ UNCHANGED parameters /\ TypeOK /\ Read([type |-> "begin_object"])
      /\ OnStart(Object) /\ pc' = "first key" /\ states' = states /\ outcome' = outcome
  BY DEF StartObject, IInv, Goto
<1>2. PICK open : open = states
  OBVIOUS
<1>3. consumer' = consumer
  BY <1>1 DEF parameters
<1>4. consumer # "acceptor" => Listener(Append(open, FALSE))'
  <2>1. consumer # "acceptor" => Listener(open) /\ (open # <<>> /\ ~Last(open) => DueOK)
    BY <1>1, <1>2, BeforeValueIs
  <2>. QED BY <2>1, <1>1, <1>3, StartHeard, StartValues
<1>5. answers' \in Seq(BOOLEAN) /\ (consumer = "acceptor" => UNCHANGED dom)
  BY <1>1, Heard
<1>6. DomOK'
  BY <1>1, <1>4, <1>5, DomStays
<1>7. tokens' \in Seq(Tokens)
  BY <1>1, KnownTokens, TokensRead
<1>8. TypeOK'
  BY <1>1, <1>5, <1>6, <1>7 DEF TypeOK, DomOK, parameters, Places
<1>9. PlaceInv'
  BY <1>1 DEF PlaceInv
<1>10. Open' = Append(open, FALSE) /\ ~MemberDue'
  BY <1>1, <1>2 DEF Open, MemberDue
<1>11. ListenerInv'
  BY <1>3, <1>4, <1>10 DEF ListenerInv
<1>. QED BY <1>8, <1>9, <1>11 DEF IInv

LEMMA StartArrayStep == IInv /\ StartArray => IInv'
<1>. SUFFICES ASSUME IInv, StartArray PROVE IInv'
  OBVIOUS
<1>1. /\ BeforeValue /\ UNCHANGED parameters /\ TypeOK /\ Read([type |-> "begin_array"])
      /\ OnStart(Array) /\ pc' = "first element" /\ states' = Append(states, TRUE) /\ outcome' = outcome
  BY DEF StartArray, IInv
<1>2. PICK open : open = states
  OBVIOUS
<1>3. consumer' = consumer
  BY <1>1 DEF parameters
<1>4. consumer # "acceptor" => Listener(Append(open, TRUE))'
  <2>1. consumer # "acceptor" => Listener(open) /\ (open # <<>> /\ ~Last(open) => DueOK)
    BY <1>1, <1>2, BeforeValueIs
  <2>. QED BY <2>1, <1>1, <1>3, StartHeard, StartValues
<1>5. answers' \in Seq(BOOLEAN) /\ (consumer = "acceptor" => UNCHANGED dom)
  BY <1>1, Heard
<1>6. DomOK'
  BY <1>1, <1>4, <1>5, DomStays
<1>7. tokens' \in Seq(Tokens)
  BY <1>1, KnownTokens, TokensRead
<1>8. states' \in Seq(BOOLEAN) /\ states' # <<>> /\ Last(states')
  BY <1>1, AppendLast DEF TypeOK
<1>9. TypeOK'
  BY <1>1, <1>5, <1>6, <1>7, <1>8 DEF TypeOK, DomOK, parameters, Places
<1>10. PlaceInv'
  BY <1>1, <1>8 DEF PlaceInv
<1>11. Open' = Append(open, TRUE) /\ ~MemberDue'
  BY <1>1, <1>2 DEF Open, MemberDue
<1>12. ListenerInv'
  BY <1>3, <1>4, <1>11 DEF ListenerInv
<1>. QED BY <1>9, <1>10, <1>12 DEF IInv

LEMMA EndStep == IInv /\ (EndArray \/ EndObject) => IInv'
<1>. SUFFICES ASSUME IInv, EndArray \/ EndObject PROVE IInv'
  OBVIOUS
<1>1. /\ UNCHANGED parameters /\ TypeOK /\ (OnEndArray \/ OnEndObject)
      /\ \E t \in Tokens : Read(t)
      /\ pc \in {"first element", "after element", "first key", "after member"}
      /\ Complete(IF pc = "first key" THEN states ELSE Front(states))
  BY KnownTokens DEF EndArray, EndObject, IInv
<1>2. PICK open : open = Open
  OBVIOUS
<1>3. consumer' = consumer
  BY <1>1 DEF parameters
<1>4. /\ open \in Seq(BOOLEAN) /\ open # <<>> /\ Front(open) \in Seq(BOOLEAN)
      /\ Front(open) = IF pc = "first key" THEN states ELSE Front(states)
  <2>1. CASE pc = "first key"
    <3>1. open = Append(states, FALSE) /\ states \in Seq(BOOLEAN)
      BY <1>1, <1>2, <2>1 DEF Open, TypeOK
    <3>. QED BY <2>1, <3>1, AppendFalse
  <2>2. CASE pc # "first key"
    <3>1. open = states /\ states # <<>> /\ states \in Seq(BOOLEAN)
      BY <1>1, <1>2, <2>2 DEF Open, IInv, PlaceInv, TypeOK
    <3>. QED BY <2>2, <3>1, LastFront
  <2>. QED BY <2>1, <2>2
<1>5. consumer # "acceptor" => Listener(Front(open))'
  <2>1. consumer # "acceptor" => Listener(open)
    BY <1>1, <1>2 DEF IInv, ListenerInv, Running
  <2>. QED BY <2>1, <1>1, <1>3, <1>4, EndHeard
<1>6. answers' \in Seq(BOOLEAN) /\ (consumer = "acceptor" => UNCHANGED dom)
  BY <1>1, Heard
<1>7. PICK outer \in Seq(BOOLEAN) : outer = Front(open)
  BY <1>4
<1>8. PlaceInv' /\ ListenerInv' /\ pc' \in Places /\ states' \in Seq(BOOLEAN) /\ outcome' = outcome
  <2>1. Complete(outer) /\ (consumer # "acceptor" => Listener(outer)')
    BY <1>1, <1>4, <1>5, <1>7
  <2>. QED BY <2>1, <1>3, Completed
<1>9. DomOK'
  BY <1>1, <1>5, <1>6, DomStays
<1>10. tokens' \in Seq(Tokens)
  BY <1>1, TokensRead
<1>11. TypeOK'
  BY <1>1, <1>6, <1>8, <1>9, <1>10 DEF TypeOK, DomOK, parameters
<1>. QED BY <1>8, <1>11 DEF IInv

(* A step of the parser alone: the listener is not told.                    *)
LEMMA Untold ==
  ASSUME NEW open, Listener(open), consumer' = consumer, UNCHANGED dom
  PROVE Listener(open)' /\ (DueOK => DueOK')
BY DEF Listener, dom, DueOK, Top

LEMMA SeparatorStep == IInv /\ Separator => IInv'
<1>. SUFFICES ASSUME IInv, Separator PROVE IInv'
  OBVIOUS
<1>1. /\ pc \in {"after element", "after member"} /\ Read([type |-> "value_separator"])
      /\ pc' = (IF pc = "after element" THEN "value" ELSE "key")
      /\ states' = states /\ outcome' = outcome /\ Answer(TRUE) /\ UNCHANGED <<parameters, dom>> /\ TypeOK
  BY DEF Separator, Goto, IInv
<1>2. PICK open : open = states
  OBVIOUS
<1>3. tokens' \in Seq(Tokens) /\ answers' \in Seq(BOOLEAN)
  BY <1>1, KnownTokens, TokensRead, Answered
<1>4. TypeOK'
  BY <1>1, <1>3 DEF TypeOK, DomOK, parameters, Places, dom
<1>5. PlaceInv' /\ Open = open /\ Open' = open /\ ~MemberDue'
  BY <1>1, <1>2 DEF IInv, PlaceInv, Open, MemberDue
<1>6. consumer # "acceptor" => Listener(open)'
  BY <1>1, <1>5, Untold DEF IInv, ListenerInv, Running, parameters
<1>7. ListenerInv'
  BY <1>1, <1>5, <1>6 DEF ListenerInv, parameters
<1>. QED BY <1>4, <1>5, <1>7 DEF IInv

LEMMA ReadKeyStep == IInv /\ ReadKey => IInv'
<1>. SUFFICES ASSUME IInv, ReadKey PROVE IInv'
  OBVIOUS
<1>1. /\ pc \in {"first key", "key"} /\ UNCHANGED <<parameters, states, outcome>> /\ TypeOK
      /\ pc' = (IF pc = "first key" THEN "first separator" ELSE "separator")
  BY DEF ReadKey, IInv
<1>2. PICK k \in Strings : \E t \in StringTokens : Read(t) /\ OnKey(k)
  <2>1. PICK t \in StringTokens : Read(t) /\ OnKey(t.string)
    BY DEF ReadKey
  <2>2. t.string \in Strings
    BY DEF StringTokens
  <2>. QED BY <2>1, <2>2
<1>3. PICK open : open = Open
  OBVIOUS
<1>4. open # <<>> /\ ~Last(open)
  <2>1. CASE pc = "first key"
    BY <1>1, <1>3, <2>1, AppendLast, ZenonT(60) DEF Open, TypeOK
  <2>2. CASE pc = "key"
    BY <1>3, <2>2 DEF Open, IInv, PlaceInv
  <2>. QED BY <1>1, <2>1, <2>2
<1>5. Open' = open
  BY <1>1, <1>3 DEF Open
<1>6. consumer # "acceptor" => Listener(open)' /\ DueOK'
  <2>1. consumer # "acceptor" => Listener(open)
    BY <1>1, <1>3 DEF IInv, ListenerInv, Running
  <2>2. OnKey(k) /\ consumer' = consumer
    BY <1>1, <1>2 DEF parameters
  <2>. QED BY <2>1, <2>2, <1>4, KeyHeard
<1>7. answers' \in Seq(BOOLEAN) /\ (consumer = "acceptor" => UNCHANGED dom)
  BY <1>1, <1>2, Heard
<1>8. DomOK'
  BY <1>1, <1>6, <1>7, DomStays
<1>9. tokens' \in Seq(Tokens)
  BY <1>1, <1>2, KnownTokens, TokensRead
<1>10. TypeOK'
  BY <1>1, <1>7, <1>8, <1>9 DEF TypeOK, DomOK, parameters, Places
<1>11. PlaceInv'
  BY <1>1 DEF IInv, PlaceInv
<1>12. ListenerInv'
  BY <1>1, <1>5, <1>6 DEF ListenerInv, parameters
<1>. QED BY <1>10, <1>11, <1>12 DEF IInv

LEMMA NameSeparatorStep == IInv /\ NameSeparator => IInv'
<1>. SUFFICES ASSUME IInv, NameSeparator PROVE IInv'
  OBVIOUS
<1>1. /\ pc \in {"first separator", "separator"} /\ Read([type |-> "name_separator"])
      /\ states' = (IF pc = "first separator" THEN Append(states, FALSE) ELSE states)
      /\ pc' = "value" /\ outcome' = outcome /\ Answer(TRUE) /\ UNCHANGED <<parameters, dom>> /\ TypeOK
  BY DEF NameSeparator, IInv
<1>2. PICK open : open = Open
  OBVIOUS
<1>3. Open' = open /\ states' = open /\ MemberDue
  BY <1>1, <1>2 DEF Open, MemberDue
<1>4. tokens' \in Seq(Tokens) /\ answers' \in Seq(BOOLEAN)
  BY <1>1, KnownTokens, TokensRead, Answered
<1>5. states' \in Seq(BOOLEAN)
  BY <1>1, AppendLast DEF TypeOK
<1>6. TypeOK'
  BY <1>1, <1>4, <1>5 DEF TypeOK, DomOK, parameters, Places, dom
<1>7. PlaceInv'
  BY <1>1 DEF PlaceInv
<1>8. consumer # "acceptor" => Listener(open)' /\ DueOK'
  BY <1>1, <1>2, <1>3, Untold DEF IInv, ListenerInv, Running, parameters
<1>9. ListenerInv'
  BY <1>1, <1>3, <1>8 DEF ListenerInv, parameters
<1>. QED BY <1>6, <1>7, <1>9 DEF IInv

LEMMA StopStep == IInv /\ (Unexpected \/ Finish \/ FinishErrored) => IInv'
<1>. SUFFICES ASSUME IInv, Unexpected \/ Finish \/ FinishErrored PROVE IInv'
  OBVIOUS
<1>1. UNCHANGED <<parameters, states>> /\ TypeOK
  BY DEF Unexpected, Finish, FinishErrored, Fail, IInv
<1>2. pc' \in {"done", "errored end"}
  BY DEF Unexpected, Finish, FinishErrored, Fail
<1>3. outcome' \in {"none", "true", "false", "thrown"}
  BY <1>1 DEF Unexpected, Finish, FinishErrored, Fail, TypeOK
<1>4. tokens' \in Seq(Tokens)
  <2>1. (\E t \in Tokens : Read(t)) \/ tokens' = tokens
    BY KnownTokens DEF Unexpected, Finish, FinishErrored, End
  <2>. QED BY <2>1, <1>1, TokensRead DEF TypeOK
<1>5. answers' \in Seq(BOOLEAN)
  <2>1. Answer(TRUE) \/ answers' = answers
    BY DEF Unexpected, Finish, FinishErrored, Fail
  <2>. QED BY <2>1, <1>1, Answered DEF TypeOK
<1>6. heap' = heap \/ \E v \in ValueOver({}) : heap' = [heap EXCEPT ![1] = v]
  BY StartValues DEF Unexpected, Finish, FinishErrored, Fail, Undiscarded
<1>7. HeapOK(heap')
  <2>1. HeapOK(heap) /\ 1 \in 1 .. Len(heap)
    BY <1>1, HeapIs DEF TypeOK
  <2>2. \A v \in ValueOver({}) : HeapOK([heap EXCEPT ![1] = v])
    BY <2>1, PutLeaf
  <2>. QED BY <1>6, <2>1, <2>2, Zenon
<1>8. TypeOK'
  <2>1. UNCHANGED <<ref_stack, object_element, keep_stack, key_keep_stack>>
    BY DEF Unexpected, Finish, FinishErrored, Fail
  <2>. QED BY <2>1, <1>1, <1>2, <1>3, <1>4, <1>5, <1>7 DEF TypeOK, DomOK, parameters, Places
<1>9. PlaceInv' /\ ListenerInv'
  BY <1>2 DEF PlaceInv, ListenerInv, Running
<1>. QED BY <1>8, <1>9 DEF IInv

(* Nothing happens.                                                         *)
LEMMA StutterStep == IInv /\ UNCHANGED vars => IInv'
<1>. SUFFICES ASSUME IInv, UNCHANGED vars PROVE IInv'
  OBVIOUS
<1>. USE DEF vars, dom, parameters
<1>1. TypeOK' /\ PlaceInv'
  BY DEF IInv, TypeOK, PlaceInv
<1>2. PICK open : open = Open
  OBVIOUS
<1>3. Open' = open /\ MemberDue' = MemberDue
  BY <1>2 DEF Open, MemberDue
<1>4. Listener(open) => Listener(open)' /\ (DueOK => DueOK')
  BY Untold
<1>5. ListenerInv'
  BY <1>2, <1>3, <1>4 DEF IInv, ListenerInv, Running
<1>. QED BY <1>1, <1>5 DEF IInv

(* All three facts together.                                                *)
LEMMA Invariance == Spec => []IInv
<1>1. IInv /\ [Next]_vars => IInv'
  BY ReadValueStep, StartObjectStep, StartArrayStep, EndStep, SeparatorStep, ReadKeyStep,
     NameSeparatorStep, StopStep, StutterStep DEF Next
<1>. QED BY InitIInv, <1>1, PTL DEF Spec

(* Whatever comes in and whatever the callback answers, the variables have  *)
(* their types, every pointer is to a value of the heap, and no value is a  *)
(* part of itself: the result is a tree that can be walked to its leaves    *)
(* (json.hpp:5956-6530, 10883-11330).                                       *)
THEOREM TypeCorrect == Spec => []TypeOK
<1>1. IInv => TypeOK
  BY DEF IInv
<1>. QED BY <1>1, Invariance, PTL

(* The open containers are a path from the result to the one that is        *)
(* filled, none of them erased or dropped below another that is kept        *)
(* (json.hpp:6248-6280, 6302-6330).                                         *)
THEOREM OpenNested == Spec => []OpenIsPath
<1>1. ASSUME IInv PROVE OpenIsPath
  <2>. SUFFICES ASSUME consumer # "acceptor", Running, NEW n \in DOMAIN ref_stack, ref_stack[n] # NoRef
                PROVE IF n = 1 THEN ref_stack[n] = 1
                      ELSE ref_stack[n - 1] # NoRef /\ ref_stack[n] \in Parts(heap[ref_stack[n - 1]])
    BY DEF OpenIsPath, Running
  <2>1. StackOK(heap, ref_stack, Open, consumer)
    BY <1>1 DEF IInv, ListenerInv, Listener
  <2>2. DOMAIN ref_stack = 1 .. Len(ref_stack) /\ Len(ref_stack) \in Nat
    BY <2>1, LenProperties DEF StackOK
  <2>3. IF n = 1 THEN ref_stack[n] = 1 ELSE ref_stack[n] \in Parts(heap[ref_stack[n - 1]])
    BY <2>1, <2>2 DEF StackOK
  <2>4. n # 1 => n - 1 \in 1 .. Len(ref_stack) /\ n - 1 < n
    BY <2>2
  <2>5. n # 1 => ref_stack[n - 1] # NoRef
    BY <2>1, <2>2, <2>4 DEF StackOK
  <2>. QED BY <2>3, <2>5
<1>. QED BY <1>1, Invariance, PTL

(* The assertions of the parser and of its two listeners never fail: one    *)
(* reference for each open container, of the kind the parser believes it to *)
(* be, and a place for every member that is due (json.hpp:6119-6128, 6264-  *)
(* 6265, 6320-6321, 6371-6427, 11217, 11271).                               *)
THEOREM AssertionsHold == Spec => []StacksAgree
<1>1. ASSUME IInv PROVE StacksAgree
  <2>. SUFFICES ASSUME consumer # "acceptor", Running PROVE
         /\ Len(ref_stack) = Len(Open)
         /\ \A n \in DOMAIN ref_stack :
              \/ /\ ref_stack[n] \in DOMAIN heap
                 /\ heap[ref_stack[n]].type = IF Open[n] THEN "array" ELSE "object"
              \/ ref_stack[n] = NoRef /\ consumer = "callback"
         /\ consumer = "callback" => Len(keep_stack) = Len(ref_stack) + 1
         /\ MemberDue =>
              /\ consumer = "callback" => key_keep_stack # <<>>
              /\ consumer = "dom" \/ (Top # NoRef /\ Last(key_keep_stack)) =>
                   \E k \in DOMAIN heap[Top].members : heap[Top].members[k] = object_element
    BY DEF StacksAgree, Running
  <2>1. Listener(Open) /\ (MemberDue => DueOK)
    BY <1>1 DEF IInv, ListenerInv
  <2>2. StackOK(heap, ref_stack, Open, consumer) /\ HeapOK(heap)
    BY <2>1 DEF Listener
  <2>3. DOMAIN ref_stack = 1 .. Len(ref_stack) /\ DOMAIN heap = 1 .. Len(heap)
    BY <2>2, LenProperties, HeapIs DEF StackOK
  <2>4. \A n \in DOMAIN ref_stack : Holds(heap, ref_stack[n], Kind(Open[n]), consumer)
    BY <2>2, <2>3 DEF StackOK
  <2>5. ASSUME MemberDue, consumer = "dom" \/ (Top # NoRef /\ Last(key_keep_stack))
        PROVE \E k \in DOMAIN heap[Top].members : heap[Top].members[k] = object_element
    <3>1. object_element \in Parts(heap[Top])
      BY <2>1, <2>5 DEF DueOK
    <3>2. ref_stack # <<>> /\ ~Last(Open)
      <4>1. states \in Seq(BOOLEAN) /\ Open \in Seq(BOOLEAN) /\ ref_stack \in Seq(Nat)
        BY <1>1, <2>2 DEF IInv, TypeOK, StackOK
      <4>2. Open # <<>> /\ ~Last(Open)
        <5>1. CASE pc = "first separator"
          <6>1. Open = Append(states, FALSE)
            BY <5>1 DEF Open
          <6>2. Append(states, FALSE) # <<>> /\ Last(Append(states, FALSE)) = FALSE
            BY <4>1, AppendFalse
          <6>. QED BY <6>1, <6>2
        <5>2. CASE pc # "first separator"
          BY <5>2, <1>1, <2>5 DEF Open, MemberDue, IInv, PlaceInv
        <5>. QED BY <5>1, <5>2
      <4>3. Len(ref_stack) = Len(Open)
        BY <2>2 DEF StackOK
      <4>. QED BY <4>1, <4>2, <4>3, EmptySeq
    <3>3. Holds(heap, Top, "object", consumer)
      BY <2>2, <3>2, TopIs DEF Kind, Top
    <3>4. heap[Top].type = "object"
      BY <3>3, <2>5, <1>1 DEF Holds, IInv, TypeOK
    <3>. QED BY <3>1, <3>4 DEF Parts, Range
  <2>. QED BY <2>1, <2>2, <2>3, <2>4, <2>5 DEF StackOK, Holds, Kind, Listener, DueOK
<1>. QED BY <1>1, Invariance, PTL

-------------------------------------------------------------------------------
(* Which sequences of tokens are documents: the equations of After().       *)

TypeNames ==
  Simple \cup {"infinite_float", "begin_object", "end_object", "begin_array", "end_array",
              "name_separator", "value_separator", "parse_error", "end_of_input"}
Kinds == {"value", "elements", "members"}

(* A place of s, one behind its end included.                               *)
Spots(s) == 1 .. Len(s) + 1

(* What After(s) gives at one place, by what f gives at later ones.         *)
Rest(f, s, m, end, list) ==
  IF m # 0 /\ Type(s, m) = end THEN m + 1
  ELSE IF m # 0 /\ Type(s, m) = "value_separator" THEN f[<<list, m + 1>>]
  ELSE 0
Step(f, s, k, n) ==
  CASE k = "value" /\ Type(s, n) \in Simple -> n + 1
    [] k = "value" /\ Type(s, n) = "begin_array" ->
         IF Type(s, n + 1) = "end_array" THEN n + 2 ELSE f[<<"elements", n + 1>>]
    [] k = "value" /\ Type(s, n) = "begin_object" ->
         IF Type(s, n + 1) = "end_object" THEN n + 2 ELSE f[<<"members", n + 1>>]
    [] k = "elements" -> Rest(f, s, f[<<"value", n>>], "end_array", "elements")
    [] k = "members" /\ Type(s, n) = "value_string" /\ Type(s, n + 1) = "name_separator" ->
         Rest(f, s, f[<<"value", n + 2>>], "end_object", "members")
    [] OTHER -> 0
Solves(f, s) == f = [x \in Kinds \X Spots(s) |-> Step(f, s, x[1], x[2])]

(* A part that starts at n ends after n.                                    *)
Within(s, n, m) == m = 0 \/ m \in n + 1 .. Len(s) + 1
(* f and g give the same from place n on, and parts that end.               *)
Agree(f, g, s, n) ==
  \A k \in Kinds, i \in Spots(s) : n <= i => f[<<k, i>>] = g[<<k, i>>] /\ Within(s, i, f[<<k, i>>])

(* Sums, for the prover.                                                    *)
LEMMA Sums ==
  ASSUME NEW k \in Nat
  PROVE  k + 0 = k /\ k + 1 + 1 = k + 2 /\ k + 1 + 2 = k + 3 /\ (k + 1) - 1 = k /\ k + 1 # 0
OBVIOUS

(* A type that is not "nothing" is one of a token.                          *)
LEMMA TypeAt ==
  ASSUME NEW s \in Seq(TypeNames), NEW n, Type(s, n) # "nothing"
  PROVE  n \in 1 .. Len(s) /\ Type(s, n) = s[n]
<1>1. DOMAIN s = 1 .. Len(s)
  BY LenProperties
<1>. QED BY <1>1 DEF Type

LEMMA RestIs ==
  ASSUME NEW s \in Seq(TypeNames), NEW n \in Nat \ {0}, NEW f, NEW g, NEW m, NEW end, end # "nothing",
         NEW list \in Kinds, Agree(f, g, s, n + 1), Within(s, n, m)
  PROVE  Rest(f, s, m, end, list) = Rest(g, s, m, end, list) /\ Within(s, n, Rest(f, s, m, end, list))
<1>1. Len(s) \in Nat
  BY LenProperties
<1>2. CASE m = 0
  BY <1>2 DEF Rest, Within
<1>3. CASE m # 0
  <2>1. m \in n + 1 .. Len(s) + 1
    BY <1>3 DEF Within
  <2>2. CASE Type(s, m) = end
    <3>1. m \in 1 .. Len(s)
      BY <2>2, TypeAt
    <3>2. m + 1 \in n + 1 .. Len(s) + 1
      BY <1>1, <2>1, <3>1
    <3>. QED BY <1>3, <2>2, <3>2 DEF Rest, Within
  <2>3. CASE Type(s, m) # end /\ Type(s, m) = "value_separator"
    <3>1. m \in 1 .. Len(s)
      BY <2>3, TypeAt
    <3>2. m + 1 \in Spots(s) /\ n + 1 <= m + 1
      BY <1>1, <2>1, <3>1 DEF Spots
    <3>3. f[<<list, m + 1>>] = g[<<list, m + 1>>] /\ Within(s, m + 1, f[<<list, m + 1>>])
      BY <3>2 DEF Agree
    <3>4. ASSUME NEW j, Within(s, m + 1, j) PROVE Within(s, n, j)
      BY <1>1, <2>1, <3>1, <3>4 DEF Within
    <3>. QED BY <1>3, <2>3, <3>3, <3>4 DEF Rest
  <2>4. CASE Type(s, m) # end /\ Type(s, m) # "value_separator"
    BY <2>4 DEF Rest, Within
  <2>. QED BY <2>2, <2>3, <2>4
<1>. QED BY <1>2, <1>3

(* What is given at a place needs only what is given at later ones, but for *)
(* a list that starts with a value there.                                   *)
LEMMA StepIs ==
  ASSUME NEW s \in Seq(TypeNames), NEW n \in Spots(s), NEW f, NEW g, NEW k \in Kinds,
         Agree(f, g, s, n + 1),
         k = "elements" => f[<<"value", n>>] = g[<<"value", n>>] /\ Within(s, n, f[<<"value", n>>])
  PROVE  Step(f, s, k, n) = Step(g, s, k, n) /\ Within(s, n, Step(f, s, k, n))
<1>1. Len(s) \in Nat /\ n \in Nat \ {0} /\ n \in 1 .. Len(s) + 1
  BY LenProperties DEF Spots
<1>2. \A j : Type(s, j) # "nothing" => j \in 1 .. Len(s)
  BY TypeAt
<1>3. CASE k = "value"
  <2>1. CASE Type(s, n) \in Simple
    <3>1. n + 1 \in n + 1 .. Len(s) + 1
      BY <1>1, <1>2, <2>1 DEF Simple
    <3>. QED BY <1>3, <2>1, <3>1 DEF Step, Within, Simple
  <2>2. CASE Type(s, n) = "begin_array"
    <3>1. n + 1 \in Spots(s) /\ n + 1 <= n + 1 /\ Type(s, n) \notin Simple
      BY <1>1, <1>2, <2>2 DEF Spots, Simple
    <3>2. f[<<"elements", n + 1>>] = g[<<"elements", n + 1>>] /\ Within(s, n + 1, f[<<"elements", n + 1>>])
      BY <3>1 DEF Agree, Kinds
    <3>3. ASSUME NEW j, Within(s, n + 1, j) PROVE Within(s, n, j)
      BY <1>1, <3>3 DEF Within
    <3>4. Type(s, n + 1) = "end_array" => Within(s, n, n + 2)
      BY <1>1, <1>2 DEF Within
    <3>. QED BY <1>3, <2>2, <3>1, <3>2, <3>3, <3>4 DEF Step
  <2>3. CASE Type(s, n) = "begin_object"
    <3>1. n + 1 \in Spots(s) /\ n + 1 <= n + 1 /\ Type(s, n) \notin Simple
      BY <1>1, <1>2, <2>3 DEF Spots, Simple
    <3>2. f[<<"members", n + 1>>] = g[<<"members", n + 1>>] /\ Within(s, n + 1, f[<<"members", n + 1>>])
      BY <3>1 DEF Agree, Kinds
    <3>3. ASSUME NEW j, Within(s, n + 1, j) PROVE Within(s, n, j)
      BY <1>1, <3>3 DEF Within
    <3>4. Type(s, n + 1) = "end_object" => Within(s, n, n + 2)
      BY <1>1, <1>2 DEF Within
    <3>. QED BY <1>3, <2>3, <3>1, <3>2, <3>3, <3>4 DEF Step
  <2>4. CASE Type(s, n) \notin Simple \cup {"begin_array", "begin_object"}
    BY <1>3, <2>4 DEF Step, Within
  <2>. QED BY <2>1, <2>2, <2>3, <2>4
<1>4. CASE k = "elements"
  <2>1. /\ Step(f, s, k, n) = Rest(f, s, f[<<"value", n>>], "end_array", "elements")
        /\ Step(g, s, k, n) = Rest(g, s, g[<<"value", n>>], "end_array", "elements")
    BY <1>4 DEF Step
  <2>2. "end_array" # "nothing" /\ "elements" \in Kinds
    BY DEF Kinds
  <2>. QED BY <1>1, <1>4, <2>1, <2>2, RestIs
<1>5. CASE k = "members"
  <2>1. CASE Type(s, n) = "value_string" /\ Type(s, n + 1) = "name_separator"
    <3>1. n + 2 \in Spots(s) /\ n + 1 <= n + 2
      BY <1>1, <1>2, <2>1 DEF Spots
    <3>2. f[<<"value", n + 2>>] = g[<<"value", n + 2>>] /\ Within(s, n + 2, f[<<"value", n + 2>>])
      BY <3>1 DEF Agree, Kinds
    <3>3. ASSUME NEW j, Within(s, n + 2, j) PROVE Within(s, n, j)
      BY <1>1, <3>3 DEF Within
    <3>4. /\ Step(f, s, k, n) = Rest(f, s, f[<<"value", n + 2>>], "end_object", "members")
          /\ Step(g, s, k, n) = Rest(g, s, g[<<"value", n + 2>>], "end_object", "members")
      BY <1>5, <2>1 DEF Step
    <3>5. "end_object" # "nothing" /\ "members" \in Kinds
      BY DEF Kinds
    <3>. QED BY <1>1, <3>2, <3>3, <3>4, <3>5, RestIs
  <2>2. CASE ~(Type(s, n) = "value_string" /\ Type(s, n + 1) = "name_separator")
    BY <1>5, <2>2 DEF Step, Within
  <2>. QED BY <2>1, <2>2
<1>. QED BY <1>3, <1>4, <1>5 DEF Kinds

(* A solution for the places from n on.                                     *)
Partly(f, s, n) ==
  \A k \in Kinds, i \in Spots(s) :
    n <= i => f[<<k, i>>] = Step(f, s, k, i) /\ Within(s, i, f[<<k, i>>])

(* One place more.                                                          *)
LEMMA OneMore ==
  ASSUME NEW s \in Seq(TypeNames), NEW n \in Spots(s), NEW f, Partly(f, s, n + 1)
  PROVE  \E g : Partly(g, s, n)
<1>1. Len(s) \in Nat /\ n \in Nat \ {0} /\ n \in 1 .. Len(s) + 1
  BY LenProperties DEF Spots
<1>. DEFINE D == Kinds \X Spots(s)
            With(h, k, v) == [x \in D |-> IF x = <<k, n>> THEN v ELSE h[x]]
            g1 == With(f, "value", Step(f, s, "value", n))
            g2 == With(g1, "elements", Step(g1, s, "elements", n))
            g3 == With(g2, "members", Step(g2, s, "members", n))
<1>2. \A h, v : \A k \in Kinds, l \in Kinds, i \in Spots(s) :
        With(h, k, v)[<<l, i>>] = IF l = k /\ i = n THEN v ELSE h[<<l, i>>]
  OBVIOUS
<1>3. {"value", "elements", "members"} = Kinds /\ "value" # "elements" /\ "value" # "members" /\ "elements" # "members"
  BY DEF Kinds
<1>. HIDE DEF With, D
<1>4. /\ g1[<<"value", n>>] = Step(f, s, "value", n)
      /\ g2[<<"value", n>>] = Step(f, s, "value", n)
      /\ g3[<<"value", n>>] = Step(f, s, "value", n)
      /\ g2[<<"elements", n>>] = Step(g1, s, "elements", n)
      /\ g3[<<"elements", n>>] = Step(g1, s, "elements", n)
      /\ g3[<<"members", n>>] = Step(g2, s, "members", n)
  <2>1. g1[<<"value", n>>] = Step(f, s, "value", n)
    BY <1>2, <1>3
  <2>2. g2[<<"value", n>>] = g1[<<"value", n>>] /\ g2[<<"elements", n>>] = Step(g1, s, "elements", n)
    BY <1>2, <1>3
  <2>3. /\ g3[<<"value", n>>] = g2[<<"value", n>>] /\ g3[<<"elements", n>>] = g2[<<"elements", n>>]
        /\ g3[<<"members", n>>] = Step(g2, s, "members", n)
    BY <1>2, <1>3
  <2>. QED BY <2>1, <2>2, <2>3
<1>5. ASSUME NEW k \in Kinds, NEW i \in Spots(s), n + 1 <= i
      PROVE g1[<<k, i>>] = f[<<k, i>>] /\ g2[<<k, i>>] = f[<<k, i>>] /\ g3[<<k, i>>] = f[<<k, i>>]
  <2>1. i # n
    BY <1>1, <1>5 DEF Spots
  <2>2. g1[<<k, i>>] = f[<<k, i>>]
    BY <1>2, <1>3, <2>1
  <2>3. g2[<<k, i>>] = g1[<<k, i>>]
    BY <1>2, <1>3, <2>1
  <2>4. g3[<<k, i>>] = g2[<<k, i>>]
    BY <1>2, <1>3, <2>1
  <2>. QED BY <2>2, <2>3, <2>4
<1>. HIDE DEF g1, g2, g3
<1>6. Agree(f, g1, s, n + 1) /\ Agree(f, g2, s, n + 1) /\ Agree(f, g3, s, n + 1)
  BY <1>5 DEF Agree, Partly
<1>7. Agree(g1, g3, s, n + 1) /\ Agree(g2, g3, s, n + 1)
  BY <1>5, <1>6 DEF Agree
<1>8. ASSUME NEW k \in Kinds, NEW i \in Spots(s), n <= i
      PROVE  g3[<<k, i>>] = Step(g3, s, k, i) /\ Within(s, i, g3[<<k, i>>])
  <2>1. CASE i = n /\ k = "value"
    <3>0. k # "elements"
      BY <1>3, <2>1
    <3>1. Step(f, s, k, n) = Step(g3, s, k, n) /\ Within(s, n, Step(f, s, k, n))
      BY <1>6, <3>0, StepIs
    <3>. QED BY <1>4, <2>1, <3>1
  <2>2. CASE i = n /\ k = "elements"
    <3>1. Within(s, n, Step(f, s, "value", n))
      BY <1>3, <1>6, StepIs
    <3>2. g1[<<"value", n>>] = g3[<<"value", n>>] /\ Within(s, n, g1[<<"value", n>>])
      BY <1>4, <3>1
    <3>3. Step(g1, s, k, n) = Step(g3, s, k, n) /\ Within(s, n, Step(g1, s, k, n))
      BY <1>7, <3>2, StepIs
    <3>. QED BY <1>4, <2>2, <3>3
  <2>3. CASE i = n /\ k = "members"
    <3>0. k # "elements"
      BY <1>3, <2>3
    <3>1. Step(g2, s, k, n) = Step(g3, s, k, n) /\ Within(s, n, Step(g2, s, k, n))
      BY <1>7, <3>0, StepIs
    <3>. QED BY <1>4, <2>3, <3>1
  <2>4. CASE i # n
    <3>1. n + 1 <= i /\ i \in Nat
      BY <1>1, <1>8, <2>4 DEF Spots
    <3>2. g3[<<k, i>>] = f[<<k, i>>] /\ f[<<k, i>>] = Step(f, s, k, i) /\ Within(s, i, f[<<k, i>>])
      BY <1>5, <3>1 DEF Partly
    <3>3. Agree(f, g3, s, i + 1)
      BY <1>1, <1>6, <3>1 DEF Agree, Spots
    <3>4. f[<<"value", i>>] = g3[<<"value", i>>] /\ Within(s, i, f[<<"value", i>>])
      BY <1>3, <1>5, <3>1 DEF Partly
    <3>5. Step(f, s, k, i) = Step(g3, s, k, i)
      BY <3>3, <3>4, StepIs
    <3>. QED BY <3>2, <3>5
  <2>. QED BY <1>3, <2>1, <2>2, <2>3, <2>4
<1>9. Partly(g3, s, n)
  BY <1>8 DEF Partly
<1>. QED BY <1>9

(* There is a solution.                                                     *)
LEMMA Solvable ==
  ASSUME NEW s \in Seq(TypeNames)
  PROVE  \E f : Solves(f, s)
<1>1. Len(s) \in Nat
  BY LenProperties
<1>. DEFINE T == {n \in Nat : n <= Len(s) + 1 /\ ~\E f : Partly(f, s, Len(s) + 2 - n)}
<1>a. \A n : n \in T <=> n \in Nat /\ n <= Len(s) + 1 /\ ~\E f : Partly(f, s, Len(s) + 2 - n)
  OBVIOUS
<1>. HIDE DEF T
<1>2. T = {}
  <2>. SUFFICES ASSUME T # {} PROVE FALSE
    OBVIOUS
  <2>1. PICK n \in T : \A m \in T : n <= m
    <3>1. T \subseteq Nat
      BY <1>a
    <3>. QED BY <3>1, Least
  <2>2. n # 0
    <3>1. \A f : Partly(f, s, Len(s) + 2 - 0)
      BY <1>1 DEF Partly, Spots
    <3>. QED BY <1>a, <2>1, <3>1
  <2>a. n \in Nat /\ n <= Len(s) + 1
    BY <1>a
  <2>b. n - 1 \in Nat /\ n - 1 <= Len(s) + 1 /\ ~(n <= n - 1)
    BY <1>1, <2>2, <2>a
  <2>3. n \in Nat /\ n - 1 \in Nat /\ n - 1 <= Len(s) + 1 /\ n - 1 \notin T
    BY <2>1, <2>a, <2>b
  <2>4. PICK f : Partly(f, s, Len(s) + 2 - (n - 1))
    BY <1>a, <2>3
  <2>5. Len(s) + 2 - (n - 1) = (Len(s) + 2 - n) + 1 /\ Len(s) + 2 - n \in Spots(s)
    BY <1>1, <2>a, <2>b DEF Spots
  <2>6. \E g : Partly(g, s, Len(s) + 2 - n)
    BY <2>4, <2>5, OneMore
  <2>. QED BY <1>a, <2>1, <2>6
<1>3. PICK f : Partly(f, s, 1)
  <2>1. Len(s) + 1 \in Nat /\ Len(s) + 2 - (Len(s) + 1) = 1 /\ Len(s) + 1 <= Len(s) + 1
    BY <1>1
  <2>. QED BY <1>2, <1>a, <2>1
<1>. DEFINE g == [x \in Kinds \X Spots(s) |-> f[x]]
<1>4. \A k \in Kinds, i \in Spots(s) : g[<<k, i>>] = f[<<k, i>>]
  OBVIOUS
<1>5. \A x \in Kinds \X Spots(s) : x[1] \in Kinds /\ x[2] \in Spots(s) /\ x = <<x[1], x[2]>>
  OBVIOUS
<1>. HIDE DEF g
<1>6. ASSUME NEW k \in Kinds, NEW i \in Spots(s) PROVE g[<<k, i>>] = Step(g, s, k, i)
  <2>1. Agree(f, g, s, i + 1)
    BY <1>3, <1>4 DEF Agree, Partly, Spots
  <2>2. f[<<"value", i>>] = g[<<"value", i>>] /\ Within(s, i, f[<<"value", i>>])
    BY <1>3, <1>4 DEF Partly, Spots, Kinds
  <2>3. Step(f, s, k, i) = Step(g, s, k, i)
    BY <2>1, <2>2, StepIs
  <2>4. f[<<k, i>>] = Step(f, s, k, i)
    BY <1>3 DEF Partly, Spots
  <2>. QED BY <1>4, <2>3, <2>4
<1>7. g = [x \in Kinds \X Spots(s) |-> Step(g, s, x[1], x[2])]
  <2>1. \A x \in Kinds \X Spots(s) : g[x] = Step(g, s, x[1], x[2])
    BY <1>5, <1>6
  <2>2. g = [x \in Kinds \X Spots(s) |-> g[x]]
    BY DEF g
  <2>. QED BY <2>1, <2>2
<1>. QED BY <1>7 DEF Solves

(* What After() gives at a place is by the grammar.                         *)
LEMMA AfterIs ==
  ASSUME NEW s \in Seq(TypeNames), NEW k \in Kinds, NEW n \in Spots(s)
  PROVE  After(s)[<<k, n>>] = Step(After(s), s, k, n)
<1>1. After(s) = CHOOSE f : f = [x \in Kinds \X Spots(s) |-> Step(f, s, x[1], x[2])]
  BY DEF After, Step, Rest, Kinds, Spots
<1>2. After(s) = CHOOSE f : Solves(f, s)
  BY <1>1 DEF Solves
<1>3. Solves(CHOOSE f : Solves(f, s), s)
  BY Solvable, Zenon
<1>4. Solves(After(s), s)
  BY <1>2, <1>3
<1>5. <<k, n>> \in Kinds \X Spots(s) /\ <<k, n>>[1] = k /\ <<k, n>>[2] = n
  OBVIOUS
<1>. QED BY <1>4, <1>5 DEF Solves

(* The equations, place by place: a value, a list of members, and the rest  *)
(* of a list - of elements or of members - after one of its values.         *)
ValueAt(s, n)   == After(s)[<<"value", n>>]
MembersAt(s, n) == After(s)[<<"members", n>>]
Closer(array) == IF array THEN "end_array" ELSE "end_object"
Closed(array, s, m) == Rest(After(s), s, m, Closer(array), IF array THEN "elements" ELSE "members")

LEMMA ValueIs ==
  ASSUME NEW s \in Seq(TypeNames), NEW n \in Spots(s)
  PROVE  /\ Type(s, n) \in Simple => ValueAt(s, n) = n + 1
         /\ Type(s, n) = "begin_array" =>
              /\ n + 1 \in Spots(s)
              /\ ValueAt(s, n) = IF Type(s, n + 1) = "end_array" THEN n + 2
                                 ELSE Closed(TRUE, s, ValueAt(s, n + 1))
         /\ Type(s, n) = "begin_object" =>
              /\ n + 1 \in Spots(s)
              /\ ValueAt(s, n) = IF Type(s, n + 1) = "end_object" THEN n + 2 ELSE MembersAt(s, n + 1)
         /\ Type(s, n) \notin Simple \cup {"begin_array", "begin_object"} => ValueAt(s, n) = 0
<1>1. ValueAt(s, n) = Step(After(s), s, "value", n)
  BY AfterIs DEF ValueAt, Kinds
<1>2. n \in 1 .. Len(s) => n + 1 \in Spots(s)
  <2>1. Len(s) \in Nat
    BY LenProperties
  <2>. QED BY <2>1 DEF Spots
<1>3. Type(s, n) \in {"begin_array", "begin_object"} => n + 1 \in Spots(s)
  BY <1>2, TypeAt
<1>4. Type(s, n) \in Simple => ValueAt(s, n) = n + 1
  BY <1>1 DEF Step, Simple
<1>5. Type(s, n) = "begin_array" =>
        ValueAt(s, n) = IF Type(s, n + 1) = "end_array" THEN n + 2 ELSE After(s)[<<"elements", n + 1>>]
  BY <1>1 DEF Step, Simple
<1>6. ASSUME Type(s, n) = "begin_array"
      PROVE  After(s)[<<"elements", n + 1>>] = Closed(TRUE, s, ValueAt(s, n + 1))
  <2>1. n + 1 \in Spots(s)
    BY <1>3, <1>6
  <2>2. After(s)[<<"elements", n + 1>>] = Step(After(s), s, "elements", n + 1)
    BY <2>1, AfterIs DEF Kinds
  <2>. QED BY <2>2 DEF Step, Closed, Closer, ValueAt
<1>7. Type(s, n) = "begin_object" =>
        ValueAt(s, n) = IF Type(s, n + 1) = "end_object" THEN n + 2 ELSE MembersAt(s, n + 1)
  BY <1>1 DEF Step, Simple, MembersAt
<1>8. Type(s, n) \notin Simple \cup {"begin_array", "begin_object"} => ValueAt(s, n) = 0
  BY <1>1 DEF Step
<1>. QED BY <1>3, <1>4, <1>5, <1>6, <1>7, <1>8

LEMMA MembersAre ==
  ASSUME NEW s \in Seq(TypeNames), NEW n \in Spots(s)
  PROVE  MembersAt(s, n) = IF Type(s, n) = "value_string" /\ Type(s, n + 1) = "name_separator"
                           THEN Closed(FALSE, s, ValueAt(s, n + 2)) ELSE 0
<1>1. MembersAt(s, n) = Step(After(s), s, "members", n)
  BY AfterIs DEF MembersAt, Kinds
<1>. QED BY <1>1 DEF Step, Closed, Closer, ValueAt

LEMMA ClosedIs ==
  ASSUME NEW s \in Seq(TypeNames), NEW array \in BOOLEAN, NEW m \in Spots(s)
  PROVE  /\ Type(s, m) = Closer(array) => Closed(array, s, m) = m + 1
         /\ Type(s, m) = "value_separator" =>
              /\ m + 1 \in Spots(s)
              /\ Closed(array, s, m) = IF array THEN Closed(TRUE, s, ValueAt(s, m + 1))
                                       ELSE MembersAt(s, m + 1)
         /\ Type(s, m) \notin {Closer(array), "value_separator"} => Closed(array, s, m) = 0
<1>1. m # 0
  BY DEF Spots
<1>2. "value_separator" # Closer(array)
  BY DEF Closer
<1>3. Type(s, m) = "value_separator" => m + 1 \in Spots(s)
  <2>1. Len(s) \in Nat
    BY LenProperties
  <2>. QED BY <2>1, TypeAt DEF Spots
<1>4. ASSUME Type(s, m) = "value_separator", array = TRUE
      PROVE  Closed(array, s, m) = Closed(TRUE, s, ValueAt(s, m + 1))
  <2>1. After(s)[<<"elements", m + 1>>] = Step(After(s), s, "elements", m + 1)
    BY <1>3, <1>4, AfterIs DEF Kinds
  <2>2. After(s)[<<"elements", m + 1>>] = Closed(TRUE, s, ValueAt(s, m + 1))
    BY <2>1 DEF Step, Closed, Closer, ValueAt
  <2>3. Closed(array, s, m) = After(s)[<<"elements", m + 1>>]
    BY <1>1, <1>2, <1>4 DEF Closed, Rest
  <2>. QED BY <2>2, <2>3
<1>5. ASSUME Type(s, m) = "value_separator", array = FALSE
      PROVE  Closed(array, s, m) = MembersAt(s, m + 1)
  BY <1>1, <1>2, <1>5 DEF Closed, Rest, MembersAt
<1>6. Type(s, m) = Closer(array) => Closed(array, s, m) = m + 1
  BY <1>1 DEF Closed, Rest
<1>7. Type(s, m) \notin {Closer(array), "value_separator"} => Closed(array, s, m) = 0
  BY <1>1 DEF Closed, Rest
<1>. QED BY <1>3, <1>4, <1>5, <1>6, <1>7

LEMMA ClosedNothing ==
  ASSUME NEW s, NEW array
  PROVE  Closed(array, s, 0) = 0
BY DEF Closed, Rest

-------------------------------------------------------------------------------
(* What is still to come after some tokens, with these containers open      *)
(* around it, TRUE for an array: from the place after a value that ends     *)
(* before m they are closed one after the other, and then the text ends.    *)

Finishes(open, s, m) ==
  \E p : /\ p[Len(open)] = m /\ p[0] = Len(s) + 1
         /\ \A j \in 0 .. Len(open) : p[j] # 0
         /\ \A j \in 1 .. Len(open) : p[j - 1] = Closed(open[j], s, p[j])

LEMMA FinishesNone ==
  ASSUME NEW s \in Seq(TypeNames), NEW m
  PROVE  Finishes(<<>>, s, m) <=> m = Len(s) + 1
<1>1. Len(s) \in Nat /\ Len(s) + 1 # 0
  BY LenProperties
<1>2. Len(<<>>) = 0 /\ 0 .. 0 = {0} /\ 1 .. 0 = {}
  OBVIOUS
<1>3. ASSUME m = Len(s) + 1 PROVE Finishes(<<>>, s, m)
  <2>. DEFINE p == [j \in {0} |-> m]
  <2>1. p[0] = m
    OBVIOUS
  <2>. HIDE DEF p
  <2>. QED BY <1>1, <1>2, <1>3, <2>1 DEF Finishes
<1>. QED BY <1>2, <1>3 DEF Finishes

LEMMA FinishesNever ==
  ASSUME NEW open \in Seq(BOOLEAN), NEW s
  PROVE  ~Finishes(open, s, 0)
<1>1. Len(open) \in Nat /\ Len(open) \in 0 .. Len(open)
  BY LenProperties
<1>. QED BY <1>1 DEF Finishes

LEMMA FinishesOne ==
  ASSUME NEW open \in Seq(BOOLEAN), NEW array \in BOOLEAN, NEW s, NEW m
  PROVE  Finishes(Append(open, array), s, m) <=> Finishes(open, s, Closed(array, s, m))
<1>. DEFINE more == Append(open, array)
            l == Len(open)
<1>1. /\ l \in Nat /\ Len(more) = l + 1 /\ more[l + 1] = array
      /\ \A j \in 1 .. l : more[j] = open[j]
  BY LenProperties, AppendLast
<1>2. /\ 0 .. l + 1 = (0 .. l) \cup {l + 1} /\ 1 .. l + 1 = (1 .. l) \cup {l + 1}
      /\ (l + 1) - 1 = l /\ l \in 0 .. l /\ \A j \in 1 .. l : j - 1 \in 0 .. l /\ j \in 0 .. l /\ j # l + 1
      /\ l + 1 \notin 0 .. l /\ 0 \in 0 .. l
  BY <1>1
<1>. HIDE DEF more, l
<1>3. ASSUME Finishes(more, s, m) PROVE Finishes(open, s, Closed(array, s, m))
  <2>1. PICK p : /\ p[l + 1] = m /\ p[0] = Len(s) + 1
                 /\ \A j \in 0 .. l + 1 : p[j] # 0
                 /\ \A j \in 1 .. l + 1 : p[j - 1] = Closed(more[j], s, p[j])
    BY <1>1, <1>3 DEF Finishes
  <2>2. p[l] = Closed(array, s, m)
    BY <1>1, <1>2, <2>1
  <2>3. \A j \in 1 .. l : p[j - 1] = Closed(open[j], s, p[j])
    BY <1>1, <1>2, <2>1
  <2>4. \A j \in 0 .. l : p[j] # 0
    BY <1>2, <2>1
  <2>. QED BY <2>1, <2>2, <2>3, <2>4 DEF Finishes, l
<1>4. ASSUME Finishes(open, s, Closed(array, s, m)) PROVE Finishes(more, s, m)
  <2>1. PICK p : /\ p[l] = Closed(array, s, m) /\ p[0] = Len(s) + 1
                 /\ \A j \in 0 .. l : p[j] # 0
                 /\ \A j \in 1 .. l : p[j - 1] = Closed(open[j], s, p[j])
    BY <1>4 DEF Finishes, l
  <2>2. m # 0
    BY <1>2, <2>1, ClosedNothing
  <2>. DEFINE q == [j \in 0 .. l + 1 |-> IF j = l + 1 THEN m ELSE p[j]]
  <2>3. q[l + 1] = m /\ \A j \in 0 .. l : q[j] = p[j]
    BY <1>2
  <2>. HIDE DEF q
  <2>4. q[0] = Len(s) + 1 /\ \A j \in 0 .. l + 1 : q[j] # 0
    BY <1>2, <2>1, <2>2, <2>3
  <2>5. \A j \in 1 .. l : q[j - 1] = Closed(more[j], s, q[j])
    BY <1>1, <1>2, <2>1, <2>3
  <2>6. q[(l + 1) - 1] = Closed(more[l + 1], s, q[l + 1])
    BY <1>1, <1>2, <2>1, <2>3
  <2>7. \A j \in 1 .. l + 1 : q[j - 1] = Closed(more[j], s, q[j])
    BY <1>2, <2>5, <2>6
  <2>. QED BY <1>1, <2>3, <2>4, <2>7 DEF Finishes
<1>. QED BY <1>3, <1>4 DEF more

(* A sequence is its front with its last element.                           *)
LEMMA AppendFront ==
  ASSUME NEW S, NEW s \in Seq(S), s # <<>>
  PROVE  s = Append(Front(s), Last(s))
<1>1. /\ Front(s) \in Seq(S) /\ Last(s) \in S /\ Len(s) \in Nat \ {0} /\ Last(s) = s[Len(s)]
      /\ Len(Front(s)) = Len(s) - 1
      /\ \A n \in 1 .. Len(s) - 1 : Front(s)[n] = s[n]
  BY LastFront
<1>2. /\ Append(Front(s), Last(s)) \in Seq(S)
      /\ Len(Append(Front(s), Last(s))) = Len(Front(s)) + 1
      /\ \A n \in 1 .. Len(Front(s)) : Append(Front(s), Last(s))[n] = Front(s)[n]
      /\ Append(Front(s), Last(s))[Len(Front(s)) + 1] = Last(s)
  BY <1>1, AppendLast
<1>3. Len(Append(Front(s), Last(s))) = Len(s)
  BY <1>1, <1>2
<1>4. \A n \in 1 .. Len(s) : Append(Front(s), Last(s))[n] = s[n]
  BY <1>1, <1>2
<1>. QED BY <1>2, <1>3, <1>4, SeqEqual

(* The same of the last container that is open.                             *)
LEMMA FinishesLast ==
  ASSUME NEW open \in Seq(BOOLEAN), open # <<>>, NEW s, NEW m
  PROVE  Finishes(open, s, m) <=> Finishes(Front(open), s, Closed(Last(open), s, m))
<1>1. Front(open) \in Seq(BOOLEAN) /\ Last(open) \in BOOLEAN
  BY LastFront
<1>2. open = Append(Front(open), Last(open))
  BY AppendFront
<1>. QED BY <1>1, <1>2, FinishesOne

(* What the text must be from place n on, for the parser at this place of   *)
(* its program, with these containers open, to find a document.             *)
AfterPlaces == {"after element", "after member"}
Due(at, open, s, n) ==
  CASE at = "value" -> Finishes(open, s, ValueAt(s, n))
    [] at = "first element" -> IF Type(s, n) = "end_array" THEN Finishes(Front(open), s, n + 1)
                               ELSE Finishes(open, s, ValueAt(s, n))
    [] at \in AfterPlaces -> Finishes(open, s, n)
    [] at = "first key" -> IF Type(s, n) = "end_object" THEN Finishes(Front(open), s, n + 1)
                           ELSE Finishes(Front(open), s, MembersAt(s, n))
    [] at = "key" -> Finishes(Front(open), s, MembersAt(s, n))
    [] at \in {"first separator", "separator"} ->
         Type(s, n) = "name_separator" /\ Finishes(open, s, ValueAt(s, n + 1))
    [] at = "end" -> n = Len(s) + 1

(* What is open at each place.                                              *)
Fits(at, open) ==
  /\ open \in Seq(BOOLEAN)
  /\ at \in {"first element", "after element"} => open # <<>> /\ Last(open) = TRUE
  /\ at \in {"first key", "key", "first separator", "separator", "after member"} =>
       open # <<>> /\ Last(open) = FALSE
  /\ at = "end" => open = <<>>

(* The place after a value, by what is open around it.                      *)
Behind(open) == IF open = <<>> THEN "end" ELSE IF Last(open) THEN "after element" ELSE "after member"

LEMMA DueBehind ==
  ASSUME NEW s \in Seq(TypeNames), NEW open \in Seq(BOOLEAN), NEW m
  PROVE  Due(Behind(open), open, s, m) <=> Finishes(open, s, m)
<1>1. CASE open = <<>>
  BY <1>1, FinishesNone DEF Due, Behind, AfterPlaces
<1>2. CASE open # <<>>
  BY <1>2 DEF Due, Behind, AfterPlaces
<1>. QED BY <1>1, <1>2

(* One token: what is due before it and what is due behind it.              *)
LEMMA TokenPlace ==
  ASSUME NEW s \in Seq(TypeNames), NEW n \in 1 .. Len(s)
  PROVE  n \in Spots(s) /\ n + 1 \in Spots(s) /\ Type(s, n) = s[n] /\ n # Len(s) + 1
<1>1. Len(s) \in Nat /\ DOMAIN s = 1 .. Len(s)
  BY LenProperties
<1>. QED BY <1>1 DEF Spots, Type

LEMMA Onward ==
  ASSUME NEW s \in Seq(TypeNames), NEW n \in 1 .. Len(s)
  PROVE  n \in Nat /\ n + 1 + 1 = n + 2
<1>1. Len(s) \in Nat
  BY LenProperties
<1>. QED BY <1>1

LEMMA DueScalar ==
  ASSUME NEW s \in Seq(TypeNames), NEW n \in 1 .. Len(s), NEW open, NEW at \in {"value", "first element"},
         Fits(at, open), s[n] \in Simple
  PROVE  Due(at, open, s, n) <=> Due(Behind(open), open, s, n + 1)
<1>1. n \in Spots(s) /\ Type(s, n) = s[n] /\ open \in Seq(BOOLEAN)
  BY TokenPlace DEF Fits
<1>2. ValueAt(s, n) = n + 1
  BY <1>1, ValueIs
<1>3. Due(at, open, s, n) <=> Finishes(open, s, n + 1)
  BY <1>1, <1>2 DEF Due, AfterPlaces, Simple
<1>. QED BY <1>1, <1>3, DueBehind

(* What is due at a place is what is due behind the token read at it.       *)
Passes(at, open, to, inner, s, n) == Due(at, open, s, n) <=> Due(to, inner, s, n + 1)

LEMMA DueArray ==
  ASSUME NEW s \in Seq(TypeNames), NEW n \in 1 .. Len(s), NEW open, NEW at \in {"value", "first element"},
         Fits(at, open), s[n] = "begin_array"
  PROVE  Passes(at, open, "first element", Append(open, TRUE), s, n)
<1>1. n \in Spots(s) /\ n + 1 \in Spots(s) /\ Type(s, n) = s[n] /\ open \in Seq(BOOLEAN)
  BY TokenPlace DEF Fits
<1>2. n + 1 + 1 = n + 2
  BY Onward, Zenon
<1>3. TRUE \in BOOLEAN
  OBVIOUS
<1>4. Front(Append(open, TRUE)) = open
  BY <1>1, <1>3, FrontOfAppend, Zenon
<1>5. Due(at, open, s, n) <=> Finishes(open, s, ValueAt(s, n))
  BY <1>1 DEF Due, AfterPlaces
<1>6. Finishes(Append(open, TRUE), s, ValueAt(s, n + 1))
        <=> Finishes(open, s, Closed(TRUE, s, ValueAt(s, n + 1)))
  BY <1>1, <1>3, FinishesOne, Zenon
<1>7. ValueAt(s, n) = IF Type(s, n + 1) = "end_array" THEN n + 2
                      ELSE Closed(TRUE, s, ValueAt(s, n + 1))
  BY <1>1, ValueIs
<1>8. Due("first element", Append(open, TRUE), s, n + 1)
        <=> IF Type(s, n + 1) = "end_array" THEN Finishes(open, s, n + 2)
            ELSE Finishes(Append(open, TRUE), s, ValueAt(s, n + 1))
  BY <1>2, <1>4 DEF Due, AfterPlaces
<1>. QED BY <1>5, <1>6, <1>7, <1>8 DEF Passes

LEMMA DueObject ==
  ASSUME NEW s \in Seq(TypeNames), NEW n \in 1 .. Len(s), NEW open, NEW at \in {"value", "first element"},
         Fits(at, open), s[n] = "begin_object"
  PROVE  Due(at, open, s, n) <=> Due("first key", Append(open, FALSE), s, n + 1)
<1>1. n \in Spots(s) /\ n + 1 \in Spots(s) /\ Type(s, n) = s[n] /\ open \in Seq(BOOLEAN)
  BY TokenPlace DEF Fits
<1>2. n + 1 + 1 = n + 2
  BY Onward, Zenon
<1>3. FALSE \in BOOLEAN
  OBVIOUS
<1>4. Front(Append(open, FALSE)) = open
  BY <1>1, <1>3, FrontOfAppend, Zenon
<1>5. Due(at, open, s, n) <=> Finishes(open, s, ValueAt(s, n))
  BY <1>1 DEF Due, AfterPlaces
<1>6. ValueAt(s, n) = IF Type(s, n + 1) = "end_object" THEN n + 2 ELSE MembersAt(s, n + 1)
  BY <1>1, ValueIs
<1>7. Due("first key", Append(open, FALSE), s, n + 1)
        <=> IF Type(s, n + 1) = "end_object" THEN Finishes(open, s, n + 2)
            ELSE Finishes(open, s, MembersAt(s, n + 1))
  BY <1>2, <1>4 DEF Due, AfterPlaces
<1>. QED BY <1>5, <1>6, <1>7

LEMMA DueEnd ==
  ASSUME NEW s \in Seq(TypeNames), NEW n \in 1 .. Len(s), NEW open, NEW at,
         Fits(at, open),
         \/ at \in {"first element", "after element"} /\ s[n] = "end_array"
         \/ at \in {"first key", "after member"} /\ s[n] = "end_object"
  PROVE  Due(at, open, s, n) <=> Due(Behind(Front(open)), Front(open), s, n + 1)
<1>1. n \in Spots(s) /\ Type(s, n) = s[n] /\ open \in Seq(BOOLEAN) /\ open # <<>>
  BY TokenPlace DEF Fits
<1>2. Front(open) \in Seq(BOOLEAN) /\ Last(open) \in BOOLEAN
  BY <1>1, LastFront
<1>3. Due(at, open, s, n) <=> Finishes(Front(open), s, n + 1)
  <2>1. CASE at \in {"first element", "first key"}
    BY <1>1, <2>1 DEF Due, AfterPlaces
  <2>2. CASE at \in AfterPlaces
    <3>1. Type(s, n) = Closer(Last(open))
      BY <1>1, <2>2 DEF Fits, Closer, AfterPlaces
    <3>2. Closed(Last(open), s, n) = n + 1
      BY <1>1, <1>2, <3>1, ClosedIs
    <3>3. Finishes(open, s, n) <=> Finishes(Front(open), s, n + 1)
      BY <1>1, <3>2, FinishesLast
    <3>. QED BY <2>2, <3>3 DEF Due, AfterPlaces
  <2>. QED BY <2>1, <2>2 DEF AfterPlaces
<1>. QED BY <1>2, <1>3, DueBehind

LEMMA DueSeparator ==
  ASSUME NEW s \in Seq(TypeNames), NEW n \in 1 .. Len(s), NEW open, NEW at \in AfterPlaces,
         Fits(at, open), s[n] = "value_separator"
  PROVE  Due(at, open, s, n) <=> Due(IF at = "after element" THEN "value" ELSE "key", open, s, n + 1)
<1>1. n \in Spots(s) /\ Type(s, n) = s[n] /\ open \in Seq(BOOLEAN) /\ open # <<>>
  BY TokenPlace DEF Fits, AfterPlaces
<1>2. Front(open) \in Seq(BOOLEAN) /\ Last(open) \in BOOLEAN
  BY <1>1, LastFront
<1>3. Due(at, open, s, n) <=> Finishes(Front(open), s, Closed(Last(open), s, n))
  <2>1. Due(at, open, s, n) <=> Finishes(open, s, n)
    BY DEF Due, AfterPlaces
  <2>. QED BY <1>1, <2>1, FinishesLast
<1>4. Closed(Last(open), s, n) = IF Last(open) THEN Closed(TRUE, s, ValueAt(s, n + 1))
                                 ELSE MembersAt(s, n + 1)
  <2>1. Type(s, n) = "value_separator"
    BY <1>1
  <2>. QED BY <1>1, <1>2, <2>1, ClosedIs
<1>5. CASE at = "after element"
  <2>1. Last(open) = TRUE
    BY <1>5 DEF Fits
  <2>2. Finishes(open, s, ValueAt(s, n + 1)) <=> Finishes(Front(open), s, Closed(TRUE, s, ValueAt(s, n + 1)))
    BY <1>1, <2>1, FinishesLast
  <2>3. Due("value", open, s, n + 1) <=> Finishes(open, s, ValueAt(s, n + 1))
    BY DEF Due, AfterPlaces
  <2>. QED BY <1>3, <1>4, <1>5, <2>1, <2>2, <2>3
<1>6. CASE at = "after member"
  <2>1. Last(open) = FALSE
    BY <1>6 DEF Fits
  <2>2. Due("key", open, s, n + 1) <=> Finishes(Front(open), s, MembersAt(s, n + 1))
    BY DEF Due, AfterPlaces
  <2>. QED BY <1>3, <1>4, <1>6, <2>1, <2>2
<1>. QED BY <1>5, <1>6 DEF AfterPlaces

LEMMA DueKey ==
  ASSUME NEW s \in Seq(TypeNames), NEW n \in 1 .. Len(s), NEW open, NEW at \in {"first key", "key"},
         NEW to \in {"first separator", "separator"}, Fits(at, open), s[n] = "value_string"
  PROVE  Due(at, open, s, n) <=> Due(to, open, s, n + 1)
<1>1. n \in Spots(s) /\ Type(s, n) = s[n] /\ open \in Seq(BOOLEAN) /\ open # <<>> /\ Last(open) = FALSE
  BY TokenPlace DEF Fits
<1>2. Front(open) \in Seq(BOOLEAN) /\ n + 1 + 1 = n + 2
  <2>1. n + 1 + 1 = n + 2
    BY Onward, Zenon
  <2>. QED BY <1>1, <2>1, LastFront
<1>3. Due(at, open, s, n) <=> Finishes(Front(open), s, MembersAt(s, n))
  BY <1>1 DEF Due, AfterPlaces
<1>4. MembersAt(s, n) = IF Type(s, n + 1) = "name_separator" THEN Closed(FALSE, s, ValueAt(s, n + 2)) ELSE 0
  BY <1>1, MembersAre
<1>5. Due(to, open, s, n + 1) <=> Type(s, n + 1) = "name_separator" /\ Finishes(open, s, ValueAt(s, n + 2))
  BY <1>2 DEF Due, AfterPlaces
<1>6. Finishes(open, s, ValueAt(s, n + 2)) <=> Finishes(Front(open), s, Closed(FALSE, s, ValueAt(s, n + 2)))
  BY <1>1, FinishesLast
<1>7. ~Finishes(Front(open), s, 0)
  BY <1>2, FinishesNever
<1>. QED BY <1>3, <1>4, <1>5, <1>6, <1>7

LEMMA DueName ==
  ASSUME NEW s \in Seq(TypeNames), NEW n \in 1 .. Len(s), NEW open,
         NEW at \in {"first separator", "separator"}, s[n] = "name_separator"
  PROVE  Due(at, open, s, n) <=> Due("value", open, s, n + 1)
<1>1. Type(s, n) = s[n]
  BY TokenPlace
<1>. QED BY <1>1 DEF Due, AfterPlaces

(* The tokens that can come at a place.                                     *)
Possible(at) ==
  CASE at = "value" -> Simple \cup {"begin_object", "begin_array"}
    [] at = "first element" -> Simple \cup {"begin_object", "begin_array", "end_array"}
    [] at = "after element" -> {"value_separator", "end_array"}
    [] at = "first key" -> {"value_string", "end_object"}
    [] at = "key" -> {"value_string"}
    [] at \in {"first separator", "separator"} -> {"name_separator"}
    [] at = "after member" -> {"value_separator", "end_object"}
    [] OTHER -> {}

LEMMA DueNothing ==
  ASSUME NEW s \in Seq(TypeNames), NEW n \in 1 .. Len(s), NEW open, NEW at \in Places \ {"done", "errored end"},
         Fits(at, open), s[n] \notin Possible(at)
  PROVE  ~Due(at, open, s, n)
<1>1. n \in Spots(s) /\ Type(s, n) = s[n] /\ n # Len(s) + 1 /\ open \in Seq(BOOLEAN)
  BY TokenPlace DEF Fits
<1>2. ~Finishes(open, s, 0)
  BY <1>1, FinishesNever
<1>3. open # <<>> => Front(open) \in Seq(BOOLEAN) /\ Last(open) \in BOOLEAN /\ ~Finishes(Front(open), s, 0)
  BY <1>1, LastFront, FinishesNever
<1>4. CASE at \in {"value", "first element"}
  <2>1. Type(s, n) \notin Simple \cup {"begin_array", "begin_object"}
    BY <1>1, <1>4 DEF Possible
  <2>2. at = "first element" => Type(s, n) # "end_array"
    BY <1>1 DEF Possible
  <2>3. ValueAt(s, n) = 0
    BY <1>1, <2>1, ValueIs
  <2>. QED BY <1>2, <1>4, <2>2, <2>3 DEF Due, AfterPlaces
<1>5. CASE at \in AfterPlaces
  <2>1. Type(s, n) \notin {Closer(Last(open)), "value_separator"} /\ open # <<>>
    BY <1>1, <1>5 DEF Possible, AfterPlaces, Fits, Closer
  <2>2. Closed(Last(open), s, n) = 0
    BY <1>1, <1>3, <2>1, ClosedIs
  <2>3. ~Finishes(open, s, n)
    BY <1>1, <1>3, <2>1, <2>2, FinishesLast
  <2>. QED BY <1>5, <2>3 DEF Due, AfterPlaces
<1>6. CASE at \in {"first key", "key"}
  <2>1. Type(s, n) # "value_string" /\ (at = "first key" => Type(s, n) # "end_object") /\ open # <<>>
    BY <1>1, <1>6 DEF Possible, Fits
  <2>2. MembersAt(s, n) = 0
    BY <1>1, <2>1, MembersAre
  <2>. QED BY <1>3, <1>6, <2>1, <2>2 DEF Due, AfterPlaces
<1>7. CASE at \in {"first separator", "separator"}
  BY <1>1, <1>7 DEF Due, AfterPlaces, Possible
<1>8. CASE at = "end"
  BY <1>1, <1>8 DEF Due, AfterPlaces
<1>. QED BY <1>4, <1>5, <1>6, <1>7, <1>8 DEF Places, AfterPlaces

-------------------------------------------------------------------------------
(* What Brackets() gives, token by token.                                   *)

Pushed(t, open) ==
  IF t = "begin_array" THEN <<"end_array">> \o open
  ELSE IF t = "begin_object" THEN <<"end_object">> \o open
  ELSE IF t \in {"end_array", "end_object"} /\ open # <<>> THEN Tail(open)
  ELSE open
PushedAt(f, s, n) == IF n = 0 THEN <<>> ELSE Pushed(s[n], f[n - 1])
Pushes(f, s) == f = [n \in 0 .. Len(s) |-> PushedAt(f, s, n)]

LEMMA PushesOne ==
  ASSUME NEW s \in Seq(TypeNames), NEW f, Pushes(f, s)
  PROVE  \A n \in 0 .. Len(s) : f[n] = PushedAt(f, s, n)
<1>. DEFINE g == [n \in 0 .. Len(s) |-> PushedAt(f, s, n)]
<1>1. \A n \in 0 .. Len(s) : g[n] = PushedAt(f, s, n)
  OBVIOUS
<1>2. f = g
  BY DEF Pushes
<1>. HIDE DEF g
<1>. QED BY <1>1, <1>2

(* A solution up to each place.                                             *)
LEMMA PushesSome ==
  ASSUME NEW s \in Seq(TypeNames)
  PROVE  \E f : Pushes(f, s)
<1>1. Len(s) \in Nat
  BY LenProperties
<1>. DEFINE Upto(f, k) == \A n \in 0 .. k : f[n] = PushedAt(f, s, n)
            T == {k \in Nat : k <= Len(s) /\ ~\E f : Upto(f, k)}
<1>2. \A k : k \in T <=> k \in Nat /\ k <= Len(s) /\ ~\E f : Upto(f, k)
  OBVIOUS
<1>. HIDE DEF T
<1>3. T = {}
  <2>. SUFFICES ASSUME T # {} PROVE FALSE
    OBVIOUS
  <2>1. PICK k \in T : \A m \in T : k <= m
    <3>1. T \subseteq Nat
      BY <1>2
    <3>. QED BY <3>1, Least
  <2>2. k \in Nat /\ k <= Len(s)
    BY <1>2
  <2>3. k # 0
    <3>. DEFINE f == [n \in {0} |-> <<>>]
    <3>1. f[0] = <<>>
      OBVIOUS
    <3>. HIDE DEF f
    <3>2. PushedAt(f, s, 0) = <<>>
      BY DEF PushedAt
    <3>3. \A n \in 0 .. 0 : n = 0
      OBVIOUS
    <3>4. Upto(f, 0)
      BY <3>1, <3>2, <3>3
    <3>. QED BY <1>2, <3>4
  <2>4. k - 1 \in Nat /\ k - 1 <= Len(s) /\ ~(k <= k - 1)
    BY <1>1, <2>2, <2>3
  <2>5. PICK f : Upto(f, k - 1)
    BY <1>2, <2>1, <2>4
  <2>. DEFINE g == [n \in 0 .. k |-> IF n = k THEN PushedAt(f, s, k) ELSE f[n]]
  <2>6. \A n \in 0 .. k : g[n] = IF n = k THEN PushedAt(f, s, k) ELSE f[n]
    OBVIOUS
  <2>. HIDE DEF g
  <2>7. \A n \in 0 .. k : n # 0 => n - 1 \in 0 .. k /\ n - 1 # k
    BY <2>2
  <2>8. \A n \in 0 .. k : PushedAt(g, s, n) = PushedAt(f, s, n)
    BY <2>6, <2>7 DEF PushedAt
  <2>9. \A n \in 0 .. k : n # k => n \in 0 .. k - 1
    BY <2>2
  <2>10. Upto(g, k)
    BY <2>5, <2>6, <2>8, <2>9
  <2>. QED BY <1>2, <2>10
<1>4. PICK f : Upto(f, Len(s))
  BY <1>1, <1>2, <1>3
<1>. DEFINE g == [n \in 0 .. Len(s) |-> PushedAt(f, s, n)]
<1>5. \A n \in 0 .. Len(s) : g[n] = f[n]
  BY <1>4
<1>. HIDE DEF g
<1>6. \A n \in 0 .. Len(s) : n # 0 => n - 1 \in 0 .. Len(s)
  BY <1>1
<1>7. \A n \in 0 .. Len(s) : PushedAt(g, s, n) = PushedAt(f, s, n)
  BY <1>5, <1>6 DEF PushedAt
<1>8. g = [n \in 0 .. Len(s) |-> PushedAt(g, s, n)]
  BY <1>7 DEF g
<1>. QED BY <1>8 DEF Pushes

LEMMA BracketsIs ==
  ASSUME NEW s \in Seq(TypeNames)
  PROVE  \E f : Pushes(f, s) /\ Brackets(s) = f[Len(s)]
<1>1. Brackets(s) = (CHOOSE f : f = [n \in 0 .. Len(s) |-> PushedAt(f, s, n)])[Len(s)]
  BY DEF Brackets, PushedAt, Pushed
<1>2. Brackets(s) = (CHOOSE f : Pushes(f, s))[Len(s)]
  BY <1>1 DEF Pushes
<1>3. Pushes(CHOOSE f : Pushes(f, s), s)
  BY PushesSome, Zenon
<1>. QED BY <1>2, <1>3, Zenon

(* Two sequences that agree in front give the same there.                   *)
LEMMA PushesSame ==
  ASSUME NEW s \in Seq(TypeNames), NEW t \in Seq(TypeNames), NEW f, NEW g, Pushes(f, s), Pushes(g, t),
         NEW m \in Nat, m <= Len(s), m <= Len(t), \A n \in 1 .. m : s[n] = t[n]
  PROVE  f[m] = g[m]
<1>1. Len(s) \in Nat /\ Len(t) \in Nat
  BY LenProperties
<1>2. \A n \in 0 .. m : f[n] = PushedAt(f, s, n) /\ g[n] = PushedAt(g, t, n)
  <2>1. \A n \in 0 .. m : n \in 0 .. Len(s) /\ n \in 0 .. Len(t)
    BY <1>1
  <2>. QED BY <2>1, PushesOne
<1>. DEFINE T == {n \in Nat : n <= m /\ f[n] # g[n]}
<1>3. \A n : n \in T <=> n \in Nat /\ n <= m /\ f[n] # g[n]
  OBVIOUS
<1>. HIDE DEF T
<1>4. T = {}
  <2>. SUFFICES ASSUME T # {} PROVE FALSE
    OBVIOUS
  <2>1. PICK n \in T : \A k \in T : n <= k
    <3>1. T \subseteq Nat
      BY <1>3
    <3>. QED BY <3>1, Least
  <2>2. n \in Nat /\ n <= m /\ n \in 0 .. m
    BY <1>3
  <2>3. n # 0
    BY <1>2, <1>3, <2>1, <2>2 DEF PushedAt
  <2>4. n - 1 \in Nat /\ n - 1 <= m /\ ~(n <= n - 1) /\ n \in 1 .. m
    BY <2>2, <2>3
  <2>5. f[n - 1] = g[n - 1] /\ s[n] = t[n]
    BY <1>3, <2>1, <2>4
  <2>6. f[n] = g[n]
    BY <1>2, <2>2, <2>3, <2>5 DEF PushedAt
  <2>. QED BY <1>3, <2>1, <2>6
<1>. QED BY <1>3, <1>4

LEMMA BracketsStep ==
  ASSUME NEW s \in Seq(TypeNames), NEW t \in TypeNames
  PROVE  Brackets(Append(s, t)) = Pushed(t, Brackets(s))
<1>. DEFINE u == Append(s, t)
            l == Len(s)
<1>1. u \in Seq(TypeNames) /\ Len(u) = l + 1 /\ u[l + 1] = t /\ \A n \in 1 .. l : u[n] = s[n]
  BY AppendLast
<1>2. l \in Nat
  BY LenProperties
<1>. HIDE DEF u
<1>3. PICK f : Pushes(f, s) /\ Brackets(s) = f[l]
  BY BracketsIs
<1>4. PICK g : Pushes(g, u) /\ Brackets(u) = g[Len(u)]
  BY <1>1, BracketsIs
<1>. HIDE DEF l
<1>5. l <= Len(u) /\ l <= l
  BY <1>1, <1>2
<1>6. l = Len(s)
  BY DEF l
<1>7. f[l] = g[l]
  <2>1. l <= Len(s) /\ \A n \in 1 .. l : s[n] = u[n]
    BY <1>1, <1>5, <1>6
  <2>. QED BY <1>1, <1>2, <1>3, <1>4, <1>5, <2>1, PushesSame
<1>8. l + 1 \in 0 .. Len(u) /\ l + 1 # 0 /\ l + 1 - 1 = l
  BY <1>1, <1>2
<1>9. g[l + 1] = PushedAt(g, u, l + 1)
  BY <1>1, <1>4, <1>8, PushesOne
<1>10. PushedAt(g, u, l + 1) = Pushed(t, g[l])
  <2>. DEFINE k == l + 1
  <2>1. k # 0 /\ k - 1 = l
    BY <1>2, Sums, Zenon
  <2>3. u[k] = t
    BY <1>1
  <2>. HIDE DEF k
  <2>2. PushedAt(g, u, k) = Pushed(t, g[l])
    BY <2>1, <2>3 DEF PushedAt
  <2>. QED BY <2>2 DEF k
<1>11. Brackets(u) = g[l + 1]
  BY <1>1, <1>4
<1>. QED BY <1>3, <1>7, <1>9, <1>10, <1>11 DEF u

LEMMA BracketsNone == Brackets(<<>>) = <<>>
<1>1. <<>> \in Seq(TypeNames) /\ Len(<<>>) = 0 /\ 0 \in 0 .. 0
  BY EmptySeq
<1>2. PICK f : Pushes(f, <<>>) /\ Brackets(<<>>) = f[0]
  BY <1>1, BracketsIs
<1>3. f[0] = PushedAt(f, <<>>, 0)
  BY <1>1, <1>2, PushesOne
<1>. QED BY <1>2, <1>3 DEF PushedAt

LEMMA BracketsSeq ==
  ASSUME NEW s \in Seq(TypeNames)
  PROVE  Brackets(s) \in Seq(TypeNames)
<1>1. Len(s) \in Nat
  BY LenProperties
<1>2. PICK f : Pushes(f, s) /\ Brackets(s) = f[Len(s)]
  BY BracketsIs
<1>3. \A n \in 0 .. Len(s) : f[n] = PushedAt(f, s, n)
  BY <1>2, PushesOne
<1>4. ASSUME NEW t, NEW open \in Seq(TypeNames) PROVE Pushed(t, open) \in Seq(TypeNames)
  <2>1. <<"end_array">> \in Seq(TypeNames) /\ <<"end_object">> \in Seq(TypeNames)
    <3>1. "end_array" \in TypeNames /\ "end_object" \in TypeNames
      BY DEF TypeNames
    <3>. QED BY <3>1
  <2>2. <<"end_array">> \o open \in Seq(TypeNames) /\ <<"end_object">> \o open \in Seq(TypeNames)
    BY <2>1, ConcatProperties
  <2>3. open # <<>> => Tail(open) \in Seq(TypeNames)
    BY HeadTailProperties
  <2>. QED BY <2>2, <2>3 DEF Pushed
<1>. DEFINE T == {n \in Nat : n <= Len(s) /\ f[n] \notin Seq(TypeNames)}
<1>5. \A n : n \in T <=> n \in Nat /\ n <= Len(s) /\ f[n] \notin Seq(TypeNames)
  OBVIOUS
<1>. HIDE DEF T
<1>6. T = {}
  <2>. SUFFICES ASSUME T # {} PROVE FALSE
    OBVIOUS
  <2>1. PICK n \in T : \A k \in T : n <= k
    <3>1. T \subseteq Nat
      BY <1>5
    <3>. QED BY <3>1, Least
  <2>2. n \in Nat /\ n <= Len(s) /\ n \in 0 .. Len(s)
    BY <1>1, <1>5
  <2>3. n # 0
    BY <1>3, <1>5, <2>1, <2>2, EmptySeq DEF PushedAt
  <2>4. n - 1 \in Nat /\ n - 1 <= Len(s) /\ ~(n <= n - 1)
    BY <1>1, <2>2, <2>3
  <2>5. f[n - 1] \in Seq(TypeNames)
    BY <1>5, <2>1, <2>4
  <2>6. f[n] \in Seq(TypeNames)
    BY <1>3, <1>4, <2>2, <2>3, <2>5 DEF PushedAt
  <2>. QED BY <1>5, <2>1, <2>6
<1>. QED BY <1>1, <1>2, <1>5, <1>6

(* The ends of what is open, innermost first.                               *)
Closers(open) == [n \in 1 .. Len(open) |-> Closer(open[Len(open) + 1 - n])]

LEMMA ClosersAre ==
  ASSUME NEW open \in Seq(BOOLEAN)
  PROVE  /\ Closers(open) \in Seq(TypeNames) /\ Len(Closers(open)) = Len(open)
         /\ \A n \in 1 .. Len(open) : Closers(open)[n] = Closer(open[Len(open) + 1 - n])
<1>1. Len(open) \in Nat
  BY LenProperties
<1>2. \A b : Closer(b) \in TypeNames
  BY DEF Closer, TypeNames
<1>. DEFINE c(n) == Closer(open[Len(open) + 1 - n])
<1>3. \A n \in 1 .. Len(open) : c(n) \in TypeNames
  BY <1>2
<1>4. [n \in 1 .. Len(open) |-> c(n)] \in Seq(TypeNames)
  BY <1>1, <1>3, IsASeq
<1>5. Len([n \in 1 .. Len(open) |-> c(n)]) = Len(open)
  BY <1>1
<1>. QED BY <1>4, <1>5 DEF Closers

LEMMA ClosersMore ==
  ASSUME NEW open \in Seq(BOOLEAN), NEW array \in BOOLEAN
  PROVE  Closers(Append(open, array)) = <<Closer(array)>> \o Closers(open)
<1>. DEFINE more == Append(open, array)
            l == Len(open)
            a == Closers(more)
            c == <<Closer(array)>>
            b == c \o Closers(open)
<1>1. /\ l \in Nat /\ more \in Seq(BOOLEAN) /\ Len(more) = l + 1 /\ more[l + 1] = array
      /\ \A n \in 1 .. l : more[n] = open[n]
  BY LenProperties, AppendLast
<1>2. c \in Seq(TypeNames) /\ Len(c) = 1 /\ c[1] = Closer(array)
  <2>1. Closer(array) \in TypeNames
    BY DEF Closer, TypeNames
  <2>. QED BY <2>1
<1>3. /\ Closers(open) \in Seq(TypeNames) /\ Len(Closers(open)) = l
      /\ \A n \in 1 .. l : Closers(open)[n] = Closer(open[l + 1 - n])
  BY ClosersAre
<1>. HIDE DEF more
<1>4. a \in Seq(TypeNames) /\ Len(a) = Len(more) /\ \A n \in 1 .. Len(more) : a[n] = Closer(more[Len(more) + 1 - n])
  BY <1>1, ClosersAre
<1>. HIDE DEF l, a, c
<1>5. /\ b \in Seq(TypeNames) /\ Len(b) = 1 + l
      /\ \A n \in 1 .. 1 + l : b[n] = IF n <= 1 THEN c[n] ELSE Closers(open)[n - 1]
  <2>1. /\ b \in Seq(TypeNames) /\ Len(b) = Len(c) + Len(Closers(open))
        /\ \A n \in 1 .. Len(c) + Len(Closers(open)) :
             b[n] = IF n <= Len(c) THEN c[n] ELSE Closers(open)[n - Len(c)]
    BY <1>2, <1>3, ConcatProperties
  <2>. QED BY <1>2, <1>3, <2>1
<1>. HIDE DEF b
<1>6. ASSUME NEW n \in 1 .. l + 1 PROVE a[n] = b[n]
  <2>1. CASE n = 1
    <3>1. Len(more) + 1 - n = l + 1 /\ n \in 1 .. Len(more) /\ n \in 1 .. 1 + l /\ n <= 1
      BY <1>1, <2>1
    <3>. QED BY <1>1, <1>2, <1>4, <1>5, <2>1, <3>1
  <2>2. CASE n # 1
    <3>1. /\ Len(more) + 1 - n = l + 1 - (n - 1) /\ n \in 1 .. Len(more) /\ n \in 1 .. 1 + l /\ ~(n <= 1)
          /\ n - 1 \in 1 .. l /\ l + 1 - (n - 1) \in 1 .. l
      BY <1>1, <2>2
    <3>. QED BY <1>1, <1>3, <1>4, <1>5, <3>1
  <2>. QED BY <2>1, <2>2
<1>7. Len(a) = Len(b) /\ Len(a) = l + 1
  BY <1>1, <1>4, <1>5
<1>8. a = b
  BY <1>4, <1>5, <1>6, <1>7, SeqEqual
<1>. QED BY <1>8 DEF a, b, c, more

(* What is behind one element is the tail.                                  *)
LEMMA TailBehind ==
  ASSUME NEW S, NEW e \in S, NEW s \in Seq(S)
  PROVE  Tail(<<e>> \o s) = s /\ <<e>> \o s # <<>>
<1>. DEFINE a == <<e>> \o s
<1>1. <<e>> \in Seq(S) /\ Len(<<e>>) = 1 /\ Len(s) \in Nat
  BY LenProperties
<1>2. /\ a \in Seq(S) /\ Len(a) = 1 + Len(s)
      /\ \A n \in 1 .. 1 + Len(s) : a[n] = IF n <= 1 THEN <<e>>[n] ELSE s[n - 1]
  <2>1. /\ a \in Seq(S) /\ Len(a) = Len(<<e>>) + Len(s)
        /\ \A n \in 1 .. Len(<<e>>) + Len(s) : a[n] = IF n <= Len(<<e>>) THEN <<e>>[n] ELSE s[n - Len(<<e>>)]
    BY <1>1, ConcatProperties
  <2>. QED BY <1>1, <2>1
<1>. HIDE DEF a
<1>3. a # <<>>
  BY <1>1, <1>2, EmptySeq
<1>4. Tail(a) \in Seq(S) /\ Len(Tail(a)) = Len(a) - 1 /\ \A n \in 1 .. Len(Tail(a)) : Tail(a)[n] = a[n + 1]
  BY <1>2, <1>3, HeadTailProperties
<1>5. Len(Tail(a)) = Len(s)
  BY <1>1, <1>2, <1>4
<1>6. ASSUME NEW n \in 1 .. Len(s) PROVE Tail(a)[n] = s[n]
  <2>1. n + 1 \in 1 .. 1 + Len(s) /\ ~(n + 1 <= 1) /\ n + 1 - 1 = n
    BY <1>1
  <2>. QED BY <1>2, <1>4, <1>5, <2>1
<1>7. Tail(a) = s
  BY <1>4, <1>5, <1>6, SeqEqual
<1>. QED BY <1>3, <1>7 DEF a

LEMMA ClosersPushed ==
  ASSUME NEW open \in Seq(BOOLEAN)
  PROVE  /\ Closers(<<>>) = <<>>
         /\ Pushed("begin_array", Closers(open)) = Closers(Append(open, TRUE))
         /\ Pushed("begin_object", Closers(open)) = Closers(Append(open, FALSE))
         /\ \A t \in {"end_array", "end_object"} :
              open # <<>> => Pushed(t, Closers(open)) = Closers(Front(open))
<1>1. TRUE \in BOOLEAN /\ FALSE \in BOOLEAN /\ Closer(TRUE) = "end_array" /\ Closer(FALSE) = "end_object"
  BY DEF Closer
<1>2. Closers(<<>>) = <<>>
  <2>1. <<>> \in Seq(BOOLEAN) /\ Len(<<>>) = 0
    BY EmptySeq
  <2>2. Closers(<<>>) \in Seq(TypeNames) /\ Len(Closers(<<>>)) = Len(<<>>)
    BY <2>1, ClosersAre
  <2>. QED BY <2>1, <2>2, EmptySeq
<1>3. Pushed("begin_array", Closers(open)) = Closers(Append(open, TRUE))
  <2>1. Closers(Append(open, TRUE)) = <<"end_array">> \o Closers(open)
    BY <1>1, ClosersMore
  <2>. QED BY <2>1 DEF Pushed
<1>4. Pushed("begin_object", Closers(open)) = Closers(Append(open, FALSE))
  <2>1. Closers(Append(open, FALSE)) = <<"end_object">> \o Closers(open)
    BY <1>1, ClosersMore
  <2>. QED BY <2>1 DEF Pushed
<1>5. ASSUME NEW t \in {"end_array", "end_object"}, open # <<>>
      PROVE  Pushed(t, Closers(open)) = Closers(Front(open))
  <2>1. Front(open) \in Seq(BOOLEAN) /\ Last(open) \in BOOLEAN
    BY <1>5, LastFront
  <2>2. open = Append(Front(open), Last(open))
    BY <1>5, AppendFront
  <2>3. Closers(open) = <<Closer(Last(open))>> \o Closers(Front(open))
    BY <2>1, <2>2, ClosersMore
  <2>4. Closer(Last(open)) \in TypeNames /\ Closers(Front(open)) \in Seq(TypeNames)
    BY <2>1, ClosersAre DEF Closer, TypeNames
  <2>5. Tail(Closers(open)) = Closers(Front(open)) /\ Closers(open) # <<>>
    BY <2>3, <2>4, TailBehind
  <2>. QED BY <2>5 DEF Pushed
<1>. QED BY <1>2, <1>3, <1>4, <1>5

-------------------------------------------------------------------------------
(* Whatever is open can be closed: its ends finish the text.                *)
LEMMA Shut ==
  ASSUME NEW s \in Seq(TypeNames), NEW open \in Seq(BOOLEAN)
  PROVE  Finishes(open, s \o Closers(open), Len(s) + 1)
<1>. DEFINE u == s \o Closers(open)
            l == Len(open)
            b == Len(s)
            p == [j \in 0 .. l |-> b + 1 + l - j]
<1>1. l \in Nat /\ b \in Nat
  BY LenProperties
<1>2. \A j \in 0 .. l : p[j] = b + 1 + l - j
  OBVIOUS
<1>3. /\ Closers(open) \in Seq(TypeNames) /\ Len(Closers(open)) = l
      /\ \A n \in 1 .. l : Closers(open)[n] = Closer(open[l + 1 - n])
  BY ClosersAre
<1>4. /\ u \in Seq(TypeNames) /\ Len(u) = b + l
      /\ \A n \in 1 .. b + l : u[n] = IF n <= b THEN s[n] ELSE Closers(open)[n - b]
  <2>1. /\ u \in Seq(TypeNames) /\ Len(u) = Len(s) + Len(Closers(open))
        /\ \A n \in 1 .. Len(s) + Len(Closers(open)) :
             u[n] = IF n <= Len(s) THEN s[n] ELSE Closers(open)[n - Len(s)]
    BY <1>3, ConcatProperties
  <2>. QED BY <1>3, <2>1
<1>5. \A j \in 1 .. l : open[j] \in BOOLEAN
  BY ElementOfSeq
<1>. HIDE DEF p, u
<1>6. ASSUME NEW j \in 1 .. l PROVE p[j - 1] = Closed(open[j], u, p[j])
  <2>. HIDE DEF l, b
  <2>. DEFINE n == b + 1 + l - j
  <2>1. /\ n \in 1 .. b + l /\ ~(n <= b) /\ n - b \in 1 .. l /\ l + 1 - (n - b) = j
        /\ j \in 0 .. l /\ j - 1 \in 0 .. l /\ b + 1 + l - (j - 1) = n + 1
    BY <1>1
  <2>2. p[j] = n /\ p[j - 1] = n + 1
    BY <1>2, <2>1
  <2>. HIDE DEF n
  <2>3. u[n] = Closer(open[j])
    BY <1>3, <1>4, <2>1
  <2>4. n \in 1 .. Len(u)
    BY <1>4, <2>1
  <2>5. n \in Spots(u) /\ Type(u, n) = Closer(open[j])
    BY <1>4, <2>3, <2>4, TokenPlace
  <2>6. Closed(open[j], u, n) = n + 1
    BY <1>4, <1>5, <2>5, ClosedIs DEF l
  <2>. QED BY <2>2, <2>6
<1>7. p[l] = b + 1 /\ p[0] = Len(u) + 1
  <2>1. l \in 0 .. l /\ 0 \in 0 .. l /\ b + 1 + l - l = b + 1 /\ b + 1 + l - 0 = b + l + 1
    BY <1>1
  <2>. QED BY <1>2, <1>4, <2>1
<1>8. \A j \in 0 .. l : p[j] # 0
  <2>1. \A j \in 0 .. l : b + 1 + l - j # 0
    BY <1>1
  <2>. QED BY <1>2, <2>1
<1>. QED BY <1>6, <1>7, <1>8 DEF Finishes, u

(* With the tokens e behind s, and then the ends of what is open.           *)
LEMMA With ==
  ASSUME NEW s \in Seq(TypeNames), NEW e \in Seq(TypeNames), NEW open \in Seq(BOOLEAN)
  PROVE  /\ (s \o e) \o Closers(open) \in Seq(TypeNames)
         /\ (s \o e) \o Closers(open) = s \o (e \o Closers(open))
         /\ e \o Closers(open) \in Seq(TypeNames)
         /\ Finishes(open, (s \o e) \o Closers(open), Len(s) + Len(e) + 1)
         /\ \A i \in 1 .. Len(e) : /\ Len(s) + i \in Spots((s \o e) \o Closers(open))
                                   /\ Type((s \o e) \o Closers(open), Len(s) + i) = e[i]
<1>. DEFINE a == s \o e
            c == Closers(open)
            u == a \o c
<1>1. Len(s) \in Nat /\ Len(e) \in Nat /\ c \in Seq(TypeNames) /\ Len(c) \in Nat
  BY LenProperties, ClosersAre
<1>2. /\ a \in Seq(TypeNames) /\ Len(a) = Len(s) + Len(e)
      /\ \A n \in 1 .. Len(s) + Len(e) : a[n] = IF n <= Len(s) THEN s[n] ELSE e[n - Len(s)]
  BY ConcatProperties
<1>. HIDE DEF a, c
<1>3. /\ u \in Seq(TypeNames) /\ Len(u) = Len(a) + Len(c)
      /\ \A n \in 1 .. Len(a) + Len(c) : u[n] = IF n <= Len(a) THEN a[n] ELSE c[n - Len(a)]
  <2>1. a \in Seq(TypeNames) /\ c \in Seq(TypeNames)
    BY <1>1, <1>2
  <2>. QED BY <2>1, ConcatProperties
<1>4. e \o c \in Seq(TypeNames)
  BY <1>1, ConcatProperties
<1>5. u = s \o (e \o c)
  <2>1. (s \o e) \o c = s \o (e \o c)
    BY <1>1, ConcatAssociative
  <2>. QED BY <2>1 DEF a
<1>6. Finishes(open, u, Len(a) + 1)
  BY <1>2, Shut DEF c
<1>. HIDE DEF u
<1>7. ASSUME NEW i \in 1 .. Len(e) PROVE Len(s) + i \in Spots(u) /\ Type(u, Len(s) + i) = e[i]
  <2>. DEFINE n == Len(s) + i
  <2>1. n \in 1 .. Len(s) + Len(e) /\ ~(n <= Len(s)) /\ n - Len(s) = i
    BY <1>1
  <2>2. n \in 1 .. Len(a) + Len(c) /\ n <= Len(a) /\ n \in 1 .. Len(u)
    BY <1>1, <1>2, <1>3, <2>1
  <2>. HIDE DEF n
  <2>3. u[n] = e[i]
    BY <1>2, <1>3, <2>1, <2>2
  <2>4. n \in Spots(u) /\ Type(u, n) = u[n]
    BY <1>3, <2>2, TokenPlace
  <2>. QED BY <2>3, <2>4 DEF n
<1>. QED BY <1>2, <1>3, <1>4, <1>5, <1>6, <1>7 DEF u, a, c

LEMMA MissingSeq == \A e \in Missing : e \in Seq(TypeNames)
<1>1. "value_string" \in TypeNames /\ "name_separator" \in TypeNames
  BY DEF TypeNames, Simple
<1>2. <<>> \in Seq(TypeNames) /\ <<"value_string">> \in Seq(TypeNames)
  BY <1>1
<1>3. <<"name_separator", "value_string">> \in Seq(TypeNames)
  BY <1>1
<1>4. <<"value_string", "name_separator", "value_string">> \in Seq(TypeNames)
  BY <1>1
<1>. QED BY <1>2, <1>3, <1>4 DEF Missing

(* What is appended, token by token.                                        *)
LEMMA OneMissing ==
  ASSUME NEW e, e = <<"value_string">>
  PROVE  Len(e) = 1 /\ e[1] = "value_string" /\ 1 \in 1 .. 1
OBVIOUS

LEMMA TwoMissing ==
  ASSUME NEW e, e = <<"name_separator", "value_string">>
  PROVE  /\ Len(e) = 2 /\ 1 \in 1 .. 2 /\ 2 \in 1 .. 2
         /\ e[1] = "name_separator" /\ e[2] = "value_string"
OBVIOUS

LEMMA ThreeMissing ==
  ASSUME NEW e, e = <<"value_string", "name_separator", "value_string">>
  PROVE  /\ Len(e) = 3 /\ 1 \in 1 .. 3 /\ 2 \in 1 .. 3 /\ 3 \in 1 .. 3
         /\ e[1] = "value_string" /\ e[2] = "name_separator" /\ e[3] = "value_string"
OBVIOUS

(* At every place something makes a document of what was read.              *)
LEMMA Completable ==
  ASSUME NEW s \in Seq(TypeNames), NEW open, NEW at \in Places \ {"done", "errored end"}, Fits(at, open)
  PROVE  \E e \in Missing : /\ e \in Seq(TypeNames)
                            /\ Due(at, open, (s \o e) \o Closers(open), Len(s) + 1)
<1>1. open \in Seq(BOOLEAN) /\ Len(s) \in Nat
  BY LenProperties DEF Fits
<1>2. CASE at \in {"value", "first element"}
  <2>. DEFINE e == <<"value_string">>
              u == (s \o e) \o Closers(open)
  <2>0. e \in Missing /\ e \in Seq(TypeNames)
    BY MissingSeq DEF Missing
  <2>1. Len(e) = 1 /\ e[1] = "value_string" /\ 1 \in 1 .. 1
    BY OneMissing, Zenon
  <2>. HIDE DEF e
  <2>2. /\ u \in Seq(TypeNames) /\ Finishes(open, u, Len(s) + 1 + 1)
        /\ Len(s) + 1 \in Spots(u) /\ Type(u, Len(s) + 1) = "value_string"
    BY <1>1, <2>0, <2>1, With, ZenonT(60)
  <2>. HIDE DEF u
  <2>3. ValueAt(u, Len(s) + 1) = Len(s) + 1 + 1
    BY <2>2, ValueIs DEF Simple
  <2>4. Due(at, open, u, Len(s) + 1)
    BY <1>2, <2>2, <2>3 DEF Due, AfterPlaces
  <2>. QED BY <2>0, <2>4 DEF u
<1>3. CASE at \in AfterPlaces \cup {"end"}
  <2>. DEFINE e == <<>>
              u == (s \o e) \o Closers(open)
  <2>0. e \in Missing /\ e \in Seq(TypeNames)
    BY MissingSeq DEF Missing
  <2>1. Len(e) = 0
    BY EmptySeq
  <2>. HIDE DEF e
  <2>2. u \in Seq(TypeNames) /\ Finishes(open, u, Len(s) + 0 + 1)
    BY <1>1, <2>0, <2>1, With
  <2>. HIDE DEF u
  <2>3. Finishes(open, u, Len(s) + 1)
    <3>1. Len(s) + 0 + 1 = Len(s) + 1
      BY <1>1, Sums, Zenon
    <3>. QED BY <2>2, <3>1
  <2>4. at = "end" => Len(s) + 1 = Len(u) + 1
    BY <2>2, <2>3, FinishesNone DEF Fits
  <2>5. Due(at, open, u, Len(s) + 1)
    BY <1>3, <2>3, <2>4 DEF Due, AfterPlaces
  <2>. QED BY <2>0, <2>5 DEF u
<1>4. CASE at \in {"first key", "key"}
  <2>. DEFINE e == <<"value_string", "name_separator", "value_string">>
              u == (s \o e) \o Closers(open)
              n == Len(s) + 1
  <2>0. e \in Missing /\ e \in Seq(TypeNames)
    BY MissingSeq DEF Missing
  <2>1. /\ Len(e) = 3 /\ 1 \in 1 .. 3 /\ 2 \in 1 .. 3 /\ 3 \in 1 .. 3
        /\ e[1] = "value_string" /\ e[2] = "name_separator" /\ e[3] = "value_string"
    BY ThreeMissing, Zenon
  <2>. HIDE DEF e
  <2>2. /\ u \in Seq(TypeNames) /\ Finishes(open, u, Len(s) + 3 + 1)
        /\ Len(s) + 1 \in Spots(u) /\ Type(u, Len(s) + 1) = "value_string"
        /\ Type(u, Len(s) + 2) = "name_separator"
        /\ Len(s) + 3 \in Spots(u) /\ Type(u, Len(s) + 3) = "value_string"
    BY <1>1, <2>0, <2>1, With, ZenonT(60)
  <2>3. Len(s) + 2 = n + 1 /\ Len(s) + 3 = n + 2
    BY <1>1, Sums, Zenon
  <2>. HIDE DEF u
  <2>4. ValueAt(u, Len(s) + 3) = Len(s) + 3 + 1
    BY <2>2, ValueIs DEF Simple
  <2>5. /\ n \in Spots(u) /\ Type(u, n) = "value_string" /\ Type(u, n + 1) = "name_separator"
        /\ Finishes(open, u, ValueAt(u, n + 2))
    BY <2>2, <2>3, <2>4
  <2>. HIDE DEF n
  <2>6. MembersAt(u, n) = Closed(FALSE, u, ValueAt(u, n + 2))
    BY <2>2, <2>5, MembersAre
  <2>7. Last(open) = FALSE /\ open # <<>>
    BY <1>4 DEF Fits
  <2>8. Finishes(Front(open), u, MembersAt(u, n))
    BY <1>1, <2>5, <2>6, <2>7, FinishesLast
  <2>9. Due(at, open, u, n)
    BY <1>4, <2>5, <2>8 DEF Due, AfterPlaces
  <2>. QED BY <2>0, <2>9 DEF u, n
<1>5. CASE at \in {"first separator", "separator"}
  <2>. DEFINE e == <<"name_separator", "value_string">>
              u == (s \o e) \o Closers(open)
              n == Len(s) + 1
  <2>0. e \in Missing /\ e \in Seq(TypeNames)
    BY MissingSeq DEF Missing
  <2>1. /\ Len(e) = 2 /\ 1 \in 1 .. 2 /\ 2 \in 1 .. 2
        /\ e[1] = "name_separator" /\ e[2] = "value_string"
    BY TwoMissing, Zenon
  <2>. HIDE DEF e
  <2>2. /\ u \in Seq(TypeNames) /\ Finishes(open, u, Len(s) + 2 + 1)
        /\ Type(u, Len(s) + 1) = "name_separator"
        /\ Len(s) + 2 \in Spots(u) /\ Type(u, Len(s) + 2) = "value_string"
    BY <1>1, <2>0, <2>1, With, ZenonT(60)
  <2>3. Len(s) + 2 = n + 1
    BY <1>1, Sums, Zenon
  <2>. HIDE DEF u
  <2>4. ValueAt(u, Len(s) + 2) = Len(s) + 2 + 1
    BY <2>2, ValueIs DEF Simple
  <2>5. Type(u, n) = "name_separator" /\ Finishes(open, u, ValueAt(u, n + 1))
    BY <2>2, <2>3, <2>4
  <2>. HIDE DEF n
  <2>6. Due(at, open, u, n)
    BY <1>5, <2>5 DEF Due, AfterPlaces
  <2>. QED BY <2>0, <2>6 DEF u, n
<1>. QED BY <1>2, <1>3, <1>4, <1>5 DEF Places, AfterPlaces

(* Which continuations of the tokens read are documents is what is due.     *)
Quotient(at, open, s) ==
  \A c \in Seq(TypeNames) : IsDocument(s \o c) <=> Due(at, open, s \o c, Len(s) + 1)

(* s, a token and c, in both ways.                                          *)
LEMMA OneToken ==
  ASSUME NEW s \in Seq(TypeNames), NEW t \in TypeNames, NEW c \in Seq(TypeNames)
  PROVE  /\ Append(s, t) \o c = s \o (<<t>> \o c) /\ <<t>> \o c \in Seq(TypeNames)
         /\ Append(s, t) \o c \in Seq(TypeNames) /\ Append(s, t) \in Seq(TypeNames)
         /\ Len(s) + 1 \in 1 .. Len(Append(s, t) \o c)
         /\ (Append(s, t) \o c)[Len(s) + 1] = t
         /\ Len(Append(s, t)) + 1 = Len(s) + 1 + 1
<1>. DEFINE a == Append(s, t)
            u == a \o c
<1>1. Len(s) \in Nat /\ Len(c) \in Nat /\ <<t>> \in Seq(TypeNames) /\ Len(<<t>>) = 1 /\ <<t>>[1] = t
  <2>1. <<t>> \in Seq(TypeNames) /\ Len(<<t>>) = 1 /\ <<t>>[1] = t
    OBVIOUS
  <2>. QED BY <2>1, LenProperties
<1>2. a \in Seq(TypeNames) /\ Len(a) = Len(s) + 1 /\ a[Len(s) + 1] = t /\ \A n \in 1 .. Len(s) : a[n] = s[n]
  BY AppendLast
<1>. HIDE DEF a
<1>3. /\ u \in Seq(TypeNames) /\ Len(u) = Len(a) + Len(c)
      /\ \A n \in 1 .. Len(a) + Len(c) : u[n] = IF n <= Len(a) THEN a[n] ELSE c[n - Len(a)]
  BY <1>2, ConcatProperties
<1>. HIDE DEF u
<1>4. a = s \o <<t>>
  <2>1. /\ s \o <<t>> \in Seq(TypeNames) /\ Len(s \o <<t>>) = Len(s) + Len(<<t>>)
        /\ \A n \in 1 .. Len(s) + Len(<<t>>) : (s \o <<t>>)[n] = IF n <= Len(s) THEN s[n] ELSE <<t>>[n - Len(s)]
    BY <1>1, ConcatProperties
  <2>. DEFINE v == s \o <<t>>
              w == <<t>>
  <2>2. v \in Seq(TypeNames) /\ Len(v) = Len(s) + 1 /\ w[1] = t
        /\ \A n \in 1 .. Len(s) + 1 : v[n] = IF n <= Len(s) THEN s[n] ELSE w[n - Len(s)]
    BY <1>1, <2>1
  <2>. HIDE DEF v, w
  <2>3. \A n \in 1 .. Len(s) + 1 : a[n] = v[n]
    <3>. TAKE n \in 1 .. Len(s) + 1
    <3>1. CASE n = Len(s) + 1
      <4>1. ~(n <= Len(s)) /\ n - Len(s) = 1
        BY <1>1, <3>1
      <4>. QED BY <1>2, <2>2, <3>1, <4>1
    <3>2. CASE n # Len(s) + 1
      <4>1. n <= Len(s) /\ n \in 1 .. Len(s)
        BY <1>1, <3>2
      <4>. QED BY <1>2, <2>2, <4>1
    <3>. QED BY <3>1, <3>2
  <2>4. Len(a) = Len(v) /\ Len(a) = Len(s) + 1
    BY <1>2, <2>2
  <2>5. a = v
    BY <1>2, <2>2, <2>3, <2>4, SeqEqual
  <2>. QED BY <2>5 DEF v
<1>5. u = s \o (<<t>> \o c) /\ <<t>> \o c \in Seq(TypeNames)
  BY <1>1, <1>4, ConcatAssociative, ConcatProperties DEF u
<1>6. Len(s) + 1 \in 1 .. Len(u) /\ Len(s) + 1 \in 1 .. Len(a) + Len(c) /\ Len(s) + 1 <= Len(a)
  BY <1>1, <1>2, <1>3
<1>7. u[Len(s) + 1] = t
  BY <1>2, <1>3, <1>6
<1>. QED BY <1>2, <1>3, <1>5, <1>6, <1>7 DEF u, a

LEMMA QuotientStep ==
  ASSUME NEW s \in Seq(TypeNames), NEW t \in TypeNames, NEW at, NEW open, NEW to, NEW more,
         Quotient(at, open, s),
         \A u \in Seq(TypeNames) : \A n \in 1 .. Len(u) :
           u[n] = t => (Due(at, open, u, n) <=> Due(to, more, u, n + 1))
  PROVE  Quotient(to, more, Append(s, t))
<1>. SUFFICES ASSUME NEW c \in Seq(TypeNames)
              PROVE  IsDocument(Append(s, t) \o c)
                       <=> Due(to, more, Append(s, t) \o c, Len(Append(s, t)) + 1)
  BY DEF Quotient
<1>. DEFINE u == Append(s, t) \o c
            n == Len(s) + 1
<1>1. /\ u = s \o (<<t>> \o c) /\ <<t>> \o c \in Seq(TypeNames) /\ u \in Seq(TypeNames)
      /\ n \in 1 .. Len(u) /\ u[n] = t /\ Len(Append(s, t)) + 1 = n + 1
  BY OneToken
<1>2. IsDocument(u) <=> Due(at, open, u, n)
  BY <1>1 DEF Quotient
<1>. HIDE DEF u, n
<1>3. Due(at, open, u, n) <=> Due(to, more, u, n + 1)
  BY <1>1
<1>. QED BY <1>1, <1>2, <1>3 DEF u

(* A token that cannot come at a place: no document can follow.             *)
LEMMA QuotientWrong ==
  ASSUME NEW s \in Seq(TypeNames), NEW t \in TypeNames, NEW at, NEW open, Quotient(at, open, s),
         \A u \in Seq(TypeNames) : \A n \in 1 .. Len(u) : u[n] = t => ~Due(at, open, u, n)
  PROVE  ~Begins(Append(s, t))
<1>1. ASSUME NEW c \in Seq(TypeNames) PROVE ~IsDocument(Append(s, t) \o c)
  <2>. DEFINE u == Append(s, t) \o c
              n == Len(s) + 1
  <2>1. /\ u = s \o (<<t>> \o c) /\ <<t>> \o c \in Seq(TypeNames) /\ u \in Seq(TypeNames)
        /\ n \in 1 .. Len(u) /\ u[n] = t
    BY OneToken
  <2>2. IsDocument(u) <=> Due(at, open, u, n)
    BY <2>1 DEF Quotient
  <2>. HIDE DEF u, n
  <2>3. ~Due(at, open, u, n)
    BY <2>1
  <2>. QED BY <2>2, <2>3 DEF u
<1>2. ASSUME NEW e \in Missing
      PROVE  /\ e \o Brackets(Append(s, t)) \in Seq(TypeNames)
             /\ (Append(s, t) \o e) \o Brackets(Append(s, t)) = Append(s, t) \o (e \o Brackets(Append(s, t)))
  <2>1. e \in Seq(TypeNames)
    BY MissingSeq
  <2>2. Append(s, t) \in Seq(TypeNames)
    BY AppendLast
  <2>3. Brackets(Append(s, t)) \in Seq(TypeNames)
    BY <2>2, BracketsSeq
  <2>. QED BY <2>1, <2>2, <2>3, ConcatProperties, ConcatAssociative
<1>. QED BY <1>1, <1>2 DEF Begins

-------------------------------------------------------------------------------
(* The parser finds the documents: what was read, where the parser is and   *)
(* what is open agree with the grammar.                                     *)

DocInv ==
  /\ Running =>
       /\ outcome = "none"
       /\ Quotient(pc, Open, Types(tokens))
       /\ Brackets(Types(tokens)) = Closers(Open)
  /\ pc = "errored end" =>
       /\ outcome = "none" /\ consumer # "acceptor" /\ ~allow_exceptions
       /\ GoesWrong(Types(tokens))
  /\ pc = "done" => Accepts

(* The types of tokens.                                                     *)
LEMMA TokenType ==
  ASSUME NEW t \in Tokens
  PROVE  /\ t.type \in TypeNames
         /\ t.type \in Simple => t.type \in (Scalars \ {"infinite_float"}) \cup {"value_string"}
<1>1. Tokens = StringTokens
     \cup {[type |-> x] : x \in Scalars \cup
            {"begin_object", "end_object", "begin_array", "end_array", "name_separator",
             "value_separator", "parse_error", "end_of_input"}}
  BY DEF Tokens
<1>2. CASE t \in StringTokens
  <2>1. t.type = "value_string"
    BY <1>2 DEF StringTokens
  <2>. QED BY <2>1 DEF TypeNames, Simple
<1>3. CASE t \notin StringTokens
  <2>1. PICK x \in Scalars \cup
            {"begin_object", "end_object", "begin_array", "end_array", "name_separator",
             "value_separator", "parse_error", "end_of_input"} : t = [type |-> x]
    BY <1>1, <1>3
  <2>2. t.type = x
    BY <2>1
  <2>3. x \in TypeNames
    <3>1. CASE x \in Scalars
      BY <3>1, JsonParserAssumption DEF TypeNames, Simple
    <3>2. CASE x \notin Scalars
      BY <2>1, <3>2 DEF TypeNames
    <3>. QED BY <3>1, <3>2
  <2>4. x \in Simple => x \in (Scalars \ {"infinite_float"})
    BY <2>1 DEF Simple
  <2>. QED BY <2>2, <2>3, <2>4
<1>. QED BY <1>2, <1>3

LEMMA TypesOf ==
  ASSUME NEW s \in Seq(Tokens)
  PROVE  /\ Types(s) \in Seq(TypeNames) /\ Len(Types(s)) = Len(s)
         /\ \A n \in 1 .. Len(s) : Types(s)[n] = s[n].type
<1>1. Len(s) \in Nat /\ DOMAIN s = 1 .. Len(s)
  BY LenProperties
<1>. DEFINE e(n) == s[n].type
<1>2. \A n \in 1 .. Len(s) : e(n) \in TypeNames
  BY ElementOfSeq, TokenType
<1>3. [n \in 1 .. Len(s) |-> e(n)] \in Seq(TypeNames)
  BY <1>1, <1>2, IsASeq
<1>4. Types(s) = [n \in 1 .. Len(s) |-> e(n)]
  BY <1>1 DEF Types
<1>5. Len([n \in 1 .. Len(s) |-> e(n)]) = Len(s)
  BY <1>1
<1>6. \A n \in 1 .. Len(s) : [m \in 1 .. Len(s) |-> e(m)][n] = s[n].type
  OBVIOUS
<1>. QED BY <1>3, <1>4, <1>5, <1>6

LEMMA TypesMore ==
  ASSUME NEW s \in Seq(Tokens), NEW t \in Tokens
  PROVE  Types(Append(s, t)) = Append(Types(s), t.type)
<1>. DEFINE a == Append(s, t)
            b == Append(Types(s), t.type)
<1>1. /\ a \in Seq(Tokens) /\ Len(a) = Len(s) + 1 /\ a[Len(s) + 1] = t
      /\ \A n \in 1 .. Len(s) : a[n] = s[n]
  BY AppendLast
<1>2. /\ Types(s) \in Seq(TypeNames) /\ Len(Types(s)) = Len(s)
      /\ \A n \in 1 .. Len(s) : Types(s)[n] = s[n].type
  BY TypesOf
<1>3. t.type \in TypeNames
  BY TokenType
<1>4. /\ b \in Seq(TypeNames) /\ Len(b) = Len(s) + 1 /\ b[Len(s) + 1] = t.type
      /\ \A n \in 1 .. Len(s) : b[n] = Types(s)[n]
  BY <1>2, <1>3, AppendLast
<1>. HIDE DEF a, b
<1>5. Types(a) \in Seq(TypeNames) /\ Len(Types(a)) = Len(a) /\ \A n \in 1 .. Len(a) : Types(a)[n] = a[n].type
  BY <1>1, TypesOf
<1>6. Len(s) \in Nat
  BY LenProperties
<1>7. ASSUME NEW n \in 1 .. Len(s) + 1 PROVE Types(a)[n] = b[n]
  <2>1. CASE n = Len(s) + 1
    BY <1>1, <1>4, <1>5, <2>1
  <2>2. CASE n # Len(s) + 1
    <3>1. n \in 1 .. Len(s) /\ n \in 1 .. Len(a)
      BY <1>1, <1>6, <2>2
    <3>. QED BY <1>1, <1>2, <1>4, <1>5, <3>1
  <2>. QED BY <2>1, <2>2
<1>8. Types(a) = b
  BY <1>1, <1>4, <1>5, <1>7, SeqEqual
<1>. QED BY <1>8 DEF a, b

(* What the invariant of the stacks says of the places.                     *)
LEMMA FitsHere ==
  ASSUME IInv, Running
  PROVE  Fits(pc, Open) /\ pc \in Places \ {"done", "errored end"} /\ states \in Seq(BOOLEAN)
<1>1. states \in Seq(BOOLEAN) /\ pc \in Places \ {"done", "errored end"}
  BY DEF IInv, TypeOK, Running
<1>2. /\ Append(states, FALSE) \in Seq(BOOLEAN) /\ Append(states, FALSE) # <<>>
      /\ Last(Append(states, FALSE)) = FALSE
  BY <1>1, AppendFalse
<1>3. states # <<>> => Last(states) \in BOOLEAN
  BY <1>1, LastFront
<1>4. Open \in Seq(BOOLEAN)
  BY <1>1, <1>2 DEF Open
<1>5. pc \in {"first element", "after element"} => Open # <<>> /\ Last(Open) = TRUE
  BY <1>3 DEF IInv, PlaceInv, Open
<1>6. pc \in {"key", "separator", "after member"} => Open # <<>> /\ Last(Open) = FALSE
  BY <1>3 DEF IInv, PlaceInv, Open
<1>7. pc \in {"first key", "first separator"} => Open # <<>> /\ Last(Open) = FALSE
  BY <1>2 DEF Open
<1>8. pc = "end" => Open = <<>>
  BY DEF IInv, PlaceInv, Open
<1>. QED BY <1>1, <1>4, <1>5, <1>6, <1>7, <1>8 DEF Fits

(* While the parser runs, a document can come.                              *)
LEMMA RunningBegins ==
  ASSUME IInv, DocInv, Running
  PROVE  Begins(Types(tokens))
<1>. DEFINE s == Types(tokens)
<1>1. s \in Seq(TypeNames) /\ Quotient(pc, Open, s) /\ Brackets(s) = Closers(Open)
  BY TypesOf DEF DocInv, IInv, TypeOK
<1>2. Fits(pc, Open) /\ pc \in Places \ {"done", "errored end"} /\ Open \in Seq(BOOLEAN)
  BY FitsHere DEF Fits
<1>. HIDE DEF s
<1>3. PICK e \in Missing : e \in Seq(TypeNames) /\ Due(pc, Open, (s \o e) \o Closers(Open), Len(s) + 1)
  BY <1>1, <1>2, Completable
<1>4. /\ (s \o e) \o Closers(Open) = s \o (e \o Closers(Open))
      /\ e \o Closers(Open) \in Seq(TypeNames)
  BY <1>1, <1>2, <1>3, With
<1>5. IsDocument((s \o e) \o Closers(Open))
  BY <1>1, <1>3, <1>4 DEF Quotient
<1>. QED BY <1>1, <1>5 DEF Begins, s

(* A token after which the parser runs on.                                  *)
LEMMA GoesOn ==
  ASSUME IInv, DocInv, Running, NEW t \in Tokens, Read(t), NEW to, NEW more, pc' = to, Open' = more,
         to \notin {"done", "errored end"}, outcome' = outcome,
         \A u \in Seq(TypeNames) : \A n \in 1 .. Len(u) :
           u[n] = t.type => (Due(pc, Open, u, n) <=> Due(to, more, u, n + 1)),
         Pushed(t.type, Closers(Open)) = Closers(more)
  PROVE  DocInv'
<1>1. tokens \in Seq(Tokens) /\ tokens' = Append(tokens, t) /\ t.type \in TypeNames
  BY TokenType DEF IInv, TypeOK, Read
<1>2. Types(tokens) \in Seq(TypeNames) /\ Types(tokens') = Append(Types(tokens), t.type)
  BY <1>1, TypesOf, TypesMore
<1>3. /\ outcome = "none" /\ Quotient(pc, Open, Types(tokens))
      /\ Brackets(Types(tokens)) = Closers(Open)
  BY DEF DocInv
<1>4. Quotient(to, more, Types(tokens'))
  BY <1>1, <1>2, <1>3, QuotientStep
<1>5. Brackets(Types(tokens')) = Closers(more)
  BY <1>1, <1>2, <1>3, BracketsStep
<1>. QED BY <1>3, <1>4, <1>5 DEF DocInv, Running

(* What comes behind a value.                                               *)
LEMMA BehindIs ==
  ASSUME NEW outer \in Seq(BOOLEAN), Complete(outer)
  PROVE  /\ pc' = Behind(outer) /\ Open' = outer /\ outcome' = outcome
         /\ Behind(outer) \notin {"done", "errored end"}
<1>1. outer # <<>> => Last(outer) \in BOOLEAN
  BY LastFront
<1>. QED BY <1>1 DEF Complete, Behind, Open

LEMMA ReadValueDoc == IInv /\ DocInv /\ ReadValue => DocInv'
<1>. SUFFICES ASSUME IInv, DocInv, ReadValue PROVE DocInv'
  OBVIOUS
<1>1. PICK t \in Tokens : /\ Read(t) /\ t.type \in (Scalars \ {"infinite_float"}) \cup {"value_string"}
                          /\ Complete(states)
  BY DEF ReadValue
<1>2. pc \in {"value", "first element"} /\ Running
  BY DEF ReadValue, BeforeValue, Running
<1>3. Open = states /\ Fits(pc, states) /\ states \in Seq(BOOLEAN)
  <2>1. Open = states
    BY <1>2 DEF Open
  <2>. QED BY <1>2, <2>1, FitsHere
<1>4. t.type \in Simple
  BY <1>1, JsonParserAssumption DEF Simple
<1>5. \A u \in Seq(TypeNames) : \A n \in 1 .. Len(u) :
        u[n] = t.type => (Due(pc, Open, u, n) <=> Due(Behind(states), states, u, n + 1))
  BY <1>2, <1>3, <1>4, DueScalar
<1>6. Pushed(t.type, Closers(Open)) = Closers(states)
  BY <1>3, <1>4 DEF Pushed, Simple
<1>. QED BY <1>1, <1>2, <1>3, <1>5, <1>6, BehindIs, GoesOn

LEMMA StartDoc == IInv /\ DocInv /\ (StartArray \/ StartObject) => DocInv'
<1>. SUFFICES ASSUME IInv, DocInv, StartArray \/ StartObject PROVE DocInv'
  OBVIOUS
<1>1. pc \in {"value", "first element"} /\ Running
  BY DEF StartArray, StartObject, BeforeValue, Running
<1>2. Open = states /\ Fits(pc, states) /\ states \in Seq(BOOLEAN)
  <2>1. Open = states
    BY <1>1 DEF Open
  <2>. QED BY <1>1, <2>1, FitsHere
<1>3. CASE StartArray
  <2>. DEFINE t == [type |-> "begin_array"]
  <2>1. t \in Tokens /\ t.type = "begin_array"
    BY KnownTokens
  <2>2. Read(t) /\ pc' = "first element" /\ Open' = Append(states, TRUE) /\ outcome' = outcome
    BY <1>3 DEF StartArray, Open
  <2>. HIDE DEF t
  <2>3. \A u \in Seq(TypeNames) : \A n \in 1 .. Len(u) :
          u[n] = t.type => (Due(pc, Open, u, n) <=> Due("first element", Append(states, TRUE), u, n + 1))
    <3>. TAKE u \in Seq(TypeNames)
    <3>. TAKE n \in 1 .. Len(u)
    <3>2. pc \in {"value", "first element"} /\ Fits(pc, states)
      BY <1>1, <1>2
    <3>1. u[n] = "begin_array" => Passes(pc, states, "first element", Append(states, TRUE), u, n)
      BY <3>2, DueArray
    <3>. QED BY <1>2, <2>1, <3>1 DEF Passes
  <2>4. Pushed(t.type, Closers(Open)) = Closers(Append(states, TRUE))
    BY <1>2, <2>1, ClosersPushed
  <2>. QED BY <1>1, <2>1, <2>2, <2>3, <2>4, GoesOn
<1>4. CASE StartObject
  <2>. DEFINE t == [type |-> "begin_object"]
  <2>1. t \in Tokens /\ t.type = "begin_object"
    BY KnownTokens
  <2>2. Read(t) /\ pc' = "first key" /\ Open' = Append(states, FALSE) /\ outcome' = outcome
    BY <1>4 DEF StartObject, Open, Goto
  <2>. HIDE DEF t
  <2>3. \A u \in Seq(TypeNames) : \A n \in 1 .. Len(u) :
          u[n] = t.type => (Due(pc, Open, u, n) <=> Due("first key", Append(states, FALSE), u, n + 1))
    <3>. TAKE u \in Seq(TypeNames)
    <3>. TAKE n \in 1 .. Len(u)
    <3>2. pc \in {"value", "first element"} /\ Fits(pc, states)
      BY <1>1, <1>2
    <3>1. u[n] = "begin_object" => (Due(pc, states, u, n) <=> Due("first key", Append(states, FALSE), u, n + 1))
      BY <3>2, DueObject
    <3>. QED BY <1>2, <2>1, <3>1
  <2>4. Pushed(t.type, Closers(Open)) = Closers(Append(states, FALSE))
    BY <1>2, <2>1, ClosersPushed
  <2>. QED BY <1>1, <2>1, <2>2, <2>3, <2>4, GoesOn
<1>. QED BY <1>3, <1>4

LEMMA EndDoc == IInv /\ DocInv /\ (EndArray \/ EndObject) => DocInv'
<1>. SUFFICES ASSUME IInv, DocInv, EndArray \/ EndObject PROVE DocInv'
  OBVIOUS
<1>1. Running
  BY DEF EndArray, EndObject, Running
<1>2. Fits(pc, Open) /\ states \in Seq(BOOLEAN)
  BY <1>1, FitsHere
<1>3. PICK t \in Tokens :
        /\ Read(t)
        /\ \/ pc \in {"first element", "after element"} /\ t.type = "end_array"
           \/ pc \in {"first key", "after member"} /\ t.type = "end_object"
  <2>1. /\ [type |-> "end_array"] \in Tokens /\ [type |-> "end_array"].type = "end_array"
        /\ [type |-> "end_object"] \in Tokens /\ [type |-> "end_object"].type = "end_object"
    BY KnownTokens
  <2>. QED BY <2>1 DEF EndArray, EndObject
<1>4. Complete(Front(Open)) /\ Open # <<>> /\ Open \in Seq(BOOLEAN) /\ Front(Open) \in Seq(BOOLEAN)
  <2>1. Open # <<>> /\ Open \in Seq(BOOLEAN)
    BY <1>2, <1>3 DEF Fits
  <2>2. Front(Append(states, FALSE)) = states
    BY <1>2, AppendFalse
  <2>3. Complete(Front(Open))
    BY <2>2 DEF EndArray, EndObject, Open
  <2>. QED BY <2>1, <2>3, LastFront
<1>5. \A u \in Seq(TypeNames) : \A n \in 1 .. Len(u) :
        u[n] = t.type => (Due(pc, Open, u, n) <=> Due(Behind(Front(Open)), Front(Open), u, n + 1))
  BY <1>2, <1>3, DueEnd
<1>6. Pushed(t.type, Closers(Open)) = Closers(Front(Open))
  BY <1>3, <1>4, ClosersPushed
<1>. QED BY <1>1, <1>3, <1>4, <1>5, <1>6, BehindIs, GoesOn

(* The tokens that open and close nothing.                                  *)
LEMMA OthersDoc == IInv /\ DocInv /\ (Separator \/ ReadKey \/ NameSeparator) => DocInv'
<1>. SUFFICES ASSUME IInv, DocInv, Separator \/ ReadKey \/ NameSeparator PROVE DocInv'
  OBVIOUS
<1>1. Running
  BY DEF Separator, ReadKey, NameSeparator, Running
<1>2. Fits(pc, Open) /\ states \in Seq(BOOLEAN)
  BY <1>1, FitsHere
<1>3. CASE Separator
  <2>. DEFINE t == [type |-> "value_separator"]
              to == IF pc = "after element" THEN "value" ELSE "key"
  <2>1. t \in Tokens /\ t.type = "value_separator"
    BY KnownTokens
  <2>2. pc \in AfterPlaces /\ Read(t) /\ pc' = to /\ Open' = Open /\ outcome' = outcome
    BY <1>3 DEF Separator, Open, Goto, AfterPlaces
  <2>3. to \notin {"done", "errored end"}
    OBVIOUS
  <2>. HIDE DEF t
  <2>4. \A u \in Seq(TypeNames) : \A n \in 1 .. Len(u) :
          u[n] = t.type => (Due(pc, Open, u, n) <=> Due(to, Open, u, n + 1))
    BY <1>2, <2>1, <2>2, DueSeparator
  <2>5. Pushed(t.type, Closers(Open)) = Closers(Open)
    BY <2>1 DEF Pushed
  <2>. HIDE DEF to
  <2>. QED BY <1>1, <2>1, <2>2, <2>3, <2>4, <2>5, GoesOn
<1>4. CASE ReadKey
  <2>. DEFINE to == IF pc = "first key" THEN "first separator" ELSE "separator"
  <2>1. PICK t \in StringTokens : Read(t)
    BY <1>4 DEF ReadKey
  <2>2. t \in Tokens /\ t.type = "value_string"
    BY DEF Tokens, StringTokens
  <2>3. pc \in {"first key", "key"} /\ pc' = to /\ Open' = Open /\ outcome' = outcome
    BY <1>4 DEF ReadKey, Open
  <2>4. to \notin {"done", "errored end"} /\ to \in {"first separator", "separator"}
    OBVIOUS
  <2>. HIDE DEF to
  <2>5. \A u \in Seq(TypeNames) : \A n \in 1 .. Len(u) :
          u[n] = t.type => (Due(pc, Open, u, n) <=> Due(to, Open, u, n + 1))
    BY <1>2, <2>2, <2>3, <2>4, DueKey
  <2>6. Pushed(t.type, Closers(Open)) = Closers(Open)
    BY <2>2 DEF Pushed
  <2>. QED BY <1>1, <2>1, <2>2, <2>3, <2>4, <2>5, <2>6, GoesOn
<1>5. CASE NameSeparator
  <2>. DEFINE t == [type |-> "name_separator"]
  <2>1. t \in Tokens /\ t.type = "name_separator"
    BY KnownTokens
  <2>2. pc \in {"first separator", "separator"} /\ Read(t) /\ pc' = "value" /\ Open' = Open /\ outcome' = outcome
    BY <1>5 DEF NameSeparator, Open
  <2>. HIDE DEF t
  <2>3. \A u \in Seq(TypeNames) : \A n \in 1 .. Len(u) :
          u[n] = t.type => (Due(pc, Open, u, n) <=> Due("value", Open, u, n + 1))
    BY <2>1, <2>2, DueName
  <2>4. Pushed(t.type, Closers(Open)) = Closers(Open)
    BY <2>1 DEF Pushed
  <2>. QED BY <1>1, <2>1, <2>2, <2>3, <2>4, GoesOn
<1>. QED BY <1>3, <1>4, <1>5

(* The last element goes.                                                   *)
LEMMA WrongNow ==
  ASSUME NEW s \in Seq(TypeNames), NEW t \in TypeNames, Begins(s), ~Begins(Append(s, t))
  PROVE  GoesWrong(Append(s, t))
<1>1. Append(s, t) # <<>>
  BY AppendLast
<1>2. Front(Append(s, t)) = s
  BY FrontOfAppend
<1>. QED BY <1>1, <1>2 DEF GoesWrong, Front

LEMMA UnexpectedDoc == IInv /\ DocInv /\ Unexpected => DocInv'
<1>. SUFFICES ASSUME IInv, DocInv, Unexpected PROVE DocInv'
  OBVIOUS
<1>1. Running /\ (pc = "end" => strict) /\ Fail /\ UNCHANGED parameters
  BY DEF Unexpected, Running
<1>2. PICK t \in Tokens : Read(t) /\ t.type \notin Expected
  BY DEF Unexpected
<1>3. tokens \in Seq(Tokens) /\ tokens' = Append(tokens, t) /\ t.type \in TypeNames
  BY <1>2, TokenType DEF IInv, TypeOK, Read
<1>4. Types(tokens) \in Seq(TypeNames) /\ Types(tokens') = Append(Types(tokens), t.type)
  BY <1>3, TypesOf, TypesMore
<1>5. Fits(pc, Open) /\ pc \in Places \ {"done", "errored end"}
  BY <1>1, FitsHere
<1>6. t.type \notin Possible(pc)
  <2>1. pc \in {"value", "first element"} => t.type \notin Simple
    BY <1>2, TokenType DEF Expected
  <2>. QED BY <1>2, <1>5, <2>1 DEF Expected, Possible, Places
<1>7. \A u \in Seq(TypeNames) : \A n \in 1 .. Len(u) : u[n] = t.type => ~Due(pc, Open, u, n)
  BY <1>5, <1>6, DueNothing
<1>8. ~Begins(Types(tokens'))
  BY <1>1, <1>3, <1>4, <1>7, QuotientWrong DEF DocInv
<1>9. GoesWrong(Types(tokens'))
  BY <1>1, <1>3, <1>4, <1>8, RunningBegins, WrongNow
<1>10. outcome = "none"
  BY <1>1 DEF DocInv
<1>11. CASE pc' = "errored end"
  BY <1>1, <1>9, <1>10, <1>11 DEF DocInv, Fail, Running, parameters
<1>12. CASE pc' # "errored end"
  <2>1. pc' = "done" /\ outcome' \in {"false", "thrown"}
    BY <1>1, <1>12 DEF Fail
  <2>2. Text' = Types(tokens')
    BY <2>1 DEF Text
  <2>3. Accepts'
    BY <1>9, <2>1, <2>2 DEF Accepts
  <2>. QED BY <2>1, <2>3 DEF DocInv, Running
<1>. QED BY <1>11, <1>12

LEMMA FinishDoc == IInv /\ DocInv /\ Finish => DocInv'
<1>. SUFFICES ASSUME IInv, DocInv, Finish PROVE DocInv'
  OBVIOUS
<1>1. pc = "end" /\ Running /\ pc' = "done" /\ outcome' = "true" /\ strict' = strict
  BY DEF Finish, Running, parameters
<1>2. tokens \in Seq(Tokens) /\ Types(tokens) \in Seq(TypeNames) /\ Len(Types(tokens)) = Len(tokens)
  BY TypesOf DEF IInv, TypeOK
<1>3. IsDocument(Types(tokens))
  <2>1. Quotient("end", Open, Types(tokens))
    BY <1>1 DEF DocInv
  <2>2. Types(tokens) \o <<>> = Types(tokens) /\ <<>> \in Seq(TypeNames)
    BY <1>2, ConcatEmptySeq, EmptySeq
  <2>3. Due("end", Open, Types(tokens), Len(Types(tokens)) + 1)
    BY DEF Due, AfterPlaces
  <2>. QED BY <2>1, <2>2, <2>3 DEF Quotient
<1>4. Text' = Types(tokens)
  <2>1. CASE strict
    <3>1. End \in Tokens /\ tokens' = Append(tokens, End)
      BY <2>1, KnownTokens DEF Finish, Read, End
    <3>2. Front(tokens') = tokens
      BY <1>2, <3>1, FrontOfAppend
    <3>. QED BY <1>1, <2>1, <3>2 DEF Text
  <2>2. CASE ~strict
    BY <1>1, <2>2 DEF Text, Finish
  <2>. QED BY <2>1, <2>2
<1>5. Accepts'
  BY <1>1, <1>3, <1>4 DEF Accepts
<1>. QED BY <1>1, <1>5 DEF DocInv, Running

LEMMA FinishErroredDoc == IInv /\ DocInv /\ FinishErrored => DocInv'
<1>. SUFFICES ASSUME IInv, DocInv, FinishErrored PROVE DocInv'
  OBVIOUS
<1>1. /\ pc = "errored end" /\ pc' = "done" /\ outcome' = "false" /\ strict' = strict
      /\ consumer' = consumer /\ allow_exceptions' = allow_exceptions
  BY DEF FinishErrored, parameters
<1>2. consumer # "acceptor" /\ ~allow_exceptions /\ GoesWrong(Types(tokens))
  BY <1>1 DEF DocInv
<1>3. Text' = Types(tokens')
  BY <1>1 DEF Text
<1>4. CASE strict
  <2>1. PICK t \in Tokens : tokens' = Append(tokens, t)
    BY <1>4 DEF FinishErrored, Read
  <2>2. tokens \in Seq(Tokens) /\ Types(tokens) \in Seq(TypeNames) /\ t.type \in TypeNames
    BY TypesOf, TokenType DEF IInv, TypeOK
  <2>3. Types(tokens') = Append(Types(tokens), t.type)
    BY <2>1, <2>2, TypesMore
  <2>4. Front(Types(tokens')) = Types(tokens)
    BY <2>2, <2>3, FrontOfAppend
  <2>5. Accepts'
    BY <1>1, <1>2, <1>3, <1>4, <2>4 DEF Accepts
  <2>. QED BY <1>1, <2>5 DEF DocInv, Running
<1>5. CASE ~strict
  <2>1. tokens' = tokens
    BY <1>5 DEF FinishErrored
  <2>2. Accepts'
    BY <1>1, <1>2, <1>3, <2>1 DEF Accepts
  <2>. QED BY <1>1, <2>2 DEF DocInv, Running
<1>. QED BY <1>4, <1>5

LEMMA StutterDoc == DocInv /\ UNCHANGED vars => DocInv'
<1>. SUFFICES ASSUME DocInv, UNCHANGED vars PROVE DocInv'
  OBVIOUS
<1>. USE DEF vars, parameters, dom
<1>1. Open' = Open
  BY DEF Open
<1>2. Text' = Text
  BY DEF Text
<1>3. Accepts' <=> Accepts
  BY <1>2 DEF Accepts
<1>. QED BY <1>1, <1>3 DEF DocInv, Running

LEMMA InitDoc == Init => DocInv
<1>. SUFFICES ASSUME Init PROVE DocInv
  OBVIOUS
<1>1. pc = "value" /\ states = <<>> /\ tokens = <<>> /\ outcome = "none" /\ Open = <<>> /\ Running
  BY DEF Init, Open, Running
<1>2. Types(tokens) = <<>>
  <2>1. <<>> \in Seq(Tokens) /\ Len(<<>>) = 0
    BY EmptySeq
  <2>2. Types(<<>>) \in Seq(TypeNames) /\ Len(Types(<<>>)) = Len(<<>>)
    BY <2>1, TypesOf
  <2>. QED BY <1>1, <2>1, <2>2, EmptySeq
<1>3. Brackets(<<>>) = Closers(<<>>)
  <2>1. <<>> \in Seq(BOOLEAN)
    BY EmptySeq
  <2>. QED BY <2>1, BracketsNone, ClosersPushed
<1>4. Quotient("value", <<>>, <<>>)
  <2>. SUFFICES ASSUME NEW c \in Seq(TypeNames)
                PROVE  IsDocument(<<>> \o c) <=> Due("value", <<>>, <<>> \o c, Len(<<>>) + 1)
    BY DEF Quotient
  <2>1. <<>> \o c = c /\ Len(<<>>) + 1 = 1
    BY ConcatEmptySeq, EmptySeq
  <2>2. Due("value", <<>>, c, 1) <=> ValueAt(c, 1) = Len(c) + 1
    BY FinishesNone DEF Due, AfterPlaces
  <2>3. IsDocument(c) <=> ValueAt(c, 1) = Len(c) + 1
    BY DEF IsDocument, ValueAt
  <2>. QED BY <2>1, <2>2, <2>3
<1>. QED BY <1>1, <1>2, <1>3, <1>4 DEF DocInv, Running

(* For every input and every answer of the callback, each of the three      *)
(* consumers finds a JSON document exactly where there is one, asks for no  *)
(* token behind it but the end, and finds an error at the first token that  *)
(* cannot be right (json.hpp:10913-10965, 11003-11270).                     *)
THEOREM DocumentsAccepted == Spec => []Accepts
<1>1. IInv /\ DocInv /\ [Next]_vars => DocInv'
  BY ReadValueDoc, StartDoc, EndDoc, OthersDoc, UnexpectedDoc, FinishDoc, FinishErroredDoc,
     StutterDoc DEF Next
<1>2. IInv /\ DocInv => Accepts
  <2>. SUFFICES ASSUME IInv, DocInv PROVE Accepts
    OBVIOUS
  <2>1. CASE Running
    <3>1. outcome = "none" /\ Begins(Types(tokens))
      BY <2>1, RunningBegins DEF DocInv
    <3>. QED BY <3>1 DEF Accepts, Text
  <2>2. CASE pc = "errored end"
    BY <2>2 DEF DocInv, Accepts
  <2>3. CASE pc = "done"
    BY <2>3 DEF DocInv
  <2>. QED BY <2>1, <2>2, <2>3 DEF Running
<1>. QED BY InitDoc, Invariance, <1>1, <1>2, PTL DEF Spec
================================================================================

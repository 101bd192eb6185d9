---------------------------- MODULE ArrayProofs -----------------------------
(***************************************************************************)
(* Proof that what an array keeps about its list stays true of it through  *)
(* the operations of array.c and the loops of arrayfunc.c and variables.c, *)
(* for every set of values, every index and every number of words.  Then   *)
(* that the tables behind array variables are dictionaries, for every set  *)
(* of keys and values, every hash and every index: what the roving pointer *)
(* of array.c and the growth of hashlib.c do is not seen.                  *)
(***************************************************************************)
EXTENDS ArrayDictionaries, SequenceTheorems, FiniteSetTheorems, NatLemmas, TLAPS

\* What an array is made of: its list, and numbers.
Elements(V) == [ind : Nat, value : V]
Parts(V) ==
  [elements : Seq(Elements(V)), max_index : Int, num_elements : Nat, lastref : Nat]
IsArray(a, V) == a \in Parts(V) /\ ArrayOK(a)

LEMMA EmptyArray == ASSUME NEW V PROVE IsArray(array_create, V)
  BY EmptySeq DEF IsArray, Parts, ArrayOK, array_create, Ind, IndexOfLast, Elements

LEMMA InsertedElements ==
  ASSUME NEW S, NEW s \in Seq(S), NEW p \in 1 .. Len(s) + 1, NEW new \in S
  PROVE  /\ InsertAt(s, p, new) \in Seq(S)
         /\ Len(InsertAt(s, p, new)) = Len(s) + 1
         /\ \A q \in 1 .. Len(s) + 1 :
              InsertAt(s, p, new)[q] =
                IF q < p THEN s[q] ELSE IF q = p THEN new ELSE s[q - 1]
<1> DEFINE before == SubSeq(s, 1, p - 1)
           after == SubSeq(s, p, Len(s))
<1>1. Len(s) \in Nat /\ \A q \in 1 .. Len(s) : s[q] \in S
  BY ElementOfSeq
<1>2. /\ before \in Seq(S) /\ Len(before) = p - 1
      /\ \A q \in 1 .. p - 1 : before[q] = s[q]
  BY <1>1, SubSeqProperties
<1>3. /\ after \in Seq(S) /\ Len(after) = Len(s) - p + 1
      /\ \A q \in 1 .. Len(s) - p + 1 : after[q] = s[p + q - 1]
  BY <1>1, SubSeqProperties
<1>4. <<new>> \in Seq(S) /\ Len(<<new>>) = 1 /\ <<new>>[1] = new
  OBVIOUS
<1>5. InsertAt(s, p, new) = before \o <<new>> \o after
  BY DEF InsertAt
<1> HIDE DEF before, after
<1> DEFINE upTo == before \o <<new>>
<1>6. /\ upTo \in Seq(S) /\ Len(upTo) = p
      /\ \A q \in 1 .. p : upTo[q] = IF q <= p - 1 THEN before[q] ELSE <<new>>[q - (p - 1)]
  BY <1>2, <1>4, ConcatProperties
<1>7. \A q \in 1 .. p : upTo[q] = IF q < p THEN s[q] ELSE new
  BY <1>1, <1>2, <1>4, <1>6
<1> HIDE DEF upTo
<1>8. /\ upTo \o after \in Seq(S) /\ Len(upTo \o after) = Len(s) + 1
      /\ \A q \in 1 .. Len(s) + 1 :
           (upTo \o after)[q] = IF q <= p THEN upTo[q] ELSE after[q - p]
  <2>1. Len(upTo) + Len(after) = Len(s) + 1
    BY <1>1, <1>3, <1>6
  <2>2. /\ upTo \o after \in Seq(S) /\ Len(upTo \o after) = Len(upTo) + Len(after)
        /\ \A q \in 1 .. Len(upTo) + Len(after) :
             (upTo \o after)[q] = IF q <= Len(upTo) THEN upTo[q] ELSE after[q - Len(upTo)]
    BY <1>3, <1>6, ConcatProperties
  <2> QED
    BY <2>1, <2>2, <1>6
<1>9. InsertAt(s, p, new) = upTo \o after
  BY <1>5 DEF upTo
<1> QED
  BY <1>1, <1>3, <1>7, <1>8, <1>9

LEMMA ReplacedValue ==
  ASSUME NEW V, NEW s \in Seq(Elements(V)), NEW p \in 1 .. Len(s), NEW v \in V
  PROVE  /\ [s EXCEPT ![p].value = v] \in Seq(Elements(V))
         /\ Len([s EXCEPT ![p].value = v]) = Len(s)
         /\ \A q \in 1 .. Len(s) : [s EXCEPT ![p].value = v][q].ind = s[q].ind
<1> DEFINE new == [s[p] EXCEPT !.value = v]
<1>1. s[p] \in Elements(V)
  BY ElementOfSeq
<1>2. new \in Elements(V) /\ new.ind = s[p].ind
  BY <1>1 DEF Elements
<1>3. [s EXCEPT ![p].value = v] = [s EXCEPT ![p] = new]
  OBVIOUS
<1> HIDE DEF new
<1>4. [s EXCEPT ![p] = new] \in Seq(Elements(V)) /\ Len([s EXCEPT ![p] = new]) = Len(s)
  BY <1>2
<1>5. \A q \in 1 .. Len(s) : [s EXCEPT ![p] = new][q].ind = s[q].ind
  BY <1>2
<1> QED
  BY <1>3, <1>4, <1>5

LEMMA RemovedElements ==
  ASSUME NEW S, NEW s \in Seq(S), NEW p \in 1 .. Len(s)
  PROVE  /\ RemoveAt(s, p) \in Seq(S)
         /\ Len(RemoveAt(s, p)) = Len(s) - 1
         /\ \A q \in 1 .. Len(s) - 1 : RemoveAt(s, p)[q] = IF q < p THEN s[q] ELSE s[q + 1]
<1> DEFINE before == SubSeq(s, 1, p - 1)
           after == SubSeq(s, p + 1, Len(s))
<1>1. Len(s) \in Nat /\ \A q \in 1 .. Len(s) : s[q] \in S
  BY ElementOfSeq
<1>2. /\ before \in Seq(S) /\ Len(before) = p - 1
      /\ \A q \in 1 .. p - 1 : before[q] = s[q]
  BY <1>1, SubSeqProperties
<1>3. /\ after \in Seq(S) /\ Len(after) = Len(s) - p
      /\ \A q \in 1 .. Len(s) - p : after[q] = s[p + q]
  BY <1>1, SubSeqProperties
<1>4. RemoveAt(s, p) = before \o after
  BY DEF RemoveAt
<1> HIDE DEF before, after
<1>5. /\ before \o after \in Seq(S) /\ Len(before \o after) = Len(s) - 1
      /\ \A q \in 1 .. Len(s) - 1 :
           (before \o after)[q] = IF q <= p - 1 THEN before[q] ELSE after[q - (p - 1)]
  <2>1. Len(before) + Len(after) = Len(s) - 1
    BY <1>1, <1>2, <1>3
  <2>2. /\ before \o after \in Seq(S) /\ Len(before \o after) = Len(before) + Len(after)
        /\ \A q \in 1 .. Len(before) + Len(after) :
             (before \o after)[q] = IF q <= Len(before) THEN before[q] ELSE after[q - Len(before)]
    BY <1>2, <1>3, ConcatProperties
  <2> QED
    BY <2>1, <2>2, <1>2
<1> QED
  BY <1>1, <1>2, <1>3, <1>4, <1>5

\* Greatest and least elements, as FiniteSetsExt chooses them.
LEMMA MinFacts ==
  ASSUME NEW T, T \subseteq Nat, T # {}
  PROVE  Min(T) \in T /\ \A x \in T : Min(T) <= x
<1>1. \E x \in T : \A y \in T : x <= y
  BY LeastNat
<1> QED
  BY <1>1, Zenon DEF Min

LEMMA MaxFacts ==
  ASSUME NEW n \in Nat, NEW T, T \subseteq 0 .. n, T # {}
  PROVE  Max(T) \in T /\ \A x \in T : x <= Max(T)
<1> DEFINE U == {n - x : x \in T}
<1>1. U \subseteq Nat /\ U # {}
  <2>1. \A x \in T : n - x \in Nat
    OBVIOUS
  <2>2. PICK x \in T : TRUE
    OBVIOUS
  <2> QED
    BY <2>1, <2>2
<1>2. PICK u \in U : \A y \in U : u <= y
  BY <1>1, LeastNat
<1>3. PICK x \in T : u = n - x
  BY <1>2
<1>4. \A y \in T : x >= y
  <2> SUFFICES ASSUME NEW y \in T PROVE x >= y
    OBVIOUS
  <2>1. n - x <= n - y
    BY <1>2, <1>3
  <2> QED
    BY <2>1
<1>5. Max(T) \in T /\ \A y \in T : Max(T) >= y
  BY <1>4, Zenon DEF Max
<1> QED
  BY <1>5

LEMMA ArrayShape ==
  ASSUME NEW V, NEW a, IsArray(a, V)
  PROVE  /\ a.elements \in Seq(Elements(V)) /\ Len(a.elements) \in Nat
         /\ \A p \in 1 .. Len(a.elements) :
              a.elements[p] \in Elements(V) /\ Ind(a, p) \in Nat
         /\ \A p, q \in 1 .. Len(a.elements) : p < q => Ind(a, p) < Ind(a, q)
         /\ a.num_elements = Len(a.elements)
         /\ a.num_elements # 0 =>
              a.max_index = Ind(a, Len(a.elements)) /\ array_first_index(a) = Ind(a, 1)
         /\ a.lastref \in 0 .. Len(a.elements)
<1>1. a.elements \in Seq(Elements(V)) /\ Len(a.elements) \in Nat
  BY DEF IsArray, Parts
<1>2. \A p \in 1 .. Len(a.elements) : a.elements[p] \in Elements(V)
  BY <1>1, ElementOfSeq
<1>3. \A p \in 1 .. Len(a.elements) : a.elements[p].ind \in Nat
  BY <1>2 DEF Elements
<1> QED
  BY <1>1, <1>2, <1>3, SMTT(30) DEF IsArray, ArrayOK, Ind, IndexOfLast, array_first_index

\* A search for an index in range ends at an element, and everything before it
\* (if it went forward) or after it is on the other side of the index, wherever
\* the roving pointer was.
LEMMA SearchEnds ==
  ASSUME NEW V, NEW a, IsArray(a, V), NEW j \in Nat, ~OutOfRange(a, j)
  PROVE  /\ Search(a, j) \in 1 .. Len(a.elements)
         /\ Forward(a, j) => /\ Ind(a, Search(a, j)) >= j
                             /\ \A q \in 1 .. Search(a, j) - 1 : Ind(a, q) < j
         /\ ~Forward(a, j) => /\ Ind(a, Search(a, j)) <= j
                              /\ \A q \in Search(a, j) + 1 .. Len(a.elements) : Ind(a, q) > j
<1> DEFINE n == Len(a.elements)
<1>1. /\ n \in Nat \ {0} /\ Ind(a, 1) <= j /\ j <= Ind(a, n)
      /\ \A p \in 1 .. n : Ind(a, p) \in Nat
      /\ \A p, q \in 1 .. n : p < q => Ind(a, p) < Ind(a, q)
      /\ LASTREF(a) \in 1 .. n
  BY ArrayShape DEF OutOfRange, LASTREF
<1>2. Start(a, j) \in 1 .. n
  BY <1>1 DEF Start
<1>3. ASSUME Forward(a, j)
      PROVE  /\ Search(a, j) \in 1 .. n /\ Ind(a, Search(a, j)) >= j
             /\ \A q \in 1 .. Search(a, j) - 1 : Ind(a, q) < j
  <2> DEFINE T == {p \in Start(a, j) .. n : Ind(a, p) >= j} \cup {n + 1}
  <2>1. T \subseteq Nat /\ n \in T
    BY <1>1, <1>2
  <2>2. Min(T) \in T /\ \A x \in T : Min(T) <= x
    BY <2>1, MinFacts
  <2> HIDE DEF T
  <2>3. Search(a, j) = Min(T)
    BY <1>3 DEF Search, T
  <2>4. Min(T) \in Start(a, j) .. n /\ Ind(a, Min(T)) >= j
    BY <1>1, <1>2, <2>1, <2>2 DEF T
  <2>5. ASSUME NEW q \in 1 .. Min(T) - 1 PROVE Ind(a, q) < j
    <3>1. CASE q >= Start(a, j)
      <4>1. q \notin T
        BY <2>2, <2>4, <1>2
      <4> QED
        BY <4>1, <3>1, <1>1, <1>2, <2>4 DEF T
    <3>2. CASE q < Start(a, j)
      <4>1. Start(a, j) = LASTREF(a) /\ j >= Ind(a, LASTREF(a))
        BY <3>2, <1>1, <1>3 DEF Start, Forward
      <4> QED
        BY <4>1, <3>2, <1>1, <2>4
    <3> QED
      BY <3>1, <3>2, <1>2
  <2> QED
    BY <2>3, <2>4, <2>5, <1>2
<1>4. ASSUME ~Forward(a, j)
      PROVE  /\ Search(a, j) \in 1 .. n /\ Ind(a, Search(a, j)) <= j
             /\ \A q \in Search(a, j) + 1 .. n : Ind(a, q) > j
  <2> DEFINE T == {p \in 1 .. Start(a, j) : Ind(a, p) <= j} \cup {0}
  <2>1. T \subseteq 0 .. n /\ 1 \in T
    BY <1>1, <1>2
  <2>2. Max(T) \in T /\ \A x \in T : x <= Max(T)
    BY <2>1, <1>1, MaxFacts
  <2> HIDE DEF T
  <2>3. Search(a, j) = Max(T)
    BY <1>4 DEF Search, T
  <2>4. Max(T) \in 1 .. Start(a, j) /\ Ind(a, Max(T)) <= j
    BY <1>1, <1>2, <2>1, <2>2 DEF T
  <2>5. ASSUME NEW q \in Max(T) + 1 .. n PROVE Ind(a, q) > j
    <3>1. CASE q <= Start(a, j)
      <4>1. q \notin T
        BY <2>2, <2>4, <1>2
      <4> QED
        BY <4>1, <3>1, <1>1, <1>2, <2>4 DEF T
    <3>2. CASE q > Start(a, j)
      <4>1. Start(a, j) = LASTREF(a) /\ j < Ind(a, LASTREF(a))
        BY <1>1, <1>4 DEF Start, Forward
      <4> QED
        BY <4>1, <3>2, <1>1, <2>4
    <3> QED
      BY <3>1, <3>2, <1>2, <2>4
  <2> QED
    BY <2>3, <2>4, <2>5, <1>2
<1> QED
  BY <1>3, <1>4

----------------------------------------------------------------------------
\* Four fields are an array if the list ascends and the others describe it.
LEMMA FieldsAreArray ==
  ASSUME NEW V, NEW a \in Parts(V),
         \A p, q \in 1 .. Len(a.elements) : p < q => Ind(a, p) < Ind(a, q),
         a.num_elements = Len(a.elements), a.max_index = IndexOfLast(a.elements),
         a.lastref \in 0 .. Len(a.elements)
  PROVE  IsArray(a, V)
<1>1. a.elements \in Seq(Elements(V))
  BY DEF Parts
<1>2. \A p \in 1 .. Len(a.elements) : a.elements[p] \in Elements(V)
  BY <1>1, ElementOfSeq
<1>3. \A p \in 1 .. Len(a.elements) : Ind(a, p) \in Nat
  BY <1>2 DEF Elements, Ind
<1>4. DOMAIN a.elements = 1 .. Len(a.elements)
  BY <1>1
<1> QED
  BY <1>3, <1>4 DEF IsArray, ArrayOK

LEMMA HookFields ==
  ASSUME NEW V, NEW a \in Parts(V), NEW p \in Nat, NEW new, NEW m \in Int,
         InsertAt(a.elements, p, new) \in Seq(Elements(V))
  PROVE  /\ Hook(a, p, new) \in Parts(V)
         /\ Hook(a, p, new).elements = InsertAt(a.elements, p, new)
         /\ Hook(a, p, new).max_index = a.max_index
         /\ Hook(a, p, new).num_elements = a.num_elements + 1
         /\ Hook(a, p, new).lastref = p
         /\ [Hook(a, p, new) EXCEPT !.max_index = m] \in Parts(V)
         /\ [Hook(a, p, new) EXCEPT !.max_index = m].elements = InsertAt(a.elements, p, new)
         /\ [Hook(a, p, new) EXCEPT !.max_index = m].max_index = m
         /\ [Hook(a, p, new) EXCEPT !.max_index = m].num_elements = a.num_elements + 1
         /\ [Hook(a, p, new) EXCEPT !.max_index = m].lastref = p
<1> DEFINE h == Hook(a, p, new)
<1>1. a.num_elements + 1 \in Nat
  BY DEF Parts
<1>2. h \in Parts(V)
  BY <1>1, Zenon DEF Hook, Parts
<1>3. /\ h.elements = InsertAt(a.elements, p, new) /\ h.max_index = a.max_index
      /\ h.num_elements = a.num_elements + 1 /\ h.lastref = p
  BY SMT DEF Hook, Parts
<1> HIDE DEF h
<1>4. [h EXCEPT !.max_index = m] \in Parts(V)
  BY <1>2, Zenon DEF Parts
<1>5. /\ [h EXCEPT !.max_index = m].elements = h.elements
      /\ [h EXCEPT !.max_index = m].max_index = m
      /\ [h EXCEPT !.max_index = m].num_elements = h.num_elements
      /\ [h EXCEPT !.max_index = m].lastref = h.lastref
  BY <1>2, SMT DEF Parts
<1> QED
  BY <1>2, <1>3, <1>4, <1>5 DEF h

\* A new element at its place.
LEMMA HookKeeps ==
  ASSUME NEW V, NEW a, IsArray(a, V), NEW p \in 1 .. Len(a.elements) + 1,
         NEW j \in Nat, NEW v \in V,
         \A q \in 1 .. p - 1 : Ind(a, q) < j,
         \A q \in p .. Len(a.elements) : j < Ind(a, q)
  PROVE  /\ p <= Len(a.elements) => IsArray(Hook(a, p, Element(j, v)), V)
         /\ p > Len(a.elements) =>
              IsArray([Hook(a, p, Element(j, v)) EXCEPT !.max_index = j], V)
<1> DEFINE s == a.elements
           n == Len(s)
           new == Element(j, v)
           h == Hook(a, p, new)
           g == [h EXCEPT !.max_index = j]
<1>1. /\ s \in Seq(Elements(V)) /\ n \in Nat /\ a.num_elements = n
      /\ n # 0 => a.max_index = Ind(a, n)
      /\ \A q \in 1 .. n : Ind(a, q) \in Nat
      /\ \A q, r \in 1 .. n : q < r => Ind(a, q) < Ind(a, r)
  BY ArrayShape
<1>2. new \in Elements(V) /\ new.ind = j
  BY DEF Element, Elements
<1> HIDE DEF new
<1>3. /\ InsertAt(s, p, new) \in Seq(Elements(V)) /\ Len(InsertAt(s, p, new)) = n + 1
      /\ \A q \in 1 .. n + 1 :
           InsertAt(s, p, new)[q] = IF q < p THEN s[q] ELSE IF q = p THEN new ELSE s[q - 1]
  <2>1. s \in Seq(Elements(V)) /\ p \in 1 .. Len(s) + 1 /\ new \in Elements(V)
    BY <1>1, <1>2
  <2> HIDE DEF s, h, g
  <2>2. /\ InsertAt(s, p, new) \in Seq(Elements(V)) /\ Len(InsertAt(s, p, new)) = Len(s) + 1
        /\ \A q \in 1 .. Len(s) + 1 :
             InsertAt(s, p, new)[q] = IF q < p THEN s[q] ELSE IF q = p THEN new ELSE s[q - 1]
    BY <2>1, InsertedElements
  <2> QED
    BY <2>2
<1>4. /\ h \in Parts(V) /\ h.elements = InsertAt(s, p, new) /\ h.max_index = a.max_index
      /\ h.num_elements = n + 1 /\ h.lastref = p
      /\ g \in Parts(V) /\ g.elements = InsertAt(s, p, new) /\ g.max_index = j
      /\ g.num_elements = n + 1 /\ g.lastref = p
  <2>1. a \in Parts(V) /\ p \in Nat /\ j \in Int
    BY <1>1 DEF IsArray
  <2> QED
    BY <2>1, <1>1, <1>3, HookFields
<1> HIDE DEF h, g
<1>5. \A q \in 1 .. n + 1 :
        Ind(h, q) = IF q < p THEN Ind(a, q) ELSE IF q = p THEN j ELSE Ind(a, q - 1)
  BY <1>2, <1>3, <1>4 DEF Ind
<1>6. \A q, r \in 1 .. n + 1 : q < r => Ind(h, q) < Ind(h, r)
  <2> SUFFICES ASSUME NEW q \in 1 .. n + 1, NEW r \in 1 .. n + 1, q < r
               PROVE  Ind(h, q) < Ind(h, r)
    OBVIOUS
  <2>1. CASE r < p
    <3>1. q \in 1 .. n /\ r \in 1 .. n
      BY <2>1, <1>1
    <3> QED
      BY <2>1, <3>1, <1>1, <1>5
  <2>2. CASE r = p
    BY <2>2, <1>1, <1>5
  <2>3. CASE r > p /\ q < p
    <3>1. q \in 1 .. n /\ r - 1 \in 1 .. n /\ r - 1 \in p .. n /\ q \in 1 .. p - 1
      BY <2>3, <1>1
    <3>2. Ind(a, q) < j /\ j < Ind(a, r - 1)
      BY <3>1
    <3>3. Ind(a, q) < Ind(a, r - 1)
      BY <3>1, <3>2, <1>1
    <3> QED
      BY <2>3, <3>3, <1>1, <1>5
  <2>4. CASE r > p /\ q = p
    <3>1. r - 1 \in p .. n
      BY <2>4, <1>1
    <3>2. j < Ind(a, r - 1)
      BY <3>1
    <3> QED
      BY <2>4, <3>2, <1>1, <1>5
  <2>5. CASE r > p /\ q > p
    <3>1. q - 1 \in 1 .. n /\ r - 1 \in 1 .. n /\ q - 1 < r - 1
      BY <2>5, <1>1
    <3>2. Ind(a, q - 1) < Ind(a, r - 1)
      BY <3>1, <1>1
    <3> QED
      BY <2>5, <3>2, <1>1, <1>5
  <2> QED
    BY <2>1, <2>2, <2>3, <2>4, <2>5
<1>7. IndexOfLast(h.elements) = IF p <= n THEN a.max_index ELSE j
  <2>1. IndexOfLast(h.elements) = Ind(h, n + 1)
    BY <1>1, <1>3, <1>4 DEF IndexOfLast, Ind
  <2>2. Ind(h, n + 1) = IF p <= n THEN Ind(a, n) ELSE j
    BY <1>1, <1>5
  <2> QED
    BY <2>1, <2>2, <1>1
<1>8. Len(h.elements) = n + 1 /\ Len(g.elements) = n + 1 /\ p \in 0 .. n + 1
  BY <1>1, <1>3, <1>4
<1>9. \A q \in 1 .. n + 1 : Ind(g, q) = Ind(h, q)
  BY <1>4 DEF Ind
<1>10. p <= n => IsArray(h, V)
  <2>1. p <= n => h.max_index = IndexOfLast(h.elements)
    BY <1>4, <1>7
  <2> QED
    BY <2>1, <1>4, <1>6, <1>8, FieldsAreArray
<1>11. p > n => IsArray(g, V)
  <2>1. p > n => g.max_index = IndexOfLast(g.elements)
    BY <1>1, <1>4, <1>7
  <2>2. \A q, r \in 1 .. n + 1 : q < r => Ind(g, q) < Ind(g, r)
    BY <1>6, <1>9
  <2> QED
    BY <2>1, <2>2, <1>4, <1>8, FieldsAreArray
<1> QED
  BY <1>10, <1>11 DEF h, g, new

----------------------------------------------------------------------------
\* The operations of array.c keep arrays arrays.
LEMMA InsertKeeps ==
  ASSUME NEW V, NEW a, IsArray(a, V), NEW j \in Nat, NEW v \in V
  PROVE  IsArray(array_insert(a, j, v), V)
<1> DEFINE n == Len(a.elements)
           p == Search(a, j)
<1>1. /\ n \in Nat /\ a.num_elements = n /\ a.max_index \in Int
      /\ n = 0 => a.max_index = -1
      /\ n # 0 => a.max_index = Ind(a, n) /\ array_first_index(a) = Ind(a, 1)
      /\ \A q \in 1 .. n : Ind(a, q) \in Nat
      /\ \A q, r \in 1 .. n : q < r => Ind(a, q) < Ind(a, r)
  <2>1. a.max_index \in Int /\ (n = 0 => a.max_index = -1)
    BY DEF IsArray, Parts, ArrayOK, IndexOfLast
  <2> QED
    BY <2>1, ArrayShape
<1>2. CASE j > a.max_index
  <2>1. \A q \in 1 .. n : Ind(a, q) < j
    BY <1>1, <1>2
  <2>2. n + 1 \in 1 .. n + 1 /\ n + 1 - 1 = n /\ n + 1 > n /\ n + 1 .. n = {}
    BY <1>1
  <2>3. IsArray([Hook(a, n + 1, Element(j, v)) EXCEPT !.max_index = j], V)
    BY <2>1, <2>2, HookKeeps
  <2>4. array_insert(a, j, v) = [Hook(a, n + 1, Element(j, v)) EXCEPT !.max_index = j]
    BY <1>1, <1>2 DEF array_insert
  <2> QED
    BY <2>3, <2>4
<1>3. CASE j <= a.max_index /\ j < array_first_index(a)
  <2>1. n # 0
    BY <1>1, <1>3
  <2>2. \A q \in 1 .. n : j < Ind(a, q)
    BY <1>1, <1>3, <2>1
  <2>3. IsArray(Hook(a, 1, Element(j, v)), V)
    <3>1. 1 \in 1 .. n + 1 /\ 1 .. 1 - 1 = {} /\ 1 <= n
      BY <1>1, <2>1
    <3> QED
      BY <2>2, <3>1, HookKeeps
  <2>4. array_insert(a, j, v) = Hook(a, 1, Element(j, v))
    BY <1>1, <1>3 DEF array_insert
  <2> QED
    BY <2>3, <2>4
<1>4. CASE j <= a.max_index /\ j >= array_first_index(a)
  <2>1. n # 0 /\ ~OutOfRange(a, j) /\ Ind(a, 1) \in Nat
    BY <1>1, <1>4 DEF OutOfRange
  <2>2. /\ p \in 1 .. n
        /\ Forward(a, j) => Ind(a, p) >= j /\ \A q \in 1 .. p - 1 : Ind(a, q) < j
        /\ ~Forward(a, j) => Ind(a, p) <= j /\ \A q \in p + 1 .. n : Ind(a, q) > j
    BY <2>1, SearchEnds
  <2>3. Reached(a, j)
    BY <2>2, ArrayShape DEF Reached
  <2> HIDE DEF p
  <2>4. CASE Found(a, j)
    <3> DEFINE e == [a.elements EXCEPT ![p].value = v]
               b == [a EXCEPT !.elements[p].value = v, !.lastref = p]
    <3>1. array_insert(a, j, v) = b
      BY <1>1, <1>4, <2>1, <2>4 DEF array_insert, p
    <3>2. a \in Parts(V) /\ a.elements \in Seq(Elements(V)) /\ a.elements[p] \in Elements(V)
      BY <2>2, ArrayShape DEF IsArray
    <3>3. /\ e \in Seq(Elements(V)) /\ Len(e) = n
          /\ \A q \in 1 .. n : e[q].ind = Ind(a, q)
      BY <2>2, <3>2, ReplacedValue DEF Ind
    <3>4. /\ b \in Parts(V) /\ b.elements = e /\ b.max_index = a.max_index
          /\ b.num_elements = a.num_elements /\ b.lastref = p
      <4>1. b = [a EXCEPT !.elements = e, !.lastref = p]
        OBVIOUS
      <4> HIDE DEF e
      <4>2. p \in Nat
        BY <2>2
      <4>3. [a EXCEPT !.elements = e, !.lastref = p] \in Parts(V)
        BY <3>2, <3>3, <4>2, Zenon DEF Parts
      <4>4. /\ [a EXCEPT !.elements = e, !.lastref = p].elements = e
            /\ [a EXCEPT !.elements = e, !.lastref = p].max_index = a.max_index
            /\ [a EXCEPT !.elements = e, !.lastref = p].num_elements = a.num_elements
            /\ [a EXCEPT !.elements = e, !.lastref = p].lastref = p
        BY <3>2, SMT DEF Parts
      <4> QED
        BY <4>1, <4>3, <4>4
    <3> HIDE DEF b, e
    <3>5. \A q \in 1 .. n : Ind(b, q) = Ind(a, q)
      BY <3>3, <3>4 DEF Ind
    <3>6. b.max_index = IndexOfLast(b.elements)
      BY <1>1, <2>1, <3>3, <3>4 DEF IndexOfLast
    <3>7. IsArray(b, V)
      BY <1>1, <2>2, <3>3, <3>4, <3>5, <3>6, FieldsAreArray
    <3> QED
      BY <3>1, <3>7
  <2>5. CASE ~Found(a, j)
    <3> DEFINE at == IF Forward(a, j) THEN p ELSE p + 1
    <3>1. Ind(a, p) # j /\ Ind(a, p) \in Nat
      BY <1>1, <2>2, <2>3, <2>5 DEF Found, p
    <3>2. at \in 1 .. n
      <4>1. ~Forward(a, j) => Ind(a, p) < j
        BY <2>2, <3>1
      <4>2. ~Forward(a, j) => p # n
        BY <1>1, <1>4, <2>1, <4>1
      <4> QED
        BY <2>2, <4>2
    <3>3. \A q \in 1 .. at - 1 : Ind(a, q) < j
      BY <1>1, <2>2, <3>1, <3>2, SMTT(30)
    <3>4. \A q \in at .. n : j < Ind(a, q)
      BY <1>1, <2>2, <3>1, <3>2
    <3> HIDE DEF at
    <3>5. IsArray(Hook(a, at, Element(j, v)), V)
      <4>1. at \in 1 .. n + 1 /\ at <= n
        BY <1>1, <3>2
      <4> QED
        BY <3>3, <3>4, <4>1, HookKeeps
    <3>6. array_insert(a, j, v) = Hook(a, at, Element(j, v))
      BY <1>1, <1>4, <2>1, <2>3, <2>5 DEF array_insert, p, at
    <3> QED
      BY <3>5, <3>6
  <2> QED
    BY <2>4, <2>5
<1>5. a.max_index \in Int /\ array_first_index(a) \in Int
  BY <1>1 DEF array_first_index
<1> QED
  BY <1>2, <1>3, <1>4, <1>5

LEMMA RemoveKeeps ==
  ASSUME NEW V, NEW a, IsArray(a, V), NEW j \in Nat
  PROVE  IsArray(array_remove(a, j), V)
<1> DEFINE s == a.elements
           n == Len(s)
           p == Search(a, j)
           m == IF j = a.max_index THEN (IF p = 1 THEN -1 ELSE Ind(a, p - 1)) ELSE a.max_index
           b == [a EXCEPT !.elements = RemoveAt(s, p), !.num_elements = a.num_elements - 1,
                          !.max_index = m, !.lastref = Neighbour(a, p)]
<1>1. CASE OutOfRange(a, j) \/ ~Found(a, j)
  BY <1>1 DEF array_remove
<1>2. CASE ~OutOfRange(a, j) /\ Found(a, j)
  <2>1. /\ s \in Seq(Elements(V)) /\ n \in Nat \ {0} /\ a.num_elements = n
        /\ a.max_index = Ind(a, n) /\ a.max_index \in Int
        /\ \A q \in 1 .. n : Ind(a, q) \in Nat
        /\ \A q, r \in 1 .. n : q < r => Ind(a, q) < Ind(a, r)
    <3>1. a.max_index \in Int /\ a.num_elements # 0
      BY <1>2 DEF IsArray, Parts, OutOfRange
    <3> QED
      BY <3>1, ArrayShape
  <2>2. p \in 1 .. n /\ Ind(a, p) = j
    BY <1>2, SearchEnds DEF Found
  <2>3. array_remove(a, j) = b
    BY <1>2 DEF array_remove
  <2> HIDE DEF p
  <2>4. /\ RemoveAt(s, p) \in Seq(Elements(V)) /\ Len(RemoveAt(s, p)) = n - 1
        /\ \A q \in 1 .. n - 1 : RemoveAt(s, p)[q] = IF q < p THEN s[q] ELSE s[q + 1]
    <3>1. s \in Seq(Elements(V)) /\ p \in 1 .. Len(s)
      BY <2>1, <2>2
    <3> HIDE DEF s
    <3> QED
      BY <3>1, RemovedElements
  <2>5. m \in Int /\ n - 1 \in Nat
    BY <2>1, <2>2
  <2>6. Neighbour(a, p) \in 0 .. n - 1
    BY <2>1, <2>2 DEF Neighbour
  <2>7. /\ b \in Parts(V) /\ b.elements = RemoveAt(s, p) /\ b.max_index = m
        /\ b.num_elements = n - 1 /\ b.lastref = Neighbour(a, p)
    <3>1. a \in Parts(V) /\ Neighbour(a, p) \in Nat /\ a.num_elements - 1 \in Nat
      BY <2>1, <2>5, <2>6 DEF IsArray
    <3> HIDE DEF m
    <3>2. b \in Parts(V)
      BY <2>4, <2>5, <3>1, Zenon DEF Parts
    <3>3. /\ b.elements = RemoveAt(s, p) /\ b.max_index = m
          /\ b.num_elements = a.num_elements - 1 /\ b.lastref = Neighbour(a, p)
      BY <3>1, SMT DEF Parts
    <3> QED
      BY <2>1, <3>2, <3>3
  <2> HIDE DEF b
  <2>8. \A q \in 1 .. n - 1 : Ind(b, q) = IF q < p THEN Ind(a, q) ELSE Ind(a, q + 1)
    BY <2>4, <2>7 DEF Ind
  <2>9. \A q, r \in 1 .. n - 1 : q < r => Ind(b, q) < Ind(b, r)
    <3> SUFFICES ASSUME NEW q \in 1 .. n - 1, NEW r \in 1 .. n - 1, q < r
                 PROVE  Ind(b, q) < Ind(b, r)
      OBVIOUS
    <3>1. q \in 1 .. n /\ q + 1 \in 1 .. n /\ r \in 1 .. n /\ r + 1 \in 1 .. n
      BY <2>1
    <3>2. CASE q < p /\ r < p
      BY <2>1, <2>8, <3>1, <3>2
    <3>3. CASE q < p /\ ~(r < p)
      <4>1. Ind(a, q) < Ind(a, r + 1)
        BY <2>1, <3>1
      <4> QED
        BY <2>8, <3>3, <4>1
    <3>4. CASE ~(q < p)
      <4>1. Ind(a, q + 1) < Ind(a, r + 1)
        BY <2>1, <3>1
      <4>2. ~(r < p)
        BY <2>1, <2>2, <3>1, <3>4
      <4> QED
        BY <2>8, <3>4, <4>1, <4>2
    <3> QED
      BY <3>2, <3>3, <3>4
  <2>10. m = IndexOfLast(b.elements)
    <3>1. j = a.max_index <=> p = n
      BY <2>1, <2>2
    <3>2. n = 1 => p = 1 /\ b.elements = <<>>
      BY <2>1, <2>2, <2>4, <2>7
    <3>3. n # 1 => IndexOfLast(b.elements) = Ind(b, n - 1)
      <4>1. n \in Nat \ {0} /\ Len(b.elements) = n - 1
        BY <2>1, <2>4, <2>7
      <4>2. b.elements = <<>> => Len(b.elements) = 0
        OBVIOUS
      <4>3. n # 1 => b.elements # <<>>
        BY <4>1, <4>2
      <4> QED
        BY <4>1, <4>3 DEF IndexOfLast, Ind
    <3>4. n # 1 => Ind(b, n - 1) = IF p = n THEN Ind(a, n - 1) ELSE Ind(a, n)
      <4>1. n # 1 => n - 1 \in 1 .. n - 1 /\ n - 1 + 1 = n
        <5>1. n \in Nat \ {0}
          BY <2>1
        <5> HIDE DEF n
        <5> QED
          BY <5>1
      <4>2. n # 1 => (n - 1 < p <=> p = n)
        BY <2>1, <2>2
      <4> QED
        BY <2>8, <4>1, <4>2
    <3> QED
      BY <2>1, <2>2, <3>1, <3>2, <3>3, <3>4 DEF IndexOfLast
  <2>11. IsArray(b, V)
    <3>1. Len(b.elements) = n - 1
      BY <2>4, <2>7
    <3> QED
      BY <2>6, <2>7, <2>9, <2>10, <3>1, FieldsAreArray
  <2> QED
    BY <2>3, <2>11
<1> QED
  BY <1>1, <1>2

\* Moving the roving pointer within the list, as references and copies do.
LEMMA PointerKeeps ==
  ASSUME NEW V, NEW a, IsArray(a, V), NEW l \in 0 .. Len(a.elements)
  PROVE  IsArray([a EXCEPT !.lastref = l], V)
<1> DEFINE b == [a EXCEPT !.lastref = l]
<1>1. a \in Parts(V) /\ l \in Nat
  BY ArrayShape DEF IsArray
<1>2. b \in Parts(V)
  BY <1>1, Zenon DEF Parts
<1>3. /\ b.elements = a.elements /\ b.max_index = a.max_index
      /\ b.num_elements = a.num_elements /\ b.lastref = l
  BY <1>1, SMT DEF Parts
<1> HIDE DEF b
<1>4. /\ \A p, q \in 1 .. Len(a.elements) : p < q => Ind(a, p) < Ind(a, q)
      /\ a.num_elements = Len(a.elements) /\ a.max_index = IndexOfLast(a.elements)
  BY ArrayShape DEF IsArray, ArrayOK
<1>5. \A p : Ind(b, p) = Ind(a, p)
  BY <1>3 DEF Ind
<1>6. \A p, q \in 1 .. Len(b.elements) : p < q => Ind(b, p) < Ind(b, q)
  BY <1>3, <1>4, <1>5
<1>7. /\ b.num_elements = Len(b.elements) /\ b.max_index = IndexOfLast(b.elements)
      /\ b.lastref \in 0 .. Len(b.elements)
  BY <1>3, <1>4
<1>8. IsArray(b, V)
  BY <1>2, <1>6, <1>7, FieldsAreArray
<1> QED
  BY <1>8 DEF b

LEMMA ReferenceKeeps ==
  ASSUME NEW V, NEW a, IsArray(a, V), NEW j \in Nat
  PROVE  IsArray(AfterReference(a, j), V)
<1>1. CASE OutOfRange(a, j)
  BY <1>1 DEF AfterReference
<1>2. CASE ~OutOfRange(a, j)
  <2>1. Search(a, j) \in 1 .. Len(a.elements) /\ Len(a.elements) \in Nat
    BY <1>2, SearchEnds, ArrayShape
  <2>2. Reached(a, j)
    BY <2>1, ArrayShape DEF Reached
  <2>3. AfterReference(a, j) = [a EXCEPT !.lastref = Search(a, j)]
    BY <1>2, <2>2 DEF AfterReference
  <2> QED
    BY <2>1, <2>3, PointerKeeps
<1> QED
  BY <1>1, <1>2

LEMMA CopyKeeps == ASSUME NEW V, NEW a, IsArray(a, V) PROVE IsArray(array_copy(a), V)
<1> DEFINE l == IF a.elements = <<>> THEN 0 ELSE LASTREF(a)
<1>1. l \in 0 .. Len(a.elements)
  <2>1. a.elements # <<>> => Len(a.elements) # 0
    BY ArrayShape
  <2> QED
    BY <2>1, ArrayShape DEF LASTREF
<1>2. array_copy(a) = [a EXCEPT !.lastref = l]
  BY DEF array_copy
<1> HIDE DEF l
<1> QED
  BY <1>1, <1>2, PointerKeeps

LEMMA RenumberedElements ==
  ASSUME NEW V, NEW e \in Seq(Elements(V)), NEW k \in Int,
         \A q \in 1 .. Len(e) : e[q].ind + k \in Nat
  PROVE  /\ Renumbered(e, k) \in Seq(Elements(V))
         /\ Len(Renumbered(e, k)) = Len(e)
         /\ \A q \in 1 .. Len(e) : Renumbered(e, k)[q].ind = e[q].ind + k
<1>1. DOMAIN e = 1 .. Len(e) /\ Len(e) \in Nat
  OBVIOUS
<1>2. ASSUME NEW q \in 1 .. Len(e)
      PROVE  /\ [e[q] EXCEPT !.ind = e[q].ind + k] \in Elements(V)
             /\ [e[q] EXCEPT !.ind = e[q].ind + k].ind = e[q].ind + k
  <2>1. e[q] \in Elements(V)
    BY ElementOfSeq
  <2> QED
    BY <2>1 DEF Elements
<1>3. Renumbered(e, k) = [q \in 1 .. Len(e) |-> [e[q] EXCEPT !.ind = e[q].ind + k]]
  BY <1>1 DEF Renumbered
<1>4. \A q \in 1 .. Len(e) : Renumbered(e, k)[q] = [e[q] EXCEPT !.ind = e[q].ind + k]
  BY <1>3
<1>5. Renumbered(e, k) \in [1 .. Len(e) -> Elements(V)]
  BY <1>2, <1>3
<1>6. Renumbered(e, k) \in Seq(Elements(V)) /\ Len(Renumbered(e, k)) = Len(e)
  BY <1>1, <1>5
<1> QED
  BY <1>2, <1>4, <1>6

\* What array_shift and array_rshift make from their new list.
LEMMA RebuiltIsArray ==
  ASSUME NEW V, NEW e \in Seq(Elements(V)), NEW n, n = Len(e),
         \A p, q \in 1 .. Len(e) : p < q => e[p].ind < e[q].ind
  PROVE  IsArray([elements |-> e, max_index |-> IndexOfLast(e), num_elements |-> n,
                  lastref |-> 0], V)
<1> DEFINE b == [elements |-> e, max_index |-> IndexOfLast(e), num_elements |-> n, lastref |-> 0]
<1>1. IndexOfLast(e) \in Int
  <2>1. e # <<>> => Len(e) \in 1 .. Len(e)
    OBVIOUS
  <2>2. e # <<>> => e[Len(e)] \in Elements(V)
    BY <2>1, ElementOfSeq
  <2>3. e # <<>> => e[Len(e)].ind \in Nat
    BY <2>2 DEF Elements
  <2> QED
    BY <2>3 DEF IndexOfLast
<1>2. b \in Parts(V)
  BY <1>1 DEF Parts
<1>3. \A p, q \in 1 .. Len(b.elements) : p < q => Ind(b, p) < Ind(b, q)
  BY DEF Ind
<1>4. /\ b.num_elements = Len(b.elements) /\ b.max_index = IndexOfLast(b.elements)
      /\ b.lastref \in 0 .. Len(b.elements)
  OBVIOUS
<1> HIDE DEF b
<1>5. IsArray(b, V)
  BY <1>2, <1>3, <1>4, FieldsAreArray
<1> QED
  BY <1>5 DEF b

LEMMA PopKeeps == ASSUME NEW V, NEW a, IsArray(a, V) PROVE IsArray(array_pop(a), V)
<1> DEFINE s == a.elements
           n == Len(s)
           rest == SubSeq(s, 2, n)
           kept == Renumbered(rest, -1)
<1>1. /\ s \in Seq(Elements(V)) /\ n \in Nat /\ a.num_elements = n
      /\ \A q \in 1 .. n : s[q] \in Elements(V) /\ s[q].ind \in Nat
      /\ \A q, r \in 1 .. n : q < r => s[q].ind < s[r].ind
  BY ArrayShape DEF Ind
<1>2. CASE n = 0
  BY <1>1, <1>2 DEF array_pop, array_shift
<1>3. CASE n = 1
  <2>1. array_pop(a) = array_create
    BY <1>1, <1>3 DEF array_pop, array_shift
  <2> QED
    BY <2>1, EmptyArray
<1>4. CASE n > 1
  <2>1. /\ rest \in Seq(Elements(V)) /\ Len(rest) = n - 1
        /\ \A q \in 1 .. n - 1 : rest[q] = s[q + 1]
    <3>1. 2 \in Int /\ n \in Int /\ \A q \in 2 .. n : s[q] \in Elements(V)
      BY <1>1
    <3>2. /\ rest \in Seq(Elements(V)) /\ Len(rest) = IF 2 <= n THEN n - 2 + 1 ELSE 0
          /\ \A q \in 1 .. n - 2 + 1 : rest[q] = s[2 + q - 1]
      BY <3>1, SubSeqProperties
    <3> QED
      BY <1>1, <1>4, <3>2
  <2>2. array_pop(a) = [elements |-> kept, max_index |-> IndexOfLast(kept),
                        num_elements |-> n - 1, lastref |-> 0]
    BY <1>1, <1>4 DEF array_pop, array_shift
  <2> HIDE DEF rest
  <2>3. \A q \in 1 .. n - 1 : rest[q].ind = s[q + 1].ind /\ s[q + 1].ind \in Nat \ {0}
    <3> SUFFICES ASSUME NEW q \in 1 .. n - 1
                 PROVE  rest[q].ind = s[q + 1].ind /\ s[q + 1].ind \in Nat \ {0}
      OBVIOUS
    <3>1. 1 \in 1 .. n /\ q + 1 \in 1 .. n /\ 1 < q + 1
      BY <1>1
    <3>2. s[1].ind < s[q + 1].ind /\ s[1].ind \in Nat /\ s[q + 1].ind \in Nat
      BY <1>1, <3>1
    <3> QED
      BY <2>1, <3>2
  <2>4. /\ kept \in Seq(Elements(V)) /\ Len(kept) = n - 1
        /\ \A q \in 1 .. n - 1 : kept[q].ind = s[q + 1].ind - 1
    <3>1. \A q \in 1 .. Len(rest) : rest[q].ind + -1 \in Nat
      BY <2>1, <2>3, SMTT(30)
    <3>2. /\ kept \in Seq(Elements(V)) /\ Len(kept) = Len(rest)
          /\ \A q \in 1 .. Len(rest) : kept[q].ind = rest[q].ind + -1
      BY <2>1, <3>1, RenumberedElements
    <3> QED
      BY <2>1, <2>3, <3>2
  <2> HIDE DEF kept
  <2>5. \A q, r \in 1 .. Len(kept) : q < r => kept[q].ind < kept[r].ind
    <3> SUFFICES ASSUME NEW q \in 1 .. n - 1, NEW r \in 1 .. n - 1, q < r
                 PROVE  kept[q].ind < kept[r].ind
      BY <2>4
    <3>1. q + 1 \in 1 .. n /\ r + 1 \in 1 .. n /\ q + 1 < r + 1
      BY <1>1
    <3>2. s[q + 1].ind < s[r + 1].ind /\ s[q + 1].ind \in Nat /\ s[r + 1].ind \in Nat
      BY <1>1, <3>1
    <3>3. kept[q].ind = s[q + 1].ind - 1 /\ kept[r].ind = s[r + 1].ind - 1
      BY <2>4, Zenon
    <3> QED
      BY <3>2, <3>3, SMTT(30)
  <2> QED
    BY <2>2, <2>4, <2>5, RebuiltIsArray
<1>5. n = 0 \/ n = 1 \/ n > 1
  <2>1. n \in Nat
    BY <1>1
  <2> HIDE DEF n
  <2> QED
    BY <2>1
<1> QED
  BY <1>2, <1>3, <1>4, <1>5

LEMMA PushKeeps ==
  ASSUME NEW V, NEW a, IsArray(a, V), NEW v \in V PROVE IsArray(array_push(a, v), V)
<1> DEFINE s == a.elements
           n == Len(s)
           later == Renumbered(s, 1)
           moved == <<Element(0, v)>> \o later
<1>1. /\ s \in Seq(Elements(V)) /\ n \in Nat /\ a.num_elements = n
      /\ \A q \in 1 .. n : s[q].ind \in Nat
      /\ \A q, r \in 1 .. n : q < r => s[q].ind < s[r].ind
  BY ArrayShape DEF Ind
<1>2. /\ later \in Seq(Elements(V)) /\ Len(later) = n
      /\ \A q \in 1 .. n : later[q].ind = s[q].ind + 1
  <2>1. s \in Seq(Elements(V)) /\ \A q \in 1 .. Len(s) : s[q].ind + 1 \in Nat
    BY <1>1
  <2> HIDE DEF s
  <2> QED
    BY <2>1, RenumberedElements
<1>3. <<Element(0, v)>> \in Seq(Elements(V)) /\ Len(<<Element(0, v)>>) = 1
      /\ <<Element(0, v)>>[1].ind = 0
  BY DEF Element, Elements
<1>4. array_push(a, v) = [elements |-> moved, max_index |-> IndexOfLast(moved),
                          num_elements |-> n + 1, lastref |-> 0]
  BY <1>1 DEF array_push, array_rshift
<1> HIDE DEF later
<1> DEFINE first == <<Element(0, v)>>
<1> HIDE DEF first
<1>5. /\ moved \in Seq(Elements(V)) /\ Len(moved) = n + 1
      /\ \A q \in 1 .. n + 1 : moved[q].ind = IF q <= 1 THEN 0 ELSE s[q - 1].ind + 1
  <2>1. /\ moved \in Seq(Elements(V)) /\ Len(moved) = 1 + n
        /\ \A q \in 1 .. 1 + n : moved[q] = IF q <= 1 THEN first[q] ELSE later[q - 1]
    BY <1>1, <1>2, <1>3, ConcatProperties DEF first
  <2>2. first[1].ind = 0
    BY <1>3 DEF first
  <2> HIDE DEF moved, s, n
  <2>3. n \in Nat
    BY <1>1
  <2>4. \A q \in 1 .. n + 1 : q = 1 \/ (q > 1 /\ q - 1 \in 1 .. n)
    BY <2>3
  <2>5. ASSUME NEW q \in 1 .. n + 1 PROVE moved[q].ind = IF q <= 1 THEN 0 ELSE s[q - 1].ind + 1
    <3>1. moved[q] = IF q <= 1 THEN first[q] ELSE later[q - 1]
      BY <2>1, <2>3
    <3>2. q > 1 => later[q - 1].ind = s[q - 1].ind + 1
      BY <1>2, <2>3
    <3> QED
      BY <2>2, <3>1, <3>2, <2>3
  <2> QED
    BY <2>1, <2>3, <2>5
<1> HIDE DEF moved
<1>6. \A q, r \in 1 .. Len(moved) : q < r => moved[q].ind < moved[r].ind
  <2> SUFFICES ASSUME NEW q \in 1 .. n + 1, NEW r \in 1 .. n + 1, q < r
               PROVE  moved[q].ind < moved[r].ind
    BY <1>5
  <2>1. r - 1 \in 1 .. n
    BY <1>1
  <2>2. CASE q = 1
    BY <1>1, <1>5, <2>1, <2>2, SMTT(30)
  <2>3. CASE q > 1
    <3>1. q - 1 \in 1 .. n /\ q - 1 < r - 1
      BY <1>1, <2>3
    <3>2. s[q - 1].ind < s[r - 1].ind /\ s[q - 1].ind \in Nat /\ s[r - 1].ind \in Nat
      BY <1>1, <2>1, <3>1
    <3>3. moved[q].ind = s[q - 1].ind + 1 /\ moved[r].ind = s[r - 1].ind + 1
      <4> HIDE DEF s, n
      <4> QED
        BY <1>5, <2>1, <2>3
    <3> QED
      BY <3>2, <3>3, SMTT(30)
  <2> QED
    BY <2>2, <2>3
<1> QED
  BY <1>4, <1>5, <1>6, RebuiltIsArray

LEMMA SetFirstKeeps ==
  ASSUME NEW V, NEW a, IsArray(a, V), NEW values \in Seq(V), Len(a.elements) <= Len(values)
  PROVE  IsArray(SetFirstValues(a, values), V)
<1> DEFINE s == a.elements
           n == Len(s)
           e == [p \in DOMAIN s |-> Element(s[p].ind, values[p])]
           b == [a EXCEPT !.elements = e]
<1>1. /\ s \in Seq(Elements(V)) /\ n \in Nat /\ a.num_elements = n /\ DOMAIN s = 1 .. n
      /\ \A q \in 1 .. n : s[q].ind \in Nat
      /\ \A q, r \in 1 .. n : q < r => s[q].ind < s[r].ind
      /\ a.lastref \in 0 .. n /\ a \in Parts(V) /\ a.max_index = IndexOfLast(s)
  BY ArrayShape DEF Ind, IsArray, ArrayOK
<1>2. \A q \in 1 .. n : values[q] \in V
  <2>1. \A q \in 1 .. Len(values) : values[q] \in V
    BY ElementOfSeq
  <2> QED
    BY <1>1, <2>1
<1>3. \A q \in 1 .. n : e[q] \in Elements(V) /\ e[q].ind = s[q].ind
  BY <1>1, <1>2 DEF Element, Elements
<1>4. e \in [1 .. n -> Elements(V)]
  BY <1>1, <1>3
<1>5. SetFirstValues(a, values) = b
  BY DEF SetFirstValues
<1> HIDE DEF e
<1>6. e \in Seq(Elements(V)) /\ Len(e) = n
  BY <1>1, <1>4, SMTT(30)
<1>7. b \in Parts(V)
  BY <1>1, <1>6, Zenon DEF Parts
<1>8. /\ b.elements = e /\ b.max_index = a.max_index
      /\ b.num_elements = a.num_elements /\ b.lastref = a.lastref
  BY <1>1, SMT DEF Parts
<1> HIDE DEF b
<1>9. \A q, r \in 1 .. Len(b.elements) : q < r => Ind(b, q) < Ind(b, r)
  BY <1>1, <1>3, <1>6, <1>8 DEF Ind
<1>10. IndexOfLast(e) = IndexOfLast(s)
  <2>1. n = 0 => e = <<>> /\ s = <<>>
    BY <1>1, <1>6
  <2>2. n # 0 => e # <<>> /\ s # <<>> /\ n \in 1 .. n
    BY <1>1, <1>6
  <2> QED
    BY <1>3, <1>6, <2>1, <2>2 DEF IndexOfLast
<1>11. /\ b.num_elements = Len(b.elements) /\ b.max_index = IndexOfLast(b.elements)
       /\ b.lastref \in 0 .. Len(b.elements)
  BY <1>1, <1>6, <1>8, <1>10
<1>12. IsArray(b, V)
  BY <1>7, <1>9, <1>11, FieldsAreArray
<1> QED
  BY <1>5, <1>12

\* The last index and one past it.
LEMMA LastIndex ==
  ASSUME NEW V, NEW a, IsArray(a, V)
  PROVE  a.max_index \in Int /\ a.max_index + 1 \in Nat /\ a.num_elements \in Nat
<1>1. a.elements = <<>> => a.max_index = -1
  BY DEF IsArray, ArrayOK, IndexOfLast
<1>2. a.elements # <<>> => a.max_index \in Nat
  <2>1. a.elements # <<>> => a.num_elements # 0 /\ Len(a.elements) \in 1 .. Len(a.elements)
    BY ArrayShape
  <2> QED
    BY <2>1, ArrayShape
<1> QED
  BY <1>1, <1>2, ArrayShape

----------------------------------------------------------------------------
\* Where a loop is: which variable it may belong to, and its counters.
Loops ==
  /\ TypeOK
  /\ ps \in Seq(Values)
  /\ doing = "statuses" => kind = "PIPESTATUS"
  /\ doing \in {"pushing", "popping"} => kind = "BASH_ARGV"

CellIsArray == ~Associative => IsArray(cell, Values)

AsideIsArray ==
  /\ kind \in {"indexed", "PIPESTATUS"} => aside = NoTable \/ IsArray(aside, Values)
  /\ kind = "BASH_ARGV" => IsArray(aside, Nat)

\* Inductive.  The values of BASH_ARGC have to be numbers for the loop of
\* pop_args, and the last index at least -1 for that of a compound assignment.
ArraysInv == Loops /\ CellIsArray /\ AsideIsArray

LEMMA InvImplies == ASSUME ArraysInv PROVE TypeOK /\ ArraysOK
<1>1. \A V, a : IsArray(a, V) => ArrayOK(a)
  BY DEF IsArray
<1>2. ~Associative => ArrayOK(cell)
  BY <1>1 DEF ArraysInv, CellIsArray
<1>3. ~Associative /\ aside # NoTable => ArrayOK(aside)
  BY <1>1 DEF ArraysInv, Loops, TypeOK, Kinds, AsideIsArray, Associative
<1> QED
  BY <1>2, <1>3 DEF ArraysInv, Loops, ArraysOK

LEMMA InitInv == Init => ArraysInv
<1> SUFFICES ASSUME Init PROVE ArraysInv
  OBVIOUS
<1>1. Loops
  BY DEF Init, Loops, TypeOK
<1>2. CellIsArray
  BY EmptyArray DEF Init, CellIsArray, New
<1>3. AsideIsArray
  BY EmptyArray DEF Init, AsideIsArray
<1> QED
  BY <1>1, <1>2, <1>3 DEF ArraysInv

LEMMA SubscriptsAreIndices ==
  ASSUME ArraysInv, ArraysAssumption, ~Associative, NEW sub \in Subscripts
  PROVE  KeyOf(sub) = Index(sub) /\ Index(sub) \in Int
<1>1. sub \in Int
  BY DEF Subscripts, ArraysAssumption
<1>2. cell.max_index \in Int
  BY LastIndex DEF ArraysInv, CellIsArray
<1> QED
  BY <1>1, <1>2 DEF KeyOf, Index

LEMMA SingleKeeps ==
  ASSUME ArraysInv, Single, aside' = aside, ~Associative => IsArray(cell', Values)
  PROVE  ArraysInv'
<1>1. Loops'
  BY DEF ArraysInv, Loops, TypeOK, Single, Associative
<1>2. CellIsArray' /\ AsideIsArray'
  BY DEF ArraysInv, CellIsArray, AsideIsArray, Single, Associative
<1> QED
  BY <1>1, <1>2 DEF ArraysInv

LEMMA EndsKeeps ==
  ASSUME ArraysInv, kind' = kind, doing' = "nothing", i' = 0, last_ind' = 0, ps' = <<>>
  PROVE  Loops'
<1>1. TypeOK'
  BY DEF ArraysInv, Loops, TypeOK
<1>2. ps' \in Seq(Values)
  BY EmptySeq
<1> QED
  BY <1>1, <1>2 DEF Loops

LEMMA ElementSteps ==
  ASSUME ArraysInv, ArraysAssumption, NEW sub \in Subscripts,
         \/ \E value \in Values : AssignElement(sub, value)
         \/ ArrayValue(sub)
         \/ UnbindArrayElement(sub)
  PROVE  ArraysInv'
<1>1. ~Associative => /\ IsArray(cell, Values)
                      /\ KeyOf(sub) = Index(sub) /\ Index(sub) \in Int
  BY SubscriptsAreIndices DEF ArraysInv, CellIsArray
<1>2. ~Associative /\ ValidKey(KeyOf(sub)) => Index(sub) \in Nat
  BY <1>1 DEF ValidKey
<1>3. ASSUME NEW value \in Values, AssignElement(sub, value) PROVE ArraysInv'
  <2>1. ~Associative => cell' = array_insert(cell, Index(sub), value)
    BY <1>1, <1>3 DEF AssignElement, insert
  <2>2. ~Associative => IsArray(cell', Values)
    BY <1>1, <1>2, <1>3, <2>1, InsertKeeps DEF AssignElement
  <2> QED
    BY <1>3, <2>2, SingleKeeps DEF AssignElement
<1>4. ASSUME ArrayValue(sub) PROVE ArraysInv'
  <2>1. ~Associative => IsArray(cell', Values)
    BY <1>1, <1>2, <1>4, ReferenceKeeps DEF ArrayValue
  <2> QED
    BY <1>4, <2>1, SingleKeeps DEF ArrayValue
<1>5. ASSUME UnbindArrayElement(sub) PROVE ArraysInv'
  <2>1. ~Associative => IsArray(cell', Values)
    BY <1>1, <1>2, <1>5, RemoveKeeps DEF UnbindArrayElement
  <2> QED
    BY <1>5, <2>1, SingleKeeps DEF UnbindArrayElement
<1> QED
  BY <1>3, <1>4, <1>5

LEMMA CompoundSteps ==
  ASSUME ArraysInv, ArraysAssumption,
         \/ \E append \in BOOLEAN : BeginCompound(append)
         \/ \E sub \in Subscripts \cup {NoSub}, value \in Values : CompoundWord(sub, value)
         \/ EndCompound
  PROVE  ArraysInv'
<1>1. ASSUME NEW append \in BOOLEAN, BeginCompound(append) PROVE ArraysInv'
  <2>1. ~Associative => cell.max_index + 1 \in Nat
    BY LastIndex DEF ArraysInv, CellIsArray
  <2>2. kind' = kind /\ last_ind' \in Nat
    BY <1>1, <2>1 DEF BeginCompound
  <2>3. Loops'
    BY <1>1, <2>2 DEF ArraysInv, Loops, TypeOK, BeginCompound, Starts, Associative, Idle
  <2>4. CellIsArray'
    BY <1>1, <2>2, EmptyArray DEF ArraysInv, CellIsArray, BeginCompound, Associative
  <2>5. AsideIsArray'
    BY <1>1, <2>2 DEF ArraysInv, AsideIsArray, BeginCompound, Associative
  <2> QED
    BY <2>3, <2>4, <2>5 DEF ArraysInv
<1>2. ASSUME NEW sub \in Subscripts \cup {NoSub}, NEW value \in Values, CompoundWord(sub, value)
      PROVE  ArraysInv'
  <2> DEFINE key == IF sub = NoSub THEN last_ind ELSE KeyOf(sub)
             valid == IF Associative THEN sub # NoSub ELSE key >= 0
  <2>1. ~Associative => key \in Int
    <3>1. last_ind \in Nat
      BY DEF ArraysInv, Loops, TypeOK
    <3> QED
      BY <3>1, SubscriptsAreIndices
  <2>2. /\ kind' = kind /\ doing' = doing /\ ps' = ps /\ i' = i + 1
        /\ doing = "building" => Associative
        /\ last_ind' = IF valid /\ ~Associative THEN key + 1 ELSE last_ind
    BY <1>2 DEF ArraysInv, Loops, TypeOK, CompoundWord, GoesOn
  <2>3. ~Associative => /\ aside' = aside
                        /\ cell' = IF valid THEN array_insert(cell, key, value) ELSE cell
    BY <1>2, <2>2 DEF CompoundWord, insert
  <2> HIDE DEF key
  <2>4. Loops'
    BY <2>1, <2>2 DEF ArraysInv, Loops, TypeOK, Associative
  <2>5. ~Associative => IsArray(cell', Values)
    <3>1. ~Associative => IsArray(cell, Values)
      BY DEF ArraysInv, CellIsArray
    <3>2. ~Associative /\ valid => key \in Nat
      BY <2>1
    <3> QED
      BY <2>3, <3>1, <3>2, InsertKeeps
  <2>6. CellIsArray' /\ AsideIsArray'
    BY <2>2, <2>3, <2>5 DEF ArraysInv, CellIsArray, AsideIsArray, Associative
  <2> QED
    BY <2>4, <2>6 DEF ArraysInv
<1>3. ASSUME EndCompound PROVE ArraysInv'
  <2>1. kind' = kind /\ (~Associative => cell' = cell /\ aside' = aside)
    BY <1>3 DEF EndCompound, ArraysInv, Loops, TypeOK
  <2>2. doing' = "nothing" /\ i' = 0 /\ last_ind' = 0 /\ ps' = <<>>
    BY <1>3 DEF EndCompound, Ends
  <2>3. Loops'
    BY <2>1, <2>2, EndsKeeps
  <2>4. CellIsArray' /\ AsideIsArray'
    BY <2>1 DEF ArraysInv, CellIsArray, AsideIsArray, Associative
  <2> QED
    BY <2>3, <2>4 DEF ArraysInv
<1> QED
  BY <1>1, <1>2, <1>3

LEMMA StatusSteps ==
  ASSUME ArraysInv, ArraysAssumption,
         \/ \E n \in 1 .. MaxWords : \E statuses \in [1 .. n -> Values] : SetPipestatus(statuses)
         \/ InsertStatus \/ EndStatuses \/ SavePipestatus \/ RestorePipestatus
  PROVE  ArraysInv'
<1>1. /\ kind = "PIPESTATUS"
      /\ IsArray(cell, Values)
      /\ aside = NoTable \/ IsArray(aside, Values)
  <2>1. kind = "PIPESTATUS"
    BY DEF ArraysInv, Loops, SetPipestatus, InsertStatus, EndStatuses, SavePipestatus,
           RestorePipestatus
  <2> QED
    BY <2>1 DEF ArraysInv, CellIsArray, AsideIsArray, Associative
<1>2. ASSUME kind' = kind, IsArray(cell', Values), aside' = aside
      PROVE  CellIsArray' /\ AsideIsArray'
  BY <1>1, <1>2 DEF CellIsArray, AsideIsArray
<1>3. ASSUME NEW n \in 1 .. MaxWords, NEW statuses \in [1 .. n -> Values],
             SetPipestatus(statuses)
      PROVE  ArraysInv'
  <2>1. statuses \in Seq(Values) /\ Len(statuses) = n /\ n \in Nat
    BY DEF ArraysAssumption
  <2>2. cell.num_elements \in Nat /\ Len(cell.elements) = cell.num_elements
    BY <1>1, ArrayShape
  <2>3. kind' = kind /\ aside' = aside /\ doing' = "statuses" /\ ps' = statuses
    BY <1>3, Zenon DEF SetPipestatus, Starts
  <2>4. last_ind' = last_ind /\ i' \in Nat
    BY <1>3, <2>2 DEF SetPipestatus, Starts
  <2>5. Loops'
    BY <1>1, <2>1, <2>3, <2>4 DEF ArraysInv, Loops, TypeOK
  <2>6. IsArray(cell', Values)
    <3>1. \/ cell' = cell \/ cell' = array_create
          \/ /\ cell.num_elements <= Len(statuses)
             /\ cell' = SetFirstValues(cell, statuses)
      BY <1>3, Zenon DEF SetPipestatus
    <3> QED
      BY <1>1, <2>1, <2>2, <3>1, EmptyArray, SetFirstKeeps
  <2> QED
    BY <1>2, <2>3, <2>5, <2>6 DEF ArraysInv
<1>4. ASSUME InsertStatus PROVE ArraysInv'
  <2>1. i \in Nat /\ ps \in Seq(Values) /\ i < Len(ps)
    BY <1>4 DEF ArraysInv, Loops, TypeOK, InsertStatus
  <2>2. Len(ps) \in Nat /\ i + 1 \in 1 .. Len(ps) /\ ps[i + 1] \in Values
    BY <2>1, ElementOfSeq
  <2>3. kind' = kind /\ doing' = doing /\ ps' = ps /\ last_ind' = last_ind
        /\ aside' = aside /\ i' = i + 1
    BY <1>4 DEF InsertStatus, GoesOn
  <2>4. Loops'
    BY <2>1, <2>3 DEF ArraysInv, Loops, TypeOK, Associative
  <2>5. cell' = array_insert(cell, i, ps[i + 1])
    BY <1>4 DEF InsertStatus
  <2>6. IsArray(cell', Values)
    BY <1>1, <2>1, <2>2, <2>5, InsertKeeps
  <2> QED
    BY <1>2, <2>3, <2>4, <2>6 DEF ArraysInv
<1>5. ASSUME EndStatuses PROVE ArraysInv'
  <2>1. /\ kind' = kind /\ cell' = cell /\ aside' = aside
        /\ doing' = "nothing" /\ i' = 0 /\ last_ind' = 0 /\ ps' = <<>>
    BY <1>5 DEF EndStatuses, Ends
  <2> QED
    BY <1>1, <1>2, <2>1, EndsKeeps DEF ArraysInv
<1>6. ASSUME Single, IsArray(cell', Values), aside' = NoTable \/ IsArray(aside', Values)
      PROVE  ArraysInv'
  <2>1. Loops'
    BY <1>6 DEF ArraysInv, Loops, TypeOK, Single, Associative
  <2>2. CellIsArray' /\ AsideIsArray'
    BY <1>1, <1>6 DEF CellIsArray, AsideIsArray, Single
  <2> QED
    BY <2>1, <2>2 DEF ArraysInv
<1>7. ASSUME SavePipestatus PROVE ArraysInv'
  BY <1>1, <1>6, <1>7, CopyKeeps DEF SavePipestatus
<1>8. ASSUME RestorePipestatus PROVE ArraysInv'
  BY <1>1, <1>6, <1>8 DEF RestorePipestatus
<1> QED
  BY <1>3, <1>4, <1>5, <1>7, <1>8

LEMMA ArgumentSteps ==
  ASSUME ArraysInv,
         \/ PushArgs \/ (\E word \in Values : PushArg(word)) \/ PushCount
         \/ PopArgs \/ PopArg \/ EndPop
  PROVE  ArraysInv'
<1>1. /\ kind = "BASH_ARGV" /\ i \in Nat
      /\ IsArray(cell, Values) /\ IsArray(aside, Nat)
  <2>1. kind = "BASH_ARGV"
    BY DEF ArraysInv, Loops, PushArgs, PushArg, PushCount, PopArgs, PopArg, EndPop
  <2> QED
    BY <2>1 DEF ArraysInv, Loops, TypeOK, CellIsArray, AsideIsArray, Associative
<1>2. ASSUME kind' = kind, IsArray(cell', Values), IsArray(aside', Nat)
      PROVE  CellIsArray' /\ AsideIsArray'
  BY <1>1, <1>2 DEF CellIsArray, AsideIsArray
<1>3. ASSUME kind' = kind, doing' \in {"pushing", "popping"}, i' \in Nat,
             last_ind' = last_ind, ps' = ps
      PROVE  Loops'
  BY <1>1, <1>3 DEF ArraysInv, Loops, TypeOK
<1>4. ASSUME PushArgs PROVE ArraysInv'
  <2>1. /\ kind' = kind /\ cell' = cell /\ aside' = aside
        /\ doing' = "pushing" /\ i' = 0 /\ last_ind' = last_ind /\ ps' = ps
    BY <1>4 DEF PushArgs, Starts
  <2> QED
    BY <1>1, <1>2, <1>3, <2>1 DEF ArraysInv
<1>5. ASSUME NEW word \in Values, PushArg(word) PROVE ArraysInv'
  <2>1. /\ kind' = kind /\ aside' = aside /\ doing' = "pushing" /\ i' \in Nat
        /\ last_ind' = last_ind /\ ps' = ps /\ cell' = array_push(cell, word)
    BY <1>1, <1>5 DEF PushArg, GoesOn
  <2>2. IsArray(cell', Values)
    BY <1>1, <2>1, PushKeeps
  <2> QED
    BY <1>1, <1>2, <1>3, <2>1, <2>2 DEF ArraysInv
<1>6. ASSUME PushCount PROVE ArraysInv'
  <2>1. /\ kind' = kind /\ cell' = cell /\ aside' = array_push(aside, i)
        /\ doing' = "nothing" /\ i' = 0 /\ last_ind' = 0 /\ ps' = <<>>
    BY <1>6 DEF PushCount, Ends
  <2>2. IsArray(aside', Nat)
    BY <1>1, <2>1, PushKeeps
  <2> QED
    BY <1>1, <1>2, <2>1, <2>2, EndsKeeps DEF ArraysInv
<1>7. ASSUME PopArgs PROVE ArraysInv'
  <2>1. /\ kind' = kind /\ cell' = cell /\ aside' = array_pop(aside)
        /\ doing' = "popping" /\ last_ind' = last_ind /\ ps' = ps
        /\ i' = IF aside.num_elements = 0 THEN 0 ELSE aside.elements[1].value
    BY <1>7 DEF PopArgs, Starts, array_pop
  <2>2. i' \in Nat
    <3>1. aside.num_elements # 0 => 1 \in 1 .. Len(aside.elements)
      BY <1>1, ArrayShape
    <3>2. aside.elements \in Seq(Elements(Nat))
      BY <1>1 DEF IsArray, Parts
    <3>3. aside.num_elements # 0 => aside.elements[1] \in Elements(Nat)
      BY <3>1, <3>2, ElementOfSeq
    <3> QED
      BY <2>1, <3>3 DEF Elements
  <2>3. IsArray(aside', Nat)
    BY <1>1, <2>1, PopKeeps
  <2> QED
    BY <1>1, <1>2, <1>3, <2>1, <2>2, <2>3 DEF ArraysInv
<1>8. ASSUME PopArg PROVE ArraysInv'
  <2>1. /\ kind' = kind /\ aside' = aside /\ doing' = "popping" /\ i' \in Nat
        /\ last_ind' = last_ind /\ ps' = ps /\ cell' = array_pop(cell)
    BY <1>1, <1>8 DEF PopArg, GoesOn
  <2>2. IsArray(cell', Values)
    BY <1>1, <2>1, PopKeeps
  <2> QED
    BY <1>1, <1>2, <1>3, <2>1, <2>2 DEF ArraysInv
<1>9. ASSUME EndPop PROVE ArraysInv'
  <2>1. /\ kind' = kind /\ cell' = cell /\ aside' = aside
        /\ doing' = "nothing" /\ i' = 0 /\ last_ind' = 0 /\ ps' = <<>>
    BY <1>9 DEF EndPop, Ends
  <2> QED
    BY <1>1, <1>2, <2>1, EndsKeeps DEF ArraysInv
<1> QED
  BY <1>4, <1>5, <1>6, <1>7, <1>8, <1>9

LEMMA NextKeeps == ASSUME ArraysAssumption PROVE ArraysInv /\ [Next]_vars => ArraysInv'
<1> SUFFICES ASSUME ArraysInv, [Next]_vars PROVE ArraysInv'
  OBVIOUS
<1>1. CASE \E sub \in Subscripts : \/ \E value \in Values : AssignElement(sub, value)
                                  \/ ArrayValue(sub)
                                  \/ UnbindArrayElement(sub)
  BY <1>1, ElementSteps
<1>2. CASE \/ \E append \in BOOLEAN : BeginCompound(append)
           \/ \E sub \in Subscripts \cup {NoSub}, value \in Values : CompoundWord(sub, value)
           \/ EndCompound
  BY <1>2, CompoundSteps
<1>3. CASE \/ \E n \in 1 .. MaxWords : \E statuses \in [1 .. n -> Values] : SetPipestatus(statuses)
           \/ InsertStatus \/ EndStatuses \/ SavePipestatus \/ RestorePipestatus
  BY <1>3, StatusSteps
<1>4. CASE \/ PushArgs \/ (\E word \in Values : PushArg(word)) \/ PushCount
           \/ PopArgs \/ PopArg \/ EndPop
  BY <1>4, ArgumentSteps
<1>5. CASE UNCHANGED vars
  <2>1. Loops'
    BY <1>5 DEF vars, ArraysInv, Loops, TypeOK, Associative
  <2>2. CellIsArray' /\ AsideIsArray'
    BY <1>5 DEF vars, ArraysInv, CellIsArray, AsideIsArray, Associative
  <2> QED
    BY <2>1, <2>2 DEF ArraysInv
<1> QED
  BY <1>1, <1>2, <1>3, <1>4, <1>5, Zenon DEF Next

LEMMA ArraysInvHolds == Spec => []ArraysInv
  BY InitInv, NextKeeps, ArraysAssumption, PTL DEF Spec

\* The counters of the loops stay natural numbers: pop_args never takes a
\* count from BASH_ARGC that is not one, and an appending compound assignment
\* never starts below index 0.
THEOREM TypeCorrect == Spec => []TypeOK
<1>1. ArraysInv => TypeOK
  BY InvImplies
<1> QED
  BY <1>1, ArraysInvHolds, PTL

\* What an array of array.c keeps about its list describes it: the indices
\* ascend, num_elements counts them, max_index is the last of them and the
\* roving pointer points into the list or is null, whatever was inserted,
\* removed, looked up, pushed, popped, overwritten, copied and put back.
THEOREM BookkeepingCorrect == Spec => []ArraysOK
<1>1. ArraysInv => ArraysOK
  BY InvImplies
<1> QED
  BY <1>1, ArraysInvHolds, PTL

----------------------------------------------------------------------------
(* The dictionaries.                                                       *)

\* Chains in n buckets, what is in them, and that each entry is in the bucket of
\* its key, once.
Items(V) == [key : Keys, data : V]
Chains(n, V) == [0 .. n - 1 -> Seq(Items(V))]
In(c, n, e) == \E b \in 0 .. n - 1 : \E p \in 1 .. Len(c[b]) : c[b][p] = e
Sorted(c, n) ==
  \A b \in 0 .. n - 1 : \A p, q \in 1 .. Len(c[b]) :
    hash[c[b][p].key] % n = b /\ (c[b][p].key = c[b][q].key => p = q)

LEMMA BucketOfKey ==
  ASSUME NEW n \in Nat \ {0}, NEW k \in Keys
  PROVE  hash[k] % n \in 0 .. n - 1
<1>1. hash[k] \in Nat
  BY ArraysAssumption
<1> QED
  BY <1>1

LEMMA ChainShape ==
  ASSUME NEW n \in Nat \ {0}, NEW V, NEW c \in Chains(n, V), NEW b \in 0 .. n - 1
  PROVE  /\ c[b] \in Seq(Items(V)) /\ Len(c[b]) \in Nat
         /\ \A p \in 1 .. Len(c[b]) : c[b][p] \in Items(V) /\ c[b][p].key \in Keys
                                      /\ c[b][p].data \in V
<1>1. c[b] \in Seq(Items(V))
  BY DEF Chains
<1>2. \A p \in 1 .. Len(c[b]) : c[b][p] \in Items(V)
  BY <1>1, ElementOfSeq
<1> QED
  BY <1>1, <1>2 DEF Items

\* A new key, at the head of its chain.
PutFirst(c, n, e) == [c EXCEPT ![hash[e.key] % n] = <<e>> \o @]

LEMMA PutFirstKeeps ==
  ASSUME NEW n \in Nat \ {0}, NEW V, NEW c \in Chains(n, V), Sorted(c, n),
         NEW e \in Items(V), \A x : In(c, n, x) => x.key # e.key
  PROVE  /\ PutFirst(c, n, e) \in Chains(n, V) /\ Sorted(PutFirst(c, n, e), n)
         /\ \A x : In(PutFirst(c, n, e), n, x) <=> x = e \/ In(c, n, x)
<1> DEFINE d == PutFirst(c, n, e)
           b == hash[e.key] % n
<1>1. b \in 0 .. n - 1
  BY BucketOfKey DEF Items
<1>2. PICK chain : chain = <<e>> \o c[b]
  OBVIOUS
<1>3. c[b] \in Seq(Items(V)) /\ Len(c[b]) \in Nat
  BY <1>1, ChainShape
<1>4. /\ chain \in Seq(Items(V)) /\ Len(chain) = Len(c[b]) + 1 /\ chain[1] = e
      /\ \A p \in 1 .. Len(c[b]) : chain[p + 1] = c[b][p]
      /\ \A p \in 2 .. Len(c[b]) + 1 : chain[p] = c[b][p - 1]
  <2>1. <<e>> \in Seq(Items(V)) /\ Len(<<e>>) = 1 /\ <<e>>[1] = e
    OBVIOUS
  <2>2. /\ chain \in Seq(Items(V)) /\ Len(chain) = 1 + Len(c[b])
        /\ \A p \in 1 .. 1 + Len(c[b]) : chain[p] = IF p <= 1 THEN <<e>>[p] ELSE c[b][p - 1]
    BY <1>2, <1>3, <2>1, ConcatProperties
  <2>3. PICK m \in Nat : m = Len(c[b])
    BY <1>3
  <2>4. chain[1] = e
    BY <2>1, <2>2, <2>3
  <2>5. \A p \in 2 .. m + 1 : chain[p] = c[b][p - 1]
    BY <2>2, <2>3
  <2>6. \A p \in 1 .. m : chain[p + 1] = c[b][p]
    <3> SUFFICES ASSUME NEW p \in 1 .. m PROVE chain[p + 1] = c[b][p]
      OBVIOUS
    <3>1. p + 1 \in 2 .. m + 1 /\ p + 1 - 1 = p
      OBVIOUS
    <3> QED
      BY <2>5, <3>1
  <2> QED
    BY <2>2, <2>3, <2>4, <2>5, <2>6
<1>5. d = [c EXCEPT ![b] = chain]
  BY <1>2 DEF PutFirst
<1> HIDE DEF d, b
<1>6. /\ d \in Chains(n, V) /\ d[b] = chain
      /\ \A j \in 0 .. n - 1 : j # b => d[j] = c[j]
  BY <1>1, <1>4, <1>5 DEF Chains
<1>7. Sorted(d, n)
  <2>1. ASSUME NEW j \in 0 .. n - 1, NEW p \in 1 .. Len(d[j]), NEW q \in 1 .. Len(d[j])
        PROVE  hash[d[j][p].key] % n = j /\ (d[j][p].key = d[j][q].key => p = q)
    <3>1. CASE j # b
      BY <1>6, <2>1, <3>1 DEF Sorted
    <3>2. CASE j = b
      <4>1. \A r \in 1 .. Len(c[b]) : hash[c[b][r].key] % n = b /\ c[b][r].key # e.key
        BY <1>1 DEF Sorted, In
      <4>0. \A r \in 2 .. Len(chain) : r - 1 \in 1 .. Len(c[b]) /\ chain[r] = c[b][r - 1]
        BY <1>3, <1>4
      <4>2. \A r \in 1 .. Len(chain) : hash[chain[r].key] % n = b
        <5>1. \A r \in 2 .. Len(chain) : hash[chain[r].key] % n = b
          BY <4>0, <4>1
        <5>2. hash[chain[1].key] % n = b
          BY <1>4 DEF b
        <5> QED
          BY <5>1, <5>2
      <4>3. \A r \in 2 .. Len(chain) : chain[r].key # chain[1].key
        BY <1>4, <4>0, <4>1
      <4>4. \A r, s \in 2 .. Len(chain) : chain[r].key = chain[s].key => r = s
        <5> SUFFICES ASSUME NEW r \in 2 .. Len(chain), NEW s \in 2 .. Len(chain),
                            chain[r].key = chain[s].key
                     PROVE  r = s
          OBVIOUS
        <5>1. r - 1 \in 1 .. Len(c[b]) /\ s - 1 \in 1 .. Len(c[b])
          BY <1>3, <1>4
        <5>2. c[b][r - 1].key = c[b][s - 1].key
          BY <1>4
        <5>3. r - 1 = s - 1
          BY <1>1, <5>1, <5>2 DEF Sorted
        <5> QED
          BY <5>3
      <4>5. p \in 1 .. Len(chain) /\ q \in 1 .. Len(chain)
        BY <1>6, <3>2
      <4> QED
        BY <1>3, <1>4, <1>6, <3>2, <4>2, <4>3, <4>4, <4>5
    <3> QED
      BY <3>1, <3>2
  <2> QED
    BY <2>1 DEF Sorted
<1>8. ASSUME NEW x PROVE In(d, n, x) <=> x = e \/ In(c, n, x)
  <2>1. ASSUME NEW j \in 0 .. n - 1, NEW p \in 1 .. Len(d[j]), d[j][p] = x
        PROVE  x = e \/ In(c, n, x)
    <3>1. CASE j # b
      BY <1>6, <2>1, <3>1 DEF In
    <3>2. CASE j = b /\ p = 1
      BY <1>4, <1>6, <2>1, <3>2
    <3>3. CASE j = b /\ p # 1
      <4>1. p - 1 \in 1 .. Len(c[b]) /\ c[b][p - 1] = x
        BY <1>3, <1>4, <1>6, <2>1, <3>3
      <4> QED
        BY <1>1, <4>1 DEF In
    <3> QED
      BY <3>1, <3>2, <3>3
  <2>2. ASSUME x = e PROVE In(d, n, x)
    <3>1. 1 \in 1 .. Len(d[b]) /\ d[b][1] = x
      BY <1>3, <1>4, <1>6, <2>2
    <3> QED
      BY <1>1, <3>1 DEF In
  <2>3. ASSUME NEW j \in 0 .. n - 1, NEW p \in 1 .. Len(c[j]), c[j][p] = x
        PROVE  In(d, n, x)
    <3>1. CASE j # b
      BY <1>6, <2>3, <3>1 DEF In
    <3>2. CASE j = b
      <4>1. p + 1 \in 1 .. Len(d[b]) /\ d[b][p + 1] = x
        BY <1>3, <1>4, <1>6, <2>3, <3>2
      <4> QED
        BY <1>1, <4>1 DEF In
    <3> QED
      BY <3>1, <3>2
  <2> QED
    BY <2>1, <2>2, <2>3 DEF In
<1> QED
  BY <1>6, <1>7, <1>8 DEF d

\* What the loops of hash_rehash() compute: each entry of a chain in turn, and
\* each chain.  The functions exist, since each step stays in the set of chains.
IsMoved(w, c, chain, n) ==
  w = [k \in 0 .. Len(chain) |->
         IF k = 0 THEN c
         ELSE [w[k - 1] EXCEPT ![hash[chain[k].key] % n] = <<chain[k]>> \o @]]

LEMMA PutFirstIsChains ==
  ASSUME NEW n \in Nat \ {0}, NEW V, NEW c \in Chains(n, V), NEW e \in Items(V)
  PROVE  PutFirst(c, n, e) \in Chains(n, V)
<1> DEFINE b == hash[e.key] % n
<1>1. b \in 0 .. n - 1
  BY BucketOfKey DEF Items
<1>2. PICK chain : chain = <<e>> \o c[b]
  OBVIOUS
<1>3. chain \in Seq(Items(V))
  <2>1. <<e>> \in Seq(Items(V)) /\ c[b] \in Seq(Items(V))
    BY <1>1, ChainShape
  <2> QED
    BY <1>2, <2>1, ConcatProperties
<1>4. PutFirst(c, n, e) = [c EXCEPT ![b] = chain]
  BY <1>2 DEF PutFirst
<1> QED
  BY <1>1, <1>3, <1>4 DEF Chains

LEMMA MovedSteps ==
  ASSUME NEW n \in Nat \ {0}, NEW V, NEW c \in Chains(n, V), NEW chain \in Seq(Items(V))
  PROVE  \E w : /\ w[0] = c /\ Moved(c, chain, n) = w[Len(chain)]
                /\ \A k \in 1 .. Len(chain) : w[k] = PutFirst(w[k - 1], n, chain[k])
<1> DEFINE m == Len(chain)
           F == [k \in 1 .. m |-> [x \in Chains(n, V) |-> PutFirst(x, n, chain[k])]]
<1>0. m \in Nat /\ \A k \in 1 .. m : chain[k] \in Items(V)
  BY ElementOfSeq
<1>1. F \in [1 .. m -> [Chains(n, V) -> Chains(n, V)]]
  BY <1>0, PutFirstIsChains
<1>2. \A k \in 1 .. m : \A x \in Chains(n, V) : F[k][x] = PutFirst(x, n, chain[k])
  OBVIOUS
<1> HIDE DEF F
<1> HIDE DEF m
<1>3. PICK f : Iteration(f, F, m, Chains(n, V), c)
  <2>1. StaysIn(F, m, Chains(n, V))
    BY <1>1 DEF StaysIn
  <2> QED
    BY <1>0, <2>1, Iterates
<1>4. \A k \in 1 .. m : f[k] = PutFirst(f[k - 1], n, chain[k])
  BY <1>0, <1>2, <1>3 DEF Iteration
<1>5. IsMoved(f, c, chain, n)
  <2>1. \A k \in 0 .. m : f[k] = IF k = 0 THEN c
          ELSE [f[k - 1] EXCEPT ![hash[chain[k].key] % n] = <<chain[k]>> \o @]
    <3>1. \A k \in 0 .. m : k = 0 \/ k \in 1 .. m
      BY <1>0
    <3> QED
      BY <1>3, <1>4, <3>1 DEF PutFirst, Iteration
  <2> QED
    BY <1>3, <2>1 DEF IsMoved, Iteration, m
<1>6. PICK w : w = CHOOSE u : u = [k \in 0 .. Len(chain) |->
         IF k = 0 THEN c
         ELSE [u[k - 1] EXCEPT ![hash[chain[k].key] % n] = <<chain[k]>> \o @]]
  OBVIOUS
<1>7. IsMoved(w, c, chain, n)
  <2>1. \E u : u = [k \in 0 .. Len(chain) |->
         IF k = 0 THEN c
         ELSE [u[k - 1] EXCEPT ![hash[chain[k].key] % n] = <<chain[k]>> \o @]]
    BY <1>5, Zenon DEF IsMoved
  <2> QED
    BY <1>6, <2>1, Zenon DEF IsMoved
<1>8. Moved(c, chain, n) = w[m]
  BY <1>6, Zenon DEF Moved, m
<1>9. \A k \in 0 .. m : w[k] = IF k = 0 THEN c
          ELSE [w[k - 1] EXCEPT ![hash[chain[k].key] % n] = <<chain[k]>> \o @]
  BY <1>7 DEF IsMoved, m
<1>10. w[0] = c /\ \A k \in 1 .. m : w[k] = PutFirst(w[k - 1], n, chain[k])
  <2>1. 0 \in 0 .. m /\ \A k \in 1 .. m : k \in 0 .. m /\ k # 0
    BY <1>0
  <2> QED
    BY <1>9, <2>1 DEF PutFirst
<1> QED
  BY <1>8, <1>10 DEF m

\* Moving a chain puts its entries, which are new, to those that are there.
LEMMA MovedKeeps ==
  ASSUME NEW n \in Nat \ {0}, NEW V, NEW c \in Chains(n, V), Sorted(c, n),
         NEW chain \in Seq(Items(V)),
         \A p, q \in 1 .. Len(chain) : chain[p].key = chain[q].key => p = q,
         \A x : In(c, n, x) => \A p \in 1 .. Len(chain) : chain[p].key # x.key
  PROVE  LET d == Moved(c, chain, n)
         IN  /\ d \in Chains(n, V) /\ Sorted(d, n)
             /\ \A x : In(d, n, x) <=> In(c, n, x) \/ \E p \in 1 .. Len(chain) : chain[p] = x
<1> DEFINE m == Len(chain)
<1>0. m \in Nat /\ \A k \in 1 .. m : chain[k] \in Items(V)
  BY ElementOfSeq
<1>1. PICK w : /\ w[0] = c /\ Moved(c, chain, n) = w[Len(chain)]
               /\ \A k \in 1 .. Len(chain) : w[k] = PutFirst(w[k - 1], n, chain[k])
  BY MovedSteps
<1> DEFINE Good(k) == /\ w[k] \in Chains(n, V) /\ Sorted(w[k], n)
                      /\ \A x : In(w[k], n, x) <=>
                                  In(c, n, x) \/ \E p \in 1 .. k : chain[p] = x
           T == {k \in 0 .. m : Good(k)}
<1>2. Good(0)
  <2>1. \A x : ~\E p \in 1 .. 0 : chain[p] = x
    OBVIOUS
  <2> QED
    BY <1>1, <2>1
<1>3. ASSUME NEW k \in 1 .. m, Good(k - 1) PROVE Good(k)
  <2>1. w[k] = PutFirst(w[k - 1], n, chain[k])
    BY <1>1
  <2>2. \A x : In(w[k - 1], n, x) => x.key # chain[k].key
    <3> SUFFICES ASSUME NEW x, In(w[k - 1], n, x) PROVE x.key # chain[k].key
      OBVIOUS
    <3>1. In(c, n, x) \/ \E p \in 1 .. k - 1 : chain[p] = x
      BY <1>3
    <3>2. ASSUME NEW p \in 1 .. k - 1, chain[p] = x PROVE x.key # chain[k].key
      <4>1. p \in 1 .. m /\ p # k
        BY <1>0
      <4> QED
        BY <3>2, <4>1
    <3> QED
      BY <3>1, <3>2
  <2>3. /\ w[k] \in Chains(n, V) /\ Sorted(w[k], n)
        /\ \A x : In(w[k], n, x) <=> x = chain[k] \/ In(w[k - 1], n, x)
    BY <1>0, <1>3, <2>1, <2>2, PutFirstKeeps
  <2>4. \A x : In(w[k - 1], n, x) <=> In(c, n, x) \/ \E p \in 1 .. k - 1 : chain[p] = x
    BY <1>3
  <2>5. \A x : (x = chain[k] \/ \E p \in 1 .. k - 1 : chain[p] = x)
               <=> \E p \in 1 .. k : chain[p] = x
    BY <1>0
  <2>6. \A x : In(w[k], n, x) <=> In(c, n, x) \/ \E p \in 1 .. k : chain[p] = x
    BY <2>3, <2>4, <2>5
  <2> QED
    BY <2>3, <2>6
<1> HIDE DEF Good
<1>4. 0 \in T /\ \A k \in 1 .. m : k - 1 \in T => k \in T
  BY <1>0, <1>2, <1>3
<1> HIDE DEF T
<1>5. \A k \in 0 .. m : k \in T
  BY ONLY <1>0, <1>4, CountUp
<1>6. Good(m)
  BY <1>0, <1>5 DEF T
<1> QED
  BY <1>1, <1>6 DEF Good

LEMMA MovedIsChains ==
  ASSUME NEW n \in Nat \ {0}, NEW V, NEW c \in Chains(n, V), NEW chain \in Seq(Items(V))
  PROVE  Moved(c, chain, n) \in Chains(n, V)
<1> DEFINE m == Len(chain)
<1>0. m \in Nat /\ \A k \in 1 .. m : chain[k] \in Items(V)
  BY ElementOfSeq
<1>1. PICK w : /\ w[0] = c /\ Moved(c, chain, n) = w[Len(chain)]
               /\ \A k \in 1 .. Len(chain) : w[k] = PutFirst(w[k - 1], n, chain[k])
  BY MovedSteps
<1> DEFINE T == {k \in 0 .. m : w[k] \in Chains(n, V)}
<1>2. 0 \in T
  BY <1>0, <1>1
<1>3. ASSUME NEW k \in 1 .. m, k - 1 \in T PROVE k \in T
  BY <1>0, <1>1, <1>3, PutFirstIsChains
<1> HIDE DEF T
<1>4. \A k \in 0 .. m : k \in T
  BY ONLY <1>0, <1>2, <1>3, CountUp
<1> QED
  BY <1>0, <1>1, <1>4 DEF T

\* Tables, written out.
Tab(c, n, count) == [bucket_array |-> c, nbuckets |-> n, nentries |-> count]

LEMMA NewChains ==
  ASSUME NEW n \in Nat \ {0}, NEW V
  PROVE  \E c \in Chains(n, V) : /\ hash_create(n) = Tab(c, n, 0)
                                 /\ c = hash_create(n).bucket_array
                                 /\ Sorted(c, n) /\ \A x : ~In(c, n, x)
<1> DEFINE c == [b \in 0 .. n - 1 |-> <<>>]
<1>1. hash_create(n) = Tab(c, n, 0) /\ c = hash_create(n).bucket_array
  BY DEF hash_create, Tab
<1>2. <<>> \in Seq(Items(V))
  BY EmptySeq
<1>3. c \in Chains(n, V)
  BY <1>2 DEF Chains
<1>4. \A b \in 0 .. n - 1 : Len(c[b]) = 0
  BY EmptySeq
<1> HIDE DEF c
<1>5. Sorted(c, n) /\ \A x : ~In(c, n, x)
  BY <1>4 DEF Sorted, In
<1> QED
  BY <1>1, <1>3, <1>5 DEF c

IsRehashed(w, c, m, n) ==
  w = [b \in 0 .. m |-> IF b = 0 THEN hash_create(n).bucket_array
                        ELSE Moved(w[b - 1], c[b - 1], n)]

LEMMA RehashSteps ==
  ASSUME NEW m \in Nat \ {0}, NEW n \in Nat \ {0}, NEW V, NEW c \in Chains(m, V), NEW count
  PROVE  \E w : /\ w[0] = hash_create(n).bucket_array
                /\ Rehash(Tab(c, m, count), n) = Tab(w[m], n, count)
                /\ \A b \in 1 .. m : w[b] = Moved(w[b - 1], c[b - 1], n)
<1> DEFINE first == hash_create(n).bucket_array
           F == [b \in 1 .. m |-> [x \in Chains(n, V) |-> Moved(x, c[b - 1], n)]]
<1>0. first \in Chains(n, V)
  BY NewChains
<1>1. F \in [1 .. m -> [Chains(n, V) -> Chains(n, V)]]
  <2>1. \A b \in 1 .. m : c[b - 1] \in Seq(Items(V))
    BY DEF Chains
  <2>2. \A b \in 1 .. m : \A x \in Chains(n, V) : Moved(x, c[b - 1], n) \in Chains(n, V)
    BY <2>1, MovedIsChains
  <2> QED
    BY <2>2
<1>2. \A b \in 1 .. m : \A x \in Chains(n, V) : F[b][x] = Moved(x, c[b - 1], n)
  OBVIOUS
<1> HIDE DEF F
<1>3. PICK f : Iteration(f, F, m, Chains(n, V), first)
  <2>1. StaysIn(F, m, Chains(n, V))
    BY <1>1 DEF StaysIn
  <2> QED
    BY <1>0, <2>1, Iterates
<1> HIDE DEF first
<1>4. \A b \in 1 .. m : f[b] = Moved(f[b - 1], c[b - 1], n)
  BY <1>0, <1>2, <1>3 DEF Iteration
<1>5. IsRehashed(f, c, m, n)
  <2>1. \A b \in 0 .. m : b = 0 \/ b \in 1 .. m
    OBVIOUS
  <2>2. \A b \in 0 .. m : f[b] = IF b = 0 THEN first ELSE Moved(f[b - 1], c[b - 1], n)
    BY <1>3, <1>4, <2>1 DEF Iteration
  <2> QED
    BY <1>3, <2>2 DEF IsRehashed, Iteration, first
<1>6. PICK w : w = CHOOSE u : u = [b \in 0 .. m |->
         IF b = 0 THEN hash_create(n).bucket_array ELSE Moved(u[b - 1], c[b - 1], n)]
  OBVIOUS
<1>7. IsRehashed(w, c, m, n)
  <2>1. \E u : u = [b \in 0 .. m |->
         IF b = 0 THEN hash_create(n).bucket_array ELSE Moved(u[b - 1], c[b - 1], n)]
    BY <1>5, Zenon DEF IsRehashed
  <2> QED
    BY <1>6, <2>1, Zenon DEF IsRehashed
<1>8. Rehash(Tab(c, m, count), n) = Tab(w[m], n, count)
  <2>1. /\ Tab(c, m, count).nbuckets = m /\ Tab(c, m, count).bucket_array = c
        /\ Tab(c, m, count).nentries = count
    BY DEF Tab
  <2>2. Rehash(Tab(c, m, count), n) =
          [Tab(c, m, count) EXCEPT !.nbuckets = n, !.bucket_array = w[m]]
    BY <1>6, <2>1, Zenon DEF Rehash
  <2> QED
    BY <2>2 DEF Tab
<1>9. \A b \in 0 .. m : w[b] = IF b = 0 THEN first ELSE Moved(w[b - 1], c[b - 1], n)
  BY <1>7 DEF IsRehashed, first
<1>10. w[0] = first /\ \A b \in 1 .. m : w[b] = Moved(w[b - 1], c[b - 1], n)
  <2>1. 0 \in 0 .. m /\ \A b \in 1 .. m : b \in 0 .. m /\ b # 0
    OBVIOUS
  <2> QED
    BY <1>9, <2>1
<1> QED
  BY <1>8, <1>10 DEF first

\* Growing a table moves its entries, all of them and no others.
LEMMA RehashKeeps ==
  ASSUME NEW m \in Nat \ {0}, NEW n \in Nat \ {0}, NEW V, NEW c \in Chains(m, V),
         Sorted(c, m), NEW count
  PROVE  \E d \in Chains(n, V) : /\ Sorted(d, n) /\ \A x : In(d, n, x) <=> In(c, m, x)
                                 /\ Rehash(Tab(c, m, count), n) = Tab(d, n, count)
<1>1. PICK w : /\ w[0] = hash_create(n).bucket_array
               /\ Rehash(Tab(c, m, count), n) = Tab(w[m], n, count)
               /\ \A b \in 1 .. m : w[b] = Moved(w[b - 1], c[b - 1], n)
  BY RehashSteps
<1> DEFINE Good(k) == /\ w[k] \in Chains(n, V) /\ Sorted(w[k], n)
                      /\ \A x : In(w[k], n, x) <=> In(c, k, x)
           T == {k \in 0 .. m : Good(k)}
<1>2. Good(0)
  <2>1. \A x : ~In(c, 0, x)
    BY DEF In
  <2>2. w[0] \in Chains(n, V) /\ Sorted(w[0], n) /\ \A x : ~In(w[0], n, x)
    BY <1>1, NewChains
  <2> QED
    BY <2>1, <2>2
<1>3. ASSUME NEW k \in 1 .. m, Good(k - 1) PROVE Good(k)
  <2>1. k - 1 \in 0 .. m - 1 /\ k - 1 \in 0 .. k - 1
    OBVIOUS
  <2>2. PICK chain : chain = c[k - 1]
    OBVIOUS
  <2>3. chain \in Seq(Items(V)) /\ w[k] = Moved(w[k - 1], chain, n)
    BY <1>1, <2>1, <2>2 DEF Chains
  <2>4. \A p, q \in 1 .. Len(chain) : chain[p].key = chain[q].key => p = q
    BY <2>1, <2>2 DEF Sorted
  <2>5. \A x : In(w[k - 1], n, x) => \A p \in 1 .. Len(chain) : chain[p].key # x.key
    <3> SUFFICES ASSUME NEW x, In(w[k - 1], n, x), NEW p \in 1 .. Len(chain)
                 PROVE  chain[p].key # x.key
      OBVIOUS
    <3>1. PICK b \in 0 .. k - 1 - 1 : \E q \in 1 .. Len(c[b]) : c[b][q] = x
      BY <1>3 DEF In
    <3>2. b \in 0 .. m - 1 /\ b # k - 1
      OBVIOUS
    <3>3. hash[x.key] % m = b
      BY <3>1, <3>2 DEF Sorted
    <3>4. hash[chain[p].key] % m = k - 1
      BY <2>1, <2>2 DEF Sorted
    <3> QED
      BY <3>2, <3>3, <3>4
  <2>6. /\ w[k] \in Chains(n, V) /\ Sorted(w[k], n)
        /\ \A x : In(w[k], n, x) <=>
                    In(w[k - 1], n, x) \/ \E p \in 1 .. Len(chain) : chain[p] = x
    BY <1>3, <2>3, <2>4, <2>5, MovedKeeps
  <2>7. \A x : In(c, k, x) <=> In(c, k - 1, x) \/ \E p \in 1 .. Len(chain) : chain[p] = x
    <3>1. \A b \in 0 .. k - 1 : b \in 0 .. k - 1 - 1 \/ b = k - 1
      OBVIOUS
    <3>2. \A b \in 0 .. k - 1 - 1 : b \in 0 .. k - 1
      OBVIOUS
    <3> QED
      BY <2>1, <2>2, <3>1, <3>2 DEF In
  <2>8. \A x : In(w[k - 1], n, x) <=> In(c, k - 1, x)
    BY <1>3
  <2>9. \A x : In(w[k], n, x) <=> In(c, k, x)
    BY <2>6, <2>7, <2>8
  <2> QED
    BY <2>6, <2>9
<1> HIDE DEF Good
<1>4. m \in Nat /\ 0 \in T /\ \A k \in 1 .. m : k - 1 \in T => k \in T
  BY <1>2, <1>3
<1> HIDE DEF T
<1>5. \A k \in 0 .. m : k \in T
  BY ONLY <1>4, CountUp
<1>6. Good(m)
  BY <1>4, <1>5 DEF T
<1> QED
  BY <1>1, <1>6 DEF Good

----------------------------------------------------------------------------
\* A table: its entries are where they are looked for, and counted.
IsTable(t, V) ==
  \E n \in Nat \ {0} : \E c \in Chains(n, V) :
    /\ t = Tab(c, n, Cardinality(Entries(t)))
    /\ Sorted(c, n) /\ IsFiniteSet(Entries(t))

LEMMA EntriesAreIn ==
  ASSUME NEW n \in Nat \ {0}, NEW V, NEW c \in Chains(n, V), NEW count
  PROVE  \A x : x \in Entries(Tab(c, n, count)) <=> In(c, n, x)
<1>1. DOMAIN c = 0 .. n - 1 /\ \A b \in 0 .. n - 1 : DOMAIN c[b] = 1 .. Len(c[b])
  BY ChainShape DEF Chains
<1>2. Entries(Tab(c, n, count)) = UNION {ToSet(c[b]) : b \in DOMAIN c}
  BY DEF Entries, Tab
<1>3. \A b \in 0 .. n - 1 : \A x : x \in ToSet(c[b]) <=> \E p \in 1 .. Len(c[b]) : c[b][p] = x
  BY <1>1 DEF ToSet
<1>4. ASSUME NEW x PROVE x \in Entries(Tab(c, n, count)) <=> In(c, n, x)
  <2>1. x \in Entries(Tab(c, n, count)) <=> \E b \in 0 .. n - 1 : x \in ToSet(c[b])
    BY <1>1, <1>2
  <2> QED
    BY <1>3, <2>1 DEF In
<1> QED
  BY <1>4

LEMMA EntriesAreItems ==
  ASSUME NEW n \in Nat \ {0}, NEW V, NEW c \in Chains(n, V), NEW x, In(c, n, x)
  PROVE  x \in Items(V) /\ x.key \in Keys /\ x.data \in V
<1>1. PICK b \in 0 .. n - 1 : \E p \in 1 .. Len(c[b]) : c[b][p] = x
  BY DEF In
<1> QED
  BY <1>1, ChainShape

\* A search finds the entry of a key if there is one.
LEMMA PositionFinds ==
  ASSUME NEW n \in Nat \ {0}, NEW V, NEW c \in Chains(n, V), Sorted(c, n), NEW count,
         NEW key \in Keys
  PROVE  LET p == Position(Tab(c, n, count), key)
             b == hash[key] % n
         IN  /\ p = 0 => \A x : In(c, n, x) => x.key # key
             /\ p # 0 => /\ p \in 1 .. Len(c[b]) /\ c[b][p].key = key
                         /\ In(c, n, c[b][p])
                         /\ \A x : In(c, n, x) /\ x.key = key => x = c[b][p]
<1> DEFINE b == hash[key] % n
           p == Position(Tab(c, n, count), key)
           T == {q \in 1 .. Len(c[b]) : c[b][q].key = key}
<1>1. b \in 0 .. n - 1
  BY BucketOfKey
<1>2. p = IF T # {} THEN Min(T) ELSE 0
  BY DEF Position, SelectInSeq, HASH_BUCKET, Tab
<1>3. ASSUME NEW x, In(c, n, x), x.key = key
      PROVE  \E q \in 1 .. Len(c[b]) : c[b][q] = x /\ q \in T
  <2>1. PICK j \in 0 .. n - 1 : \E q \in 1 .. Len(c[j]) : c[j][q] = x
    BY <1>3 DEF In
  <2>2. j = b
    BY <1>3, <2>1 DEF Sorted
  <2> QED
    BY <1>3, <2>1, <2>2
<1>4. ASSUME T = {} PROVE p = 0 /\ \A x : In(c, n, x) => x.key # key
  <2>1. p = 0
    BY <1>2, <1>4
  <2> QED
    BY <1>3, <1>4, <2>1
<1>5. ASSUME T # {}
      PROVE  /\ p \in 1 .. Len(c[b]) /\ c[b][p].key = key
             /\ In(c, n, c[b][p])
             /\ \A x : In(c, n, x) /\ x.key = key => x = c[b][p]
  <2>1. T \subseteq Nat
    BY <1>1, ChainShape
  <2>2. Min(T) \in T
    BY <1>5, <2>1, MinFacts
  <2>3. p \in T
    BY <1>2, <1>5, <2>2
  <2>4. \A q \in T : q = p
    BY <1>1, <2>3 DEF Sorted
  <2>5. \A x : In(c, n, x) /\ x.key = key => x = c[b][p]
    BY <1>3, <2>4
  <2>6. In(c, n, c[b][p])
    BY <1>1, <2>3 DEF In
  <2> QED
    BY <2>3, <2>5, <2>6
<1>6. p # 0 => T # {}
  BY <1>4
<1>7. p = 0 => T = {}
  <2>1. \A q \in 1 .. Len(c[b]) : q # 0
    BY <1>1, ChainShape
  <2> QED
    BY <1>5, <2>1
<1> HIDE DEF p, b, T
<1>8. p = 0 => \A x : In(c, n, x) => x.key # key
  BY <1>4, <1>7
<1>9. p # 0 => /\ p \in 1 .. Len(c[b]) /\ c[b][p].key = key
               /\ In(c, n, c[b][p])
               /\ \A x : In(c, n, x) /\ x.key = key => x = c[b][p]
  BY <1>5, <1>6
<1> QED
  BY <1>8, <1>9 DEF p, b

\* One chain is replaced by another of the same bucket.
ChainOf(chain, n, b) ==
  \A p, q \in 1 .. Len(chain) :
    hash[chain[p].key] % n = b /\ (chain[p].key = chain[q].key => p = q)

LEMMA ChainReplaced ==
  ASSUME NEW n \in Nat \ {0}, NEW V, NEW c \in Chains(n, V), Sorted(c, n),
         NEW b \in 0 .. n - 1, NEW chain \in Seq(Items(V)),
         ChainOf(chain, n, b), NEW d \in Chains(n, V), d[b] = chain,
         \A j \in 0 .. n - 1 : j # b => d[j] = c[j]
  PROVE  /\ Sorted(d, n)
         /\ \A x : In(d, n, x) <=> \/ In(c, n, x) /\ hash[x.key] % n # b
                                   \/ \E p \in 1 .. Len(chain) : chain[p] = x
<1>2. d[b] = chain /\ \A j \in 0 .. n - 1 : j # b => d[j] = c[j]
  OBVIOUS
<1>3. Sorted(d, n)
  <2> SUFFICES ASSUME NEW j \in 0 .. n - 1, NEW p \in 1 .. Len(d[j]), NEW q \in 1 .. Len(d[j])
               PROVE  hash[d[j][p].key] % n = j /\ (d[j][p].key = d[j][q].key => p = q)
    BY DEF Sorted
  <2>1. CASE j = b
    BY <1>2, <2>1 DEF ChainOf
  <2>2. CASE j # b
    BY <1>2, <2>2 DEF Sorted
  <2> QED
    BY <2>1, <2>2
<1>4. ASSUME NEW x
      PROVE  In(d, n, x) <=> \/ In(c, n, x) /\ hash[x.key] % n # b
                             \/ \E p \in 1 .. Len(chain) : chain[p] = x
  <2>1. ASSUME NEW j \in 0 .. n - 1, NEW p \in 1 .. Len(d[j]), d[j][p] = x
        PROVE  \/ In(c, n, x) /\ hash[x.key] % n # b
               \/ \E q \in 1 .. Len(chain) : chain[q] = x
    <3>1. CASE j = b
      BY <1>2, <2>1, <3>1
    <3>2. CASE j # b
      <4>1. p \in 1 .. Len(c[j]) /\ c[j][p] = x
        BY <1>2, <2>1, <3>2
      <4> QED
        BY <3>2, <4>1 DEF In, Sorted
    <3> QED
      BY <3>1, <3>2
  <2>2. ASSUME NEW j \in 0 .. n - 1, NEW p \in 1 .. Len(c[j]), c[j][p] = x,
               hash[x.key] % n # b
        PROVE  In(d, n, x)
    <3>1. j # b
      BY <2>2 DEF Sorted
    <3> QED
      BY <1>2, <2>2, <3>1 DEF In
  <2>3. ASSUME NEW p \in 1 .. Len(chain), chain[p] = x PROVE In(d, n, x)
    BY <1>2, <2>3 DEF In
  <2> QED
    BY <2>1, <2>2, <2>3 DEF In
<1> QED
  BY <1>3, <1>4

LEMMA NewTable ==
  ASSUME NEW n \in Nat \ {0}, NEW V
  PROVE  IsTable(hash_create(n), V) /\ Entries(hash_create(n)) = {}
<1>1. PICK c \in Chains(n, V) : /\ hash_create(n) = Tab(c, n, 0) /\ Sorted(c, n)
                                /\ \A x : ~In(c, n, x)
  BY NewChains
<1>2. Entries(hash_create(n)) = {}
  BY <1>1, EntriesAreIn
<1> QED
  BY <1>1, <1>2, FS_EmptySet DEF IsTable

\* What a table is after an entry has been put in, and after one has been taken
\* out: for a key at most one entry stays.
OnePut(new, old, e) == \A x : x \in new <=> x = e \/ (x \in old /\ x.key # e.key)
OneGone(new, old, key) == \A x : x \in new <=> x \in old /\ x.key # key

\* The entry of a key there is gets its new data.
ReplaceData(t, b, p, v) == [t EXCEPT !.bucket_array[b][p].data = v]

LEMMA ReplaceKeeps ==
  ASSUME NEW n \in Nat \ {0}, NEW V, NEW c \in Chains(n, V), Sorted(c, n), NEW count,
         NEW b \in 0 .. n - 1, NEW p \in 1 .. Len(c[b]), NEW v \in V
  PROVE  \E d \in Chains(n, V) :
           /\ ReplaceData(Tab(c, n, count), b, p, v) = Tab(d, n, count) /\ Sorted(d, n)
           /\ \A x : In(d, n, x) <=> \/ x = Entry(c[b][p].key, v)
                                     \/ In(c, n, x) /\ x.key # c[b][p].key
<1> DEFINE new == Entry(c[b][p].key, v)
<1>1. c[b] \in Seq(Items(V)) /\ Len(c[b]) \in Nat /\ DOMAIN c[b] = 1 .. Len(c[b])
      /\ c[b][p] \in Items(V) /\ c[b][p].key \in Keys
  BY ChainShape
<1>2. new \in Items(V) /\ new.key = c[b][p].key /\ new = [c[b][p] EXCEPT !.data = v]
  BY <1>1 DEF Entry, Items
<1> HIDE DEF new
<1>3. PICK chain : chain = [c[b] EXCEPT ![p] = new]
  OBVIOUS
<1>4. /\ chain \in Seq(Items(V)) /\ Len(chain) = Len(c[b]) /\ chain[p] = new
      /\ \A q \in 1 .. Len(c[b]) : q # p => chain[q] = c[b][q]
  BY <1>1, <1>2, <1>3
<1>5. \A q \in 1 .. Len(chain) : chain[q].key = c[b][q].key
  BY <1>2, <1>4
<1>6. ChainOf(chain, n, b)
  BY <1>4, <1>5 DEF Sorted, ChainOf
<1>7. PICK d : d = [c EXCEPT ![b] = chain]
  OBVIOUS
<1>7a. /\ d \in Chains(n, V) /\ d[b] = chain
       /\ \A j \in 0 .. n - 1 : j # b => d[j] = c[j]
  BY <1>4, <1>7 DEF Chains
<1>8. /\ d \in Chains(n, V) /\ Sorted(d, n)
      /\ \A x : In(d, n, x) <=> \/ In(c, n, x) /\ hash[x.key] % n # b
                                \/ \E q \in 1 .. Len(chain) : chain[q] = x
  BY <1>4, <1>6, <1>7a, ChainReplaced
<1>9. ASSUME NEW x
      PROVE  In(d, n, x) <=> x = new \/ (In(c, n, x) /\ x.key # c[b][p].key)
  <2>1. ASSUME In(d, n, x) PROVE x = new \/ (In(c, n, x) /\ x.key # c[b][p].key)
    <3>1. CASE In(c, n, x) /\ hash[x.key] % n # b
      BY <3>1 DEF Sorted
    <3>2. CASE \E q \in 1 .. Len(chain) : chain[q] = x
      <4>1. PICK q \in 1 .. Len(chain) : chain[q] = x
        BY <3>2
      <4>2. CASE q = p
        BY <1>4, <4>1, <4>2
      <4>3. CASE q # p
        <5>1. x = c[b][q] /\ q \in 1 .. Len(c[b])
          BY <1>4, <4>1, <4>3
        <5>2. x.key # c[b][p].key
          BY <4>3, <5>1 DEF Sorted
        <5> QED
          BY <5>1, <5>2 DEF In
      <4> QED
        BY <4>2, <4>3
    <3> QED
      BY <1>8, <2>1, <3>1, <3>2
  <2>2. ASSUME x = new PROVE In(d, n, x)
    <3>1. p \in 1 .. Len(chain) /\ chain[p] = x
      BY <1>4, <2>2
    <3> QED
      BY <1>8, <3>1
  <2>3. ASSUME In(c, n, x), x.key # c[b][p].key PROVE In(d, n, x)
    <3>1. PICK j \in 0 .. n - 1 : \E q \in 1 .. Len(c[j]) : c[j][q] = x
      BY <2>3 DEF In
    <3>2. PICK q \in 1 .. Len(c[j]) : c[j][q] = x
      BY <3>1
    <3>3. CASE j = b
      <4>1. q # p
        BY <2>3, <3>2, <3>3
      <4>2. q \in 1 .. Len(chain) /\ chain[q] = x
        BY <1>4, <3>2, <3>3, <4>1
      <4> QED
        BY <1>8, <4>2
    <3>4. CASE j # b
      <4>1. hash[x.key] % n # b
        BY <3>2, <3>4 DEF Sorted
      <4> QED
        BY <1>8, <2>3, <4>1
    <3> QED
      BY <3>3, <3>4
  <2> QED
    BY <2>1, <2>2, <2>3
<1>10. [Tab(c, n, count) EXCEPT !.bucket_array[b][p].data = v] = Tab(d, n, count)
  <2>1. [c EXCEPT ![b][p].data = v] = d
    <3>1. [c EXCEPT ![b][p].data = v] = [c EXCEPT ![b] = [c[b] EXCEPT ![p] = [c[b][p] EXCEPT !.data = v]]]
      OBVIOUS
    <3> QED
      BY <1>2, <1>3, <1>7, <3>1
  <2>2. [Tab(c, n, count) EXCEPT !.bucket_array[b][p].data = v] =
          [Tab(c, n, count) EXCEPT !.bucket_array = [c EXCEPT ![b][p].data = v]]
    BY DEF Tab
  <2>3. [Tab(c, n, count) EXCEPT !.bucket_array = d] = Tab(d, n, count)
    BY DEF Tab
  <2> QED
    BY <2>1, <2>2, <2>3, Zenon
<1> QED
  BY <1>8, <1>9, <1>10 DEF new, ReplaceData

\* Tables with the same number of entries in other buckets, with one entry
\* replaced, one more, or one less.
LEMMA StillCounted ==
  ASSUME NEW n \in Nat \ {0}, NEW V, NEW d \in Chains(n, V), Sorted(d, n),
         NEW count, NEW old, IsFiniteSet(old),
         \/ /\ count = Cardinality(old)
            /\ \E was \in old : \E is :
                 /\ is \notin old \/ is = was
                 /\ \A x : In(d, n, x) <=> x = is \/ (x \in old /\ x # was)
         \/ /\ count = Cardinality(old) + 1
            /\ \E new : new \notin old /\ \A x : In(d, n, x) <=> x = new \/ x \in old
         \/ /\ count = Cardinality(old) - 1
            /\ \E was \in old : \A x : In(d, n, x) <=> x \in old /\ x # was
  PROVE  IsTable(Tab(d, n, count), V)
<1> DEFINE E == Entries(Tab(d, n, count))
<1>1. \A x : x \in E <=> In(d, n, x)
  BY EntriesAreIn
<1>0. Cardinality(old) \in Nat
  BY FS_CardinalityType
<1> HIDE DEF E
<1>2. IsFiniteSet(E) /\ Cardinality(E) = count
  <2>1. ASSUME NEW was \in old, NEW is, is \notin old \/ is = was, count = Cardinality(old),
               \A x : In(d, n, x) <=> x = is \/ (x \in old /\ x # was)
        PROVE  IsFiniteSet(E) /\ Cardinality(E) = count
    <3>1. E = (old \ {was}) \cup {is}
      BY <1>1, <2>1
    <3>2. IsFiniteSet(old \ {was}) /\ Cardinality(old \ {was}) = Cardinality(old) - 1
      BY FS_RemoveElement
    <3>3. is \notin old \ {was}
      BY <2>1
    <3>4. IsFiniteSet(E) /\ Cardinality(E) = Cardinality(old \ {was}) + 1
      BY <3>1, <3>2, <3>3, FS_AddElement
    <3> QED
      BY <1>0, <2>1, <3>2, <3>4
  <2>2. ASSUME NEW new, new \notin old, count = Cardinality(old) + 1,
               \A x : In(d, n, x) <=> x = new \/ x \in old
        PROVE  IsFiniteSet(E) /\ Cardinality(E) = count
    <3>1. E = old \cup {new}
      BY <1>1, <2>2
    <3> QED
      BY <2>2, <3>1, FS_AddElement
  <2>3. ASSUME NEW was \in old, count = Cardinality(old) - 1,
               \A x : In(d, n, x) <=> x \in old /\ x # was
        PROVE  IsFiniteSet(E) /\ Cardinality(E) = count
    <3>1. E = old \ {was}
      BY <1>1, <2>3
    <3> QED
      BY <2>3, <3>1, FS_RemoveElement
  <2> QED
    BY <2>1, <2>2, <2>3
<1> QED
  BY <1>2 DEF IsTable, E

LEMMA InsertPuts ==
  ASSUME NEW V, NEW t, IsTable(t, V), NEW key \in Keys, NEW value \in V
  PROVE  /\ IsTable(assoc_insert(t, key, value), V)
         /\ OnePut(Entries(assoc_insert(t, key, value)), Entries(t), Entry(key, value))
<1> DEFINE e == Entry(key, value)
           E == Entries(t)
           count == Cardinality(E)
           u == assoc_insert(t, key, value)
<1>0. PICK n \in Nat \ {0} : \E c \in Chains(n, V) :
        t = Tab(c, n, count) /\ Sorted(c, n) /\ IsFiniteSet(E)
  BY DEF IsTable
<1>1. PICK c \in Chains(n, V) : t = Tab(c, n, count) /\ Sorted(c, n) /\ IsFiniteSet(E)
  BY <1>0
<1>2. /\ \A x : x \in E <=> In(c, n, x)
      /\ t.nbuckets = n /\ t.bucket_array = c /\ t.nentries = count
  <2>1. \A x : x \in E <=> In(c, n, x)
    BY <1>1, EntriesAreIn
  <2> HIDE DEF count, E
  <2> QED
    BY <1>1, <2>1 DEF Tab
<1>3. e \in Items(V) /\ e.key = key
  BY DEF Entry, Items
<1>4. PICK p : p = Position(t, key)
  OBVIOUS
<1>5. PICK b : b = hash[key] % n
  OBVIOUS
<1>6. /\ p = 0 => \A x : In(c, n, x) => x.key # key
      /\ p # 0 => /\ p \in 1 .. Len(c[b]) /\ c[b][p].key = key
                  /\ In(c, n, c[b][p])
                  /\ \A x : In(c, n, x) /\ x.key = key => x = c[b][p]
  BY <1>1, <1>4, <1>5, PositionFinds
<1>7. b \in 0 .. n - 1
  BY <1>5, BucketOfKey
<1>8. u = IF p # 0 THEN ReplaceData(t, b, p, value)
          ELSE AddEntry(IF HASH_SHOULDGROW(t) THEN hash_grow(t) ELSE t, key, value)
  BY <1>2, <1>4, <1>5, Zenon DEF assoc_insert, HASH_BUCKET, ReplaceData
<1> HIDE DEF u, E, count, e
<1>9. CASE p # 0
  <2>0. \E d \in Chains(n, V) :
           /\ ReplaceData(Tab(c, n, count), b, p, value) = Tab(d, n, count)
           /\ Sorted(d, n)
           /\ \A x : In(d, n, x) <=> \/ x = Entry(c[b][p].key, value)
                                     \/ In(c, n, x) /\ x.key # c[b][p].key
    <3>1. Sorted(c, n) /\ b \in 0 .. n - 1 /\ p \in 1 .. Len(c[b]) /\ value \in V
      BY <1>1, <1>6, <1>7, <1>9
    <3> QED
      BY ONLY <3>1, n \in Nat \ {0}, c \in Chains(n, V), ReplaceKeeps
  <2>1. PICK d \in Chains(n, V) :
           /\ ReplaceData(t, b, p, value) = Tab(d, n, count)
           /\ Sorted(d, n)
           /\ \A x : In(d, n, x) <=> \/ x = Entry(c[b][p].key, value)
                                     \/ In(c, n, x) /\ x.key # c[b][p].key
    BY <1>1, <2>0
  <2>2. u = Tab(d, n, count) /\ \A x : In(d, n, x) <=> x = e \/ (x \in E /\ x.key # key)
    BY <1>2, <1>6, <1>8, <1>9, <2>1 DEF e
  <2>3. /\ c[b][p] \in E
        /\ e \notin E \/ e = c[b][p]
        /\ \A x : In(d, n, x) <=> x = e \/ (x \in E /\ x # c[b][p])
    BY <1>2, <1>3, <1>6, <1>9, <2>2
  <2>4. IsTable(u, V)
    <3>1. \E was \in E : \E is :
            /\ is \notin E \/ is = was
            /\ \A x : In(d, n, x) <=> x = is \/ (x \in E /\ x # was)
      BY <2>3
    <3>2. IsTable(Tab(d, n, count), V)
      BY <1>1, <2>1, <3>1, StillCounted DEF count
    <3> QED
      BY <2>2, <3>2
  <2>5. \A x : x \in Entries(u) <=> In(d, n, x)
    BY <2>2, EntriesAreIn
  <2> QED
    BY <1>3, <2>2, <2>4, <2>5 DEF OnePut, u, E, e
<1>10. CASE p = 0
  <2>0. PICK m \in Nat \ {0} : \E d \in Chains(m, V) :
          /\ (IF HASH_SHOULDGROW(t) THEN hash_grow(t) ELSE t) = Tab(d, m, count)
          /\ Sorted(d, m) /\ \A x : In(d, m, x) <=> In(c, n, x)
    <3>1. CASE HASH_SHOULDGROW(t)
      <4>1. n * HASH_REHASH_MULTIPLIER \in Nat \ {0}
        BY DEF HASH_REHASH_MULTIPLIER
      <4>2. PICK m \in Nat \ {0} : m = n * HASH_REHASH_MULTIPLIER
        BY <4>1
      <4>3. hash_grow(t) = Rehash(Tab(c, n, count), m)
        BY <1>1, <1>2, <4>2 DEF hash_grow
      <4>4. \E d \in Chains(m, V) : /\ Sorted(d, m) /\ \A x : In(d, m, x) <=> In(c, n, x)
                                    /\ Rehash(Tab(c, n, count), m) = Tab(d, m, count)
        BY <1>1, RehashKeeps
      <4> QED
        BY <3>1, <4>3, <4>4
    <3>2. CASE ~HASH_SHOULDGROW(t)
      BY <1>1, <3>2
    <3> QED
      BY <3>1, <3>2
  <2>1. PICK d \in Chains(m, V) :
          /\ (IF HASH_SHOULDGROW(t) THEN hash_grow(t) ELSE t) = Tab(d, m, count)
          /\ Sorted(d, m) /\ \A x : In(d, m, x) <=> In(c, n, x)
    BY <2>0
  <2>2. u = Tab(PutFirst(d, m, e), m, count + 1)
    <3>1. u = AddEntry(Tab(d, m, count), key, value)
      BY <1>8, <1>10, <2>1, Zenon
    <3>2. AddEntry(Tab(d, m, count), key, value) = Tab(PutFirst(d, m, e), m, count + 1)
      <4>1. PICK a : a = hash[key] % m
        OBVIOUS
      <4>2. PICK chain : chain = <<e>> \o d[a]
        OBVIOUS
      <4>3. PutFirst(d, m, e) = [d EXCEPT ![a] = chain]
        BY <1>3, <4>1, <4>2 DEF PutFirst
      <4>4. HASH_BUCKET(Tab(d, m, count), key) = a
        BY <4>1 DEF HASH_BUCKET, Tab
      <4>5. AddEntry(Tab(d, m, count), key, value) =
              [Tab(d, m, count) EXCEPT !.bucket_array[a] = <<e>> \o @, !.nentries = @ + 1]
        BY <4>4, Zenon DEF AddEntry, e
      <4>6. Tab(d, m, count).bucket_array = d /\ Tab(d, m, count).nentries = count
        BY DEF Tab
      <4>7. AddEntry(Tab(d, m, count), key, value) =
              [Tab(d, m, count) EXCEPT !.bucket_array[a] = chain, !.nentries = count + 1]
        BY <4>2, <4>5, <4>6, Zenon
      <4>8. [Tab(d, m, count) EXCEPT !.bucket_array[a] = chain, !.nentries = count + 1] =
              [Tab(d, m, count) EXCEPT !.bucket_array = [d EXCEPT ![a] = chain],
                                       !.nentries = count + 1]
        BY DEF Tab
      <4>9. [Tab(d, m, count) EXCEPT !.bucket_array = PutFirst(d, m, e),
                                     !.nentries = count + 1] =
              Tab(PutFirst(d, m, e), m, count + 1)
        <5>1. PICK f : f = PutFirst(d, m, e)
          OBVIOUS
        <5>2. [Tab(d, m, count) EXCEPT !.bucket_array = f, !.nentries = count + 1] =
                Tab(f, m, count + 1)
          <6>1. [Tab(d, m, count) EXCEPT !.bucket_array = f] = Tab(f, m, count)
            BY DEF Tab
          <6>2. PICK k : k = count + 1
            OBVIOUS
          <6>3. [Tab(f, m, count) EXCEPT !.nentries = k] = Tab(f, m, k)
            BY DEF Tab
          <6> QED
            BY <6>1, <6>2, <6>3, Zenon
        <5> QED
          BY <5>1, <5>2, Zenon
      <4> QED
        BY <4>3, <4>7, <4>8, <4>9, Zenon
    <3> QED
      BY <3>1, <3>2
  <2>3. \A x : In(d, m, x) => x.key # e.key
    BY <1>3, <1>6, <1>10, <2>1
  <2>4. PICK f : f = PutFirst(d, m, e)
    OBVIOUS
  <2>5. /\ f \in Chains(m, V) /\ Sorted(f, m)
        /\ \A x : In(f, m, x) <=> x = e \/ x \in E
    BY <1>2, <1>3, <2>1, <2>3, <2>4, PutFirstKeeps
  <2>6. e \notin E
    BY <1>2, <1>3, <1>6, <1>10
  <2>7. IsTable(u, V)
    <3>1. \E new : new \notin E /\ \A x : In(f, m, x) <=> x = new \/ x \in E
      BY <2>5, <2>6
    <3>2. IsTable(Tab(f, m, count + 1), V)
      BY <1>1, <2>5, <3>1, StillCounted DEF count
    <3> QED
      BY <2>2, <2>4, <3>2
  <2>8. \A x : x \in Entries(u) <=> In(f, m, x)
    BY <2>2, <2>4, <2>5, EntriesAreIn
  <2>9. \A x \in E : x.key # key
    BY <1>2, <1>6, <1>10
  <2> QED
    BY <1>3, <2>5, <2>7, <2>8, <2>9 DEF OnePut, u, E, e
<1> QED
  BY <1>9, <1>10

\* The entry of a key there is goes.
LEMMA RemoveTakes ==
  ASSUME NEW V, NEW t, IsTable(t, V), NEW key \in Keys
  PROVE  /\ IsTable(assoc_remove(t, key), V)
         /\ OneGone(Entries(assoc_remove(t, key)), Entries(t), key)
<1> DEFINE E == Entries(t)
           count == Cardinality(E)
           u == assoc_remove(t, key)
<1>0. PICK n \in Nat \ {0} : \E c \in Chains(n, V) :
        t = Tab(c, n, count) /\ Sorted(c, n) /\ IsFiniteSet(E)
  BY DEF IsTable
<1>1. PICK c \in Chains(n, V) : t = Tab(c, n, count) /\ Sorted(c, n) /\ IsFiniteSet(E)
  BY <1>0
<1>2. /\ \A x : x \in E <=> In(c, n, x)
      /\ t.nbuckets = n /\ t.bucket_array = c /\ t.nentries = count
  <2>1. \A x : x \in E <=> In(c, n, x)
    BY <1>1, EntriesAreIn
  <2> HIDE DEF count, E
  <2> QED
    BY <1>1, <2>1 DEF Tab
<1>4. PICK p : p = Position(t, key)
  OBVIOUS
<1>5. PICK b : b = hash[key] % n
  OBVIOUS
<1>6. /\ p = 0 => \A x : In(c, n, x) => x.key # key
      /\ p # 0 => /\ p \in 1 .. Len(c[b]) /\ c[b][p].key = key
                  /\ In(c, n, c[b][p])
                  /\ \A x : In(c, n, x) /\ x.key = key => x = c[b][p]
  BY <1>1, <1>4, <1>5, PositionFinds
<1>7. b \in 0 .. n - 1
  BY <1>5, BucketOfKey
<1>8. u = IF count # 0 /\ p # 0
          THEN [t EXCEPT !.bucket_array[b] = RemoveAt(@, p), !.nentries = @ - 1]
          ELSE t
  BY <1>2, <1>4, <1>5, Zenon DEF assoc_remove, Has, HASH_BUCKET
<1>9. count = 0 => E = {}
  BY <1>1, FS_EmptySet
<1> HIDE DEF u, E, count
<1>10. CASE ~(count # 0 /\ p # 0)
  <2>1. u = t /\ \A x \in E : x.key # key
    BY <1>2, <1>6, <1>8, <1>9, <1>10
  <2> QED
    BY <2>1 DEF OneGone, u, E
<1>11. CASE count # 0 /\ p # 0
  <2>1. /\ c[b] \in Seq(Items(V)) /\ Len(c[b]) \in Nat
        /\ p \in 1 .. Len(c[b]) /\ c[b][p].key = key
    BY <1>6, <1>7, <1>11, ChainShape
  <2>2. PICK chain : chain = RemoveAt(c[b], p)
    OBVIOUS
  <2>3. /\ chain \in Seq(Items(V)) /\ Len(chain) = Len(c[b]) - 1
        /\ \A q \in 1 .. Len(c[b]) - 1 : chain[q] = IF q < p THEN c[b][q] ELSE c[b][q + 1]
    BY <2>1, <2>2, RemovedElements
  <2>4. ChainOf(chain, n, b)
    <3> SUFFICES ASSUME NEW q \in 1 .. Len(chain), NEW r \in 1 .. Len(chain)
                 PROVE  /\ hash[chain[q].key] % n = b
                        /\ chain[q].key = chain[r].key => q = r
      BY DEF ChainOf
    <3>1. PICK q1 \in 1 .. Len(c[b]) : chain[q] = c[b][q1] /\ q1 = IF q < p THEN q ELSE q + 1
      BY <2>1, <2>3
    <3>2. PICK r1 \in 1 .. Len(c[b]) : chain[r] = c[b][r1] /\ r1 = IF r < p THEN r ELSE r + 1
      BY <2>1, <2>3
    <3>3. hash[chain[q].key] % n = b /\ (chain[q].key = chain[r].key => q1 = r1)
      BY <1>1, <1>7, <3>1, <3>2 DEF Sorted
    <3>4. q1 = r1 => q = r
      BY <2>1, <2>3, <3>1, <3>2
    <3> QED
      BY <3>3, <3>4
  <2>5. PICK d : d = [c EXCEPT ![b] = chain]
    OBVIOUS
  <2>6. /\ d \in Chains(n, V) /\ d[b] = chain
        /\ \A j \in 0 .. n - 1 : j # b => d[j] = c[j]
    BY <1>7, <2>3, <2>5 DEF Chains
  <2>7. /\ Sorted(d, n)
        /\ \A x : In(d, n, x) <=> \/ In(c, n, x) /\ hash[x.key] % n # b
                                  \/ \E q \in 1 .. Len(chain) : chain[q] = x
    BY <1>1, <1>7, <2>3, <2>4, <2>6, ChainReplaced
  <2>8. ASSUME NEW x PROVE In(d, n, x) <=> In(c, n, x) /\ x.key # key
    <3>1. ASSUME NEW q \in 1 .. Len(chain), chain[q] = x PROVE In(c, n, x) /\ x.key # key
      <4>1. PICK q1 \in 1 .. Len(c[b]) : x = c[b][q1] /\ q1 # p
        <5>1. CASE q < p
          BY <2>1, <2>3, <3>1, <5>1
        <5>2. CASE ~(q < p)
          <6>1. q + 1 \in 1 .. Len(c[b]) /\ q + 1 # p /\ x = c[b][q + 1]
            BY <2>1, <2>3, <3>1, <5>2
          <6> QED
            BY <6>1
        <5> QED
          BY <5>1, <5>2
      <4> QED
        BY <1>1, <1>7, <2>1, <4>1 DEF Sorted, In
    <3>2. ASSUME NEW q1 \in 1 .. Len(c[b]), c[b][q1] = x, q1 # p
          PROVE  \E q \in 1 .. Len(chain) : chain[q] = x
      <4>1. q1 < p => q1 \in 1 .. Len(chain) /\ chain[q1] = x
        BY <2>1, <2>3, <3>2
      <4>2. q1 > p => q1 - 1 \in 1 .. Len(chain) /\ chain[q1 - 1] = x
        BY <2>1, <2>3, <3>2
      <4> QED
        BY <2>1, <3>2, <4>1, <4>2
    <3>3. ASSUME In(c, n, x), x.key # key, hash[x.key] % n = b
          PROVE  \E q \in 1 .. Len(chain) : chain[q] = x
      <4>1. PICK j \in 0 .. n - 1 : \E q1 \in 1 .. Len(c[j]) : c[j][q1] = x
        BY <3>3 DEF In
      <4>2. j = b
        BY <1>1, <3>3, <4>1 DEF Sorted
      <4> QED
        BY <2>1, <3>2, <3>3, <4>1, <4>2
    <3>4. hash[x.key] % n # b => x.key # key
      BY <1>5
    <3> QED
      BY <2>7, <3>1, <3>3, <3>4
  <2>9. u = Tab(d, n, count - 1)
    <3>1. [t EXCEPT !.bucket_array[b] = RemoveAt(@, p), !.nentries = @ - 1] =
            [t EXCEPT !.bucket_array[b] = chain, !.nentries = count - 1]
      BY <1>2, <2>2, Zenon
    <3>2. PICK k : k = count - 1
      OBVIOUS
    <3>3. [Tab(c, n, count) EXCEPT !.bucket_array[b] = chain, !.nentries = count - 1] =
            [[Tab(c, n, count) EXCEPT !.bucket_array = [c EXCEPT ![b] = chain]]
               EXCEPT !.nentries = count - 1]
      BY DEF Tab
    <3>4. [Tab(c, n, count) EXCEPT !.bucket_array = d] = Tab(d, n, count)
      BY DEF Tab
    <3>5. [Tab(d, n, count) EXCEPT !.nentries = k] = Tab(d, n, k)
      BY DEF Tab
    <3> QED
      BY <1>1, <1>8, <1>11, <2>5, <3>1, <3>2, <3>3, <3>4, <3>5, Zenon
  <2>10. /\ c[b][p] \in E
         /\ \A x : In(d, n, x) <=> x \in E /\ x # c[b][p]
    BY <1>2, <1>6, <1>11, <2>8
  <2>11. IsTable(u, V)
    <3>1. \E was \in E : \A x : In(d, n, x) <=> x \in E /\ x # was
      BY <2>10
    <3>2. IsTable(Tab(d, n, count - 1), V)
      BY <1>1, <2>6, <2>7, <3>1, StillCounted DEF count
    <3> QED
      BY <2>9, <3>2
  <2>12. \A x : x \in Entries(u) <=> In(d, n, x)
    BY <2>6, <2>9, EntriesAreIn
  <2>13. \A x : x \in Entries(u) <=> x \in E /\ x.key # key
    BY <1>2, <2>8, <2>12
  <2> QED
    BY <2>11, <2>13 DEF OneGone, u, E
<1> QED
  BY <1>10, <1>11

\* What a search answers.
Answers(entries, key, data) ==
  \/ \E x \in entries : x.key = key /\ x.data = data
  \/ (\A x \in entries : x.key # key) /\ data = ABSENT

LEMMA ReferenceFinds ==
  ASSUME NEW V, NEW t, IsTable(t, V), NEW key \in Keys
  PROVE  Answers(Entries(t), key, assoc_reference(t, key))
<1> DEFINE E == Entries(t)
           count == Cardinality(E)
<1>0. PICK n \in Nat \ {0} : \E c \in Chains(n, V) :
        t = Tab(c, n, count) /\ Sorted(c, n) /\ IsFiniteSet(E)
  BY DEF IsTable
<1>1. PICK c \in Chains(n, V) : t = Tab(c, n, count) /\ Sorted(c, n) /\ IsFiniteSet(E)
  BY <1>0
<1>2. /\ \A x : x \in E <=> In(c, n, x)
      /\ t.nbuckets = n /\ t.bucket_array = c /\ t.nentries = count
  <2>1. \A x : x \in E <=> In(c, n, x)
    BY <1>1, EntriesAreIn
  <2> HIDE DEF count, E
  <2> QED
    BY <1>1, <2>1 DEF Tab
<1>4. PICK p : p = Position(t, key)
  OBVIOUS
<1>5. PICK b : b = hash[key] % n
  OBVIOUS
<1>6. /\ p = 0 => \A x : In(c, n, x) => x.key # key
      /\ p # 0 => c[b][p].key = key /\ In(c, n, c[b][p])
  BY <1>1, <1>4, <1>5, PositionFinds
<1>7. assoc_reference(t, key) = IF count # 0 /\ p # 0 THEN c[b][p].data ELSE ABSENT
  BY <1>2, <1>4, <1>5, Zenon DEF assoc_reference, Has, HASH_BUCKET
<1>8. count = 0 => E = {}
  BY <1>1, FS_EmptySet
<1> HIDE DEF E, count
<1>9. Answers(E, key, assoc_reference(t, key))
  BY <1>2, <1>6, <1>7, <1>8 DEF Answers
<1> QED
  BY <1>9 DEF E

----------------------------------------------------------------------------
\* Inductive with ArraysInv.  An associative array is a table, and so is what
\* is put aside, which there is while a compound assignment builds it.
TablesInv ==
  Associative => /\ IsTable(cell, Values)
                 /\ aside = NoTable \/ IsTable(aside, Values)
                 /\ doing = "building" => IsTable(aside, Values)

LEMMA TablesAreOK == ASSUME NEW V, NEW t, IsTable(t, V) PROVE TableOK(t)
<1>1. PICK n \in Nat \ {0} : \E c \in Chains(n, V) :
        t = Tab(c, n, Cardinality(Entries(t))) /\ Sorted(c, n)
  BY DEF IsTable
<1>2. PICK c \in Chains(n, V) : t = Tab(c, n, Cardinality(Entries(t))) /\ Sorted(c, n)
  BY <1>1
<1>3. PICK count : count = Cardinality(Entries(t))
  OBVIOUS
<1>4. t.nbuckets = n /\ t.bucket_array = c /\ t.nentries = Cardinality(Entries(t))
  <2>1. t = Tab(c, n, count)
    BY <1>2, <1>3
  <2>2. t.nbuckets = n /\ t.bucket_array = c /\ t.nentries = count
    BY <2>1 DEF Tab
  <2> QED
    BY <1>3, <2>2
<1>5. \A b \in 0 .. n - 1 : DOMAIN c[b] = 1 .. Len(c[b])
  BY ChainShape
<1> QED
  BY <1>2, <1>4, <1>5 DEF TableOK, Sorted, HASH_BUCKET

LEMMA TableBuckets ==
  ASSUME NEW V, NEW t, IsTable(t, V) PROVE t.nbuckets \in Nat \ {0}
<1>1. PICK n \in Nat \ {0} : \E c \in Chains(n, V) : t = Tab(c, n, Cardinality(Entries(t)))
  BY DEF IsTable
<1>2. PICK count : count = Cardinality(Entries(t))
  OBVIOUS
<1>3. PICK c : t = Tab(c, n, count)
  BY <1>1, <1>2
<1> QED
  BY <1>3 DEF Tab

LEMMA InitTables == Init /\ ArraysAssumption => TablesInv
<1>1. ArraysAssumption => IsTable(hash_create(Buckets), Values)
  BY NewTable DEF ArraysAssumption
<1> QED
  BY <1>1 DEF Init, TablesInv, New, Associative

\* A step that leaves the variable what it is.
LEMMA KindStays ==
  ASSUME ArraysInv, Next PROVE kind' = kind
<1>1. ASSUME NEW sub \in Subscripts, \/ \E value \in Values : AssignElement(sub, value)
                                     \/ ArrayValue(sub)
                                     \/ UnbindArrayElement(sub)
      PROVE  kind' = kind
  BY <1>1 DEF AssignElement, ArrayValue, UnbindArrayElement, Single
<1>2. ASSUME \/ \E append \in BOOLEAN : BeginCompound(append)
             \/ \E sub \in Subscripts \cup {NoSub}, value \in Values : CompoundWord(sub, value)
             \/ EndCompound
      PROVE  kind' = kind
  BY <1>2 DEF BeginCompound, CompoundWord, GoesOn, EndCompound
<1>3. ASSUME \/ \E n \in 1 .. MaxWords : \E statuses \in [1 .. n -> Values] : SetPipestatus(statuses)
             \/ InsertStatus \/ EndStatuses \/ SavePipestatus \/ RestorePipestatus
      PROVE  kind' = kind
  BY <1>3 DEF SetPipestatus, InsertStatus, GoesOn, EndStatuses, SavePipestatus,
              RestorePipestatus, Single
<1>4. ASSUME \/ PushArgs \/ (\E word \in Values : PushArg(word)) \/ PushCount
             \/ PopArgs \/ PopArg \/ EndPop
      PROVE  kind' = kind
  BY <1>4 DEF PushArgs, PushArg, GoesOn, PushCount, PopArgs, PopArg, EndPop
<1> QED
  BY <1>1, <1>2, <1>3, <1>4, Zenon DEF Next

LEMMA TablesStep ==
  ASSUME ArraysInv, TablesInv, ArraysAssumption, Next PROVE TablesInv'
<1>1. kind' = kind
  BY KindStays
<1>2. CASE ~Associative
  BY <1>1, <1>2 DEF TablesInv, Associative
<1>3. CASE Associative
  <2> DEFINE OK(t) == IsTable(t, Values)
  <2>0. /\ OK(cell) /\ (aside = NoTable \/ OK(aside)) /\ (doing = "building" => OK(aside))
        /\ kind = "associative" /\ Associative'
    BY <1>1, <1>3 DEF TablesInv, Associative
  <2> HIDE DEF OK
  <2>1. ASSUME OK(cell'), aside' = NoTable \/ OK(aside'), doing' = "building" => OK(aside')
        PROVE  TablesInv'
    BY <2>1 DEF TablesInv, OK
  <2>2. ASSUME NEW t, OK(t), NEW key \in Keys, NEW value \in Values
        PROVE  OK(insert(t, key, value))
    BY <1>3, <2>2, InsertPuts DEF insert, OK
  <2>3. Subscripts = Keys /\ \A sub : KeyOf(sub) = sub
    BY <1>3 DEF Subscripts, KeyOf
  <2>4. ASSUME NEW sub \in Subscripts, \/ \E value \in Values : AssignElement(sub, value)
                                       \/ ArrayValue(sub)
                                       \/ UnbindArrayElement(sub)
        PROVE  TablesInv'
    <3>1. doing' = doing /\ aside' = aside
      BY <2>4 DEF AssignElement, ArrayValue, UnbindArrayElement, Single
    <3>2. \A value \in Values : AssignElement(sub, value) => OK(cell')
      BY <2>0, <2>2, <2>3 DEF AssignElement
    <3>3. ArrayValue(sub) => OK(cell')
      BY <1>3, <2>0 DEF ArrayValue
    <3>4. UnbindArrayElement(sub) => OK(cell')
      BY <1>3, <2>0, <2>3, RemoveTakes DEF UnbindArrayElement, OK
    <3> QED
      BY <2>0, <2>1, <2>4, <3>1, <3>2, <3>3, <3>4
  <2>5. ASSUME NEW append \in BOOLEAN, BeginCompound(append) PROVE TablesInv'
    <3>1. cell' = cell /\ doing' = IF append THEN "compound" ELSE "building"
      BY <1>3, <2>5 DEF BeginCompound, Starts
    <3>2. aside' = IF append THEN aside ELSE hash_create(cell.nbuckets)
      BY <1>3, <2>5 DEF BeginCompound
    <3>3. OK(hash_create(cell.nbuckets))
      BY <2>0, TableBuckets, NewTable DEF OK
    <3> QED
      BY <2>0, <2>1, <3>1, <3>2, <3>3
  <2>6. ASSUME NEW sub \in Subscripts \cup {NoSub}, NEW value \in Values,
               CompoundWord(sub, value)
        PROVE  TablesInv'
    <3>1. doing' = doing
      BY <2>6 DEF CompoundWord, GoesOn
    <3>2. CASE sub = NoSub
      <4>1. cell' = cell /\ aside' = aside
        BY <1>3, <2>6, <3>2 DEF CompoundWord
      <4> QED
        BY <2>0, <2>1, <3>1, <4>1
    <3>3. CASE sub # NoSub
      <4>1. sub \in Keys
        BY <2>3, <3>3
      <4>2. IF doing = "building"
            THEN aside' = insert(aside, sub, value) /\ cell' = cell
            ELSE cell' = insert(cell, sub, value) /\ aside' = aside
        BY <1>3, <2>3, <2>6, <3>3 DEF CompoundWord
      <4> QED
        BY <2>0, <2>1, <2>2, <3>1, <4>1, <4>2
    <3> QED
      BY <3>2, <3>3
  <2>7. ASSUME EndCompound PROVE TablesInv'
    <3>1. doing' = "nothing" /\ IF doing = "building" THEN cell' = aside /\ aside' = NoTable
                                ELSE cell' = cell /\ aside' = aside
      BY <2>7 DEF EndCompound, Ends
    <3> QED
      BY <2>0, <2>1, <3>1
  <2>8. ~\/ \E n \in 1 .. MaxWords : \E statuses \in [1 .. n -> Values] : SetPipestatus(statuses)
         \/ InsertStatus \/ EndStatuses \/ SavePipestatus \/ RestorePipestatus
         \/ PushArgs \/ (\E word \in Values : PushArg(word)) \/ PushCount
         \/ PopArgs \/ PopArg \/ EndPop
    BY <2>0 DEF ArraysInv, Loops, SetPipestatus, InsertStatus, EndStatuses, SavePipestatus,
           RestorePipestatus, PushArgs, PushArg, PushCount, PopArgs, PopArg, EndPop
  <2> QED
    BY <2>4, <2>5, <2>6, <2>7, <2>8, Zenon DEF Next
<1> QED
  BY <1>2, <1>3

LEMMA TablesInvHolds == Spec => [](ArraysInv /\ TablesInv)
<1>1. Init => ArraysInv /\ TablesInv
  BY InitInv, InitTables, ArraysAssumption
<1>2. ArraysInv /\ TablesInv /\ [Next]_vars => (ArraysInv /\ TablesInv)'
  <2>1. ArraysInv /\ [Next]_vars => ArraysInv'
    BY NextKeeps, ArraysAssumption
  <2>2. ArraysInv /\ TablesInv /\ Next => TablesInv'
    BY TablesStep, ArraysAssumption
  <2>3. TablesInv /\ UNCHANGED vars => TablesInv'
    BY DEF TablesInv, Associative, vars
  <2> QED
    BY <2>1, <2>2, <2>3
<1> QED
  BY <1>1, <1>2, PTL DEF Spec

\* An entry of an associative array is in the bucket its key is looked for in,
\* once, and the entries are counted, whatever was assigned and unset, whatever
\* the table has grown to and whatever a compound assignment builds anew: a
\* search in a table that counts no entry is not made.
THEOREM BucketsAreRight == Spec => []TablesOK
<1>1. ArraysInv /\ TablesInv => TablesOK
  BY TablesAreOK DEF TablesInv, TablesOK
<1> QED
  BY <1>1, TablesInvHolds, PTL

----------------------------------------------------------------------------
\* An index past the last one gets the last place.
LEMMA InsertAppends ==
  ASSUME NEW V, NEW a, IsArray(a, V), NEW j \in Nat, NEW v \in V, j > a.max_index
  PROVE  LET e == array_insert(a, j, v).elements
             n == Len(a.elements)
         IN  /\ e \in Seq(Elements(V)) /\ Len(e) = n + 1 /\ e[n + 1] = Element(j, v)
             /\ \A p \in 1 .. n : e[p] = a.elements[p]
<1> DEFINE n == Len(a.elements)
<1>1. /\ a \in Parts(V) /\ a.elements \in Seq(Elements(V)) /\ n \in Nat
      /\ Element(j, v) \in Elements(V) /\ a.max_index \in Int
  BY ArrayShape, LastIndex DEF IsArray, Element, Elements
<1>2. PICK at : at = n + 1
  OBVIOUS
<1>3. PICK new : new = Element(j, v)
  OBVIOUS
<1>4. PICK s : s = InsertAt(a.elements, at, new)
  OBVIOUS
<1>5. /\ s \in Seq(Elements(V)) /\ Len(s) = n + 1
      /\ \A q \in 1 .. n + 1 :
           s[q] = IF q < at THEN a.elements[q] ELSE IF q = at THEN new ELSE a.elements[q - 1]
  <2>1. at \in 1 .. Len(a.elements) + 1 /\ new \in Elements(V)
    BY <1>1, <1>2, <1>3
  <2>2. a.elements \in Seq(Elements(V))
    BY <1>1
  <2> QED
    BY ONLY <1>4, <2>1, <2>2, InsertedElements
<1>6. array_insert(a, j, v) = [Hook(a, at, new) EXCEPT !.max_index = j]
  BY <1>1, <1>2, <1>3 DEF array_insert
<1>7. [Hook(a, at, new) EXCEPT !.max_index = j].elements = s
  <2>1. at \in Nat /\ j \in Int /\ a \in Parts(V)
        /\ InsertAt(a.elements, at, new) \in Seq(Elements(V))
    BY <1>1, <1>2, <1>4, <1>5
  <2> QED
    <3>1. PICK h : h = Hook(a, at, new)
      OBVIOUS
    <3>2. h \in Parts(V) /\ h.elements = s
      <4>1. a.num_elements + 1 \in Nat
        BY <2>1 DEF Parts
      <4>2. h \in Parts(V)
        BY <2>1, <3>1, <4>1, Zenon DEF Hook, Parts
      <4>3. Hook(a, at, new).elements = InsertAt(a.elements, at, new)
        BY <2>1, SMT DEF Hook, Parts
      <4> QED
        BY <1>4, <3>1, <4>2, <4>3
    <3>3. [h EXCEPT !.max_index = j].elements = h.elements
      BY <3>2 DEF Parts
    <3> QED
      BY <3>1, <3>2, <3>3, Zenon
<1> HIDE DEF n
<1>8. s[n + 1] = new /\ \A p \in 1 .. n : s[p] = a.elements[p]
  BY <1>1, <1>2, <1>5
<1> QED
  BY <1>3, <1>5, <1>6, <1>7, <1>8 DEF n

LEMMA IndexOfElement == \A j, v : Element(j, v).ind = j /\ Element(j, v).value = v
  BY DEF Element

\* The elements of PIPESTATUS have the indices from 0, also those that a trap
\* handler's PIPESTATUS will be replaced with.
Consecutive(a) == \A p \in 1 .. Len(a.elements) : Ind(a, p) = p - 1

\* The first i statuses are in place and there are no other elements.
StatusesSoFar ==
  /\ i <= Len(ps) /\ i = Len(cell.elements)
  /\ \A p \in 1 .. i : cell.elements[p] = Element(p - 1, ps[p])

PipestatusInv ==
  kind = "PIPESTATUS" => /\ Consecutive(cell)
                         /\ aside = NoTable \/ Consecutive(aside)
                         /\ doing \in {"nothing", "statuses"}
                         /\ doing = "statuses" => StatusesSoFar

LEMMA InitPipestatus == Init => PipestatusInv
<1> SUFFICES ASSUME Init PROVE PipestatusInv
  OBVIOUS
<1>1. kind = "PIPESTATUS" => cell.elements = <<>> /\ aside = NoTable /\ doing = "nothing"
  BY DEF Init, New, Associative, array_create
<1>2. Len(<<>>) = 0
  BY EmptySeq
<1> QED
  BY <1>1, <1>2 DEF PipestatusInv, Consecutive

LEMMA SetPipestatusStarts ==
  ASSUME ArraysInv, PipestatusInv, ArraysAssumption, NEW n \in 1 .. MaxWords,
         NEW statuses \in [1 .. n -> Values], SetPipestatus(statuses)
  PROVE  Consecutive(cell') /\ StatusesSoFar'
<1>1. kind = "PIPESTATUS" /\ IsArray(cell, Values) /\ Consecutive(cell)
  BY DEF SetPipestatus, ArraysInv, CellIsArray, Associative, PipestatusInv
<1>2. ps' = statuses /\ Len(statuses) = n /\ n \in Nat /\ statuses \in Seq(Values)
  BY DEF SetPipestatus, ArraysAssumption
<1>3. /\ cell.elements \in Seq(Elements(Values)) /\ Len(cell.elements) \in Nat
      /\ cell.num_elements = Len(cell.elements)
  BY <1>1, ArrayShape
<1>4. CASE cell.num_elements # 0 /\ cell.num_elements <= Len(statuses)
  <2>1. i' = cell.num_elements /\ cell' = SetFirstValues(cell, statuses)
    BY <1>4, Zenon DEF SetPipestatus, Starts
  <2>2. cell'.elements = [p \in 1 .. Len(cell.elements) |->
                            Element(cell.elements[p].ind, statuses[p])]
    <3>1. DOMAIN cell.elements = 1 .. Len(cell.elements)
      BY <1>3
    <3>2. cell \in Parts(Values)
      BY <1>1 DEF IsArray
    <3> QED
      BY <2>1, <3>1, <3>2 DEF SetFirstValues, Parts
  <2>3. Len(cell'.elements) = Len(cell.elements)
    BY <1>3, <2>2
  <2>4. \A p \in 1 .. Len(cell.elements) : cell'.elements[p] = Element(p - 1, statuses[p])
    BY <1>1, <2>2 DEF Consecutive, Ind
  <2>5. Consecutive(cell')
    BY <2>3, <2>4, IndexOfElement DEF Consecutive, Ind
  <2> QED
    BY <1>2, <1>3, <1>4, <2>1, <2>3, <2>4, <2>5 DEF StatusesSoFar
<1>5. CASE ~(cell.num_elements # 0 /\ cell.num_elements <= Len(statuses))
  <2>1. i' = 0 /\ (cell' = array_create \/ (cell' = cell /\ cell.num_elements = 0))
    BY <1>5, Zenon DEF SetPipestatus, Starts
  <2>2. Len(cell'.elements) = 0
    <3>1. Len(array_create.elements) = 0
      BY EmptySeq DEF array_create
    <3> QED
      BY <1>3, <2>1, <3>1
  <2> QED
    BY <1>2, <2>1, <2>2 DEF StatusesSoFar, Consecutive
<1> QED
  BY <1>4, <1>5

LEMMA InsertStatusGoesOn ==
  ASSUME ArraysInv, PipestatusInv, InsertStatus
  PROVE  Consecutive(cell') /\ StatusesSoFar'
<1>1. /\ kind = "PIPESTATUS" /\ IsArray(cell, Values) /\ Consecutive(cell) /\ StatusesSoFar
      /\ i \in Nat /\ ps \in Seq(Values) /\ i < Len(ps)
  BY DEF InsertStatus, ArraysInv, Loops, TypeOK, CellIsArray, Associative, PipestatusInv
<1>2. Len(ps) \in Nat /\ i + 1 \in 1 .. Len(ps) /\ ps[i + 1] \in Values
  BY <1>1, ElementOfSeq
<1>3. i' = i + 1 /\ ps' = ps /\ cell' = array_insert(cell, i, ps[i + 1])
  BY DEF InsertStatus, GoesOn
<1>4. i > cell.max_index
  <2>1. cell.max_index = IndexOfLast(cell.elements)
    BY <1>1 DEF IsArray, ArrayOK
  <2>2. /\ i = Len(cell.elements) /\ cell.elements \in Seq(Elements(Values))
        /\ \A p \in 1 .. i : Ind(cell, p) = p - 1
    BY <1>1, ArrayShape DEF StatusesSoFar, Consecutive
  <2>3. cell.elements # <<>> => i \in 1 .. i
    BY <1>1, <2>2
  <2> QED
    BY <1>1, <2>1, <2>2, <2>3 DEF IndexOfLast, Ind
<1>5. PICK e : e = cell'.elements
  OBVIOUS
<1>6. /\ Len(e) = Len(cell.elements) + 1
      /\ e[Len(cell.elements) + 1] = Element(i, ps[i + 1])
      /\ \A p \in 1 .. Len(cell.elements) : e[p] = cell.elements[p]
  BY <1>1, <1>2, <1>3, <1>4, <1>5, InsertAppends
<1>7. Len(e) = i + 1 /\ \A p \in 1 .. i + 1 : e[p] = Element(p - 1, ps[p])
  <2>1. i = Len(cell.elements) /\ \A p \in 1 .. i : cell.elements[p] = Element(p - 1, ps[p])
    BY <1>1 DEF StatusesSoFar
  <2>2. \A p \in 1 .. i + 1 : p \in 1 .. i \/ p = i + 1
    BY <1>1
  <2>3. i + 1 - 1 = i
    BY <1>1
  <2> QED
    BY <1>6, <2>1, <2>2, <2>3
<1>8. Consecutive(cell')
  BY <1>5, <1>7, IndexOfElement DEF Consecutive, Ind
<1>9. StatusesSoFar'
  BY <1>2, <1>3, <1>5, <1>7 DEF StatusesSoFar
<1> QED
  BY <1>8, <1>9

LEMMA PipestatusStep ==
  ASSUME ArraysInv, PipestatusInv, ArraysAssumption, Next PROVE PipestatusInv'
<1>1. kind' = kind
  BY KindStays
<1>2. CASE kind # "PIPESTATUS"
  BY <1>1, <1>2 DEF PipestatusInv
<1>3. CASE kind = "PIPESTATUS"
  <2>1. /\ Consecutive(cell) /\ (aside = NoTable \/ Consecutive(aside))
        /\ (doing = "statuses" => StatusesSoFar) /\ doing \in {"nothing", "statuses"}
        /\ IsArray(cell, Values) /\ (aside # NoTable => IsArray(aside, Values))
        /\ ~Associative /\ ~Assignable
    BY <1>3 DEF PipestatusInv, ArraysInv, CellIsArray, AsideIsArray, Associative, Assignable
  <2>2. ASSUME Consecutive(cell'), aside' = NoTable \/ Consecutive(aside'),
               doing' \in {"nothing", "statuses"}, doing' = "statuses" => StatusesSoFar'
        PROVE  PipestatusInv'
    BY <2>2 DEF PipestatusInv
  <2>3. ASSUME NEW sub \in Subscripts, ArrayValue(sub) PROVE PipestatusInv'
    <3>1. cell' = AfterReference(cell, Index(sub)) /\ aside' = aside /\ doing' = doing
          /\ doing = "nothing"
      BY <2>1, <2>3, Zenon DEF ArrayValue, Single, Expanding
    <3>2. cell'.elements = cell.elements
      BY <2>1, <3>1, Zenon DEF AfterReference, IsArray, Parts
    <3>3. Consecutive(cell')
      BY <2>1, <3>2 DEF Consecutive, Ind
    <3> QED
      BY <2>1, <2>2, <3>1, <3>3
  <2>4. ASSUME NEW n \in 1 .. MaxWords, NEW statuses \in [1 .. n -> Values],
               SetPipestatus(statuses)
        PROVE  PipestatusInv'
    <3>1. doing' = "statuses" /\ aside' = aside
      BY <2>4, Zenon DEF SetPipestatus, Starts
    <3> QED
      BY <2>1, <2>2, <2>4, <3>1, SetPipestatusStarts
  <2>5. ASSUME InsertStatus PROVE PipestatusInv'
    <3>1. doing' = "statuses" /\ aside' = aside
      BY <2>5 DEF InsertStatus, GoesOn
    <3> QED
      BY <2>1, <2>2, <2>5, <3>1, InsertStatusGoesOn
  <2>6. ASSUME EndStatuses PROVE PipestatusInv'
    <3>1. doing' = "nothing" /\ aside' = aside /\ cell' = cell
      BY <2>6 DEF EndStatuses, Ends
    <3> QED
      BY <2>1, <2>2, <3>1
  <2>7. ASSUME SavePipestatus PROVE PipestatusInv'
    <3>1. doing' = "nothing" /\ aside' = array_copy(cell) /\ cell' = cell
      BY <2>7 DEF SavePipestatus, Single, Idle
    <3>2. array_copy(cell).elements = cell.elements
      BY <2>1, Zenon DEF array_copy, IsArray, Parts
    <3>3. Consecutive(aside')
      BY <2>1, <3>1, <3>2 DEF Consecutive, Ind
    <3> QED
      BY <2>1, <2>2, <3>1, <3>3
  <2>8. ASSUME RestorePipestatus PROVE PipestatusInv'
    <3>1. doing' = "nothing" /\ aside' = NoTable /\ cell' = aside /\ aside # NoTable
      BY <2>8 DEF RestorePipestatus, Single, Idle
    <3> QED
      BY <2>1, <2>2, <3>1
  <2>9. /\ \A sub : ~UnbindArrayElement(sub) /\ \A value : ~AssignElement(sub, value)
        /\ \A append : ~BeginCompound(append)
        /\ \A sub, value : ~CompoundWord(sub, value)
        /\ ~EndCompound
        /\ ~(PushArgs \/ (\E word \in Values : PushArg(word)) \/ PushCount
             \/ PopArgs \/ PopArg \/ EndPop)
    BY <1>3, <2>1 DEF UnbindArrayElement, AssignElement, BeginCompound, CompoundWord,
         EndCompound, PushArgs, PushArg, PushCount, PopArgs, PopArg, EndPop
  <2> QED
    BY <2>3, <2>4, <2>5, <2>6, <2>7, <2>8, <2>9, Zenon DEF Next
<1> QED
  BY <1>2, <1>3

LEMMA PipestatusInvHolds == Spec => [](ArraysInv /\ PipestatusInv)
<1>1. Init => ArraysInv /\ PipestatusInv
  BY InitInv, InitPipestatus
<1>2. ArraysInv /\ PipestatusInv /\ [Next]_vars => (ArraysInv /\ PipestatusInv)'
  <2>1. ArraysInv /\ [Next]_vars => ArraysInv'
    BY NextKeeps, ArraysAssumption
  <2>2. ArraysInv /\ PipestatusInv /\ Next => PipestatusInv'
    BY PipestatusStep, ArraysAssumption
  <2>3. PipestatusInv /\ UNCHANGED vars => PipestatusInv'
    BY DEF PipestatusInv, StatusesSoFar, vars
  <2> QED
    BY <2>1, <2>2, <2>3
<1> QED
  BY <1>1, <1>2, PTL DEF Spec

\* When the loop of set_pipestatus_array has ended, PIPESTATUS is the list of
\* the statuses of the last pipeline, from index 0 and with no other element,
\* however many there were before, wherever a reference left the roving pointer
\* and whatever a trap handler put back.
THEOREM PipestatusIsExact == Spec => []PipestatusIsLast
<1>1. ArraysInv /\ PipestatusInv => PipestatusIsLast
  <2> SUFFICES ASSUME ArraysInv, PipestatusInv, doing = "statuses", i = Len(ps)
               PROVE  cell.elements = [p \in DOMAIN ps |-> Element(p - 1, ps[p])]
    BY DEF PipestatusIsLast
  <2>1. kind = "PIPESTATUS" /\ StatusesSoFar /\ IsArray(cell, Values) /\ ps \in Seq(Values)
    BY DEF ArraysInv, Loops, PipestatusInv, CellIsArray, Associative
  <2>2. /\ cell.elements \in Seq(Elements(Values)) /\ Len(cell.elements) = Len(ps)
        /\ \A p \in 1 .. Len(ps) : cell.elements[p] = Element(p - 1, ps[p])
    BY <2>1, ArrayShape DEF StatusesSoFar
  <2>3. PICK n \in Nat : n = Len(ps)
    BY <2>1
  <2>4. DOMAIN ps = 1 .. n /\ cell.elements = [p \in 1 .. n |-> cell.elements[p]]
    BY <2>1, <2>2, <2>3
  <2> QED
    BY <2>2, <2>3, <2>4
<1> QED
  BY <1>1, PipestatusInvHolds, PTL

----------------------------------------------------------------------------
\* Dictionaries, by what they map to what.
IsDict(d) == d = [j \in DOMAIN d |-> d[j]]
Maps(d, k, v) == k \in DOMAIN d /\ d[k] = v

LEMMA SameDictionary ==
  ASSUME NEW d, NEW e, IsDict(d), IsDict(e), \A k, v : Maps(d, k, v) <=> Maps(e, k, v)
  PROVE  d = e
<1>1. \A k : k \in DOMAIN d <=> k \in DOMAIN e
  <2>1. \A k : k \in DOMAIN d <=> Maps(d, k, d[k]) \/ Maps(d, k, e[k])
    BY DEF Maps
  <2>2. \A k : k \in DOMAIN e <=> Maps(e, k, d[k]) \/ Maps(e, k, e[k])
    BY DEF Maps
  <2> QED
    BY <2>1, <2>2
<1>2. DOMAIN d = DOMAIN e
  BY <1>1
<1>3. \A k \in DOMAIN d : d[k] = e[k]
  <2>1. \A k \in DOMAIN d : Maps(d, k, d[k])
    BY DEF Maps
  <2> QED
    BY <2>1 DEF Maps
<1> QED
  BY <1>2, <1>3 DEF IsDict

LEMMA EmptyDictionary ==
  IsDict(Promise!EMPTY) /\ DOMAIN Promise!EMPTY = {} /\ \A k, v : ~Maps(Promise!EMPTY, k, v)
<1>1. DOMAIN <<>> = {}
  OBVIOUS
<1>2. <<>> = [j \in DOMAIN <<>> |-> <<>>[j]]
  OBVIOUS
<1> QED
  BY <1>1, <1>2 DEF IsDict, Maps, Promise!EMPTY

LEMMA PutMaps ==
  ASSUME NEW d, NEW key, NEW value
  PROVE  /\ IsDict(Promise!Put(d, key, value))
         /\ \A k, v : Maps(Promise!Put(d, key, value), k, v)
                        <=> (k = key /\ v = value) \/ (k # key /\ Maps(d, k, v))
<1>1. PICK e : e = [j \in DOMAIN d \cup {key} |-> IF j = key THEN value ELSE d[j]]
  OBVIOUS
<1>2. IsDict(e) /\ \A k, v : Maps(e, k, v)
                        <=> (k = key /\ v = value) \/ (k # key /\ Maps(d, k, v))
  BY <1>1 DEF IsDict, Maps
<1>3. Promise!Put(d, key, value) = e
  BY <1>1, Zenon DEF Promise!Put
<1> QED
  BY <1>2, <1>3

LEMMA DropMaps ==
  ASSUME NEW d, NEW key
  PROVE  /\ IsDict(Promise!Drop(d, key))
         /\ \A k, v : Maps(Promise!Drop(d, key), k, v) <=> k # key /\ Maps(d, k, v)
<1>1. PICK e : e = [j \in DOMAIN d \ {key} |-> d[j]]
  OBVIOUS
<1>2. IsDict(e) /\ \A k, v : Maps(e, k, v) <=> k # key /\ Maps(d, k, v)
  BY <1>1 DEF IsDict, Maps
<1>3. Promise!Drop(d, key) = e
  BY <1>1, Zenon DEF Promise!Drop
<1> QED
  BY <1>2, <1>3

\* Where the keys are numbers.
LEMMA PushedMaps ==
  ASSUME NEW d, DOMAIN d \subseteq Nat, NEW value
  PROVE  /\ IsDict(Promise!Pushed(d, value))
         /\ \A k, v : Maps(Promise!Pushed(d, value), k, v)
                        <=> \/ k = 0 /\ v = value
                            \/ k \in Nat \ {0} /\ Maps(d, k - 1, v)
<1>1. PICK S : S = {0} \cup {k + 1 : k \in DOMAIN d}
  OBVIOUS
<1>2. PICK e : e = [j \in S |-> IF j = 0 THEN value ELSE d[j - 1]]
  OBVIOUS
<1>3. \A k : k \in S <=> k = 0 \/ (k \in Nat \ {0} /\ k - 1 \in DOMAIN d)
  <2>1. ASSUME NEW k \in DOMAIN d PROVE k + 1 \in Nat \ {0} /\ k + 1 - 1 = k
    OBVIOUS
  <2>2. ASSUME NEW k \in Nat \ {0} PROVE k = k - 1 + 1
    OBVIOUS
  <2>3. \A k : k \in S <=> k = 0 \/ \E j \in DOMAIN d : k = j + 1
    BY <1>1
  <2> QED
    BY <2>1, <2>2, <2>3
<1>4. IsDict(e) /\ DOMAIN e = S /\ \A k \in S : e[k] = IF k = 0 THEN value ELSE d[k - 1]
  BY <1>2 DEF IsDict
<1>5. \A k, v : Maps(e, k, v) <=> \/ k = 0 /\ v = value
                                  \/ k \in Nat \ {0} /\ Maps(d, k - 1, v)
  BY <1>3, <1>4 DEF Maps
<1>6. Promise!Pushed(d, value) = e
  BY <1>1, <1>2, Zenon DEF Promise!Pushed
<1> QED
  BY <1>4, <1>5, <1>6

LEMMA PoppedMaps ==
  ASSUME NEW d, DOMAIN d \subseteq Nat
  PROVE  /\ IsDict(Promise!Popped(d))
         /\ \A k, v : Maps(Promise!Popped(d), k, v)
                        <=> /\ k \in Nat /\ Maps(d, k + 1, v)
                            /\ \E n \in DOMAIN d : n < k + 1
<1>1. PICK S : S = {k - 1 : k \in {m \in DOMAIN d : \E n \in DOMAIN d : n < m}}
  OBVIOUS
<1>2. PICK e : e = [j \in S |-> d[j + 1]]
  OBVIOUS
<1>3. \A k : k \in S <=> k \in Nat /\ k + 1 \in DOMAIN d /\ \E n \in DOMAIN d : n < k + 1
  <2>1. \A k : k \in S <=> \E m \in DOMAIN d : k = m - 1 /\ \E n \in DOMAIN d : n < m
    BY <1>1
  <2>2. ASSUME NEW m \in DOMAIN d, NEW n \in DOMAIN d, n < m
        PROVE  m - 1 \in Nat /\ m - 1 + 1 = m
    BY <2>2
  <2>3. ASSUME NEW k \in Nat PROVE k + 1 - 1 = k
    OBVIOUS
  <2> QED
    BY <2>1, <2>2, <2>3
<1>4. IsDict(e) /\ DOMAIN e = S /\ \A k \in S : e[k] = d[k + 1]
  BY <1>2 DEF IsDict
<1>5. \A k, v : Maps(e, k, v) <=> /\ k \in Nat /\ Maps(d, k + 1, v)
                                  /\ \E n \in DOMAIN d : n < k + 1
  BY <1>3, <1>4 DEF Maps
<1>6. Promise!Popped(d) = e
  BY <1>1, <1>2, Zenon DEF Promise!Popped
<1> QED
  BY <1>4, <1>5, <1>6

----------------------------------------------------------------------------
\* What a list and the chains of a table map.
Holds(a, k, v) == \E p \in 1 .. Len(a.elements) : Ind(a, p) = k /\ a.elements[p].value = v

LEMMA ArrayContents ==
  ASSUME NEW V, NEW a, IsArray(a, V)
  PROVE  /\ IsDict(OfArray(a)) /\ DOMAIN OfArray(a) \subseteq Nat
         /\ \A k, v : Maps(OfArray(a), k, v) <=> Holds(a, k, v)
<1>1. /\ a.elements \in Seq(Elements(V)) /\ Len(a.elements) \in Nat
      /\ \A p \in 1 .. Len(a.elements) : Ind(a, p) \in Nat
      /\ \A p, q \in 1 .. Len(a.elements) : p < q => Ind(a, p) < Ind(a, q)
  BY ArrayShape
<1> DEFINE T == ToSet(a.elements)
           S == {e.ind : e \in T}
           d == OfArray(a)
<1>3. \A e : e \in T <=> \E p \in 1 .. Len(a.elements) : a.elements[p] = e
  BY <1>1 DEF ToSet
<1> HIDE DEF T
<1>5. \A j : j \in S <=> \E p \in 1 .. Len(a.elements) : Ind(a, p) = j
  BY <1>3 DEF Ind
<1> HIDE DEF S
<1>6. d = [j \in S |-> (CHOOSE e \in T : e.ind = j).value]
  BY Zenon DEF OfArray, S, T
<1> HIDE DEF d
<1>8. IsDict(d) /\ DOMAIN d = S
  BY <1>6 DEF IsDict
<1>9. \A p, q \in 1 .. Len(a.elements) : Ind(a, p) = Ind(a, q) => p = q
  BY <1>1
<1>10. ASSUME NEW p \in 1 .. Len(a.elements)
       PROVE  Ind(a, p) \in S /\ d[Ind(a, p)] = a.elements[p].value
  <2>1. a.elements[p] \in T /\ a.elements[p].ind = Ind(a, p)
    BY <1>3 DEF Ind
  <2>2. \A e \in T : e.ind = Ind(a, p) => e = a.elements[p]
    BY <1>3, <1>9 DEF Ind
  <2>3. (CHOOSE e \in T : e.ind = Ind(a, p)) = a.elements[p]
    BY <2>1, <2>2
  <2>4. Ind(a, p) \in S
    BY <1>5
  <2> QED
    BY <1>6, <2>3, <2>4
<1>11. \A k, v : Maps(d, k, v) <=> Holds(a, k, v)
  BY <1>5, <1>8, <1>10 DEF Maps, Holds
<1>12. S \subseteq Nat
  BY <1>1, <1>5
<1> QED
  BY <1>8, <1>11, <1>12 DEF d

LEMMA TableContents ==
  ASSUME NEW V, NEW t, IsTable(t, V)
  PROVE  /\ IsDict(OfTable(t))
         /\ \A k, v : Maps(OfTable(t), k, v) <=> \E x \in Entries(t) : x.key = k /\ x.data = v
<1>0. PICK n \in Nat \ {0} : \E c \in Chains(n, V) :
        t = Tab(c, n, Cardinality(Entries(t))) /\ Sorted(c, n)
  BY DEF IsTable
<1>1. PICK c \in Chains(n, V) : t = Tab(c, n, Cardinality(Entries(t))) /\ Sorted(c, n)
  BY <1>0
<1> DEFINE T == Entries(t)
           S == {e.key : e \in T}
           d == OfTable(t)
<1>3. \A x : x \in T <=> In(c, n, x)
  BY <1>1, EntriesAreIn
<1> HIDE DEF T
<1>5. \A j : j \in S <=> \E x \in T : x.key = j
  OBVIOUS
<1> HIDE DEF S
<1>6. d = [k \in S |-> (CHOOSE e \in T : e.key = k).data]
  BY Zenon DEF OfTable, S, T
<1> HIDE DEF d
<1>8. IsDict(d) /\ DOMAIN d = S
  BY <1>6 DEF IsDict
<1>9. \A x, y \in T : x.key = y.key => x = y
  <2> SUFFICES ASSUME NEW x \in T, NEW y \in T, x.key = y.key PROVE x = y
    OBVIOUS
  <2>1. PICK b \in 0 .. n - 1 : \E p \in 1 .. Len(c[b]) : c[b][p] = x
    BY <1>3 DEF In
  <2>2. PICK j \in 0 .. n - 1 : \E p \in 1 .. Len(c[j]) : c[j][p] = y
    BY <1>3 DEF In
  <2>3. j = b
    BY <1>1, <2>1, <2>2 DEF Sorted
  <2> QED
    BY <1>1, <2>1, <2>2, <2>3 DEF Sorted
<1>10. ASSUME NEW x \in T PROVE x.key \in S /\ d[x.key] = x.data
  <2>1. \A e \in T : e.key = x.key => e = x
    BY <1>9
  <2>2. (CHOOSE e \in T : e.key = x.key) = x
    BY <2>1
  <2>3. x.key \in S
    BY <1>5
  <2> QED
    BY <1>6, <2>2, <2>3
<1>11. \A k, v : Maps(d, k, v) <=> \E x \in T : x.key = k /\ x.data = v
  BY <1>5, <1>8, <1>10 DEF Maps
<1> QED
  BY <1>8, <1>11 DEF d, T

\* A search finds the element of an index if there is one.
Absent(a, j) == OutOfRange(a, j) \/ ~Found(a, j)

LEMMA SearchFinds ==
  ASSUME NEW V, NEW a, IsArray(a, V), NEW j \in Nat
  PROVE  IF Absent(a, j)
         THEN \A p \in 1 .. Len(a.elements) : Ind(a, p) # j
         ELSE Search(a, j) \in 1 .. Len(a.elements) /\ Ind(a, Search(a, j)) = j
<1> DEFINE n == Len(a.elements)
<1>1. /\ n \in Nat /\ a.num_elements = n
      /\ n # 0 => a.max_index = Ind(a, n) /\ array_first_index(a) = Ind(a, 1)
      /\ \A p \in 1 .. n : Ind(a, p) \in Nat
      /\ \A p, q \in 1 .. n : p < q => Ind(a, p) < Ind(a, q)
  BY ArrayShape
<1>2. CASE OutOfRange(a, j)
  <2> SUFFICES ASSUME NEW p \in 1 .. n PROVE Ind(a, p) # j
    BY <1>2 DEF Absent
  <2>1. n # 0 /\ 1 \in 1 .. n /\ n \in 1 .. n
    BY <1>1
  <2>2. Ind(a, 1) <= Ind(a, p) /\ Ind(a, p) <= Ind(a, n)
    BY <1>1, <2>1
  <2>3. j > Ind(a, n) \/ j < Ind(a, 1)
    BY <1>1, <1>2, <2>1 DEF OutOfRange
  <2> QED
    BY <1>1, <2>1, <2>2, <2>3
<1>3. CASE ~OutOfRange(a, j)
  <2>1. /\ Search(a, j) \in 1 .. n
        /\ Forward(a, j) => /\ Ind(a, Search(a, j)) >= j
                            /\ \A q \in 1 .. Search(a, j) - 1 : Ind(a, q) < j
        /\ ~Forward(a, j) => /\ Ind(a, Search(a, j)) <= j
                             /\ \A q \in Search(a, j) + 1 .. n : Ind(a, q) > j
    BY <1>3, SearchEnds
  <2>2. Reached(a, j)
    BY <2>1, ArrayShape DEF Reached
  <2>3. CASE Found(a, j)
    BY <1>3, <2>1, <2>3 DEF Absent, Found
  <2>4. CASE ~Found(a, j)
    <3>1. PICK s \in 1 .. n : s = Search(a, j)
      BY <2>1
    <3>2. Ind(a, s) # j
      BY <2>2, <2>4, <3>1 DEF Found
    <3> SUFFICES ASSUME NEW p \in 1 .. n, Ind(a, p) = j PROVE FALSE
      BY <2>4 DEF Absent
    <3>3. p # s /\ p \in Nat /\ s \in Nat
      BY <1>1, <3>2
    <3>4. CASE Forward(a, j)
      <4>1. p > s
        BY <1>1, <2>1, <3>1, <3>3, <3>4
      <4>2. Ind(a, s) < Ind(a, p)
        BY <1>1, <4>1
      <4> QED
        BY <1>1, <2>1, <3>1, <3>4, <4>2
    <3>5. CASE ~Forward(a, j)
      <4>1. p < s
        BY <1>1, <2>1, <3>1, <3>3, <3>5
      <4>2. Ind(a, p) < Ind(a, s)
        BY <1>1, <4>1
      <4> QED
        BY <1>1, <2>1, <3>1, <3>5, <4>2
    <3> QED
      BY <3>4, <3>5
  <2> QED
    BY <2>3, <2>4
<1> QED
  BY <1>2, <1>3

\* A list with a new element, and one with a new value.
LEMMA HookHolds ==
  ASSUME NEW V, NEW a, IsArray(a, V), NEW j \in Nat, NEW value \in V,
         \A p \in 1 .. Len(a.elements) : Ind(a, p) # j,
         NEW at \in 1 .. Len(a.elements) + 1,
         NEW b, b.elements = InsertAt(a.elements, at, Element(j, value))
  PROVE  \A k, v : Holds(b, k, v) <=> (k = j /\ v = value) \/ (k # j /\ Holds(a, k, v))
<1> DEFINE n == Len(a.elements)
<1>1. n \in Nat /\ a.elements \in Seq(Elements(V)) /\ Element(j, value) \in Elements(V)
  BY ArrayShape DEF Element, Elements
<1>2. PICK new : new = Element(j, value)
  OBVIOUS
<1>3. new.ind = j /\ new.value = value
  BY <1>2, IndexOfElement
<1>4. /\ Len(b.elements) = n + 1
      /\ \A q \in 1 .. n + 1 :
           b.elements[q] = IF q < at THEN a.elements[q] ELSE IF q = at THEN new
                           ELSE a.elements[q - 1]
  <2>1. at \in 1 .. Len(a.elements) + 1 /\ new \in Elements(V) /\ a.elements \in Seq(Elements(V))
    BY <1>1, <1>2
  <2>2. PICK s : s = b.elements
    OBVIOUS
  <2>3. s = InsertAt(a.elements, at, new)
    BY <1>2, <2>2
  <2>4. PICK l \in Seq(Elements(V)) : l = a.elements
    BY <2>1
  <2>5. PICK pos \in 1 .. Len(l) + 1 : pos = at
    BY <2>1, <2>4
  <2>6. /\ InsertAt(l, pos, new) \in Seq(Elements(V)) /\ Len(InsertAt(l, pos, new)) = Len(l) + 1
        /\ \A q \in 1 .. Len(l) + 1 :
             InsertAt(l, pos, new)[q] =
               IF q < pos THEN l[q] ELSE IF q = pos THEN new ELSE l[q - 1]
    BY <2>1, InsertedElements
  <2> QED
    BY <2>2, <2>3, <2>4, <2>5, <2>6
<1> HIDE DEF n
<1>5. ASSUME NEW k, NEW v, Holds(b, k, v)
      PROVE  (k = j /\ v = value) \/ (k # j /\ Holds(a, k, v))
  <2>1. PICK q \in 1 .. n + 1 : b.elements[q].ind = k /\ b.elements[q].value = v
    BY <1>4, <1>5 DEF Holds, Ind
  <2>2. CASE q = at
    BY <1>3, <1>4, <2>1, <2>2
  <2>3. CASE q # at
    <3>1. PICK p \in 1 .. n : a.elements[p] = b.elements[q]
      <4>1. CASE q < at
        <5>1. q \in 1 .. n
          BY <1>1, <4>1 DEF n
        <5> QED
          BY <1>4, <4>1, <5>1
      <4>2. CASE ~(q < at)
        <5>1. q - 1 \in 1 .. n
          BY <1>1, <2>3, <4>2 DEF n
        <5> QED
          BY <1>4, <2>3, <4>2, <5>1
      <4> QED
        BY <4>1, <4>2
    <3>2. Ind(a, p) = k /\ a.elements[p].value = v
      BY <2>1, <3>1 DEF Ind
    <3> QED
      BY <3>2 DEF Holds, n
  <2> QED
    BY <2>2, <2>3
<1>6. Holds(b, j, value)
  <2>1. at \in 1 .. n + 1
    BY DEF n
  <2> QED
    BY <1>1, <1>3, <1>4, <2>1 DEF Holds, Ind
<1>7. ASSUME NEW k, NEW v, Holds(a, k, v) PROVE Holds(b, k, v)
  <2>1. PICK p \in 1 .. n : a.elements[p].ind = k /\ a.elements[p].value = v
    BY <1>7 DEF Holds, Ind, n
  <2>2. PICK q \in 1 .. n + 1 : b.elements[q] = a.elements[p]
    <3>1. CASE p < at
      <4>1. p \in 1 .. n + 1
        BY <1>1
      <4> QED
        BY <1>4, <3>1, <4>1
    <3>2. CASE ~(p < at)
      <4>1. p + 1 \in 1 .. n + 1 /\ ~(p + 1 < at) /\ p + 1 # at /\ p + 1 - 1 = p
        BY <1>1, <3>2 DEF n
      <4> QED
        BY <1>4, <4>1
    <3> QED
      BY <3>1, <3>2
  <2> QED
    BY <1>4, <2>1, <2>2 DEF Holds, Ind
<1> QED
  BY <1>5, <1>6, <1>7

LEMMA ReplaceHolds ==
  ASSUME NEW V, NEW a, IsArray(a, V), NEW j \in Nat, NEW value \in V,
         NEW p \in 1 .. Len(a.elements), Ind(a, p) = j,
         NEW b, b.elements = [a.elements EXCEPT ![p].value = value]
  PROVE  \A k, v : Holds(b, k, v) <=> (k = j /\ v = value) \/ (k # j /\ Holds(a, k, v))
<1> DEFINE n == Len(a.elements)
<1>1. /\ n \in Nat /\ a.elements \in Seq(Elements(V)) /\ DOMAIN a.elements = 1 .. n
      /\ \A q \in 1 .. n : a.elements[q] \in Elements(V) /\ Ind(a, q) \in Nat
      /\ \A q, r \in 1 .. n : q < r => Ind(a, q) < Ind(a, r)
  BY ArrayShape
<1>2. PICK new : new = [a.elements[p] EXCEPT !.value = value]
  OBVIOUS
<1>3. new.ind = j /\ new.value = value
  <2>1. a.elements[p] \in Elements(V) /\ a.elements[p].ind = j
    BY <1>1 DEF Ind
  <2> QED
    BY <1>2, <2>1 DEF Elements
<1>4. b.elements = [a.elements EXCEPT ![p] = new]
  BY <1>2
<1>5. /\ Len(b.elements) = n /\ b.elements[p] = new
      /\ \A q \in 1 .. n : q # p => b.elements[q] = a.elements[q]
  BY <1>1, <1>4
<1>6. \A q \in 1 .. n : q # p => Ind(a, q) # j
  BY <1>1
<1> HIDE DEF n
<1>7. p \in 1 .. n
  BY DEF n
<1> QED
  BY <1>3, <1>5, <1>6, <1>7 DEF Holds, Ind, n

LEMMA HookElements ==
  ASSUME NEW V, NEW a, IsArray(a, V), NEW p, NEW new, NEW m
  PROVE  /\ Hook(a, p, new).elements = InsertAt(a.elements, p, new)
         /\ [Hook(a, p, new) EXCEPT !.max_index = m].elements = InsertAt(a.elements, p, new)
<1>1. a \in Parts(V)
  BY DEF IsArray
<1>2. Hook(a, p, new).elements = InsertAt(a.elements, p, new)
  BY <1>1, SMT DEF Hook, Parts
<1>3. [Hook(a, p, new) EXCEPT !.max_index = m].elements = Hook(a, p, new).elements
  BY <1>1, SMT DEF Hook, Parts
<1> QED
  BY <1>2, <1>3

LEMMA InsertHolds ==
  ASSUME NEW V, NEW a, IsArray(a, V), NEW j \in Nat, NEW value \in V
  PROVE  \A k, v : Holds(array_insert(a, j, value), k, v)
                     <=> (k = j /\ v = value) \/ (k # j /\ Holds(a, k, v))
<1> DEFINE n == Len(a.elements)
           new == Element(j, value)
           b == array_insert(a, j, value)
<1>1. /\ n \in Nat /\ a.num_elements = n /\ a.max_index \in Int
      /\ n # 0 => a.max_index = Ind(a, n) /\ array_first_index(a) = Ind(a, 1)
      /\ \A q \in 1 .. n : Ind(a, q) \in Nat
      /\ n = 0 => a.max_index = -1
      /\ \A p, q \in 1 .. n : p < q => Ind(a, p) < Ind(a, q)
  <2>1. n = 0 => a.max_index = -1
    BY DEF IsArray, Parts, ArrayOK, IndexOfLast
  <2> QED
    BY <2>1, ArrayShape, LastIndex
<1>2. (IF Absent(a, j) THEN \A p \in 1 .. n : Ind(a, p) # j
       ELSE Search(a, j) \in 1 .. n /\ Ind(a, Search(a, j)) = j)
  BY SearchFinds
<1> HIDE DEF new
<1>3. CASE j > a.max_index
  <2>1. b = [Hook(a, n + 1, new) EXCEPT !.max_index = j]
    BY <1>1, <1>3 DEF array_insert, new
  <2>2. b.elements = InsertAt(a.elements, n + 1, new)
    BY <2>1, HookElements
  <2>3. Absent(a, j) /\ n + 1 \in 1 .. n + 1
    BY <1>1, <1>3 DEF Absent, OutOfRange
  <2> HIDE DEF b
  <2> QED
    BY <1>2, <2>2, <2>3, HookHolds DEF new, b
<1>4. CASE j <= a.max_index /\ j < array_first_index(a)
  <2>1. b = Hook(a, 1, new)
    BY <1>1, <1>4 DEF array_insert, new
  <2>2. b.elements = InsertAt(a.elements, 1, new)
    BY <2>1, HookElements
  <2>3. Absent(a, j) /\ 1 \in 1 .. n + 1
    BY <1>1, <1>4 DEF Absent, OutOfRange
  <2> HIDE DEF b
  <2> QED
    BY <1>2, <2>2, <2>3, HookHolds DEF new, b
<1>5. CASE j <= a.max_index /\ j >= array_first_index(a)
  <2>1. n # 0 /\ ~OutOfRange(a, j) /\ Ind(a, 1) \in Nat
    BY <1>1, <1>5 DEF OutOfRange
  <2>2. /\ Search(a, j) \in 1 .. n
        /\ ~Forward(a, j) => Search(a, j) + 1 \in 1 .. n + 1
    BY <1>1, <2>1, SearchEnds
  <2>3. Reached(a, j)
    BY <2>2, ArrayShape DEF Reached
  <2>4. CASE Found(a, j)
    <3>1. b = [a EXCEPT !.elements[Search(a, j)].value = value, !.lastref = Search(a, j)]
      BY <1>1, <1>5, <2>1, <2>4 DEF array_insert
    <3>2. PICK p \in 1 .. n : p = Search(a, j)
      BY <2>2
    <3>3. PICK e : e = [a.elements EXCEPT ![p].value = value]
      OBVIOUS
    <3>4. [a EXCEPT !.elements[p].value = value, !.lastref = p] =
            [a EXCEPT !.elements = e, !.lastref = p]
      BY <3>3
    <3>5. [a EXCEPT !.elements = e, !.lastref = p].elements = e
      BY SMT DEF IsArray, Parts
    <3>6. b.elements = e
      BY <3>1, <3>2, <3>4, <3>5, Zenon
    <3>7. Ind(a, p) = j
      BY <1>2, <2>1, <2>4, <3>2 DEF Absent
    <3> HIDE DEF b
    <3> QED
      BY <3>3, <3>6, <3>7, ReplaceHolds DEF b
  <2>5. CASE ~Found(a, j)
    <3>1. PICK at \in 1 .. n + 1 :
            at = IF Forward(a, j) THEN Search(a, j) ELSE Search(a, j) + 1
      BY <1>1, <2>2
    <3>2. b = Hook(a, at, new)
      BY <1>1, <1>5, <2>1, <2>3, <2>5, <3>1 DEF array_insert, new
    <3>3. b.elements = InsertAt(a.elements, at, new)
      BY <3>2, HookElements
    <3>4. Absent(a, j)
      BY <2>5 DEF Absent
    <3> HIDE DEF b
    <3> QED
      BY <1>2, <3>3, <3>4, HookHolds DEF new, b
  <2> QED
    BY <2>4, <2>5
<1>6. array_first_index(a) \in Int
  BY <1>1 DEF array_first_index
<1> QED
  BY <1>1, <1>3, <1>4, <1>5, <1>6

LEMMA RemoveHolds ==
  ASSUME NEW V, NEW a, IsArray(a, V), NEW j \in Nat
  PROVE  \A k, v : Holds(array_remove(a, j), k, v) <=> k # j /\ Holds(a, k, v)
<1> DEFINE n == Len(a.elements)
           b == array_remove(a, j)
<1>1. /\ n \in Nat /\ a.elements \in Seq(Elements(V))
      /\ \A q \in 1 .. n : Ind(a, q) \in Nat
      /\ \A p, q \in 1 .. n : p < q => Ind(a, p) < Ind(a, q)
  BY ArrayShape
<1>2. (IF Absent(a, j) THEN \A p \in 1 .. n : Ind(a, p) # j
       ELSE Search(a, j) \in 1 .. n /\ Ind(a, Search(a, j)) = j)
  BY SearchFinds
<1>3. CASE Absent(a, j)
  <2>1. b = a
    BY <1>3, Zenon DEF array_remove, Absent
  <2> QED
    BY <1>2, <1>3, <2>1 DEF Holds
<1>4. CASE ~Absent(a, j)
  <2>1. PICK p \in 1 .. n : p = Search(a, j) /\ Ind(a, p) = j
    BY <1>2, <1>4
  <2>2. PICK s : s = RemoveAt(a.elements, p)
    OBVIOUS
  <2>3. b.elements = s
    <3>1. PICK c, m, l : b = [a EXCEPT !.elements = RemoveAt(@, p), !.num_elements = c,
                                       !.max_index = m, !.lastref = l]
      BY <1>4, <2>1, Zenon DEF array_remove, Absent
    <3>2. [a EXCEPT !.elements = RemoveAt(@, p), !.num_elements = c,
                    !.max_index = m, !.lastref = l].elements = RemoveAt(a.elements, p)
      BY SMT DEF IsArray, Parts
    <3> QED
      BY <2>2, <3>1, <3>2, Zenon
  <2>4. PICK e \in Seq(Elements(V)) : e = a.elements
    BY <1>1
  <2>5. PICK at \in 1 .. Len(e) : at = p
    BY <2>4
  <2>6. /\ RemoveAt(e, at) \in Seq(Elements(V)) /\ Len(RemoveAt(e, at)) = Len(e) - 1
        /\ \A q \in 1 .. Len(e) - 1 :
             RemoveAt(e, at)[q] = IF q < at THEN e[q] ELSE e[q + 1]
    BY RemovedElements
  <2>7. /\ Len(s) = n - 1
        /\ \A q \in 1 .. n - 1 : s[q] = IF q < p THEN a.elements[q] ELSE a.elements[q + 1]
    BY <2>2, <2>4, <2>5, <2>6
  <2> HIDE DEF b, n
  <2>8. \A q \in 1 .. n : q # p => Ind(a, q) # j
    BY <1>1, <2>1
  <2>9. ASSUME NEW k, NEW v, Holds(b, k, v) PROVE k # j /\ Holds(a, k, v)
    <3>1. PICK q \in 1 .. n - 1 : s[q].ind = k /\ s[q].value = v
      BY <2>3, <2>7, <2>9 DEF Holds, Ind
    <3>2. PICK r \in 1 .. n : r # p /\ a.elements[r] = s[q]
      <4>1. CASE q < p
        BY <1>1, <2>7, <4>1
      <4>2. CASE ~(q < p)
        <5>1. q + 1 \in 1 .. n /\ q + 1 # p
          BY <1>1, <4>2 DEF n
        <5> QED
          BY <2>7, <4>2, <5>1
      <4> QED
        BY <4>1, <4>2
    <3> QED
      BY <2>8, <3>1, <3>2 DEF Holds, Ind, n
  <2>10. ASSUME NEW k, NEW v, k # j, Holds(a, k, v) PROVE Holds(b, k, v)
    <3>1. PICK r \in 1 .. n : a.elements[r].ind = k /\ a.elements[r].value = v
      BY <2>10 DEF Holds, Ind, n
    <3>2. r # p
      BY <2>1, <2>10, <3>1 DEF Ind
    <3>3. PICK q \in 1 .. n - 1 : s[q] = a.elements[r]
      <4>1. CASE r < p
        <5>1. r \in 1 .. n - 1
          BY <1>1, <4>1 DEF n
        <5> QED
          BY <2>7, <4>1, <5>1
      <4>2. CASE r > p
        <5>1. r - 1 \in 1 .. n - 1 /\ ~(r - 1 < p) /\ r - 1 + 1 = r
          BY <1>1, <4>2 DEF n
        <5> QED
          BY <2>7, <5>1
      <4> QED
        BY <1>1, <3>2, <4>1, <4>2 DEF n
    <3> QED
      BY <2>3, <2>7, <3>1, <3>3 DEF Holds, Ind
  <2> QED
    BY <2>9, <2>10 DEF b
<1> QED
  BY <1>3, <1>4

LEMMA ReferenceAnswers ==
  ASSUME NEW V, NEW a, IsArray(a, V), NEW j \in Nat
  PROVE  /\ AfterReference(a, j).elements = a.elements
         /\ \/ Holds(a, j, ValueAt(a, j))
            \/ (\A v : ~Holds(a, j, v)) /\ ValueAt(a, j) = NONE
<1>1. AfterReference(a, j).elements = a.elements
  BY Zenon DEF AfterReference, IsArray, Parts
<1>2. ValueAt(a, j) = IF Absent(a, j) THEN NONE ELSE a.elements[Search(a, j)].value
  BY Zenon DEF ValueAt, Absent
<1>3. (IF Absent(a, j) THEN \A p \in 1 .. Len(a.elements) : Ind(a, p) # j
       ELSE Search(a, j) \in 1 .. Len(a.elements) /\ Ind(a, Search(a, j)) = j)
  BY SearchFinds
<1> QED
  BY <1>1, <1>2, <1>3 DEF Holds

\* All indices go up, and a first element comes.
LEMMA PushHolds ==
  ASSUME NEW V, NEW a, IsArray(a, V), NEW value \in V
  PROVE  \A k, v : Holds(array_push(a, value), k, v)
                     <=> (k = 0 /\ v = value) \/ (k \in Nat \ {0} /\ Holds(a, k - 1, v))
<1> DEFINE n == Len(a.elements)
           later == Renumbered(a.elements, 1)
           b == array_push(a, value)
<1>1. /\ n \in Nat /\ a.elements \in Seq(Elements(V)) /\ DOMAIN a.elements = 1 .. n
      /\ \A q \in 1 .. n : a.elements[q] \in Elements(V) /\ a.elements[q].ind \in Nat
  BY ArrayShape DEF Ind
<1>2. PICK new : new = Element(0, value)
  OBVIOUS
<1>3. new.ind = 0 /\ new.value = value /\ new \in Elements(V)
  BY <1>2, IndexOfElement DEF Element, Elements
<1>4. PICK moved : moved = <<new>> \o later
  OBVIOUS
<1>5. b.elements = moved
  BY <1>2, <1>4 DEF array_push, array_rshift
<1>6. /\ later \in Seq(Elements(V)) /\ Len(later) = n
      /\ \A q \in 1 .. n : later[q].ind = a.elements[q].ind + 1
                           /\ later[q].value = a.elements[q].value
  <2>1. ASSUME NEW q \in 1 .. n
        PROVE  /\ [a.elements[q] EXCEPT !.ind = a.elements[q].ind + 1] \in Elements(V)
               /\ [a.elements[q] EXCEPT !.ind = a.elements[q].ind + 1].ind
                    = a.elements[q].ind + 1
               /\ [a.elements[q] EXCEPT !.ind = a.elements[q].ind + 1].value
                    = a.elements[q].value
    BY <1>1, <2>1 DEF Elements
  <2>2. later = [q \in 1 .. n |-> [a.elements[q] EXCEPT !.ind = a.elements[q].ind + 1]]
    BY <1>1 DEF Renumbered
  <2> HIDE DEF later
  <2>3. later \in [1 .. n -> Elements(V)]
    BY <2>1, <2>2
  <2> HIDE DEF n
  <2>4. later \in Seq(Elements(V)) /\ Len(later) = n
    BY <1>1, <2>3
  <2>5. \A q \in 1 .. n : later[q] = [a.elements[q] EXCEPT !.ind = a.elements[q].ind + 1]
    BY <2>2
  <2> QED
    BY <2>1, <2>4, <2>5
<1> HIDE DEF later, b, n
<1>7. Len(moved) = n + 1 /\ moved[1] = new /\ \A q \in 1 .. n : moved[q + 1] = later[q]
  <2>1. <<new>> \in Seq(Elements(V)) /\ Len(<<new>>) = 1 /\ <<new>>[1] = new
    BY <1>3
  <2>2. /\ Len(moved) = 1 + n
        /\ \A q \in 1 .. 1 + n : moved[q] = IF q <= 1 THEN <<new>>[q] ELSE later[q - 1]
    BY <1>4, <1>6, <2>1, ConcatProperties
  <2>3. \A q \in 1 .. n : q + 1 \in 1 .. 1 + n /\ ~(q + 1 <= 1) /\ q + 1 - 1 = q
    BY <1>1
  <2>4. \A q \in 1 .. n : moved[q + 1] = later[q]
    BY <2>2, <2>3
  <2>5. 1 \in 1 .. 1 + n /\ 1 + n = n + 1
    BY <1>1
  <2> QED
    BY <2>1, <2>2, <2>4, <2>5
<1>8. ASSUME NEW k, NEW v, Holds(b, k, v)
      PROVE  (k = 0 /\ v = value) \/ (k \in Nat \ {0} /\ Holds(a, k - 1, v))
  <2>1. PICK q \in 1 .. n + 1 : moved[q].ind = k /\ moved[q].value = v
    BY <1>5, <1>7, <1>8 DEF Holds, Ind
  <2>2. CASE q = 1
    BY <1>3, <1>7, <2>1, <2>2
  <2>3. CASE q # 1
    <3>1. q - 1 \in 1 .. n /\ q - 1 + 1 = q
      BY <1>1, <2>3
    <3>2. moved[q] = later[q - 1]
      BY <1>7, <3>1
    <3>3. k = a.elements[q - 1].ind + 1 /\ v = a.elements[q - 1].value
      BY <1>6, <2>1, <3>1, <3>2
    <3>4. k \in Nat \ {0} /\ a.elements[q - 1].ind = k - 1
      <4>1. PICK m \in Nat : m = a.elements[q - 1].ind
        BY <1>1, <3>1 DEF n
      <4> QED
        BY <3>3, <4>1
    <3> QED
      BY <3>1, <3>3, <3>4 DEF Holds, Ind, n
  <2> QED
    BY <2>2, <2>3
<1>9. Holds(b, 0, value)
  <2>1. 1 \in 1 .. n + 1
    BY <1>1
  <2> QED
    BY <1>3, <1>5, <1>7, <2>1 DEF Holds, Ind
<1>10. ASSUME NEW k \in Nat \ {0}, NEW v, Holds(a, k - 1, v) PROVE Holds(b, k, v)
  <2>1. PICK q \in 1 .. n : a.elements[q].ind = k - 1 /\ a.elements[q].value = v
    BY <1>10 DEF Holds, Ind, n
  <2>2. q + 1 \in 1 .. n + 1
    BY <1>1
  <2>3. moved[q + 1] = later[q]
    BY <1>7
  <2>4. later[q].ind = k - 1 + 1 /\ later[q].value = v
    BY <1>6, <2>1
  <2>5. k - 1 + 1 = k
    OBVIOUS
  <2> QED
    BY <1>5, <1>7, <2>2, <2>3, <2>4, <2>5 DEF Holds, Ind
<1> QED
  BY <1>8, <1>9, <1>10 DEF b

\* The first element goes, and the other indices go down.
LEMMA PopHolds ==
  ASSUME NEW V, NEW a, IsArray(a, V)
  PROVE  \A k, v : Holds(array_pop(a), k, v)
                     <=> /\ k \in Nat /\ Holds(a, k + 1, v)
                         /\ \E p \in 1 .. Len(a.elements) : Ind(a, p) < k + 1
<1> DEFINE n == Len(a.elements)
           rest == SubSeq(a.elements, 2, n)
           kept == Renumbered(rest, -1)
           b == array_pop(a)
<1>1. /\ n \in Nat /\ a.elements \in Seq(Elements(V)) /\ a.num_elements = n
      /\ \A q \in 1 .. n : a.elements[q] \in Elements(V) /\ a.elements[q].ind \in Nat
      /\ \A p, q \in 1 .. n : p < q => a.elements[p].ind < a.elements[q].ind
  BY ArrayShape DEF Ind
<1>2. CASE n = 0
  <2>1. b = a
    BY <1>1, <1>2 DEF array_pop, array_shift
  <2> QED
    BY <1>2, <2>1 DEF Holds
<1>3. CASE n = 1
  <2>1. b = array_create
    BY <1>1, <1>3 DEF array_pop, array_shift
  <2>2. \A k, v : ~Holds(b, k, v)
    <3>1. Len(array_create.elements) = 0
      BY EmptySeq DEF array_create
    <3> QED
      BY <2>1, <3>1 DEF Holds
  <2>3. ASSUME NEW k \in Nat, NEW v, Holds(a, k + 1, v), NEW p \in 1 .. n, Ind(a, p) < k + 1
        PROVE  FALSE
    <3>1. PICK q \in 1 .. n : Ind(a, q) = k + 1
      BY <2>3 DEF Holds
    <3>2. p = q
      BY <1>3
    <3> QED
      BY <2>3, <3>1, <3>2
  <2> HIDE DEF b
  <2> QED
    BY <2>2, <2>3 DEF b
<1>4. CASE n > 1
  <2>1. /\ rest \in Seq(Elements(V)) /\ Len(rest) = n - 1
        /\ \A q \in 1 .. n - 1 : rest[q] = a.elements[q + 1]
    <3>1. 2 \in Int /\ n \in Int /\ \A q \in 2 .. n : a.elements[q] \in Elements(V)
      BY <1>1
    <3>2. /\ rest \in Seq(Elements(V)) /\ Len(rest) = IF 2 <= n THEN n - 2 + 1 ELSE 0
          /\ \A q \in 1 .. n - 2 + 1 : rest[q] = a.elements[2 + q - 1]
      BY <3>1, SubSeqProperties
    <3> QED
      BY <1>1, <1>4, <3>2
  <2>2. b.elements = kept
    BY <1>1, <1>4 DEF array_pop, array_shift
  <2> HIDE DEF rest, b, n
  <2>3. ASSUME NEW q \in 1 .. n - 1
        PROVE  /\ a.elements[q + 1] \in Elements(V) /\ q + 1 \in 1 .. n
               /\ a.elements[q + 1].ind \in Nat \ {0} /\ a.elements[q + 1].ind - 1 \in Nat
    <3>1. 1 \in 1 .. n /\ q + 1 \in 1 .. n /\ 1 < q + 1
      BY <1>1
    <3>2. PICK x \in Nat : x = a.elements[1].ind
      BY <1>1, <3>1
    <3>3. PICK y \in Nat : y = a.elements[q + 1].ind
      BY <1>1, <3>1
    <3>4. x < y
      BY <1>1, <3>1, <3>2, <3>3
    <3> QED
      BY <1>1, <3>1, <3>2, <3>3, <3>4
  <2>4. /\ kept \in Seq(Elements(V)) /\ Len(kept) = n - 1
        /\ \A q \in 1 .. n - 1 : kept[q].ind = a.elements[q + 1].ind - 1
                                 /\ kept[q].value = a.elements[q + 1].value
    <3>1. DOMAIN rest = 1 .. n - 1 /\ n - 1 \in Nat
      BY <1>1, <1>4, <2>1
    <3>2. ASSUME NEW q \in 1 .. n - 1
          PROVE  /\ [rest[q] EXCEPT !.ind = rest[q].ind + -1] \in Elements(V)
                 /\ [rest[q] EXCEPT !.ind = rest[q].ind + -1].ind = a.elements[q + 1].ind - 1
                 /\ [rest[q] EXCEPT !.ind = rest[q].ind + -1].value = a.elements[q + 1].value
      <4>1. PICK e \in Elements(V) : e = rest[q] /\ e = a.elements[q + 1]
        BY <2>1, <2>3
      <4>2. PICK m \in Nat : m = e.ind + -1 /\ m = e.ind - 1
        <5>1. e.ind \in Nat /\ e.ind - 1 \in Nat
          BY <2>3, <4>1
        <5>2. e.ind + -1 = e.ind - 1
          BY <5>1
        <5> QED
          BY <5>1, <5>2
      <4>3. [e EXCEPT !.ind = m] \in Elements(V) /\ [e EXCEPT !.ind = m].ind = m
            /\ [e EXCEPT !.ind = m].value = e.value
        BY DEF Elements
      <4> QED
        BY <4>1, <4>2, <4>3, Zenon
    <3>3. kept = [q \in 1 .. n - 1 |-> [rest[q] EXCEPT !.ind = rest[q].ind + -1]]
      BY <3>1 DEF Renumbered
    <3> HIDE DEF kept
    <3>4. kept \in [1 .. n - 1 -> Elements(V)]
      BY <3>2, <3>3
    <3>5. kept \in Seq(Elements(V)) /\ Len(kept) = n - 1
      BY <3>1, <3>4
    <3>6. \A q \in 1 .. n - 1 : kept[q] = [rest[q] EXCEPT !.ind = rest[q].ind + -1]
      BY <3>3
    <3> QED
      BY <3>2, <3>5, <3>6
  <2> HIDE DEF kept
  <2>5. ASSUME NEW k, NEW v, Holds(b, k, v)
        PROVE  /\ k \in Nat /\ Holds(a, k + 1, v)
               /\ \E p \in 1 .. n : Ind(a, p) < k + 1
    <3>1. PICK q \in 1 .. n - 1 : kept[q].ind = k /\ kept[q].value = v
      BY <2>2, <2>4, <2>5 DEF Holds, Ind
    <3>2. k = a.elements[q + 1].ind - 1 /\ v = a.elements[q + 1].value
      BY <2>4, <3>1
    <3>3. PICK m \in Nat : m = a.elements[q + 1].ind /\ k = m - 1 /\ k \in Nat
      BY <2>3, <3>2
    <3>4. k + 1 = m /\ q + 1 \in 1 .. n
      BY <2>3, <3>3
    <3>5. Holds(a, k + 1, v)
      BY <3>2, <3>3, <3>4 DEF Holds, Ind, n
    <3>6. 1 \in 1 .. n /\ Ind(a, 1) < k + 1
      <4>1. 1 \in 1 .. n /\ 1 < q + 1
        BY <1>1
      <4> QED
        BY <1>1, <3>3, <3>4, <4>1 DEF Ind
    <3> QED
      BY <3>3, <3>5, <3>6
  <2>6. ASSUME NEW k \in Nat, NEW v, Holds(a, k + 1, v), NEW p \in 1 .. n, Ind(a, p) < k + 1
        PROVE  Holds(b, k, v)
    <3>1. PICK r \in 1 .. n : a.elements[r].ind = k + 1 /\ a.elements[r].value = v
      BY <2>6 DEF Holds, Ind, n
    <3>2. r # 1
      <4> SUFFICES ASSUME r = 1 PROVE FALSE
        OBVIOUS
      <4>1. a.elements[p].ind < a.elements[1].ind /\ a.elements[p].ind \in Nat
        BY <1>1, <2>6, <3>1 DEF Ind
      <4>2. p # 1 => a.elements[1].ind < a.elements[p].ind
        BY <1>1
      <4>3. a.elements[1].ind \in Nat
        BY <1>1
      <4> QED
        BY <4>1, <4>2, <4>3
    <3>3. r - 1 \in 1 .. n - 1 /\ r - 1 + 1 = r
      BY <1>1, <3>2
    <3>4. kept[r - 1].ind = a.elements[r].ind - 1 /\ kept[r - 1].value = v
      BY <2>4, <3>1, <3>3
    <3>5. kept[r - 1].ind = k
      BY <3>1, <3>4
    <3> QED
      BY <2>2, <2>4, <3>3, <3>4, <3>5 DEF Holds, Ind
  <2> QED
    BY <2>5, <2>6 DEF b, n
<1>5. n = 0 \/ n = 1 \/ n > 1
  <2>1. n \in Nat
    BY <1>1
  <2> HIDE DEF n
  <2> QED
    BY <2>1
<1> QED
  BY <1>2, <1>3, <1>4, <1>5

----------------------------------------------------------------------------
\* The operations of array.c and hashlib.c are those of the dictionaries.
LEMMA InsertIsPut ==
  ASSUME NEW V, NEW a, IsArray(a, V), NEW j \in Nat, NEW value \in V
  PROVE  OfArray(array_insert(a, j, value)) = Promise!Put(OfArray(a), j, value)
<1>1. IsArray(array_insert(a, j, value), V)
  BY InsertKeeps
<1>2. PICK d : d = OfArray(array_insert(a, j, value))
  OBVIOUS
<1>3. PICK e : e = Promise!Put(OfArray(a), j, value)
  OBVIOUS
<1>4. IsDict(d) /\ \A k, v : Maps(d, k, v) <=> Holds(array_insert(a, j, value), k, v)
  BY <1>1, <1>2, ArrayContents
<1>5. IsDict(e) /\ \A k, v : Maps(e, k, v)
                     <=> (k = j /\ v = value) \/ (k # j /\ Maps(OfArray(a), k, v))
  BY <1>3, PutMaps
<1>6. \A k, v : Maps(d, k, v) <=> Maps(e, k, v)
  BY <1>4, <1>5, ArrayContents, InsertHolds
<1> QED
  BY <1>2, <1>3, <1>4, <1>5, <1>6, SameDictionary

LEMMA RemoveIsDrop ==
  ASSUME NEW V, NEW a, IsArray(a, V), NEW j \in Nat
  PROVE  OfArray(array_remove(a, j)) = Promise!Drop(OfArray(a), j)
<1>1. IsArray(array_remove(a, j), V)
  BY RemoveKeeps
<1>2. PICK d : d = OfArray(array_remove(a, j))
  OBVIOUS
<1>3. PICK e : e = Promise!Drop(OfArray(a), j)
  OBVIOUS
<1>4. IsDict(d) /\ \A k, v : Maps(d, k, v) <=> Holds(array_remove(a, j), k, v)
  BY <1>1, <1>2, ArrayContents
<1>5. IsDict(e) /\ \A k, v : Maps(e, k, v) <=> k # j /\ Maps(OfArray(a), k, v)
  BY <1>3, DropMaps
<1>6. \A k, v : Maps(d, k, v) <=> Maps(e, k, v)
  BY <1>4, <1>5, ArrayContents, RemoveHolds
<1> QED
  BY <1>2, <1>3, <1>4, <1>5, <1>6, SameDictionary

LEMMA PushIsPushed ==
  ASSUME NEW V, NEW a, IsArray(a, V), NEW value \in V
  PROVE  OfArray(array_push(a, value)) = Promise!Pushed(OfArray(a), value)
<1>1. IsArray(array_push(a, value), V)
  BY PushKeeps
<1>2. PICK d : d = OfArray(array_push(a, value))
  OBVIOUS
<1>3. PICK e : e = Promise!Pushed(OfArray(a), value)
  OBVIOUS
<1>4. IsDict(d) /\ \A k, v : Maps(d, k, v) <=> Holds(array_push(a, value), k, v)
  BY <1>1, <1>2, ArrayContents
<1>5. IsDict(e) /\ \A k, v : Maps(e, k, v)
          <=> (k = 0 /\ v = value) \/ (k \in Nat \ {0} /\ Maps(OfArray(a), k - 1, v))
  BY <1>3, ArrayContents, PushedMaps
<1>6. \A k, v : Maps(d, k, v) <=> Maps(e, k, v)
  BY <1>4, <1>5, ArrayContents, PushHolds
<1> QED
  BY <1>2, <1>3, <1>4, <1>5, <1>6, SameDictionary

LEMMA PopIsPopped ==
  ASSUME NEW V, NEW a, IsArray(a, V)
  PROVE  OfArray(array_pop(a)) = Promise!Popped(OfArray(a))
<1>1. IsArray(array_pop(a), V)
  BY PopKeeps
<1>2. PICK d : d = OfArray(array_pop(a))
  OBVIOUS
<1>3. PICK e : e = Promise!Popped(OfArray(a))
  OBVIOUS
<1>4. IsDict(d) /\ \A k, v : Maps(d, k, v) <=> Holds(array_pop(a), k, v)
  BY <1>1, <1>2, ArrayContents
<1>5. PICK old : old = OfArray(a)
  OBVIOUS
<1>6. DOMAIN old \subseteq Nat /\ \A k, v : Maps(old, k, v) <=> Holds(a, k, v)
  BY <1>5, ArrayContents
<1>7. IsDict(e) /\ \A k, v : Maps(e, k, v) <=> /\ k \in Nat /\ Maps(old, k + 1, v)
                                               /\ \E n \in DOMAIN old : n < k + 1
  BY <1>3, <1>5, <1>6, PoppedMaps
<1>8. \A j : j \in DOMAIN old <=> \E p \in 1 .. Len(a.elements) : Ind(a, p) = j
  <2>1. \A j : j \in DOMAIN old <=> \E v : Maps(old, j, v)
    BY DEF Maps
  <2> QED
    BY <1>6, <2>1 DEF Holds
<1>9. \A k : (\E n \in DOMAIN old : n < k + 1)
               <=> \E p \in 1 .. Len(a.elements) : Ind(a, p) < k + 1
  BY <1>8
<1>10. \A k, v : Holds(array_pop(a), k, v)
                   <=> /\ k \in Nat /\ Holds(a, k + 1, v)
                       /\ \E p \in 1 .. Len(a.elements) : Ind(a, p) < k + 1
  BY PopHolds
<1>11. \A k, v : Maps(d, k, v) <=> Maps(e, k, v)
  BY <1>4, <1>6, <1>7, <1>9, <1>10
<1> QED
  BY <1>2, <1>3, <1>4, <1>7, <1>11, SameDictionary

\* A list of elements as a dictionary.
OfElements(s) ==
  [j \in {e.ind : e \in ToSet(s)} |-> (CHOOSE e \in ToSet(s) : e.ind = j).value]

LEMMA SameElements ==
  ASSUME NEW a, NEW b, a.elements = b.elements PROVE OfArray(a) = OfArray(b)
<1>1. OfArray(a) = OfElements(a.elements)
  BY Zenon DEF OfArray, OfElements
<1>2. OfArray(b) = OfElements(b.elements)
  BY Zenon DEF OfArray, OfElements
<1>3. OfElements(a.elements) = OfElements(b.elements)
  OBVIOUS
<1> QED
  BY <1>1, <1>2, <1>3

LEMMA ReferenceIsGet ==
  ASSUME NEW V, NEW a, IsArray(a, V), NEW j \in Nat
  PROVE  /\ OfArray(AfterReference(a, j)) = OfArray(a)
         /\ ValueAt(a, j) = Promise!Get(OfArray(a), j)
<1>1. OfArray(AfterReference(a, j)) = OfArray(a)
  <2>1. AfterReference(a, j).elements = a.elements
    BY ReferenceAnswers
  <2> QED
    BY <2>1, SameElements
<1>2. PICK d : d = OfArray(a)
  OBVIOUS
<1>3. \A k, v : Maps(d, k, v) <=> Holds(a, k, v)
  BY <1>2, ArrayContents
<1>4. Promise!Get(d, j) = IF j \in DOMAIN d THEN d[j] ELSE NONE
  BY Zenon DEF Promise!Get
<1>5. Maps(d, j, d[j]) <=> j \in DOMAIN d
  BY DEF Maps
<1>6. \/ Maps(d, j, ValueAt(a, j))
      \/ (\A v : ~Maps(d, j, v)) /\ ValueAt(a, j) = NONE
  BY <1>3, ReferenceAnswers
<1>7. ValueAt(a, j) = Promise!Get(d, j)
  BY <1>4, <1>5, <1>6 DEF Maps
<1> QED
  BY <1>1, <1>2, <1>7

LEMMA CopyIsSame ==
  ASSUME NEW V, NEW a, IsArray(a, V) PROVE OfArray(array_copy(a)) = OfArray(a)
<1>1. array_copy(a).elements = a.elements
  BY SMT DEF array_copy, IsArray, Parts
<1> QED
  BY <1>1, SameElements

LEMMA CreatedIsEmpty ==
  /\ OfArray(array_create) = Promise!EMPTY
  /\ OfArray(NoTable) = Promise!EMPTY
<1>1. PICK a : a = array_create
  OBVIOUS
<1>2. IsArray(a, {}) /\ a.elements = <<>>
  BY <1>1, EmptyArray DEF array_create
<1>3. Len(a.elements) = 0
  BY <1>2, EmptySeq
<1>4. \A k, v : ~Holds(a, k, v)
  BY <1>3 DEF Holds
<1>5. PICK d : d = OfArray(a)
  OBVIOUS
<1>6. IsDict(d) /\ \A k, v : ~Maps(d, k, v)
  BY <1>2, <1>4, <1>5, ArrayContents
<1>7. PICK e : e = Promise!EMPTY
  OBVIOUS
<1>8. d = e
  BY <1>6, <1>7, EmptyDictionary, SameDictionary
<1>9. NoTable.elements = a.elements
  BY <1>2 DEF NoTable
<1>10. OfArray(NoTable) = OfArray(a)
  BY <1>9, SameElements
<1> QED
  BY <1>1, <1>5, <1>7, <1>8, <1>10

LEMMA OverwrittenIndices ==
  ASSUME NEW V, NEW a, IsArray(a, V), NEW values \in Seq(V), Len(a.elements) <= Len(values)
  PROVE  DOMAIN OfArray(SetFirstValues(a, values)) = DOMAIN OfArray(a)
<1> DEFINE b == SetFirstValues(a, values)
           n == Len(a.elements)
<1>1. a \in Parts(V) /\ a.elements \in Seq(Elements(V)) /\ n \in Nat /\ DOMAIN a.elements = 1 .. n
  BY ArrayShape DEF IsArray
<1>2. PICK e : e = [p \in 1 .. n |-> Element(a.elements[p].ind, values[p])]
  OBVIOUS
<1>3. b.elements = e
  <2>1. b = [a EXCEPT !.elements = e]
    BY <1>1, <1>2 DEF SetFirstValues
  <2>2. [a EXCEPT !.elements = e].elements = e
    BY <1>1 DEF Parts
  <2> HIDE DEF b
  <2> QED
    BY <2>1, <2>2
<1>4. IsArray(b, V)
  BY SetFirstKeeps
<1>5. Len(e) = n
  <2>1. b.elements \in Seq(Elements(V))
    BY <1>4, ArrayShape
  <2>2. e \in Seq(Elements(V)) /\ DOMAIN e = 1 .. n
    BY <1>2, <1>3, <2>1
  <2> HIDE DEF n
  <2> QED
    BY <1>1, <2>2
<1> HIDE DEF b, n
<1>6. \A q \in 1 .. n : e[q].ind = a.elements[q].ind
  BY <1>2, IndexOfElement
<1>7. \A k : (\E v : Holds(b, k, v)) <=> \E v : Holds(a, k, v)
  BY <1>3, <1>5, <1>6 DEF Holds, Ind, n
<1>8. PICK d : d = OfArray(b)
  OBVIOUS
<1>9. PICK c : c = OfArray(a)
  OBVIOUS
<1>10. /\ \A k, v : Maps(d, k, v) <=> Holds(b, k, v)
       /\ \A k, v : Maps(c, k, v) <=> Holds(a, k, v)
  BY <1>4, <1>8, <1>9, ArrayContents
<1>11. /\ \A k : k \in DOMAIN d <=> \E v : Maps(d, k, v)
       /\ \A k : k \in DOMAIN c <=> \E v : Maps(c, k, v)
  BY DEF Maps
<1>12. DOMAIN d = DOMAIN c
  BY <1>7, <1>10, <1>11
<1> QED
  BY <1>8, <1>9, <1>12 DEF b

LEMMA CreatedTableIsEmpty ==
  ASSUME NEW n \in Nat \ {0} PROVE OfTable(hash_create(n)) = Promise!EMPTY
<1>1. PICK d : d = OfTable(hash_create(n))
  OBVIOUS
<1>2. IsDict(d) /\ \A k, v : ~Maps(d, k, v)
  BY <1>1, NewTable, TableContents
<1>3. PICK e : e = Promise!EMPTY
  OBVIOUS
<1>4. d = e
  BY <1>2, <1>3, EmptyDictionary, SameDictionary
<1> QED
  BY <1>1, <1>3, <1>4

LEMMA AssocInsertIsPut ==
  ASSUME NEW V, NEW t, IsTable(t, V), NEW key \in Keys, NEW value \in V
  PROVE  OfTable(assoc_insert(t, key, value)) = Promise!Put(OfTable(t), key, value)
<1>1. PICK u : u = assoc_insert(t, key, value)
  OBVIOUS
<1>2. PICK x : x = Entry(key, value)
  OBVIOUS
<1>3. x.key = key /\ x.data = value
  BY <1>2 DEF Entry
<1>4. IsTable(u, V) /\ OnePut(Entries(u), Entries(t), x)
  BY <1>1, <1>2, InsertPuts
<1>5. PICK d : d = OfTable(u)
  OBVIOUS
<1>6. PICK e : e = Promise!Put(OfTable(t), key, value)
  OBVIOUS
<1>7. IsDict(d) /\ \A k, v : Maps(d, k, v) <=> \E y \in Entries(u) : y.key = k /\ y.data = v
  BY <1>4, <1>5, TableContents
<1>8. IsDict(e) /\ \A k, v : Maps(e, k, v)
                     <=> (k = key /\ v = value) \/ (k # key /\ Maps(OfTable(t), k, v))
  BY <1>6, PutMaps
<1>9. \A k, v : Maps(OfTable(t), k, v) <=> \E y \in Entries(t) : y.key = k /\ y.data = v
  BY TableContents
<1>10. \A k, v : Maps(d, k, v) <=> Maps(e, k, v)
  BY <1>3, <1>4, <1>7, <1>8, <1>9 DEF OnePut
<1>11. d = e
  BY <1>7, <1>8, <1>10, SameDictionary
<1> QED
  BY <1>1, <1>5, <1>6, <1>11

LEMMA AssocRemoveIsDrop ==
  ASSUME NEW V, NEW t, IsTable(t, V), NEW key \in Keys
  PROVE  OfTable(assoc_remove(t, key)) = Promise!Drop(OfTable(t), key)
<1>1. PICK u : u = assoc_remove(t, key)
  OBVIOUS
<1>2. IsTable(u, V) /\ OneGone(Entries(u), Entries(t), key)
  BY <1>1, RemoveTakes
<1>3. PICK d : d = OfTable(u)
  OBVIOUS
<1>4. PICK e : e = Promise!Drop(OfTable(t), key)
  OBVIOUS
<1>5. IsDict(d) /\ \A k, v : Maps(d, k, v) <=> \E y \in Entries(u) : y.key = k /\ y.data = v
  BY <1>2, <1>3, TableContents
<1>6. IsDict(e) /\ \A k, v : Maps(e, k, v) <=> k # key /\ Maps(OfTable(t), k, v)
  BY <1>4, DropMaps
<1>7. \A k, v : Maps(OfTable(t), k, v) <=> \E y \in Entries(t) : y.key = k /\ y.data = v
  BY TableContents
<1>8. \A k, v : Maps(d, k, v) <=> Maps(e, k, v)
  BY <1>2, <1>5, <1>6, <1>7 DEF OneGone
<1>9. d = e
  BY <1>5, <1>6, <1>8, SameDictionary
<1> QED
  BY <1>1, <1>3, <1>4, <1>9

LEMMA AssocReferenceIsGet ==
  ASSUME NEW V, NEW t, IsTable(t, V), NEW key \in Keys
  PROVE  assoc_reference(t, key) = Promise!Get(OfTable(t), key)
<1>1. PICK data : data = assoc_reference(t, key)
  OBVIOUS
<1>2. Answers(Entries(t), key, data)
  BY <1>1, ReferenceFinds
<1>3. PICK d : d = OfTable(t)
  OBVIOUS
<1>4. \A k, v : Maps(d, k, v) <=> \E y \in Entries(t) : y.key = k /\ y.data = v
  BY <1>3, TableContents
<1>5. Promise!Get(d, key) = IF key \in DOMAIN d THEN d[key] ELSE NONE
  BY Zenon DEF Promise!Get
<1>6. Maps(d, key, data) \/ ((\A v : ~Maps(d, key, v)) /\ data = NONE)
  BY <1>2, <1>4, NullAssumption DEF Answers
<1>7. data = Promise!Get(d, key)
  BY <1>5, <1>6 DEF Maps
<1> QED
  BY <1>1, <1>3, <1>7

LEMMA TableIsSome == ASSUME NEW V, NEW t, IsTable(t, V) PROVE t # NoTable
<1>1. PICK n \in Nat \ {0} : \E c \in Chains(n, V) : t = Tab(c, n, Cardinality(Entries(t)))
  BY DEF IsTable
<1>2. PICK count : count = Cardinality(Entries(t))
  OBVIOUS
<1>3. PICK c : t = Tab(c, n, count)
  BY <1>1, <1>2
<1>4. "nbuckets" \in DOMAIN t
  BY <1>3 DEF Tab
<1>5. "nbuckets" \notin DOMAIN NoTable
  BY DEF NoTable
<1> QED
  BY <1>4, <1>5

----------------------------------------------------------------------------
\* What each request makes of a dictionary.
LEMMA Results ==
  ASSUME NEW d, NEW r
  PROVE  /\ r.op = "nothing" => Promise!Result(d, r) = d
         /\ r.op = "get" => Promise!Result(d, r) = d
         /\ r.op = "put" => Promise!Result(d, r) = Promise!Put(d, r.key, r.value)
         /\ r.op = "drop" => Promise!Result(d, r) = Promise!Drop(d, r.key)
         /\ r.op = "push" => Promise!Result(d, r) = Promise!Pushed(d, r.value)
         /\ r.op = "pop" => Promise!Result(d, r) = Promise!Popped(d)
         /\ r.op = "clear" => Promise!Result(d, r) = Promise!EMPTY
<1>1. PICK put : put = Promise!Put(d, r.key, r.value)
  OBVIOUS
<1>2. PICK drop : drop = Promise!Drop(d, r.key)
  OBVIOUS
<1>3. PICK push : push = Promise!Pushed(d, r.value)
  OBVIOUS
<1>4. PICK pop : pop = Promise!Popped(d)
  OBVIOUS
<1>5. PICK clear : clear = Promise!EMPTY
  OBVIOUS
<1>6. Promise!Result(d, r) = CASE r.op = "put" -> put [] r.op = "drop" -> drop
                               [] r.op = "push" -> push [] r.op = "pop" -> pop
                               [] r.op = "clear" -> clear [] OTHER -> d
  BY <1>1, <1>2, <1>3, <1>4, <1>5, Zenon DEF Promise!Result
<1> QED
  BY <1>1, <1>2, <1>3, <1>4, <1>5, <1>6

\* A step that makes of the dictionaries what its request says is one the
\* dictionaries may take.
LEMMA CellChanges ==
  ASSUME NEW op \in {"nothing", "put", "drop", "push", "pop", "clear"}, NEW k, NEW v,
         Asks(op, k, v), answer' = NONE,
         Contents(cell)' = Promise!Result(Contents(cell), request'),
         Contents(aside)' = Contents(aside)
  PROVE  Promise!Next
<1>1. request'.op = op /\ request'.aside = FALSE
  BY DEF Asks, Request
<1> QED
  BY <1>1 DEF Promise!Next

LEMMA AsideChanges ==
  ASSUME NEW op \in {"put", "push", "pop", "clear"}, NEW k, NEW v,
         AsksAside(op, k, v), answer' = NONE,
         Contents(aside)' = Promise!Result(Contents(aside), request'),
         Contents(cell)' = Contents(cell)
  PROVE  Promise!Next
<1>1. request'.op = op /\ request'.aside = TRUE
  BY DEF AsksAside, Request
<1> QED
  BY <1>1 DEF Promise!Next

LEMMA NothingChanges ==
  ASSUME AsksNothing, answer' = NONE,
         Contents(cell)' = Contents(cell), Contents(aside)' = Contents(aside)
  PROVE  Promise!Next
<1>1. request'.op = "nothing" /\ Asks("nothing", NONE, NONE)
  BY DEF AsksNothing, Asks, Request
<1>2. Contents(cell)' = Promise!Result(Contents(cell), request')
  BY <1>1, Results
<1> QED
  BY <1>1, <1>2, CellChanges

LEMMA ReadAnswers ==
  ASSUME NEW k, Asks("get", k, NONE), answer' = Promise!Get(Contents(cell), k),
         Contents(cell)' = Contents(cell), Contents(aside)' = Contents(aside)
  PROVE  Promise!Next
<1>1. request'.op = "get" /\ request'.key = k /\ request'.aside = FALSE
  BY DEF Asks, Request
<1>2. Contents(cell)' = Promise!Result(Contents(cell), request')
  BY <1>1, Results
<1> QED
  BY <1>1, <1>2 DEF Promise!Next

LEMMA Exchanges ==
  ASSUME NEW op, Asks(op, NONE, NONE), answer' = NONE,
         \/ /\ op = "keep"
            /\ Contents(aside)' = Contents(cell) /\ Contents(cell)' = Contents(cell)
         \/ /\ op = "put back"
            /\ Contents(cell)' = Contents(aside) /\ Contents(aside)' = Promise!EMPTY
         \/ /\ op = "overwrite"
            /\ DOMAIN Contents(cell)' = DOMAIN Contents(cell)
            /\ Contents(aside)' = Contents(aside)
  PROVE  Promise!Next
<1>1. request'.op = op
  BY DEF Asks, Request
<1> QED
  BY <1>1 DEF Promise!Next

----------------------------------------------------------------------------
\* What the tables of the variable are as dictionaries.
LEMMA ContentsLater ==
  ASSUME kind' = kind
  PROVE  Contents(cell)' = Contents(cell') /\ Contents(aside)' = Contents(aside')
  BY DEF Contents, Associative

LEMMA ContentsOfArray == ASSUME ~Associative, NEW t PROVE Contents(t) = OfArray(t)
  BY DEF Contents

LEMMA ContentsOfTable ==
  ASSUME Associative, NEW V, NEW t, IsTable(t, V) PROVE Contents(t) = OfTable(t)
  BY TableIsSome DEF Contents

LEMMA ContentsOfNone == Contents(NoTable) = Promise!EMPTY
  BY CreatedIsEmpty DEF Contents

LEMMA InsertChanges ==
  ASSUME NEW t, NEW key, NEW value \in Values,
         Associative => IsTable(t, Values) /\ key \in Keys,
         ~Associative => IsArray(t, Values) /\ key \in Nat
  PROVE  Contents(insert(t, key, value)) = Promise!Put(Contents(t), key, value)
<1>1. CASE Associative
  <2>1. insert(t, key, value) = assoc_insert(t, key, value)
    BY <1>1 DEF insert
  <2>2. IsTable(assoc_insert(t, key, value), Values)
    BY <1>1, InsertPuts
  <2>3. Contents(assoc_insert(t, key, value)) = OfTable(assoc_insert(t, key, value))
    BY <1>1, <2>2, ContentsOfTable
  <2>4. Contents(t) = OfTable(t)
    BY <1>1, ContentsOfTable
  <2>5. OfTable(assoc_insert(t, key, value)) = Promise!Put(OfTable(t), key, value)
    BY <1>1, AssocInsertIsPut
  <2> QED
    BY <2>1, <2>3, <2>4, <2>5
<1>2. CASE ~Associative
  <2>1. insert(t, key, value) = array_insert(t, key, value)
    BY <1>2 DEF insert
  <2>2. OfArray(array_insert(t, key, value)) = Promise!Put(OfArray(t), key, value)
    BY <1>2, InsertIsPut
  <2> QED
    BY <1>2, <2>1, <2>2, ContentsOfArray
<1> QED
  BY <1>1, <1>2

\* The values that are put, in the table that is seen or the one put aside.
LEMMA PutChanges ==
  ASSUME NEW key, NEW value, NEW inAside \in BOOLEAN,
         request' = Request("put", key, value, inAside), answer' = NONE,
         IF inAside
         THEN /\ Contents(aside)' = Promise!Put(Contents(aside), key, value)
              /\ Contents(cell)' = Contents(cell)
         ELSE /\ Contents(cell)' = Promise!Put(Contents(cell), key, value)
              /\ Contents(aside)' = Contents(aside)
  PROVE  Promise!Next
<1>1. request'.op = "put" /\ request'.key = key /\ request'.value = value
  BY DEF Request
<1>2. CASE inAside
  <2>0. Contents(aside)' = Promise!Put(Contents(aside), key, value)
    BY <1>2
  <2>1. Contents(aside)' = Promise!Result(Contents(aside), request')
    BY <1>1, <2>0, Results
  <2>2. AsksAside("put", key, value)
    BY <1>2 DEF AsksAside
  <2> QED
    BY <1>2, <2>1, <2>2, AsideChanges
<1>3. CASE ~inAside
  <2>1. Contents(cell)' = Promise!Result(Contents(cell), request')
    BY <1>1, <1>3, Results
  <2>2. Asks("put", key, value)
    BY <1>3 DEF Asks
  <2> QED
    BY <1>3, <2>1, <2>2, CellChanges
<1> QED
  BY <1>2, <1>3

LEMMA ElementsPromised ==
  ASSUME ArraysInv, TablesInv, ArraysAssumption, kind' = kind, NEW sub \in Subscripts,
         \/ \E value \in Values : AssignElement(sub, value)
         \/ ArrayValue(sub)
         \/ UnbindArrayElement(sub)
  PROVE  Promise!Next
<1>1. ~Associative => /\ IsArray(cell, Values)
                      /\ KeyOf(sub) = Index(sub) /\ Index(sub) \in Int
  BY SubscriptsAreIndices DEF ArraysInv, CellIsArray
<1>2. ~Associative /\ ValidKey(KeyOf(sub)) => Index(sub) \in Nat
  BY <1>1 DEF ValidKey
<1>3. Associative => IsTable(cell, Values) /\ KeyOf(sub) = sub /\ sub \in Keys
  BY DEF TablesInv, KeyOf, Subscripts
<1>4. aside' = aside /\ ValidKey(KeyOf(sub)) /\ Contents(aside)' = Contents(aside)
  <2>1. aside' = aside /\ ValidKey(KeyOf(sub))
    BY DEF AssignElement, ArrayValue, UnbindArrayElement
  <2> QED
    BY <2>1, ContentsLater
<1>5. ASSUME NEW value \in Values, AssignElement(sub, value) PROVE Promise!Next
  <2>1. PICK key : key = KeyOf(sub)
    OBVIOUS
  <2>2. cell' = insert(cell, key, value) /\ answer' = NONE
        /\ request' = Request("put", key, value, FALSE)
    BY <1>5, <2>1 DEF AssignElement, Asks
  <2>3. Contents(insert(cell, key, value)) = Promise!Put(Contents(cell), key, value)
    BY <1>1, <1>2, <1>3, <1>4, <2>1, InsertChanges
  <2>4. Contents(cell)' = Promise!Put(Contents(cell), key, value)
    BY <2>2, <2>3, ContentsLater
  <2> QED
    BY <1>4, <2>2, <2>4, PutChanges
<1>6. ASSUME ArrayValue(sub) PROVE Promise!Next
  <2>1. PICK key : key = KeyOf(sub)
    OBVIOUS
  <2>2. CASE Associative
    <3>1. cell' = cell /\ answer' = assoc_reference(cell, key) /\ Asks("get", key, NONE)
      BY <1>3, <1>6, <2>1, <2>2 DEF ArrayValue
    <3>2. assoc_reference(cell, key) = Promise!Get(OfTable(cell), key)
      BY <1>3, <2>1, <2>2, AssocReferenceIsGet
    <3>3. Contents(cell) = OfTable(cell)
      BY <1>3, <2>2, ContentsOfTable
    <3>4. Contents(cell)' = Contents(cell)
      BY <3>1, ContentsLater
    <3> QED
      BY <1>4, <3>1, <3>2, <3>3, <3>4, ReadAnswers
  <2>3. CASE ~Associative
    <3>1. cell' = AfterReference(cell, key) /\ answer' = ValueAt(cell, key)
          /\ Asks("get", key, NONE) /\ key \in Nat
      BY <1>1, <1>2, <1>4, <1>6, <2>1, <2>3 DEF ArrayValue
    <3>2. /\ OfArray(AfterReference(cell, key)) = OfArray(cell)
          /\ ValueAt(cell, key) = Promise!Get(OfArray(cell), key)
      BY <1>1, <2>3, <3>1, ReferenceIsGet
    <3>3. Contents(cell) = OfArray(cell) /\ Contents(cell') = OfArray(cell')
      BY <2>3, ContentsOfArray
    <3>4. Contents(cell)' = Contents(cell)
      BY <3>1, <3>2, <3>3, ContentsLater
    <3> QED
      BY <1>4, <3>1, <3>2, <3>3, <3>4, ReadAnswers
  <2> QED
    BY <2>2, <2>3
<1>7. ASSUME UnbindArrayElement(sub) PROVE Promise!Next
  <2>1. PICK key : key = KeyOf(sub)
    OBVIOUS
  <2>2. Asks("drop", key, NONE) /\ answer' = NONE
    BY <1>7, <2>1 DEF UnbindArrayElement
  <2>3. request'.op = "drop" /\ request'.key = key
    BY <2>2 DEF Asks, Request
  <2>4. Contents(cell') = Promise!Drop(Contents(cell), key)
    <3>1. CASE Associative
      <4>1. cell' = assoc_remove(cell, key) /\ key \in Keys /\ IsTable(cell, Values)
        BY <1>3, <1>7, <2>1, <3>1 DEF UnbindArrayElement
      <4>2. IsTable(cell', Values)
        BY <4>1, RemoveTakes
      <4>3. OfTable(cell') = Promise!Drop(OfTable(cell), key)
        BY <4>1, AssocRemoveIsDrop
      <4>4. Contents(cell) = OfTable(cell) /\ Contents(cell') = OfTable(cell')
        BY <3>1, <4>1, <4>2, ContentsOfTable
      <4> QED
        BY <4>3, <4>4
    <3>2. CASE ~Associative
      <4>1. cell' = array_remove(cell, key) /\ key \in Nat /\ IsArray(cell, Values)
        BY <1>1, <1>2, <1>4, <1>7, <2>1, <3>2 DEF UnbindArrayElement
      <4>2. OfArray(cell') = Promise!Drop(OfArray(cell), key)
        BY <4>1, RemoveIsDrop
      <4> QED
        BY <3>2, <4>2, ContentsOfArray
    <3> QED
      BY <3>1, <3>2
  <2>5. Contents(cell)' = Promise!Result(Contents(cell), request')
    BY <2>3, <2>4, Results, ContentsLater
  <2> QED
    BY <1>4, <2>2, <2>5, CellChanges
<1> QED
  BY <1>5, <1>6, <1>7

LEMMA CompoundPromised ==
  ASSUME ArraysInv, TablesInv, ArraysAssumption, kind' = kind,
         \/ \E append \in BOOLEAN : BeginCompound(append)
         \/ \E sub \in Subscripts \cup {NoSub}, value \in Values : CompoundWord(sub, value)
         \/ EndCompound
  PROVE  Promise!Next
<1>1. /\ Contents(cell)' = Contents(cell') /\ Contents(aside)' = Contents(aside')
  BY ContentsLater
<1>2. ASSUME NEW append \in BOOLEAN, BeginCompound(append) PROVE Promise!Next
  <2>1. CASE append
    <3>1. cell' = cell /\ aside' = aside /\ AsksNothing /\ answer' = NONE
      BY <1>2, <2>1 DEF BeginCompound
    <3>2. Contents(cell') = Contents(cell) /\ Contents(aside') = Contents(aside)
      BY <3>1
    <3> QED
      BY <1>1, <3>1, <3>2, NothingChanges
  <2>2. CASE ~append /\ Associative
    <3>1. cell' = cell /\ aside' = hash_create(cell.nbuckets) /\ answer' = NONE
          /\ AsksAside("clear", NONE, NONE)
      <4>1. request' = Request("clear", NONE, NONE, Associative)
        BY <1>2, <2>2 DEF BeginCompound
      <4>2. Associative = TRUE
        BY <2>2
      <4>3. AsksAside("clear", NONE, NONE)
        BY <4>1, <4>2 DEF AsksAside
      <4> QED
        BY <1>2, <2>2, <4>3 DEF BeginCompound
    <3>2. PICK n \in Nat \ {0} : n = cell.nbuckets
      BY <2>2, TableBuckets DEF TablesInv
    <3>3. IsTable(hash_create(n), Values) /\ OfTable(hash_create(n)) = Promise!EMPTY
      BY NewTable, CreatedTableIsEmpty
    <3>4. Contents(hash_create(n)) = OfTable(hash_create(n))
      BY <2>2, <3>3, ContentsOfTable
    <3>5. Contents(aside)' = Promise!EMPTY
      BY <1>1, <3>1, <3>2, <3>3, <3>4
    <3>6. request'.op = "clear"
      BY <3>1 DEF AsksAside, Request
    <3>7. Contents(aside)' = Promise!Result(Contents(aside), request')
      BY <3>5, <3>6, Results
    <3>8. Contents(cell)' = Contents(cell)
      BY <1>1, <3>1
    <3> QED
      BY <3>1, <3>7, <3>8, AsideChanges
  <2>3. CASE ~append /\ ~Associative
    <3>1. cell' = array_create /\ aside' = aside /\ answer' = NONE
          /\ Asks("clear", NONE, NONE)
      <4>1. request' = Request("clear", NONE, NONE, Associative)
        BY <1>2, <2>3 DEF BeginCompound
      <4>2. Associative = FALSE
        BY <2>3 DEF Associative
      <4>3. Asks("clear", NONE, NONE)
        BY <4>1, <4>2 DEF Asks
      <4> QED
        BY <1>2, <2>3, <4>3 DEF BeginCompound
    <3>2. Contents(cell)' = Promise!EMPTY
      <4>1. Contents(array_create) = OfArray(array_create)
        BY <2>3, ContentsOfArray
      <4> QED
        BY <1>1, <3>1, <4>1, CreatedIsEmpty
    <3>3. request'.op = "clear"
      BY <3>1 DEF Asks, Request
    <3>4. Contents(cell)' = Promise!Result(Contents(cell), request')
      BY <3>2, <3>3, Results
    <3>5. Contents(aside)' = Contents(aside)
      BY <1>1, <3>1
    <3> QED
      BY <3>1, <3>4, <3>5, CellChanges
  <2> QED
    BY <2>1, <2>2, <2>3
<1>3. ASSUME NEW sub \in Subscripts \cup {NoSub}, NEW value \in Values, CompoundWord(sub, value)
      PROVE  Promise!Next
  <2>1. PICK key : key = IF sub = NoSub THEN last_ind ELSE KeyOf(sub)
    OBVIOUS
  <2>2. PICK valid \in BOOLEAN : valid <=> IF Associative THEN sub # NoSub ELSE key >= 0
    OBVIOUS
  <2>3. PICK built \in BOOLEAN : built = (doing = "building")
    OBVIOUS
  <2>4. /\ answer' = NONE
        /\ IF valid
           THEN /\ IF built
                   THEN aside' = insert(aside, key, value) /\ cell' = cell
                   ELSE cell' = insert(cell, key, value) /\ aside' = aside
                /\ request' = Request("put", key, value, built)
           ELSE AsksNothing /\ cell' = cell /\ aside' = aside
    BY <1>3, <2>1, <2>2, <2>3 DEF CompoundWord, GoesOn
  <2>5. CASE ~valid
    <3>1. Contents(cell)' = Contents(cell) /\ Contents(aside)' = Contents(aside)
      BY <1>1, <2>4, <2>5
    <3> QED
      BY <2>4, <2>5, <3>1, NothingChanges
  <2>6. CASE valid
    <3>1. /\ Associative => key \in Keys
          /\ ~Associative => key \in Nat
      <4>1. CASE Associative
        BY <2>1, <2>2, <2>6, <4>1 DEF KeyOf, Subscripts
      <4>2. CASE ~Associative
        <5>1. key \in Int
          BY <2>1, <4>2, SubscriptsAreIndices DEF ArraysInv, Loops, TypeOK
        <5> QED
          BY <2>2, <2>6, <4>2, <5>1
      <4> QED
        BY <4>1, <4>2
    <3>2. CASE built
      <4>1. Associative /\ IsTable(aside, Values)
        BY <2>3, <3>2 DEF TablesInv, ArraysInv, Loops, TypeOK
      <4>2. aside' = insert(aside, key, value) /\ cell' = cell
        BY <2>4, <2>6, <3>2
      <4>3. Contents(insert(aside, key, value)) = Promise!Put(Contents(aside), key, value)
        BY <3>1, <4>1, InsertChanges
      <4>4. /\ Contents(aside)' = Promise!Put(Contents(aside), key, value)
            /\ Contents(cell)' = Contents(cell)
        BY <1>1, <4>2, <4>3
      <4> QED
        BY <2>4, <2>6, <3>2, <4>4, PutChanges
    <3>3. CASE ~built
      <4>1. /\ Associative => IsTable(cell, Values)
            /\ ~Associative => IsArray(cell, Values)
        BY DEF TablesInv, ArraysInv, CellIsArray
      <4>2. cell' = insert(cell, key, value) /\ aside' = aside
        BY <2>4, <2>6, <3>3
      <4>3. Contents(insert(cell, key, value)) = Promise!Put(Contents(cell), key, value)
        BY <3>1, <4>1, InsertChanges
      <4>4. /\ Contents(cell)' = Promise!Put(Contents(cell), key, value)
            /\ Contents(aside)' = Contents(aside)
        BY <1>1, <4>2, <4>3
      <4> QED
        BY <2>4, <2>6, <3>3, <4>4, PutChanges
    <3> QED
      BY <3>2, <3>3
  <2> QED
    BY <2>5, <2>6
<1>4. ASSUME EndCompound PROVE Promise!Next
  <2>1. answer' = NONE
    BY <1>4 DEF EndCompound, Ends
  <2>2. CASE doing = "building"
    <3>1. cell' = aside /\ aside' = NoTable /\ Asks("put back", NONE, NONE)
      BY <1>4, <2>2 DEF EndCompound
    <3>2. Contents(cell)' = Contents(aside) /\ Contents(aside)' = Promise!EMPTY
      BY <1>1, <3>1, ContentsOfNone
    <3> QED
      BY <2>1, <3>1, <3>2, Exchanges
  <2>3. CASE doing # "building"
    <3>1. cell' = cell /\ aside' = aside /\ AsksNothing
      BY <1>4, <2>3 DEF EndCompound
    <3>2. Contents(cell)' = Contents(cell) /\ Contents(aside)' = Contents(aside)
      BY <1>1, <3>1
    <3> QED
      BY <2>1, <3>1, <3>2, NothingChanges
  <2> QED
    BY <2>2, <2>3
<1> QED
  BY <1>2, <1>3, <1>4

LEMMA StatusesPromised ==
  ASSUME ArraysInv, ArraysAssumption, kind' = kind,
         \/ \E n \in 1 .. MaxWords : \E statuses \in [1 .. n -> Values] : SetPipestatus(statuses)
         \/ InsertStatus \/ EndStatuses \/ SavePipestatus \/ RestorePipestatus
  PROVE  Promise!Next
<1>1. /\ Contents(cell)' = Contents(cell') /\ Contents(aside)' = Contents(aside')
  BY ContentsLater
<1>2. ~Associative /\ IsArray(cell, Values)
  <2>1. kind = "PIPESTATUS"
    BY DEF ArraysInv, Loops, SetPipestatus, InsertStatus, EndStatuses, SavePipestatus,
           RestorePipestatus
  <2> QED
    BY <2>1 DEF ArraysInv, CellIsArray, Associative
<1>3. ASSUME NEW n \in 1 .. MaxWords, NEW statuses \in [1 .. n -> Values],
             SetPipestatus(statuses)
      PROVE  Promise!Next
  <2>1. statuses \in Seq(Values) /\ cell.num_elements = Len(cell.elements)
    BY <1>2, ArrayShape DEF ArraysAssumption
  <2>2. answer' = NONE /\ aside' = aside /\ Contents(aside)' = Contents(aside)
    <3>1. answer' = NONE /\ aside' = aside
      BY <1>3, Zenon DEF SetPipestatus
    <3> QED
      BY <1>1, <3>1
  <2>3. \/ AsksNothing /\ cell' = cell
        \/ /\ Asks("overwrite", NONE, NONE) /\ cell.num_elements <= Len(statuses)
           /\ cell' = SetFirstValues(cell, statuses)
        \/ Asks("clear", NONE, NONE) /\ cell' = array_create
    BY <1>3, Zenon DEF SetPipestatus
  <2>4. CASE AsksNothing /\ cell' = cell
    <3>1. Contents(cell)' = Contents(cell)
      BY <1>1, <2>4
    <3> QED
      BY <2>2, <2>4, <3>1, NothingChanges
  <2>5. CASE /\ Asks("overwrite", NONE, NONE) /\ cell.num_elements <= Len(statuses)
             /\ cell' = SetFirstValues(cell, statuses)
    <3>1. DOMAIN OfArray(SetFirstValues(cell, statuses)) = DOMAIN OfArray(cell)
      BY <1>2, <2>1, <2>5, OverwrittenIndices
    <3>2. Contents(cell) = OfArray(cell) /\ Contents(cell') = OfArray(cell')
      BY <1>2, ContentsOfArray
    <3>3. DOMAIN Contents(cell)' = DOMAIN Contents(cell)
      BY <1>1, <2>5, <3>1, <3>2
    <3> QED
      BY <2>2, <2>5, <3>3, Exchanges
  <2>6. CASE Asks("clear", NONE, NONE) /\ cell' = array_create
    <3>1. Contents(cell)' = Promise!EMPTY
      <4>1. Contents(array_create) = OfArray(array_create)
        BY <1>2, ContentsOfArray
      <4> QED
        BY <1>1, <2>6, <4>1, CreatedIsEmpty
    <3>2. request'.op = "clear"
      BY <2>6 DEF Asks, Request
    <3>3. Contents(cell)' = Promise!Result(Contents(cell), request')
      BY <3>1, <3>2, Results
    <3> QED
      BY <2>2, <2>6, <3>3, CellChanges
  <2> QED
    BY <2>3, <2>4, <2>5, <2>6
<1>4. ASSUME InsertStatus PROVE Promise!Next
  <2>1. i \in Nat /\ ps \in Seq(Values) /\ i < Len(ps)
    BY <1>4 DEF ArraysInv, Loops, TypeOK, InsertStatus
  <2>2. ps[i + 1] \in Values
    <3>1. i + 1 \in 1 .. Len(ps)
      BY <2>1
    <3> QED
      BY <2>1, <3>1, ElementOfSeq
  <2>3. PICK status \in Values : status = ps[i + 1]
    BY <2>2
  <2>4. /\ cell' = array_insert(cell, i, status) /\ aside' = aside /\ answer' = NONE
        /\ request' = Request("put", i, status, FALSE)
    BY <1>4, <2>3 DEF InsertStatus, GoesOn, Asks
  <2>5. insert(cell, i, status) = array_insert(cell, i, status)
    BY <1>2 DEF insert
  <2>6. Contents(insert(cell, i, status)) = Promise!Put(Contents(cell), i, status)
    BY <1>2, <2>1, InsertChanges
  <2>7. /\ Contents(cell)' = Promise!Put(Contents(cell), i, status)
        /\ Contents(aside)' = Contents(aside)
    BY <1>1, <2>4, <2>5, <2>6
  <2> QED
    BY <2>4, <2>7, PutChanges
<1>5. ASSUME EndStatuses PROVE Promise!Next
  <2>1. cell' = cell /\ aside' = aside /\ AsksNothing /\ answer' = NONE
    BY <1>5 DEF EndStatuses, Ends
  <2>2. Contents(cell)' = Contents(cell) /\ Contents(aside)' = Contents(aside)
    BY <1>1, <2>1
  <2> QED
    BY <2>1, <2>2, NothingChanges
<1>6. ASSUME SavePipestatus PROVE Promise!Next
  <2>1. cell' = cell /\ aside' = array_copy(cell) /\ Asks("keep", NONE, NONE) /\ answer' = NONE
    BY <1>6 DEF SavePipestatus
  <2>2. Contents(array_copy(cell)) = OfArray(array_copy(cell)) /\ Contents(cell) = OfArray(cell)
    BY <1>2, ContentsOfArray
  <2>3. OfArray(array_copy(cell)) = OfArray(cell)
    BY <1>2, CopyIsSame
  <2>4. Contents(aside)' = Contents(cell) /\ Contents(cell)' = Contents(cell)
    BY <1>1, <2>1, <2>2, <2>3
  <2> QED
    BY <2>1, <2>4, Exchanges
<1>7. ASSUME RestorePipestatus PROVE Promise!Next
  <2>1. cell' = aside /\ aside' = NoTable /\ Asks("put back", NONE, NONE) /\ answer' = NONE
    BY <1>7 DEF RestorePipestatus
  <2>2. Contents(cell)' = Contents(aside) /\ Contents(aside)' = Promise!EMPTY
    BY <1>1, <2>1, ContentsOfNone
  <2> QED
    BY <2>1, <2>2, Exchanges
<1> QED
  BY <1>3, <1>4, <1>5, <1>6, <1>7

LEMMA ArgumentsPromised ==
  ASSUME ArraysInv, kind' = kind,
         \/ PushArgs \/ (\E word \in Values : PushArg(word)) \/ PushCount
         \/ PopArgs \/ PopArg \/ EndPop
  PROVE  Promise!Next
<1>1. /\ Contents(cell)' = Contents(cell') /\ Contents(aside)' = Contents(aside')
  BY ContentsLater
<1>2. ~Associative /\ IsArray(cell, Values) /\ IsArray(aside, Nat) /\ i \in Nat
  <2>1. kind = "BASH_ARGV"
    BY DEF ArraysInv, Loops, PushArgs, PushArg, PushCount, PopArgs, PopArg, EndPop
  <2> QED
    BY <2>1 DEF ArraysInv, Loops, TypeOK, CellIsArray, AsideIsArray, Associative
<1>3. \A t : Contents(t) = OfArray(t)
  BY <1>2, ContentsOfArray
<1>4. ASSUME PushArgs \/ EndPop PROVE Promise!Next
  <2>1. cell' = cell /\ aside' = aside /\ AsksNothing /\ answer' = NONE
    BY <1>4 DEF PushArgs, EndPop, Ends
  <2>2. Contents(cell)' = Contents(cell) /\ Contents(aside)' = Contents(aside)
    BY <1>1, <2>1
  <2> QED
    BY <2>1, <2>2, NothingChanges
<1>5. ASSUME NEW word \in Values, PushArg(word) PROVE Promise!Next
  <2>1. cell' = array_push(cell, word) /\ aside' = aside /\ answer' = NONE
        /\ Asks("push", NONE, word)
    BY <1>5 DEF PushArg, GoesOn
  <2>2. OfArray(array_push(cell, word)) = Promise!Pushed(OfArray(cell), word)
    BY <1>2, PushIsPushed
  <2>3. request'.op = "push" /\ request'.value = word
    BY <2>1 DEF Asks, Request
  <2>4. Contents(cell)' = Promise!Pushed(Contents(cell), word)
    BY <1>1, <1>3, <2>1, <2>2
  <2>5. Contents(cell)' = Promise!Result(Contents(cell), request')
    BY <2>3, <2>4, Results
  <2>6. Contents(aside)' = Contents(aside)
    BY <1>1, <2>1
  <2> QED
    BY <2>1, <2>5, <2>6, CellChanges
<1>6. ASSUME PushCount PROVE Promise!Next
  <2>1. aside' = array_push(aside, i) /\ cell' = cell /\ answer' = NONE
        /\ AsksAside("push", NONE, i)
    BY <1>6 DEF PushCount, Ends
  <2>2. OfArray(array_push(aside, i)) = Promise!Pushed(OfArray(aside), i)
    BY <1>2, PushIsPushed
  <2>3. request'.op = "push" /\ request'.value = i
    BY <2>1 DEF AsksAside, Request
  <2>4. Contents(aside)' = Promise!Pushed(Contents(aside), i)
    BY <1>1, <1>3, <2>1, <2>2
  <2>5. Contents(aside)' = Promise!Result(Contents(aside), request')
    BY <2>3, <2>4, Results
  <2>6. Contents(cell)' = Contents(cell)
    BY <1>1, <2>1
  <2> QED
    BY <2>1, <2>5, <2>6, AsideChanges
<1>7. ASSUME PopArgs PROVE Promise!Next
  <2>1. aside' = array_pop(aside) /\ cell' = cell /\ answer' = NONE
        /\ AsksAside("pop", NONE, NONE)
    BY <1>7 DEF PopArgs, array_pop
  <2>2. OfArray(array_pop(aside)) = Promise!Popped(OfArray(aside))
    BY <1>2, PopIsPopped
  <2>3. request'.op = "pop"
    BY <2>1 DEF AsksAside, Request
  <2>4. Contents(aside)' = Promise!Popped(Contents(aside))
    BY <1>1, <1>3, <2>1, <2>2
  <2>5. Contents(aside)' = Promise!Result(Contents(aside), request')
    BY <2>3, <2>4, Results
  <2>6. Contents(cell)' = Contents(cell)
    BY <1>1, <2>1
  <2> QED
    BY <2>1, <2>5, <2>6, AsideChanges
<1>8. ASSUME PopArg PROVE Promise!Next
  <2>1. cell' = array_pop(cell) /\ aside' = aside /\ answer' = NONE /\ Asks("pop", NONE, NONE)
    BY <1>8 DEF PopArg, GoesOn
  <2>2. OfArray(array_pop(cell)) = Promise!Popped(OfArray(cell))
    BY <1>2, PopIsPopped
  <2>3. request'.op = "pop"
    BY <2>1 DEF Asks, Request
  <2>4. Contents(cell)' = Promise!Popped(Contents(cell))
    BY <1>1, <1>3, <2>1, <2>2
  <2>5. Contents(cell)' = Promise!Result(Contents(cell), request')
    BY <2>3, <2>4, Results
  <2>6. Contents(aside)' = Contents(aside)
    BY <1>1, <2>1
  <2> QED
    BY <2>1, <2>5, <2>6, CellChanges
<1> QED
  BY <1>4, <1>5, <1>6, <1>7, <1>8

LEMMA StepsPromised ==
  ASSUME ArraysInv, TablesInv, ArraysAssumption, [Next]_vars
  PROVE  [Promise!Next]_<<Contents(cell), Contents(aside), request, answer>>
<1>1. CASE UNCHANGED vars
  <2>1. kind' = kind /\ cell' = cell /\ aside' = aside /\ request' = request /\ answer' = answer
    BY <1>1 DEF vars
  <2>2. Contents(cell)' = Contents(cell) /\ Contents(aside)' = Contents(aside)
    BY <2>1, ContentsLater
  <2> QED
    BY <2>1, <2>2
<1>2. CASE Next
  <2>1. kind' = kind
    BY <1>2, KindStays
  <2>2. ASSUME NEW sub \in Subscripts, \/ \E value \in Values : AssignElement(sub, value)
                                       \/ ArrayValue(sub)
                                       \/ UnbindArrayElement(sub)
        PROVE  Promise!Next
    BY <2>1, <2>2, ElementsPromised
  <2>3. ASSUME \/ \E append \in BOOLEAN : BeginCompound(append)
               \/ \E sub \in Subscripts \cup {NoSub}, value \in Values :
                    CompoundWord(sub, value)
               \/ EndCompound
        PROVE  Promise!Next
    BY <2>1, <2>3, CompoundPromised
  <2>4. ASSUME \/ \E n \in 1 .. MaxWords : \E statuses \in [1 .. n -> Values] :
                    SetPipestatus(statuses)
               \/ InsertStatus \/ EndStatuses \/ SavePipestatus \/ RestorePipestatus
        PROVE  Promise!Next
    BY <2>1, <2>4, StatusesPromised
  <2>5. ASSUME \/ PushArgs \/ (\E word \in Values : PushArg(word)) \/ PushCount
               \/ PopArgs \/ PopArg \/ EndPop
        PROVE  Promise!Next
    BY <2>1, <2>5, ArgumentsPromised
  <2>6. Promise!Next
    BY <1>2, <2>2, <2>3, <2>4, <2>5, Zenon DEF Next
  <2> QED
    BY <2>6
<1> QED
  BY <1>1, <1>2

LEMMA InitPromised == ASSUME Init, ArraysAssumption PROVE Promise!Init
<1>1. Contents(cell) = Promise!EMPTY
  <2>1. CASE Associative
    <3>1. cell = hash_create(Buckets) /\ Buckets \in Nat \ {0}
      BY <2>1 DEF Init, New, ArraysAssumption
    <3>2. IsTable(cell, Values) /\ OfTable(cell) = Promise!EMPTY
      BY <3>1, NewTable, CreatedTableIsEmpty
    <3> QED
      BY <2>1, <3>2, ContentsOfTable
  <2>2. CASE ~Associative
    <3>1. cell = array_create
      BY <2>2 DEF Init, New
    <3> QED
      BY <2>2, <3>1, ContentsOfArray, CreatedIsEmpty
  <2> QED
    BY <2>1, <2>2
<1>2. Contents(aside) = Promise!EMPTY
  <2>1. CASE kind = "BASH_ARGV"
    <3>1. aside = array_create /\ ~Associative
      BY <2>1 DEF Init, Associative
    <3> QED
      BY <3>1, ContentsOfArray, CreatedIsEmpty
  <2>2. CASE kind # "BASH_ARGV"
    BY <2>2, ContentsOfNone DEF Init
  <2> QED
    BY <2>1, <2>2
<1> QED
  BY <1>1, <1>2 DEF Init, Promise!Init

\* The tables behind array variables are dictionaries: whatever the roving
\* pointer of array.c points to, however a table of hashlib.c has grown, and
\* whatever a compound assignment builds before it takes the place of the old
\* table, an assignment, a removal, a shift and a restoration change what they
\* name and nothing else, and a reference answers what was written last.
THEOREM TablesAreDictionaries == Spec => IsDictionary
<1>1. Init => Promise!Init
  BY InitPromised, ArraysAssumption
<1>2. ArraysInv /\ TablesInv /\ [Next]_vars
        => [Promise!Next]_<<Contents(cell), Contents(aside), request, answer>>
  BY StepsPromised, ArraysAssumption
<1> QED
  BY <1>1, <1>2, TablesInvHolds, PTL DEF Spec, IsDictionary, Promise!Spec
=============================================================================

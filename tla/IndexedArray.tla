---------------------------- MODULE IndexedArray ----------------------------
(***************************************************************************)
(* array.c: sparse arrays, as operators on a record of                     *)
(*   elements      the list in its order, without the dummy head           *)
(*   max_index     the index of the last element, -1 if there is none      *)
(*   num_elements  how many there are                                      *)
(*   lastref       the roving pointer, as a position, 0 if it is null      *)
(* A search starts at the roving pointer and goes one way only.            *)
(***************************************************************************)
EXTENDS Integers, SequencesExt

CONSTANT NONE  \* what is found where there is nothing

array_create == [elements |-> <<>>, max_index |-> -1, num_elements |-> 0, lastref |-> 0]

Element(i, v) == [ind |-> i, value |-> v]
Ind(a, p) == a.elements[p].ind
array_first_index(a) == IF a.elements = <<>> THEN -1 ELSE Ind(a, 1)
IndexOfLast(elements) == IF elements = <<>> THEN -1 ELSE elements[Len(elements)].ind

----------------------------------------------------------------------------
\* Looking for index i.
LASTREF(a) == IF a.lastref = 0 THEN 1 ELSE a.lastref

FromFirst(a, i) == i < Ind(a, LASTREF(a)) \div 2
\* Mutant: from the first element too, the search goes backward.
ForwardFromLast(a, i) == i >= Ind(a, LASTREF(a))

Forward(a, i) == FromFirst(a, i) \/ i >= Ind(a, LASTREF(a))
Start(a, i) == IF FromFirst(a, i) THEN 1 ELSE LASTREF(a)

\* Where the search ends: at i, at the first element past it, or at the head.
Search(a, i) ==
  IF Forward(a, i)
  THEN Min({p \in Start(a, i) .. Len(a.elements) : Ind(a, p) >= i} \cup {Len(a.elements) + 1})
  ELSE Max({p \in 1 .. Start(a, i) : Ind(a, p) <= i} \cup {0})

Reached(a, i) == Search(a, i) \in DOMAIN a.elements
Found(a, i) == Reached(a, i) /\ Ind(a, Search(a, i)) = i
OutOfRange(a, i) == a.num_elements = 0 \/ i > a.max_index \/ i < array_first_index(a)

----------------------------------------------------------------------------
Hook(a, p, new) ==
  [a EXCEPT !.elements = InsertAt(@, p, new), !.num_elements = @ + 1, !.lastref = p]

array_insert(a, i, v) ==
  CASE i > a.max_index ->
         [Hook(a, Len(a.elements) + 1, Element(i, v)) EXCEPT !.max_index = i]
    [] i <= a.max_index /\ i < array_first_index(a) ->
         Hook(a, 1, Element(i, v))
    [] i <= a.max_index /\ i >= array_first_index(a) /\ Found(a, i) ->
         [a EXCEPT !.elements[Search(a, i)].value = v, !.lastref = Search(a, i)]
    [] i <= a.max_index /\ i >= array_first_index(a) /\ Reached(a, i) /\ ~Found(a, i) ->
         Hook(a, IF Forward(a, i) THEN Search(a, i) ELSE Search(a, i) + 1, Element(i, v))
    [] OTHER ->
         [a EXCEPT !.lastref = 0]

\* The element that takes the place of the one at p, or the one before it.
Neighbour(a, p) == IF p < Len(a.elements) THEN p ELSE p - 1

\* Mutant: max_index stays when the last element goes.
array_remove_before_last(a, i) ==
  IF OutOfRange(a, i) \/ ~Found(a, i)
  THEN a
  ELSE LET p == Search(a, i)
       IN [a EXCEPT !.elements = RemoveAt(@, p), !.num_elements = @ - 1,
                    !.lastref = Neighbour(a, p)]

array_remove(a, i) ==
  IF OutOfRange(a, i) \/ ~Found(a, i)
  THEN a
  ELSE LET p == Search(a, i)
       IN [a EXCEPT
             !.elements = RemoveAt(@, p),
             !.num_elements = @ - 1,
             !.max_index = IF i = @ THEN (IF p = 1 THEN -1 ELSE Ind(a, p - 1)) ELSE @,
             !.lastref = Neighbour(a, p)]

\* The value of a[i], and the array after the search, whose roving pointer is
\* at the element or at the one that ended the search.
ValueAt(a, i) ==
  IF OutOfRange(a, i) \/ ~Found(a, i) THEN NONE ELSE a.elements[Search(a, i)].value

AfterReference(a, i) ==
  IF OutOfRange(a, i)
  THEN a
  ELSE [a EXCEPT !.lastref = IF Reached(a, i) THEN Search(a, i) ELSE Start(a, i)]

----------------------------------------------------------------------------
array_copy(a) == [a EXCEPT !.lastref = IF a.elements = <<>> THEN 0 ELSE LASTREF(a)]

Renumbered(elements, n) ==
  [p \in DOMAIN elements |-> [elements[p] EXCEPT !.ind = @ + n]]

\* The first n elements go and the others take lower indices.
array_shift(a, n) ==
  LET kept == Renumbered(SubSeq(a.elements, n + 1, Len(a.elements)), -n)
  IN CASE a.num_elements = 0 -> a
       [] a.num_elements # 0 /\ n >= Len(a.elements) -> array_create
       [] OTHER -> [elements |-> kept, max_index |-> IndexOfLast(kept),
                    num_elements |-> a.num_elements - n, lastref |-> 0]

\* A new first element, and the others take higher indices.
array_rshift(a, n, v) ==
  LET moved == <<Element(0, v)>> \o Renumbered(a.elements, n)
  IN [elements |-> moved, max_index |-> IndexOfLast(moved),
      num_elements |-> a.num_elements + 1, lastref |-> 0]

array_push(a, v) == array_rshift(a, 1, v)
array_pop(a) == array_shift(a, 1)

SetFirstValues(a, values) ==
  [a EXCEPT !.elements = [p \in DOMAIN @ |-> Element(@[p].ind, values[p])]]
=============================================================================

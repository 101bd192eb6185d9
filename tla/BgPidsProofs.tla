---------------------------- MODULE BgPidsProofs ----------------------------
(***************************************************************************)
(* Proofs about BgPids for every set of pids, every hash and every size:   *)
(* the buffer keeps its shape, the chains stay doubly linked and ordered   *)
(* from newer to older, and bgp_add never has to skip a cell; the search   *)
(* finds a status exactly when one is saved, none outlives the reuse of    *)
(* its pid, and the last CHILD_MAX of them are kept.                       *)
(***************************************************************************)
EXTENDS BgPidsHistory, NatLemmas, FiniteSetTheorems, SequenceTheorems, TLAPS

USE DEF NoPid, NoIndex

(* What every operator below keeps: shape, links and order. *)
Sound(b) == WellFormed(b) /\ Linked(b)

(* A buffer whose cell at head may be filled. *)
Ready(b) ==
    /\ Sound(b)
    /\ b.head < b.nalloc
    /\ b.storage[b.head].pid = NoPid

-----------------------------------------------------------------------------
(* bgp_resize asks for at least the present size, never for more than the  *)
(* cap, and for more than the present size when that is below both.        *)
LEMMA GrownSize ==
    ASSUME NEW size \in 1..MaxChildMax, NEW goal \in Int
    PROVE  /\ Grown(size, goal) \in size..MaxChildMax
           /\ size < goal /\ size < MaxChildMax => size < Grown(size, goal)
           /\ goal <= MaxChildMax => goal <= Grown(size, goal)
<1> DEFINE enough == {n \in Doublings(size) : n >= goal}
<1>0. MaxChildMax \in Nat
  BY SizesAssumption
<1>1. CASE enough = {}
  BY <1>0, <1>1 DEF Grown
<1>2. CASE enough # {}
  <2>1. enough \subseteq Nat
    BY <1>0 DEF Doublings
  <2>3. \E least \in enough : \A m \in enough : least <= m
    BY <1>2, <2>1, LeastNat, Zenon
  <2>4. Grown(size, goal) \in enough
    BY <1>2, <2>3 DEF Grown
  <2>5. \A n \in enough : n \in size..MaxChildMax /\ n >= goal
    BY DEF Doublings
  <2> QED
    BY <1>0, <2>4, <2>5
<1> QED
  BY <1>1, <1>2

-----------------------------------------------------------------------------
LEMMA UnlinkSound ==
    ASSUME NEW b, Sound(b), NEW i \in 0..(b.nalloc - 1)
    PROVE  /\ Sound(Unlink(b, i))
           /\ Unlink(b, i).storage[i].pid = NoPid
           /\ Unlink(b, i).head = b.head
           /\ Unlink(b, i).nalloc = b.nalloc
<1> DEFINE c == b.storage[i]
           u == Unlink(b, i)
<1>0. /\ DOMAIN b.storage = 0..(b.nalloc - 1)
      /\ \A j \in 0..(b.nalloc - 1) : b.storage[j] \in Cell
      /\ b.nalloc \in Nat /\ b.head \in Nat
  BY SizesAssumption DEF Sound, WellFormed
<1>1. CASE c.pid = NoPid
  BY <1>1 DEF Unlink
<1>2. CASE c.pid # NoPid
  <2>1. c.pid \in Pids /\ Hash[c.pid] \in Buckets
    BY <1>0, <1>2, HashAssumption DEF Cell
  <2>2. /\ u = Buffer(u.storage, u.nalloc, u.head, u.npid, u.table)
        /\ u.head = b.head /\ u.nalloc = b.nalloc /\ u.npid = b.npid
        /\ u.table = IF c.prev = NoIndex THEN [b.table EXCEPT ![Hash[c.pid]] = c.next]
                      ELSE b.table
    BY <1>0, <1>2 DEF Unlink, Buffer
  <2>3. u.storage = [j \in 0..(b.nalloc - 1) |->
            IF j = i THEN CellOf(NoPid, c.status, NoIndex, NoIndex)
            ELSE CellOf(b.storage[j].pid, b.storage[j].status,
                        IF j = c.prev THEN c.next ELSE b.storage[j].next,
                        IF j = c.next THEN c.prev ELSE b.storage[j].prev)]
    BY <1>0, <1>2 DEF Unlink, Buffer
  <2> HIDE DEF u
  <2>4. \A j \in 0..(b.nalloc - 1) : j # i =>
          /\ u.storage[j].pid = b.storage[j].pid
          /\ j = c.next => u.storage[j].prev = c.prev
          /\ j # c.next => u.storage[j].prev = b.storage[j].prev
          /\ j = c.prev => u.storage[j].next = c.next
          /\ j # c.prev => u.storage[j].next = b.storage[j].next
    BY <2>3, SMTT(30) DEF CellOf
  <2>5. u.storage[i].pid = NoPid
    BY <2>3 DEF CellOf
  <2>6. WellFormed(u)
    <3>1. c.next \in Int /\ c.prev \in Int
      BY <1>0 DEF Cell
    <3>2. u.storage \in [0..(b.nalloc - 1) -> Cell]
      BY <1>0, <2>3, <3>1 DEF Cell, CellOf
    <3> QED
      BY <2>1, <2>2, <3>1, <3>2 DEF Sound, WellFormed
  <2>7. DOMAIN u.storage = 0..(b.nalloc - 1)
    BY <2>3
  <2>8. \A j : j \in Live(u) <=> j \in Live(b) /\ j # i
    BY <1>0, <2>4, <2>5, <2>7 DEF Live
  <2>9. /\ i \in Live(b)
        /\ \A j \in Live(b) : /\ j \in 0..(b.nalloc - 1)
                              /\ b.storage[j].pid \in Pids
                              /\ Hash[b.storage[j].pid] \in Buckets
    BY <1>0, <1>2, HashAssumption DEF Live, Cell
  <2>10. NextLinked(b) /\ PrevLinked(b) /\ TableLinked(b) /\ NewestFirst(b)
    BY DEF Sound, Linked
  <2>11. \A j \in Live(b) : Position(b, j) \in Int /\ Position(u, j) = Position(b, j)
    BY <1>0, <2>2, <2>9 DEF Position
  <2>12. \A j \in Live(b) :
            /\ b.storage[j].next # NoIndex => b.storage[j].next \in Live(b)
            /\ b.storage[j].prev # NoIndex => b.storage[j].prev \in Live(b)
            /\ b.storage[j].prev = NoIndex => b.table[Hash[b.storage[j].pid]] = j
            /\ j # NoIndex
    BY <2>9, <2>10 DEF NextLinked, PrevLinked
  <2>13. \A j, k \in Live(b) : b.storage[j].next = k =>
            /\ b.storage[k].prev = j
            /\ Position(b, k) < Position(b, j)
            /\ Hash[b.storage[k].pid] = Hash[b.storage[j].pid]
    BY <2>9, <2>10 DEF NextLinked, NewestFirst
  <2>14. \A j, k \in Live(b) : b.storage[k].prev = j => b.storage[j].next = k
    BY <2>9, <2>10 DEF PrevLinked
  <2>15. \A j, k \in Live(b) : ~(b.storage[j].next = k /\ b.storage[k].next = j)
    BY <2>11, <2>13
  <2>16. c.next # i /\ c.prev # i /\ (c.next = c.prev => c.next = NoIndex)
    BY <2>9, <2>12, <2>14, <2>15
  <2>17. NextLinked(u)
    <3> SUFFICES ASSUME NEW j \in Live(u), u.storage[j].next # NoIndex
                 PROVE  /\ u.storage[j].next \in Live(u)
                        /\ u.storage[u.storage[j].next].prev = j
                        /\ Hash[u.storage[u.storage[j].next].pid] = Hash[u.storage[j].pid]
      BY DEF NextLinked
    <3>0. j \in Live(b) /\ j # i /\ j \in 0..(b.nalloc - 1)
      BY <2>8, <2>9
    <3>1. CASE j = c.prev
      <4>1. b.storage[j].next = i /\ u.storage[j].next = c.next
        BY <2>4, <2>9, <2>14, <3>0, <3>1
      <4>2. c.next \in Live(b) /\ c.next # i /\ c.next \in 0..(b.nalloc - 1)
        BY <2>9, <2>12, <2>16, <4>1
      <4>3. Hash[b.storage[c.next].pid] = Hash[b.storage[j].pid]
        BY <2>9, <2>13, <3>0, <4>1, <4>2
      <4> QED
        BY <2>4, <2>8, <3>0, <3>1, <4>1, <4>2, <4>3
    <3>2. CASE j # c.prev
      <4>1. u.storage[j].next = b.storage[j].next
        BY <2>4, <3>0, <3>2
      <4> DEFINE k == b.storage[j].next
      <4>2. k \in Live(b) /\ b.storage[k].prev = j /\ Hash[b.storage[k].pid] = Hash[b.storage[j].pid]
        BY <2>12, <2>13, <3>0, <4>1
      <4>3. k # i /\ k # c.next /\ k \in 0..(b.nalloc - 1)
        BY <2>9, <2>13, <3>0, <3>2, <4>2
      <4> QED
        BY <2>4, <2>8, <3>0, <4>1, <4>2, <4>3
    <3> QED
      BY <3>1, <3>2
  <2>18. PrevLinked(u)
    <3> SUFFICES ASSUME NEW j \in Live(u)
                 PROVE  IF u.storage[j].prev = NoIndex
                        THEN u.table[Hash[u.storage[j].pid]] = j
                        ELSE /\ u.storage[j].prev \in Live(u)
                             /\ u.storage[u.storage[j].prev].next = j
      BY DEF PrevLinked
    <3>0. /\ j \in Live(b) /\ j # i /\ j \in 0..(b.nalloc - 1)
          /\ Hash[b.storage[j].pid] \in Buckets
          /\ u.storage[j].pid = b.storage[j].pid
      BY <2>4, <2>8, <2>9
    <3>1. CASE j = c.next
      <4>1. /\ u.storage[j].prev = c.prev
            /\ Hash[b.storage[j].pid] = Hash[c.pid]
        BY <2>4, <2>9, <2>13, <3>0, <3>1
      <4>2. CASE c.prev = NoIndex
        <5>1. u.table[Hash[c.pid]] = j
          BY <2>1, <2>2, <3>1, <4>2 DEF Sound, WellFormed
        <5> QED
          BY <3>0, <4>1, <4>2, <5>1
      <4>3. CASE c.prev # NoIndex
        <5>1. c.prev \in Live(b) /\ c.prev # i /\ c.prev \in 0..(b.nalloc - 1)
          BY <2>9, <2>12, <2>16, <4>3
        <5> QED
          BY <2>4, <2>8, <3>0, <3>1, <4>1, <4>3, <5>1
      <4> QED
        BY <4>2, <4>3
    <3>2. CASE j # c.next
      <4>1. u.storage[j].prev = b.storage[j].prev
        BY <2>4, <3>0, <3>2
      <4>2. CASE b.storage[j].prev = NoIndex
        <5>1. b.table[Hash[b.storage[j].pid]] = j
          BY <2>12, <3>0, <4>2
        <5>2. u.table[Hash[b.storage[j].pid]] = j
          <6>1. CASE c.prev = NoIndex
            <7>1. Hash[c.pid] # Hash[b.storage[j].pid]
              BY <2>9, <2>12, <3>0, <5>1, <6>1
            <7> QED
              BY <2>1, <2>2, <3>0, <5>1, <6>1, <7>1 DEF Sound, WellFormed
          <6>2. CASE c.prev # NoIndex
            BY <2>2, <5>1, <6>2
          <6> QED
            BY <6>1, <6>2
        <5> QED
          BY <3>0, <4>1, <4>2, <5>2
      <4>3. CASE b.storage[j].prev # NoIndex
        <5> DEFINE k == b.storage[j].prev
        <5>1. k \in Live(b) /\ b.storage[k].next = j /\ k \in 0..(b.nalloc - 1)
          BY <2>9, <2>12, <2>14, <3>0, <4>3
        <5>2. k # i
          BY <3>2, <5>1
        <5>3. k # c.prev
          BY <2>9, <2>14, <3>0, <5>1
        <5> QED
          BY <2>4, <2>8, <4>1, <4>3, <5>1, <5>2, <5>3
      <4> QED
        BY <4>2, <4>3
    <3> QED
      BY <3>1, <3>2
  <2>19. TableLinked(u)
    <3> SUFFICES ASSUME NEW k \in Buckets, u.table[k] # NoIndex
                 PROVE  /\ u.table[k] \in Live(u)
                        /\ u.storage[u.table[k]].prev = NoIndex
                        /\ Hash[u.storage[u.table[k]].pid] = k
      BY DEF TableLinked
    <3>1. CASE c.prev = NoIndex /\ k = Hash[c.pid]
      <4>1. u.table[k] = c.next
        BY <2>1, <2>2, <3>1 DEF Sound, WellFormed
      <4>2. /\ c.next \in Live(b) /\ c.next # i /\ c.next \in 0..(b.nalloc - 1)
            /\ Hash[b.storage[c.next].pid] = k
        BY <2>9, <2>12, <2>13, <2>16, <3>1, <4>1
      <4> QED
        BY <2>4, <2>8, <3>1, <4>1, <4>2
    <3>2. CASE ~(c.prev = NoIndex /\ k = Hash[c.pid])
      <4>1. u.table[k] = b.table[k]
        BY <2>1, <2>2, <3>2 DEF Sound, WellFormed
      <4>2. /\ b.table[k] \in Live(b)
            /\ b.storage[b.table[k]].prev = NoIndex
            /\ Hash[b.storage[b.table[k]].pid] = k
        BY <2>10, <4>1 DEF TableLinked
      <4>3. b.table[k] # i
        BY <3>2, <4>2
      <4>4. b.table[k] # c.next
        BY <2>9, <2>13, <4>2
      <4>5. b.table[k] \in 0..(b.nalloc - 1)
        BY <2>9, <4>2
      <4> QED
        BY <2>4, <2>8, <4>1, <4>2, <4>3, <4>4, <4>5
    <3> QED
      BY <3>1, <3>2
  <2>20. NewestFirst(u)
    <3> SUFFICES ASSUME NEW j \in Live(u), u.storage[j].next # NoIndex
                 PROVE  Position(u, u.storage[j].next) < Position(u, j)
      BY DEF NewestFirst
    <3>0. j \in Live(b) /\ j # i /\ j \in 0..(b.nalloc - 1)
      BY <2>8, <2>9
    <3> DEFINE k == u.storage[j].next
    <3> HIDE DEF c
    <3>1. CASE j = c.prev
      <4>1. b.storage[j].next = i /\ k = c.next
        BY <2>4, <2>9, <2>14, <3>0, <3>1 DEF c
      <4>2. k \in Live(b)
        BY <2>9, <2>12, <4>1 DEF c
      <4>3. Position(b, i) < Position(b, j) /\ Position(b, k) < Position(b, i)
        BY <2>9, <2>13, <3>0, <4>1, <4>2 DEF c
      <4>4. Position(b, k) < Position(b, j)
        <5>1. /\ Position(b, i) \in Int /\ Position(b, j) \in Int
              /\ Position(b, k) \in Int
          BY <2>9, <2>11, <3>0, <4>2
        <5> QED
          BY <4>3, <5>1
      <4> QED
        BY <2>11, <3>0, <4>2, <4>4
    <3>2. CASE j # c.prev
      <4>1. k = b.storage[j].next
        BY <2>4, <3>0, <3>2
      <4>2. k \in Live(b) /\ Position(b, k) < Position(b, j)
        BY <2>12, <2>13, <3>0, <4>1
      <4> QED
        BY <2>11, <3>0, <4>2
    <3> QED
      BY <3>1, <3>2
  <2> QED
    BY <2>2, <2>5, <2>6, <2>17, <2>18, <2>19, <2>20 DEF Sound, Linked, u
<1> QED
  BY <1>1, <1>2

-----------------------------------------------------------------------------
(* What holds of the buffer between operations: nothing is known of the    *)
(* chains while there is no storage.                                       *)
Inv(b) == WellFormed(b) /\ (b.nalloc # 0 => Linked(b))

LimitOK == childmax \in {-1} \union (Nat \ {0})

LEMMA GoalPositive == ASSUME LimitOK PROVE Goal \in Nat \ {0}
BY SizesAssumption DEF LimitOK, Goal

(* Allocation yields blank cells and empty chains. *)
LEMMA AllocateSound ==
    ASSUME NEW b, Inv(b), LimitOK, b.nalloc = 0
    PROVE  Sound(Resize(b)) /\ Resize(b).head < Resize(b).nalloc
<1> DEFINE nsize == Grown(TableSize, Goal)
           r == Resize(b)
<1>1. nsize \in 1..MaxChildMax /\ MaxChildMax \in Nat
  BY GrownSize, GoalPositive, SizesAssumption
<1>2. r = Buffer(Enlarged(b, nsize), nsize, 0, b.npid, EmptyTable)
  BY GoalPositive, SizesAssumption DEF Resize
<1>3. /\ r.storage = [i \in 0..(nsize - 1) |-> BlankCell]
      /\ r.nalloc = nsize /\ r.head = 0 /\ r.npid = b.npid /\ r.table = EmptyTable
  BY <1>1, <1>2 DEF Buffer, Enlarged
<1>4. BlankCell \in Cell /\ BlankCell.pid = NoPid
  BY DEF BlankCell, CellOf, Cell
<1>5. Live(r) = {}
  BY <1>3, <1>4 DEF Live
<1>6. WellFormed(r)
  <2>1. r = Buffer(r.storage, r.nalloc, r.head, r.npid, r.table)
    BY <1>2, <1>3 DEF Buffer
  <2> HIDE DEF r, nsize
  <2> QED
    BY <1>1, <1>3, <1>4, <2>1 DEF WellFormed, EmptyTable, Inv
<1>7. Linked(r)
  BY <1>3, <1>5 DEF Linked, NextLinked, PrevLinked, TableLinked, NewestFirst, EmptyTable
<1> QED
  BY <1>1, <1>3, <1>6, <1>7 DEF Sound

(* Growing leaves the cells and the head: the order of the cells stays.    *)
LEMMA GrowSound ==
    ASSUME NEW b, Inv(b), LimitOK, b.nalloc # 0,
           b.nalloc < Goal, b.nalloc < MaxChildMax
    PROVE  Sound(Resize(b)) /\ Resize(b).head < Resize(b).nalloc
<1> DEFINE nsize == Grown(b.nalloc, Goal)
           r == Resize(b)
<1>0. b.nalloc \in Nat /\ b.head \in 0..b.nalloc /\ MaxChildMax \in Nat
  BY SizesAssumption DEF Inv, WellFormed
<1>1. nsize \in (b.nalloc + 1)..MaxChildMax
  <2>1. b.nalloc \in 1..MaxChildMax /\ Goal \in Int
    BY <1>0, GoalPositive
  <2>2. nsize \in b.nalloc..MaxChildMax /\ b.nalloc < nsize
    BY <2>1, GrownSize
  <2> QED
    BY <1>0, <2>2
<1>2. r = Buffer(Enlarged(b, nsize), nsize, b.head, b.npid, b.table)
  BY DEF Resize
<1>3. /\ r.storage = [i \in 0..(nsize - 1) |-> IF i < b.nalloc THEN b.storage[i] ELSE BlankCell]
      /\ r.nalloc = nsize /\ r.head = b.head /\ r.npid = b.npid /\ r.table = b.table
      /\ r = Buffer(r.storage, r.nalloc, r.head, r.npid, r.table)
  BY <1>2 DEF Buffer, Enlarged
<1> HIDE DEF r, nsize
<1>4. BlankCell \in Cell /\ BlankCell.pid = NoPid
  BY DEF BlankCell, CellOf, Cell
<1>5. WellFormed(r)
  <2>1. \A i \in 0..(b.nalloc - 1) : b.storage[i] \in Cell
    BY DEF Inv, WellFormed
  <2>2. r.storage \in [0..(r.nalloc - 1) -> Cell]
    BY <1>0, <1>1, <1>3, <1>4, <2>1
  <2> QED
    BY <1>0, <1>1, <1>3, <2>2 DEF WellFormed, Inv
<1>6. \A i \in Live(b) : i \in 0..(b.nalloc - 1) /\ r.storage[i] = b.storage[i]
  BY <1>0, <1>1, <1>3 DEF Live, Inv, WellFormed
<1>7. Live(r) = Live(b)
  <2>1. DOMAIN r.storage = 0..(nsize - 1) /\ DOMAIN b.storage = 0..(b.nalloc - 1)
    BY <1>3 DEF Inv, WellFormed
  <2>2. \A i \in 0..(nsize - 1) : r.storage[i].pid # NoPid => i < b.nalloc
    BY <1>3, <1>4
  <2> QED
    BY <1>0, <1>1, <1>3, <2>1, <2>2 DEF Live
<1>8. NextLinked(r) /\ PrevLinked(r) /\ TableLinked(r)
  <2>0. NextLinked(b) /\ PrevLinked(b) /\ TableLinked(b) /\ r.table = b.table
    BY <1>3 DEF Inv, Linked
  <2>1. NextLinked(r)
    BY <1>6, <1>7, <2>0 DEF NextLinked
  <2>2. PrevLinked(r)
    BY <1>6, <1>7, <2>0 DEF PrevLinked
  <2>3. TableLinked(r)
    BY <1>6, <1>7, <2>0 DEF TableLinked
  <2> QED
    BY <2>1, <2>2, <2>3
<1>9. NewestFirst(r)
  <2> SUFFICES ASSUME NEW i \in Live(b), b.storage[i].next # NoIndex
               PROVE  Position(r, b.storage[i].next) < Position(r, i)
    BY <1>6, <1>7 DEF NewestFirst
  <2>1. b.storage[i].next \in Live(b)
    BY DEF Inv, Linked, NextLinked
  <2>2. Position(b, b.storage[i].next) < Position(b, i)
    BY DEF Inv, Linked, NewestFirst
  <2>3. \A j, k \in 0..(b.nalloc - 1) :
            Position(b, j) < Position(b, k) => Position(r, j) < Position(r, k)
    BY <1>0, <1>1, <1>3, SMTT(30) DEF Position
  <2> QED
    BY <1>6, <2>1, <2>2, <2>3
<1> QED
  BY <1>0, <1>1, <1>3, <1>5, <1>8, <1>9 DEF Sound, Linked, r

(* Wrapping around leaves the cells in the same order. *)
LEMMA WrapSound ==
    ASSUME NEW b, Inv(b), LimitOK, b.nalloc # 0,
           ~(b.nalloc < Goal /\ b.nalloc < MaxChildMax)
    PROVE  Sound(Resize(b)) /\ Resize(b).head < Resize(b).nalloc
<1> DEFINE r == Resize(b)
<1>0. b.nalloc \in Nat /\ b.head \in 0..b.nalloc /\ MaxChildMax \in Nat
  BY SizesAssumption DEF Inv, WellFormed
<1>1. r = Buffer(b.storage, b.nalloc, IF b.head >= b.nalloc THEN 0 ELSE b.head, b.npid, b.table)
  BY DEF Resize
<1>2. /\ r.storage = b.storage /\ r.nalloc = b.nalloc /\ r.npid = b.npid /\ r.table = b.table
      /\ r.head = (IF b.head >= b.nalloc THEN 0 ELSE b.head)
      /\ r = Buffer(r.storage, r.nalloc, r.head, r.npid, r.table)
  BY <1>1 DEF Buffer
<1> HIDE DEF r
<1>3. WellFormed(r)
  BY <1>0, <1>2 DEF WellFormed, Inv
<1>4. \A i \in Live(b) : i \in 0..(b.nalloc - 1) /\ Position(r, i) = Position(b, i)
  BY <1>0, <1>2 DEF Live, Inv, WellFormed, Position
<1>5. Live(r) = Live(b)
  BY <1>2 DEF Live
<1>6. NextLinked(r) /\ PrevLinked(r) /\ TableLinked(r)
  BY <1>2, <1>5, SMTT(30) DEF Inv, Linked, NextLinked, PrevLinked, TableLinked
<1>7. NewestFirst(r)
  BY <1>2, <1>4, <1>5 DEF Inv, Linked, NextLinked, NewestFirst
<1> QED
  BY <1>0, <1>2, <1>3, <1>6, <1>7 DEF Sound, Linked, r

(* bgp_getindex: the cell at head is in the buffer and off every chain.    *)
LEMMA ReadyForNextReady ==
    ASSUME NEW b, Inv(b), LimitOK
    PROVE  Ready(ReadyForNext(b))
<1> DEFINE r == IF b.nalloc < childmax \/ b.head >= b.nalloc THEN Resize(b) ELSE b
<1>0. b.nalloc \in Nat /\ b.head \in 0..b.nalloc /\ MaxChildMax \in Nat
  BY SizesAssumption DEF Inv, WellFormed
<1>1. Sound(r) /\ r.head < r.nalloc
  <2>1. CASE b.nalloc < childmax \/ b.head >= b.nalloc
    BY <2>1, AllocateSound, GrowSound, WrapSound
  <2>2. CASE ~(b.nalloc < childmax \/ b.head >= b.nalloc)
    BY <1>0, <2>2 DEF Sound, Inv, LimitOK
  <2> QED
    BY <2>1, <2>2
<1>2. r.head \in 0..(r.nalloc - 1)
  BY <1>1, SizesAssumption DEF Sound, WellFormed
<1>3. ReadyForNext(b) = Unlink(r, r.head)
  BY DEF ReadyForNext
<1> HIDE DEF r
<1> QED
  BY <1>1, <1>2, <1>3, UnlinkSound DEF Ready

(* The chain heads are live cells, so none is the cell that is ready.      *)
LEMMA ReadyHeadsNoChain ==
    ASSUME NEW r, Ready(r), NEW pid \in Pids
    PROVE  ~HeadsChain(r, pid)
<1>1. Hash[pid] \in Buckets /\ r.head # NoIndex
  BY HashAssumption DEF Ready, Sound, WellFormed
<1>2. r.head \notin Live(r)
  BY DEF Live, Ready
<1> QED
  BY <1>1, <1>2 DEF HeadsChain, Ready, Sound, Linked, TableLinked

-----------------------------------------------------------------------------
(* The new cell goes first on its chain; advancing head makes it the       *)
(* newest and every other cell one step older.                             *)
LEMMA FillSound ==
    ASSUME NEW r, Ready(r), NEW pid \in Pids, NEW status \in Statuses
    PROVE  Sound(Fill(r, pid, status))
<1> DEFINE psi == r.head
           first == r.table[Hash[pid]]
           f == Fill(r, pid, status)
<1>0. /\ r.nalloc \in 0..MaxChildMax /\ MaxChildMax \in Nat /\ r.npid \in Int
      /\ psi \in 0..(r.nalloc - 1) /\ Hash[pid] \in Buckets /\ first \in Int
      /\ r.table \in [Buckets -> Int]
      /\ DOMAIN r.storage = 0..(r.nalloc - 1)
      /\ \A j \in 0..(r.nalloc - 1) : r.storage[j] \in Cell
  BY HashAssumption, SizesAssumption, SMTT(30) DEF Ready, Sound, WellFormed
<1>1. /\ f = Buffer(f.storage, f.nalloc, f.head, f.npid, f.table)
      /\ f.nalloc = r.nalloc /\ f.head = psi + 1 /\ f.npid = r.npid + 1
      /\ f.table = [r.table EXCEPT ![Hash[pid]] = psi]
  BY DEF Fill, Buffer
<1>2. f.storage = [j \in 0..(r.nalloc - 1) |->
            IF j = psi THEN CellOf(pid, status, first, NoIndex)
            ELSE IF j = first
                 THEN CellOf(r.storage[j].pid, r.storage[j].status, r.storage[j].next, psi)
            ELSE r.storage[j]]
  BY <1>0 DEF Fill, Buffer
<1> HIDE DEF f
<1>3. /\ f.storage[psi].pid = pid
      /\ f.storage[psi].next = first
      /\ f.storage[psi].prev = NoIndex
  BY <1>0, <1>2 DEF CellOf
<1>4. \A j \in 0..(r.nalloc - 1) : j # psi =>
        /\ f.storage[j].pid = r.storage[j].pid
        /\ f.storage[j].next = r.storage[j].next
        /\ j = first => f.storage[j].prev = psi
        /\ j # first => f.storage[j].prev = r.storage[j].prev
  BY <1>2 DEF CellOf
<1>5. /\ f.table[Hash[pid]] = psi
      /\ \A k \in Buckets : k # Hash[pid] => f.table[k] = r.table[k]
  BY <1>0, <1>1
<1>6. WellFormed(f)
  <2>1. f.storage \in [0..(r.nalloc - 1) -> Cell]
    BY <1>0, <1>2, SMTT(30) DEF Cell, CellOf
  <2> QED
    BY <1>0, <1>1, <2>1 DEF WellFormed
<1>7. \A j : j \in Live(f) <=> j \in Live(r) \/ j = psi
  <2>1. DOMAIN f.storage = 0..(r.nalloc - 1)
    BY <1>2
  <2>2. pid # NoPid
    BY PidsAssumption
  <2> QED
    BY <1>0, <1>3, <1>4, <2>1, <2>2 DEF Live
<1>8. /\ psi \notin Live(r)
      /\ \A j \in Live(r) : /\ j \in 0..(r.nalloc - 1) /\ j # psi /\ j # NoIndex
                            /\ Hash[r.storage[j].pid] \in Buckets
  BY <1>0, HashAssumption, SMTT(30) DEF Live, Ready, Cell
<1>9. /\ first # NoIndex => /\ first \in Live(r) /\ r.storage[first].prev = NoIndex
                            /\ Hash[r.storage[first].pid] = Hash[pid]
      /\ first # psi
  BY <1>0, <1>8, SMTT(30) DEF Ready, Sound, Linked, TableLinked
<1>10. \A j \in Live(r) :
        /\ r.storage[j].next # NoIndex =>
              /\ r.storage[j].next \in Live(r)
              /\ r.storage[r.storage[j].next].prev = j
              /\ Hash[r.storage[r.storage[j].next].pid] = Hash[r.storage[j].pid]
              /\ Position(r, r.storage[j].next) < Position(r, j)
        /\ r.storage[j].prev # NoIndex =>
              r.storage[j].prev \in Live(r) /\ r.storage[r.storage[j].prev].next = j
        /\ r.storage[j].prev = NoIndex => r.table[Hash[r.storage[j].pid]] = j
  BY DEF Ready, Sound, Linked, NextLinked, PrevLinked, NewestFirst
<1>11. NextLinked(f)
  <2> SUFFICES ASSUME NEW j \in Live(f), f.storage[j].next # NoIndex
               PROVE  /\ f.storage[j].next \in Live(f)
                      /\ f.storage[f.storage[j].next].prev = j
                      /\ Hash[f.storage[f.storage[j].next].pid] = Hash[f.storage[j].pid]
    BY DEF NextLinked
  <2>1. CASE j = psi
    BY <1>3, <1>4, <1>7, <1>8, <1>9, <2>1
  <2>2. CASE j # psi
    <3> DEFINE k == r.storage[j].next
    <3>1. j \in Live(r) /\ f.storage[j].next = k /\ f.storage[j].pid = r.storage[j].pid
      BY <1>4, <1>7, <1>8, <2>2
    <3>2. k \in Live(r) /\ r.storage[k].prev = j /\ Hash[r.storage[k].pid] = Hash[r.storage[j].pid]
      BY <1>10, <3>1
    <3>3. k # first /\ k # psi /\ k \in 0..(r.nalloc - 1)
      BY <1>8, <1>9, <3>1, <3>2
    <3> QED
      BY <1>4, <1>7, <3>1, <3>2, <3>3
  <2> QED
    BY <2>1, <2>2
<1>12. PrevLinked(f)
  <2> SUFFICES ASSUME NEW j \in Live(f)
               PROVE  IF f.storage[j].prev = NoIndex
                      THEN f.table[Hash[f.storage[j].pid]] = j
                      ELSE f.storage[j].prev \in Live(f) /\ f.storage[f.storage[j].prev].next = j
    BY DEF PrevLinked
  <2>1. CASE j = psi
    BY <1>3, <1>5, <2>1
  <2>2. CASE j # psi
    <3>1. j \in Live(r) /\ j \in 0..(r.nalloc - 1) /\ f.storage[j].pid = r.storage[j].pid
      BY <1>4, <1>7, <1>8, <2>2
    <3>2. CASE j = first
      <4>1. f.storage[j].prev = psi /\ psi # NoIndex /\ f.storage[psi].next = j
        BY <1>0, <1>3, <1>4, <2>2, <3>1, <3>2, SMTT(30)
      <4> QED
        BY <1>7, <4>1
    <3>3. CASE j # first
      <4>1. f.storage[j].prev = r.storage[j].prev
        BY <1>4, <2>2, <3>1, <3>3
      <4>2. CASE r.storage[j].prev = NoIndex
        <5>1. r.table[Hash[r.storage[j].pid]] = j /\ Hash[r.storage[j].pid] # Hash[pid]
          BY <1>10, <3>1, <3>3, <4>2
        <5> QED
          BY <1>5, <1>8, <3>1, <4>1, <4>2, <5>1
      <4>3. CASE r.storage[j].prev # NoIndex
        <5> DEFINE k == r.storage[j].prev
        <5>1. k \in Live(r) /\ r.storage[k].next = j
          BY <1>10, <3>1, <4>3
        <5> QED
          BY <1>4, <1>7, <1>8, <4>1, <4>3, <5>1
      <4> QED
        BY <4>2, <4>3
    <3> QED
      BY <3>2, <3>3
  <2> QED
    BY <2>1, <2>2
<1>13. TableLinked(f)
  <2> SUFFICES ASSUME NEW k \in Buckets, f.table[k] # NoIndex
               PROVE  /\ f.table[k] \in Live(f)
                      /\ f.storage[f.table[k]].prev = NoIndex
                      /\ Hash[f.storage[f.table[k]].pid] = k
    BY DEF TableLinked
  <2>1. CASE k = Hash[pid]
    BY <1>3, <1>5, <1>7, <2>1
  <2>2. CASE k # Hash[pid]
    <3>1. f.table[k] = r.table[k]
      BY <1>5, <2>2
    <3>2. /\ r.table[k] \in Live(r) /\ r.storage[r.table[k]].prev = NoIndex
          /\ Hash[r.storage[r.table[k]].pid] = k
      BY <3>1 DEF Ready, Sound, Linked, TableLinked
    <3>3. r.table[k] # first /\ r.table[k] # psi /\ r.table[k] \in 0..(r.nalloc - 1)
      BY <1>8, <1>9, <2>2, <3>2
    <3> QED
      BY <1>4, <1>7, <3>1, <3>2, <3>3
  <2> QED
    BY <2>1, <2>2
<1>14. NewestFirst(f)
  <2>1. \A j, k \in 0..(r.nalloc - 1) :
            /\ j # psi /\ k # psi /\ Position(r, j) < Position(r, k) => Position(f, j) < Position(f, k)
            /\ j # psi => Position(f, j) < Position(f, psi)
    <3> DEFINE n == r.nalloc
    <3>0. n \in Nat /\ psi \in 0..(n - 1) /\ f.head = psi + 1 /\ f.nalloc = n
      BY <1>0, <1>1
    <3>1. Position(f, psi) = n - 1
      BY <3>0 DEF Position
    <3>2. ASSUME NEW j \in 0..(n - 1)
          PROVE  /\ Position(r, j) \in 0..(n - 1)
                 /\ j # psi => Position(f, j) = Position(r, j) - 1
      <4>1. CASE j > psi
        BY <3>0, <4>1 DEF Position
      <4>2. CASE j = psi
        BY <3>0, <4>2 DEF Position
      <4>3. CASE j < psi
        BY <3>0, <4>3 DEF Position
      <4> QED
        BY <3>0, <4>1, <4>2, <4>3
    <3> HIDE DEF psi, n
    <3> QED
      BY <3>0, <3>1, <3>2 DEF n
  <2> SUFFICES ASSUME NEW j \in Live(f), f.storage[j].next # NoIndex
               PROVE  Position(f, f.storage[j].next) < Position(f, j)
    BY DEF NewestFirst
  <2>2. CASE j = psi
    BY <1>0, <1>3, <1>8, <1>9, <2>1, <2>2
  <2>3. CASE j # psi
    <3> DEFINE k == r.storage[j].next
    <3>1. j \in Live(r) /\ f.storage[j].next = k
      BY <1>4, <1>7, <1>8, <2>3
    <3>2. k \in Live(r) /\ Position(r, k) < Position(r, j)
      BY <1>10, <3>1
    <3> QED
      BY <1>8, <2>1, <2>3, <3>1, <3>2
  <2> QED
    BY <2>2, <2>3
<1> QED
  BY <1>6, <1>11, <1>12, <1>13, <1>14 DEF Sound, Linked, f

-----------------------------------------------------------------------------
(* bgp_add never skips, so it is one bgp_getindex and one fill. *)
LEMMA AddSound ==
    ASSUME NEW b, Inv(b), LimitOK, NEW pid \in Pids, NEW status \in Statuses
    PROVE  Sound(AddPid(b, pid, status))
<1>1. Ready(ReadyForNext(b))
  BY ReadyForNextReady
<1>2. AddPid(b, pid, status) = Fill(ReadyForNext(b), pid, status)
  BY <1>1, ReadyHeadsNoChain DEF AddPid
<1> QED
  BY <1>1, <1>2, FillSound

(* The walk answers NoIndex or a cell of the buffer. *)
LEMMA FindInBuffer ==
    ASSUME NEW b, Inv(b), NEW pid \in Pids, Find(b, pid) # NoIndex
    PROVE  b.nalloc # 0 /\ Find(b, pid) \in 0..(b.nalloc - 1)
<1>1. b.nalloc # 0
  BY DEF Find
<1>2. Find(b, pid) \in DOMAIN b.storage
  BY DEF Find
<1> QED
  BY <1>1, <1>2 DEF Inv, WellFormed

LEMMA DeleteKeepsInv ==
    ASSUME NEW b, Inv(b), NEW pid \in Pids
    PROVE  Inv(DeletePid(b, pid))
<1> DEFINE i == Find(b, pid)
           u == Unlink(b, i)
           d == DeletePid(b, pid)
<1>1. CASE i = NoIndex
  BY <1>1 DEF DeletePid
<1>2. CASE i # NoIndex
  <2>1. b.nalloc # 0 /\ i \in 0..(b.nalloc - 1) /\ Sound(b)
    BY <1>2, FindInBuffer DEF Sound, Inv
  <2>2. Sound(u)
    BY <2>1, UnlinkSound
  <2>3. d = Buffer(u.storage, u.nalloc, u.head, u.npid - 1, u.table)
    BY <1>2 DEF DeletePid
  <2>4. /\ d.storage = u.storage /\ d.nalloc = u.nalloc /\ d.head = u.head
        /\ d.npid = u.npid - 1 /\ d.table = u.table
        /\ d = Buffer(d.storage, d.nalloc, d.head, d.npid, d.table)
    BY <2>3 DEF Buffer
  <2> HIDE DEF u, d
  <2>5. WellFormed(d)
    BY <2>2, <2>4 DEF Sound, WellFormed
  <2>6. Live(d) = Live(u) /\ \A j : Position(d, j) = Position(u, j)
    BY <2>4 DEF Live, Position
  <2>7. NextLinked(d) /\ PrevLinked(d) /\ TableLinked(d)
    BY <2>2, <2>4, <2>6, SMTT(30) DEF Sound, Linked, NextLinked, PrevLinked, TableLinked
  <2>8. NewestFirst(d)
    BY <2>2, <2>4, <2>6 DEF Sound, Linked, NewestFirst
  <2> QED
    BY <2>5, <2>7, <2>8 DEF Inv, Linked, d
<1> QED
  BY <1>1, <1>2

LEMMA NoStorageInv ==
    ASSUME NEW table \in [Buckets -> Int]
    PROVE  Inv(NoStorage(table))
<1> DEFINE b == NoStorage(table)
<1>1. /\ b = Buffer(b.storage, b.nalloc, b.head, b.npid, b.table)
      /\ b.storage = [i \in {} |-> BlankCell]
      /\ b.nalloc = 0 /\ b.head = 0 /\ b.npid = 0 /\ b.table = table
  BY DEF NoStorage, Buffer
<1>2. 0..(0 - 1) = {}
  OBVIOUS
<1>3. b.storage \in [0..(b.nalloc - 1) -> Cell]
  BY <1>1, <1>2
<1> HIDE DEF b
<1> QED
  BY <1>1, <1>3, SizesAssumption DEF Inv, WellFormed, b

-----------------------------------------------------------------------------
(* TypeOK and LinksOK together are inductive: TypeOK alone does not say    *)
(* that the cell bgp_getindex hands out is off its chain, and the chains   *)
(* alone do not say that the head is inside the buffer.                    *)
TableInv == TypeOK /\ LinksOK

LEMMA TableInvForm == TableInv <=> Inv(bgpids) /\ LimitOK /\ children \subseteq Pids
BY DEF TableInv, TypeOK, LinksOK, Inv, LimitOK

LEMMA InitTableInv == Init => TableInv
<1> SUFFICES ASSUME Init PROVE TableInv
  OBVIOUS
<1>1. EmptyTable \in [Buckets -> Int]
  BY DEF EmptyTable
<1> QED
  BY <1>1, NoStorageInv, TableInvForm DEF Init, LimitOK

LEMMA StepTableInv == TableInv /\ [Next]_vars => TableInv'
<1> SUFFICES ASSUME Inv(bgpids), LimitOK, children \subseteq Pids, [Next]_vars
             PROVE  Inv(bgpids') /\ LimitOK' /\ children' \subseteq Pids
  BY TableInvForm DEF TableInv, TypeOK, LinksOK, Inv, LimitOK
<1>1. ASSUME NEW pid \in Pids, Fork(pid)
      PROVE  Inv(bgpids') /\ LimitOK' /\ children' \subseteq Pids
  BY <1>1, DeleteKeepsInv DEF Fork, LimitOK
<1>2. ASSUME NEW pid \in Pids, NEW status \in Statuses, Save(pid, status)
      PROVE  Inv(bgpids') /\ LimitOK' /\ children' \subseteq Pids
  <2>1. Sound(bgpids')
    BY <1>2, AddSound DEF Save
  <2> QED
    BY <1>2, <2>1 DEF Save, LimitOK, Sound, Inv
<1>3. ASSUME NEW pid \in Pids, Discard(pid)
      PROVE  Inv(bgpids') /\ LimitOK' /\ children' \subseteq Pids
  BY <1>3 DEF Discard, LimitOK
<1>4. ASSUME NEW pid \in Pids, Forget(pid)
      PROVE  Inv(bgpids') /\ LimitOK' /\ children' \subseteq Pids
  BY <1>4, DeleteKeepsInv DEF Forget, LimitOK
<1>5. CASE Clear
  <2>1. bgpids.table \in [Buckets -> Int]
    BY DEF Inv, WellFormed
  <2> QED
    BY <1>5, <2>1, NoStorageInv DEF Clear, LimitOK
<1>6. ASSUME NEW n \in Requests, SetMaxChild(n)
      PROVE  Inv(bgpids') /\ LimitOK' /\ children' \subseteq Pids
  <2>1. Clamped(n) \in Nat \ {0}
    BY SizesAssumption DEF Clamped
  <2> QED
    BY <1>6, <2>1 DEF SetMaxChild, LimitOK
<1>7. CASE UNCHANGED vars
  BY <1>7 DEF vars, LimitOK
<1> QED
  BY <1>1, <1>2, <1>3, <1>4, <1>5, <1>6, <1>7 DEF Next

(* In every state the buffer has its shape and head is inside it. *)
THEOREM TypeCorrect == Spec => []TypeOK
<1>1. TableInv => TypeOK
  BY DEF TableInv
<1> QED
  BY <1>1, InitTableInv, StepTableInv, PTL DEF Spec

(* In every state the chains are doubly linked and ordered from newer to   *)
(* older, whatever saves, deletions, growths, wraps and clears came first. *)
THEOREM ChainsLinked == Spec => []LinksOK
<1>1. TableInv => LinksOK
  BY DEF TableInv
<1> QED
  BY <1>1, InitTableInv, StepTableInv, PTL DEF Spec

(* bgp_add never lands on the first cell of the chain it extends, so the   *)
(* branch that skips a cell (jobs.c, "what if psi == *bucket?") is dead.   *)
THEOREM AddNeverSkips == Spec => []NeverSkips
<1>1. TableInv => NeverSkips
  BY TableInvForm, ReadyForNextReady, ReadyHeadsNoChain DEF NeverSkips
<1> QED
  BY <1>1, InitTableInv, StepTableInv, PTL DEF Spec

-----------------------------------------------------------------------------
(* The walk along a chain: the recursive function exists (a least          *)
(* counterexample takes the place of an induction), stays on live cells    *)
(* and reaches every live cell that hashes alike.                          *)
IsWalk(w, b, pid, n) ==
    w = [k \in 0..n |->
            IF k = 0 THEN b.table[Hash[pid]]
            ELSE IF w[k - 1] \in DOMAIN b.storage THEN b.storage[w[k - 1]].next
            ELSE NoIndex]

LEMMA WalkExists ==
    ASSUME NEW b, NEW pid, NEW n \in Nat
    PROVE  \E w : IsWalk(w, b, pid, n)
<1> DEFINE Bad == {m \in Nat : ~\E w : IsWalk(w, b, pid, m)}
<1>1. ASSUME Bad # {}
      PROVE  FALSE
  <2>0. Bad \subseteq Nat
    OBVIOUS
  <2>1. PICK m \in Bad : \A k \in Bad : m <= k
    BY ONLY <1>1, <2>0, LeastNat
  <2>2. m \in Nat /\ ~\E w : IsWalk(w, b, pid, m)
    BY <2>1
  <2>3. CASE m = 0
    <3>1. IsWalk([k \in 0..0 |-> b.table[Hash[pid]]], b, pid, 0)
      BY DEF IsWalk
    <3> QED
      BY <2>2, <2>3, <3>1
  <2>4. CASE m # 0
    <3>1. m - 1 \in Nat /\ m - 1 \notin Bad
      BY <2>1, <2>2, <2>4
    <3>2. PICK w : IsWalk(w, b, pid, m - 1)
      BY <3>1
    <3> DEFINE last == IF w[m - 1] \in DOMAIN b.storage THEN b.storage[w[m - 1]].next
                       ELSE NoIndex
               u == [k \in 0..m |-> IF k = m THEN last ELSE w[k]]
    <3>3. IsWalk(u, b, pid, m)
      <4>1. \A k \in 0..(m - 1) : w[k] =
              IF k = 0 THEN b.table[Hash[pid]]
              ELSE IF w[k - 1] \in DOMAIN b.storage THEN b.storage[w[k - 1]].next
              ELSE NoIndex
        BY <3>2 DEF IsWalk
      <4>2. \A k \in 0..m : u[k] =
              IF k = 0 THEN b.table[Hash[pid]]
              ELSE IF u[k - 1] \in DOMAIN b.storage THEN b.storage[u[k - 1]].next
              ELSE NoIndex
        BY <2>2, <2>4, <4>1
      <4> QED
        BY <4>2 DEF IsWalk
    <3> QED
      BY <2>2, <3>3
  <2> QED
    BY <2>3, <2>4
<1> QED
  BY <1>1

LEMMA WalkSteps ==
    ASSUME NEW b, NEW pid, b.nalloc \in Nat
    PROVE  /\ Walk(b, pid)[0] = b.table[Hash[pid]]
           /\ \A k \in 1..b.nalloc :
                Walk(b, pid)[k] = IF Walk(b, pid)[k - 1] \in DOMAIN b.storage
                                  THEN b.storage[Walk(b, pid)[k - 1]].next ELSE NoIndex
<1>1. PICK w : w = CHOOSE u : u = [k \in 0..b.nalloc |->
            IF k = 0 THEN b.table[Hash[pid]]
            ELSE IF u[k - 1] \in DOMAIN b.storage THEN b.storage[u[k - 1]].next
            ELSE NoIndex]
  OBVIOUS
<1>2. \E u : u = [k \in 0..b.nalloc |->
            IF k = 0 THEN b.table[Hash[pid]]
            ELSE IF u[k - 1] \in DOMAIN b.storage THEN b.storage[u[k - 1]].next
            ELSE NoIndex]
  <2>1. PICK u : IsWalk(u, b, pid, b.nalloc)
    BY WalkExists
  <2> QED
    BY <2>1, Zenon DEF IsWalk
<1>3. IsWalk(w, b, pid, b.nalloc)
  BY <1>1, <1>2, Zenon DEF IsWalk
<1>4. Walk(b, pid) = w
  BY <1>1, Zenon DEF Walk
<1>5. \A k \in 0..b.nalloc : w[k] =
            IF k = 0 THEN b.table[Hash[pid]]
            ELSE IF w[k - 1] \in DOMAIN b.storage THEN b.storage[w[k - 1]].next
            ELSE NoIndex
  BY <1>3 DEF IsWalk
<1> QED
  BY <1>4, <1>5

LEMMA LiveInBuffer ==
    ASSUME NEW b, WellFormed(b)
    PROVE  /\ b.nalloc \in Nat /\ b.head \in 0..b.nalloc /\ b.npid \in Int
           /\ DOMAIN b.storage = 0..(b.nalloc - 1)
           /\ \A i \in Live(b) : /\ i \in 0..(b.nalloc - 1) /\ i # NoIndex
                                 /\ b.storage[i].pid \in Pids
                                 /\ Hash[b.storage[i].pid] \in Buckets
           /\ \A i \in Live(b) : Position(b, i) \in 0..(b.nalloc - 1)
<1>1. /\ b.nalloc \in Nat /\ b.head \in 0..b.nalloc /\ b.npid \in Int
      /\ DOMAIN b.storage = 0..(b.nalloc - 1)
      /\ \A i \in DOMAIN b.storage : b.storage[i] \in Cell
  BY SizesAssumption DEF WellFormed
<1>2. \A i \in Live(b) : /\ i \in 0..(b.nalloc - 1) /\ i # NoIndex
                         /\ b.storage[i].pid \in Pids
                         /\ Hash[b.storage[i].pid] \in Buckets
  BY <1>1, HashAssumption DEF Live, Cell
<1>3. \A i \in Live(b) : Position(b, i) \in 0..(b.nalloc - 1)
  BY <1>1, <1>2 DEF Position
<1> QED
  BY <1>1, <1>2, <1>3

(* The walk stays on live cells of its bucket, which get older.            *)
LEMMA WalkIsLive ==
    ASSUME NEW b, Sound(b), NEW pid \in Pids, NEW k \in 0..b.nalloc
    PROVE  Walk(b, pid)[k] # NoIndex =>
             /\ Walk(b, pid)[k] \in Live(b)
             /\ Hash[b.storage[Walk(b, pid)[k]].pid] = Hash[pid]
             /\ Position(b, Walk(b, pid)[k]) <= b.nalloc - 1 - k
<1> DEFINE w == Walk(b, pid)
           Good(m) == w[m] # NoIndex =>
                        /\ w[m] \in Live(b) /\ Hash[b.storage[w[m]].pid] = Hash[pid]
                        /\ Position(b, w[m]) <= b.nalloc - 1 - m
           Bad == {m \in 0..b.nalloc : ~Good(m)}
<1>1. /\ b.nalloc \in Nat
      /\ \A i \in Live(b) : Position(b, i) \in 0..(b.nalloc - 1)
      /\ \A i \in Live(b) : i # NoIndex /\ i \in DOMAIN b.storage
  BY LiveInBuffer DEF Sound, Live
<1>2. /\ w[0] = b.table[Hash[pid]]
      /\ \A m \in 1..b.nalloc : w[m] = IF w[m - 1] \in DOMAIN b.storage
                                       THEN b.storage[w[m - 1]].next ELSE NoIndex
  BY <1>1, WalkSteps
<1> HIDE DEF w
<1>3. Good(0)
  <2>1. Hash[pid] \in Buckets
    BY HashAssumption
  <2>2. w[0] # NoIndex => w[0] \in Live(b) /\ Hash[b.storage[w[0]].pid] = Hash[pid]
    BY <1>2, <2>1 DEF Sound, Linked, TableLinked
  <2> QED
    BY <1>1, <2>2
<1>4. ASSUME Bad # {}
      PROVE  FALSE
  <2>0. Bad \subseteq Nat
    BY <1>1
  <2>1. PICK m \in Bad : \A j \in Bad : m <= j
    BY ONLY <1>4, <2>0, LeastNat
  <2>2. m \in 1..b.nalloc /\ ~Good(m)
    BY <1>1, <1>3, <2>1
  <2>3. Good(m - 1)
    BY <1>1, <2>1, <2>2
  <2>4. w[m] # NoIndex
    BY <2>2
  <2>5. w[m - 1] \in DOMAIN b.storage /\ w[m] = b.storage[w[m - 1]].next
    BY <1>2, <2>2, <2>4
  <2>6. w[m - 1] # NoIndex
    BY <2>5, LiveInBuffer DEF Sound
  <2>7. /\ w[m - 1] \in Live(b) /\ Hash[b.storage[w[m - 1]].pid] = Hash[pid]
        /\ Position(b, w[m - 1]) <= b.nalloc - 1 - (m - 1)
    BY <2>3, <2>6
  <2>8. /\ w[m] \in Live(b) /\ Hash[b.storage[w[m]].pid] = Hash[pid]
        /\ Position(b, w[m]) < Position(b, w[m - 1])
    BY <2>4, <2>5, <2>7 DEF Sound, Linked, NextLinked, NewestFirst
  <2>9. Position(b, w[m]) <= b.nalloc - 1 - m
    BY <1>1, <2>2, <2>7, <2>8
  <2> QED
    BY <2>2, <2>8, <2>9
<1>5. Good(k)
  BY <1>4
<1> QED
  BY <1>5 DEF w

(* It does not come back to its first cell. *)
LEMMA WalkNeverLoops ==
    ASSUME NEW b, Sound(b), NEW pid \in Pids, NEW k \in 0..b.nalloc,
           Walk(b, pid)[k] \in DOMAIN b.storage
    PROVE  b.storage[Walk(b, pid)[k]].next # Walk(b, pid)[0]
<1> DEFINE w == Walk(b, pid)
<1>1. b.nalloc \in Nat /\ NoIndex \notin DOMAIN b.storage
  BY LiveInBuffer DEF Sound
<1>2. w[k] \in Live(b) /\ w[k] # NoIndex
  BY <1>1, WalkIsLive
<1>3. /\ w[0] = b.table[Hash[pid]] /\ Hash[pid] \in Buckets
      /\ \A m \in 1..b.nalloc : w[m - 1] = NoIndex => w[m] = NoIndex
  BY <1>1, WalkSteps, HashAssumption
<1> HIDE DEF w
<1>4. w[0] # NoIndex
  <2> DEFINE Some == {m \in 0..b.nalloc : w[m] # NoIndex}
  <2>1. Some \subseteq Nat /\ Some # {}
    BY <1>1, <1>2
  <2>2. PICK m \in Some : \A j \in Some : m <= j
    BY ONLY <2>1, LeastNat
  <2>3. m \in 0..b.nalloc /\ w[m] # NoIndex
    BY <2>2
  <2>4. m # 0 => m - 1 \in 0..b.nalloc /\ m - 1 \notin Some /\ m \in 1..b.nalloc
    BY <1>1, <2>2, <2>3
  <2> QED
    BY <1>3, <2>3, <2>4
<1>5. b.storage[w[0]].prev = NoIndex
  BY <1>3, <1>4 DEF Sound, Linked, TableLinked
<1>6. b.storage[w[k]].next # NoIndex => b.storage[b.storage[w[k]].next].prev = w[k]
  BY <1>2 DEF Sound, Linked, NextLinked
<1> QED
  BY <1>2, <1>4, <1>5, <1>6 DEF w

(* It reaches every live cell of its bucket: the newest cell it missed     *)
(* would follow one that it met.                                           *)
LEMMA WalkReaches ==
    ASSUME NEW b, Sound(b), NEW pid \in Pids, NEW i \in Live(b),
           Hash[b.storage[i].pid] = Hash[pid]
    PROVE  \E k \in 0..b.nalloc : Walk(b, pid)[k] = i
<1> DEFINE w == Walk(b, pid)
           Met(j) == \E k \in 0..b.nalloc : w[k] = j
           Missed == {j \in Live(b) : Hash[b.storage[j].pid] = Hash[pid] /\ ~Met(j)}
           Age(j) == b.nalloc - Position(b, j)
           Ages == {Age(j) : j \in Missed}
<1>1. /\ b.nalloc \in Nat
      /\ \A j \in Live(b) : /\ Position(b, j) \in 0..(b.nalloc - 1)
                             /\ j # NoIndex /\ j \in DOMAIN b.storage
                             /\ Hash[b.storage[j].pid] \in Buckets
  BY LiveInBuffer DEF Sound, Live
<1>2. /\ w[0] = b.table[Hash[pid]]
      /\ \A m \in 1..b.nalloc : w[m] = IF w[m - 1] \in DOMAIN b.storage
                                       THEN b.storage[w[m - 1]].next ELSE NoIndex
  BY <1>1, WalkSteps
<1>3. \A k \in 0..b.nalloc : w[k] # NoIndex => Position(b, w[k]) <= b.nalloc - 1 - k
  BY WalkIsLive
<1> HIDE DEF w
<1>4. SUFFICES ASSUME i \in Missed
               PROVE  FALSE
  BY DEF w
<1>5. Ages \subseteq Nat /\ Ages # {}
  BY <1>1, <1>4
<1>6. PICK j \in Missed : \A l \in Missed : Age(j) <= Age(l)
  <2>1. PICK a \in Ages : \A c \in Ages : a <= c
    BY ONLY <1>5, LeastNat
  <2> QED
    BY <2>1
<1>7. j \in Live(b) /\ Hash[b.storage[j].pid] = Hash[pid] /\ ~Met(j)
  BY <1>6
<1>8. CASE b.storage[j].prev = NoIndex
  <2>1. b.table[Hash[pid]] = j
    BY <1>7, <1>8 DEF Sound, Linked, PrevLinked
  <2> QED
    BY <1>1, <1>2, <1>7, <2>1
<1>9. CASE b.storage[j].prev # NoIndex
  <2> DEFINE p == b.storage[j].prev
  <2>1. p \in Live(b) /\ b.storage[p].next = j
    BY <1>7, <1>9 DEF Sound, Linked, PrevLinked
  <2>2. /\ Hash[b.storage[p].pid] = Hash[pid] /\ Position(b, j) < Position(b, p)
    BY <1>1, <1>7, <2>1 DEF Sound, Linked, NextLinked, NewestFirst
  <2>3. Age(p) < Age(j)
    BY <1>1, <1>7, <2>1, <2>2
  <2>4. Met(p)
    <3>1. p \notin Missed
      BY <1>1, <1>6, <1>7, <2>1, <2>3
    <3> QED
      BY <2>1, <2>2, <3>1
  <2>5. PICK k \in 0..b.nalloc : w[k] = p
    BY <2>4
  <2>6. k + 1 \in 1..b.nalloc
    <3>1. Position(b, p) <= b.nalloc - 1 - k /\ 0 <= Position(b, p)
      BY <1>1, <1>3, <2>1, <2>5
    <3>2. Position(b, p) \in Int
      BY <1>1, <2>1
    <3> QED
      BY <1>1, <2>5, <3>1, <3>2
  <2>7. w[k + 1] = j
    BY <1>1, <1>2, <2>1, <2>5, <2>6
  <2> QED
    BY <1>7, <2>6, <2>7
<1> QED
  BY <1>8, <1>9

-----------------------------------------------------------------------------
(* What bgp_search and bgp_delete find.                                    *)
Cells(b, pid) == {i \in Live(b) : b.storage[i].pid = pid}

(* A pid has one cell, whose status is one that was saved, and npid is at  *)
(* least the number of live cells: cells that were overwritten count too.  *)
OneCell(b) == \A i, j \in Live(b) : b.storage[i].pid = b.storage[j].pid => i = j
StatusesSaved(b) == \A i \in Live(b) : b.storage[i].status \in Statuses
Counted(b) == Cardinality(Live(b)) <= b.npid

Contents(b) == OneCell(b) /\ StatusesSaved(b) /\ Counted(b)

LEMMA LiveFinite ==
    ASSUME NEW b, WellFormed(b)
    PROVE  /\ IsFiniteSet(Live(b)) /\ Cardinality(Live(b)) \in Nat
           /\ Cardinality(Live(b)) = 0 <=> Live(b) = {}
<1>1. b.nalloc \in Nat /\ Live(b) \subseteq 0..(b.nalloc - 1)
  BY LiveInBuffer
<1>2. IsFiniteSet(0..(b.nalloc - 1))
  BY <1>1, FS_Interval
<1>3. IsFiniteSet(Live(b))
  BY <1>1, <1>2, FS_Subset
<1> QED
  BY <1>3, FS_CardinalityType, FS_EmptySet

LEMMA NoCellsYet ==
    ASSUME NEW b, WellFormed(b), b.nalloc = 0
    PROVE  Live(b) = {}
BY LiveInBuffer

LEMMA FindExact ==
    ASSUME NEW b, Inv(b), Contents(b), NEW pid \in Pids
    PROVE  /\ Find(b, pid) = NoIndex <=> Cells(b, pid) = {}
           /\ Find(b, pid) # NoIndex => Cells(b, pid) = {Find(b, pid)}
<1> DEFINE w == Walk(b, pid)
           hits == {k \in 0..b.nalloc : w[k] \in DOMAIN b.storage
                                         /\ b.storage[w[k]].pid = pid}
           loops == {k \in 0..b.nalloc : w[k] \in DOMAIN b.storage
                                          /\ b.storage[w[k]].next = w[0]}
           found == {w[k] : k \in {n \in hits :
                           \A m \in 0..(n - 1) : m \notin hits /\ m \notin loops}}
<1>0. /\ WellFormed(b) /\ b.nalloc \in Nat /\ b.npid \in Int /\ NoIndex \notin DOMAIN b.storage
      /\ \A i \in Live(b) : i # NoIndex /\ i \in DOMAIN b.storage
  BY LiveInBuffer DEF Inv, Live
<1>1. \A k \in hits : w[k] \in Cells(b, pid)
  BY PidsAssumption DEF Cells, Live
<1>2. found \subseteq Cells(b, pid)
  BY <1>1
<1>3. \A i, j \in Cells(b, pid) : i = j
  BY DEF Contents, OneCell, Cells
<1>4. ASSUME NEW i \in Cells(b, pid)
      PROVE  b.nalloc # 0 /\ b.npid # 0 /\ i \in found
  <2>1. i \in Live(b) /\ b.storage[i].pid = pid
    BY DEF Cells
  <2>2. b.nalloc # 0
    BY <1>0, <2>1, NoCellsYet
  <2>3. b.npid # 0
    <3>1. Cardinality(Live(b)) \in Nat /\ Cardinality(Live(b)) # 0
      BY <1>0, <2>1, LiveFinite
    <3> QED
      BY <1>0, <3>1 DEF Contents, Counted
  <2>4. Sound(b)
    BY <2>2 DEF Inv, Sound
  <2>5. loops = {}
    BY <2>4, WalkNeverLoops
  <2>6. PICK k \in 0..b.nalloc : w[k] = i
    BY <2>1, <2>4, WalkReaches
  <2> HIDE DEF w, loops
  <2>7. hits # {} /\ hits \subseteq Nat
    BY <1>0, <2>1, <2>6
  <2>8. PICK n \in hits : \A m \in hits : n <= m
    BY ONLY <2>7, LeastNat
  <2>9. \A m \in 0..(n - 1) : m \notin hits /\ m \notin loops
    BY <1>0, <2>5, <2>8
  <2>10. w[n] \in found
    BY <2>9
  <2> QED
    BY <1>2, <1>3, <2>2, <2>3, <2>10
<1>5. Find(b, pid) = IF b.nalloc = 0 \/ b.npid = 0 \/ found = {} THEN NoIndex
                     ELSE CHOOSE i \in found : TRUE
  BY DEF Find
<1> HIDE DEF found, hits, loops, w
<1>6. CASE Cells(b, pid) = {}
  BY <1>2, <1>5, <1>6
<1>7. CASE Cells(b, pid) # {}
  <2>1. PICK i \in Cells(b, pid) : TRUE
    BY <1>7
  <2>2. Cells(b, pid) = {i} /\ found = {i} /\ i # NoIndex
    BY <1>0, <1>2, <1>3, <1>4 DEF Cells
  <2>3. Find(b, pid) = CHOOSE j \in found : TRUE
    BY <1>4, <1>5, <2>1, <2>2
  <2>4. Find(b, pid) \in found
    BY <2>2, <2>3, Zenon
  <2> QED
    BY <2>2, <2>4
<1> QED
  BY <1>6, <1>7

-----------------------------------------------------------------------------
(* What the operations do to the cells.                                    *)
SameCell(b, u, j) == /\ u.storage[j].pid = b.storage[j].pid
                     /\ u.storage[j].status = b.storage[j].status

LEMMA UnlinkCells ==
    ASSUME NEW b, Sound(b), NEW i \in 0..(b.nalloc - 1)
    PROVE  LET u == Unlink(b, i)
           IN  /\ Live(u) = Live(b) \ {i} /\ u.npid = b.npid
               /\ \A j \in Live(u) : SameCell(b, u, j)
<1> DEFINE c == b.storage[i]
           u == Unlink(b, i)
<1>0. DOMAIN b.storage = 0..(b.nalloc - 1)
  BY LiveInBuffer DEF Sound
<1>1. CASE c.pid = NoPid
  <2>1. u = b /\ i \notin Live(b)
    BY <1>1 DEF Unlink, Live
  <2> QED
    BY <2>1 DEF SameCell
<1>2. CASE c.pid # NoPid
  <2>1. u.npid = b.npid
    BY <1>2 DEF Unlink, Buffer
  <2>2. u.storage = [j \in 0..(b.nalloc - 1) |->
            IF j = i THEN CellOf(NoPid, c.status, NoIndex, NoIndex)
            ELSE CellOf(b.storage[j].pid, b.storage[j].status,
                        IF j = c.prev THEN c.next ELSE b.storage[j].next,
                        IF j = c.next THEN c.prev ELSE b.storage[j].prev)]
    BY <1>0, <1>2 DEF Unlink, Buffer
  <2> HIDE DEF u, c
  <2>3. /\ \A j \in 0..(b.nalloc - 1) : j # i => SameCell(b, u, j)
        /\ u.storage[i].pid = NoPid /\ DOMAIN u.storage = 0..(b.nalloc - 1)
    BY <2>2 DEF CellOf, SameCell
  <2>4. \A j : j \in Live(u) <=> j \in Live(b) /\ j # i
    BY <1>0, <2>3 DEF Live, SameCell
  <2> QED
    BY <1>0, <2>1, <2>3, <2>4 DEF Live, u
<1> QED
  BY <1>1, <1>2

LEMMA ResizeCells ==
    ASSUME NEW b, Inv(b), LimitOK
    PROVE  LET r == Resize(b)
           IN  /\ Live(r) = Live(b) /\ r.npid = b.npid
               /\ \A j \in Live(b) : SameCell(b, r, j)
<1> DEFINE r == Resize(b)
           nsize == Grown(IF b.nalloc = 0 THEN TableSize ELSE b.nalloc, Goal)
<1>0. /\ b.nalloc \in Nat /\ DOMAIN b.storage = 0..(b.nalloc - 1) /\ WellFormed(b)
      /\ b.nalloc <= MaxChildMax /\ MaxChildMax \in Nat
  BY LiveInBuffer, SizesAssumption DEF Inv, WellFormed
<1>1. r.npid = b.npid
  BY DEF Resize, Buffer
<1>2. CASE b.nalloc < Goal /\ b.nalloc < MaxChildMax
  <2>1. r.storage = Enlarged(b, nsize)
    BY <1>2 DEF Resize, Buffer
  <2>2. nsize \in Nat /\ b.nalloc <= nsize
    <3>1. Goal \in Int
      BY GoalPositive
    <3>2. CASE b.nalloc = 0
      BY <1>0, <3>1, <3>2, GrownSize, SizesAssumption
    <3>3. CASE b.nalloc # 0
      <4>1. b.nalloc \in 1..MaxChildMax
        BY <1>0, <3>3
      <4>2. Grown(b.nalloc, Goal) \in b.nalloc..MaxChildMax
        BY <3>1, <4>1, GrownSize
      <4>3. nsize = Grown(b.nalloc, Goal)
        BY <3>3
      <4> QED
        BY <1>0, <4>2, <4>3
    <3> QED
      BY <3>2, <3>3
  <2> HIDE DEF nsize, r
  <2>3. BlankCell.pid = NoPid
    BY DEF BlankCell, CellOf
  <2>4. /\ DOMAIN r.storage = 0..(nsize - 1)
        /\ \A j \in 0..(nsize - 1) :
             r.storage[j] = IF j < b.nalloc THEN b.storage[j] ELSE BlankCell
    BY <2>1, <2>2 DEF Enlarged
  <2>5. \A j : j \in Live(r) <=> j \in Live(b)
    BY <1>0, <2>2, <2>3, <2>4 DEF Live
  <2>6. \A j \in Live(b) : SameCell(b, r, j)
    BY <1>0, <2>2, <2>4 DEF Live, SameCell
  <2> QED
    BY <1>1, <2>5, <2>6 DEF r
<1>3. CASE ~(b.nalloc < Goal /\ b.nalloc < MaxChildMax)
  <2>1. r.storage = b.storage
    BY <1>3 DEF Resize, Buffer
  <2> HIDE DEF r
  <2>2. Live(r) = Live(b)
    BY <2>1 DEF Live
  <2> QED
    BY <1>1, <2>1, <2>2 DEF SameCell, r
<1> QED
  BY <1>2, <1>3

LEMMA ReadyCells ==
    ASSUME NEW b, Inv(b), LimitOK
    PROVE  LET r == ReadyForNext(b)
           IN  /\ Live(r) = Live(b) \ {r.head} /\ r.npid = b.npid
               /\ \A j \in Live(r) : SameCell(b, r, j)
<1> DEFINE e == IF b.nalloc < childmax \/ b.head >= b.nalloc THEN Resize(b) ELSE b
           r == ReadyForNext(b)
<1>0. b.nalloc \in Nat /\ b.head \in 0..b.nalloc
  BY LiveInBuffer DEF Inv
<1>1. Live(e) = Live(b) /\ e.npid = b.npid /\ \A j \in Live(b) : SameCell(b, e, j)
  <2>1. CASE b.nalloc < childmax \/ b.head >= b.nalloc
    BY <2>1, ResizeCells
  <2>2. CASE ~(b.nalloc < childmax \/ b.head >= b.nalloc)
    BY <2>2 DEF SameCell
  <2> QED
    BY <2>1, <2>2
<1>2. Sound(e) /\ e.head < e.nalloc
  <2>1. CASE b.nalloc < childmax \/ b.head >= b.nalloc
    BY <2>1, AllocateSound, GrowSound, WrapSound
  <2>2. CASE ~(b.nalloc < childmax \/ b.head >= b.nalloc)
    BY <1>0, <2>2 DEF Sound, Inv, LimitOK
  <2> QED
    BY <2>1, <2>2
<1>3. e.head \in 0..(e.nalloc - 1)
  BY <1>2, LiveInBuffer DEF Sound
<1>4. r = Unlink(e, e.head)
  BY DEF ReadyForNext
<1> HIDE DEF e, r
<1>5. /\ Live(r) = Live(e) \ {e.head} /\ r.npid = e.npid /\ r.head = e.head
      /\ \A j \in Live(r) : SameCell(e, r, j)
  BY <1>2, <1>3, <1>4, UnlinkCells, UnlinkSound
<1> QED
  BY <1>1, <1>5 DEF SameCell, r

LEMMA FillCells ==
    ASSUME NEW r, Ready(r), NEW pid \in Pids, NEW status \in Statuses
    PROVE  LET f == Fill(r, pid, status)
           IN  /\ Live(f) = Live(r) \cup {r.head} /\ f.npid = r.npid + 1
               /\ f.head = r.head + 1 /\ f.nalloc = r.nalloc
               /\ f.storage[r.head].pid = pid /\ f.storage[r.head].status = status
               /\ \A j \in Live(r) : j # r.head /\ SameCell(r, f, j)
<1> DEFINE psi == r.head
           first == r.table[Hash[pid]]
           f == Fill(r, pid, status)
<1>1. /\ psi \in 0..(r.nalloc - 1) /\ DOMAIN r.storage = 0..(r.nalloc - 1)
      /\ psi \notin Live(r)
  BY LiveInBuffer DEF Ready, Sound, Live
<1>2. f.npid = r.npid + 1 /\ f.head = psi + 1 /\ f.nalloc = r.nalloc
  BY DEF Fill, Buffer
<1>3. f.storage = [j \in 0..(r.nalloc - 1) |->
            IF j = psi THEN CellOf(pid, status, first, NoIndex)
            ELSE IF j = first
                 THEN CellOf(r.storage[j].pid, r.storage[j].status, r.storage[j].next, psi)
            ELSE r.storage[j]]
  BY <1>1 DEF Fill, Buffer
<1> HIDE DEF f, first
<1>4. /\ DOMAIN f.storage = 0..(r.nalloc - 1)
      /\ f.storage[psi].pid = pid /\ f.storage[psi].status = status
      /\ \A j \in 0..(r.nalloc - 1) : j # psi => SameCell(r, f, j)
  BY <1>1, <1>3 DEF CellOf, SameCell
<1>5. \A j : j \in Live(f) <=> j \in Live(r) \/ j = psi
  <2>1. pid # NoPid
    BY PidsAssumption
  <2> QED
    BY <1>1, <1>4, <2>1 DEF Live, SameCell
<1>6. \A j \in Live(r) : j \in 0..(r.nalloc - 1) /\ j # psi
  BY <1>1 DEF Live
<1> QED
  BY <1>2, <1>4, <1>5, <1>6 DEF f

(* bgp_add takes one cell, whatever it held. *)
LEMMA AddCells ==
    ASSUME NEW b, Inv(b), LimitOK, NEW pid \in Pids, NEW status \in Statuses
    PROVE  LET a == AddPid(b, pid, status)
               psi == ReadyForNext(b).head
           IN  /\ Live(a) = Live(b) \cup {psi} /\ a.npid = b.npid + 1
               /\ a.head = psi + 1 /\ a.nalloc = ReadyForNext(b).nalloc
               /\ a.storage[psi].pid = pid /\ a.storage[psi].status = status
               /\ \A j \in Live(b) \ {psi} : SameCell(b, a, j)
<1> DEFINE a == AddPid(b, pid, status)
           r == ReadyForNext(b)
<1>1. Ready(r)
  BY ReadyForNextReady
<1>2. a = Fill(r, pid, status)
  BY <1>1, ReadyHeadsNoChain DEF AddPid
<1>3. /\ Live(r) = Live(b) \ {r.head} /\ r.npid = b.npid
      /\ \A j \in Live(r) : SameCell(b, r, j)
  BY ReadyCells
<1> HIDE DEF a, r
<1>4. /\ Live(a) = Live(r) \cup {r.head} /\ a.npid = r.npid + 1
      /\ a.head = r.head + 1 /\ a.nalloc = r.nalloc
      /\ a.storage[r.head].pid = pid /\ a.storage[r.head].status = status
      /\ \A j \in Live(r) : j # r.head /\ SameCell(r, a, j)
  BY <1>1, <1>2, FillCells
<1> QED
  BY <1>3, <1>4 DEF SameCell, a, r

LEMMA AddContents ==
    ASSUME NEW b, Inv(b), Contents(b), LimitOK, NEW pid \in Pids, NEW status \in Statuses,
           Cells(b, pid) = {}
    PROVE  LET a == AddPid(b, pid, status)
           IN  /\ Contents(a)
               /\ \A q \in Pids \ {pid} : Cells(a, q) \subseteq Cells(b, q)
<1> DEFINE psi == ReadyForNext(b).head
<1>1. PICK a : a = AddPid(b, pid, status)
  OBVIOUS
<1>2. /\ Live(a) = Live(b) \cup {psi} /\ a.npid = b.npid + 1
      /\ a.storage[psi].pid = pid /\ a.storage[psi].status = status
      /\ \A j \in Live(b) \ {psi} : SameCell(b, a, j)
  BY <1>1, AddCells
<1>3. WellFormed(b) /\ b.npid \in Int
  BY LiveInBuffer DEF Inv
<1> HIDE DEF psi
<1>4. \A j \in Live(b) : b.storage[j].pid # pid
  BY DEF Cells
<1>5. OneCell(a)
  BY <1>2, <1>4 DEF Contents, OneCell, SameCell
<1>6. StatusesSaved(a)
  BY <1>2 DEF Contents, StatusesSaved, SameCell
<1>7. Counted(a)
  <2>1. IsFiniteSet(Live(b)) /\ Cardinality(Live(b)) \in Nat
    BY <1>3, LiveFinite
  <2>2. Cardinality(Live(b) \cup {psi}) = Cardinality(Live(b))
        \/ Cardinality(Live(b) \cup {psi}) = Cardinality(Live(b)) + 1
    BY <2>1, FS_AddElement
  <2>3. Cardinality(Live(b)) <= b.npid
    BY DEF Contents, Counted
  <2> QED
    BY <1>2, <1>3, <2>1, <2>2, <2>3 DEF Counted
<1>8. \A q \in Pids \ {pid} : Cells(a, q) \subseteq Cells(b, q)
  BY <1>2 DEF Cells, SameCell
<1> QED
  BY <1>1, <1>5, <1>6, <1>7, <1>8 DEF Contents

(* bgp_delete frees the cell of its pid and no other. *)
LEMMA DeleteContents ==
    ASSUME NEW b, Inv(b), Contents(b), NEW pid \in Pids
    PROVE  LET d == DeletePid(b, pid)
           IN  /\ Contents(d) /\ Cells(d, pid) = {}
               /\ \A q \in Pids \ {pid} : Cells(d, q) = Cells(b, q)
               /\ d.nalloc = b.nalloc /\ d.head = b.head
<1> DEFINE i == Find(b, pid)
<1>0. WellFormed(b) /\ b.npid \in Int
  BY LiveInBuffer DEF Inv
<1>1. PICK d : d = DeletePid(b, pid)
  OBVIOUS
<1>2. CASE i = NoIndex
  <2>1. d = b
    BY <1>1, <1>2 DEF DeletePid
  <2>2. Cells(b, pid) = {}
    BY <1>2, FindExact
  <2> QED
    BY <1>1, <2>1, <2>2
<1>3. CASE i # NoIndex
  <2>1. Cells(b, pid) = {i}
    BY <1>3, FindExact
  <2>2. b.nalloc # 0 /\ i \in 0..(b.nalloc - 1) /\ Sound(b)
    BY <1>3, FindInBuffer DEF Sound, Inv
  <2>3. PICK u : u = Unlink(b, i)
    OBVIOUS
  <2> HIDE DEF i
  <2>4. d = Buffer(u.storage, u.nalloc, u.head, u.npid - 1, u.table)
    BY <1>1, <1>3, <2>3 DEF DeletePid, i
  <2>5. /\ Live(u) = Live(b) \ {i} /\ u.npid = b.npid
        /\ \A j \in Live(u) : SameCell(b, u, j)
        /\ u.nalloc = b.nalloc /\ u.head = b.head
    BY <2>2, <2>3, UnlinkCells, UnlinkSound
  <2>6. /\ d.storage = u.storage /\ d.npid = b.npid - 1
        /\ d.nalloc = b.nalloc /\ d.head = b.head
    BY <2>4, <2>5 DEF Buffer
  <2>7. Live(d) = Live(b) \ {i} /\ \A j \in Live(d) : SameCell(b, d, j)
    BY <2>5, <2>6 DEF Live, SameCell
  <2>8. Cells(d, pid) = {} /\ \A q \in Pids \ {pid} : Cells(d, q) = Cells(b, q)
    BY <2>1, <2>7 DEF Cells, SameCell
  <2>9. OneCell(d) /\ StatusesSaved(d)
    BY <2>7 DEF Contents, OneCell, StatusesSaved, SameCell
  <2>10. Counted(d)
    <3>1. i \in Live(b)
      BY <2>1 DEF Cells
    <3>2. IsFiniteSet(Live(b)) /\ Cardinality(Live(b)) \in Nat
      BY <1>0, LiveFinite
    <3>3. Cardinality(Live(b) \ {i}) = Cardinality(Live(b)) - 1
      BY <3>1, <3>2, FS_RemoveElement
    <3> QED
      BY <1>0, <2>6, <2>7, <3>2, <3>3 DEF Contents, Counted
  <2> QED
    BY <1>1, <2>6, <2>8, <2>9, <2>10 DEF Contents
<1> QED
  BY <1>2, <1>3

-----------------------------------------------------------------------------
(* SearchFindsAll and NoStaleStatus with what makes them inductive: a save *)
(* keeps one cell for a pid only because the child it is for has none, and *)
(* the early return of bgp_search on npid = 0 is harmless only because     *)
(* npid is never less than the number of live cells.                       *)
SavedInv ==
    /\ TableInv
    /\ Contents(bgpids)
    /\ \A pid \in children : Cells(bgpids, pid) = {}

LEMMA NothingStored ==
    ASSUME NEW table
    PROVE  /\ Live(NoStorage(table)) = {} /\ Contents(NoStorage(table))
           /\ NoStorage(table).nalloc = 0
           /\ \A pid : Cells(NoStorage(table), pid) = {}
<1>1. PICK b : b = NoStorage(table)
  OBVIOUS
<1>2. b.npid = 0 /\ b.nalloc = 0 /\ DOMAIN b.storage = {}
  BY <1>1 DEF NoStorage, Buffer
<1>3. Live(b) = {}
  BY <1>2 DEF Live
<1>4. Cardinality(Live(b)) = 0
  BY <1>3, FS_EmptySet
<1> QED
  BY <1>1, <1>2, <1>3, <1>4 DEF Contents, OneCell, StatusesSaved, Counted, Cells

LEMMA InitSavedInv == Init => SavedInv
BY InitTableInv, NothingStored DEF Init, SavedInv

LEMMA StepSavedInv == SavedInv /\ [Next]_vars => SavedInv'
<1> SUFFICES ASSUME SavedInv, [Next]_vars
             PROVE  SavedInv'
  OBVIOUS
<1>1. TableInv' /\ Inv(bgpids) /\ LimitOK /\ children \subseteq Pids
  BY StepTableInv, TableInvForm DEF SavedInv
<1>2. Contents(bgpids) /\ \A pid \in children : Cells(bgpids, pid) = {}
  BY DEF SavedInv
<1> SUFFICES Contents(bgpids') /\ \A pid \in children' : Cells(bgpids', pid) = {}
  BY <1>1 DEF SavedInv, Contents, OneCell, StatusesSaved, Counted, Cells, Live
<1>3. ASSUME NEW pid \in Pids, Fork(pid)
      PROVE  Contents(bgpids') /\ \A q \in children' : Cells(bgpids', q) = {}
  <2>1. bgpids' = DeletePid(bgpids, pid) /\ children' = children \cup {pid}
    BY <1>3 DEF Fork
  <2>2. /\ Contents(bgpids') /\ Cells(bgpids', pid) = {}
        /\ \A q \in Pids \ {pid} : Cells(bgpids', q) = Cells(bgpids, q)
    BY <1>1, <1>2, <2>1, DeleteContents
  <2> QED
    BY <1>1, <1>2, <2>1, <2>2
<1>4. ASSUME NEW pid \in Pids, NEW status \in Statuses, Save(pid, status)
      PROVE  Contents(bgpids') /\ \A q \in children' : Cells(bgpids', q) = {}
  <2>1. /\ pid \in children /\ children' = children \ {pid}
        /\ bgpids' = AddPid(bgpids, pid, status)
    BY <1>4 DEF Save
  <2>2. /\ Contents(bgpids')
        /\ \A q \in Pids \ {pid} : Cells(bgpids', q) \subseteq Cells(bgpids, q)
    BY <1>1, <1>2, <2>1, AddContents
  <2> QED
    BY <1>1, <1>2, <2>1, <2>2
<1>5. ASSUME NEW pid \in Pids, Discard(pid)
      PROVE  Contents(bgpids') /\ \A q \in children' : Cells(bgpids', q) = {}
  BY <1>2, <1>5 DEF Discard
<1>6. ASSUME NEW pid \in Pids, Forget(pid)
      PROVE  Contents(bgpids') /\ \A q \in children' : Cells(bgpids', q) = {}
  <2>1. bgpids' = DeletePid(bgpids, pid) /\ children' = children
    BY <1>6 DEF Forget
  <2>2. /\ Contents(bgpids') /\ Cells(bgpids', pid) = {}
        /\ \A q \in Pids \ {pid} : Cells(bgpids', q) = Cells(bgpids, q)
    BY <1>1, <1>2, <2>1, DeleteContents
  <2> QED
    BY <1>1, <1>2, <2>1, <2>2
<1>7. CASE Clear
  BY <1>7, NothingStored DEF Clear
<1>8. ASSUME NEW n \in Requests, SetMaxChild(n)
      PROVE  Contents(bgpids') /\ \A q \in children' : Cells(bgpids', q) = {}
  BY <1>2, <1>8 DEF SetMaxChild
<1>9. CASE UNCHANGED vars
  BY <1>2, <1>9 DEF vars
<1> QED
  BY <1>3, <1>4, <1>5, <1>6, <1>7, <1>8, <1>9 DEF Next

LEMMA SearchOfCells ==
    ASSUME NEW b, Inv(b), Contents(b), NEW pid \in Pids
    PROVE  Search(b, pid) = NoIndex <=> Cells(b, pid) = {}
<1>1. CASE Cells(b, pid) = {}
  BY <1>1, FindExact DEF Search
<1>2. CASE Cells(b, pid) # {}
  <2>1. Find(b, pid) # NoIndex /\ Find(b, pid) \in Cells(b, pid)
    BY <1>2, FindExact
  <2>2. b.storage[Find(b, pid)].status \in Statuses
    BY <2>1 DEF Cells, Contents, StatusesSaved
  <2> QED
    BY <1>2, <2>1, <2>2, StatusesAssumption DEF Search
<1> QED
  BY <1>1, <1>2

(* bgp_search and bgp_delete find the status of a pid exactly when one is  *)
(* saved: the search of its chain neither ends early nor goes round, and   *)
(* the counter npid, although it is not what its name says, never hides a  *)
(* status.                                                                 *)
THEOREM SearchIsExact == Spec => []SearchFindsAll
<1>1. SavedInv => SearchFindsAll
  <2> SUFFICES ASSUME SavedInv, NEW pid \in Pids
               PROVE  Cells(bgpids, pid) = IF Find(bgpids, pid) = NoIndex THEN {}
                                           ELSE {Find(bgpids, pid)}
    BY DEF SearchFindsAll, Cells
  <2>1. Inv(bgpids) /\ Contents(bgpids)
    BY TableInvForm DEF SavedInv
  <2> QED
    BY <2>1, FindExact
<1> QED
  BY <1>1, InitSavedInv, StepSavedInv, PTL DEF Spec

(* wait never reports for a process the status of an earlier one with its  *)
(* pid: make_child drops the saved status, and nothing saves one for a     *)
(* process before its job is deleted.                                      *)
THEOREM NoStatusIsStale == Spec => []NoStaleStatus
<1>1. SavedInv => NoStaleStatus
  BY TableInvForm, SearchOfCells DEF SavedInv, NoStaleStatus
<1> QED
  BY <1>1, InitSavedInv, StepSavedInv, PTL DEF Spec

-----------------------------------------------------------------------------
(* How far back a status is: while the limit stays, the buffer is as large *)
(* as the limit when it is first allocated and never grows again, and the  *)
(* status saved k saves ago is in the cell k cells before the newest.      *)
Placed(b, ages) ==
    \A pid \in Pids : ages[pid] # NotSaved /\ ages[pid] < b.nalloc =>
        \E i \in Cells(b, pid) : Position(b, i) = b.nalloc - 1 - ages[pid]

Roomy(b, ages, limit) == limit <= b.nalloc /\ Placed(b, ages)

Steady == settled /\ childmax \in 1..MaxChildMax /\ bgpids.nalloc # 0

HistoryInv ==
    /\ SavedInv
    /\ settled \in BOOLEAN
    /\ age \in [Pids -> Nat \cup {NotSaved}]
    /\ bgpids.nalloc = 0 => \A pid \in Pids : age[pid] = NotSaved
    /\ Steady => Roomy(bgpids, age, childmax)

(* The first save allocates a buffer as large as the limit. *)
LEMMA AllocateRoomy ==
    ASSUME NEW b, Inv(b), b.nalloc = 0, childmax \in 1..MaxChildMax
    PROVE  childmax <= ReadyForNext(b).nalloc
<1> DEFINE r == Resize(b)
           nsize == Grown(TableSize, childmax)
<1>1. Goal = childmax /\ 0 < childmax /\ childmax \in Int
  BY SizesAssumption DEF Goal
<1>2. childmax <= nsize
  BY <1>1, GrownSize, SizesAssumption
<1>3. r.nalloc = nsize
  BY <1>1, SizesAssumption DEF Resize, Buffer
<1>4. Sound(r) /\ r.head < r.nalloc
  BY <1>1, AllocateSound DEF LimitOK
<1>5. ReadyForNext(b) = Unlink(r, r.head)
  BY <1>1 DEF ReadyForNext
<1>6. r.head \in 0..(r.nalloc - 1)
  BY <1>4, LiveInBuffer DEF Sound
<1> HIDE DEF r, nsize
<1> QED
  BY <1>2, <1>3, <1>4, <1>5, <1>6, UnlinkSound

(* A buffer that is as large as the limit does not grow: a save takes the  *)
(* cell at head, or the first one when head is past the end.               *)
LEMMA RoomyStays ==
    ASSUME NEW b, Inv(b), b.nalloc # 0, childmax \in 1..MaxChildMax, childmax <= b.nalloc
    PROVE  LET r == ReadyForNext(b)
           IN  r.nalloc = b.nalloc /\ r.head = IF b.head >= b.nalloc THEN 0 ELSE b.head
<1> DEFINE e == IF b.nalloc < childmax \/ b.head >= b.nalloc THEN Resize(b) ELSE b
<1>0. b.nalloc \in Nat /\ b.head \in 0..b.nalloc /\ childmax \in Int /\ MaxChildMax \in Nat
  BY LiveInBuffer, SizesAssumption DEF Inv
<1>1. Goal = childmax
  BY <1>0 DEF Goal
<1>2. /\ e.nalloc = b.nalloc /\ e.head = IF b.head >= b.nalloc THEN 0 ELSE b.head
  BY <1>0, <1>1 DEF Resize, Buffer
<1>3. Sound(e)
  <2>1. CASE b.head >= b.nalloc
    BY <1>0, <1>1, <2>1, WrapSound DEF LimitOK
  <2>2. CASE ~(b.head >= b.nalloc)
    BY <1>0, <2>2 DEF Sound, Inv
  <2> QED
    BY <2>1, <2>2
<1>4. e.head \in 0..(e.nalloc - 1)
  BY <1>0, <1>2
<1>5. ReadyForNext(b) = Unlink(e, e.head)
  BY DEF ReadyForNext
<1> HIDE DEF e
<1> QED
  BY <1>2, <1>3, <1>4, <1>5, UnlinkSound

(* A save moves every other cell one step away from the newest, and takes  *)
(* the oldest.                                                             *)
LEMMA SavePlaced ==
    ASSUME NEW b, Inv(b), Contents(b), b.nalloc # 0,
           childmax \in 1..MaxChildMax, childmax <= b.nalloc,
           NEW pid \in Pids, NEW status \in Statuses,
           age \in [Pids -> Nat \cup {NotSaved}], Placed(b, age)
    PROVE  Roomy(AddPid(b, pid, status), [Older EXCEPT ![pid] = 0], childmax)
<1> DEFINE psi == ReadyForNext(b).head
           older == [Older EXCEPT ![pid] = 0]
<1>0. /\ b.nalloc \in 1..MaxChildMax /\ b.head \in 0..b.nalloc /\ MaxChildMax \in Nat
      /\ \A i \in Live(b) : i \in 0..(b.nalloc - 1)
  BY LiveInBuffer, SizesAssumption DEF Inv, WellFormed
<1>1. PICK a : a = AddPid(b, pid, status)
  OBVIOUS
<1>2. /\ psi = IF b.head >= b.nalloc THEN 0 ELSE b.head
      /\ ReadyForNext(b).nalloc = b.nalloc
  BY RoomyStays
<1>3. /\ Live(a) = Live(b) \cup {psi} /\ a.head = psi + 1 /\ a.nalloc = b.nalloc
      /\ a.storage[psi].pid = pid
      /\ \A j \in Live(b) \ {psi} : SameCell(b, a, j)
  BY <1>0, <1>1, <1>2, AddCells DEF LimitOK
<1> HIDE DEF psi
<1>4. Position(a, psi) = a.nalloc - 1 /\ psi \in Cells(a, pid)
  BY <1>0, <1>2, <1>3 DEF Position, Cells
<1>5. \A j \in Live(b) : IF j = psi THEN Position(b, j) = 0
                         ELSE Position(a, j) = Position(b, j) - 1
  BY <1>0, <1>2, <1>3 DEF Position
<1>6. /\ older[pid] = 0
      /\ \A q \in Pids \ {pid} :
            older[q] = IF age[q] = NotSaved \/ age[q] > MaxChildMax THEN age[q] ELSE age[q] + 1
  BY DEF Older
<1> HIDE DEF older
<1>7. ASSUME NEW q \in Pids, older[q] # NotSaved, older[q] < a.nalloc
      PROVE  \E i \in Cells(a, q) : Position(a, i) = a.nalloc - 1 - older[q]
  <2>1. CASE q = pid
    BY <1>0, <1>3, <1>4, <1>6, <2>1
  <2>2. CASE q # pid
    <3>1. age[q] \in Nat /\ age[q] # NotSaved /\ older[q] = age[q] + 1
      BY <1>0, <1>3, <1>6, <1>7, <2>2 DEF NotSaved
    <3>2. PICK i \in Cells(b, q) : Position(b, i) = b.nalloc - 1 - age[q]
      BY <1>0, <1>3, <1>7, <3>1 DEF Placed
    <3>3. i \in Live(b) /\ b.storage[i].pid = q
      BY <3>2 DEF Cells
    <3>4. Position(b, i) # 0
      BY <1>0, <1>3, <1>7, <3>1, <3>2
    <3>5. i # psi /\ Position(a, i) = Position(b, i) - 1
      BY <1>5, <3>3, <3>4
    <3>6. i \in Cells(a, q)
      BY <1>3, <3>3, <3>5 DEF Cells, SameCell
    <3> QED
      BY <1>0, <1>3, <3>1, <3>2, <3>5, <3>6
  <2> QED
    BY <2>1, <2>2
<1>8. Placed(a, older)
  BY <1>7 DEF Placed
<1> QED
  BY <1>1, <1>3, <1>8 DEF Roomy, older

LEMMA FirstSavePlaced ==
    ASSUME NEW b, Inv(b), b.nalloc = 0, childmax \in 1..MaxChildMax,
           NEW pid \in Pids, NEW status \in Statuses,
           age \in [Pids -> Nat \cup {NotSaved}], \A q \in Pids : age[q] = NotSaved
    PROVE  Roomy(AddPid(b, pid, status), [Older EXCEPT ![pid] = 0], childmax)
<1> DEFINE psi == ReadyForNext(b).head
           older == [Older EXCEPT ![pid] = 0]
<1>0. LimitOK
  BY SizesAssumption DEF LimitOK
<1>1. PICK a : a = AddPid(b, pid, status)
  OBVIOUS
<1>2. /\ Live(a) = Live(b) \cup {psi} /\ a.head = psi + 1
      /\ a.nalloc = ReadyForNext(b).nalloc /\ a.storage[psi].pid = pid
  BY <1>0, <1>1, AddCells
<1>3. childmax <= a.nalloc /\ psi \in 0..(a.nalloc - 1) /\ a.nalloc \in Nat
  BY <1>0, <1>2, AllocateRoomy, ReadyForNextReady, LiveInBuffer DEF Ready, Sound
<1> HIDE DEF psi
<1>4. Position(a, psi) = a.nalloc - 1 /\ psi \in Cells(a, pid)
  BY <1>2, <1>3 DEF Position, Cells
<1>5. older[pid] = 0 /\ \A q \in Pids \ {pid} : older[q] = NotSaved
  BY DEF Older
<1> HIDE DEF older
<1>6. Placed(a, older)
  BY <1>3, <1>4, <1>5 DEF Placed
<1> QED
  BY <1>1, <1>3, <1>6 DEF Roomy, older

LEMMA SaveHistory ==
    ASSUME HistoryInv, NEW pid \in Pids, NEW status \in Statuses, Save(pid, status),
           age' = [Older EXCEPT ![pid] = 0], settled' = settled
    PROVE  /\ age' \in [Pids -> Nat \cup {NotSaved}]
           /\ bgpids'.nalloc # 0
           /\ Steady' => Roomy(bgpids', age', childmax')
<1>1. /\ Inv(bgpids) /\ LimitOK /\ Contents(bgpids)
      /\ age \in [Pids -> Nat \cup {NotSaved}]
  BY TableInvForm DEF HistoryInv, SavedInv
<1>2. bgpids' = AddPid(bgpids, pid, status) /\ childmax' = childmax
  BY DEF Save
<1>3. age' \in [Pids -> Nat \cup {NotSaved}]
  <2>1. \A q \in Pids : Older[q] \in Nat \cup {NotSaved}
    BY <1>1, SizesAssumption DEF Older, NotSaved
  <2>2. DOMAIN Older = Pids
    BY DEF Older
  <2>3. \A q \in Pids : age'[q] \in Nat \cup {NotSaved}
    BY <2>1, <2>2
  <2>4. age' = [q \in Pids |-> age'[q]]
    BY <2>2
  <2> QED
    BY <2>3, <2>4
<1>4. bgpids'.nalloc # 0
  BY <1>1, <1>2, AddCells, ReadyForNextReady, LiveInBuffer DEF Ready, Sound
<1>5. ASSUME Steady'
      PROVE  Roomy(bgpids', age', childmax')
  <2>1. settled /\ childmax \in 1..MaxChildMax
    BY <1>2, <1>5 DEF Steady
  <2>2. CASE bgpids.nalloc = 0
    BY <1>1, <1>2, <2>1, <2>2, FirstSavePlaced DEF HistoryInv
  <2>3. CASE bgpids.nalloc # 0
    <3>1. childmax <= bgpids.nalloc /\ Placed(bgpids, age)
      BY <2>1, <2>3 DEF HistoryInv, Steady, Roomy
    <3> QED
      BY <1>1, <1>2, <2>1, <2>3, <3>1, SavePlaced
  <2> QED
    BY <2>2, <2>3
<1> QED
  BY <1>3, <1>4, <1>5

(* Forgetting a status moves no other. *)
LEMMA DeleteHistory ==
    ASSUME HistoryInv, NEW pid \in Pids, bgpids' = DeletePid(bgpids, pid),
           childmax' = childmax, age' = [age EXCEPT ![pid] = NotSaved], settled' = settled
    PROVE  /\ age' \in [Pids -> Nat \cup {NotSaved}]
           /\ bgpids'.nalloc = 0 => \A q \in Pids : age'[q] = NotSaved
           /\ Steady' => Roomy(bgpids', age', childmax')
<1>1. /\ Inv(bgpids) /\ Contents(bgpids)
      /\ age \in [Pids -> Nat \cup {NotSaved}]
  BY TableInvForm DEF HistoryInv, SavedInv
<1>2. /\ \A q \in Pids \ {pid} : Cells(bgpids', q) = Cells(bgpids, q)
      /\ bgpids'.nalloc = bgpids.nalloc /\ bgpids'.head = bgpids.head
  BY <1>1, DeleteContents
<1>3. /\ age' \in [Pids -> Nat \cup {NotSaved}] /\ age'[pid] = NotSaved
      /\ \A q \in Pids \ {pid} : age'[q] = age[q]
  BY <1>1
<1>4. ASSUME Steady'
      PROVE  Roomy(bgpids', age', childmax')
  <2>1. Roomy(bgpids, age, childmax)
    BY <1>2, <1>4 DEF HistoryInv, Steady
  <2>2. \A i : Position(bgpids', i) = Position(bgpids, i)
    BY <1>2 DEF Position
  <2>3. Placed(bgpids', age')
    BY <1>2, <1>3, <2>1, <2>2 DEF Placed, Roomy
  <2> QED
    BY <1>2, <2>1, <2>3 DEF Roomy
<1> QED
  BY <1>2, <1>3, <1>4 DEF HistoryInv

LEMMA InitHistoryInv == HistoryInit => HistoryInv
<1> SUFFICES ASSUME HistoryInit PROVE HistoryInv
  OBVIOUS
<1>1. SavedInv
  BY InitSavedInv DEF HistoryInit
<1>2. bgpids.nalloc = 0
  BY DEF HistoryInit, Init, NoStorage, Buffer
<1> QED
  BY <1>1, <1>2 DEF HistoryInit, HistoryInv, Steady

LEMMA StepHistoryInv == HistoryInv /\ [HistoryNext]_historyVars => HistoryInv'
<1> SUFFICES ASSUME HistoryInv, [HistoryNext]_historyVars
             PROVE  HistoryInv'
  OBVIOUS
<1>1. SavedInv'
  <2>1. [Next]_vars
    BY Zenon DEF HistoryNext, Next, historyVars
  <2> QED
    BY <2>1, StepSavedInv DEF HistoryInv
<1> DEFINE Rest == /\ settled' \in BOOLEAN
                   /\ age' \in [Pids -> Nat \cup {NotSaved}]
                   /\ bgpids'.nalloc = 0 => \A pid \in Pids : age'[pid] = NotSaved
                   /\ Steady' => Roomy(bgpids', age', childmax')
<1>2. SUFFICES Rest
  BY <1>1 DEF HistoryInv, Roomy, Placed, Cells, Live, Position
<1>3. ASSUME NEW pid \in Pids, Fork(pid) \/ Forget(pid),
             age' = [age EXCEPT ![pid] = NotSaved], settled' = settled
      PROVE  Rest
  <2>1. bgpids' = DeletePid(bgpids, pid) /\ childmax' = childmax
    BY <1>3 DEF Fork, Forget
  <2> QED
    BY <1>3, <2>1, DeleteHistory DEF HistoryInv
<1>4. ASSUME NEW pid \in Pids, NEW status \in Statuses, Save(pid, status),
             age' = [Older EXCEPT ![pid] = 0], settled' = settled
      PROVE  Rest
  BY <1>4, SaveHistory DEF HistoryInv
<1>5. ASSUME bgpids' = bgpids, childmax' = childmax, age' = age, settled' = settled
      PROVE  Rest
  BY <1>5 DEF HistoryInv, Steady
<1>6. ASSUME Clear, age' = [pid \in Pids |-> NotSaved], settled' = TRUE
      PROVE  Rest
  <2>1. bgpids'.nalloc = 0
    BY <1>6, NothingStored DEF Clear
  <2> QED
    BY <1>6, <2>1 DEF Steady
<1>7. ASSUME NEW n \in Requests, SetMaxChild(n), age' = StillSaved,
             settled' = (settled /\ (childmax' = childmax \/ bgpids.nalloc = 0))
      PROVE  Rest
  <2>1. bgpids' = bgpids
    BY <1>7 DEF SetMaxChild
  <2>2. \A pid \in Pids : age'[pid] = age[pid] \/ age'[pid] = NotSaved
    BY <1>7 DEF StillSaved
  <2>3. age' \in [Pids -> Nat \cup {NotSaved}]
    <3>1. age' = [pid \in Pids |-> age'[pid]]
      BY <1>7 DEF StillSaved
    <3> QED
      BY <2>2, <3>1 DEF HistoryInv
  <2>4. settled' \in BOOLEAN
    BY <1>7, Zenon
  <2>5. ASSUME Steady'
        PROVE  Roomy(bgpids', age', childmax')
    <3>1. childmax' = childmax /\ Steady
      BY <1>7, <2>1, <2>5 DEF Steady
    <3>2. Roomy(bgpids, age, childmax)
      BY <3>1 DEF HistoryInv
    <3> QED
      BY <2>1, <2>2, <3>1, <3>2 DEF Roomy, Placed
  <2> QED
    BY <2>1, <2>2, <2>3, <2>4, <2>5 DEF HistoryInv
<1> HIDE DEF Rest
<1>8. CASE HistoryNext
  <2>1. ASSUME NEW pid \in Pids, Discard(pid), UNCHANGED <<age, settled>>
        PROVE  Rest
    BY <1>5, <2>1 DEF Discard
  <2> QED
    BY <1>3, <1>4, <1>6, <1>7, <1>8, <2>1 DEF HistoryNext
<1>9. CASE UNCHANGED historyVars
  BY <1>5, <1>9 DEF historyVars, vars
<1> QED
  BY <1>8, <1>9

(* "The ordered list Posix requires": as long as CHILD_MAX stays what it   *)
(* was when the first status was saved, and is at most the cap, wait can   *)
(* report each of the last CHILD_MAX statuses, however the buffer wrapped  *)
(* around and whatever was forgotten in between.                           *)
THEOREM LastStatusesAreKept == HistorySpec => []KeepsLastStatuses
<1>1. HistoryInv => KeepsLastStatuses
  <2> SUFFICES ASSUME HistoryInv, settled, NEW pid \in Pids,
                      age[pid] # NotSaved, age[pid] < childmax, childmax <= MaxChildMax
               PROVE  Search(bgpids, pid) # NoIndex
    BY DEF KeepsLastStatuses, Keeps
  <2>1. Inv(bgpids) /\ LimitOK /\ Contents(bgpids)
    BY TableInvForm DEF HistoryInv, SavedInv
  <2>2. age[pid] \in Nat /\ bgpids.nalloc # 0
    BY DEF HistoryInv
  <2>3. childmax \in 1..MaxChildMax
    BY <2>1, <2>2, SizesAssumption DEF LimitOK
  <2>4. childmax <= bgpids.nalloc /\ Placed(bgpids, age)
    BY <2>2, <2>3 DEF HistoryInv, Steady, Roomy
  <2>5. bgpids.nalloc \in Nat
    BY <2>1, LiveInBuffer DEF Inv
  <2>6. Cells(bgpids, pid) # {}
    BY <2>2, <2>3, <2>4, <2>5 DEF Placed
  <2> QED
    BY <2>1, <2>6, SearchOfCells
<1> QED
  BY <1>1, InitHistoryInv, StepHistoryInv, PTL DEF HistorySpec
-----------------------------------------------------------------------------
(* The live cells in their order.                                          *)
Enumerates(e, n, b) ==
    /\ n \in Nat /\ e \in [1..n -> Live(b)]
    /\ \A i \in Live(b) : \E k \in 1..n : e[k] = i
    /\ \A j, k \in 1..n : j < k => Position(b, e[j]) < Position(b, e[k])

LEMMA OrderFound ==
    ASSUME NEW b, WellFormed(b), NEW e, NEW n, Enumerates(e, n, b)
    PROVE  InOrder(b) = e /\ Cardinality(Live(b)) = n
<1>0. /\ n \in Nat /\ e \in [1..n -> Live(b)]
      /\ \A i \in Live(b) : \E k \in 1..n : e[k] = i
      /\ \A j, k \in 1..n : j < k => Position(b, e[j]) < Position(b, e[k])
      /\ \A i \in Live(b) : Position(b, i) \in Int
  BY LiveInBuffer DEF Enumerates
<1>1. \A j, k \in 1..n : e[j] = e[k] => j = k
  BY <1>0
<1>2. ASSUME NEW k \in 0..n
      PROVE  Cardinality({e[m] : m \in 1..k}) = k
  <2> DEFINE S == {e[m] : m \in 1..k}
             f == [m \in 1..k |-> e[m]]
  <2>1. f \in [1..k -> S] /\ k \in Nat
    BY <1>0
  <2>2. \A x, y \in 1..k : f[x] = f[y] => x = y
    BY <1>0, <1>1
  <2>3. \A t \in S : \E m \in 1..k : f[m] = t
    OBVIOUS
  <2>4. ExistsBijection(1..k, S)
    <3> HIDE DEF f, S
    <3>1. f \in Injection(1..k, S) /\ f \in Surjection(1..k, S)
      BY <2>1, <2>2, <2>3 DEF Injection, Surjection, IsInjective
    <3> QED
      BY <3>1 DEF ExistsBijection, Bijection
  <2> HIDE DEF S
  <2>5. Cardinality(S) = k
    BY <2>1, <2>4, FS_CountingElements
  <2> QED
    BY <2>5 DEF S
<1>3. Cardinality(Live(b)) = n
  <2>1. Live(b) = {e[m] : m \in 1..n} /\ n \in 0..n
    BY <1>0
  <2> QED
    BY <1>2, <2>1, Zenon
<1>4. ASSUME NEW k \in 1..n
      PROVE  Cardinality(NotAfter(b, e[k])) = k
  <2>1. \A m \in 1..n : Position(b, e[m]) <= Position(b, e[k]) <=> m <= k
    BY <1>0
  <2>2. NotAfter(b, e[k]) = {e[m] : m \in 1..k}
    BY <1>0, <2>1 DEF NotAfter
  <2> QED
    BY <1>0, <1>2, <2>2
<1>5. ASSUME NEW k \in 1..n
      PROVE  (CHOOSE i \in Live(b) : Cardinality(NotAfter(b, i)) = k) = e[k]
  <2>1. e[k] \in Live(b) /\ Cardinality(NotAfter(b, e[k])) = k
    BY <1>0, <1>4
  <2>2. \A i \in Live(b) : Cardinality(NotAfter(b, i)) = k => i = e[k]
    BY <1>0, <1>4
  <2> QED
    BY <2>1, <2>2
<1>6. InOrder(b) = [k \in 1..n |-> CHOOSE i \in Live(b) : Cardinality(NotAfter(b, i)) = k]
  BY <1>3 DEF InOrder
<1>7. InOrder(b) = [k \in 1..n |-> e[k]]
  BY <1>5, <1>6
<1> QED
  BY <1>0, <1>3, <1>7

Entry(c) == [pid |-> c.pid, status |-> c.status]

LEMMA ListFound ==
    ASSUME NEW b, WellFormed(b), StatusesSaved(b), NEW e, NEW n, Enumerates(e, n, b)
    PROVE  /\ ListOf(b) = [k \in 1..n |-> Entry(b.storage[e[k]])]
           /\ ListOf(b) \in Seq([pid : Pids, status : Statuses]) /\ Len(ListOf(b)) = n
<1>0. n \in Nat /\ e \in [1..n -> Live(b)]
  BY DEF Enumerates
<1>1. InOrder(b) = e
  BY OrderFound
<1>2. ListOf(b) = [k \in 1..n |-> Entry(b.storage[e[k]])]
  BY <1>0, <1>1 DEF ListOf, Entry
<1>3. \A k \in 1..n : Entry(b.storage[e[k]]) \in [pid : Pids, status : Statuses]
  BY <1>0, LiveInBuffer DEF Entry, StatusesSaved
<1> QED
  BY <1>0, <1>2, <1>3

(* Cells that stay, in the same order.                                     *)
StillInOrder(b, u) ==
    \A i, j \in Live(b) \cap Live(u) :
        /\ SameCell(b, u, i)
        /\ Position(b, i) < Position(b, j) => Position(u, i) < Position(u, j)

LEMMA OneLess ==
    ASSUME NEW b, NEW u, NEW e, NEW n, Enumerates(e, n, b), StillInOrder(b, u),
           NEW p \in 1..n, Live(u) = Live(b) \ {e[p]},
           \A i \in Live(b) : Position(b, i) \in Int
    PROVE  Enumerates([k \in 1..(n - 1) |-> IF k < p THEN e[k] ELSE e[k + 1]], n - 1, u)
<1> DEFINE f == [k \in 1..(n - 1) |-> IF k < p THEN e[k] ELSE e[k + 1]]
<1>0. /\ n \in Nat /\ e \in [1..n -> Live(b)]
      /\ \A i \in Live(b) : \E k \in 1..n : e[k] = i
      /\ \A j, k \in 1..n : j < k => Position(b, e[j]) < Position(b, e[k])
  BY DEF Enumerates
<1>1. \A j, k \in 1..n : e[j] = e[k] => j = k
  BY <1>0
<1>2. n - 1 \in Nat /\ \A k \in 1..(n - 1) : f[k] \in Live(u)
  BY <1>0, <1>1
<1>3. ASSUME NEW i \in Live(u)
      PROVE  \E k \in 1..(n - 1) : f[k] = i
  <2>1. PICK k \in 1..n : e[k] = i /\ k # p
    BY <1>0
  <2>2. CASE k < p
    <3>1. k \in 1..(n - 1) /\ f[k] = i
      BY <1>0, <2>1, <2>2
    <3> QED
      BY <3>1
  <2>3. CASE ~(k < p)
    <3>1. k - 1 \in 1..(n - 1) /\ f[k - 1] = i
      BY <1>0, <2>1, <2>3
    <3> QED
      BY <3>1
  <2> QED
    BY <2>2, <2>3
<1>4. ASSUME NEW j \in 1..(n - 1), NEW k \in 1..(n - 1), j < k
      PROVE  Position(u, f[j]) < Position(u, f[k])
  <2>1. Position(b, f[j]) < Position(b, f[k])
    BY <1>0, <1>4
  <2> QED
    BY <1>2, <2>1 DEF StillInOrder
<1> HIDE DEF f
<1>5. f \in [1..(n - 1) -> Live(u)]
  BY <1>2 DEF f
<1>6. Enumerates(f, n - 1, u)
  BY <1>2, <1>3, <1>4, <1>5 DEF Enumerates
<1> QED
  BY <1>6 DEF f

(* The buffer without cell i, whatever becomes of the links.               *)
Unlinked(b, i) == [b EXCEPT !.storage[i].pid = NoPid]

LEMMA UnlinkedCells ==
    ASSUME NEW b, WellFormed(b), NEW i \in Live(b)
    PROVE  LET u == Unlinked(b, i)
           IN  /\ Live(u) = Live(b) \ {i}
               /\ \A j \in Live(u) : SameCell(b, u, j)
               /\ \A j : Position(u, j) = Position(b, j)
<1>1. PICK u : u = Unlinked(b, i)
  OBVIOUS
<1>2. /\ u.storage = [b.storage EXCEPT ![i].pid = NoPid]
      /\ u.head = b.head /\ u.nalloc = b.nalloc
  BY <1>1 DEF Unlinked, WellFormed, Buffer
<1>3. /\ DOMAIN u.storage = DOMAIN b.storage
      /\ \A j \in DOMAIN b.storage : j # i => u.storage[j] = b.storage[j]
  BY <1>2
<1>4. u.storage[i].pid = NoPid /\ i \in DOMAIN b.storage
  BY <1>2, LiveInBuffer DEF WellFormed, Cell, Live
<1>5. Live(u) = Live(b) \ {i} /\ \A j \in Live(u) : SameCell(b, u, j)
  BY <1>3, <1>4 DEF Live, SameCell
<1>6. \A j : Position(u, j) = Position(b, j)
  BY <1>2 DEF Position
<1> QED
  BY <1>1, <1>5, <1>6

LEMMA OneMore ==
    ASSUME NEW b, NEW u, NEW e, NEW n, Enumerates(e, n, b), StillInOrder(b, u),
           NEW psi, psi \notin Live(b), Live(u) = Live(b) \cup {psi},
           \A i \in Live(b) : Position(u, i) < Position(u, psi)
    PROVE  Enumerates([k \in 1..(n + 1) |-> IF k <= n THEN e[k] ELSE psi], n + 1, u)
<1> DEFINE f == [k \in 1..(n + 1) |-> IF k <= n THEN e[k] ELSE psi]
<1>0. /\ n \in Nat /\ e \in [1..n -> Live(b)]
      /\ \A i \in Live(b) : \E k \in 1..n : e[k] = i
      /\ \A j, k \in 1..n : j < k => Position(b, e[j]) < Position(b, e[k])
  BY DEF Enumerates
<1>1. /\ \A k \in 1..n : k \in 1..(n + 1) /\ f[k] = e[k]
      /\ n + 1 \in 1..(n + 1) /\ f[n + 1] = psi
      /\ \A k \in 1..(n + 1) : k \in 1..n \/ k = n + 1
  BY <1>0
<1>2. f \in [1..(n + 1) -> Live(u)]
  BY <1>0
<1> HIDE DEF f
<1>3. \A i \in Live(u) : \E k \in 1..(n + 1) : f[k] = i
  BY <1>0, <1>1
<1>4. ASSUME NEW j \in 1..(n + 1), NEW k \in 1..(n + 1), j < k
      PROVE  Position(u, f[j]) < Position(u, f[k])
  <2>1. j \in 1..n
    BY <1>0, <1>4
  <2>2. CASE k \in 1..n
    BY <1>0, <1>1, <1>4, <2>1, <2>2 DEF StillInOrder
  <2>3. CASE k = n + 1
    BY <1>0, <1>1, <2>1, <2>3
  <2> QED
    BY <1>1, <2>2, <2>3
<1>5. Enumerates(f, n + 1, u)
  BY <1>0, <1>2, <1>3, <1>4 DEF Enumerates
<1> QED
  BY <1>5 DEF f
(* bgp_resize leaves the cells in their order, and the cell that head is   *)
(* to fill next is the oldest one if it is live.                           *)
LEMMA ResizeOrder ==
    ASSUME NEW b, Inv(b), LimitOK
    PROVE  LET r == Resize(b)
           IN  \A i, j \in Live(b) :
                 /\ Position(b, i) < Position(b, j) => Position(r, i) < Position(r, j)
                 /\ i = r.head => Position(b, i) <= Position(b, j)
<1> DEFINE nsize == Grown(IF b.nalloc = 0 THEN TableSize ELSE b.nalloc, Goal)
           grows == b.nalloc < Goal /\ b.nalloc < MaxChildMax
<1>0. /\ WellFormed(b) /\ b.nalloc \in Nat /\ b.head \in 0..b.nalloc
      /\ \A i \in Live(b) : i \in 0..(b.nalloc - 1)
      /\ MaxChildMax \in Nat /\ Goal \in Int /\ b.nalloc <= MaxChildMax
  BY LiveInBuffer, SizesAssumption, GoalPositive DEF Inv, WellFormed
<1>1. PICK r : r = Resize(b)
  OBVIOUS
<1>2. CASE b.nalloc = 0
  BY <1>0, <1>2
<1>3. CASE b.nalloc # 0
  <2>1. nsize \in b.nalloc..MaxChildMax
    <3>1. b.nalloc \in 1..MaxChildMax
      BY <1>0, <1>3
    <3> QED
      BY <1>0, <1>3, <3>1, GrownSize
  <2>2. /\ r.nalloc = IF grows THEN nsize ELSE b.nalloc
        /\ r.head = IF grows THEN b.head ELSE IF b.head >= b.nalloc THEN 0 ELSE b.head
    BY <1>1, <1>3 DEF Resize, Buffer
  <2> HIDE DEF nsize, grows
  <2>3. \A i, j \in 0..(b.nalloc - 1) :
          /\ Position(b, i) < Position(b, j) => Position(r, i) < Position(r, j)
          /\ i = r.head => Position(b, i) <= Position(b, j)
    BY <1>0, <1>3, <2>1, <2>2, SMTT(60) DEF Position
  <2> QED
    BY <1>0, <1>1, <2>3
<1> QED
  BY <1>2, <1>3

LEMMA AddOrder ==
    ASSUME NEW b, Inv(b), LimitOK, NEW pid \in Pids, NEW status \in Statuses
    PROVE  LET a == AddPid(b, pid, status)
               psi == ReadyForNext(b).head
           IN  /\ \A j \in Live(b) : psi \in Live(b) => Position(b, psi) <= Position(b, j)
               /\ \A i, j \in Live(b) \ {psi} :
                    /\ Position(b, i) < Position(b, j) => Position(a, i) < Position(a, j)
                    /\ Position(a, i) < Position(a, psi)
<1> DEFINE e == IF b.nalloc < childmax \/ b.head >= b.nalloc THEN Resize(b) ELSE b
<1>0. /\ b.nalloc \in Nat /\ b.head \in 0..b.nalloc
      /\ \A i \in Live(b) : i \in 0..(b.nalloc - 1)
  BY LiveInBuffer DEF Inv
<1>1. PICK r : r = ReadyForNext(b)
  OBVIOUS
<1>2. PICK a : a = AddPid(b, pid, status)
  OBVIOUS
<1>3. Sound(e) /\ e.head < e.nalloc
  <2>1. CASE b.nalloc < childmax \/ b.head >= b.nalloc
    BY <2>1, AllocateSound, GrowSound, WrapSound
  <2>2. CASE ~(b.nalloc < childmax \/ b.head >= b.nalloc)
    BY <1>0, <2>2 DEF Sound, Inv, LimitOK
  <2> QED
    BY <2>1, <2>2
<1>4. /\ Live(e) = Live(b)
      /\ \A i, j \in Live(b) :
           /\ Position(b, i) < Position(b, j) => Position(e, i) < Position(e, j)
           /\ i = e.head => Position(b, i) <= Position(b, j)
  <2>1. CASE b.nalloc < childmax \/ b.head >= b.nalloc
    BY <2>1, ResizeOrder, ResizeCells
  <2>2. CASE ~(b.nalloc < childmax \/ b.head >= b.nalloc)
    BY <1>0, <2>2 DEF Position
  <2> QED
    BY <2>1, <2>2
<1>5. /\ e.nalloc \in Nat /\ e.head \in 0..(e.nalloc - 1)
      /\ \A i \in Live(e) : i \in 0..(e.nalloc - 1)
  BY <1>3, LiveInBuffer DEF Sound
<1>6. r = Unlink(e, e.head)
  BY <1>1 DEF ReadyForNext
<1> HIDE DEF e
<1>7. r.head = e.head /\ r.nalloc = e.nalloc
  BY <1>3, <1>5, <1>6, UnlinkSound
<1>8. a.head = e.head + 1 /\ a.nalloc = e.nalloc
  BY <1>1, <1>2, <1>7, AddCells
<1>9. \A i, j \in Live(b) \ {e.head} :
        /\ Position(e, i) < Position(e, j) => Position(a, i) < Position(a, j)
        /\ Position(a, i) < Position(a, e.head)
  <2> SUFFICES ASSUME NEW i \in Live(b) \ {e.head}, NEW j \in Live(b) \ {e.head}
               PROVE  /\ Position(e, i) < Position(e, j) => Position(a, i) < Position(a, j)
                      /\ Position(a, i) < Position(a, e.head)
    OBVIOUS
  <2>1. i \in 0..(e.nalloc - 1) /\ j \in 0..(e.nalloc - 1) /\ i # e.head /\ j # e.head
    BY <1>4, <1>5
  <2> QED
    BY <1>5, <1>8, <2>1, SMTT(30) DEF Position
<1>10. /\ \A j \in Live(b) : r.head \in Live(b) => Position(b, r.head) <= Position(b, j)
       /\ \A i, j \in Live(b) \ {r.head} :
            /\ Position(b, i) < Position(b, j) => Position(a, i) < Position(a, j)
            /\ Position(a, i) < Position(a, r.head)
  BY <1>4, <1>7, <1>9
<1> QED
  BY <1>1, <1>2, <1>10

-----------------------------------------------------------------------------
(* What the operations do to the list.                                     *)
Saved == [pid : Pids, status : Statuses]

LEMMA RemoveAtSeq ==
    ASSUME NEW S, NEW list \in Seq(S), NEW p \in 1..Len(list)
    PROVE  List!RemoveAt(list, p) =
               [k \in 1..(Len(list) - 1) |-> IF k < p THEN list[k] ELSE list[k + 1]]
<1> DEFINE n == Len(list)
           before == SubSeq(list, 1, p - 1)
           after == SubSeq(list, p + 1, n)
<1>1. n \in Nat /\ p \in 1..n
  OBVIOUS
<1>2. /\ before \in Seq(S) /\ Len(before) = p - 1 /\ \A k \in 1..(p - 1) : before[k] = list[k]
  BY <1>1
<1>3. /\ after \in Seq(S) /\ Len(after) = n - p
      /\ \A k \in 1..(n - p) : after[k] = list[k + p]
  BY <1>1
<1>4. List!RemoveAt(list, p) = before \o after
  BY DEF List!RemoveAt
<1> HIDE DEF before, after, n
<1>5. PICK both : both = before \o after
  OBVIOUS
<1>6. /\ both \in Seq(S) /\ Len(both) = Len(before) + Len(after)
      /\ \A k \in 1..(Len(before) + Len(after)) :
           both[k] = IF k <= Len(before) THEN before[k] ELSE after[k - Len(before)]
  BY <1>2, <1>3, <1>5, ConcatProperties, Zenon
<1>7. DOMAIN both = 1..(n - 1) /\ both = [k \in DOMAIN both |-> both[k]]
  BY <1>1, <1>2, <1>3, <1>6
<1>8. \A k \in 1..(n - 1) : both[k] = IF k < p THEN list[k] ELSE list[k + 1]
  <2> SUFFICES ASSUME NEW k \in 1..(n - 1)
               PROVE  both[k] = IF k < p THEN list[k] ELSE list[k + 1]
    OBVIOUS
  <2>1. both[k] = IF k <= p - 1 THEN before[k] ELSE after[k - (p - 1)]
    BY <1>1, <1>2, <1>3, <1>6
  <2>2. CASE k < p
    BY <1>1, <1>2, <2>1, <2>2
  <2>3. CASE ~(k < p)
    <3>1. k - (p - 1) \in 1..(n - p) /\ (k - (p - 1)) + p = k + 1
      BY <1>1, <2>3
    <3> QED
      BY <1>1, <1>3, <2>1, <2>3, <3>1
  <2> QED
    BY <2>2, <2>3
<1> QED
  BY <1>4, <1>5, <1>7, <1>8 DEF n

LEMMA DeleteList ==
    ASSUME NEW b, Inv(b), Contents(b), NEW pid \in Pids, NEW e, NEW n, Enumerates(e, n, b)
    PROVE  LET d == DeletePid(b, pid)
               list == ListOf(b)
               places == {k \in DOMAIN list : list[k].pid = pid}
           IN  /\ \E f, m : Enumerates(f, m, d)
               /\ ListOf(d) = IF places = {} THEN list
                              ELSE List!RemoveAt(list, CHOOSE k \in places : TRUE)
<1> DEFINE i == Find(b, pid)
           list == ListOf(b)
           places == {k \in DOMAIN list : list[k].pid = pid}
<1>0. WellFormed(b) /\ n \in Nat /\ e \in [1..n -> Live(b)]
  BY DEF Inv, Enumerates
<1>1. PICK d : d = DeletePid(b, pid)
  OBVIOUS
<1>2. /\ list = [k \in 1..n |-> Entry(b.storage[e[k]])]
      /\ list \in Seq(Saved) /\ Len(list) = n
  BY <1>0, ListFound DEF Contents, Saved
<1> HIDE DEF list
<1>3. DOMAIN list = 1..n /\ \A k \in 1..n : list[k].pid = b.storage[e[k]].pid
  BY <1>2 DEF Entry
<1>4. \A k : k \in places <=> k \in 1..n /\ e[k] \in Cells(b, pid)
  BY <1>0, <1>3 DEF Cells
<1>5. CASE i = NoIndex
  <2>1. d = b /\ Cells(b, pid) = {}
    BY <1>1, <1>5, FindExact DEF DeletePid
  <2> QED
    BY <1>1, <1>4, <2>1 DEF list
<1>6. CASE i # NoIndex
  <2>1. Cells(b, pid) = {i}
    BY <1>6, FindExact
  <2>2. b.nalloc # 0 /\ i \in 0..(b.nalloc - 1) /\ Sound(b)
    BY <1>6, FindInBuffer DEF Sound, Inv
  <2>3. PICK u : u = Unlink(b, i)
    OBVIOUS
  <2> HIDE DEF i
  <2>4. d = Buffer(u.storage, u.nalloc, u.head, u.npid - 1, u.table)
    BY <1>1, <1>6, <2>3 DEF DeletePid, i
  <2>5. /\ Live(u) = Live(b) \ {i} /\ \A j \in Live(u) : SameCell(b, u, j)
        /\ u.nalloc = b.nalloc /\ u.head = b.head
    BY <2>2, <2>3, UnlinkCells, UnlinkSound
  <2>6. d.storage = u.storage /\ d.nalloc = b.nalloc /\ d.head = b.head
    BY <2>4, <2>5 DEF Buffer
  <2>7. Live(d) = Live(b) \ {i} /\ \A j \in Live(d) : SameCell(b, d, j)
    BY <2>5, <2>6 DEF Live, SameCell
  <2>8. StillInOrder(b, d)
    BY <2>6, <2>7 DEF StillInOrder, Position
  <2>9. PICK p \in 1..n : e[p] = i
    BY <2>1 DEF Cells, Enumerates
  <2>10. places = {p}
    <3>1. \A j, k \in 1..n : e[j] = e[k] => j = k
      <4>1. \A c \in Live(b) : Position(b, c) \in Int
        BY <1>0, LiveInBuffer
      <4> QED
        BY <1>0, <4>1 DEF Enumerates
    <3> QED
      BY <1>4, <2>1, <2>9, <3>1
  <2>11. PICK f : f = [k \in 1..(n - 1) |-> IF k < p THEN e[k] ELSE e[k + 1]]
    OBVIOUS
  <2>12. Enumerates(f, n - 1, d)
    <3>1. /\ p \in 1..n /\ Live(d) = Live(b) \ {e[p]}
          /\ \A c \in Live(b) : Position(b, c) \in Int
      BY <1>0, <2>7, <2>9, LiveInBuffer
    <3> QED
      BY <2>8, <2>11, <3>1, OneLess
  <2>13. WellFormed(d) /\ StatusesSaved(d)
    BY <1>1, DeleteKeepsInv, DeleteContents DEF Inv, Contents
  <2>14. ListOf(d) = [k \in 1..(n - 1) |-> Entry(d.storage[f[k]])]
    BY <2>12, <2>13, ListFound
  <2>15. \A k \in 1..(n - 1) : Entry(d.storage[f[k]]) = IF k < p THEN list[k] ELSE list[k + 1]
    <3> SUFFICES ASSUME NEW k \in 1..(n - 1)
                 PROVE  Entry(d.storage[f[k]]) = IF k < p THEN list[k] ELSE list[k + 1]
      OBVIOUS
    <3>1. f[k] \in Live(d)
      BY <2>12 DEF Enumerates
    <3>2. Entry(d.storage[f[k]]) = Entry(b.storage[f[k]])
      BY <2>7, <3>1 DEF Entry, SameCell
    <3> QED
      BY <1>0, <1>2, <2>11, <3>2
  <2>16. List!RemoveAt(list, p) = [k \in 1..(n - 1) |-> IF k < p THEN list[k] ELSE list[k + 1]]
    <3>1. \A l \in Seq(Saved) : \A q \in 1..Len(l) :
            List!RemoveAt(l, q) =
              [k \in 1..(Len(l) - 1) |-> IF k < q THEN l[k] ELSE l[k + 1]]
      BY RemoveAtSeq
    <3>2. list \in Seq(Saved) /\ p \in 1..Len(list) /\ Len(list) = n
      BY <1>2, <2>9
    <3>3. List!RemoveAt(list, p) =
            [k \in 1..(Len(list) - 1) |-> IF k < p THEN list[k] ELSE list[k + 1]]
      BY <3>1, <3>2, Zenon
    <3> QED
      BY <3>2, <3>3, Zenon
  <2>17. ListOf(d) = List!RemoveAt(list, p)
    BY <2>14, <2>15, <2>16
  <2>18. (CHOOSE k \in places : TRUE) = p /\ places # {}
    BY <2>10
  <2> HIDE DEF places
  <2> QED
    BY <1>1, <2>12, <2>17, <2>18 DEF list, places
<1> QED
  BY <1>5, <1>6
LEMMA AppendIs ==
    ASSUME NEW S, NEW list \in Seq(S), NEW x
    PROVE  Append(list, x) = [k \in 1..(Len(list) + 1) |->
                                IF k <= Len(list) THEN list[k] ELSE x]
<1>1. PICK both : both = Append(list, x)
  OBVIOUS
<1>2. PICK T : list \in Seq(T) /\ x \in T
  <2>1. list \in Seq(S \cup {x}) /\ x \in S \cup {x}
    OBVIOUS
  <2> QED
    BY <2>1
<1>3. /\ both \in Seq(T) /\ Len(both) = Len(list) + 1
      /\ \A k \in 1..Len(list) : both[k] = list[k]
      /\ both[Len(list) + 1] = x
  BY <1>1, <1>2, AppendProperties
<1>4. /\ Len(list) \in Nat /\ DOMAIN both = 1..(Len(list) + 1)
      /\ both = [k \in DOMAIN both |-> both[k]]
  BY <1>3
<1>5. \A k \in 1..(Len(list) + 1) : k \in 1..Len(list) \/ k = Len(list) + 1
  BY <1>4
<1>6. \A k \in 1..(Len(list) + 1) : both[k] = IF k <= Len(list) THEN list[k] ELSE x
  BY <1>3, <1>4, <1>5
<1> QED
  BY <1>1, <1>4, <1>6

LEMMA SaveList ==
    ASSUME NEW b, Inv(b), Contents(b), LimitOK, NEW pid \in Pids, NEW status \in Statuses,
           Cells(b, pid) = {}, NEW e, NEW n, Enumerates(e, n, b)
    PROVE  LET a == AddPid(b, pid, status)
               list == ListOf(b)
               new == [pid |-> pid, status |-> status]
           IN  /\ \E f, m : Enumerates(f, m, a)
               /\ \/ ListOf(a) = Append(list, new)
                  \/ list # <<>> /\ ListOf(a) = Append(Tail(list), new)
<1> DEFINE list == ListOf(b)
           new == [pid |-> pid, status |-> status]
<1>0. /\ WellFormed(b) /\ n \in Nat /\ e \in [1..n -> Live(b)]
      /\ \A c \in Live(b) : Position(b, c) \in Int
  BY LiveInBuffer DEF Inv, Enumerates
<1>1. PICK a : a = AddPid(b, pid, status)
  OBVIOUS
<1>2. PICK psi : psi = ReadyForNext(b).head
  OBVIOUS
<1>3. /\ Live(a) = Live(b) \cup {psi}
      /\ a.storage[psi].pid = pid /\ a.storage[psi].status = status
      /\ \A j \in Live(b) \ {psi} : SameCell(b, a, j)
  BY <1>1, <1>2, AddCells
<1>4. /\ psi \in Live(b) => \A j \in Live(b) : Position(b, psi) <= Position(b, j)
      /\ \A i, j \in Live(b) \ {psi} :
            /\ Position(b, i) < Position(b, j) => Position(a, i) < Position(a, j)
            /\ Position(a, i) < Position(a, psi)
  BY <1>1, <1>2, AddOrder
<1>5. /\ list = [k \in 1..n |-> Entry(b.storage[e[k]])]
      /\ list \in Seq(Saved) /\ Len(list) = n
  BY <1>0, ListFound DEF Contents, Saved
<1>6. WellFormed(a) /\ StatusesSaved(a)
  BY <1>1, AddSound, AddContents DEF Contents, Sound
<1>7. new = Entry(a.storage[psi])
  BY <1>3 DEF Entry
<1>8. \A j \in Live(b) \ {psi} : Entry(a.storage[j]) = Entry(b.storage[j])
  BY <1>3 DEF Entry, SameCell
<1> HIDE DEF list, new
<1>9. CASE psi \notin Live(b)
  <2>1. PICK f : f = [k \in 1..(n + 1) |-> IF k <= n THEN e[k] ELSE psi]
    OBVIOUS
  <2>2. StillInOrder(b, a) /\ \A i \in Live(b) : Position(a, i) < Position(a, psi)
    BY <1>3, <1>4, <1>9 DEF StillInOrder
  <2>3. Enumerates(f, n + 1, a)
    <3>1. Enumerates([k \in 1..(n + 1) |-> IF k <= n THEN e[k] ELSE psi], n + 1, a)
      BY <1>3, <1>9, <2>2, OneMore
    <3> QED
      BY <2>1, <3>1
  <2>4. ListOf(a) = [k \in 1..(n + 1) |-> Entry(a.storage[f[k]])]
    BY <1>6, <2>3, ListFound
  <2>5. \A k \in 1..(n + 1) : Entry(a.storage[f[k]]) = IF k <= n THEN list[k] ELSE new
    BY <1>0, <1>5, <1>7, <1>8, <1>9, <2>1
  <2>6. Append(list, new) = [k \in 1..(n + 1) |-> IF k <= n THEN list[k] ELSE new]
    BY <1>0, <1>5
  <2>7. ListOf(a) = Append(list, new)
    BY <2>4, <2>5, <2>6
  <2> QED
    BY <1>1, <2>3, <2>7 DEF list, new
<1>10. CASE psi \in Live(b)
  <2>1. n # 0 /\ e[1] = psi
    <3>1. PICK p \in 1..n : e[p] = psi
      BY <1>10 DEF Enumerates
    <3>2. 1 \in 1..n /\ (1 < p => Position(b, e[1]) < Position(b, e[p]))
      BY <1>0, <3>1 DEF Enumerates
    <3> QED
      BY <1>0, <1>4, <1>10, <3>1, <3>2
  <2>2. PICK b1 : b1 = Unlinked(b, psi)
    OBVIOUS
  <2>3. /\ Live(b1) = Live(b) \ {psi}
        /\ \A j \in Live(b1) : SameCell(b, b1, j)
        /\ \A j : Position(b1, j) = Position(b, j)
    BY <1>0, <1>10, <2>2, UnlinkedCells
  <2>4. PICK f : f = [k \in 1..(n - 1) |-> IF k < 1 THEN e[k] ELSE e[k + 1]]
    OBVIOUS
  <2>5. Enumerates(f, n - 1, b1)
    <3>1. StillInOrder(b, b1)
      BY <2>3 DEF StillInOrder
    <3>2. 1 \in 1..n /\ Live(b1) = Live(b) \ {e[1]}
      BY <1>0, <2>1, <2>3
    <3> QED
      BY <1>0, <2>4, <3>1, <3>2, OneLess
  <2>6. PICK g : g = [k \in 1..((n - 1) + 1) |-> IF k <= n - 1 THEN f[k] ELSE psi]
    OBVIOUS
  <2>7. Enumerates(g, (n - 1) + 1, a)
    <3>1. Live(a) = Live(b1) \cup {psi} /\ psi \notin Live(b1)
      BY <1>3, <1>10, <2>3
    <3>2. StillInOrder(b1, a) /\ \A i \in Live(b1) : Position(a, i) < Position(a, psi)
      BY <1>3, <1>4, <2>3, <3>1 DEF StillInOrder, SameCell
    <3> QED
      BY <2>5, <2>6, <3>1, <3>2, OneMore
  <2>8. (n - 1) + 1 = n
    BY <1>0
  <2>9. ListOf(a) = [k \in 1..n |-> Entry(a.storage[g[k]])]
    BY <1>6, <2>7, <2>8, ListFound
  <2>10. \A k \in 1..n : Entry(a.storage[g[k]]) = IF k <= n - 1 THEN list[k + 1] ELSE new
    <3> SUFFICES ASSUME NEW k \in 1..n
                 PROVE  Entry(a.storage[g[k]]) = IF k <= n - 1 THEN list[k + 1] ELSE new
      OBVIOUS
    <3>1. CASE k <= n - 1
      <4>1. k \in 1..(n - 1) /\ g[k] = e[k + 1] /\ k + 1 \in 1..n
        BY <1>0, <2>4, <2>6, <3>1
      <4>2. g[k] \in Live(b) \ {psi}
        <5>1. g[k] = f[k]
          BY <1>0, <2>6, <3>1
        <5>2. f[k] \in Live(b1)
          BY <2>5, <4>1 DEF Enumerates
        <5> QED
          BY <2>3, <5>1, <5>2
      <4> QED
        BY <1>5, <1>8, <3>1, <4>1, <4>2
    <3>2. CASE ~(k <= n - 1)
      BY <1>0, <1>7, <2>6, <3>2
    <3> QED
      BY <3>1, <3>2
  <2>11. Append(Tail(list), new) = [k \in 1..n |-> IF k <= n - 1 THEN list[k + 1] ELSE new]
    <3>1. /\ Tail(list) \in Seq(Saved) /\ Len(Tail(list)) = n - 1
          /\ \A k \in 1..(n - 1) : Tail(list)[k] = list[k + 1]
      BY <1>0, <1>5, <2>1
    <3>2. PICK t : t = Tail(list)
      OBVIOUS
    <3>3. Append(t, new) = [k \in 1..(Len(t) + 1) |-> IF k <= Len(t) THEN t[k] ELSE new]
      <4>1. t \in Seq(Saved) /\ Len(t) \in Nat
        BY <3>1, <3>2
      <4> QED
        BY <4>1, AppendIs
    <3>4. (n - 1) + 1 = n /\ \A k \in 1..n : k <= n - 1 => t[k] = list[k + 1]
      BY <1>0, <3>1, <3>2
    <3> QED
      BY <3>1, <3>2, <3>3, <3>4
  <2>12. ListOf(a) = Append(Tail(list), new) /\ list # <<>>
    BY <1>0, <1>5, <2>1, <2>9, <2>10, <2>11
  <2> QED
    BY <1>1, <2>7, <2>12 DEF list, new
<1> QED
  BY <1>9, <1>10
-----------------------------------------------------------------------------
(* The steps of the ordered list.                                          *)
ListInv == SavedInv /\ \E e, n : Enumerates(e, n, bgpids)

LEMMA NothingListed ==
    ASSUME NEW b, Inv(b), Contents(b), Live(b) = {}
    PROVE  ListOf(b) = <<>> /\ \E e, n : Enumerates(e, n, b)
<1>1. PICK e : e = [k \in 1..0 |-> 0]
  OBVIOUS
<1>2. e \in [1..0 -> Live(b)] /\ \A k : k \notin 1..0
  BY <1>1
<1>3. Enumerates(e, 0, b)
  BY <1>2 DEF Enumerates
<1>4. Len(ListOf(b)) = 0 /\ ListOf(b) \in Seq(Saved)
  BY <1>3, ListFound DEF Inv, Contents, Saved
<1> QED
  BY <1>3, <1>4

LEMMA InitImplementsList == Init => ListInv /\ List!Init
<1> SUFFICES ASSUME Init
             PROVE  ListInv /\ List!Init
  OBVIOUS
<1>1. SavedInv /\ Inv(bgpids) /\ Contents(bgpids)
  BY InitSavedInv, TableInvForm DEF SavedInv
<1>2. Live(bgpids) = {}
  BY NothingStored DEF Init
<1>3. ListOf(bgpids) = <<>> /\ \E e, n : Enumerates(e, n, bgpids)
  BY <1>1, <1>2, NothingListed
<1> QED
  BY <1>1, <1>3 DEF ListInv, List!Init, SavedList, Init

LEMMA StepImplementsList == ListInv /\ [Next]_vars => ListInv' /\ [List!Next]_List!vars
<1> SUFFICES ASSUME ListInv, [Next]_vars
             PROVE  ListInv' /\ [List!Next]_List!vars
  OBVIOUS
<1>1. /\ SavedInv' /\ Inv(bgpids) /\ LimitOK /\ Contents(bgpids) /\ children \subseteq Pids
      /\ Inv(bgpids') /\ Contents(bgpids')
      /\ \A pid \in children : Cells(bgpids, pid) = {}
  <2>1. SavedInv /\ SavedInv'
    BY StepSavedInv DEF ListInv
  <2>2. Inv(bgpids) /\ LimitOK /\ children \subseteq Pids
    BY <2>1, TableInvForm DEF SavedInv
  <2>3. Inv(bgpids') /\ Contents(bgpids')
    BY <2>1 DEF SavedInv, TableInv, TypeOK, LinksOK, Inv
  <2> QED
    BY <2>1, <2>2, <2>3 DEF SavedInv
<1>2. PICK e, n : Enumerates(e, n, bgpids)
  BY DEF ListInv
<1>3. SavedList = ListOf(bgpids) /\ SavedList' = ListOf(bgpids')
  BY DEF SavedList
<1>4. (\E f, m : Enumerates(f, m, bgpids')) => ListInv'
  BY <1>1 DEF ListInv, Enumerates, Live, Position
<1> DEFINE Listed == \E f, m : Enumerates(f, m, bgpids')
<1> HIDE DEF Listed
<1>5. ASSUME NEW pid \in Pids, Fork(pid)
      PROVE  Listed /\ List!Fork(pid)
  <2>1. bgpids' = DeletePid(bgpids, pid) /\ children' = children \cup {pid}
    BY <1>5 DEF Fork
  <2> QED
    BY <1>1, <1>2, <1>3, <2>1, DeleteList DEF List!Fork, List!Without, Listed
<1>6. ASSUME NEW pid \in Pids, NEW status \in Statuses, Save(pid, status)
      PROVE  Listed /\ List!Save(pid, status)
  <2>1. /\ pid \in children /\ children' = children \ {pid}
        /\ bgpids' = AddPid(bgpids, pid, status)
    BY <1>6 DEF Save
  <2> QED
    BY <1>1, <1>2, <1>3, <2>1, SaveList DEF List!Save, Listed
<1>7. ASSUME NEW pid \in Pids, Discard(pid)
      PROVE  Listed /\ List!Discard(pid)
  BY <1>2, <1>3, <1>7 DEF Discard, List!Discard, Listed
<1>8. ASSUME NEW pid \in Pids, Forget(pid)
      PROVE  Listed /\ List!Forget(pid)
  <2>1. bgpids' = DeletePid(bgpids, pid) /\ children' = children
    BY <1>8 DEF Forget
  <2> QED
    BY <1>1, <1>2, <1>3, <2>1, DeleteList DEF List!Forget, List!Without, Listed
<1>9. ASSUME Clear
      PROVE  Listed /\ List!Clear
  <2>1. bgpids' = NoStorage(bgpids.table) /\ children' = children
    BY <1>9 DEF Clear
  <2>2. Live(bgpids') = {}
    BY <2>1, NothingStored
  <2> QED
    BY <1>1, <1>3, <2>1, <2>2, NothingListed DEF List!Clear, Listed
<1>10. ASSUME UNCHANGED <<bgpids, children>>
       PROVE  Listed /\ UNCHANGED List!vars
  BY <1>2, <1>3, <1>10 DEF List!vars, Listed
<1>11. Listed /\ [List!Next]_List!vars
  <2>1. CASE Next
    <3>1. CASE \E m \in Requests : SetMaxChild(m)
      BY <1>10, <3>1 DEF SetMaxChild
    <3> QED
      BY <1>5, <1>6, <1>7, <1>8, <1>9, <2>1, <3>1 DEF Next, List!Next
  <2>2. CASE UNCHANGED vars
    BY <1>10, <2>2 DEF vars
  <2> QED
    BY <2>1, <2>2
<1> QED
  BY <1>4, <1>11 DEF Listed

(* The circular buffer with its hash chains, through allocation, growth,   *)
(* wrapping and deletions, behaves as the ordered list of SavedStatuses:   *)
(* a fork takes away the status of its own pid and no other, and a save    *)
(* pushes out at most the oldest status.                                   *)
THEOREM BufferIsAList == Spec => ImplementsList
BY InitImplementsList, StepImplementsList, PTL DEF Spec, ImplementsList, List!Spec
=============================================================================

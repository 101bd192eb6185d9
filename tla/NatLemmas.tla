------------------------------ MODULE NatLemmas ------------------------------
(* Facts about natural numbers that the proofs of several modules need. *)
EXTENDS Integers, WellFoundedInduction, TLAPS

(* Every nonempty set of natural numbers has a least element. *)
LEMMA LeastNat ==
    ASSUME NEW T, T \subseteq Nat, T # {}
    PROVE  \E x \in T : \A y \in T : x <= y
<1>1. PICK x \in T : \A y \in T : ~(<<y, x>> \in OpToRel(<, Nat))
  BY NatLessThanWellFounded, WFMin, Zenon
<1>2. \A y \in T : y \in Nat /\ x \in Nat => ~(y < x)
  BY <1>1, Zenon DEF OpToRel
<1> QED
  BY <1>2

(* What holds at 0 and from each number for the next one holds up to n. *)
LEMMA CountUp ==
    ASSUME NEW n \in Nat, NEW T, 0 \in T, \A k \in 1..n : k - 1 \in T => k \in T
    PROVE  \A k \in 0..n : k \in T
<1> DEFINE Bad == {k \in 0..n : k \notin T}
<1>1. ASSUME Bad # {}
      PROVE  FALSE
  <2>0. Bad \subseteq Nat
    OBVIOUS
  <2>1. PICK m \in Bad : \A k \in Bad : m <= k
    BY ONLY <1>1, <2>0, LeastNat
  <2>2. m \in 1..n /\ m \notin T
    BY <2>1
  <2>3. m - 1 \in 0..n /\ m - 1 \notin Bad
    BY <2>1, <2>2
  <2> QED
    BY <2>2, <2>3
<1> QED
  BY <1>1

(* A function of the numbers up to n, each value made from the last one by *)
(* a step that stays in X.                                                 *)
StaysIn(F, n, X) == \A k \in 1..n : \A x \in X : F[k][x] \in X
Iteration(f, F, n, X, first) ==
    /\ f \in [0..n -> X]
    /\ f[0] = first /\ \A k \in 1..n : f[k] = F[k][f[k - 1]]

LEMMA Iterates ==
    ASSUME NEW n \in Nat, NEW X, NEW first \in X, NEW F, StaysIn(F, n, X)
    PROVE  \E f : Iteration(f, F, n, X, first)
<1> DEFINE T == {m \in 0..n : \E f : Iteration(f, F, m, X, first)}
<1>1. 0 \in T
  <2>1. PICK f : f = [k \in 0..0 |-> first]
    OBVIOUS
  <2>2. Iteration(f, F, 0, X, first)
    BY <2>1 DEF Iteration
  <2> QED
    BY <2>2
<1>2. ASSUME NEW m \in 1..n, m - 1 \in T
      PROVE  m \in T
  <2>1. PICK f : Iteration(f, F, m - 1, X, first)
    BY <1>2
  <2>2. PICK g : g = [k \in 0..m |-> IF k = m THEN F[m][f[m - 1]] ELSE f[k]]
    OBVIOUS
  <2>3. f \in [0..(m - 1) -> X] /\ F[m][f[m - 1]] \in X
    BY <2>1 DEF Iteration, StaysIn
  <2>4. g \in [0..m -> X]
    BY <2>2, <2>3
  <2>5. g[0] = first /\ \A k \in 1..m : g[k] = F[k][g[k - 1]]
    BY <2>1, <2>2 DEF Iteration
  <2>6. Iteration(g, F, m, X, first)
    BY <2>4, <2>5 DEF Iteration
  <2> QED
    BY <2>6
<1> HIDE DEF T
<1>3. \A k \in 0..n : k \in T
  BY ONLY <1>1, <1>2, n \in Nat, CountUp
<1> QED
  BY <1>3 DEF T
=============================================================================

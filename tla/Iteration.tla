------------------------------ MODULE Iteration ------------------------------
(***************************************************************************)
(* Lemmas about functions that are iterated, for the proofs about walks    *)
(* along linked lists: the code's walks are recursive functions in the     *)
(* models, and what such a function is must be proved before it is used.   *)
(***************************************************************************)
EXTENDS Integers, FiniteSetTheorems, WellFoundedInduction, TLAPS

(* A set of numbers has a least one.                                       *)
LEMMA LeastNumber ==
  ASSUME NEW T, T \subseteq Nat, T # {}
  PROVE  \E n \in T : \A m \in T : n <= m
  <1>1. PICK n \in T : \A m \in T : <<m, n>> \notin OpToRel(<, Nat)
    BY NatLessThanWellFounded, WFMin
  <1>2. ASSUME NEW m \in T PROVE n <= m
    <2>1. ~(m < n)
      BY <1>1 DEF OpToRel
    <2>. QED
      BY <2>1
  <1>. QED
    BY <1>2

(* Induction up to a bound, over a set in place of a predicate.            *)
LEMMA Inductive ==
  ASSUME NEW n \in Nat, NEW T, 0 \in T, \A k \in 1 .. n : k - 1 \in T => k \in T
  PROVE  \A k \in 0 .. n : k \in T
  <1>. DEFINE Bad == (0 .. n) \ T
  <1>1. SUFFICES ASSUME Bad # {} PROVE FALSE
    OBVIOUS
  <1>2. PICK m \in Bad : \A l \in Bad : m <= l
    <2>1. Bad \subseteq Nat
      OBVIOUS
    <2>. HIDE DEF Bad
    <2>. QED
      BY <1>1, <2>1, LeastNumber
  <1>3. m \in 1 .. n /\ m \notin T /\ m - 1 \in 0 .. n /\ ~(m <= m - 1)
    <2>1. m \in 0 .. n /\ m \notin T /\ m # 0
      OBVIOUS
    <2>. QED
      BY <2>1
  <1>4. m - 1 \notin Bad
    <2>. HIDE DEF Bad
    <2>. QED
      BY <1>2, <1>3
  <1>. QED
    BY <1>3, <1>4

(* f is what applying g to a member a of S yields, up to n times.          *)
Iterated(f, S, a, g, n) ==
    /\ f \in [0 .. n -> S]
    /\ f[0] = a
    /\ \A k \in 1 .. n : f[k] = g[f[k - 1]]

(* A function from a set to itself can be iterated.                        *)
LEMMA Iterates ==
  ASSUME NEW S, NEW a \in S, NEW g \in [S -> S], NEW n \in Nat
  PROVE  \E f : Iterated(f, S, a, g, n)
  <1>. USE DEF Iterated
  <1>. DEFINE Good(m, f) == Iterated(f, S, a, g, m)
              Bad == {m \in Nat : ~\E f : Good(m, f)}
  <1>1. SUFFICES ASSUME Bad # {} PROVE FALSE
    OBVIOUS
  <1>2. PICK m \in Bad : \A l \in Bad : m <= l
    BY <1>1, LeastNumber
  <1>3. m # 0
    <2>1. Good(0, [k \in 0 .. 0 |-> a])
      OBVIOUS
    <2>. QED
      BY <2>1
  <1>4. m \in Nat /\ m - 1 \in Nat
    BY <1>3
  <1>5. PICK f : Good(m - 1, f)
    <2>1. m - 1 \notin Bad
      <3>1. ~(m <= m - 1)
        BY <1>4
      <3>. HIDE DEF Bad
      <3>. QED
        BY <1>2, <3>1
    <2>. QED
      BY <1>4, <2>1
  <1>. DEFINE h == [k \in 0 .. m |-> IF k = m THEN g[f[m - 1]] ELSE f[k]]
  <1>6. \A k \in 0 .. m - 1 : h[k] = f[k] /\ f[k] \in S
    BY <1>4, <1>5
  <1>7. h[m] = g[f[m - 1]] /\ g[f[m - 1]] \in S
    BY <1>4, <1>5
  <1>8. h \in [0 .. m -> S]
    <2>1. ASSUME NEW k \in 0 .. m PROVE h[k] \in S
      <3>1. k = m \/ k \in 0 .. m - 1
        BY <1>4
      <3>. QED
        BY <1>6, <1>7, <3>1
    <2>. QED
      BY <2>1
  <1>9. \A k \in 1 .. m : h[k] = g[h[k - 1]]
    BY <1>4, <1>5, <1>6, <1>7
  <1>10. h[0] = a
    BY <1>3, <1>4, <1>5, <1>6
  <1>. HIDE DEF h
  <1>11. Good(m, h)
    BY <1>8, <1>9, <1>10
  <1>. QED
    BY <1>2, <1>11

(* A sequence of more elements than the set has names one of them twice.   *)
LEMMA TooLong ==
  ASSUME NEW n \in Nat, NEW S, IsFiniteSet(S), Cardinality(S) = n, NEW f \in [0 .. n -> S]
  PROVE  \E j, k \in 0 .. n : j # k /\ f[j] = f[k]
  <1>. DEFINE I == 0 .. n
  <1>1. IsFiniteSet(I) /\ Cardinality(I) = n + 1
    BY FS_Interval
  <1>2. Cardinality(S) < Cardinality(I)
    BY <1>1
  <1>3. f \in [I -> S]
    OBVIOUS
  <1>. HIDE DEF I
  <1>4. \E j, k \in I : j # k /\ f[j] = f[k]
    BY <1>1, <1>2, <1>3, FS_PigeonHole
  <1>. QED
    BY <1>4 DEF I

(* A walk written as a recursive function: what unfolds as g does is that  *)
(* iteration.                                                              *)
LEMMA Unfolds ==
  ASSUME NEW S, NEW a \in S, NEW g \in [S -> S], NEW n \in Nat, NEW w,
         w = [k \in 0 .. n |-> w[k]], w[0] = a,
         \A k \in 1 .. n : w[k - 1] \in S => w[k] = g[w[k - 1]]
  PROVE  Iterated(w, S, a, g, n)
  <1>. DEFINE T == {j \in 0 .. n : w[j] \in S}
  <1>1. 0 \in T
    OBVIOUS
  <1>2. ASSUME NEW k \in 1 .. n, k - 1 \in T PROVE k \in T
    <2>1. k \in 0 .. n /\ w[k - 1] \in S
      BY <1>2
    <2>2. w[k] = g[w[k - 1]]
      BY <2>1
    <2>3. g[w[k - 1]] \in S
      BY <2>1
    <2>. QED
      BY <2>1, <2>2, <2>3
  <1>. HIDE DEF T
  <1>3. \A k \in 0 .. n : k \in T
    BY <1>1, <1>2, Inductive
  <1>4. \A k \in 0 .. n : w[k] \in S
    BY <1>3 DEF T
  <1>5. w \in [0 .. n -> S]
    BY <1>4
  <1>6. ASSUME NEW k \in 1 .. n PROVE w[k] = g[w[k - 1]]
    <2>1. k - 1 \in 0 .. n
      OBVIOUS
    <2>. QED
      BY <1>4, <2>1
  <1>. QED
    BY <1>5, <1>6 DEF Iterated
=============================================================================

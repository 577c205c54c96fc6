---------------------------- MODULE SetInduction ----------------------------
(***************************************************************************)
(* Induction over the natural numbers, stated with a set in the place of a *)
(* predicate: the set of the numbers of which something holds. It rests on *)
(* the well-founded ordering of the finite sets.                           *)
(***************************************************************************)
EXTENDS Integers, FiniteSetTheorems, WellFoundedInduction, TLAPS

\* A set of natural numbers that is not empty has a least element.
LEMMA Least ==
    ASSUME NEW T, T \subseteq Nat, T # {}
    PROVE  \E n \in T : \A m \in T : n <= m
<1> DEFINE I == {0..n : n \in T}
           R == StrictSubsetOrdering(Nat)
<1>1. IsWellFoundedOn(R, FiniteSubsetsOf(Nat))
  BY FS_StrictSubsetOrderingWellFounded
<1>2. \A n \in T : n \in Nat /\ (0..n) \in SUBSET Nat /\ IsFiniteSet(0..n)
  <2> TAKE n \in T
  <2>1. n \in Nat /\ n \in Int /\ 0 \in Int
    OBVIOUS
  <2>2. IsFiniteSet(0..n)
    BY <2>1, FS_Interval
  <2> QED BY <2>1, <2>2
<1>3. I \subseteq FiniteSubsetsOf(Nat) /\ I # {}
  BY <1>2 DEF FiniteSubsetsOf
<1>4. PICK x \in I : \A y \in I : ~(<<y, x>> \in R)
  <2> HIDE DEF I, R
  <2> QED BY <1>1, <1>3, WFMin
<1>5. PICK n \in T : x = 0..n
  BY <1>4
<1>6. ASSUME NEW m \in T, m < n PROVE FALSE
  <2>0. m \in Nat /\ n \in Nat
    BY <1>6
  <2>1. 0..m \subseteq 0..n /\ 0..m # 0..n
    <3>1. n \in 0..n /\ n \notin 0..m
      BY <1>6, <2>0
    <3> QED BY <1>6, <2>0, <3>1
  <2>2. <<0..m, 0..n>> \in R
    BY <2>1, <2>0 DEF StrictSubsetOrdering
  <2>3. 0..m \in I
    OBVIOUS
  <2> QED BY <1>4, <1>5, <2>2, <2>3
<1> QED BY <1>5, <1>6

\* A set that has 0, and with a number the next, has every natural number.
LEMMA NatSet ==
    ASSUME NEW S, 0 \in S, \A n \in Nat : n \in S => n + 1 \in S
    PROVE  Nat \subseteq S
<1> DEFINE T == Nat \ S
<1> SUFFICES ASSUME T # {} PROVE FALSE
  OBVIOUS
<1>1. PICK n \in T : \A m \in T : n <= m
  <2>1. T \subseteq Nat
    OBVIOUS
  <2> HIDE DEF T
  <2> QED BY <2>1, Least
<1>2. n # 0 /\ n - 1 \in Nat
  BY <1>1
<1>3. n - 1 \in S
  BY <1>1, <1>2
<1> QED BY <1>1, <1>2, <1>3


\* Upwards from q to n.
LEMMA UpFrom ==
    ASSUME NEW q \in Int, NEW n \in Int, NEW S, q \in S,
           \A r \in q..n - 1 : r \in S => r + 1 \in S
    PROVE  q..n \subseteq S
<1> DEFINE T == {k \in Nat : q + k <= n => q + k \in S}
<1>1. 0 \in T
  OBVIOUS
<1>2. \A k \in Nat : k \in T => k + 1 \in T
  <2> SUFFICES ASSUME NEW k \in Nat, k \in T, q + (k + 1) <= n
               PROVE  q + (k + 1) \in S
    OBVIOUS
  <2>1. q + k \in q..n - 1 /\ q + (k + 1) = (q + k) + 1
    OBVIOUS
  <2> QED BY <2>1
<1>3. Nat \subseteq T
  <2> HIDE DEF T
  <2> QED BY <1>1, <1>2, NatSet
<1>4. ASSUME NEW r \in q..n PROVE r \in S
  <2>1. r - q \in Nat /\ q + (r - q) = r
    OBVIOUS
  <2>2. r - q \in T
    BY <1>3, <2>1
  <2> QED BY <2>1, <2>2
<1> QED BY <1>4

\* Downwards from n: what holds of i when it holds of everything behind it.
LEMMA DownFrom ==
    ASSUME NEW n \in Nat, NEW S,
           \A i \in 0..n : (\A j \in i + 1..n : j \in S) => i \in S
    PROVE  0..n \subseteq S
<1> DEFINE T == {k \in Nat : k <= n /\ n - k \notin S}
<1> SUFFICES ASSUME NEW i \in 0..n, i \notin S PROVE FALSE
  OBVIOUS
<1>1. n - i \in T
  BY n - (n - i) = i
<1>2. PICK k \in T : \A m \in T : k <= m
  <2>1. T \subseteq Nat
    OBVIOUS
  <2> HIDE DEF T
  <2> QED BY <1>1, <2>1, Least
<1>3. \A j \in (n - k) + 1..n : j \in S
  <2> SUFFICES ASSUME NEW j \in (n - k) + 1..n, j \notin S PROVE FALSE
    OBVIOUS
  <2>1. n - j \in T
    BY n - (n - j) = j
  <2> QED BY <1>2, <2>1
<1> QED BY <1>2, <1>3

=============================================================================

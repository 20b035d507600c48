---------------------------- MODULE HBind_proofs ----------------------------
(***************************************************************************)
(* Induction and recursion over the indices of a sequence, as Fold of      *)
(* HBind does it, for sets: a predicate is the set of what satisfies it.   *)
(***************************************************************************)
EXTENDS Naturals, Sequences, SequenceTheorems, WellFoundedInduction, TLAPS

-----------------------------------------------------------------------------
(* Induction, for sets.                                                    *)

Smaller == {ss \in Nat \X Nat : ss[1] < ss[2]}

LEMMA LeastNumber ==
  ASSUME NEW T, T \subseteq Nat, T # {}
  PROVE  \E m \in T : \A k \in T : m <= k
<1>1. IsWellFoundedOn(Smaller, Nat)
  BY NatLessThanWellFounded DEF OpToRel, Smaller
<1>2. PICK m \in T : \A y \in T : ~(<<y, m>> \in Smaller)
  BY <1>1, WFMin
<1>3. \A k \in T : m <= k
  <2> TAKE k \in T
  <2>1. k \in Nat /\ m \in Nat
    OBVIOUS
  <2>2. ~(<<k, m>> \in Smaller)
    BY <1>2
  <2>3. ~(k < m)
    BY <2>1, <2>2 DEF Smaller
  <2> QED
    BY <2>1, <2>3
<1> QED
  BY <1>3

(* A set that has zero and with every index the next one has all of them. *)
LEMMA Induction ==
  ASSUME NEW n \in Nat, NEW P, 0 \in P, \A i \in 1 .. n : i - 1 \in P => i \in P
  PROVE  \A i \in 0 .. n : i \in P
<1> SUFFICES ASSUME NEW j \in 0 .. n, j \notin P PROVE FALSE
  OBVIOUS
<1> DEFINE T == {i \in 0 .. n : i \notin P}
<1>1. T \subseteq Nat /\ T # {}
  OBVIOUS
<1>2. PICK m \in T : \A k \in T : m <= k
  BY <1>1, LeastNumber
<1>3. m # 0 /\ m \in 1 .. n /\ m - 1 \in 0 .. n
  BY <1>2
<1>4. m - 1 \notin T
  BY <1>2, <1>3
<1> QED
  BY <1>2, <1>3, <1>4

(* The results that the steps F lead to from start, index by index. *)
Results(n, S, start, F) ==
  {g \in [0 .. n -> S] : g[0] = start /\ \A i \in 1 .. n : g[i] = F[<<g[i - 1], i>>]}

(* What is defined by a step from each index to the next exists. *)
LEMMA Recursion ==
  ASSUME NEW n \in Nat, NEW S, NEW start \in S, NEW F \in [S \X (1 .. n) -> S]
  PROVE  Results(n, S, start, F) # {}
<1> DEFINE Good(m, g) == /\ g \in [0 .. m -> S]
                         /\ g[0] = start
                         /\ \A i \in 1 .. m : g[i] = F[<<g[i - 1], i>>]
           P == {m \in 0 .. n : \E g : Good(m, g)}
<1>1. 0 \in P
  <2> DEFINE first == [i \in 0 .. 0 |-> start]
  <2>1. Good(0, first)
    OBVIOUS
  <2> HIDE DEF Good, first
  <2>2. \E g : Good(0, g)
    BY <2>1
  <2> QED
    BY <2>2
<1>2. ASSUME NEW m \in 1 .. n, m - 1 \in P
      PROVE  m \in P
  <2>1. PICK g : Good(m - 1, g)
    BY <1>2
  <2> DEFINE h == [i \in 0 .. m |-> IF i = m THEN F[<<g[m - 1], m>>] ELSE g[i]]
  <2>2. m - 1 \in 0 .. (m - 1) /\ \A i \in 0 .. m : i # m => i \in 0 .. (m - 1)
    OBVIOUS
  <2>3. g[m - 1] \in S
    BY <2>1, <2>2
  <2>4. F[<<g[m - 1], m>>] \in S
    BY <2>3
  <2>5. h \in [0 .. m -> S]
    BY <2>1, <2>2, <2>4
  <2>6. h[0] = start
    BY <2>1
  <2>7. ASSUME NEW i \in 1 .. m PROVE h[i] = F[<<h[i - 1], i>>]
    <3>1. i - 1 \in 0 .. m /\ i - 1 # m /\ i \in 0 .. m
      OBVIOUS
    <3>2. h[i - 1] = g[i - 1]
      BY <3>1
    <3>3. CASE i = m
      BY <3>1, <3>2, <3>3
    <3>4. CASE i # m
      BY <2>1, <3>1, <3>2, <3>4
    <3> QED
      BY <3>3, <3>4
  <2> HIDE DEF h
  <2>8. Good(m, h)
    BY <2>5, <2>6, <2>7
  <2> HIDE DEF Good
  <2> QED
    BY <2>8
<1> HIDE DEF P
<1>3. n \in P
  BY <1>1, <1>2, Induction
<1>4. PICK g : Good(n, g)
  BY <1>3 DEF P
<1>5. g \in Results(n, S, start, F)
  BY <1>4 DEF Results
<1> QED
  BY <1>5
=============================================================================

----------------------------- MODULE LeastNumber -----------------------------
(***************************************************************************)
(* Every set of natural numbers that is not empty has a least one.  The    *)
(* definitions that CHOOSE a first place rest on it.  It follows from the  *)
(* well-founded order of finite sets, where n stands for 1..n.             *)
(*                                                                         *)
(* Induction over the numbers, stated for a set of them, and that what is  *)
(* defined step by step exists, follow from it in turn.                    *)
(***************************************************************************)
EXTENDS Integers, FiniteSetTheorems, WellFoundedInduction, TLAPS

(* A set of places, such as those where a name or a bad message is found,  *)
(* has a first one.                                                        *)
LEMMA LeastOf ==
  ASSUME NEW S \in SUBSET Nat, S # {}
  PROVE  \E m \in S : \A k \in S : m <= k
<1> DEFINE R == StrictSubsetOrdering(Nat)
           D == FiniteSubsetsOf(Nat)
           T == {X \in D : \E n \in S : X = 1..n}
<1>1. IsWellFoundedOn(R, D)
  BY FS_StrictSubsetOrderingWellFounded
<1>2. \A n \in Nat : 1..n \in D
  BY FS_Interval DEF FiniteSubsetsOf
<1>3. T \subseteq D /\ T # {}
  BY <1>2
<1>4. PICK X \in T : \A Y \in T : ~(<<Y, X>> \in R)
  <2> HIDE DEF R, D, T
  <2> QED
    BY <1>1, <1>3, WFMin, Zenon
<1>5. PICK m \in S : X = 1..m
  BY <1>4
<1>6. ASSUME NEW k \in S, k < m
      PROVE  FALSE
  <2>1. 1..k \in T
    BY <1>2
  <2>2. 1..k \subseteq 1..m /\ 1..m \subseteq Nat
    BY <1>6
  <2>3. 1..k # 1..m
    <3>1. m \in 1..m /\ m \notin 1..k
      BY <1>6
    <3> QED
      BY <3>1
  <2>4. <<1..k, 1..m>> \in R
    BY <2>2, <2>3 DEF StrictSubsetOrdering
  <2> QED
    BY <1>4, <1>5, <2>1, <2>4
<1> QED
  BY <1>6

(* Induction over the natural numbers, for a set of them. *)
LEMMA Induction ==
  ASSUME NEW S \in SUBSET Nat, 0 \in S, \A n \in S : n + 1 \in S
  PROVE  S = Nat
<1> SUFFICES ASSUME Nat \ S # {}
             PROVE  FALSE
  OBVIOUS
<1>1. PICK m \in Nat \ S : \A k \in Nat \ S : m <= k
  BY LeastOf
<1>2. m # 0 /\ m - 1 \in Nat /\ m - 1 \in S
  BY <1>1
<1> QED
  BY <1>1, <1>2

(* A computation of n steps: what it has after each of them. *)
RunsBy(f, base, step, n) ==
  f[0] = base /\ \A i \in 1..n : f[i] = step[<<i, f[i - 1]>>]

(* It exists: what a recursive function over the numbers up to n defines   *)
(* is a function.                                                          *)
LEMMA Recursion ==
  ASSUME NEW V, NEW base \in V, NEW step \in [Nat \X V -> V], NEW n \in Nat
  PROVE  \E f \in [0..n -> V] : RunsBy(f, base, step, n)
<1> DEFINE Good(m, f) == f[0] = base /\ \A i \in 1..m : f[i] = step[<<i, f[i - 1]>>]
           S == {m \in Nat : \E f \in [0..m -> V] : Good(m, f)}
<1>1. 0 \in S
  <2>1. Good(0, [i \in 0..0 |-> base])
    OBVIOUS
  <2>2. [i \in 0..0 |-> base] \in [0..0 -> V]
    OBVIOUS
  <2> QED
    BY <2>1, <2>2
<1>2. ASSUME NEW m \in S
      PROVE  m + 1 \in S
  <2>1. PICK f \in [0..m -> V] : Good(m, f)
    OBVIOUS
  <2> DEFINE g == [i \in 0..(m + 1) |-> IF i = m + 1 THEN step[<<m + 1, f[m]>>] ELSE f[i]]
  <2>2. m \in Nat /\ f[m] \in V /\ step[<<m + 1, f[m]>>] \in V
    OBVIOUS
  <2>3. g \in [0..(m + 1) -> V]
    BY <2>2
  <2>4. Good(m + 1, g)
    <3>1. g[0] = base
      BY <2>1, <2>2
    <3>2. ASSUME NEW i \in 1..(m + 1)
          PROVE  g[i] = step[<<i, g[i - 1]>>]
      <4>1. CASE i = m + 1
        <5>1. g[i - 1] = f[m] /\ g[i] = step[<<m + 1, f[m]>>]
          BY <2>2, <4>1
        <5> HIDE DEF g, Good
        <5> QED
          BY <4>1, <5>1
      <4>2. CASE i # m + 1
        <5>1. i \in 1..m /\ g[i] = f[i] /\ g[i - 1] = f[i - 1]
          BY <2>2, <4>2
        <5>2. f[i] = step[<<i, f[i - 1]>>]
          BY <2>1, <5>1
        <5> HIDE DEF g, Good
        <5> QED
          BY <5>1, <5>2
      <4> QED
        BY <4>1, <4>2
    <3> QED
      BY <3>1, <3>2
  <2> HIDE DEF Good, g
  <2> QED
    BY <2>2, <2>3, <2>4
<1>3. S = Nat
  <2> HIDE DEF S
  <2>1. S \in SUBSET Nat
    BY DEF S
  <2> QED
    BY <1>1, <1>2, <2>1, Induction
<1> QED
  BY <1>3 DEF RunsBy

(* What is computed step by step has its type if each step gives it. *)
LEMMA StepByStep ==
  ASSUME NEW V, NEW n \in Nat, NEW g, g[0] \in V,
         \A i \in 1..n : g[i - 1] \in V => g[i] \in V
  PROVE  \A i \in 0..n : g[i] \in V
<1> DEFINE P == {i \in Nat : i <= n => g[i] \in V}
<1>1. 0 \in P
  OBVIOUS
<1>2. ASSUME NEW i \in P
      PROVE  i + 1 \in P
  <2> SUFFICES ASSUME i + 1 <= n
               PROVE  g[i + 1] \in V
    OBVIOUS
  <2>1. i \in Nat /\ i + 1 \in 1..n /\ g[i] \in V /\ (i + 1) - 1 = i
    OBVIOUS
  <2> QED
    BY <2>1
<1>3. P = Nat
  <2>1. P \in SUBSET Nat
    OBVIOUS
  <2> HIDE DEF P
  <2> QED
    BY <1>1, <1>2, <2>1, Induction
<1> QED
  BY <1>3

(* What holds at the first place, and from each to the next, holds at all. *)
LEMMA Stepping ==
  ASSUME NEW n \in Nat, NEW S, 0 \in S, \A i \in 1..n : i - 1 \in S => i \in S
  PROVE  \A i \in 0..n : i \in S
<1> DEFINE P == {i \in Nat : i <= n => i \in S}
<1>1. 0 \in P
  OBVIOUS
<1>2. ASSUME NEW i \in P
      PROVE  i + 1 \in P
  <2>1. i + 1 <= n => i + 1 \in 1..n /\ (i + 1) - 1 = i /\ i \in S
    OBVIOUS
  <2> QED
    BY <2>1
<1>3. P = Nat
  <2>1. P \in SUBSET Nat
    OBVIOUS
  <2> HIDE DEF P
  <2> QED
    BY <1>1, <1>2, <2>1, Induction
<1> QED
  BY <1>3
=============================================================================

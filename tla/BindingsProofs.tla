--------------------------- MODULE BindingsProofs ---------------------------
(***************************************************************************)
(* Proofs about Bindings, for any document: the bounds that the generator  *)
(* derives for handlers suffice, and ask for no more; and the code is made *)
(* from what a plain document says (ScannerProofs, continued at the end).  *)
(*                                                                         *)
(* collect_transitive_returns is a search in the graph of the types that   *)
(* methods return.  It ends with what is closed under them (Closed), and   *)
(* it never goes where it need not (Reach).  BoundsSuffice says the same   *)
(* by as many rounds as there are objects, so RoundByRound counts what     *)
(* each round adds.  A loop over methods is a fold: Folding says that a    *)
(* fold is what its steps make it.                                         *)
(***************************************************************************)
EXTENDS Bindings, ScannerProofs

-----------------------------------------------------------------------------
(* Folds.                                                                  *)

(* What a fold over a sequence computes with: a function of the sets of    *)
(* its places that takes the last place first.                             *)
FoldsBy(f, base, step, n) ==
  f = [s \in SUBSET (1..n) |->
         IF s = {} THEN base ELSE step[<<Max(s), f[s \ {Max(s)}]>>]]

(* The last place of a set that has it. *)
LEMMA LastPlace ==
  ASSUME NEW n \in Nat, NEW s \in SUBSET (1..(n + 1)), n + 1 \in s
  PROVE  Max(s) = n + 1
<1>1. \A y \in s : n + 1 >= y
  OBVIOUS
<1>2. \A x \in s : (\A y \in s : x >= y) => x = n + 1
  OBVIOUS
<1> QED
  BY <1>1, <1>2 DEF Max

(* A set of places has a last one. *)
LEMMA MaxIn ==
  ASSUME NEW n \in Nat, NEW s \in SUBSET (1..n), s # {}
  PROVE  Max(s) \in s
<1> DEFINE T == {n - i : i \in s}
<1>1. T \in SUBSET Nat /\ T # {}
  <2>1. \A i \in s : n - i \in Nat
    OBVIOUS
  <2>2. PICK i \in s : TRUE
    OBVIOUS
  <2>3. n - i \in T
    OBVIOUS
  <2> QED
    BY <2>1, <2>3
<1>2. PICK m \in T : \A k \in T : m <= k
  <2> HIDE DEF T
  <2> QED
    BY <1>1, LeastOf
<1>3. PICK x \in s : m = n - x
  OBVIOUS
<1>4. \A y \in s : x >= y
  <2> SUFFICES ASSUME NEW y \in s
               PROVE  x >= y
    OBVIOUS
  <2>1. n - y \in T
    OBVIOUS
  <2>2. m <= n - y
    BY <1>2, <2>1
  <2> QED
    BY <1>3, <2>2
<1> QED
  BY <1>4 DEF Max

(* The function of a fold exists, so a fold is what its steps make it. *)
LEMMA Folding ==
  ASSUME NEW V, NEW base \in V, NEW step \in [Nat \X V -> V], NEW n \in Nat
  PROVE  \E f \in [SUBSET (1..n) -> V] : FoldsBy(f, base, step, n)
<1> DEFINE Q(m) == \E f \in [SUBSET (1..m) -> V] : FoldsBy(f, base, step, m)
           S == {m \in Nat : Q(m)}
<1>1. 0 \in S
  <2> DEFINE f == [s \in SUBSET (1..0) |-> base]
  <2>1. \A s \in SUBSET (1..0) : s = {}
    OBVIOUS
  <2>2. f = [s \in SUBSET (1..0) |->
               IF s = {} THEN base ELSE step[<<Max(s), f[s \ {Max(s)}]>>]]
    BY <2>1
  <2>3. FoldsBy(f, base, step, 0)
    BY <2>2 DEF FoldsBy
  <2>4. f \in [SUBSET (1..0) -> V]
    OBVIOUS
  <2> HIDE DEF f
  <2> QED
    BY <2>3, <2>4
<1>2. ASSUME NEW m \in S
      PROVE  m + 1 \in S
  <2>1. PICK f \in [SUBSET (1..m) -> V] : FoldsBy(f, base, step, m)
    OBVIOUS
  <2>0. m \in Nat
    OBVIOUS
  <2> DEFINE g == [s \in SUBSET (1..(m + 1)) |->
                     IF m + 1 \in s THEN step[<<m + 1, f[s \ {m + 1}]>>] ELSE f[s]]
  <2>2. ASSUME NEW s \in SUBSET (1..(m + 1))
        PROVE  s \ {m + 1} \in SUBSET (1..m) /\ (m + 1 \notin s => s \in SUBSET (1..m))
    BY <2>0
  <2>3. g \in [SUBSET (1..(m + 1)) -> V]
    BY <2>0, <2>2
  <2>4. ASSUME NEW s \in SUBSET (1..(m + 1))
        PROVE  g[s] = IF s = {} THEN base ELSE step[<<Max(s), g[s \ {Max(s)}]>>]
    <3>1. CASE m + 1 \in s
      <4>1. Max(s) = m + 1
        BY <2>0, <3>1, LastPlace
      <4>2. g[s \ {m + 1}] = f[s \ {m + 1}]
        BY <2>0, <2>2
      <4> QED
        BY <3>1, <4>1, <4>2
    <3>2. CASE m + 1 \notin s
      <4>1. s \in SUBSET (1..m) /\ g[s] = f[s]
        BY <2>2, <3>2
      <4>2. f[s] = IF s = {} THEN base ELSE step[<<Max(s), f[s \ {Max(s)}]>>]
        BY <2>1, <4>1 DEF FoldsBy
      <4>3. s # {} => g[s \ {Max(s)}] = f[s \ {Max(s)}]
        BY <2>0, <3>2, <4>1
      <4> QED
        BY <4>1, <4>2, <4>3
    <3> QED
      BY <3>1, <3>2
  <2>5. FoldsBy(g, base, step, m + 1)
    <3> DEFINE h == [s \in SUBSET (1..(m + 1)) |->
                       IF s = {} THEN base ELSE step[<<Max(s), g[s \ {Max(s)}]>>]]
    <3>1. \A s \in SUBSET (1..(m + 1)) : g[s] = h[s]
      BY <2>4
    <3>2. DOMAIN g = SUBSET (1..(m + 1)) /\ DOMAIN h = SUBSET (1..(m + 1))
      OBVIOUS
    <3>3. g = h
      <4>1. g = [s \in SUBSET (1..(m + 1)) |-> g[s]] /\ h = [s \in SUBSET (1..(m + 1)) |-> h[s]]
        OBVIOUS
      <4> HIDE DEF g, h
      <4> QED
        BY <3>1, <3>2, <4>1
    <3> HIDE DEF g
    <3> QED
      BY <3>3 DEF FoldsBy
  <2> HIDE DEF g
  <2> QED
    BY <2>0, <2>3, <2>5
<1>3. S = Nat
  <2> HIDE DEF S
  <2>1. S \in SUBSET Nat
    BY DEF S
  <2> QED
    BY <1>1, <1>2, <2>1, Induction
<1> QED
  BY <1>3

(* Without its last place, a prefix of the places is the one before. *)
LEMMA UpTo ==
  ASSUME NEW i \in Nat \ {0}
  PROVE  1..i # {} /\ (1..i) \ {i} = 1..(i - 1) /\ Max(1..i) = i
<1>1. 1..i # {} /\ (1..i) \ {i} = 1..(i - 1)
  OBVIOUS
<1>2. Max(1..i) = i
  BY DEF Max
<1> QED
  BY <1>1, <1>2

-----------------------------------------------------------------------------
(* What is reached from a type, by the types their methods return.         *)

(* The types a set of types returns are in it; what is reached from one    *)
(* type is what every such set with it has.                                *)
Closed(ret, C) == \A x \in C : ret[x] \subseteq C
Reach(ret, T, name) ==
  {x \in T : \A C \in SUBSET T : name \in C /\ Closed(ret, C) => x \in C}

(* What is reached from a type is the least set that has it and is closed. *)
LEMMA Reaches ==
  ASSUME NEW T, NEW ret \in [T -> SUBSET T], NEW name \in T
  PROVE  /\ name \in Reach(ret, T, name)
         /\ Reach(ret, T, name) \in SUBSET T
         /\ Closed(ret, Reach(ret, T, name))
         /\ \A C \in SUBSET T : name \in C /\ Closed(ret, C) => Reach(ret, T, name) \subseteq C
BY DEF Reach, Closed

(* From a type that is reached no more is reached. *)
LEMMA Within1 ==
  ASSUME NEW T, NEW ret \in [T -> SUBSET T], NEW name \in T,
         NEW r \in Reach(ret, T, name)
  PROVE  Reach(ret, T, r) \subseteq Reach(ret, T, name)
<1>1. r \in T /\ Reach(ret, T, name) \in SUBSET T /\ Closed(ret, Reach(ret, T, name))
  BY Reaches
<1> QED
  BY <1>1, Reaches

(* To take in what is returned, as often as there are types that return    *)
(* anything, reaches all: each round that is not the last one needed meets *)
(* another of them.                                                        *)
LEMMA RoundByRound ==
  ASSUME NEW T, NEW ret \in [T -> SUBSET T], NEW name \in T,
         NEW N \in SUBSET T, \A x \in T \ N : ret[x] = {}, name \in N,
         NEW n \in Nat, IsFiniteSet(N), Cardinality(N) <= n,
         NEW f \in [0..n -> SUBSET T], f[0] = {name},
         \A i \in 1..n : f[i] = f[i - 1] \cup UNION {ret[x] : x \in f[i - 1]}
  PROVE  f[n] = Reach(ret, T, name)
<1> DEFINE R == Reach(ret, T, name)
           Met(i) == Cardinality(f[i] \cap N)
           Good(i) == /\ name \in f[i] /\ f[i] \subseteq R
                      /\ Closed(ret, f[i]) \/ Met(i) >= i + 1
           S == {i \in 0..n : Good(i)}
<1>1. /\ name \in R /\ R \in SUBSET T /\ Closed(ret, R)
      /\ \A C \in SUBSET T : name \in C /\ Closed(ret, C) => R \subseteq C
  BY Reaches
<1>2. ASSUME NEW i \in 0..n
      PROVE  /\ f[i] \in SUBSET T /\ f[i] \cap N \in SUBSET N
             /\ IsFiniteSet(f[i] \cap N) /\ Met(i) \in Nat /\ Met(i) <= n
  <2>1. f[i] \in SUBSET T /\ f[i] \cap N \in SUBSET N
    OBVIOUS
  <2>2. IsFiniteSet(f[i] \cap N) /\ Met(i) <= Cardinality(N)
    BY <2>1, FS_Subset
  <2>3. Met(i) \in Nat /\ Cardinality(N) \in Nat
    BY <2>2, FS_CardinalityType
  <2> HIDE DEF Met
  <2> QED
    BY <2>1, <2>2, <2>3
<1>3. 0 \in S
  <2>1. f[0] \cap N = {name}
    OBVIOUS
  <2>2. Met(0) = 1
    BY <2>1, FS_Singleton
  <2>3. 0 \in 0..n
    OBVIOUS
  <2> HIDE DEF R, Met
  <2> QED
    BY <1>1, <2>2, <2>3
<1>4. ASSUME NEW i \in 1..n, i - 1 \in S
      PROVE  i \in S
  <2> DEFINE near == f[i - 1]
  <2>1. i \in 0..n /\ i - 1 \in 0..n /\ Good(i - 1)
    BY <1>4
  <2>2. f[i] = near \cup UNION {ret[x] : x \in near} /\ near \subseteq T
    BY <2>1
  <2>3. name \in f[i] /\ near \subseteq f[i]
    BY <2>1, <2>2
  <2>4. f[i] \subseteq R
    BY <1>1, <2>1, <2>2 DEF Closed
  <2>5. CASE Closed(ret, near)
    <3>1. f[i] = near
      BY <2>2, <2>5 DEF Closed
    <3> HIDE DEF R, Met
    <3> QED
      BY <2>1, <2>3, <2>4, <2>5, <3>1
  <2>6. CASE Met(i - 1) >= (i - 1) + 1 /\ f[i] \cap N = near \cap N
    <3>1. Closed(ret, f[i])
      <4> SUFFICES ASSUME NEW x \in f[i]
                   PROVE  ret[x] \subseteq f[i]
        BY DEF Closed
      <4>1. x \in N => x \in near
        BY <2>6
      <4>2. x \in T
        BY <2>2
      <4> QED
        BY <2>2, <4>1, <4>2
    <3> HIDE DEF R, Met
    <3> QED
      BY <2>1, <2>3, <2>4, <3>1
  <2>7. CASE Met(i - 1) >= (i - 1) + 1 /\ f[i] \cap N # near \cap N
    <3>1. near \cap N \in SUBSET (f[i] \cap N)
      BY <2>3
    <3>2. IsFiniteSet(f[i] \cap N)
      BY <1>2, <2>1
    <3>3. Met(i - 1) <= Met(i) /\ Met(i) # Met(i - 1)
      BY <2>7, <3>1, <3>2, FS_Subset
    <3>4. Met(i) \in Nat /\ Met(i - 1) \in Nat
      BY <1>2, <2>1
    <3> HIDE DEF Met, near, R
    <3>5. Met(i) >= i + 1
      BY <2>7, <3>3, <3>4
    <3> QED
      BY <2>1, <2>3, <2>4, <3>5
  <2> HIDE DEF Met
  <2> QED
    BY <2>1, <2>5, <2>6, <2>7
<1>5. n \in S
  <2>1. \A i \in 0..n : i \in S
    <3> HIDE DEF S
    <3> QED
      BY <1>3, <1>4, Stepping
  <2> HIDE DEF S
  <2> QED
    BY <2>1
<1>6. n \in 0..n /\ Met(n) <= n /\ Met(n) \in Nat
  BY <1>2
<1> HIDE DEF R, Met
<1>7. Closed(ret, f[n])
  BY <1>5, <1>6
<1> QED
  BY <1>1, <1>5, <1>7 DEF R

(* The same, of rounds that are named. *)
RoundsOn(T, ret, N, n, f, name) ==
  /\ ret \in [T -> SUBSET T] /\ N \in SUBSET T /\ name \in N /\ \A x \in T \ N : ret[x] = {}
  /\ n \in Nat /\ IsFiniteSet(N) /\ Cardinality(N) <= n
  /\ f \in [0..n -> SUBSET T] /\ f[0] = {name}
  /\ \A i \in 1..n : f[i] = f[i - 1] \cup UNION {ret[x] : x \in f[i - 1]}

LEMMA RoundsEnd ==
  ASSUME NEW T, NEW ret, NEW N, NEW n, NEW f, NEW name, RoundsOn(T, ret, N, n, f, name)
  PROVE  f[n] = Reach(ret, T, name)
<1>1. /\ ret \in [T -> SUBSET T] /\ N \in SUBSET T /\ name \in N /\ name \in T
      /\ \A x \in T \ N : ret[x] = {}
  BY DEF RoundsOn
<1>2. n \in Nat /\ IsFiniteSet(N) /\ Cardinality(N) <= n
  BY DEF RoundsOn
<1>3. /\ f \in [0..n -> SUBSET T] /\ f[0] = {name}
      /\ \A i \in 1..n : f[i] = f[i - 1] \cup UNION {ret[x] : x \in f[i - 1]}
  BY DEF RoundsOn
<1> QED
  BY ONLY <1>1, <1>2, <1>3, RoundByRound

-----------------------------------------------------------------------------
(* Sequences.                                                              *)

(* One more element, of the set. *)
LEMMA AppendSeq ==
  ASSUME NEW A, NEW s \in Seq(A), NEW e \in A
  PROVE  Append(s, e) \in Seq(A) /\ Len(Append(s, e)) = Len(s) + 1
OBVIOUS

(* One more element, of any kind: Vec::push. *)
LEMMA AppendIsSeq ==
  ASSUME NEW s, IsSeq(s), NEW e
  PROVE  IsSeq(Append(s, e)) /\ ToSet(Append(s, e)) = ToSet(s) \cup {e}
         /\ Len(Append(s, e)) = Len(s) + 1
         /\ \A i \in 1..Len(s) : Append(s, e)[i] = s[i]
<1>0. DOMAIN s = 1..Len(s) /\ Len(s) \in Nat
  BY DEF IsSeq
<1>1. s \in Seq(ToSet(s) \cup {e}) /\ Append(s, e) \in Seq(ToSet(s) \cup {e})
  BY DEF IsSeq
<1>2. /\ Len(Append(s, e)) = Len(s) + 1
      /\ \A i \in 1..Len(s) : Append(s, e)[i] = s[i]
      /\ Append(s, e)[Len(s) + 1] = e
  BY DEF IsSeq
<1>3. DOMAIN Append(s, e) = 1..(Len(s) + 1)
  BY <1>1, <1>2
<1>4. ToSet(Append(s, e)) = ToSet(s) \cup {e}
  <2> DEFINE t == Append(s, e)
  <2> HIDE DEF t
  <2>1. \A i \in 1..Len(s) : t[i] = s[i]
    BY <1>2 DEF t
  <2>2. t[Len(s) + 1] = e /\ DOMAIN t = 1..(Len(s) + 1)
    BY <1>2, <1>3 DEF t
  <2>3. ToSet(t) = ToSet(s) \cup {e}
    BY <1>0, <2>1, <2>2 DEF ToSet
  <2> QED
    BY <2>3 DEF t
<1> QED
  BY <1>1, <1>2, <1>4 DEF IsSeq

-----------------------------------------------------------------------------
(* A search of collect_transitive_returns.                                 *)

(* What a method that returns no object returns. *)
Nothing == ""

(* The state of a search of collect_transitive_returns. *)
Searches(A) == [visited : SUBSET A, queue : Seq(A), result : Seq(A)]

(* To meet a type keeps the search one of the types there are. *)
LEMMA MeetStays ==
  ASSUME NEW A, NEW s \in Searches(A), NEW r \in A \cup {Nothing}
  PROVE  Meet(s, r) \in Searches(A)
<1>1. CASE r = Nothing \/ r \in s.visited
  BY <1>1 DEF Meet, Nothing
<1>2. CASE r # Nothing /\ r \notin s.visited
  <2>1. r \in A /\ s.visited \in SUBSET A /\ s.queue \in Seq(A) /\ s.result \in Seq(A)
    BY <1>2 DEF Searches
  <2>2. Append(s.queue, r) \in Seq(A) /\ Append(s.result, r) \in Seq(A)
    BY <2>1, AppendSeq
  <2>3. s.visited \cup {r} \in SUBSET A
    BY <2>1
  <2> QED
    BY <1>2, <2>2, <2>3 DEF Meet, Nothing, Searches
<1> QED
  BY <1>1, <1>2

(* The methods c return types of A, or nothing. *)
ReturnsIn(c, A) == \A i \in DOMAIN c : c[i].returns \in A \cup {Nothing}

(* The loop over an object's methods, step by step:                        *)
(* collect_transitive_returns meets what each returns.                     *)
LEMMA Meetings ==
  ASSUME NEW A, NEW c, IsSeq(c), NEW base \in Searches(A),
         ReturnsIn(c, A)
  PROVE  \E g \in [0..Len(c) -> Searches(A)] :
           /\ g[0] = base
           /\ \A i \in 1..Len(c) : g[i] = Meet(g[i - 1], c[i].returns)
           /\ MeetReturned(base, c) = g[Len(c)]
<1> DEFINE n == Len(c)
           V == Searches(A)
           step == [x \in Nat \X V |-> IF x[1] \in 1..n THEN Meet(x[2], c[x[1]].returns) ELSE x[2]]
<1>1. n \in Nat /\ DOMAIN c = 1..n
  BY Places
<1>2. step \in [Nat \X V -> V]
  <2>1. ASSUME NEW x \in Nat \X V
        PROVE  (IF x[1] \in 1..n THEN Meet(x[2], c[x[1]].returns) ELSE x[2]) \in V
    <3>1. x[2] \in V
      OBVIOUS
    <3>2. x[1] \in 1..n => c[x[1]].returns \in A \cup {Nothing}
      BY <1>1 DEF ReturnsIn
    <3> HIDE DEF n
    <3> QED
      BY <3>1, <3>2, MeetStays
  <2> HIDE DEF V, n
  <2> QED
    BY <2>1
<1>3. \A i \in 1..n, s \in V : step[<<i, s>>] = Meet(s, c[i].returns)
  <2> HIDE DEF V, n
  <2> SUFFICES ASSUME NEW i \in 1..n, NEW s \in V
               PROVE  step[<<i, s>>] = Meet(s, c[i].returns)
    OBVIOUS
  <2>1. i \in Nat /\ s \in V
    BY <1>1
  <2>2. step[<<i, s>>] = IF <<i, s>>[1] \in 1..n
                         THEN Meet(<<i, s>>[2], c[<<i, s>>[1]].returns) ELSE <<i, s>>[2]
    BY <2>1
  <2> QED
    BY <2>2
<1> DEFINE Iter(f) == f = [s \in SUBSET (1..n) |->
             IF s = {} THEN base ELSE Meet(f[s \ {Max(s)}], c[Max(s)].returns)]
<1>4. ASSUME NEW f \in [SUBSET (1..n) -> V], FoldsBy(f, base, step, n)
      PROVE  Iter(f)
  <2>1. ASSUME NEW s \in SUBSET (1..n), s # {}
        PROVE  step[<<Max(s), f[s \ {Max(s)}]>>] = Meet(f[s \ {Max(s)}], c[Max(s)].returns)
    <3>1. Max(s) \in 1..n
      BY <1>1, <2>1, MaxIn
    <3>2. s \ {Max(s)} \in SUBSET (1..n)
      OBVIOUS
    <3> QED
      BY <1>3, <3>1, <3>2
  <2> HIDE DEF step, V, n
  <2> QED
    BY <1>4, <2>1 DEF FoldsBy
<1> DEFINE it == CHOOSE f : Iter(f)
<1>5. Iter(it)
  <2>1. \E f \in [SUBSET (1..n) -> V] : FoldsBy(f, base, step, n)
    <3> HIDE DEF step, V, n
    <3> QED
      BY <1>1, <1>2, Folding DEF V
  <2> HIDE DEF Iter
  <2> QED
    BY <1>4, <2>1
<1>6. MeetReturned(base, c) = it[1..n]
  <2> HIDE DEF n
  <2> QED
    BY <1>1 DEF MeetReturned, FoldLeft, MapThenFoldSet
<1> DEFINE g == [i \in 0..n |-> it[1..i]]
<1>7. g[0] = base
  <2>1. 1..0 = {} /\ 1..0 \in SUBSET (1..n) /\ 0 \in 0..n
    BY <1>1
  <2>2. it[{}] = base
    BY <1>5, <2>1
  <2> HIDE DEF Iter, it, n
  <2> QED
    BY <2>1, <2>2
<1>8. ASSUME NEW i \in 1..n
      PROVE  g[i] = Meet(g[i - 1], c[i].returns)
  <2>1. 1..i \in SUBSET (1..n) /\ i \in Nat \ {0}
    BY <1>1
  <2>2. 1..i # {} /\ (1..i) \ {i} = 1..(i - 1) /\ Max(1..i) = i
    BY <2>1, UpTo
  <2>3. it[1..i] = Meet(it[(1..i) \ {Max(1..i)}], c[Max(1..i)].returns)
    <3> DEFINE h == [s \in SUBSET (1..n) |->
             IF s = {} THEN base ELSE Meet(it[s \ {Max(s)}], c[Max(s)].returns)]
    <3>1. it = h
      BY <1>5
    <3>2. h[1..i] = Meet(it[(1..i) \ {Max(1..i)}], c[Max(1..i)].returns)
      <4> HIDE DEF n, it, Iter
      <4> QED
        BY <2>1
    <3> HIDE DEF h, it, Iter
    <3> QED
      BY <3>1, <3>2
  <2>4. i \in 0..n /\ i - 1 \in 0..n
    BY <1>1
  <2> HIDE DEF it, n, Iter
  <2> QED
    BY <2>1, <2>2, <2>3, <2>4
<1>9. g \in [0..n -> V]
  <2>1. g[0] \in V
    <3> HIDE DEF g
    <3> QED
      BY <1>7
  <2>2. ASSUME NEW i \in 1..n, g[i - 1] \in V
        PROVE  g[i] \in V
    <3>1. c[i].returns \in A \cup {Nothing}
      BY <1>1 DEF ReturnsIn
    <3> HIDE DEF g
    <3> QED
      BY <1>8, <2>2, <3>1, MeetStays
  <2>3. \A i \in 0..n : g[i] \in V
    <3> HIDE DEF g, n, V
    <3> QED
      BY <1>1, <2>1, <2>2, StepByStep
  <2> HIDE DEF V, n, it
  <2> QED
    BY <2>3
<1> HIDE DEF it, Iter, V, step
<1> QED
  <2>1. MeetReturned(base, c) = g[n]
    <3>1. n \in 0..n
      BY <1>1
    <3> HIDE DEF n
    <3> QED
      BY <1>6, <3>1
  <2> HIDE DEF g
  <2> QED
    BY <1>7, <1>8, <1>9, <2>1 DEF V

(* One meeting: a type that is new is queued and noted, no other is. *)
LEMMA MeetOnce ==
  ASSUME NEW A, NEW s \in Searches(A), NEW r \in A \cup {Nothing}
  PROVE  /\ Meet(s, r).visited = s.visited \cup ({r} \ {Nothing})
         /\ ToSet(Meet(s, r).queue) = ToSet(s.queue) \cup ({r} \ (s.visited \cup {Nothing}))
         /\ ToSet(Meet(s, r).result) = ToSet(s.result) \cup ({r} \ (s.visited \cup {Nothing}))
<1>1. CASE r = Nothing \/ r \in s.visited
  BY <1>1 DEF Meet, Nothing
<1>2. CASE r # Nothing /\ r \notin s.visited
  <2>1. IsSeq(s.queue) /\ IsSeq(s.result)
    BY SeqIsSeq DEF Searches
  <2>2. /\ Meet(s, r).visited = s.visited \cup {r}
        /\ Meet(s, r).queue = Append(s.queue, r)
        /\ Meet(s, r).result = Append(s.result, r)
    BY <1>2 DEF Meet, Nothing
  <2>3. /\ ToSet(Append(s.queue, r)) = ToSet(s.queue) \cup {r}
        /\ ToSet(Append(s.result, r)) = ToSet(s.result) \cup {r}
    BY <2>1, AppendIsSeq
  <2>4. {r} \ {Nothing} = {r} /\ {r} \ (s.visited \cup {Nothing}) = {r}
    BY <1>2
  <2> QED
    BY <2>2, <2>3, <2>4
<1> QED
  BY <1>1, <1>2

(* What the methods c return. *)
Returned(c) == {c[j].returns : j \in DOMAIN c} \ {Nothing}

(* All meetings of one object: what its methods return and was not seen is *)
(* queued and noted, whichever returns what how often.                     *)
LEMMA MeetAll ==
  ASSUME NEW A, NEW c, IsSeq(c), NEW base \in Searches(A), ReturnsIn(c, A),
         NEW R, R = Returned(c),
         NEW s, s = MeetReturned(base, c)
  PROVE  /\ s \in Searches(A)
         /\ s.visited = base.visited \cup R
         /\ ToSet(s.queue) = ToSet(base.queue) \cup (R \ base.visited)
         /\ ToSet(s.result) = ToSet(base.result) \cup (R \ base.visited)
<1>1. PICK g \in [0..Len(c) -> Searches(A)] :
           /\ g[0] = base
           /\ \A i \in 1..Len(c) : g[i] = Meet(g[i - 1], c[i].returns)
           /\ MeetReturned(base, c) = g[Len(c)]
  BY Meetings
<1>2. DOMAIN c = 1..Len(c) /\ Len(c) \in Nat
  BY Places
<1> DEFINE n == Len(c)
           R1(i) == {c[j].returns : j \in 1..i} \ {Nothing}
           Good(i) == /\ g[i].visited = base.visited \cup R1(i)
                      /\ ToSet(g[i].queue) = ToSet(base.queue) \cup (R1(i) \ base.visited)
                      /\ ToSet(g[i].result) = ToSet(base.result) \cup (R1(i) \ base.visited)
           S == {i \in 0..n : Good(i)}
<1>3. 0 \in S
  <2>1. R1(0) = {}
    OBVIOUS
  <2> HIDE DEF R1
  <2> QED
    BY <1>1, <1>2, <2>1
<1>4. ASSUME NEW i \in 1..n, i - 1 \in S
      PROVE  i \in S
  <2> DEFINE r == c[i].returns
             t == g[i - 1]
  <2>1. t \in Searches(A) /\ r \in A \cup {Nothing} /\ g[i] = Meet(t, r)
    BY <1>1, <1>2 DEF ReturnsIn
  <2>2. R1(i) = R1(i - 1) \cup ({r} \ {Nothing})
    <3>1. 1..i = 1..(i - 1) \cup {i}
      BY <1>2
    <3>2. {c[j].returns : j \in 1..i} = {c[j].returns : j \in 1..(i - 1)} \cup {r}
      BY <3>1
    <3> HIDE DEF r
    <3> QED
      BY <3>2
  <2>3. Good(i - 1)
    <3>1. \A k \in S : Good(k)
      <4> HIDE DEF Good, n
      <4> QED
        OBVIOUS
    <3> HIDE DEF Good, S, n
    <3> QED
      BY <1>4, <3>1
  <2> HIDE DEF r, R1, t
  <2>4. /\ g[i].visited = t.visited \cup ({r} \ {Nothing})
        /\ ToSet(g[i].queue) = ToSet(t.queue) \cup ({r} \ (t.visited \cup {Nothing}))
        /\ ToSet(g[i].result) = ToSet(t.result) \cup ({r} \ (t.visited \cup {Nothing}))
    <3> DEFINE u == g[i]
    <3>1. u = Meet(t, r)
      BY <2>1
    <3> HIDE DEF u, Good, S, n
    <3>2. t \in Searches(A) /\ r \in A \cup {Nothing}
      BY <2>1
    <3>3. /\ u.visited = t.visited \cup ({r} \ {Nothing})
          /\ ToSet(u.queue) = ToSet(t.queue) \cup ({r} \ (t.visited \cup {Nothing}))
          /\ ToSet(u.result) = ToSet(t.result) \cup ({r} \ (t.visited \cup {Nothing}))
      BY ONLY <3>1, <3>2, MeetOnce
    <3> QED
      BY <3>3 DEF u
  <2>5. /\ t.visited = base.visited \cup R1(i - 1)
        /\ ToSet(t.queue) = ToSet(base.queue) \cup (R1(i - 1) \ base.visited)
        /\ ToSet(t.result) = ToSet(base.result) \cup (R1(i - 1) \ base.visited)
    BY <2>3 DEF t
  <2>6. Good(i)
    BY <2>2, <2>4, <2>5
  <2>7. i \in 0..n
    BY <1>2
  <2> QED
    BY <2>6, <2>7
<1>5. Good(n)
  <2>1. \A i \in 0..n : i \in S
    <3> HIDE DEF S
    <3> QED
      BY <1>2, <1>3, <1>4, Stepping
  <2>2. n \in 0..n
    BY <1>2
  <2> HIDE DEF Good
  <2> QED
    BY <2>1, <2>2
<1>6. R1(n) = R
  BY <1>2 DEF Returned
<1>7. s = g[n] /\ g[n] \in Searches(A)
  BY <1>1, <1>2
<1> HIDE DEF R1, n
<1> QED
  BY <1>5, <1>6, <1>7

-----------------------------------------------------------------------------
(* The objects of a document.                                              *)

(* The names of objects, and the place of the first object of a name. *)
NamesIn(objs) == {objs[i].name : i \in DOMAIN objs}

PlaceIn(objs, name) ==
  LET I == {i \in 1..Len(objs) : objs[i].name = name}
  IN IF I # {} THEN Min(I) ELSE 0

(* What the methods of the first object of a name return, and the types    *)
(* there are.                                                              *)
ReturnedBy(objs, name) ==
  IF name \in NamesIn(objs)
  THEN Returned(objs[PlaceIn(objs, name)].c2s)
  ELSE {}

TypesIn(objs) == NamesIn(objs) \cup UNION {ReturnedBy(objs, x) : x \in NamesIn(objs)}
RetsIn(objs) == [x \in TypesIn(objs) |-> ReturnedBy(objs, x)]
ReachIn(objs, name) == Reach(RetsIn(objs), TypesIn(objs), name)

(* What the parser leaves of objects: sequences, with sequences of         *)
(* methods.                                                                *)
ObjectsOK(objs) == IsSeq(objs) /\ \A i \in DOMAIN objs : IsSeq(objs[i].c2s)

(* A type without an object returns nothing. *)
LEMMA RetsOK ==
  ASSUME NEW objs
  PROVE  /\ RetsIn(objs) \in [TypesIn(objs) -> SUBSET TypesIn(objs)]
         /\ NamesIn(objs) \in SUBSET TypesIn(objs)
         /\ \A x \in TypesIn(objs) : RetsIn(objs)[x] = ReturnedBy(objs, x)
         /\ \A x \in TypesIn(objs) \ NamesIn(objs) : RetsIn(objs)[x] = {}
<1>1. \A x \in TypesIn(objs) : ReturnedBy(objs, x) \in SUBSET TypesIn(objs)
  BY DEF TypesIn, ReturnedBy
<1>2. \A x \in TypesIn(objs) \ NamesIn(objs) : ReturnedBy(objs, x) = {}
  BY DEF ReturnedBy
<1>3. NamesIn(objs) \in SUBSET TypesIn(objs)
  BY DEF TypesIn
<1> QED
  BY <1>1, <1>2, <1>3 DEF RetsIn

(* An object that is looked up by its name is found. *)
LEMMA FirstPlace ==
  ASSUME NEW objs, IsSeq(objs), NEW name \in NamesIn(objs)
  PROVE  PlaceIn(objs, name) \in DOMAIN objs /\ objs[PlaceIn(objs, name)].name = name
<1> DEFINE I == {i \in 1..Len(objs) : objs[i].name = name}
<1>1. DOMAIN objs = 1..Len(objs) /\ Len(objs) \in Nat
  BY Places
<1>2. I # {} /\ I \in SUBSET Nat
  BY <1>1 DEF NamesIn
<1>3. \E m \in I : \A k \in I : m <= k
  <2> HIDE DEF I
  <2> QED
    BY <1>2, LeastOf
<1>4. Min(I) \in I
  <2> HIDE DEF I
  <2> QED
    BY <1>3 DEF Min
<1>5. PlaceIn(objs, name) = Min(I)
  BY <1>2 DEF PlaceIn
<1>6. PlaceIn(objs, name) \in I
  <2> HIDE DEF I
  <2> QED
    BY <1>4, <1>5
<1> QED
  BY <1>1, <1>6

(* A type that no object is named like is not. *)
LEMMA NoPlace ==
  ASSUME NEW objs, IsSeq(objs), NEW name, name \notin NamesIn(objs)
  PROVE  PlaceIn(objs, name) = 0
<1>1. DOMAIN objs = 1..Len(objs)
  BY Places
<1> QED
  BY <1>1 DEF PlaceIn, NamesIn

(* There are no more names than objects. *)
LEMMA FewNames ==
  ASSUME NEW objs, IsSeq(objs)
  PROVE  IsFiniteSet(NamesIn(objs)) /\ Cardinality(NamesIn(objs)) <= Len(objs)
<1> DEFINE n == Len(objs)
           f == [i \in 1..n |-> objs[i].name]
<1>1. DOMAIN objs = 1..n /\ n \in Nat
  BY Places
<1>2. f \in Surjection(1..n, NamesIn(objs))
  BY <1>1 DEF Surjection, NamesIn
<1>3. IsFiniteSet(1..n)
  BY <1>1, FS_Interval
<1>4. ExistsSurjection(1..n, NamesIn(objs))
  BY <1>2 DEF ExistsSurjection
<1> HIDE DEF n, f
<1> QED
  BY <1>1, <1>2, <1>3, <1>4, FS_Surjection, FS_SurjCardinalityBound DEF n

(* The bounds derived so far are what is reached from the object, the      *)
(* object itself aside.                                                    *)
BoundsRight(objs, bs) ==
  /\ IsSeq(bs) /\ Len(bs) <= Len(objs)
  /\ \A i \in 1..Len(bs) :
       IsSeq(bs[i]) /\ {objs[i].name} \cup ToSet(bs[i]) = ReachIn(objs, objs[i].name)

(* A search that is underway: it has been where it may come, and what it   *)
(* saw is queued or was looked at.                                         *)
SearchFor(objs, name, s) ==
  /\ s \in Searches(TypesIn(objs))
  /\ s.visited \subseteq ReachIn(objs, name)
  /\ name \in s.visited /\ {name} \cup ToSet(s.result) = s.visited
  /\ ToSet(s.queue) \subseteq s.visited
  /\ \A x \in s.visited : x \in ToSet(s.queue) \/ RetsIn(objs)[x] \subseteq s.visited

(* A search begins with the object alone. *)
LEMMA VisitBegins ==
  ASSUME NEW objs, NEW name \in NamesIn(objs)
  PROVE  SearchFor(objs, name, [visited |-> {name}, queue |-> <<name>>, result |-> <<>>])
<1>1. name \in TypesIn(objs) /\ name \in ReachIn(objs, name)
  BY RetsOK, Reaches DEF ReachIn
<1>2. /\ <<name>> \in Seq(TypesIn(objs)) /\ <<>> \in Seq(TypesIn(objs))
      /\ ToSet(<<name>>) = {name} /\ ToSet(<<>>) = {}
  BY <1>1 DEF ToSet
<1> QED
  BY <1>1, <1>2 DEF SearchFor, Searches

(* With an empty queue, all that is reached was seen. *)
LEMMA VisitEnds ==
  ASSUME NEW objs, NEW name \in TypesIn(objs), NEW s, SearchFor(objs, name, s), s.queue = <<>>
  PROVE  IsSeq(s.result) /\ {name} \cup ToSet(s.result) = ReachIn(objs, name)
<1>1. ToSet(s.queue) = {}
  BY DEF ToSet
<1>2. s.visited \in SUBSET TypesIn(objs) /\ Closed(RetsIn(objs), s.visited)
  BY <1>1 DEF SearchFor, Searches, Closed
<1>3. ReachIn(objs, name) \subseteq s.visited
  BY <1>2, RetsOK, Reaches DEF ReachIn, SearchFor
<1>4. IsSeq(s.result)
  BY SeqIsSeq DEF SearchFor, Searches
<1> QED
  BY <1>3, <1>4 DEF SearchFor

(* One round of the search: the next type of the queue, if an object has   *)
(* its name.                                                               *)
LEMMA Visits ==
  ASSUME NEW objs, ObjectsOK(objs), NEW name \in TypesIn(objs),
         NEW s, SearchFor(objs, name, s), s.queue # <<>>,
         NEW rest, rest = [s EXCEPT !.queue = Tail(@)],
         NEW t, t = IF Head(s.queue) \in NamesIn(objs)
                    THEN MeetReturned(rest, objs[PlaceIn(objs, Head(s.queue))].c2s)
                    ELSE rest
  PROVE  SearchFor(objs, name, t)
<1> DEFINE T == TypesIn(objs)
           current == Head(s.queue)
           c == objs[PlaceIn(objs, current)].c2s
<1>1. s \in Searches(T) /\ s.queue \in Seq(T)
  BY DEF SearchFor, Searches
<1>2. /\ current \in T /\ Tail(s.queue) \in Seq(T)
      /\ ToSet(s.queue) = {current} \cup ToSet(Tail(s.queue))
  <2> DEFINE q == s.queue
  <2>1. q \in Seq(T) /\ q # <<>>
    BY <1>1
  <2> HIDE DEF q, T
  <2>2. Head(q) \in T /\ Tail(q) \in Seq(T) /\ Head(q) = q[1] /\ Len(q) >= 1
        /\ DOMAIN q = 1..Len(q) /\ DOMAIN Tail(q) = 1..(Len(q) - 1)
        /\ \A i \in 1..(Len(q) - 1) : Tail(q)[i] = q[i + 1]
    BY <2>1
  <2>3. ToSet(q) = {Head(q)} \cup ToSet(Tail(q))
    <3> DEFINE u == Tail(q)
               h == Head(q)
    <3>1. h = q[1] /\ \A i \in 1..(Len(q) - 1) : u[i] = q[i + 1]
      BY <2>2
    <3>2. DOMAIN q = 1..Len(q) /\ DOMAIN u = 1..(Len(q) - 1) /\ Len(q) \in Nat /\ Len(q) >= 1
      BY <2>1, <2>2
    <3> HIDE DEF u, h
    <3>3. \A i \in 2..Len(q) : i - 1 \in 1..(Len(q) - 1) /\ u[i - 1] = q[i]
      BY <3>1, <3>2
    <3>4. ToSet(q) = {h} \cup ToSet(u)
      BY <3>1, <3>2, <3>3 DEF ToSet
    <3> QED
      BY <3>4 DEF u, h
  <2> QED
    BY <2>2, <2>3 DEF q
<1>3. /\ rest \in Searches(T) /\ rest.visited = s.visited /\ rest.result = s.result
      /\ rest.queue = Tail(s.queue)
  BY <1>1, <1>2 DEF Searches
<1>4. current \in s.visited /\ current \in ReachIn(objs, name)
  BY <1>2 DEF SearchFor
<1> DEFINE R == RetsIn(objs)[current]
<1>5. /\ t \in Searches(T) /\ t.visited = s.visited \cup R
      /\ ToSet(t.queue) = ToSet(Tail(s.queue)) \cup (R \ s.visited)
      /\ ToSet(t.result) = ToSet(s.result) \cup (R \ s.visited)
  <2>1. CASE current \in NamesIn(objs)
    <3>1. IsSeq(c)
      BY <2>1, FirstPlace DEF ObjectsOK
    <3>2. R = Returned(c)
      <4>1. R = ReturnedBy(objs, current)
        <5> HIDE DEF current
        <5> QED
          BY <1>2, RetsOK
      <4>2. ReturnedBy(objs, current) = Returned(c)
        <5> HIDE DEF R, current
        <5> QED
          BY <2>1 DEF ReturnedBy
      <4> HIDE DEF R, current, c
      <4> QED
        BY <4>1, <4>2
    <3>3. ReturnsIn(c, T)
      <4>1. R \subseteq T
        BY <1>2, RetsOK
      <4> HIDE DEF c, T, R
      <4> QED
        BY <3>2, <4>1 DEF ReturnsIn, Returned
    <3>4. t = MeetReturned(rest, c)
      BY <2>1
    <3> HIDE DEF c, T, R, current
    <3>5. rest \in Searches(T)
      BY <1>3
    <3>6. /\ t \in Searches(T)
          /\ t.visited = rest.visited \cup R
          /\ ToSet(t.queue) = ToSet(rest.queue) \cup (R \ rest.visited)
          /\ ToSet(t.result) = ToSet(rest.result) \cup (R \ rest.visited)
      BY ONLY <3>1, <3>2, <3>3, <3>4, <3>5, MeetAll
    <3> QED
      BY <1>3, <3>6
  <2>2. CASE current \notin NamesIn(objs)
    <3>1. R = {}
      BY <1>2, <2>2, RetsOK
    <3>2. t = rest
      BY <2>2
    <3> HIDE DEF R
    <3> QED
      BY <1>3, <3>1, <3>2
  <2> QED
    BY <2>1, <2>2
<1>6. R \subseteq ReachIn(objs, name)
  BY <1>4, RetsOK, Reaches DEF ReachIn, Closed
<1> HIDE DEF R, current, T
<1>7. /\ t.visited \subseteq ReachIn(objs, name)
      /\ name \in t.visited /\ {name} \cup ToSet(t.result) = t.visited
      /\ ToSet(t.queue) \subseteq t.visited
  BY <1>2, <1>5, <1>6 DEF SearchFor
<1>8. \A x \in t.visited : x \in ToSet(t.queue) \/ RetsIn(objs)[x] \subseteq t.visited
  <2> SUFFICES ASSUME NEW x \in t.visited, x \notin ToSet(t.queue)
               PROVE  RetsIn(objs)[x] \subseteq t.visited
    OBVIOUS
  <2>1. CASE x = current
    BY <1>5, <2>1 DEF R
  <2>2. CASE x # current
    <3>1. x \in s.visited /\ x \notin ToSet(s.queue)
      BY <1>2, <1>5, <2>2
    <3>2. RetsIn(objs)[x] \subseteq s.visited
      BY <3>1 DEF SearchFor
    <3> QED
      BY <1>5, <3>2
  <2> QED
    BY <2>1, <2>2
<1> QED
  BY <1>5, <1>7, <1>8 DEF SearchFor, T

(* What a handler of a type is asked for: to be one of that type, and of   *)
(* its bounds.                                                             *)
AsksIn(objs, bs, name) ==
  {name} \cup (IF PlaceIn(objs, name) = 0 THEN {} ELSE ToSet(bs[PlaceIn(objs, name)]))

(* Bounds that are right suffice: a handler of a type is asked for all     *)
(* that one of a returned type is.                                         *)
LEMMA AsksReach ==
  ASSUME NEW objs, ObjectsOK(objs), NEW bs, BoundsRight(objs, bs), Len(bs) = Len(objs)
  PROVE  /\ \A name \in NamesIn(objs) : AsksIn(objs, bs, name) = ReachIn(objs, name)
         /\ \A name \in NamesIn(objs) : \A r \in ReturnedBy(objs, name) :
              AsksIn(objs, bs, r) \subseteq AsksIn(objs, bs, name)
<1>1. IsSeq(objs) /\ DOMAIN objs = 1..Len(objs) /\ Len(objs) \in Nat
  BY Places DEF ObjectsOK
<1>2. ASSUME NEW name \in NamesIn(objs)
      PROVE  AsksIn(objs, bs, name) = ReachIn(objs, name)
  <2> DEFINE i == PlaceIn(objs, name)
  <2>1. i \in 1..Len(bs) /\ objs[i].name = name /\ i # 0
    BY <1>1, FirstPlace
  <2> HIDE DEF i
  <2>2. {objs[i].name} \cup ToSet(bs[i]) = ReachIn(objs, objs[i].name)
    BY <2>1 DEF BoundsRight
  <2> QED
    BY <2>1, <2>2 DEF AsksIn, i
<1>3. ASSUME NEW name \in NamesIn(objs), NEW r \in ReturnedBy(objs, name)
      PROVE  AsksIn(objs, bs, r) \subseteq AsksIn(objs, bs, name)
  <2>1. name \in TypesIn(objs) /\ RetsIn(objs)[name] = ReturnedBy(objs, name)
    BY RetsOK
  <2>2. r \in ReachIn(objs, name)
    BY <2>1, RetsOK, Reaches DEF ReachIn, Closed
  <2>3. CASE r \in NamesIn(objs)
    <3>1. ReachIn(objs, r) \subseteq ReachIn(objs, name)
      BY <2>1, <2>2, RetsOK, Within1 DEF ReachIn
    <3> QED
      BY <1>2, <2>3, <3>1
  <2>4. CASE r \notin NamesIn(objs)
    <3>1. AsksIn(objs, bs, r) = {r}
      BY <1>1, <2>4, NoPlace DEF AsksIn
    <3> QED
      BY <1>2, <2>2, <3>1
  <2> QED
    BY <2>3, <2>4
<1> QED
  BY <1>2, <1>3

(* The reference: what is returned from a type in so many rounds. *)
Rounds(objs, f) ==
  [i \in 0..Len(objs) |->
     [x \in NamesIn(objs) |->
        IF i = 0 THEN {x}
        ELSE f[i - 1][x] \cup UNION {ReturnedBy(objs, y) : y \in f[i - 1][x]}]]

(* As many rounds as there are objects reach all. *)
LEMMA RoundsReach ==
  ASSUME NEW objs, ObjectsOK(objs), NEW name \in NamesIn(objs)
  PROVE  \A f \in [0..Len(objs) -> [NamesIn(objs) -> SUBSET TypesIn(objs)]] :
           (\A i \in 0..Len(objs) :
              f[i] = [x \in NamesIn(objs) |->
                        IF i = 0 THEN {x}
                        ELSE f[i - 1][x] \cup UNION {ReturnedBy(objs, y) : y \in f[i - 1][x]}])
           => f[Len(objs)][name] = ReachIn(objs, name)
<1> SUFFICES ASSUME NEW f \in [0..Len(objs) -> [NamesIn(objs) -> SUBSET TypesIn(objs)]],
               \A i \in 0..Len(objs) :
                 f[i] = [x \in NamesIn(objs) |->
                        IF i = 0 THEN {x}
                        ELSE f[i - 1][x] \cup UNION {ReturnedBy(objs, y) : y \in f[i - 1][x]}]
             PROVE  f[Len(objs)][name] = ReachIn(objs, name)
  OBVIOUS
<1> DEFINE n == Len(objs)
           T == TypesIn(objs)
           g == [i \in 0..n |-> f[i][name]]
<1>1. n \in Nat /\ IsSeq(objs)
  BY Places DEF ObjectsOK
<1>2. g \in [0..n -> SUBSET T]
  OBVIOUS
<1>3. g[0] = {name}
  BY <1>1
<1>4. ASSUME NEW i \in 1..n
      PROVE  g[i] = g[i - 1] \cup UNION {RetsIn(objs)[x] : x \in g[i - 1]}
  <2>1. i \in 0..n /\ i - 1 \in 0..n /\ i # 0
    BY <1>1
  <2>2. f[i][name] = f[i - 1][name] \cup UNION {ReturnedBy(objs, y) : y \in f[i - 1][name]}
    <3> HIDE DEF n
    <3> QED
      BY <2>1 DEF n
  <2>3. g[i - 1] \in SUBSET T /\ g[i - 1] = f[i - 1][name] /\ g[i] = f[i][name]
    BY <2>1
  <2> DEFINE near == g[i - 1]
  <2>4. {ReturnedBy(objs, y) : y \in near} = {RetsIn(objs)[x] : x \in near}
    <3>1. near \in SUBSET T
      BY <2>3
    <3> HIDE DEF near, g
    <3> QED
      BY <3>1, RetsOK
  <2> HIDE DEF g
  <2> QED
    BY <2>2, <2>3, <2>4
<1>5. NamesIn(objs) \in SUBSET T /\ RetsIn(objs) \in [T -> SUBSET T]
      /\ \A x \in T \ NamesIn(objs) : RetsIn(objs)[x] = {}
  BY RetsOK
<1>6. IsFiniteSet(NamesIn(objs)) /\ Cardinality(NamesIn(objs)) <= n
  BY <1>1, FewNames
<1>7. g[n] = Reach(RetsIn(objs), T, name)
  <2> HIDE DEF g, n, T
  <2> QED
    <3> DEFINE ret == RetsIn(objs)
               N == NamesIn(objs)
    <3>1. name \in N /\ N \in SUBSET T /\ ret \in [T -> SUBSET T] /\ \A x \in T \ N : ret[x] = {}
      BY ONLY <1>5, name \in NamesIn(objs)
    <3>2. IsFiniteSet(N) /\ Cardinality(N) <= n /\ n \in Nat
      BY ONLY <1>1, <1>6
    <3>3. g \in [0..n -> SUBSET T] /\ g[0] = {name}
      BY ONLY <1>2, <1>3
    <3>4. \A i \in 1..n : g[i] = g[i - 1] \cup UNION {ret[x] : x \in g[i - 1]}
      BY ONLY <1>4
    <3> HIDE DEF ret, N
    <3>5. RoundsOn(T, ret, N, n, g, name)
      BY ONLY <3>1, <3>2, <3>3, <3>4 DEF RoundsOn
    <3>6. g[n] = Reach(ret, T, name)
      BY ONLY <3>5, RoundsEnd
    <3> QED
      BY ONLY <3>6 DEF ret
<1>8. g[n] = f[n][name]
  BY <1>1
<1> HIDE DEF g
<1> QED
  BY <1>7, <1>8 DEF ReachIn

(* The reference is a function. *)
LEMMA RoundsExist ==
  ASSUME NEW objs, ObjectsOK(objs)
  PROVE  \E f \in [0..Len(objs) -> [NamesIn(objs) -> SUBSET TypesIn(objs)]] :
           f = Rounds(objs, f)
<1> DEFINE n == Len(objs)
           N == NamesIn(objs)
           T == TypesIn(objs)
           V == [N -> SUBSET T]
           base == [x \in N |-> {x}]
           More(g) == [x \in N |-> g[x] \cup UNION {ReturnedBy(objs, y) : y \in g[x]}]
           step == [p \in Nat \X V |-> More(p[2])]
<1>1. n \in Nat /\ N \in SUBSET T /\ \A x \in T : ReturnedBy(objs, x) \in SUBSET T
  BY Places, RetsOK DEF ObjectsOK
<1>2. base \in V
  BY <1>1
<1>3. \A g \in V : More(g) \in V
  <2> HIDE DEF N, T
  <2> QED
    BY <1>1
<1>4. step \in [Nat \X V -> V] /\ \A i \in Nat, g \in V : step[<<i, g>>] = More(g)
  <2> HIDE DEF V, More
  <2> QED
    BY <1>3
<1>5. PICK f \in [0..n -> V] : RunsBy(f, base, step, n)
  <2> HIDE DEF V, step, base, n, N, T
  <2>1. n \in Nat /\ base \in V /\ step \in [Nat \X V -> V]
    BY <1>1, <1>2, <1>4
  <2> QED
    BY ONLY <2>1, Recursion
<1> DEFINE h == [i \in 0..n |->
                  [x \in N |->
                     IF i = 0 THEN {x}
                     ELSE f[i - 1][x] \cup UNION {ReturnedBy(objs, y) : y \in f[i - 1][x]}]]
<1>6. ASSUME NEW i \in 0..n
      PROVE  f[i] = h[i]
  <2>1. CASE i = 0
    <3> HIDE DEF N, n
    <3> QED
      BY <1>5, <2>1 DEF RunsBy
  <2>2. CASE i # 0
    <3>1. i \in 1..n /\ i \in Nat /\ f[i - 1] \in V
      <4> HIDE DEF V, n
      <4> QED
        BY <1>1, <1>5, <2>2
    <3>2. f[i] = More(f[i - 1])
      <4> HIDE DEF More, V, step, n
      <4> QED
        BY <1>4, <1>5, <3>1 DEF RunsBy
    <3>3. h[i] = More(f[i - 1])
      BY <2>2
    <3> QED
      BY <3>2, <3>3
  <2> QED
    BY <2>1, <2>2
<1>7. f = h
  <2>1. f = [i \in 0..n |-> f[i]] /\ h = [i \in 0..n |-> h[i]]
    <3> HIDE DEF V
    <3> QED
      BY <1>5
  <2> HIDE DEF h, V
  <2> QED
    BY <1>6, <2>1
<1>8. h = Rounds(objs, f)
  BY DEF Rounds
<1>9. f \in [0..Len(objs) -> [NamesIn(objs) -> SUBSET TypesIn(objs)]]
  BY <1>5
<1> HIDE DEF h
<1> QED
  BY <1>7, <1>8, <1>9

(* Whichever function it is, it has the types its rounds give it. *)
LEMMA AllRounds ==
  ASSUME NEW objs, ObjectsOK(objs), NEW f, f = Rounds(objs, f), NEW name \in NamesIn(objs)
  PROVE  f[Len(objs)][name] = ReachIn(objs, name)
<1> DEFINE n == Len(objs)
           N == NamesIn(objs)
           T == TypesIn(objs)
           V == [N -> SUBSET T]
<1>1. n \in Nat /\ N \in SUBSET T /\ \A x \in T : ReturnedBy(objs, x) \in SUBSET T
  BY Places, RetsOK DEF ObjectsOK
<1>2. \A i \in 0..n :
        f[i] = [x \in N |-> IF i = 0 THEN {x}
                            ELSE f[i - 1][x] \cup UNION {ReturnedBy(objs, y) : y \in f[i - 1][x]}]
  <2> DEFINE h == Rounds(objs, f)
  <2>1. \A i \in 0..n :
        h[i] = [x \in N |-> IF i = 0 THEN {x}
                            ELSE f[i - 1][x] \cup UNION {ReturnedBy(objs, y) : y \in f[i - 1][x]}]
    BY DEF Rounds
  <2>2. f = h
    OBVIOUS
  <2> HIDE DEF h
  <2> QED
    BY <2>1, <2>2
<1>3. \A i \in 0..n : f[i] \in V
  <2>1. f[0] \in V
    <3>1. f[0] = [x \in N |-> {x}]
      <4>1. 0 \in 0..n
        BY <1>1
      <4> HIDE DEF n, N
      <4> QED
        BY ONLY <1>2, <4>1
    <3> QED
      BY <1>1, <3>1
  <2>2. ASSUME NEW i \in 1..n, f[i - 1] \in V
        PROVE  f[i] \in V
    <3> DEFINE g == f[i - 1]
    <3>1. f[i] = [x \in N |-> g[x] \cup UNION {ReturnedBy(objs, y) : y \in g[x]}]
      <4> HIDE DEF N, n
      <4>1. i \in 0..n /\ i # 0
        BY <1>1
      <4> QED
        BY <1>2, <4>1
    <3>2. g \in V
      BY <2>2
    <3> HIDE DEF g, N, T
    <3> QED
      BY <1>1, <3>1, <3>2
  <2> HIDE DEF V, n
  <2> QED
    BY <1>1, <2>1, <2>2, StepByStep
<1>4. f \in [0..n -> V]
  <2>1. f = [i \in 0..n |-> f[i]]
    <3> DEFINE h == Rounds(objs, f)
    <3>1. h = [i \in 0..n |-> h[i]]
      BY DEF Rounds
    <3>2. f = h
      OBVIOUS
    <3> HIDE DEF h
    <3> QED
      BY <3>1, <3>2
  <2> HIDE DEF V, n
  <2> QED
    BY <1>3, <2>1
<1> QED
  BY <1>2, <1>4, RoundsReach

-----------------------------------------------------------------------------
(* The invariant, and the steps that keep it.                              *)

(* What is parsed, and the object that is being read. *)
ParsedOK ==
  /\ DOMAIN out = {"name", "version", "objects", "enums"} /\ ObjectsOK(out.objects)
  /\ DOMAIN obj = {"name", "c2s", "s2c"} /\ IsSeq(obj.c2s)

(* What is there before and behind collect_transitive_returns. *)
Stages ==
  /\ stage # "scan" => parse = "parsed"
  /\ stage = "scan" => bounds = <<>> /\ search = NoSearch
  /\ stage \notin {"scan", "collect"} => Len(bounds) = Len(Objects)

(* The search of the object that has no bounds yet. *)
Searching ==
  stage = "collect" /\ search # NoSearch =>
    /\ Len(bounds) < Len(Objects)
    /\ SearchFor(Objects, Objects[Len(bounds) + 1].name, search)

(* The inductive invariant. *)
IInv == ParsedOK /\ Stages /\ BoundsRight(Objects, bounds) /\ Searching

vars == <<scanVars, bindVars, talkVars>>

(* What the peers do leaves the generated code alone. *)
Talk ==
  /\ UNCHANGED <<scanVars, search, bounds>>
  /\ stage \notin {"scan", "collect"} /\ stage' \notin {"scan", "collect"}

(* Each of their steps does. *)
LEMMA TalkSteps ==
  ASSUME \/ Connect \/ BindProtocol \/ ClientCalls \/ ClientDrops \/ Roundtrip
         \/ ClientReadsBegin \/ ClientReadsProtocols \/ ClientReadsNew
         \/ ClientReadsCall \/ ClientReadsFatal \/ ClientReadsDone
         \/ ServerReadsHello \/ ServerReadsAck \/ ServerReadsBind
         \/ ServerReadsCall \/ ServerReadsRoundtrip
         \/ AnswersRoundtrip \/ ServerCalls \/ ServerErrors
  PROVE  Talk
<1>1. ASSUME Connect PROVE Talk
  BY <1>1 DEF Connect, Talk
<1>2. ASSUME BindProtocol PROVE Talk
  BY <1>2 DEF BindProtocol, Talk, Live, bindVars
<1>3. ASSUME ClientCalls PROVE Talk
  BY <1>3 DEF ClientCalls, Talk, Live, bindVars
<1>4. ASSUME ClientDrops PROVE Talk
  BY <1>4 DEF ClientDrops, Talk, Live, bindVars
<1>5. ASSUME Roundtrip PROVE Talk
  BY <1>5 DEF Roundtrip, Talk, Live, bindVars
<1>6. ASSUME ClientReadsBegin PROVE Talk
  BY <1>6 DEF ClientReadsBegin, Arrived, Live, Refused, Ends, Talk
<1>7. ASSUME ClientReadsProtocols PROVE Talk
  BY <1>7 DEF ClientReadsProtocols, Arrived, Live, Refused, Ends, Talk
<1>8. ASSUME ClientReadsNew PROVE Talk
  BY <1>8 DEF ClientReadsNew, Arrived, Live, Refused, Ends, Talk
<1>9. ASSUME ClientReadsCall PROVE Talk
  BY <1>9 DEF ClientReadsCall, ClientHears, Arrived, Live, Refused, Ends, Talk
<1>10. ASSUME ClientReadsFatal PROVE Talk
  BY <1>10 DEF ClientReadsFatal, Arrived, Live, Refused, Ends, Talk
<1>11. ASSUME ClientReadsDone PROVE Talk
  BY <1>11 DEF ClientReadsDone, Arrived, Live, Refused, Ends, Talk
<1>12. ASSUME ServerReadsHello PROVE Talk
  BY <1>12 DEF ServerReadsHello, Arrived, Live, Refused, Ends, Talk
<1>13. ASSUME ServerReadsAck PROVE Talk
  BY <1>13 DEF ServerReadsAck, Arrived, Live, Refused, Ends, Talk
<1>14. ASSUME ServerReadsBind PROVE Talk
  BY <1>14 DEF ServerReadsBind, Arrived, Live, Refused, Ends, Talk
<1>15. ASSUME ServerReadsCall PROVE Talk
  BY <1>15 DEF ServerReadsCall, Arrived, Live, Refused, Ends, Talk
<1>16. ASSUME ServerReadsRoundtrip PROVE Talk
  BY <1>16 DEF ServerReadsRoundtrip, Arrived, Live, Refused, Ends, Talk
<1>17. ASSUME AnswersRoundtrip PROVE Talk
  BY <1>17 DEF AnswersRoundtrip, Live, bindVars, Talk
<1>18. ASSUME ServerCalls PROVE Talk
  BY <1>18 DEF ServerCalls, Live, bindVars, Talk
<1>19. ASSUME ServerErrors PROVE Talk
  BY <1>19 DEF ServerErrors, Live, bindVars, Talk
<1> QED
  BY <1>1, <1>2, <1>3, <1>4, <1>5, <1>6, <1>7, <1>8, <1>9, <1>10, <1>11, <1>12, <1>13,
     <1>14, <1>15, <1>16, <1>17, <1>18, <1>19

(* What the parser does to what is parsed: it pushes an object that ended, *)
(* and methods to the object it reads.                                     *)
Parsing ==
  /\ parse = "reading"
  /\ \/ UNCHANGED out
     \/ out' = [out EXCEPT !.name = out'.name, !.version = out'.version]
     \/ out' = [out EXCEPT !.objects = Append(@, obj)]
     \/ out' = [out EXCEPT !.enums = out'.enums]
  /\ \/ UNCHANGED obj
     \/ \E name : obj' = [name |-> name, c2s |-> <<>>, s2c |-> <<>>]
     \/ \E m : obj' = [obj EXCEPT !.c2s = Append(@, m)]
     \/ \E m : obj' = [obj EXCEPT !.s2c = Append(@, m)]

(* Each of its steps does no more. *)
LEMMA ScanSteps ==
  ASSUME ScanNext, ParsedOK
  PROVE  Parsing
<1>0. parse = "reading"
  BY DEF ScanNext, PassOn, EofRefused, ReadProtocol, ReadCopyright, BeginObject, BeginEnum,
    GoesOn, ProtocolEnds, ObjectPasses, BeginMethod, ObjectEnds, ReadArg, ReadReturns,
    MethodPasses, MethodEnds, ReadValue, EnumEnds, Reads
<1>1. CASE UNCHANGED <<out, obj>>
  BY <1>0, <1>1 DEF Parsing
<1>2. CASE ReadProtocol
  <2>1. UNCHANGED obj /\ (UNCHANGED out \/ out' = [out EXCEPT !.name = Next1.attrs.name,
                                                              !.version = Next1.attrs.version])
    BY <1>2 DEF ReadProtocol, Fails
  <2>2. CASE out' = [out EXCEPT !.name = Next1.attrs.name, !.version = Next1.attrs.version]
    <3>1. out' = [out EXCEPT !.name = out'.name, !.version = out'.version]
      BY <2>2 DEF ParsedOK
    <3> QED
      BY <1>0, <2>1, <3>1 DEF Parsing
  <2> QED
    BY <1>0, <2>1, <2>2 DEF Parsing
<1>3. CASE BeginObject
  BY <1>0, <1>3 DEF BeginObject, Fails, Parsing
<1>4. CASE ObjectEnds
  BY <1>0, <1>4 DEF ObjectEnds, Parsing
<1>5. CASE MethodEnds
  BY <1>0, <1>5 DEF MethodEnds, Parsing
<1>6. CASE EnumEnds
  <2>1. out' = [out EXCEPT !.enums = out'.enums] /\ UNCHANGED obj
    BY <1>6 DEF EnumEnds, ParsedOK
  <2> QED
    BY <1>0, <2>1 DEF Parsing
<1>7. ASSUME \/ PassOn \/ EofRefused \/ ReadCopyright \/ BeginEnum \/ GoesOn
             \/ ProtocolEnds \/ ObjectPasses \/ BeginMethod \/ ReadArg \/ ReadReturns
             \/ MethodPasses \/ ReadValue
      PROVE  UNCHANGED <<out, obj>>
  BY <1>7 DEF PassOn, EofRefused, ReadCopyright, BeginEnum, GoesOn, ProtocolEnds,
     ObjectPasses, BeginMethod, ReadArg, ReadReturns, MethodPasses, ReadValue, Fails
<1> QED
  BY <1>1, <1>2, <1>3, <1>4, <1>5, <1>6, <1>7 DEF ScanNext

(* So what it leaves are sequences. *)
LEMMA ParsedOKScans ==
  ASSUME ParsedOK, Parsing
  PROVE  ParsedOK'
<1>1. DOMAIN out' = {"name", "version", "objects", "enums"} /\ DOMAIN obj' = {"name", "c2s", "s2c"}
  BY DEF ParsedOK, Parsing
<1>2. IsSeq(obj'.c2s)
  <2>1. CASE UNCHANGED obj
    BY <2>1 DEF ParsedOK
  <2>2. ASSUME NEW name, obj' = [name |-> name, c2s |-> <<>>, s2c |-> <<>>]
        PROVE  IsSeq(obj'.c2s)
    <3>1. obj'.c2s = <<>>
      BY <2>2
    <3> QED
      BY <3>1, EmptyIsSeq
  <2>3. ASSUME NEW m, obj' = [obj EXCEPT !.c2s = Append(@, m)]
        PROVE  IsSeq(obj'.c2s)
    <3>1. obj'.c2s = Append(obj.c2s, m)
      BY <2>3 DEF ParsedOK
    <3> QED
      BY <3>1, AppendIsSeq DEF ParsedOK
  <2>4. ASSUME NEW m, obj' = [obj EXCEPT !.s2c = Append(@, m)]
        PROVE  IsSeq(obj'.c2s)
    <3>1. obj'.c2s = obj.c2s
      BY <2>4 DEF ParsedOK
    <3> QED
      BY <3>1 DEF ParsedOK
  <2> QED
    BY <2>1, <2>2, <2>3, <2>4 DEF Parsing
<1>3. ObjectsOK(out'.objects)
  <2>1. CASE out' = [out EXCEPT !.objects = Append(@, obj)]
    <3>1. out'.objects = Append(out.objects, obj)
      BY <2>1 DEF ParsedOK
    <3>2. ObjectsOK(Append(out.objects, obj))
      <4> DEFINE s == out.objects
                 t == Append(s, obj)
      <4>1. IsSeq(s) /\ \A i \in DOMAIN s : IsSeq(s[i].c2s)
        BY DEF ParsedOK, ObjectsOK
      <4>2. /\ IsSeq(t) /\ Len(t) = Len(s) + 1 /\ \A i \in 1..Len(s) : t[i] = s[i]
            /\ t[Len(s) + 1] = obj
        BY <4>1, AppendIsSeq DEF IsSeq
      <4> HIDE DEF s, t
      <4>3. DOMAIN s = 1..Len(s) /\ DOMAIN t = 1..(Len(s) + 1) /\ Len(s) \in Nat
        BY <4>1, <4>2, Places
      <4>4. IsSeq(obj.c2s)
        BY DEF ParsedOK
      <4>5. ObjectsOK(t)
        BY <4>1, <4>2, <4>3, <4>4 DEF ObjectsOK
      <4> QED
        BY <4>5 DEF s, t
    <3> QED
      BY <3>1, <3>2
  <2>2. CASE out' = [out EXCEPT !.name = out'.name, !.version = out'.version]
    <3>1. out'.objects = out.objects
      BY <2>2 DEF ParsedOK
    <3> QED
      BY <3>1 DEF ParsedOK
  <2>3. CASE out' = [out EXCEPT !.enums = out'.enums]
    <3>1. out'.objects = out.objects
      BY <2>3 DEF ParsedOK
    <3> QED
      BY <3>1 DEF ParsedOK
  <2>4. CASE UNCHANGED out
    BY <2>4 DEF ParsedOK
  <2> QED
    BY <2>1, <2>2, <2>3, <2>4 DEF Parsing
<1> QED
  BY <1>1, <1>2, <1>3 DEF ParsedOK

(* Before the first search nothing is bound. *)
LEMMA NothingBound ==
  ASSUME NEW objs, ObjectsOK(objs)
  PROVE  BoundsRight(objs, <<>>)
<1>1. Len(objs) \in Nat
  BY Places DEF ObjectsOK
<1> QED
  BY <1>1, EmptyIsSeq DEF BoundsRight

(* The invariant holds before a document is read. *)
LEMMA Starts ==
  ASSUME Init
  PROVE  IInv
<1>1. ParsedOK
  <2>1. /\ out = [name |-> <<>>, version |-> 0, objects |-> <<>>, enums |-> <<>>]
        /\ obj = [name |-> "", c2s |-> <<>>, s2c |-> <<>>]
    BY DEF Init, ScanInit
  <2>2. out.objects = <<>> /\ obj.c2s = <<>>
    BY <2>1
  <2>3. DOMAIN out = {"name", "version", "objects", "enums"} /\ DOMAIN obj = {"name", "c2s", "s2c"}
    BY <2>1
  <2>4. ObjectsOK(<<>>)
    BY EmptyIsSeq DEF ObjectsOK
  <2> QED
    BY <2>2, <2>3, <2>4, EmptyIsSeq DEF ParsedOK
<1>2. stage = "scan" /\ bounds = <<>> /\ search = NoSearch
  BY DEF Init
<1>3. BoundsRight(Objects, bounds)
  BY <1>1, <1>2, NothingBound DEF ParsedOK, Objects
<1> QED
  BY <1>1, <1>2, <1>3 DEF IInv, Stages, Searching

(* The bounds of one more object are those a finished search found. *)
LEMMA Collects ==
  ASSUME IInv, CollectEnds
  PROVE  BoundsRight(Objects, bounds')
<1> DEFINE objs == Objects
           i == Len(bounds) + 1
           name == objs[i].name
<1>1. bounds' = Append(bounds, search.result) /\ search.queue = <<>>
  BY DEF CollectEnds
<1>2. Len(bounds) < Len(objs) /\ SearchFor(objs, name, search)
  BY DEF CollectEnds, IInv, Searching
<1>3. IsSeq(objs) /\ BoundsRight(objs, bounds)
  BY DEF IInv, ParsedOK, ObjectsOK, Objects
<1>4. DOMAIN objs = 1..Len(objs) /\ Len(objs) \in Nat /\ Len(bounds) \in Nat /\ IsSeq(bounds)
  BY <1>3, Places DEF BoundsRight
<1>5. name \in TypesIn(objs)
  BY <1>2, <1>4 DEF TypesIn, NamesIn
<1> HIDE DEF name, objs
<1>6. IsSeq(search.result) /\ {name} \cup ToSet(search.result) = ReachIn(objs, name)
  BY <1>1, <1>2, <1>5, VisitEnds
<1>7. /\ IsSeq(bounds') /\ Len(bounds') = Len(bounds) + 1
      /\ \A j \in 1..Len(bounds) : bounds'[j] = bounds[j]
      /\ bounds'[i] = search.result
  BY <1>1, <1>4, AppendIsSeq DEF IsSeq
<1>8. ASSUME NEW j \in 1..Len(bounds')
      PROVE  IsSeq(bounds'[j]) /\ {objs[j].name} \cup ToSet(bounds'[j]) = ReachIn(objs, objs[j].name)
  <2>1. CASE j = i
    BY <1>6, <1>7, <2>1 DEF name
  <2>2. CASE j # i
    <3>1. j \in 1..Len(bounds) /\ bounds'[j] = bounds[j]
      BY <1>4, <1>7, <2>2
    <3> QED
      BY <1>3, <3>1 DEF BoundsRight
  <2> QED
    BY <2>1, <2>2
<1>9. Len(bounds') <= Len(objs)
  BY <1>2, <1>4, <1>7
<1> QED
  BY <1>7, <1>8, <1>9 DEF BoundsRight, objs

(* A search goes on with the next type it queued. *)
LEMMA Looks ==
  ASSUME IInv, CollectVisits
  PROVE  Searching'
<1> DEFINE objs == Objects
           name == objs[Len(bounds) + 1].name
           current == Head(search.queue)
           rest == [search EXCEPT !.queue = Tail(@)]
<1>1. stage = "collect" /\ search.queue # <<>> /\ UNCHANGED <<out, bounds>>
  BY DEF CollectVisits, scanVars
<1>2. search # NoSearch
  BY <1>1 DEF NoSearch
<1>3. Len(bounds) < Len(objs) /\ SearchFor(objs, name, search)
  BY <1>1, <1>2 DEF IInv, Searching
<1>4. ObjectsOK(objs) /\ BoundsRight(objs, bounds)
  BY DEF IInv, ParsedOK, Objects
<1>5. name \in TypesIn(objs)
  <2>1. DOMAIN objs = 1..Len(objs) /\ Len(objs) \in Nat /\ Len(bounds) \in Nat
    BY <1>4, Places DEF BoundsRight, ObjectsOK
  <2> QED
    BY <1>3, <2>1 DEF TypesIn, NamesIn
<1>6. search' = IF current \in NamesIn(objs)
                THEN MeetReturned(rest, objs[PlaceIn(objs, current)].c2s)
                ELSE rest
  BY DEF CollectVisits, ObjectNames, ObjectOf, NamesIn, PlaceIn, SelectInSeq
<1>7. SearchFor(objs, name, search')
  <2> HIDE DEF objs, name
  <2> QED
    BY <1>1, <1>3, <1>4, <1>5, <1>6, Visits
<1>8. Objects' = objs /\ bounds' = bounds
  BY <1>1 DEF Objects
<1> HIDE DEF objs
<1> QED
  BY <1>3, <1>7, <1>8 DEF Searching

(* A search begins at the first object without bounds. *)
LEMMA LooksFirst ==
  ASSUME IInv, CollectBegins
  PROVE  Searching'
<1> DEFINE objs == Objects
           name == objs[Len(bounds) + 1].name
<1>1. /\ Len(bounds) < Len(objs) /\ UNCHANGED <<out, bounds>>
      /\ search' = [visited |-> {name}, queue |-> <<name>>, result |-> <<>>]
  BY DEF CollectBegins, scanVars
<1>2. ObjectsOK(objs) /\ BoundsRight(objs, bounds)
  BY DEF IInv, ParsedOK, Objects
<1>3. name \in NamesIn(objs)
  <2>1. DOMAIN objs = 1..Len(objs) /\ Len(objs) \in Nat /\ Len(bounds) \in Nat
    BY <1>2, Places DEF BoundsRight, ObjectsOK
  <2> QED
    BY <1>1, <2>1 DEF NamesIn
<1>4. SearchFor(objs, name, search')
  BY <1>1, <1>3, VisitBegins
<1>5. Objects' = objs /\ bounds' = bounds
  BY <1>1 DEF Objects
<1> HIDE DEF objs
<1> QED
  BY <1>1, <1>4, <1>5 DEF Searching

(* Each step keeps the invariant. *)
LEMMA StepKeeps ==
  ASSUME IInv, [Next]_vars
  PROVE  IInv'
<1>1. CASE Scan
  <2>1. ParsedOK' /\ parse = "reading"
    BY <1>1, ScanSteps, ParsedOKScans DEF Scan, IInv, Parsing
  <2>2. stage = "scan" /\ UNCHANGED <<stage, bounds, search>>
    BY <1>1, <2>1 DEF Scan, IInv, Stages, bindVars
  <2>3. BoundsRight(Objects, bounds)'
    BY <2>1, <2>2, NothingBound DEF IInv, Stages, ParsedOK, Objects
  <2> QED
    BY <2>1, <2>2, <2>3 DEF IInv, Stages, Searching
<1>2. CASE Compile
  <2>1. UNCHANGED <<out, obj, bounds, search, parse>> /\ stage = "scan" /\ stage' = "collect"
        /\ parse = "parsed"
    BY <1>2 DEF Compile
  <2> QED
    BY <2>1 DEF IInv, Stages, Searching, ParsedOK, Objects
<1>3. CASE CollectBegins
  <2>1. UNCHANGED <<out, obj, bounds, parse, stage>> /\ stage = "collect"
    BY <1>3 DEF CollectBegins, scanVars
  <2> QED
    BY <1>3, <2>1, LooksFirst DEF IInv, Stages, ParsedOK, Objects
<1>4. CASE CollectVisits
  <2>1. UNCHANGED <<out, obj, bounds, parse, stage>> /\ stage = "collect"
    BY <1>4 DEF CollectVisits, scanVars
  <2> QED
    BY <1>4, <2>1, Looks DEF IInv, Stages, ParsedOK, Objects
<1>5. CASE CollectEnds
  <2>1. UNCHANGED <<out, obj, parse, stage>> /\ stage = "collect" /\ search' = NoSearch
    BY <1>5 DEF CollectEnds, scanVars
  <2>2. BoundsRight(Objects, bounds)'
    BY <1>5, <2>1, Collects DEF Objects
  <2> QED
    BY <2>1, <2>2 DEF IInv, Stages, ParsedOK, Searching
<1>6. CASE Generate
  <2>1. UNCHANGED <<out, obj, parse, bounds, search>> /\ stage = "collect" /\ stage' = "built"
        /\ Len(bounds) = Len(Objects)
    BY <1>6 DEF Generate, scanVars
  <2> QED
    BY <2>1 DEF IInv, Stages, ParsedOK, Searching, Objects
<1>7. CASE Talk
  <2>1. UNCHANGED <<out, obj, parse, bounds, search>>
        /\ stage \notin {"scan", "collect"} /\ stage' \notin {"scan", "collect"}
    BY <1>7 DEF Talk, scanVars
  <2> QED
    BY <2>1 DEF IInv, Stages, ParsedOK, Searching, Objects
<1>8. CASE UNCHANGED vars
  <2>1. UNCHANGED <<out, obj, parse, bounds, search, stage>>
    BY <1>8 DEF vars, scanVars, bindVars
  <2> QED
    BY <2>1 DEF IInv, Stages, ParsedOK, Searching, Objects
<1> QED
  BY <1>1, <1>2, <1>3, <1>4, <1>5, <1>6, <1>7, <1>8, TalkSteps DEF Next

-----------------------------------------------------------------------------
(* What the invariant says of the generated code.                          *)

(* The definitions of BoundsSuffice, by name. *)
AskedFor(name) ==
  {name} \cup
    LET i == SelectInSeq(Objects, LAMBDA o : o.name = name)
    IN IF i = 0 THEN {} ELSE ToSet(bounds[i])

ReturnsOf(name) ==
  IF name \in ObjectNames
  THEN {ObjectOf(name).c2s[j].returns : j \in DOMAIN ObjectOf(name).c2s} \ {""}
  ELSE {}

RoundsOf(f) ==
  [n \in 0..Len(Objects) |->
     [name \in ObjectNames |->
        IF n = 0 THEN {name}
        ELSE LET near == f[n - 1][name]
             IN near \cup UNION {ReturnsOf(x) : x \in near}]]

(* They are those of the invariant. *)
LEMMA SameNames ==
  /\ ObjectNames = NamesIn(Objects)
  /\ \A name : AskedFor(name) = AsksIn(Objects, bounds, name)
  /\ \A name : ReturnsOf(name) = ReturnedBy(Objects, name)
  /\ \A f : RoundsOf(f) = Rounds(Objects, f)
<1>1. ObjectNames = NamesIn(Objects)
  BY DEF ObjectNames, NamesIn
<1>2. \A name : AskedFor(name) = AsksIn(Objects, bounds, name)
  BY DEF AskedFor, SelectInSeq, AsksIn, PlaceIn
<1>3. \A name : ReturnsOf(name) = ReturnedBy(Objects, name)
  BY <1>1 DEF ReturnsOf, ObjectOf, SelectInSeq, ReturnedBy, Returned, PlaceIn, Nothing
<1>4. \A f : RoundsOf(f) = Rounds(Objects, f)
  BY <1>1, <1>3 DEF RoundsOf, Rounds
<1> QED
  BY <1>1, <1>2, <1>3, <1>4

(* Where the invariant holds, bounds that are derived suffice. *)
LEMMA Suffice ==
  ASSUME IInv
  PROVE  BoundsSuffice
<1> SUFFICES ASSUME stage \notin {"scan", "collect"}
             PROVE  BoundsSuffice
  BY DEF BoundsSuffice
<1> DEFINE objs == Objects
           reach == CHOOSE f : f = RoundsOf(f)
<1>1. ObjectsOK(objs) /\ BoundsRight(objs, bounds) /\ Len(bounds) = Len(objs)
  BY DEF IInv, Stages, ParsedOK, Objects
<1>2. IsSeq(objs) /\ IsSeq(bounds) /\ DOMAIN bounds = 1..Len(objs) /\ DOMAIN objs = 1..Len(objs)
  BY <1>1, Places DEF ObjectsOK, BoundsRight
<1>3. \A name \in ObjectNames : \A r \in ReturnsOf(name) : AskedFor(r) \subseteq AskedFor(name)
  <2>1. ObjectNames = NamesIn(objs)
    BY SameNames
  <2>2. /\ \A name : AskedFor(name) = AsksIn(objs, bounds, name)
        /\ \A name : ReturnsOf(name) = ReturnedBy(objs, name)
    BY SameNames
  <2> HIDE DEF objs
  <2> QED
    BY <1>1, <2>1, <2>2, AsksReach
<1>4. AskedFor(objs[1].name) \subseteq {objs[1].name} \cup AllBounds
  <2> DEFINE i == PlaceIn(objs, objs[1].name)
  <2>1. CASE i = 0
    BY <2>1, SameNames DEF AsksIn
  <2>2. CASE i # 0
    <3>1. objs[1].name \in NamesIn(objs)
      <4> HIDE DEF objs
      <4> QED
        BY <1>2, <2>2, NoPlace
    <3>2. i \in DOMAIN bounds
      <4> HIDE DEF objs
      <4> QED
        BY <1>2, <3>1, FirstPlace
    <3>3. ToSet(bounds[i]) \subseteq AllBounds
      BY <3>2 DEF AllBounds
    <3> QED
      BY <2>2, <3>3, SameNames DEF AsksIn
  <2> QED
    BY <2>1, <2>2
<1>5. ASSUME NEW name \in ObjectNames
      PROVE  AskedFor(name) = reach[Len(objs)][name]
  <2>1. name \in NamesIn(objs)
    BY SameNames
  <2>2. \E f : f = Rounds(objs, f)
    <3> HIDE DEF objs
    <3> QED
      BY <1>1, RoundsExist
  <2>3. reach = Rounds(objs, reach)
    BY <2>2, SameNames
  <2>4. reach[Len(objs)][name] = ReachIn(objs, name)
    <3> DEFINE f == reach
    <3>1. f = Rounds(objs, f)
      BY <2>3
    <3> HIDE DEF f, reach, objs
    <3>2. f[Len(objs)][name] = ReachIn(objs, name)
      BY <1>1, <2>1, <3>1, AllRounds
    <3> QED
      BY <3>2 DEF f
  <2>5. AskedFor(name) = ReachIn(objs, name)
    <3>1. AsksIn(objs, bounds, name) = ReachIn(objs, name)
      <4> HIDE DEF objs
      <4> QED
        BY <1>1, <2>1, AsksReach
    <3> QED
      BY <3>1, SameNames
  <2> HIDE DEF reach
  <2> QED
    BY <2>4, <2>5
<1> QED
  BY <1>3, <1>4, <1>5 DEF BoundsSuffice, AskedFor, ReturnsOf, RoundsOf, SelectInSeq

(* The bounds collect_transitive_returns derives for the handlers of an    *)
(* object are what the generated dispatch needs, and no more: a handler of *)
(* the object can be cloned into one of any type a method returns, and of  *)
(* what that one's methods return, for any document the parser accepts,    *)
(* with cycles, objects of one name and types no object has.               *)
THEOREM BoundsAlwaysSuffice == Spec => []BoundsSuffice
<1>1. Init => IInv
  BY Starts
<1>2. IInv /\ [Next]_vars => IInv'
  BY StepKeeps
<1>3. IInv => BoundsSuffice
  BY Suffice
<1> QED
  BY <1>1, <1>2, <1>3, PTL DEF Spec, vars

-----------------------------------------------------------------------------
(* What the generator reads. *)

(* Only the parser's steps read; what follows leaves it alone, but for the *)
(* document, which is of no more use once it has been parsed.              *)
LEMMA StepReads ==
  ASSUME ReadInv, [Next]_vars
  PROVE  ReadInv'
<1>1. CASE Scan
  BY <1>1, SaidIsWritten, ReadInvScans DEF Scan
<1>2. CASE Compile
  <2>1. parse # "reading" /\ UNCHANGED <<said, form, damage, out, parse>>
    BY <1>2 DEF Compile
  <2> QED
    BY <2>1, ReadInvStays
<1>3. CASE CollectBegins \/ CollectVisits \/ CollectEnds \/ Generate
  <2>1. UNCHANGED scanVars
    BY <1>3 DEF CollectBegins, CollectVisits, CollectEnds, Generate
  <2> QED
    BY <2>1, ReadInvKept
<1>4. CASE Talk
  BY <1>4, ReadInvKept DEF Talk
<1>5. CASE UNCHANGED vars
  BY <1>5, ReadInvKept DEF vars
<1> QED
  BY <1>1, <1>2, <1>3, <1>4, <1>5, TalkSteps DEF Next

(* Of any protocol whose document is written plainly, in any of the        *)
(* layouts, code is generated from what the document says: parse_protocol  *)
(* returns all of a complete document, refuses one that lacks an attribute *)
(* it needs, and returns no object and no enum of one that is cut off that *)
(* is not there in full.                                                   *)
THEOREM ParsedAlwaysAsWritten == Spec => []ParsedAsWritten
<1>1. Init => ReadInv
  BY SaidIsWritten, ReadInvStarts DEF Init
<1>2. ReadInv /\ [Next]_vars => ReadInv'
  BY StepReads
<1>3. ReadInv => ParsedAsWritten
  BY ReadInvSays
<1> QED
  BY <1>1, <1>2, <1>3, PTL DEF Spec, vars

=============================================================================

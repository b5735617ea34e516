--------------------------- MODULE ScannerProofs ---------------------------
(***************************************************************************)
(* Proofs about Scanner, for any protocols, layouts and damage: what       *)
(* parse_protocol returns of a plain document is what the document says,   *)
(* and nothing that is not there.                                          *)
(*                                                                         *)
(* A document is put together from sequences of events, so where each      *)
(* element lies follows from the lengths of those before it (Offsets,      *)
(* DocLies).  A spot is a place in a document that a loop of the reader    *)
(* can be at, with what it has read by then; an element that               *)
(* read_to_end or read_text_to_end passes ends at the spot that is next    *)
(* (Progress).  Every event leads from a spot to a spot (SeenAnswers),     *)
(* and a document that lacks an attribute is the same up to that event     *)
(* (Hurt).                                                                 *)
(***************************************************************************)
EXTENDS Scanner, LeastNumber

-----------------------------------------------------------------------------
(* Sequences put together, and where each of them lies. *)
(* A sequence of a set's elements is one of its own. *)
LEMMA SeqIsSeq ==
  ASSUME NEW S, NEW s \in Seq(S)
  PROVE  IsSeq(s) /\ ToSet(s) \subseteq S
BY DEF IsSeq, ToSet

(* The places of a sequence. *)
LEMMA Places ==
  ASSUME NEW s, IsSeq(s)
  PROVE  DOMAIN s = 1..Len(s) /\ Len(s) \in Nat
BY DEF IsSeq

Joined(a, b) == a \o b

(* Two sequences put together: what is where. *)
LEMMA CatIsSeq ==
  ASSUME NEW a, IsSeq(a), NEW b, IsSeq(b)
  PROVE  /\ IsSeq(Joined(a, b)) /\ Len(Joined(a, b)) = Len(a) + Len(b)
         /\ \A k \in 1..Len(a) : Joined(a, b)[k] = a[k]
         /\ \A k \in 1..Len(b) : Joined(a, b)[Len(a) + k] = b[k]
<1> DEFINE S == ToSet(a) \cup ToSet(b)
<1>1. a \in Seq(S) /\ b \in Seq(S)
  BY DEF IsSeq
<1>2. a \o b \in Seq(S)
  BY <1>1
<1>3. IsSeq(a \o b)
  BY <1>2, SeqIsSeq
<1> QED
  BY <1>1, <1>3 DEF Joined

Lies(b, d, q) == \A k \in 1..Len(b) : d[q + k - 1] = b[k]

(* Where the two lie when they lie in a document together. *)
LEMMA LiesCat ==
  ASSUME NEW a, IsSeq(a), NEW b, IsSeq(b), NEW d, NEW q \in Nat, Lies(Joined(a, b), d, q)
  PROVE  Lies(a, d, q) /\ Lies(b, d, q + Len(a))
<1>0. Len(a) \in Nat /\ Len(b) \in Nat
  BY Places
<1>1. Len(Joined(a, b)) = Len(a) + Len(b)
  BY CatIsSeq
<1>5. \A k \in 1..Len(a) : Joined(a, b)[k] = a[k]
  BY CatIsSeq
<1>6. \A k \in 1..Len(b) : Joined(a, b)[Len(a) + k] = b[k]
  BY CatIsSeq
<1> DEFINE c == Joined(a, b)
<1>2. \A k \in 1..(Len(a) + Len(b)) : d[q + k - 1] = c[k]
  BY <1>0, <1>1 DEF Lies
<1> HIDE DEF c
<1>3. ASSUME NEW k \in 1..Len(a)
      PROVE  d[q + k - 1] = a[k]
  BY <1>0, <1>2, <1>5 DEF c
<1>4. ASSUME NEW k \in 1..Len(b)
      PROVE  d[q + Len(a) + k - 1] = b[k]
  <2>1. Len(a) + k \in 1..(Len(a) + Len(b)) /\ q + (Len(a) + k) - 1 = q + Len(a) + k - 1
    BY <1>0
  <2>2. c[Len(a) + k] = b[k]
    BY <1>6 DEF c
  <2> QED
    BY <1>2, <2>1, <2>2
<1> QED
  BY <1>3, <1>4 DEF Lies

(* A sequence of a known length. *)
Sized(s, n) == IsSeq(s) /\ n \in Nat /\ Len(s) = n

(* The lengths of the two add up. *)
LEMMA SizedCat ==
  ASSUME NEW a, NEW n, Sized(a, n), NEW b, NEW m, Sized(b, m)
  PROVE  Sized(Joined(a, b), n + m)
<1>1. IsSeq(Joined(a, b)) /\ Len(Joined(a, b)) = Len(a) + Len(b)
  BY CatIsSeq DEF Sized
<1> QED
  BY <1>1 DEF Sized

(* The second lies behind the first. *)
LEMMA SizedLies ==
  ASSUME NEW a, NEW n, Sized(a, n), NEW b, NEW m, Sized(b, m),
         NEW d, NEW q \in Nat, Lies(Joined(a, b), d, q)
  PROVE  Lies(a, d, q) /\ Lies(b, d, q + n) /\ q + n \in Nat
<1>1. Lies(a, d, q) /\ Lies(b, d, q + Len(a))
  BY LiesCat DEF Sized
<1> QED
  BY <1>1 DEF Sized

(* Where the sequences of a sequence begin when they are put together. *)
OffsetsOf(ss, f) ==
  /\ f \in [0..Len(ss) -> Nat] /\ f[0] = 0
  /\ \A i \in 1..Len(ss) : f[i] = f[i - 1] + Len(ss[i])
Offsets(ss) == CHOOSE f : OffsetsOf(ss, f)

AllSeqs(ss) == IsSeq(ss) /\ \A i \in 1..Len(ss) : IsSeq(ss[i])

(* There are such places: they are counted step by step. *)
LEMMA OffsetsExist ==
  ASSUME NEW ss, AllSeqs(ss)
  PROVE  OffsetsOf(ss, Offsets(ss))
<1> DEFINE step == [x \in Nat \X Nat |-> IF x[1] \in 1..Len(ss) THEN x[2] + Len(ss[x[1]]) ELSE 0]
           n == Len(ss)
           V == Nat
<1>1. n \in Nat /\ \A i \in 1..n : Len(ss[i]) \in Nat
  BY Places DEF AllSeqs
<1>2. step \in [Nat \X Nat -> Nat]
  BY <1>1
<1>3. PICK f \in [0..n -> V] : RunsBy(f, 0, step, n)
  <2>1. n \in Nat /\ 0 \in V /\ step \in [Nat \X V -> V]
    BY <1>1, <1>2
  <2> HIDE DEF step, n, V
  <2> QED
    BY ONLY <2>1, Recursion
<1>4. ASSUME NEW i \in 1..n
      PROVE  f[i] = f[i - 1] + Len(ss[i])
  <2>1. i \in Nat /\ i - 1 \in 0..n
    BY <1>1
  <2>2. f[i - 1] \in Nat
    BY <2>1
  <2>3. f[i] = step[<<i, f[i - 1]>>]
    <3> HIDE DEF step, n, V
    <3> QED
      BY <1>3 DEF RunsBy
  <2> QED
    BY <2>1, <2>2, <2>3
<1>5. OffsetsOf(ss, f)
  <2> HIDE DEF step
  <2> QED
    BY <1>3, <1>4 DEF OffsetsOf, RunsBy
<1> QED
  BY <1>5 DEF Offsets

(* What FlattenSeq computes with. *)
Flattens(ss, f) ==
  f = [i \in 1..Len(ss) |-> IF i = 1 THEN ss[i] ELSE f[i - 1] \o ss[i]]

(* FlattenSeq's function exists: it is defined step by step. *)
LEMMA FlattensExist ==
  ASSUME NEW ss, AllSeqs(ss)
  PROVE  \E f : Flattens(ss, f)
<1> DEFINE n == Len(ss)
           X == UNION {ToSet(ss[i]) : i \in 1..n}
           V == Seq(X)
           step == [x \in Nat \X V |-> IF x[1] \in 1..n
                                       THEN IF x[1] = 1 THEN ss[1] ELSE x[2] \o ss[x[1]]
                                       ELSE <<>>]
<1>1. n \in Nat /\ \A i \in 1..n : ss[i] \in V
  BY Places DEF AllSeqs, IsSeq
<1>2. step \in [Nat \X V -> V]
  <2>1. <<>> \in V /\ \A s, t \in V : s \o t \in V
    OBVIOUS
  <2> HIDE DEF V, n
  <2> QED
    BY <1>1, <2>1
<1>3. PICK f \in [0..n -> V] : RunsBy(f, <<>>, step, n)
  <2>1. <<>> \in V
    OBVIOUS
  <2> HIDE DEF step, n, V
  <2> QED
    BY <1>1, <1>2, <2>1, Recursion
<1> DEFINE g == [i \in 1..n |-> f[i]]
           h == [i \in 1..n |-> IF i = 1 THEN ss[i] ELSE g[i - 1] \o ss[i]]
<1>4. ASSUME NEW i \in 1..n
      PROVE  g[i] = h[i]
  <2>1. i \in Nat /\ i - 1 \in 0..n /\ f[i - 1] \in V /\ f[i] = step[<<i, f[i - 1]>>]
    <3> HIDE DEF step, V
    <3> QED
      BY <1>1, <1>3 DEF RunsBy
  <2>2. f[i] = IF i = 1 THEN ss[1] ELSE f[i - 1] \o ss[i]
    <3> HIDE DEF V, n
    <3> QED
      BY <2>1
  <2>3. i # 1 => i - 1 \in 1..n /\ g[i - 1] = f[i - 1]
    BY <1>1
  <2> HIDE DEF V
  <2> QED
    BY <2>2, <2>3
<1>5. g = h
  <2> HIDE DEF V
  <2> QED
    BY <1>4
<1> QED
  BY <1>5 DEF Flattens

(* What FlattenSeq returns: each of the sequences, at its offset. *)
LEMMA Flattened ==
  ASSUME NEW ss, AllSeqs(ss)
  PROVE  /\ IsSeq(FlattenSeq(ss)) /\ Len(FlattenSeq(ss)) = Offsets(ss)[Len(ss)]
         /\ \A d, q : q \in Nat /\ Lies(FlattenSeq(ss), d, q) =>
              \A k \in 1..Len(ss) : Lies(ss[k], d, q + Offsets(ss)[k - 1])
<1> DEFINE n == Len(ss)
           off == Offsets(ss)
           fl == CHOOSE f : Flattens(ss, f)
<1>1. n \in Nat /\ \A i \in 1..n : IsSeq(ss[i]) /\ Len(ss[i]) \in Nat
  BY Places DEF AllSeqs
<1>2. OffsetsOf(ss, off)
  BY OffsetsExist
<1>3. Flattens(ss, fl)
  BY FlattensExist
<1>4. CASE n = 0
  <2>1. FlattenSeq(ss) = ss
    BY <1>4 DEF FlattenSeq
  <2>2. off[0] = 0
    BY <1>2 DEF OffsetsOf
  <2> HIDE DEF off, fl
  <2> QED
    BY <1>4, <2>1, <2>2 DEF AllSeqs, off
<1>5. CASE n # 0
  <2>1. FlattenSeq(ss) = fl[n]
    BY <1>5 DEF FlattenSeq, Flattens
  <2> HIDE DEF fl, off
  <2>2. \A i \in 1..n : fl[i] = IF i = 1 THEN ss[i] ELSE fl[i - 1] \o ss[i]
    <3> DEFINE h == [i \in 1..n |-> IF i = 1 THEN ss[i] ELSE fl[i - 1] \o ss[i]]
    <3>1. fl = h
      BY <1>3 DEF Flattens
    <3>2. \A i \in 1..n : h[i] = IF i = 1 THEN ss[i] ELSE fl[i - 1] \o ss[i]
      OBVIOUS
    <3> HIDE DEF h
    <3> QED
      BY <3>1, <3>2
  <2> DEFINE Good(i) ==
        /\ IsSeq(fl[i]) /\ Len(fl[i]) = off[i]
        /\ \A d, q : q \in Nat /\ Lies(fl[i], d, q) =>
             \A k \in 1..i : Lies(ss[k], d, q + off[k - 1])
      S == {i \in 0..n : i = 0 \/ Good(i)}
  <2>3. 0 \in S
    BY <1>1
  <2>4. ASSUME NEW i \in 1..n, i - 1 \in S
        PROVE  i \in S
    <3>1. off[i] = off[i - 1] + Len(ss[i]) /\ off[0] = 0 /\ off[i - 1] \in Nat
      BY <1>1, <1>2 DEF OffsetsOf
    <3>2. CASE i = 1
      <4>1. fl[1] = ss[1] /\ IsSeq(ss[1]) /\ Len(ss[1]) = off[1]
        BY <1>1, <2>2, <3>1, <3>2
      <4>2. ASSUME NEW d, NEW q \in Nat, Lies(fl[1], d, q), NEW k \in 1..1
            PROVE  Lies(ss[k], d, q + off[k - 1])
        <5>1. k = 1 /\ q + off[k - 1] = q
          BY <3>1
        <5> QED
          BY <4>1, <4>2, <5>1
      <4>3. Good(1)
        BY <4>1, <4>2
      <4> QED
        BY <1>1, <3>2, <4>3
    <3>3. CASE i # 1
      <4>1. Good(i - 1)
        BY <2>4, <3>3
      <4>2. fl[i] = Joined(fl[i - 1], ss[i]) /\ IsSeq(ss[i])
        BY <1>1, <2>2, <3>3 DEF Joined
      <4>3. IsSeq(fl[i]) /\ Len(fl[i]) = off[i]
        <5>1. IsSeq(fl[i - 1]) /\ Len(fl[i - 1]) = off[i - 1] /\ IsSeq(ss[i])
          BY <4>1, <4>2
        <5>2. /\ IsSeq(Joined(fl[i - 1], ss[i]))
              /\ Len(Joined(fl[i - 1], ss[i])) = Len(fl[i - 1]) + Len(ss[i])
          BY ONLY <5>1, CatIsSeq
        <5> QED
          BY <3>1, <4>2, <5>1, <5>2
      <4>4. ASSUME NEW d, NEW q \in Nat, Lies(fl[i], d, q), NEW k \in 1..i
            PROVE  Lies(ss[k], d, q + off[k - 1])
        <5>1. Lies(fl[i - 1], d, q) /\ Lies(ss[i], d, q + off[i - 1])
          BY <4>1, <4>2, <4>4, LiesCat
        <5>2. k = i \/ k \in 1..(i - 1)
          BY <1>1
        <5> QED
          BY <4>1, <5>1, <5>2
      <4>5. Good(i)
        BY <4>3, <4>4
      <4> HIDE DEF Good
      <4> QED
        BY <4>5
    <3> QED
      BY <3>2, <3>3
  <2>5. n \in S
    <3>1. \A i \in 0..n : i \in S
      <4> HIDE DEF S
      <4> QED
        BY <1>1, <2>3, <2>4, Stepping
    <3>2. n \in 0..n
      BY <1>1
    <3> HIDE DEF S
    <3> QED
      BY <3>1, <3>2
  <2>6. Good(n)
    <3> HIDE DEF Good
    <3> QED
      BY <1>5, <2>5
  <2> QED
    BY <2>1, <2>6 DEF off
<1> QED
  BY <1>4, <1>5
(* Between elements, the event and the loop it is met in choose the one    *)
(* action that reads it.                                                   *)
LEMMA Dispatch ==
  ASSUME ScanNext, ~AtEof, passing = <<>>
  PROVE  /\ parse = "reading"
         /\ where = "protocol" /\ Next1.ev = "start" /\ Next1.tag = "protocol" => ReadProtocol
         /\ where = "protocol" /\ Next1.ev = "start" /\ Next1.tag = "copyright" => ReadCopyright
         /\ where = "protocol" /\ Next1.ev = "start" /\ Next1.tag = "object" => BeginObject
         /\ where = "protocol" /\ Next1.ev = "start" /\ Next1.tag = "enum" => BeginEnum
         /\ where = "protocol" /\ Next1.ev = "end" => GoesOn
         /\ where = "object" /\ Next1.ev = "start" /\ Next1.tag \notin {"c2s", "s2c"} => ObjectPasses
         /\ where = "object" /\ Next1.ev = "start" /\ Next1.tag \in {"c2s", "s2c"} => BeginMethod
         /\ where = "object" /\ Next1.ev = "end" => ObjectEnds
         /\ where = "method" /\ Next1.ev \in {"start", "empty"} /\ Next1.tag = "arg" => ReadArg
         /\ where = "method" /\ Next1.ev = "empty" /\ Next1.tag = "returns" => ReadReturns
         /\ where = "method" /\ Next1.ev = "start" /\ Next1.tag # "arg" => MethodPasses
         /\ where = "method" /\ Next1.ev = "end" => MethodEnds
         /\ where = "enum" /\ Next1.ev = "empty" /\ Next1.tag = "value" => ReadValue
         /\ where = "enum" /\ Next1.ev = "end" => EnumEnds
<1>1. ~PassOn /\ ~EofRefused /\ ~ProtocolEnds
  BY DEF PassOn, EofRefused, ProtocolEnds
<1>2. ReadProtocol \/ ReadCopyright \/ BeginObject \/ BeginEnum => where = "protocol" /\ Next1.ev = "start"
  BY DEF ReadProtocol, ReadCopyright, BeginObject, BeginEnum, Reads
<1>3. /\ ReadProtocol => Next1.tag = "protocol"
      /\ ReadCopyright => Next1.tag = "copyright"
      /\ BeginObject => Next1.tag = "object"
      /\ BeginEnum => Next1.tag = "enum"
  BY DEF ReadProtocol, ReadCopyright, BeginObject, BeginEnum
<1>4. GoesOn =>
        /\ where = "protocol" /\ Next1.ev = "start" =>
             Next1.tag \notin {"protocol", "copyright", "object", "enum"}
        /\ where = "object" => Next1.ev \in {"empty", "text"}
        /\ where = "method" => \/ Next1.ev = "text"
                               \/ Next1.ev = "empty" /\ Next1.tag \notin {"arg", "returns"}
        /\ where = "enum" => \/ Next1.ev = "text"
                             \/ Next1.ev \in {"empty", "start"} /\ Next1.tag # "value"
  BY DEF GoesOn, Ignored
<1>5. ObjectPasses \/ BeginMethod => where = "object" /\ Next1.ev = "start"
  BY DEF ObjectPasses, BeginMethod, Reads
<1>6. /\ ObjectPasses => Next1.tag \notin {"c2s", "s2c"}
      /\ BeginMethod => Next1.tag \in {"c2s", "s2c"}
  BY DEF ObjectPasses, BeginMethod
<1>7. ObjectEnds => where = "object" /\ Next1.ev = "end"
  BY DEF ObjectEnds, Reads
<1>8. ReadArg => where = "method" /\ Next1.ev \in {"start", "empty"} /\ Next1.tag = "arg"
  BY DEF ReadArg, Reads
<1>9. ReadReturns => where = "method" /\ Next1.ev = "empty" /\ Next1.tag = "returns"
  BY DEF ReadReturns, Reads
<1>10. MethodPasses => where = "method" /\ Next1.ev = "start" /\ Next1.tag # "arg"
  BY DEF MethodPasses, Reads
<1>11. MethodEnds => where = "method" /\ Next1.ev = "end"
  BY DEF MethodEnds, Reads
<1>12. (ReadValue => where = "enum" /\ Next1.ev \in {"empty", "start"} /\ Next1.tag = "value") /\ (EnumEnds => where = "enum" /\ Next1.ev = "end")
  BY DEF ReadValue, EnumEnds, Reads
<1>13. parse = "reading"
  BY DEF ScanNext, PassOn, EofRefused, ReadProtocol, ReadCopyright, BeginObject, BeginEnum,
    GoesOn, ProtocolEnds, ObjectPasses, BeginMethod, ObjectEnds, ReadArg, ReadReturns,
    MethodPasses, MethodEnds, ReadValue, EnumEnds, Reads
<1> QED
  BY <1>1, <1>2, <1>3, <1>4, <1>5, <1>6, <1>7, <1>8, <1>9, <1>10, <1>11, <1>12, <1>13 DEF ScanNext

-----------------------------------------------------------------------------
(* The events of elements, of arguments and of methods. *)
(* A sequence of one event. *)
LEMMA OneIsSeq ==
  ASSUME NEW x
  PROVE  /\ Sized(<<x>>, 1)
         /\ \A d, q : q \in Nat /\ Lies(<<x>>, d, q) => d[q] = x
<1>1. <<x>> \in Seq({x})
  OBVIOUS
<1>2. IsSeq(<<x>>) /\ Len(<<x>>) = 1 /\ <<x>>[1] = x
  BY <1>1, SeqIsSeq
<1> DEFINE s == <<x>>
<1> HIDE DEF s
<1>3. IsSeq(s) /\ Len(s) = 1 /\ s[1] = x
  BY <1>2 DEF s
<1>4. ASSUME NEW d, NEW q \in Nat, Lies(s, d, q)
      PROVE  d[q] = x
  <2>1. 1 \in 1..Len(s) /\ q + 1 - 1 = q
    BY <1>3
  <2> QED
    BY <1>3, <1>4, <2>1 DEF Lies
<1> QED
  BY <1>2, <1>4 DEF s, Sized

(* The sequence without elements. *)
LEMMA EmptyIsSeq == IsSeq(<<>>) /\ ToSet(<<>>) = {} /\ Len(<<>>) = 0 /\ Sized(<<>>, 0)
<1>1. <<>> \in Seq({})
  OBVIOUS
<1>2. IsSeq(<<>>)
  BY <1>1, SeqIsSeq
<1> QED
  BY <1>2 DEF ToSet, Sized

(* The three events of a remark. *)
LEMMA RemarkLies ==
  ASSUME NEW tag
  PROVE  /\ Sized(Remark(tag), 3)
         /\ \A d, q : q \in Nat /\ Lies(Remark(tag), d, q) =>
              /\ d[q] = Opening(tag, NoAttrs) /\ d[q + 1] = Ev("text", tag, NoAttrs)
              /\ d[q + 2] = Closing(tag)
<1> DEFINE x == Opening(tag, NoAttrs)
           y == Ev("text", tag, NoAttrs)
           z == Closing(tag)
<1>1. Remark(tag) = <<x, y, z>>
  BY DEF Remark
<1> HIDE DEF x, y, z
<1>2. <<x, y, z>> \in Seq({x, y, z})
  OBVIOUS
<1> DEFINE s == <<x, y, z>>
<1>3. IsSeq(s) /\ Len(s) = 3 /\ s[1] = x /\ s[2] = y /\ s[3] = z
  BY <1>2, SeqIsSeq
<1> HIDE DEF s
<1>4. ASSUME NEW d, NEW q \in Nat, Lies(s, d, q)
      PROVE  d[q] = x /\ d[q + 1] = y /\ d[q + 2] = z
  <2>1. /\ 1 \in 1..Len(s) /\ 2 \in 1..Len(s) /\ 3 \in 1..Len(s)
        /\ q + 1 - 1 = q /\ q + 2 - 1 = q + 1 /\ q + 3 - 1 = q + 2
    BY <1>3
  <2>2. d[q + 1 - 1] = s[1] /\ d[q + 2 - 1] = s[2] /\ d[q + 3 - 1] = s[3]
    BY <1>4, <2>1 DEF Lies
  <2> QED
    BY <1>3, <2>1, <2>2
<1>5. Remark(tag) = s
  BY <1>1 DEF s
<1> QED
  BY <1>3, <1>4, <1>5 DEF x, y, z, Sized

(* The eight events of an aside: two remarks between its tags, the first   *)
(* in an element of the same name.                                         *)
LEMMA AsideLies ==
  /\ Sized(Aside, 8)
  /\ \A d, q : q \in Nat /\ Lies(Aside, d, q) =>
       /\ d[q] = Opening("aside", NoAttrs)
       /\ Lies(Remark("aside"), d, q + 1) /\ Lies(Remark("p"), d, q + 4)
       /\ d[q + 7] = Closing("aside")
<1> DEFINE a == <<Opening("aside", NoAttrs)>>
           b == Remark("aside")
           c == Remark("p")
           e == <<Closing("aside")>>
<1>1. Aside = Joined(Joined(Joined(a, b), c), e)
  BY DEF Aside, Joined
<1>2. Sized(a, 1) /\ Sized(b, 3) /\ Sized(c, 3) /\ Sized(e, 1)
  BY OneIsSeq, RemarkLies
<1> HIDE DEF a, b, c, e
<1>3. Sized(Joined(a, b), 4)
  BY <1>2, SizedCat
<1>4. Sized(Joined(Joined(a, b), c), 7)
  BY <1>2, <1>3, SizedCat
<1>5. Sized(Joined(Joined(Joined(a, b), c), e), 8)
  BY <1>2, <1>4, SizedCat
<1>7. ASSUME NEW d, NEW q \in Nat, Lies(Aside, d, q)
      PROVE  /\ d[q] = Opening("aside", NoAttrs)
             /\ Lies(Remark("aside"), d, q + 1) /\ Lies(Remark("p"), d, q + 4)
             /\ d[q + 7] = Closing("aside")
  <2>1. Lies(Joined(Joined(a, b), c), d, q) /\ Lies(e, d, q + 7) /\ q + 7 \in Nat
    BY <1>1, <1>2, <1>4, <1>7, SizedLies
  <2>2. Lies(Joined(a, b), d, q) /\ Lies(c, d, q + 4)
    BY <1>2, <1>3, <2>1, SizedLies
  <2>3. Lies(a, d, q) /\ Lies(b, d, q + 1)
    BY <1>2, <2>2, SizedLies
  <2>4. d[q] = Opening("aside", NoAttrs) /\ d[q + 7] = Closing("aside")
    BY <2>1, <2>3, OneIsSeq DEF a, e
  <2> QED
    BY <2>2, <2>3, <2>4 DEF b, c
<1> QED
  BY <1>1, <1>5, <1>7

ArgAttrs(a) ==
  IF a.type = <<"enum">>
  THEN [name |-> a.name, type |-> a.type, interface |-> a.enum]
  ELSE [name |-> a.name, type |-> a.type]

ArgLen(l) == IF l.open THEN 5 ELSE 1

(* An argument's events: one, or its tags with a summary between them. *)
LEMMA ArgLies ==
  ASSUME NEW a, NEW l
  PROVE  /\ Sized(ArgDoc(a, l), ArgLen(l))
         /\ \A d, q : q \in Nat /\ Lies(ArgDoc(a, l), d, q) =>
              /\ ~l.open => d[q] = Ev("empty", "arg", ArgAttrs(a))
              /\ l.open => /\ d[q] = Opening("arg", ArgAttrs(a))
                           /\ Lies(Remark("summary"), d, q + 1)
                           /\ d[q + 4] = Closing("arg")
<1> DEFINE x == <<Opening("arg", ArgAttrs(a))>>
           y == Remark("summary")
           z == <<Closing("arg")>>
           w == <<Ev("empty", "arg", ArgAttrs(a))>>
<1>1. ArgDoc(a, l) = IF l.open THEN Joined(Joined(x, y), z) ELSE w
  BY DEF ArgDoc, ArgAttrs, Joined
<1>2. Sized(x, 1) /\ Sized(y, 3) /\ Sized(z, 1) /\ Sized(w, 1)
  BY OneIsSeq, RemarkLies
<1> HIDE DEF x, y, z, w
<1>3. Sized(Joined(x, y), 4)
  BY <1>2, SizedCat
<1>4. Sized(Joined(Joined(x, y), z), 5)
  BY <1>2, <1>3, SizedCat
<1>5. CASE l.open
  <2>1. ASSUME NEW d, NEW q \in Nat, Lies(Joined(Joined(x, y), z), d, q)
        PROVE  /\ d[q] = Opening("arg", ArgAttrs(a))
               /\ Lies(Remark("summary"), d, q + 1)
               /\ d[q + 4] = Closing("arg")
    <3>1. Lies(Joined(x, y), d, q) /\ Lies(z, d, q + 4) /\ q + 4 \in Nat
      BY <1>2, <1>3, <2>1, SizedLies
    <3>2. Lies(x, d, q) /\ Lies(y, d, q + 1)
      BY <1>2, <3>1, SizedLies
    <3>3. d[q] = Opening("arg", ArgAttrs(a)) /\ d[q + 4] = Closing("arg")
      BY <3>1, <3>2, OneIsSeq DEF x, z
    <3> QED
      BY <3>2, <3>3 DEF y
  <2> QED
    BY <1>1, <1>4, <1>5, <2>1 DEF ArgLen
<1>6. CASE ~l.open
  <2>1. \A d, q : q \in Nat /\ Lies(w, d, q) => d[q] = Ev("empty", "arg", ArgAttrs(a))
    BY OneIsSeq DEF w
  <2> QED
    BY <1>1, <1>2, <1>6, <2>1 DEF ArgLen
<1> QED
  BY <1>5, <1>6

ArgDocs(m, l) == [i \in DOMAIN m.args |-> ArgDoc(m.args[i], l)]

\* Where a method's arguments, what it returns, and its end are.
ArgAt(m, l, q, k) ==
  q + 1 + (IF l.noise THEN 11 ELSE 0) + Offsets(ArgDocs(m, l))[k - 1]
ReturnsAt(m, l, q) == ArgAt(m, l, q, Len(m.args) + 1)
MethodEnd(m, l, q) == ReturnsAt(m, l, q) + (IF m.returns = "" THEN 0 ELSE 1)

MethodOpening(m, l) == Opening(m.side, MethodAttrs(m, l))

(* A method's arguments are sequences of events. *)
LEMMA ArgDocsSeqs ==
  ASSUME NEW m, IsSeq(m.args), NEW l
  PROVE  AllSeqs(ArgDocs(m, l)) /\ Len(ArgDocs(m, l)) = Len(m.args)
         /\ \A k \in 1..Len(m.args) : ArgDocs(m, l)[k] = ArgDoc(m.args[k], l)
<1> DEFINE ss == ArgDocs(m, l)
           S == {ArgDoc(m.args[i], l) : i \in DOMAIN m.args}
<1>1. DOMAIN m.args = 1..Len(m.args) /\ Len(m.args) \in Nat
  BY Places
<1>2. ss \in [1..Len(m.args) -> S]
  BY <1>1 DEF ArgDocs
<1>3. ss \in Seq(S) /\ Len(ss) = Len(m.args)
  <2> HIDE DEF ss, S
  <2> QED
    BY <1>1, <1>2
<1>4. \A k \in 1..Len(m.args) : ss[k] = ArgDoc(m.args[k], l)
  BY <1>1 DEF ArgDocs
<1> HIDE DEF ss, S
<1>5. IsSeq(ss)
  BY <1>3, SeqIsSeq
<1>6. \A k \in 1..Len(ss) : IsSeq(ss[k])
  BY <1>3, <1>4, ArgLies DEF Sized
<1> QED
  BY <1>3, <1>4, <1>5, <1>6 DEF AllSeqs, ss

(* Where a method's parts are, one behind the other, and what is there. *)
LEMMA MethodLies ==
  ASSUME NEW m, IsSeq(m.args), NEW l
  PROVE  /\ IsSeq(MethodDoc(m, l))
         /\ \A q \in Nat :
              /\ ArgAt(m, l, q, 1) = q + 1 + (IF l.noise THEN 11 ELSE 0)
              /\ \A k \in 1..(Len(m.args) + 1) : ArgAt(m, l, q, k) \in Nat \ {0}
              /\ \A k \in 1..Len(m.args) : ArgAt(m, l, q, k + 1) = ArgAt(m, l, q, k) + ArgLen(l)
              /\ q + Len(MethodDoc(m, l)) = MethodEnd(m, l, q) + 1
         /\ \A d, q : q \in Nat /\ Lies(MethodDoc(m, l), d, q) =>
              /\ d[q] = MethodOpening(m, l)
              /\ l.noise => Lies(Remark("description"), d, q + 1) /\ Lies(Aside, d, q + 4)
              /\ \A k \in 1..Len(m.args) : Lies(ArgDoc(m.args[k], l), d, ArgAt(m, l, q, k))
              /\ m.returns # "" =>
                   d[ReturnsAt(m, l, q)] = Ev("empty", "returns", [iface |-> m.returns])
              /\ d[MethodEnd(m, l, q)] = Closing(m.side)
<1> DEFINE n == Len(m.args)
           ss == ArgDocs(m, l)
           off == Offsets(ss)
           a == <<MethodOpening(m, l)>>
           b == IF l.noise THEN Joined(Remark("description"), Aside) ELSE <<>>
           c == FlattenSeq(ss)
           r == IF m.returns = "" THEN <<>> ELSE <<Ev("empty", "returns", [iface |-> m.returns])>>
           e == <<Closing(m.side)>>
           gap == IF l.noise THEN 11 ELSE 0
           ret == IF m.returns = "" THEN 0 ELSE 1
<1>1. MethodDoc(m, l) = Joined(Joined(Joined(Joined(a, b), c), r), e)
  BY DEF MethodDoc, ArgDocs, MethodOpening, Joined
<1>2. n \in Nat /\ AllSeqs(ss) /\ Len(ss) = n /\ \A k \in 1..n : ss[k] = ArgDoc(m.args[k], l)
  BY ArgDocsSeqs, Places
<1>3. /\ off \in [0..n -> Nat] /\ off[0] = 0
      /\ \A k \in 1..n : off[k] = off[k - 1] + ArgLen(l)
  <2>1. OffsetsOf(ss, off)
    BY <1>2, OffsetsExist
  <2>2. \A k \in 1..n : Len(ss[k]) = ArgLen(l)
    BY <1>2, ArgLies DEF Sized
  <2> HIDE DEF ss, off
  <2> QED
    BY <1>2, <2>1, <2>2 DEF OffsetsOf
<1>4. /\ Sized(c, off[n])
      /\ \A d, q : q \in Nat /\ Lies(c, d, q) =>
           \A k \in 1..n : Lies(ArgDoc(m.args[k], l), d, q + off[k - 1])
  <2>1. IsSeq(c) /\ Len(c) = off[n]
    BY <1>2, Flattened
  <2>2. off[n] \in Nat
    BY <1>2, <1>3
  <2>3. \A d, q : q \in Nat /\ Lies(c, d, q) => \A k \in 1..n : Lies(ss[k], d, q + off[k - 1])
    BY <1>2, Flattened
  <2> HIDE DEF ss, off, c
  <2> QED
    BY <1>2, <2>1, <2>2, <2>3 DEF Sized
<1>5. /\ Sized(b, gap)
      /\ \A d, q : q \in Nat /\ Lies(b, d, q) =>
           (l.noise => Lies(Remark("description"), d, q) /\ Lies(Aside, d, q + 3))
  <2>1. CASE l.noise
    <3> DEFINE x == Remark("description")
               y == Aside
    <3>1. Sized(x, 3) /\ Sized(y, 8)
      BY RemarkLies, AsideLies
    <3> HIDE DEF x, y
    <3>2. Sized(Joined(x, y), 11)
      BY <3>1, SizedCat
    <3>3. \A d, q : q \in Nat /\ Lies(Joined(x, y), d, q) => Lies(x, d, q) /\ Lies(y, d, q + 3)
      BY <3>1, SizedLies
    <3> QED
      BY <2>1, <3>2, <3>3 DEF x, y
  <2>2. CASE ~l.noise
    BY <2>2, EmptyIsSeq
  <2> QED
    BY <2>1, <2>2
<1>6. /\ Sized(r, ret)
      /\ \A d, q : q \in Nat /\ Lies(r, d, q) =>
           (m.returns # "" => d[q] = Ev("empty", "returns", [iface |-> m.returns]))
  BY EmptyIsSeq, OneIsSeq
<1>7. /\ Sized(a, 1) /\ Sized(e, 1)
      /\ \A d, q : q \in Nat /\ Lies(a, d, q) => d[q] = MethodOpening(m, l)
      /\ \A d, q : q \in Nat /\ Lies(e, d, q) => d[q] = Closing(m.side)
  BY OneIsSeq
<1>8. gap \in Nat /\ ret \in Nat /\ off[n] \in Nat /\ ArgLen(l) \in Nat
  BY <1>2, <1>3 DEF ArgLen
<1>9. \A q, k : ArgAt(m, l, q, k) = q + 1 + gap + off[k - 1]
  BY DEF ArgAt
<1>10. \A q : ReturnsAt(m, l, q) = ArgAt(m, l, q, n + 1) /\ MethodEnd(m, l, q) = ReturnsAt(m, l, q) + ret
  BY DEF ReturnsAt, MethodEnd
<1> HIDE DEF a, b, c, r, e, gap, ret, off, n, ss
<1>11. Sized(Joined(a, b), 1 + gap)
  BY <1>5, <1>7, SizedCat
<1>12. Sized(Joined(Joined(a, b), c), 1 + gap + off[n])
  BY <1>4, <1>11, SizedCat
<1>13. Sized(Joined(Joined(Joined(a, b), c), r), 1 + gap + off[n] + ret)
  BY <1>6, <1>12, SizedCat
<1>14. Sized(Joined(Joined(Joined(Joined(a, b), c), r), e), 1 + gap + off[n] + ret + 1)
  BY <1>7, <1>13, SizedCat
<1>15. ASSUME NEW q \in Nat
       PROVE  /\ ArgAt(m, l, q, 1) = q + 1 + gap
              /\ \A k \in 1..(n + 1) : ArgAt(m, l, q, k) \in Nat \ {0}
              /\ \A k \in 1..n : ArgAt(m, l, q, k + 1) = ArgAt(m, l, q, k) + ArgLen(l)
              /\ q + Len(MethodDoc(m, l)) = MethodEnd(m, l, q) + 1
              /\ ReturnsAt(m, l, q) = q + (1 + gap + off[n])
              /\ MethodEnd(m, l, q) = q + (1 + gap + off[n] + ret)
  <2>1. ArgAt(m, l, q, 1) = q + 1 + gap
    <3>1. 1 - 1 = 0
      OBVIOUS
    <3> QED
      BY <1>3, <1>8, <1>9, <3>1
  <2>2. ASSUME NEW k \in 1..(n + 1)
        PROVE  ArgAt(m, l, q, k) \in Nat \ {0}
    <3>1. k - 1 \in 0..n
      BY <1>2
    <3>2. off[k - 1] \in Nat
      BY <1>3, <3>1
    <3>3. ArgAt(m, l, q, k) = q + 1 + gap + off[k - 1]
      BY ONLY <1>9
    <3> QED
      BY ONLY <1>8, <3>2, <3>3, q \in Nat
  <2>3. ASSUME NEW k \in 1..n
        PROVE  ArgAt(m, l, q, k + 1) = ArgAt(m, l, q, k) + ArgLen(l)
    <3>1. k - 1 \in 0..n /\ (k + 1) - 1 = k
      BY <1>2
    <3>2. off[k - 1] \in Nat /\ off[k] = off[k - 1] + ArgLen(l)
      BY <1>3, <3>1
    <3>3. ArgAt(m, l, q, k + 1) = q + 1 + gap + off[k] /\ ArgAt(m, l, q, k) = q + 1 + gap + off[k - 1]
      BY <1>9, <3>1
    <3> QED
      BY <1>8, <3>2, <3>3
  <2>4. ReturnsAt(m, l, q) = q + (1 + gap + off[n])
    <3>1. (n + 1) - 1 = n
      BY <1>2
    <3> QED
      BY <1>8, <1>9, <1>10, <3>1
  <2>5. MethodEnd(m, l, q) = q + (1 + gap + off[n] + ret)
    BY <1>8, <1>10, <2>4
  <2>6. Len(MethodDoc(m, l)) = 1 + gap + off[n] + ret + 1
    BY <1>1, <1>14 DEF Sized
  <2>7. q + Len(MethodDoc(m, l)) = MethodEnd(m, l, q) + 1
    BY <1>8, <2>5, <2>6
  <2> QED
    BY <2>1, <2>2, <2>3, <2>4, <2>5, <2>7
<1>16. ASSUME NEW d, NEW q \in Nat, Lies(MethodDoc(m, l), d, q)
       PROVE  /\ d[q] = MethodOpening(m, l)
              /\ l.noise => Lies(Remark("description"), d, q + 1) /\ Lies(Aside, d, q + 4)
              /\ \A k \in 1..n : Lies(ArgDoc(m.args[k], l), d, ArgAt(m, l, q, k))
              /\ m.returns # "" =>
                   d[ReturnsAt(m, l, q)] = Ev("empty", "returns", [iface |-> m.returns])
              /\ d[MethodEnd(m, l, q)] = Closing(m.side)
  <2>1. Lies(Joined(Joined(Joined(a, b), c), r), d, q) /\ Lies(e, d, q + (1 + gap + off[n] + ret))
    BY <1>1, <1>7, <1>13, <1>16, SizedLies
  <2>2. Lies(Joined(Joined(a, b), c), d, q) /\ Lies(r, d, q + (1 + gap + off[n]))
    BY <1>6, <1>12, <2>1, SizedLies
  <2>3. Lies(Joined(a, b), d, q) /\ Lies(c, d, q + (1 + gap))
    BY <1>4, <1>11, <2>2, SizedLies
  <2>4. Lies(a, d, q) /\ Lies(b, d, q + 1)
    BY <1>5, <1>7, <2>3, SizedLies
  <2>5. /\ q + 1 \in Nat /\ q + (1 + gap) \in Nat /\ q + (1 + gap + off[n]) \in Nat
        /\ q + (1 + gap + off[n] + ret) \in Nat
    BY <1>8
  <2>6. d[q] = MethodOpening(m, l)
    BY <1>7, <2>4
  <2>7. l.noise => Lies(Remark("description"), d, q + 1) /\ Lies(Aside, d, q + 4)
    <3>1. (q + 1) + 3 = q + 4
      OBVIOUS
    <3> QED
      BY <1>5, <2>4, <2>5, <3>1
  <2>8. ASSUME NEW k \in 1..n
        PROVE  Lies(ArgDoc(m.args[k], l), d, ArgAt(m, l, q, k))
    <3>1. Lies(ArgDoc(m.args[k], l), d, q + (1 + gap) + off[k - 1])
      BY <1>4, <2>3, <2>5
    <3>2. off[k - 1] \in Nat
      <4>1. k - 1 \in 0..n
        BY <1>2
      <4> QED
        BY <1>3, <4>1
    <3>3. ArgAt(m, l, q, k) = q + (1 + gap) + off[k - 1]
      BY <1>8, <1>9, <3>2
    <3> QED
      BY <3>1, <3>3
  <2>9. m.returns # "" => d[ReturnsAt(m, l, q)] = Ev("empty", "returns", [iface |-> m.returns])
    BY <1>6, <1>15, <2>2, <2>5
  <2>10. d[MethodEnd(m, l, q)] = Closing(m.side)
    BY <1>7, <1>15, <2>1, <2>5
  <2> QED
    BY <2>6, <2>7, <2>8, <2>9, <2>10
<1> QED
  BY <1>1, <1>14, <1>15, <1>16 DEF n, gap, Sized

-----------------------------------------------------------------------------
(* The events of objects. *)

(* An opening, a gap, and sequences put together. *)
Head3(x, b, ss) == Joined(Joined(<<x>>, b), FlattenSeq(ss))

(* Its parts and where they are. *)
LEMMA Head3Lies ==
  ASSUME NEW x, NEW b, NEW g, Sized(b, g), NEW ss, AllSeqs(ss)
  PROVE  /\ Sized(Head3(x, b, ss), 1 + g + Offsets(ss)[Len(ss)])
         /\ \A d, q : q \in Nat /\ Lies(Head3(x, b, ss), d, q) =>
              /\ d[q] = x
              /\ Lies(b, d, q + 1)
              /\ \A k \in 1..Len(ss) : Lies(ss[k], d, q + 1 + g + Offsets(ss)[k - 1])
<1> DEFINE a == <<x>>
           c == FlattenSeq(ss)
           off == Offsets(ss)
           n == Len(ss)
<1>1. n \in Nat /\ off \in [0..n -> Nat]
  BY Places, OffsetsExist DEF AllSeqs, OffsetsOf
<1>2. Sized(a, 1)
  BY OneIsSeq
<1>3. Sized(c, off[n])
  <2>1. IsSeq(c) /\ Len(c) = off[n]
    BY Flattened
  <2> HIDE DEF c, off, n
  <2> QED
    BY <1>1, <2>1 DEF Sized
<1>4. \A d, q : q \in Nat /\ Lies(c, d, q) => \A k \in 1..n : Lies(ss[k], d, q + off[k - 1])
  BY Flattened
<1> HIDE DEF c, off, n, a
<1>5. Sized(Joined(a, b), 1 + g)
  BY <1>2, SizedCat
<1>6. Sized(Joined(Joined(a, b), c), 1 + g + off[n])
  BY <1>3, <1>5, SizedCat
<1>7. g \in Nat
  BY DEF Sized
<1>8. ASSUME NEW d, NEW q \in Nat, Lies(Joined(Joined(a, b), c), d, q)
      PROVE  /\ d[q] = x
             /\ Lies(b, d, q + 1)
             /\ \A k \in 1..n : Lies(ss[k], d, q + 1 + g + off[k - 1])
  <2>1. Lies(Joined(a, b), d, q) /\ Lies(c, d, q + (1 + g))
    BY <1>3, <1>5, <1>8, SizedLies
  <2>2. Lies(a, d, q) /\ Lies(b, d, q + 1)
    BY <1>2, <2>1, SizedLies
  <2>3. d[q] = x
    BY <2>2, OneIsSeq DEF a
  <2>4. q + (1 + g) \in Nat /\ q + (1 + g) = q + 1 + g
    BY <1>7
  <2>5. \A k \in 1..n : Lies(ss[k], d, (q + (1 + g)) + off[k - 1])
    BY <1>4, <2>1, <2>4
  <2> QED
    BY <2>2, <2>3, <2>4, <2>5
<1> QED
  BY <1>6, <1>8 DEF Head3, a, c, off, n

MethodDocs(o, l) == [i \in DOMAIN o.methods |-> MethodDoc(o.methods[i], l)]

\* Where an object's methods are, and its end.
MethAt(o, l, q, j) ==
  q + 1 + (IF l.noise THEN 11 ELSE 0) + Offsets(MethodDocs(o, l))[j - 1]
ObjectEnd(o, l, q) == MethAt(o, l, q, Len(o.methods) + 1)

ObjectOpening(o) == Opening("object", [name |-> o.name, version |-> 1])

(* An object's methods are sequences of events. *)
LEMMA MethodDocsSeqs ==
  ASSUME NEW o, ObjectWritten(o), NEW l
  PROVE  AllSeqs(MethodDocs(o, l)) /\ Len(MethodDocs(o, l)) = Len(o.methods)
         /\ \A k \in 1..Len(o.methods) : MethodDocs(o, l)[k] = MethodDoc(o.methods[k], l)
<1> DEFINE ss == MethodDocs(o, l)
           S == {MethodDoc(o.methods[i], l) : i \in DOMAIN o.methods}
<1>1. DOMAIN o.methods = 1..Len(o.methods) /\ Len(o.methods) \in Nat
  BY Places DEF ObjectWritten
<1>2. ss \in [1..Len(o.methods) -> S]
  BY <1>1 DEF MethodDocs
<1>3. ss \in Seq(S) /\ Len(ss) = Len(o.methods)
  <2> HIDE DEF ss, S
  <2> QED
    BY <1>1, <1>2
<1>4. \A k \in 1..Len(o.methods) : ss[k] = MethodDoc(o.methods[k], l)
  BY <1>1 DEF MethodDocs
<1> HIDE DEF ss, S
<1>5. IsSeq(ss)
  BY <1>3, SeqIsSeq
<1>6. \A k \in 1..Len(o.methods) : IsSeq(o.methods[k].args)
  BY <1>1 DEF ObjectWritten, MethodWritten
<1>7. ASSUME NEW k \in 1..Len(ss)
      PROVE  IsSeq(ss[k])
  <2>1. IsSeq(MethodDoc(o.methods[k], l)) /\ ss[k] = MethodDoc(o.methods[k], l)
    BY <1>3, <1>4, <1>6, MethodLies
  <2> QED
    BY <2>1
<1> QED
  BY <1>3, <1>4, <1>5, <1>7 DEF AllSeqs, ss

(* Where an object's parts are, one behind the other, and what is there. *)
LEMMA ObjectLies ==
  ASSUME NEW o, ObjectWritten(o), NEW l
  PROVE  /\ IsSeq(ObjectDoc(o, l))
         /\ \A q \in Nat :
              /\ MethAt(o, l, q, 1) = q + 1 + (IF l.noise THEN 11 ELSE 0)
              /\ \A k \in 1..(Len(o.methods) + 1) : MethAt(o, l, q, k) \in Nat \ {0}
              /\ \A k \in 1..Len(o.methods) :
                   MethAt(o, l, q, k + 1) = MethAt(o, l, q, k) + Len(MethodDoc(o.methods[k], l))
              /\ q + Len(ObjectDoc(o, l)) = ObjectEnd(o, l, q) + 1
         /\ \A d, q : q \in Nat /\ Lies(ObjectDoc(o, l), d, q) =>
              /\ d[q] = ObjectOpening(o)
              /\ l.noise => Lies(Aside, d, q + 1) /\ Lies(Remark("description"), d, q + 9)
              /\ \A k \in 1..Len(o.methods) : Lies(MethodDoc(o.methods[k], l), d, MethAt(o, l, q, k))
              /\ d[ObjectEnd(o, l, q)] = Closing("object")
<1> DEFINE n == Len(o.methods)
           ss == MethodDocs(o, l)
           off == Offsets(ss)
           x == ObjectOpening(o)
           b == IF l.noise THEN Joined(Aside, Remark("description")) ELSE <<>>
           e == <<Closing("object")>>
           gap == IF l.noise THEN 11 ELSE 0
<1>1. ObjectDoc(o, l) = Joined(Head3(x, b, ss), e)
  BY DEF ObjectDoc, MethodDocs, ObjectOpening, Joined, Head3
<1>2. n \in Nat /\ AllSeqs(ss) /\ Len(ss) = n /\ \A k \in 1..n : ss[k] = MethodDoc(o.methods[k], l)
  BY MethodDocsSeqs, Places DEF ObjectWritten
<1>3. /\ off \in [0..n -> Nat] /\ off[0] = 0
      /\ \A k \in 1..n : off[k] = off[k - 1] + Len(ss[k])
  <2>1. OffsetsOf(ss, off)
    BY <1>2, OffsetsExist
  <2> HIDE DEF ss, off
  <2> QED
    BY <1>2, <2>1 DEF OffsetsOf
<1>5. /\ Sized(b, gap)
      /\ \A d, q : q \in Nat /\ Lies(b, d, q) =>
           (l.noise => Lies(Aside, d, q) /\ Lies(Remark("description"), d, q + 8))
  <2>1. CASE l.noise
    <3> DEFINE y == Aside
               z == Remark("description")
    <3>1. Sized(y, 8) /\ Sized(z, 3)
      BY RemarkLies, AsideLies
    <3> HIDE DEF y, z
    <3>2. Sized(Joined(y, z), 11)
      <4>1. Sized(Joined(y, z), 8 + 3)
        BY ONLY <3>1, SizedCat
      <4> QED
        BY <4>1
    <3>3. \A d, q : q \in Nat /\ Lies(Joined(y, z), d, q) => Lies(y, d, q) /\ Lies(z, d, q + 8)
      BY <3>1, SizedLies
    <3>4. b = Joined(y, z) /\ gap = 11
      BY <2>1 DEF y, z
    <3> HIDE DEF b, gap
    <3>5. Sized(b, gap)
      BY <3>2, <3>4
    <3>6. \A d, q : q \in Nat /\ Lies(b, d, q) => Lies(y, d, q) /\ Lies(z, d, q + 8)
      BY <3>3, <3>4
    <3> QED
      BY <3>5, <3>6 DEF y, z
  <2>2. CASE ~l.noise
    BY <2>2, EmptyIsSeq
  <2> QED
    BY <2>1, <2>2
<1>7. /\ Sized(e, 1)
      /\ \A d, q : q \in Nat /\ Lies(e, d, q) => d[q] = Closing("object")
  BY OneIsSeq
<1>8. gap \in Nat /\ off[n] \in Nat
  BY <1>2, <1>3
<1>9. \A q, k : MethAt(o, l, q, k) = q + 1 + gap + off[k - 1]
  BY DEF MethAt
<1>10. \A q : ObjectEnd(o, l, q) = MethAt(o, l, q, n + 1)
  BY DEF ObjectEnd
<1>11. \A k \in 1..n : Len(ss[k]) = Len(MethodDoc(o.methods[k], l)) /\ Len(ss[k]) \in Nat
  BY <1>2, Places DEF AllSeqs
<1> HIDE DEF b, e, gap, off, n, ss, x
<1>12. /\ Sized(Head3(x, b, ss), 1 + gap + off[n])
       /\ \A d, q : q \in Nat /\ Lies(Head3(x, b, ss), d, q) =>
              /\ d[q] = x
              /\ Lies(b, d, q + 1)
              /\ \A k \in 1..n : Lies(ss[k], d, q + 1 + gap + off[k - 1])
  <2>1. /\ Sized(Head3(x, b, ss), 1 + gap + Offsets(ss)[Len(ss)])
        /\ \A d, q : q \in Nat /\ Lies(Head3(x, b, ss), d, q) =>
              /\ d[q] = x
              /\ Lies(b, d, q + 1)
              /\ \A k \in 1..Len(ss) : Lies(ss[k], d, q + 1 + gap + Offsets(ss)[k - 1])
    BY <1>2, <1>5, Head3Lies
  <2> QED
    BY <1>2, <2>1 DEF off
<1>14. Sized(Joined(Head3(x, b, ss), e), 1 + gap + off[n] + 1)
  BY <1>7, <1>12, SizedCat
<1>15. ASSUME NEW q \in Nat
       PROVE  /\ MethAt(o, l, q, 1) = q + 1 + gap
              /\ \A k \in 1..(n + 1) : MethAt(o, l, q, k) \in Nat \ {0}
              /\ \A k \in 1..n : MethAt(o, l, q, k + 1) = MethAt(o, l, q, k) + Len(MethodDoc(o.methods[k], l))
              /\ q + Len(ObjectDoc(o, l)) = ObjectEnd(o, l, q) + 1
              /\ ObjectEnd(o, l, q) = q + (1 + gap + off[n])
  <2>1. MethAt(o, l, q, 1) = q + 1 + gap
    <3>1. 1 - 1 = 0
      OBVIOUS
    <3> QED
      BY <1>3, <1>8, <1>9, <3>1
  <2>2. ASSUME NEW k \in 1..(n + 1)
        PROVE  MethAt(o, l, q, k) \in Nat \ {0}
    <3>1. k - 1 \in 0..n
      BY <1>2
    <3>2. off[k - 1] \in Nat
      BY <1>3, <3>1
    <3> QED
      BY <1>8, <1>9, <3>2
  <2>3. ASSUME NEW k \in 1..n
        PROVE  MethAt(o, l, q, k + 1) = MethAt(o, l, q, k) + Len(MethodDoc(o.methods[k], l))
    <3>1. k - 1 \in 0..n /\ (k + 1) - 1 = k
      BY <1>2
    <3>2. off[k - 1] \in Nat /\ off[k] = off[k - 1] + Len(ss[k]) /\ Len(ss[k]) \in Nat
      BY <1>3, <1>11, <3>1
    <3>3. MethAt(o, l, q, k + 1) = q + 1 + gap + off[k] /\ MethAt(o, l, q, k) = q + 1 + gap + off[k - 1]
      BY <1>9, <3>1
    <3>4. Len(ss[k]) = Len(MethodDoc(o.methods[k], l))
      BY <1>11
    <3> QED
      BY <1>8, <3>2, <3>3, <3>4
  <2>4. ObjectEnd(o, l, q) = q + (1 + gap + off[n])
    <3>1. (n + 1) - 1 = n
      BY <1>2
    <3> QED
      BY <1>8, <1>9, <1>10, <3>1
  <2>6. Len(ObjectDoc(o, l)) = 1 + gap + off[n] + 1
    BY <1>1, <1>14 DEF Sized
  <2>7. q + Len(ObjectDoc(o, l)) = ObjectEnd(o, l, q) + 1
    BY <1>8, <2>4, <2>6
  <2> QED
    BY <2>1, <2>2, <2>3, <2>4, <2>7
<1>16. ASSUME NEW d, NEW q \in Nat, Lies(ObjectDoc(o, l), d, q)
       PROVE  /\ d[q] = x
              /\ l.noise => Lies(Aside, d, q + 1) /\ Lies(Remark("description"), d, q + 9)
              /\ \A k \in 1..n : Lies(MethodDoc(o.methods[k], l), d, MethAt(o, l, q, k))
              /\ d[ObjectEnd(o, l, q)] = Closing("object")
  <2>1. Lies(Head3(x, b, ss), d, q) /\ Lies(e, d, q + (1 + gap + off[n]))
    BY <1>1, <1>7, <1>12, <1>16, SizedLies
  <2>2. q + 1 \in Nat /\ q + (1 + gap + off[n]) \in Nat /\ (q + 1) + 8 = q + 9
    BY <1>8
  <2>3. d[q] = x /\ Lies(b, d, q + 1)
    BY <1>12, <2>1
  <2>4. l.noise => Lies(Aside, d, q + 1) /\ Lies(Remark("description"), d, q + 9)
    BY <1>5, <2>2, <2>3
  <2>5. \A k \in 1..n : Lies(MethodDoc(o.methods[k], l), d, MethAt(o, l, q, k))
    BY <1>2, <1>9, <1>12, <2>1
  <2>6. d[ObjectEnd(o, l, q)] = Closing("object")
    BY <1>7, <1>15, <2>1, <2>2
  <2> QED
    BY <2>3, <2>4, <2>5, <2>6
<1> QED
  BY <1>1, <1>14, <1>15, <1>16 DEF n, gap, Sized, x

-----------------------------------------------------------------------------
(* The events of enums and of a document. *)

EnumOpening(e) == Opening("enum", [name |-> e.name])
Value(v) == Ev("empty", "value", [idx |-> v, name |-> "value"])

(* An enum's events: its tags with the values between them. *)
LEMMA EnumLies ==
  ASSUME NEW e, EnumWritten(e)
  PROVE  /\ Sized(EnumDoc(e), Len(e.values) + 2)
         /\ \A d, q : q \in Nat /\ Lies(EnumDoc(e), d, q) =>
              /\ d[q] = EnumOpening(e)
              /\ \A k \in 1..Len(e.values) : d[q + k] = Value(e.values[k])
              /\ d[q + Len(e.values) + 1] = Closing("enum")
<1> DEFINE n == Len(e.values)
           a == <<EnumOpening(e)>>
           vs == [i \in DOMAIN e.values |-> Value(e.values[i])]
           z == <<Closing("enum")>>
           S == {Value(e.values[i]) : i \in DOMAIN e.values}
<1>1. EnumDoc(e) = Joined(Joined(a, vs), z)
  BY DEF EnumDoc, Joined, EnumOpening, Value
<1>2. DOMAIN e.values = 1..n /\ n \in Nat
  BY Places DEF EnumWritten
<1>3. vs \in [1..n -> S] /\ \A k \in 1..n : vs[k] = Value(e.values[k])
  BY <1>2
<1> HIDE DEF S, vs, n
<1>4. vs \in Seq(S) /\ Len(vs) = n
  BY <1>2, <1>3
<1>5. Sized(vs, n)
  BY <1>2, <1>4, SeqIsSeq DEF Sized
<1>6. Sized(a, 1) /\ Sized(z, 1)
  BY OneIsSeq
<1>7. \A d, q : q \in Nat /\ Lies(a, d, q) => d[q] = EnumOpening(e)
  BY OneIsSeq
<1>8. \A d, q : q \in Nat /\ Lies(z, d, q) => d[q] = Closing("enum")
  BY OneIsSeq
<1> HIDE DEF a, z
<1>9. Sized(Joined(a, vs), 1 + n)
  BY <1>5, <1>6, SizedCat
<1>10. Sized(Joined(Joined(a, vs), z), 1 + n + 1)
  BY <1>6, <1>9, SizedCat
<1>11. Sized(EnumDoc(e), n + 2)
  <2>1. 1 + n + 1 = n + 2
    BY <1>2
  <2> QED
    BY <1>1, <1>10, <2>1
<1>12. ASSUME NEW d, NEW q \in Nat, Lies(EnumDoc(e), d, q)
       PROVE  /\ d[q] = EnumOpening(e)
              /\ \A k \in 1..n : d[q + k] = Value(e.values[k])
              /\ d[q + n + 1] = Closing("enum")
  <2>1. Lies(Joined(a, vs), d, q) /\ Lies(z, d, q + (1 + n))
    BY <1>1, <1>6, <1>9, <1>12, SizedLies
  <2>2. Lies(a, d, q) /\ Lies(vs, d, q + 1)
    BY <1>5, <1>6, <2>1, SizedLies
  <2>3. q + (1 + n) \in Nat /\ q + (1 + n) = q + n + 1
    BY <1>2
  <2>4. ASSUME NEW k \in 1..n
        PROVE  d[q + k] = Value(e.values[k])
    <3>1. k \in 1..Len(vs) /\ (q + 1) + k - 1 = q + k
      BY <1>2, <1>4
    <3>2. d[(q + 1) + k - 1] = vs[k]
      BY <2>2, <3>1 DEF Lies
    <3> QED
      BY <1>3, <3>1, <3>2
  <2>5. d[q + n + 1] = Closing("enum")
    BY <1>8, <2>1, <2>3
  <2>6. d[q] = EnumOpening(e)
    BY <1>7, <2>2
  <2> QED
    BY <2>4, <2>5, <2>6
<1> QED
  BY <1>11, <1>12 DEF n

ObjectDocs(p, l) == [i \in DOMAIN p.objects |-> ObjectDoc(p.objects[i], l)]
EnumDocs(p) == [i \in DOMAIN p.enums |-> EnumDoc(p.enums[i])]

\* Where objects and enums are.
ObjAt(p, l, i) == 2 + (IF l.noise THEN 3 ELSE 0) + Offsets(ObjectDocs(p, l))[i - 1]
EnumAt(p, l, k) == ObjAt(p, l, Len(p.objects) + 1) + Offsets(EnumDocs(p))[k - 1]

ProtocolOpening(p) == Opening("protocol", [name |-> p.name, version |-> p.version])

(* A protocol's objects are sequences of events. *)
LEMMA ObjectDocsSeqs ==
  ASSUME NEW p, ProtocolWritten(p), NEW l
  PROVE  AllSeqs(ObjectDocs(p, l)) /\ Len(ObjectDocs(p, l)) = Len(p.objects)
         /\ \A k \in 1..Len(p.objects) : ObjectDocs(p, l)[k] = ObjectDoc(p.objects[k], l)
<1> DEFINE ss == ObjectDocs(p, l)
           S == {ObjectDoc(p.objects[i], l) : i \in DOMAIN p.objects}
<1>1. DOMAIN p.objects = 1..Len(p.objects) /\ Len(p.objects) \in Nat
  BY Places DEF ProtocolWritten
<1>2. ss \in [1..Len(p.objects) -> S]
  BY <1>1 DEF ObjectDocs
<1>3. ss \in Seq(S) /\ Len(ss) = Len(p.objects)
  <2> HIDE DEF ss, S
  <2> QED
    BY <1>1, <1>2
<1>4. \A k \in 1..Len(p.objects) : ss[k] = ObjectDoc(p.objects[k], l)
  BY <1>1 DEF ObjectDocs
<1> HIDE DEF ss, S
<1>5. IsSeq(ss)
  BY <1>3, SeqIsSeq
<1>6. \A k \in 1..Len(p.objects) : ObjectWritten(p.objects[k])
  BY <1>1 DEF ProtocolWritten
<1>7. ASSUME NEW k \in 1..Len(ss)
      PROVE  IsSeq(ss[k])
  <2>1. IsSeq(ObjectDoc(p.objects[k], l)) /\ ss[k] = ObjectDoc(p.objects[k], l)
    BY <1>3, <1>4, <1>6, ObjectLies
  <2> QED
    BY <2>1
<1> QED
  BY <1>3, <1>4, <1>5, <1>7 DEF AllSeqs, ss

(* A protocol's enums are sequences of events. *)
LEMMA EnumDocsSeqs ==
  ASSUME NEW p, ProtocolWritten(p)
  PROVE  AllSeqs(EnumDocs(p)) /\ Len(EnumDocs(p)) = Len(p.enums)
         /\ \A k \in 1..Len(p.enums) : EnumDocs(p)[k] = EnumDoc(p.enums[k])
<1> DEFINE ss == EnumDocs(p)
           S == {EnumDoc(p.enums[i]) : i \in DOMAIN p.enums}
<1>1. DOMAIN p.enums = 1..Len(p.enums) /\ Len(p.enums) \in Nat
  BY Places DEF ProtocolWritten
<1>2. ss \in [1..Len(p.enums) -> S]
  BY <1>1 DEF EnumDocs
<1>3. ss \in Seq(S) /\ Len(ss) = Len(p.enums)
  <2> HIDE DEF ss, S
  <2> QED
    BY <1>1, <1>2
<1>4. \A k \in 1..Len(p.enums) : ss[k] = EnumDoc(p.enums[k])
  BY <1>1 DEF EnumDocs
<1> HIDE DEF ss, S
<1>5. IsSeq(ss)
  BY <1>3, SeqIsSeq
<1>6. \A k \in 1..Len(p.enums) : EnumWritten(p.enums[k])
  BY <1>1 DEF ProtocolWritten
<1>7. ASSUME NEW k \in 1..Len(ss)
      PROVE  IsSeq(ss[k])
  <2>1. Sized(EnumDoc(p.enums[k]), Len(p.enums[k].values) + 2) /\ ss[k] = EnumDoc(p.enums[k])
    BY <1>3, <1>4, <1>6, EnumLies
  <2> QED
    BY <2>1 DEF Sized
<1> QED
  BY <1>3, <1>4, <1>5, <1>7 DEF AllSeqs, ss

(* Where the parts of a document are, one behind the other, and what is    *)
(* there.                                                                  *)
LEMMA DocLies ==
  ASSUME NEW p, ProtocolWritten(p), NEW l, NEW D, D = Doc(p, l)
  PROVE  /\ IsSeq(D) /\ Len(D) = EnumAt(p, l, Len(p.enums) + 1)
         /\ ObjAt(p, l, 1) = 2 + (IF l.noise THEN 3 ELSE 0)
         /\ \A i \in 1..(Len(p.objects) + 1) : ObjAt(p, l, i) \in Nat \ {0}
         /\ \A i \in 1..Len(p.objects) :
              ObjAt(p, l, i + 1) = ObjAt(p, l, i) + Len(ObjectDoc(p.objects[i], l))
         /\ EnumAt(p, l, 1) = ObjAt(p, l, Len(p.objects) + 1)
         /\ \A k \in 1..(Len(p.enums) + 1) : EnumAt(p, l, k) \in Nat \ {0}
         /\ \A k \in 1..Len(p.enums) :
              EnumAt(p, l, k + 1) = EnumAt(p, l, k) + Len(EnumDoc(p.enums[k]))
         /\ D[1] = ProtocolOpening(p)
         /\ l.noise => Lies(Remark("copyright"), D, 2)
         /\ \A i \in 1..Len(p.objects) : Lies(ObjectDoc(p.objects[i], l), D, ObjAt(p, l, i))
         /\ \A k \in 1..Len(p.enums) : Lies(EnumDoc(p.enums[k]), D, EnumAt(p, l, k))
         /\ D[EnumAt(p, l, Len(p.enums) + 1)] = Closing("protocol")
<1> DEFINE n == Len(p.objects)
           ne == Len(p.enums)
           ss == ObjectDocs(p, l)
           es == EnumDocs(p)
           off == Offsets(ss)
           eoff == Offsets(es)
           x == ProtocolOpening(p)
           b == IF l.noise THEN Remark("copyright") ELSE <<>>
           f == FlattenSeq(es)
           z == <<Closing("protocol")>>
           gap == IF l.noise THEN 3 ELSE 0
<1>1. D = Joined(Joined(Head3(x, b, ss), f), z)
  BY DEF Doc, ObjectDocs, EnumDocs, ProtocolOpening, Joined, Head3
<1>2. n \in Nat /\ AllSeqs(ss) /\ Len(ss) = n /\ \A k \in 1..n : ss[k] = ObjectDoc(p.objects[k], l)
  BY ObjectDocsSeqs, Places DEF ProtocolWritten
<1>3. ne \in Nat /\ AllSeqs(es) /\ Len(es) = ne /\ \A k \in 1..ne : es[k] = EnumDoc(p.enums[k])
  BY EnumDocsSeqs, Places DEF ProtocolWritten
<1>4. /\ off \in [0..n -> Nat] /\ off[0] = 0
      /\ \A k \in 1..n : off[k] = off[k - 1] + Len(ss[k])
  <2>1. OffsetsOf(ss, off)
    BY <1>2, OffsetsExist
  <2> HIDE DEF ss, off
  <2> QED
    BY <1>2, <2>1 DEF OffsetsOf
<1>5. /\ eoff \in [0..ne -> Nat] /\ eoff[0] = 0
      /\ \A k \in 1..ne : eoff[k] = eoff[k - 1] + Len(es[k])
  <2>1. OffsetsOf(es, eoff)
    BY <1>3, OffsetsExist
  <2> HIDE DEF es, eoff
  <2> QED
    BY <1>3, <2>1 DEF OffsetsOf
<1>6. Sized(b, gap) /\ (l.noise => b = Remark("copyright"))
  BY RemarkLies, EmptyIsSeq
<1>7. Sized(z, 1) /\ \A d, q : q \in Nat /\ Lies(z, d, q) => d[q] = Closing("protocol")
  BY OneIsSeq
<1>8. Sized(f, eoff[ne]) /\ \A d, q : q \in Nat /\ Lies(f, d, q) => \A k \in 1..ne : Lies(es[k], d, q + eoff[k - 1])
  <2>1. IsSeq(f) /\ Len(f) = eoff[ne]
    BY <1>3, Flattened
  <2>2. eoff[ne] \in Nat
    BY <1>3, <1>5
  <2>3. \A d, q : q \in Nat /\ Lies(f, d, q) => \A k \in 1..ne : Lies(es[k], d, q + eoff[k - 1])
    BY <1>3, Flattened
  <2> HIDE DEF es, eoff, f
  <2> QED
    BY <1>3, <2>1, <2>2, <2>3 DEF Sized
<1>9. \A i : ObjAt(p, l, i) = 2 + gap + off[i - 1]
  BY DEF ObjAt
<1>10. \A k : EnumAt(p, l, k) = ObjAt(p, l, n + 1) + eoff[k - 1]
  BY DEF EnumAt
<1>11. \A k \in 1..n : Len(ss[k]) = Len(ObjectDoc(p.objects[k], l)) /\ Len(ss[k]) \in Nat
  BY <1>2, Places DEF AllSeqs
<1>12. \A k \in 1..ne : Len(es[k]) = Len(EnumDoc(p.enums[k])) /\ Len(es[k]) \in Nat
  BY <1>3, Places DEF AllSeqs
<1>13. gap \in Nat /\ off[n] \in Nat /\ eoff[ne] \in Nat
  BY <1>2, <1>3, <1>4, <1>5
<1>14. /\ Sized(Head3(x, b, ss), 1 + gap + off[n])
       /\ \A d, q : q \in Nat /\ Lies(Head3(x, b, ss), d, q) =>
              /\ d[q] = x
              /\ Lies(b, d, q + 1)
              /\ \A k \in 1..n : Lies(ss[k], d, q + 1 + gap + off[k - 1])
  <2> HIDE DEF b, ss, gap
  <2>1. /\ Sized(Head3(x, b, ss), 1 + gap + Offsets(ss)[Len(ss)])
        /\ \A d, q : q \in Nat /\ Lies(Head3(x, b, ss), d, q) =>
              /\ d[q] = x
              /\ Lies(b, d, q + 1)
              /\ \A k \in 1..Len(ss) : Lies(ss[k], d, q + 1 + gap + Offsets(ss)[k - 1])
    BY <1>2, <1>6, Head3Lies
  <2> QED
    BY <1>2, <2>1 DEF off
<1> HIDE DEF n, ne, ss, es, off, eoff, x, b, f, z, gap
<1> DEFINE h == Head3(x, b, ss)
           hn == 1 + gap + off[n]
<1>15. Sized(h, hn)
  BY <1>14
<1> HIDE DEF h, hn
<1>16. Sized(Joined(h, f), hn + eoff[ne])
  BY <1>8, <1>15, SizedCat
<1>17. Sized(Joined(Joined(h, f), z), hn + eoff[ne] + 1)
  BY <1>7, <1>16, SizedCat
<1>18. D = Joined(Joined(h, f), z)
  BY <1>1 DEF h
<1>19. hn \in Nat /\ 1 + hn = 2 + gap + off[n]
  BY <1>13 DEF hn
<1>20. IsSeq(D) /\ Len(D) = hn + eoff[ne] + 1
  BY <1>17, <1>18 DEF Sized
<1>21. Lies(D, D, 1)
  <2> SUFFICES ASSUME NEW k \in 1..Len(D)
               PROVE  D[1 + k - 1] = D[k]
    BY DEF Lies
  <2>1. 1 + k - 1 = k
    BY <1>13, <1>19, <1>20
  <2> QED
    BY <2>1
<1>22. Lies(Joined(h, f), D, 1) /\ Lies(z, D, 1 + (hn + eoff[ne]))
  BY <1>7, <1>16, <1>18, <1>21, SizedLies
<1>23. Lies(h, D, 1) /\ Lies(f, D, 1 + hn)
  BY <1>8, <1>15, <1>22, SizedLies
<1>24. /\ D[1] = x /\ Lies(b, D, 2)
       /\ \A k \in 1..n : Lies(ss[k], D, 2 + gap + off[k - 1])
  <2>1. /\ D[1] = x /\ Lies(b, D, 1 + 1)
        /\ \A k \in 1..n : Lies(ss[k], D, 1 + 1 + gap + off[k - 1])
    BY <1>14, <1>23 DEF h
  <2>2. 1 + 1 = 2
    OBVIOUS
  <2> QED
    BY <2>1, <2>2
<1>25. ObjAt(p, l, 1) = 2 + gap
  <2>1. 1 - 1 = 0
    OBVIOUS
  <2> QED
    BY <1>4, <1>9, <1>13, <2>1
<1>26. ASSUME NEW i \in 1..(n + 1)
       PROVE  ObjAt(p, l, i) \in Nat \ {0}
  <2>1. i - 1 \in 0..n
    BY <1>2
  <2>2. off[i - 1] \in Nat
    BY <1>4, <2>1
  <2> QED
    BY <1>9, <1>13, <2>2
<1>27. ASSUME NEW i \in 1..n
       PROVE  ObjAt(p, l, i + 1) = ObjAt(p, l, i) + Len(ObjectDoc(p.objects[i], l))
  <2>1. i - 1 \in 0..n /\ (i + 1) - 1 = i
    BY <1>2
  <2>2. off[i - 1] \in Nat /\ off[i] = off[i - 1] + Len(ss[i]) /\ Len(ss[i]) \in Nat
    BY <1>4, <1>11, <2>1
  <2>3. ObjAt(p, l, i + 1) = 2 + gap + off[i] /\ ObjAt(p, l, i) = 2 + gap + off[i - 1]
    BY <1>9, <2>1
  <2>4. Len(ss[i]) = Len(ObjectDoc(p.objects[i], l))
    BY <1>11
  <2> QED
    BY <1>13, <2>2, <2>3, <2>4
<1>28. ObjAt(p, l, n + 1) = 1 + hn
  <2>1. (n + 1) - 1 = n
    BY <1>2
  <2> QED
    BY <1>9, <1>19, <2>1
<1>29. EnumAt(p, l, 1) = ObjAt(p, l, n + 1)
  <2>1. 1 - 1 = 0 /\ ObjAt(p, l, n + 1) \in Nat
    BY <1>19, <1>28
  <2> QED
    BY <1>5, <1>10, <2>1
<1>30. ASSUME NEW k \in 1..(ne + 1)
       PROVE  EnumAt(p, l, k) \in Nat \ {0}
  <2>1. k - 1 \in 0..ne
    BY <1>3
  <2>2. eoff[k - 1] \in Nat
    BY <1>5, <2>1
  <2> QED
    BY <1>10, <1>19, <1>28, <2>2
<1>31. ASSUME NEW k \in 1..ne
       PROVE  EnumAt(p, l, k + 1) = EnumAt(p, l, k) + Len(EnumDoc(p.enums[k]))
  <2>1. k - 1 \in 0..ne /\ (k + 1) - 1 = k
    BY <1>3
  <2>2. eoff[k - 1] \in Nat /\ eoff[k] = eoff[k - 1] + Len(es[k]) /\ Len(es[k]) \in Nat
    BY <1>5, <1>12, <2>1
  <2>3. EnumAt(p, l, k + 1) = 1 + hn + eoff[k] /\ EnumAt(p, l, k) = 1 + hn + eoff[k - 1]
    BY <1>10, <1>28, <2>1
  <2>4. Len(es[k]) = Len(EnumDoc(p.enums[k]))
    BY <1>12
  <2> QED
    BY <1>19, <2>2, <2>3, <2>4
<1>32. EnumAt(p, l, ne + 1) = 1 + (hn + eoff[ne])
  <2>1. (ne + 1) - 1 = ne
    BY <1>3
  <2> QED
    BY <1>10, <1>13, <1>19, <1>28, <2>1
<1>33. Len(D) = EnumAt(p, l, ne + 1)
  BY <1>13, <1>19, <1>20, <1>32
<1>34. l.noise => Lies(Remark("copyright"), D, 2)
  BY <1>6, <1>24
<1>35. \A i \in 1..n : Lies(ObjectDoc(p.objects[i], l), D, ObjAt(p, l, i))
  BY <1>2, <1>9, <1>24
<1>36. \A k \in 1..ne : Lies(EnumDoc(p.enums[k]), D, EnumAt(p, l, k))
  <2>1. 1 + hn \in Nat
    BY <1>19
  <2>2. \A k \in 1..ne : Lies(es[k], D, 1 + hn + eoff[k - 1])
    BY <1>8, <1>23, <2>1
  <2> QED
    BY <1>3, <1>10, <1>28, <2>2
<1>37. D[EnumAt(p, l, ne + 1)] = Closing("protocol")
  <2>1. 1 + (hn + eoff[ne]) \in Nat
    BY <1>13, <1>19
  <2> QED
    BY <1>7, <1>22, <1>32, <2>1
<1> QED
  BY <1>20, <1>24, <1>25, <1>26, <1>27, <1>29, <1>30, <1>31, <1>33, <1>34, <1>35, <1>36, <1>37
    DEF n, ne, gap, x

-----------------------------------------------------------------------------
(* Where the reader can be in a document, and what it has read by then. *)

(* The first places of a sequence. *)
First(f, n) == [k \in 1..n |-> f[k]]

OutIs(p, i, k) ==
  out = [name |-> p.name, version |-> p.version,
         objects |-> First(Said(p).objects, i), enums |-> First(p.enums, k)]
ObjIs(o, j) == obj = [name |-> o.name, c2s |-> Sides(o, "c2s")[j], s2c |-> Sides(o, "s2c")[j]]
MethIs(m, k, returns) ==
  meth = [side |-> m.side, name |-> m.name, args |-> First(m.args, k),
          returns |-> returns, destructor |-> m.destructor]
EnmIs(e, k) == enm = [name |-> e.name, values |-> First(e.values, k)]

Passes(how, tag, depth) == passing = <<[how |-> how, tag |-> tag, depth |-> depth]>>

PassesRemark(D, q) == Lies(Remark(D[q].tag), D, q) /\ Passes("text", D[q].tag, 0)
PassesAside(D, q) ==
  Lies(Aside, D, q) /\ Passes("skip", "aside", IF pos \in {q + 2, q + 3} THEN 1 ELSE 0)
PassesArg(D, q) ==
  /\ Lies(Remark("summary"), D, q + 1) /\ D[q + 4] = Closing("arg")
  /\ Passes("skip", "arg", 0)

(* What is next is at e, or an element that ends before it is being passed. *)
Progress(D, e) ==
  \/ passing = <<>> /\ pos = e
  \/ \E q \in 1..(pos - 1) :
       /\ pos < e
       /\ \/ e = q + 3 /\ PassesRemark(D, q)
          \/ e = q + 8 /\ PassesAside(D, q)
          \/ e = q + 5 /\ PassesArg(D, q)

AtStart(D) ==
  /\ where = "protocol" /\ Progress(D, 1)
  /\ out = [name |-> <<>>, version |-> 0, objects |-> <<>>, enums |-> <<>>]
AtCopyright(p, l, D) ==
  where = "protocol" /\ l.noise /\ Progress(D, 2) /\ OutIs(p, 0, 0)
AtObject(p, l, D, i) ==
  where = "protocol" /\ Progress(D, ObjAt(p, l, i)) /\ OutIs(p, i - 1, 0)
AtEnum(p, l, D, k) ==
  where = "protocol" /\ Progress(D, EnumAt(p, l, k)) /\ OutIs(p, Len(p.objects), k - 1)
AtEnd(p, l, D) ==
  /\ where = "protocol" /\ Progress(D, Len(D) + 1)
  /\ OutIs(p, Len(p.objects), Len(p.enums))

AtObjectAside(p, l, D, i) ==
  /\ where = "object" /\ l.noise /\ Progress(D, ObjAt(p, l, i) + 1)
  /\ OutIs(p, i - 1, 0) /\ ObjIs(p.objects[i], 0)
AtObjectRemark(p, l, D, i) ==
  /\ where = "object" /\ l.noise /\ Progress(D, ObjAt(p, l, i) + 9)
  /\ OutIs(p, i - 1, 0) /\ ObjIs(p.objects[i], 0)
AtMethod(p, l, D, i, j) ==
  /\ where = "object" /\ Progress(D, MethAt(p.objects[i], l, ObjAt(p, l, i), j))
  /\ OutIs(p, i - 1, 0) /\ ObjIs(p.objects[i], j - 1)

PlaceOf(p, l, i, j) == MethAt(p.objects[i], l, ObjAt(p, l, i), j)
InMethod(p, i, j) ==
  where = "method" /\ OutIs(p, i - 1, 0) /\ ObjIs(p.objects[i], j - 1)
AtMethodRemark(p, l, D, i, j) ==
  /\ l.noise /\ InMethod(p, i, j) /\ Progress(D, PlaceOf(p, l, i, j) + 1)
  /\ MethIs(p.objects[i].methods[j], 0, "")
AtMethodAside(p, l, D, i, j) ==
  /\ l.noise /\ InMethod(p, i, j) /\ Progress(D, PlaceOf(p, l, i, j) + 4)
  /\ MethIs(p.objects[i].methods[j], 0, "")
AtArg(p, l, D, i, j, k) ==
  /\ InMethod(p, i, j)
  /\ Progress(D, ArgAt(p.objects[i].methods[j], l, PlaceOf(p, l, i, j), k))
  /\ MethIs(p.objects[i].methods[j], k - 1, "")
AtMethodEnd(p, l, D, i, j) ==
  LET m == p.objects[i].methods[j]
  IN /\ InMethod(p, i, j) /\ Progress(D, MethodEnd(m, l, PlaceOf(p, l, i, j)))
     /\ MethIs(m, Len(m.args), m.returns)

AtValue(p, l, D, i, k) ==
  /\ where = "enum" /\ Progress(D, EnumAt(p, l, i) + k)
  /\ OutIs(p, Len(p.objects), i - 1) /\ EnmIs(p.enums[i], k - 1)

Spot(p, l, D) ==
  \/ AtStart(D) \/ AtCopyright(p, l, D) \/ AtEnd(p, l, D)
  \/ \E i \in 1..(Len(p.objects) + 1) : AtObject(p, l, D, i)
  \/ \E i \in 1..Len(p.objects) : AtObjectAside(p, l, D, i) \/ AtObjectRemark(p, l, D, i)
  \/ \E i \in 1..Len(p.objects) : \E j \in 1..(Len(p.objects[i].methods) + 1) :
       AtMethod(p, l, D, i, j)
  \/ \E i \in 1..Len(p.objects) : \E j \in 1..Len(p.objects[i].methods) :
       \/ AtMethodRemark(p, l, D, i, j) \/ AtMethodAside(p, l, D, i, j)
       \/ AtMethodEnd(p, l, D, i, j)
       \/ \E k \in 1..(Len(p.objects[i].methods[j].args) + 1) : AtArg(p, l, D, i, j, k)
  \/ \E i \in 1..(Len(p.enums) + 1) : AtEnum(p, l, D, i)
  \/ \E i \in 1..Len(p.enums) : \E k \in 1..(Len(p.enums[i].values) + 1) :
       AtValue(p, l, D, i, k)

Hurt(D) ==
  \/ damage = "none" /\ doc = D
  \/ damage = "cut" /\ \E n \in 0..(Len(D) - 1) : doc = SubSeq(D, 1, n)
  \/ damage = "attr" /\ \E i \in DOMAIN D : \E attr \in DOMAIN D[i].attrs \ Optional :
       pos <= i /\ doc = [D EXCEPT ![i] = Without(@, attr)]

Reading ==
  /\ pos \in Nat \ {0}
  /\ \E l \in Layouts : Hurt(Doc(said, l)) /\ Spot(said, l, Doc(said, l))

ReadInv ==
  /\ said \in Protocols
  /\ form = "plain" => IF parse = "reading" THEN Reading ELSE ParsedAsWritten

-----------------------------------------------------------------------------
(* An element is passed. *)
(* A step of read_to_end or read_text_to_end: only the closing tag of the  *)
(* element itself ends it. read_to_end counts elements of the same name in *)
(* between.                                                                *)
LEMMA PassOnBy ==
  ASSUME NEW how, NEW tag, NEW depth \in 0..1, Passes(how, tag, depth), PassOn
  PROVE  /\ pos' = pos + 1
         /\ /\ Next1.ev = "end" /\ Next1.tag = tag /\ (depth = 0 \/ how = "text")
            => passing' = <<>>
         /\ /\ Next1.ev = "end" /\ Next1.tag = tag /\ depth = 1 /\ how = "skip"
            => Passes(how, tag, 0)'
         /\ Next1.ev = "start" /\ Next1.tag = tag /\ depth = 0 => Passes(how, tag, 1)'
         /\ Next1.ev \notin {"start", "end"} \/ Next1.tag # tag => Passes(how, tag, depth)'
<1> DEFINE e == passing[1]
           same == Next1.tag = e.tag
<1>1. e = [how |-> how, tag |-> tag, depth |-> depth] /\ passing = <<e>>
  BY DEF Passes
<1>2. pos' = pos + 1
  BY DEF PassOn, Advance
<1>3. passing' = CASE Next1.ev = "end" /\ same /\ (e.depth = 0 \/ e.how = "text") -> <<>>
                   [] Next1.ev = "end" /\ same /\ e.depth > 0 /\ e.how = "skip" ->
                        <<[e EXCEPT !.depth = @ - 1]>>
                   [] Next1.ev = "start" /\ same -> <<[e EXCEPT !.depth = @ + 1]>>
                   [] OTHER -> passing
  BY DEF PassOn
<1>4. e.how = how /\ e.tag = tag /\ e.depth = depth
  BY <1>1
<1>5. ASSUME NEW d
      PROVE  [e EXCEPT !.depth = d] = [how |-> how, tag |-> tag, depth |-> d]
  BY <1>1
<1> HIDE DEF e
<1>6. CASE Next1.ev = "end" /\ Next1.tag = tag /\ (depth = 0 \/ how = "text")
  BY <1>2, <1>3, <1>4, <1>6
<1>7. CASE Next1.ev = "end" /\ Next1.tag = tag /\ depth = 1 /\ how = "skip"
  <2>1. passing' = <<[e EXCEPT !.depth = @ - 1]>>
    BY <1>3, <1>4, <1>7
  <2>2. e.depth - 1 = 0
    BY <1>4, <1>7
  <2>3. passing' = <<[how |-> how, tag |-> tag, depth |-> 0]>>
    BY <1>5, <2>1, <2>2
  <2> QED
    BY <1>2, <1>7, <2>3 DEF Passes
<1>8. CASE Next1.ev = "start" /\ Next1.tag = tag /\ depth = 0
  <2>1. passing' = <<[e EXCEPT !.depth = @ + 1]>>
    BY <1>3, <1>4, <1>8
  <2>2. e.depth + 1 = 1
    BY <1>4, <1>8
  <2>3. passing' = <<[how |-> how, tag |-> tag, depth |-> 1]>>
    BY <1>5, <2>1, <2>2
  <2> QED
    BY <1>2, <1>8, <2>3 DEF Passes
<1>9. CASE Next1.ev \notin {"start", "end"} \/ Next1.tag # tag
  <2>1. passing' = passing
    BY <1>3, <1>4, <1>9
  <2> QED
    BY <1>2, <1>9, <2>1 DEF Passes
<1> QED
  BY <1>2, <1>6, <1>7, <1>8, <1>9

EvIs(ev, tag) == Next1.ev = ev /\ Next1.tag = tag

(* Passing an element goes on to its end and no further, whatever is in    *)
(* it.                                                                     *)
LEMMA ProgressOn ==
  ASSUME NEW D, NEW e \in Nat, Progress(D, e), pos \in Nat, passing # <<>>,
         EvIs(D[pos].ev, D[pos].tag)
  PROVE  /\ pos < e
         /\ D[pos].attrs = NoAttrs \/ D[pos].attrs = <<>>
         /\ PassOn => Progress(D, e)'
<1>1. PICK q \in 1..(pos - 1) :
        /\ pos < e
        /\ \/ e = q + 3 /\ PassesRemark(D, q)
           \/ e = q + 8 /\ PassesAside(D, q)
           \/ e = q + 5 /\ PassesArg(D, q)
  BY DEF Progress
<1>2. q \in Nat /\ q < pos /\ pos < e /\ q >= 1
  BY <1>1
<1>3. ASSUME pos' = pos + 1, pos + 1 = e, passing' = <<>>
      PROVE  Progress(D, e)'
  BY <1>3 DEF Progress
<1>4. ASSUME pos' = pos + 1, pos + 1 < e,
             \/ e = q + 3 /\ PassesRemark(D, q)'
             \/ e = q + 8 /\ PassesAside(D, q)'
             \/ e = q + 5 /\ PassesArg(D, q)'
      PROVE  Progress(D, e)'
  <2>1. q \in 1..(pos' - 1) /\ pos' < e
    BY <1>2, <1>4
  <2> QED
    BY <1>4, <2>1 DEF Progress
<1>5. CASE e = q + 3 /\ PassesRemark(D, q)
  <2> DEFINE t == D[q].tag
  <2>1. Lies(Remark(t), D, q) /\ Passes("text", t, 0)
    BY <1>5 DEF PassesRemark
  <2>2. D[q + 1] = Ev("text", t, NoAttrs) /\ D[q + 2] = Closing(t)
    BY <1>2, <2>1, RemarkLies
  <2> HIDE DEF t
  <2>3. CASE pos = q + 1
    <3>1. EvIs("text", t) /\ D[pos].attrs = NoAttrs
      BY <2>2, <2>3 DEF Ev
    <3>2. PassOn => pos' = pos + 1 /\ Passes("text", t, 0)'
      BY <2>1, <3>1, PassOnBy DEF EvIs
    <3>3. PassOn => PassesRemark(D, q)'
      BY <2>1, <3>2 DEF PassesRemark, t
    <3> QED
      BY <1>2, <1>4, <1>5, <2>3, <3>1, <3>2, <3>3
  <2>4. CASE pos = q + 2
    <3>1. EvIs("end", t) /\ D[pos].attrs = <<>>
      BY <2>2, <2>4 DEF Ev, Closing
    <3>2. PassOn => pos' = pos + 1 /\ passing' = <<>>
      BY <2>1, <3>1, PassOnBy DEF EvIs
    <3> QED
      BY <1>2, <1>3, <1>5, <2>4, <3>1, <3>2
  <2> QED
    BY <1>2, <1>5, <2>3, <2>4
<1>6. CASE e = q + 8 /\ PassesAside(D, q)
  <2>1. Lies(Aside, D, q)
    BY <1>6 DEF PassesAside
  <2>2. /\ Lies(Remark("aside"), D, q + 1) /\ Lies(Remark("p"), D, q + 4)
        /\ D[q + 7] = Closing("aside")
    BY <1>2, <2>1, AsideLies
  <2>3. /\ D[q + 1] = Opening("aside", NoAttrs) /\ D[q + 2] = Ev("text", "aside", NoAttrs)
        /\ D[q + 3] = Closing("aside")
    <3>1. q + 1 \in Nat /\ (q + 1) + 1 = q + 2 /\ (q + 1) + 2 = q + 3
      BY <1>2
    <3>2. PICK r : r = q + 1
      OBVIOUS
    <3>3. D[r] = Opening("aside", NoAttrs) /\ D[r + 1] = Ev("text", "aside", NoAttrs)
          /\ D[r + 2] = Closing("aside")
      BY ONLY <2>2, <3>1, <3>2, RemarkLies
    <3> QED
      BY ONLY <3>1, <3>2, <3>3
  <2>4. /\ D[q + 4] = Opening("p", NoAttrs) /\ D[q + 5] = Ev("text", "p", NoAttrs)
        /\ D[q + 6] = Closing("p")
    <3>1. q + 4 \in Nat /\ (q + 4) + 1 = q + 5 /\ (q + 4) + 2 = q + 6
      BY <1>2
    <3>2. PICK r : r = q + 4
      OBVIOUS
    <3>3. D[r] = Opening("p", NoAttrs) /\ D[r + 1] = Ev("text", "p", NoAttrs)
          /\ D[r + 2] = Closing("p")
      BY ONLY <2>2, <3>1, <3>2, RemarkLies
    <3> QED
      BY ONLY <3>1, <3>2, <3>3
  <2>5. ASSUME NEW depth, depth = IF pos + 1 \in {q + 2, q + 3} THEN 1 ELSE 0,
               pos' = pos + 1, pos + 1 < e, Passes("skip", "aside", depth)'
        PROVE  Progress(D, e)'
    <3>1. PassesAside(D, q)'
      BY <2>1, <2>5 DEF PassesAside, Passes
    <3> QED
      BY <1>4, <1>6, <2>5, <3>1
  <2>6. CASE pos = q + 1
    <3>1. EvIs("start", "aside") /\ D[pos].attrs = NoAttrs
      BY <2>3, <2>6 DEF Ev, Opening
    <3>2. Passes("skip", "aside", 0)
      BY <1>2, <1>6, <2>6 DEF PassesAside
    <3>3. PassOn => pos' = pos + 1 /\ Passes("skip", "aside", 1)'
      BY <3>1, <3>2, PassOnBy DEF EvIs
    <3>4. (IF pos + 1 \in {q + 2, q + 3} THEN 1 ELSE 0) = 1 /\ pos + 1 < e
      BY <1>2, <1>6, <2>6
    <3> QED
      BY <1>2, <2>5, <3>1, <3>3, <3>4
  <2>7. CASE pos = q + 2
    <3>1. EvIs("text", "aside") /\ D[pos].attrs = NoAttrs
      BY <2>3, <2>7 DEF Ev
    <3>2. Passes("skip", "aside", 1)
      BY <1>2, <1>6, <2>7 DEF PassesAside
    <3>3. PassOn => pos' = pos + 1 /\ Passes("skip", "aside", 1)'
      BY <3>1, <3>2, PassOnBy DEF EvIs
    <3>4. (IF pos + 1 \in {q + 2, q + 3} THEN 1 ELSE 0) = 1 /\ pos + 1 < e
      BY <1>2, <1>6, <2>7
    <3> QED
      BY <1>2, <2>5, <3>1, <3>3, <3>4
  <2>8. CASE pos = q + 3
    <3>1. EvIs("end", "aside") /\ D[pos].attrs = <<>>
      BY <2>3, <2>8 DEF Ev, Closing
    <3>2. Passes("skip", "aside", 1)
      BY <1>2, <1>6, <2>8 DEF PassesAside
    <3>3. PassOn => pos' = pos + 1 /\ Passes("skip", "aside", 0)'
      BY <3>1, <3>2, PassOnBy DEF EvIs
    <3>4. (IF pos + 1 \in {q + 2, q + 3} THEN 1 ELSE 0) = 0 /\ pos + 1 < e
      BY <1>2, <1>6, <2>8
    <3> QED
      BY <1>2, <2>5, <3>1, <3>3, <3>4
  <2>9. CASE pos \in {q + 4, q + 5, q + 6}
    <3>1. Next1.tag = "p" /\ (D[pos].attrs = <<>> \/ D[pos].attrs = NoAttrs)
      BY <2>4, <2>9 DEF Ev, Closing, Opening, EvIs
    <3>2. Passes("skip", "aside", 0)
      BY <1>2, <1>6, <2>9 DEF PassesAside
    <3>3. PassOn => pos' = pos + 1 /\ Passes("skip", "aside", 0)'
      BY <3>1, <3>2, PassOnBy
    <3>4. (IF pos + 1 \in {q + 2, q + 3} THEN 1 ELSE 0) = 0 /\ pos + 1 < e
      BY <1>2, <1>6, <2>9
    <3> QED
      BY <1>2, <2>5, <3>1, <3>3, <3>4
  <2>10. CASE pos = q + 7
    <3>1. EvIs("end", "aside") /\ D[pos].attrs = <<>>
      BY <2>2, <2>10 DEF Ev, Closing
    <3>2. Passes("skip", "aside", 0)
      BY <1>2, <1>6, <2>10 DEF PassesAside
    <3>3. PassOn => pos' = pos + 1 /\ passing' = <<>>
      BY <3>1, <3>2, PassOnBy DEF EvIs
    <3> QED
      BY <1>2, <1>3, <1>6, <2>10, <3>1, <3>3
  <2> QED
    BY <1>2, <1>6, <2>6, <2>7, <2>8, <2>9, <2>10
<1>7. CASE e = q + 5 /\ PassesArg(D, q)
  <2>1. /\ Lies(Remark("summary"), D, q + 1) /\ D[q + 4] = Closing("arg")
        /\ Passes("skip", "arg", 0)
    BY <1>7 DEF PassesArg
  <2>2. /\ D[q + 1] = Opening("summary", NoAttrs) /\ D[q + 2] = Ev("text", "summary", NoAttrs)
        /\ D[q + 3] = Closing("summary")
    <3>1. q + 1 \in Nat /\ (q + 1) + 1 = q + 2 /\ (q + 1) + 2 = q + 3
      BY <1>2
    <3> QED
      BY <2>1, <3>1, RemarkLies
  <2>3. CASE pos \in {q + 1, q + 2, q + 3}
    <3>1. Next1.tag = "summary" /\ (D[pos].attrs = <<>> \/ D[pos].attrs = NoAttrs)
      BY <2>2, <2>3 DEF Ev, Closing, Opening, EvIs
    <3>2. PassOn => pos' = pos + 1 /\ Passes("skip", "arg", 0)'
      BY <2>1, <3>1, PassOnBy
    <3>3. PassOn => PassesArg(D, q)'
      BY <2>1, <3>2 DEF PassesArg
    <3>4. pos + 1 < e
      BY <1>2, <1>7, <2>3
    <3> QED
      BY <1>2, <1>4, <1>7, <3>1, <3>2, <3>3, <3>4
  <2>4. CASE pos = q + 4
    <3>1. EvIs("end", "arg") /\ D[pos].attrs = <<>>
      BY <2>1, <2>4 DEF Ev, Closing
    <3>2. PassOn => pos' = pos + 1 /\ passing' = <<>>
      BY <2>1, <3>1, PassOnBy DEF EvIs
    <3> QED
      BY <1>2, <1>3, <1>7, <2>4, <3>1, <3>2
  <2> QED
    BY <1>2, <1>7, <2>3, <2>4
<1> QED
  BY <1>1, <1>5, <1>6, <1>7

-----------------------------------------------------------------------------
(* What each event makes the reader do. *)

Lacks(x) == \E attr \in DOMAIN x.attrs \ Optional : Next1 = Without(x, attr)

(* An event without an attribute has its other attributes. *)
LEMMA WithoutOf ==
  ASSUME NEW ev, NEW tag, NEW attrs, NEW attr \in DOMAIN attrs, attr # "none",
         NEW w, w = Without(Ev(ev, tag, attrs), attr)
  PROVE  /\ w.ev = ev /\ w.tag = tag /\ attr \notin DOMAIN w.attrs
         /\ \A a \in DOMAIN attrs : a \notin {attr, "none"} =>
              a \in DOMAIN w.attrs /\ w.attrs[a] = attrs[a]
<1> DEFINE x == Ev(ev, tag, attrs)
           f == [a \in (DOMAIN attrs \cup {"none"}) \ {attr} |->
                   IF a = "none" THEN "none" ELSE attrs[a]]
<1>1. x = [ev |-> ev, tag |-> tag, attrs |-> attrs]
  BY DEF Ev
<1>2. w = [ev |-> ev, tag |-> tag, attrs |-> f]
  BY <1>1 DEF Without
<1>3. w.ev = ev /\ w.tag = tag /\ w.attrs = f
  BY <1>2
<1> QED
  BY <1>3

(* When an event lacks an attribute, it is what it was otherwise. *)
LEMMA LacksOf ==
  ASSUME NEW ev, NEW tag, NEW attrs, Lacks(Ev(ev, tag, attrs))
  PROVE  \E attr \in DOMAIN attrs \ Optional :
           /\ Next1.ev = ev /\ Next1.tag = tag /\ ~Has(attr)
           /\ \A a \in DOMAIN attrs : a \notin {attr, "none"} =>
                Has(a) /\ Next1.attrs[a] = attrs[a]
<1>1. Ev(ev, tag, attrs).attrs = attrs
  BY DEF Ev
<1>2. PICK attr \in DOMAIN attrs \ Optional : Next1 = Without(Ev(ev, tag, attrs), attr)
  BY <1>1 DEF Lacks
<1>3. attr # "none"
  BY <1>2 DEF Optional
<1> DEFINE w == Next1
<1> HIDE DEF w
<1>4. w = Without(Ev(ev, tag, attrs), attr)
  BY <1>2 DEF w
<1>5. /\ w.ev = ev /\ w.tag = tag /\ attr \notin DOMAIN w.attrs
      /\ \A a \in DOMAIN attrs : a \notin {attr, "none"} =>
              a \in DOMAIN w.attrs /\ w.attrs[a] = attrs[a]
  BY <1>3, <1>4, WithoutOf
<1> QED
  BY <1>2, <1>5 DEF Has, w

(* An event without attributes lacks none. *)
LEMMA NothingLacks ==
  ASSUME NEW x, x.attrs = NoAttrs \/ x.attrs = <<>>
  PROVE  ~Lacks(x)
<1>1. DOMAIN NoAttrs = {"none"}
  BY DEF NoAttrs
<1>2. DOMAIN <<>> = {}
  OBVIOUS
<1> QED
  BY <1>1, <1>2 DEF Lacks, Optional

(* The reader is at an event that is whole or lacks an attribute. *)
Sees(x) == passing = <<>> /\ ~AtEof /\ ScanNext /\ (Next1 = x \/ Lacks(x))
Moves == pos' = pos + 1 /\ passing' = <<>> /\ parse' = "reading"

(* The protocol tag: its name and version are read, and are needed. *)
LEMMA SeesProtocol ==
  ASSUME NEW p, where = "protocol", Sees(ProtocolOpening(p))
  PROVE  /\ Lacks(ProtocolOpening(p)) => parse' = "failed"
         /\ Next1 = ProtocolOpening(p) =>
              /\ Moves /\ UNCHANGED <<where, obj, meth, enm>>
              /\ out' = [out EXCEPT !.name = p.name, !.version = p.version]
<1> DEFINE attrs == [name |-> p.name, version |-> p.version]
           x == Ev("start", "protocol", attrs)
<1>1. ProtocolOpening(p) = x
  BY DEF ProtocolOpening, Opening
<1>2. DOMAIN attrs = {"name", "version"}
  OBVIOUS
<1>3. ASSUME Lacks(x)
      PROVE  parse' = "failed"
  <2>1. Next1.ev = "start" /\ Next1.tag = "protocol" /\ ~(Has("name") /\ Has("version"))
    <3> HIDE DEF attrs
    <3> QED
      BY <1>2, <1>3, LacksOf
  <2>2. ReadProtocol
    BY <2>1, Dispatch DEF Sees
  <2> QED
    BY <2>1, <2>2 DEF ReadProtocol, Fails
<1>4. ASSUME Next1 = x
      PROVE  /\ Moves /\ UNCHANGED <<where, obj, meth, enm>>
             /\ out' = [out EXCEPT !.name = p.name, !.version = p.version]
  <2>1. /\ Next1.ev = "start" /\ Next1.tag = "protocol" /\ Has("name") /\ Has("version")
        /\ Next1.attrs.name = p.name /\ Next1.attrs.version = p.version
    BY <1>4 DEF Ev, Has
  <2>2. ReadProtocol
    BY <2>1, Dispatch DEF Sees
  <2> QED
    BY <2>1, <2>2 DEF ReadProtocol, Moves, Advance, Reads
<1> QED
  BY <1>1, <1>3, <1>4

(* The copyright is passed. *)
LEMMA SeesCopyright ==
  ASSUME where = "protocol", Sees(Opening("copyright", NoAttrs))
  PROVE  /\ pos' = pos + 1 /\ Passes("text", "copyright", 0)' /\ parse' = "reading"
         /\ UNCHANGED <<where, out, obj, meth, enm>>
<1> DEFINE x == Opening("copyright", NoAttrs)
<1>1. x.ev = "start" /\ x.tag = "copyright" /\ x.attrs = NoAttrs
  BY DEF Opening, Ev
<1>2. Next1.ev = "start" /\ Next1.tag = "copyright"
  BY <1>1, NothingLacks DEF Sees
<1>3. ReadCopyright
  BY <1>2, Dispatch DEF Sees
<1> QED
  BY <1>2, <1>3 DEF ReadCopyright, Pass, Passes, Advance, Reads

(* An object begins, and needs a name and a version. *)
LEMMA SeesObject ==
  ASSUME NEW o, where = "protocol", Sees(ObjectOpening(o))
  PROVE  /\ Lacks(ObjectOpening(o)) => parse' = "failed"
         /\ Next1 = ObjectOpening(o) =>
              /\ Moves /\ where' = "object" /\ UNCHANGED <<out, meth, enm>>
              /\ obj' = [name |-> o.name, c2s |-> <<>>, s2c |-> <<>>]
<1> DEFINE attrs == [name |-> o.name, version |-> 1]
           x == Ev("start", "object", attrs)
<1>1. ObjectOpening(o) = x
  BY DEF ObjectOpening, Opening
<1>2. DOMAIN attrs = {"name", "version"}
  OBVIOUS
<1>3. ASSUME Lacks(x)
      PROVE  parse' = "failed"
  <2>1. Next1.ev = "start" /\ Next1.tag = "object" /\ ~(Has("name") /\ Has("version"))
    <3> HIDE DEF attrs
    <3> QED
      BY <1>2, <1>3, LacksOf
  <2>2. BeginObject
    BY <2>1, Dispatch DEF Sees
  <2> QED
    BY <2>1, <2>2 DEF BeginObject, Fails
<1>4. ASSUME Next1 = x
      PROVE  /\ Moves /\ where' = "object" /\ UNCHANGED <<out, meth, enm>>
             /\ obj' = [name |-> o.name, c2s |-> <<>>, s2c |-> <<>>]
  <2>1. /\ Next1.ev = "start" /\ Next1.tag = "object" /\ Has("name") /\ Has("version")
        /\ Next1.attrs.name = o.name
    BY <1>4 DEF Ev, Has
  <2>2. BeginObject
    BY <2>1, Dispatch DEF Sees
  <2> QED
    BY <2>1, <2>2 DEF BeginObject, Moves, Advance, Reads
<1> QED
  BY <1>1, <1>3, <1>4

(* An enum begins, and needs a name. *)
LEMMA SeesEnum ==
  ASSUME NEW e, where = "protocol", Sees(EnumOpening(e))
  PROVE  /\ Lacks(EnumOpening(e)) => parse' = "failed"
         /\ Next1 = EnumOpening(e) =>
              /\ Moves /\ where' = "enum" /\ UNCHANGED <<out, obj, meth>>
              /\ enm' = [name |-> e.name, values |-> <<>>]
<1> DEFINE attrs == [name |-> e.name]
           x == Ev("start", "enum", attrs)
<1>1. EnumOpening(e) = x
  BY DEF EnumOpening, Opening
<1>2. DOMAIN attrs = {"name"}
  OBVIOUS
<1>3. ASSUME Lacks(x)
      PROVE  parse' = "failed"
  <2>1. Next1.ev = "start" /\ Next1.tag = "enum" /\ ~Has("name")
    <3> HIDE DEF attrs
    <3> QED
      BY <1>2, <1>3, LacksOf
  <2>2. BeginEnum
    BY <2>1, Dispatch DEF Sees
  <2> QED
    BY <2>1, <2>2 DEF BeginEnum, Fails
<1>4. ASSUME Next1 = x
      PROVE  /\ Moves /\ where' = "enum" /\ UNCHANGED <<out, obj, meth>>
             /\ enm' = [name |-> e.name, values |-> <<>>]
  <2>1. /\ Next1.ev = "start" /\ Next1.tag = "enum" /\ Has("name")
        /\ Next1.attrs.name = e.name
    BY <1>4 DEF Ev, Has
  <2>2. BeginEnum
    BY <2>1, Dispatch DEF Sees
  <2> QED
    BY <2>1, <2>2 DEF BeginEnum, Moves, Advance, Reads
<1> QED
  BY <1>1, <1>3, <1>4

(* A closing tag, of what the loop reads. *)
LEMMA SeesClosing ==
  ASSUME NEW tag, Sees(Closing(tag))
  PROVE  /\ where = "protocol" => Moves /\ UNCHANGED <<where, out, obj, meth, enm>>
         /\ where = "object" => /\ Moves /\ where' = "protocol" /\ UNCHANGED <<obj, meth, enm>>
                                /\ out' = [out EXCEPT !.objects = Append(@, obj)]
         /\ where = "method" => /\ Moves /\ where' = "object" /\ UNCHANGED <<out, meth, enm>>
                                /\ obj' = IF meth.side = "c2s"
                                          THEN [obj EXCEPT !.c2s = Append(@, Method(meth))]
                                          ELSE [obj EXCEPT !.s2c = Append(@, Method(meth))]
         /\ where = "enum" => /\ Moves /\ where' = "protocol" /\ UNCHANGED <<obj, meth, enm>>
                              /\ out' = [out EXCEPT !.enums = Append(@, enm)]
<1> DEFINE x == Closing(tag)
<1>1. x.ev = "end" /\ x.attrs = <<>>
  BY DEF Closing, Ev
<1>2. Next1.ev = "end"
  BY <1>1, NothingLacks DEF Sees
<1>3. /\ where = "protocol" => GoesOn
      /\ where = "object" => ObjectEnds
      /\ where = "method" => MethodEnds
      /\ where = "enum" => EnumEnds
  BY <1>2, Dispatch DEF Sees
<1>4. where = "protocol" => Moves /\ UNCHANGED <<where, out, obj, meth, enm>>
  BY <1>3 DEF GoesOn, Moves, Advance, Reads
<1>5. where = "object" => /\ Moves /\ where' = "protocol" /\ UNCHANGED <<obj, meth, enm>>
                          /\ out' = [out EXCEPT !.objects = Append(@, obj)]
  BY <1>3 DEF ObjectEnds, Moves, Advance, Reads
<1>6. where = "method" => /\ Moves /\ where' = "object" /\ UNCHANGED <<out, meth, enm>>
                          /\ obj' = IF meth.side = "c2s"
                                    THEN [obj EXCEPT !.c2s = Append(@, Method(meth))]
                                    ELSE [obj EXCEPT !.s2c = Append(@, Method(meth))]
  BY <1>3 DEF MethodEnds, Moves, Advance, Reads
<1>7. where = "enum" => /\ Moves /\ where' = "protocol" /\ UNCHANGED <<obj, meth, enm>>
                        /\ out' = [out EXCEPT !.enums = Append(@, enm)]
  BY <1>3 DEF EnumEnds, Moves, Advance, Reads
<1> QED
  BY <1>4, <1>5, <1>6, <1>7

(* In an object or a method a description or another element is passed. *)
LEMMA SeesRemark ==
  ASSUME NEW tag \in {"description", "aside"}, where \in {"object", "method"},
         Sees(Opening(tag, NoAttrs))
  PROVE  /\ pos' = pos + 1 /\ parse' = "reading" /\ UNCHANGED <<where, out, obj, meth, enm>>
         /\ Passes(IF tag = "description" THEN "text" ELSE "skip", tag, 0)'
<1> DEFINE x == Opening(tag, NoAttrs)
<1>1. x.ev = "start" /\ x.tag = tag /\ x.attrs = NoAttrs
  BY DEF Opening, Ev
<1>2. Next1.ev = "start" /\ Next1.tag = tag
  BY <1>1, NothingLacks DEF Sees
<1>3. ObjectPasses \/ MethodPasses
  BY <1>2, Dispatch DEF Sees
<1>4. /\ pos' = pos + 1 /\ parse' = "reading" /\ UNCHANGED <<where, out, obj, meth, enm>>
      /\ Pass(IF Next1.tag = "description" THEN "text" ELSE "skip")
  BY <1>3 DEF ObjectPasses, MethodPasses, Advance, Reads
<1> QED
  BY <1>2, <1>4 DEF Pass, Passes

(* A method begins, and needs a name. *)
LEMMA SeesMethod ==
  ASSUME NEW m, MethodWritten(m), NEW l, where = "object", Sees(MethodOpening(m, l))
  PROVE  /\ Lacks(MethodOpening(m, l)) => parse' = "failed"
         /\ Next1 = MethodOpening(m, l) =>
              /\ Moves /\ where' = "method" /\ UNCHANGED <<out, obj, enm>>
              /\ meth' = [side |-> m.side, name |-> m.name, args |-> <<>>,
                          returns |-> "", destructor |-> m.destructor]
<1> DEFINE attrs == MethodAttrs(m, l)
           x == Ev("start", m.side, attrs)
<1>1. MethodOpening(m, l) = x
  BY DEF MethodOpening, Opening
<1>2. DOMAIN attrs \ Optional = {"name"} /\ attrs.name = m.name
  BY DEF Optional, MethodAttrs
<1>3. /\ m.destructor => "destructor" \in DOMAIN attrs /\ attrs.destructor = "true"
      /\ ~m.destructor => "destructor" \notin DOMAIN attrs \/ attrs.destructor = "false"
  BY DEF MethodAttrs
<1>4. m.destructor \in BOOLEAN
  BY DEF MethodWritten
<1>5. m.side \in {"c2s", "s2c"}
  BY DEF MethodWritten
<1> HIDE DEF attrs
<1>6. ASSUME Lacks(x)
      PROVE  parse' = "failed"
  <2>1. Next1.ev = "start" /\ Next1.tag = m.side /\ ~Has("name")
    BY <1>2, <1>6, LacksOf
  <2>2. BeginMethod
    BY <1>5, <2>1, Dispatch DEF Sees
  <2> QED
    BY <2>1, <2>2 DEF BeginMethod, Fails
<1>7. ASSUME Next1 = x
      PROVE  /\ Moves /\ where' = "method" /\ UNCHANGED <<out, obj, enm>>
             /\ meth' = [side |-> m.side, name |-> m.name, args |-> <<>>,
                          returns |-> "", destructor |-> m.destructor]
  <2>1. /\ Next1.ev = "start" /\ Next1.tag = m.side /\ Next1.attrs = attrs
    BY <1>7 DEF Ev
  <2>2. Has("name") /\ Next1.attrs.name = m.name 
    BY <1>2, <2>1 DEF Has
  <2>4. (Has("destructor") /\ Next1.attrs.destructor = "true") = m.destructor
    BY <1>3, <1>4, <2>1 DEF Has
  <2>3. BeginMethod
    BY <1>5, <2>1, Dispatch DEF Sees
  <2> QED
    BY <2>1, <2>2, <2>3, <2>4 DEF BeginMethod, Moves, Advance, Reads
<1> QED
  BY <1>1, <1>6, <1>7

(* An argument is pushed, and the rest of its element passed. It needs a   *)
(* name and a type, and one of an enum the name of the enum.               *)
LEMMA SeesArg ==
  ASSUME NEW a, ArgWritten(a), where = "method", NEW ev \in {"start", "empty"},
         Sees(Ev(ev, "arg", ArgAttrs(a)))
  PROVE  /\ Lacks(Ev(ev, "arg", ArgAttrs(a))) => parse' = "failed"
         /\ Next1 = Ev(ev, "arg", ArgAttrs(a)) =>
              /\ pos' = pos + 1 /\ parse' = "reading"
              /\ IF ev = "start" THEN Passes("skip", "arg", 0)' ELSE passing' = <<>>
              /\ UNCHANGED <<where, out, obj, enm>>
              /\ meth' = [meth EXCEPT !.args = Append(@, a)]
<1> DEFINE attrs == ArgAttrs(a)
           x == Ev(ev, "arg", attrs)
<1>1. /\ DOMAIN attrs = IF a.type = <<"enum">> THEN {"name", "type", "interface"}
                        ELSE {"name", "type"}
      /\ attrs.name = a.name /\ attrs.type = a.type
      /\ a.type = <<"enum">> => attrs.interface = a.enum
  BY DEF ArgAttrs
<1> HIDE DEF attrs
<1>2. ASSUME Lacks(x)
      PROVE  parse' = "failed"
  <2>1. PICK attr \in DOMAIN attrs :
           /\ Next1.ev = ev /\ Next1.tag = "arg" /\ ~Has(attr)
           /\ \A b \in DOMAIN attrs : b \notin {attr, "none"} =>
                Has(b) /\ Next1.attrs[b] = attrs[b]
    BY <1>2, LacksOf
  <2>2. ~ArgOK
    <3>1. CASE attr \in {"name", "type"}
      BY <2>1, <3>1 DEF ArgOK
    <3>2. CASE attr = "interface"
      <4>1. a.type = <<"enum">> /\ Next1.attrs["type"] = attrs["type"]
        BY <1>1, <2>1, <3>2
      <4> QED
        BY <1>1, <2>1, <3>2, <4>1 DEF ArgOK
    <3> QED
      BY <1>1, <3>1, <3>2
  <2>3. ReadArg
    BY <2>1, Dispatch DEF Sees
  <2> QED
    BY <2>2, <2>3 DEF ReadArg, Fails
<1>3. ASSUME Next1 = x
      PROVE  /\ pos' = pos + 1 /\ parse' = "reading"
             /\ IF ev = "start" THEN Passes("skip", "arg", 0)' ELSE passing' = <<>>
             /\ UNCHANGED <<where, out, obj, enm>>
             /\ meth' = [meth EXCEPT !.args = Append(@, a)]
  <2>1. Next1.ev = ev /\ Next1.tag = "arg" /\ Next1.attrs = attrs
    BY <1>3 DEF Ev
  <2>2. ArgOK
    BY <1>1, <2>1 DEF ArgOK, Has, ArgWritten
  <2>3. Arg = a
    <3>1. (IF Has("interface") THEN Next1.attrs.interface ELSE "") = a.enum
      BY <1>1, <2>1 DEF Has, ArgWritten
    <3>2. Arg = [name |-> a.name, type |-> a.type, enum |-> a.enum]
      BY <1>1, <2>1, <3>1 DEF Arg
    <3> QED
      BY <3>2 DEF ArgWritten
  <2>4. ReadArg
    BY <2>1, Dispatch DEF Sees
  <2>5. /\ meth' = [meth EXCEPT !.args = Append(@, Arg)]
        /\ IF Next1.ev = "start" THEN Pass("skip") ELSE UNCHANGED passing
        /\ pos' = pos + 1 /\ parse' = parse /\ UNCHANGED <<where, out, obj, enm>>
        /\ parse = "reading" /\ passing = <<>>
    BY <2>2, <2>4 DEF ReadArg, Advance, Reads
  <2>6. IF ev = "start" THEN Passes("skip", "arg", 0)' ELSE passing' = <<>>
    BY <2>1, <2>5 DEF Pass, Passes
  <2> QED
    BY <2>3, <2>5, <2>6
<1> QED
  BY <1>2, <1>3 DEF attrs

(* What a method returns is noted, and needs the attribute iface. *)
LEMMA SeesReturns ==
  ASSUME NEW r, where = "method", Sees(Ev("empty", "returns", [iface |-> r]))
  PROVE  /\ Lacks(Ev("empty", "returns", [iface |-> r])) => parse' = "failed"
         /\ Next1 = Ev("empty", "returns", [iface |-> r]) =>
              /\ Moves /\ UNCHANGED <<where, out, obj, enm>>
              /\ meth' = [meth EXCEPT !.returns = r]
<1> DEFINE attrs == [iface |-> r]
           x == Ev("empty", "returns", attrs)
<1>2. DOMAIN attrs = {"iface"}
  OBVIOUS
<1>3. ASSUME Lacks(x)
      PROVE  parse' = "failed"
  <2>1. Next1.ev = "empty" /\ Next1.tag = "returns" /\ ~Has("iface")
    <3> HIDE DEF attrs
    <3> QED
      BY <1>2, <1>3, LacksOf
  <2>2. ReadReturns
    BY <2>1, Dispatch DEF Sees
  <2> QED
    BY <2>1, <2>2 DEF ReadReturns, Fails
<1>4. ASSUME Next1 = x
      PROVE  /\ Moves /\ UNCHANGED <<where, out, obj, enm>>
             /\ meth' = [meth EXCEPT !.returns = r]
  <2>1. /\ Next1.ev = "empty" /\ Next1.tag = "returns" /\ Has("iface")
        /\ Next1.attrs.iface = r
    BY <1>4 DEF Ev, Has
  <2>2. ReadReturns
    BY <2>1, Dispatch DEF Sees
  <2> QED
    BY <2>1, <2>2 DEF ReadReturns, Moves, Advance, Reads
<1> QED
  BY <1>3, <1>4

(* A value of an enum is pushed, and needs its number. *)
LEMMA SeesValue ==
  ASSUME NEW v, where = "enum", Sees(Value(v))
  PROVE  /\ Lacks(Value(v)) => parse' = "failed"
         /\ Next1 = Value(v) =>
              /\ Moves /\ UNCHANGED <<where, out, obj, meth>>
              /\ enm' = [enm EXCEPT !.values = Append(@, v)]
<1> DEFINE attrs == [idx |-> v, name |-> "value"]
           x == Ev("empty", "value", attrs)
<1>1. Value(v) = x
  BY DEF Value
<1>2. DOMAIN attrs = {"idx", "name"}
  OBVIOUS
<1>3. ASSUME Lacks(x)
      PROVE  parse' = "failed"
  <2>1. Next1.ev = "empty" /\ Next1.tag = "value" /\ ~(Has("idx") /\ Has("name"))
    <3> HIDE DEF attrs
    <3> QED
      BY <1>2, <1>3, LacksOf
  <2>2. ReadValue
    BY <2>1, Dispatch DEF Sees
  <2> QED
    BY <2>1, <2>2 DEF ReadValue, Fails
<1>4. ASSUME Next1 = x
      PROVE  /\ Moves /\ UNCHANGED <<where, out, obj, meth>>
             /\ enm' = [enm EXCEPT !.values = Append(@, v)]
  <2>1. /\ Next1.ev = "empty" /\ Next1.tag = "value" /\ Has("idx") /\ Has("name")
        /\ Next1.attrs.idx = v
    BY <1>4 DEF Ev, Has
  <2>2. ReadValue
    BY <2>1, Dispatch DEF Sees
  <2> QED
    BY <2>1, <2>2 DEF ReadValue, Moves, Advance, Reads
<1> QED
  BY <1>1, <1>3, <1>4

-----------------------------------------------------------------------------
(* What is read grows by one. *)
(* Sequences with the same elements at the same places are the same. *)
LEMMA SameSeq ==
  ASSUME NEW S, NEW s \in Seq(S), NEW t \in Seq(S), Len(s) = Len(t),
         \A k \in 1..Len(s) : s[k] = t[k]
  PROVE  s = t
OBVIOUS

(* The first places are a sequence. *)
LEMMA FirstIsSeq ==
  ASSUME NEW f, NEW n \in Nat, NEW S, \A k \in 1..n : f[k] \in S
  PROVE  First(f, n) \in Seq(S) /\ Len(First(f, n)) = n
         /\ \A k \in 1..n : First(f, n)[k] = f[k]
<1> DEFINE s == First(f, n)
<1>1. s \in [1..n -> S] /\ \A k \in 1..n : s[k] = f[k]
  BY DEF First
<1> HIDE DEF s
<1>2. s \in Seq(S) /\ Len(s) = n
  BY <1>1
<1> QED
  BY <1>1, <1>2 DEF s

(* One place more is one element more. *)
LEMMA FirstNext ==
  ASSUME NEW f, NEW n \in Nat
  PROVE  First(f, n + 1) = Append(First(f, n), f[n + 1])
<1> DEFINE S == {f[k] : k \in 1..(n + 1)}
           s == First(f, n)
           t == Append(s, f[n + 1])
           u == First(f, n + 1)
<1>1. \A k \in 1..(n + 1) : f[k] \in S
  OBVIOUS
<1>2. f[n + 1] \in S /\ \A k \in 1..n : f[k] \in S
  OBVIOUS
<1> HIDE DEF S, s, t, u
<1>3. s \in Seq(S) /\ Len(s) = n /\ \A k \in 1..n : s[k] = f[k]
  BY <1>2, FirstIsSeq DEF s
<1>4. u \in Seq(S) /\ Len(u) = n + 1 /\ \A k \in 1..(n + 1) : u[k] = f[k]
  <2>1. n + 1 \in Nat
    OBVIOUS
  <2> QED
    BY <1>1, <2>1, FirstIsSeq DEF u
<1>5. t \in Seq(S) /\ Len(t) = n + 1 /\ t[n + 1] = f[n + 1]
  BY <1>2, <1>3 DEF t
<1>6. \A k \in 1..n : t[k] = s[k]
  BY <1>2, <1>3 DEF t
<1>7. ASSUME NEW k \in 1..Len(t)
      PROVE  t[k] = u[k]
  <2>1. CASE k = n + 1
    BY <1>4, <1>5, <2>1
  <2>2. CASE k # n + 1
    BY <1>3, <1>4, <1>5, <1>6, <2>2
  <2> QED
    BY <2>1, <2>2
<1>8. t = u
  BY <1>4, <1>5, <1>7, SameSeq
<1> QED
  BY <1>8 DEF t, u, s

(* No place is no element. *)
LEMMA FirstNone ==
  ASSUME NEW f
  PROVE  First(f, 0) = <<>>
<1>1. First(f, 0) \in Seq({}) /\ Len(First(f, 0)) = 0
  BY FirstIsSeq
<1> DEFINE s == First(f, 0)
<1> HIDE DEF s
<1>2. s \in Seq({}) /\ Len(s) = 0
  BY <1>1 DEF s
<1>3. s = <<>>
  BY <1>2
<1> QED
  BY <1>3 DEF s

(* All places are the sequence. *)
LEMMA FirstAll ==
  ASSUME NEW f, IsSeq(f)
  PROVE  First(f, Len(f)) = f
<1> DEFINE n == Len(f)
           S == ToSet(f)
           s == First(f, n)
<1>1. f \in Seq(S) /\ n \in Nat
  BY Places DEF IsSeq
<1>2. \A k \in 1..n : f[k] \in S
  BY <1>1
<1>3. s \in Seq(S) /\ Len(s) = n /\ \A k \in 1..n : s[k] = f[k]
  <2> HIDE DEF n, S
  <2> QED
    BY <1>1, <1>2, FirstIsSeq
<1> HIDE DEF S, s
<1>4. s = f
  BY <1>1, <1>3, SameSeq
<1> QED
  BY <1>4 DEF s

(* The methods of a side are collected one at a time. *)
LEMMA SidesBy ==
  ASSUME NEW o, IsSeq(o.methods), NEW side
  PROVE  /\ Sides(o, side)[0] = <<>>
         /\ \A n \in 1..Len(o.methods) :
              Sides(o, side)[n] = IF o.methods[n].side = side
                                  THEN Append(Sides(o, side)[n - 1], Method(o.methods[n]))
                                  ELSE Sides(o, side)[n - 1]
<1> DEFINE N == Len(o.methods)
           M == {Method(o.methods[i]) : i \in 1..N}
           V == Seq(M)
           step == [x \in Nat \X V |->
                      IF x[1] \in 1..N /\ o.methods[x[1]].side = side
                      THEN Append(x[2], Method(o.methods[x[1]])) ELSE x[2]]
           Def(f) == f = [n \in 0..N |->
                            IF n = 0 THEN <<>>
                            ELSE IF o.methods[n].side = side
                            THEN Append(f[n - 1], Method(o.methods[n]))
                            ELSE f[n - 1]]
<1>1. N \in Nat
  BY Places
<1>2. step \in [Nat \X V -> V]
  <2>1. \A s \in V, e \in M : Append(s, e) \in V
    OBVIOUS
  <2>2. \A i \in 1..N : Method(o.methods[i]) \in M
    OBVIOUS
  <2> HIDE DEF V, M, N
  <2> QED
    BY <2>1, <2>2
<1>3. PICK f \in [0..N -> V] : RunsBy(f, <<>>, step, N)
  <2>1. <<>> \in V
    OBVIOUS
  <2> HIDE DEF step, V, N
  <2> QED
    BY <1>1, <1>2, <2>1, Recursion
<1>4. f[0] = <<>> /\ \A n \in 1..N : f[n] = step[<<n, f[n - 1]>>]
  BY <1>3 DEF RunsBy
<1>5. ASSUME NEW n \in 1..N
      PROVE  f[n] = IF o.methods[n].side = side
                    THEN Append(f[n - 1], Method(o.methods[n])) ELSE f[n - 1]
  <2>1. n \in Nat /\ n - 1 \in 0..N
    BY <1>1
  <2>2. f[n - 1] \in V
    BY <2>1
  <2>3. f[n] = step[<<n, f[n - 1]>>]
    <3> HIDE DEF step, V
    <3> QED
      BY <1>4
  <2> HIDE DEF V, N
  <2> QED
    BY <2>1, <2>2, <2>3
<1>6. Def(f)
  <2> DEFINE h == [n \in 0..N |->
                      IF n = 0 THEN <<>>
                      ELSE IF o.methods[n].side = side
                      THEN Append(f[n - 1], Method(o.methods[n]))
                      ELSE f[n - 1]]
  <2>1. f \in [0..N -> V]
    OBVIOUS
  <2>2. \A n \in 0..N : h[n] = IF n = 0 THEN <<>>
                               ELSE IF o.methods[n].side = side
                               THEN Append(f[n - 1], Method(o.methods[n]))
                               ELSE f[n - 1]
    OBVIOUS
  <2>4. DOMAIN h = 0..N /\ h = [n \in 0..N |-> h[n]]
    OBVIOUS
  <2>5. f = [n \in 0..N |-> f[n]]
    <3> HIDE DEF V
    <3> QED
      BY <2>1
  <2> HIDE DEF h, V
  <2>3. \A n \in 0..N : h[n] = f[n]
    <3> SUFFICES ASSUME NEW n \in 0..N
                 PROVE  h[n] = f[n]
      OBVIOUS
    <3>1. CASE n = 0
      BY <1>4, <2>2, <3>1
    <3>2. CASE n # 0
      <4>1. n \in 1..N
        BY <1>1, <3>2
      <4> QED
        BY <1>5, <2>2, <3>2, <4>1
    <3> QED
      BY <3>1, <3>2
  <2>6. f = h
    BY <2>3, <2>4, <2>5
  <2> QED
    BY <2>6 DEF h
<1>7. Sides(o, side) = CHOOSE g : Def(g)
  BY DEF Sides
<1>8. Def(Sides(o, side))
  <2> HIDE DEF Def
  <2> QED
    BY <1>6, <1>7
<1> DEFINE g == Sides(o, side)
<1> HIDE DEF g
<1>9. g = [n \in 0..N |-> IF n = 0 THEN <<>>
                          ELSE IF o.methods[n].side = side
                          THEN Append(g[n - 1], Method(o.methods[n]))
                          ELSE g[n - 1]]
  BY <1>8 DEF g
<1> DEFINE h == [n \in 0..N |-> IF n = 0 THEN <<>>
                          ELSE IF o.methods[n].side = side
                          THEN Append(g[n - 1], Method(o.methods[n]))
                          ELSE g[n - 1]]
<1>10. h[0] = <<>> /\ \A n \in 1..N : h[n] = IF o.methods[n].side = side
                          THEN Append(g[n - 1], Method(o.methods[n]))
                          ELSE g[n - 1]
  BY <1>1
<1>11. g = h
  BY <1>9
<1> HIDE DEF h
<1>12. g[0] = <<>> /\ \A n \in 1..N : g[n] = IF o.methods[n].side = side
                          THEN Append(g[n - 1], Method(o.methods[n]))
                          ELSE g[n - 1]
  BY <1>10, <1>11
<1> QED
  BY <1>12 DEF g

(* After parse_method the object has the method among its side's. *)
LEMMA ObjIsNext ==
  ASSUME NEW o, ObjectWritten(o), NEW j \in 1..Len(o.methods), ObjIs(o, j - 1),
         NEW m, m = o.methods[j], MethIs(m, Len(m.args), m.returns),
         obj' = IF meth.side = "c2s"
                THEN [obj EXCEPT !.c2s = Append(@, Method(meth))]
                ELSE [obj EXCEPT !.s2c = Append(@, Method(meth))]
  PROVE  ObjIs(o, j)'
<1>1. MethodWritten(m)
  <2>1. DOMAIN o.methods = 1..Len(o.methods)
    BY Places DEF ObjectWritten
  <2> QED
    BY <2>1 DEF ObjectWritten
<1>2. meth.side = m.side /\ Method(meth) = Method(m)
  <2>1. First(m.args, Len(m.args)) = m.args
    BY <1>1, FirstAll DEF MethodWritten
  <2>2. meth = [side |-> m.side, name |-> m.name, args |-> m.args,
                returns |-> m.returns, destructor |-> m.destructor]
    BY <2>1 DEF MethIs
  <2>3. /\ meth.side = m.side /\ meth.name = m.name /\ meth.args = m.args
        /\ meth.returns = m.returns /\ meth.destructor = m.destructor
    BY <2>2
  <2> QED
    BY <2>3 DEF Method
<1> DEFINE a == Sides(o, "c2s")[j - 1]
           b == Sides(o, "s2c")[j - 1]
<1>3. /\ Sides(o, "c2s")[j] = IF m.side = "c2s" THEN Append(a, Method(m)) ELSE a
      /\ Sides(o, "s2c")[j] = IF m.side = "s2c" THEN Append(b, Method(m)) ELSE b
  BY SidesBy DEF ObjectWritten
<1>4. obj = [name |-> o.name, c2s |-> a, s2c |-> b]
  BY DEF ObjIs
<1>5. m.side \in {"c2s", "s2c"}
  BY <1>1 DEF MethodWritten
<1> DEFINE c == Sides(o, "c2s")[j]
           e == Sides(o, "s2c")[j]
           M == Method(m)
<1>6. obj' = [name |-> o.name, c2s |-> c, s2c |-> e]
  <2> HIDE DEF a, b, c, e, M
  <2>1. CASE m.side = "c2s"
    <3>1. obj' = [obj EXCEPT !.c2s = Append(@, M)] /\ c = Append(a, M) /\ e = b
      BY <1>2, <1>3, <2>1 DEF a, b, c, e, M
    <3> QED
      BY <1>4, <3>1
  <2>2. CASE m.side = "s2c"
    <3>1. obj' = [obj EXCEPT !.s2c = Append(@, M)] /\ c = a /\ e = Append(b, M)
      BY <1>2, <1>3, <2>2 DEF a, b, c, e, M
    <3> QED
      BY <1>4, <3>1
  <2> QED
    BY <1>5, <2>1, <2>2
<1> QED
  BY <1>6 DEF ObjIs

(* An object begins without methods. *)
LEMMA ObjIsFirst ==
  ASSUME NEW o, ObjectWritten(o), obj' = [name |-> o.name, c2s |-> <<>>, s2c |-> <<>>]
  PROVE  ObjIs(o, 0)'
<1>1. Sides(o, "c2s")[0] = <<>> /\ Sides(o, "s2c")[0] = <<>>
  BY SidesBy DEF ObjectWritten
<1> QED
  BY <1>1 DEF ObjIs

(* After parse_object the protocol has the object. *)
LEMMA OutIsNext ==
  ASSUME NEW p, ProtocolWritten(p), NEW i \in 1..Len(p.objects), OutIs(p, i - 1, 0),
         ObjIs(p.objects[i], Len(p.objects[i].methods)),
         out' = [out EXCEPT !.objects = Append(@, obj)]
  PROVE  OutIs(p, i, 0)'
<1> DEFINE so == Said(p).objects
<1>1. DOMAIN p.objects = 1..Len(p.objects) /\ Len(p.objects) \in Nat
  BY Places DEF ProtocolWritten
<1>2. so[i] = obj
  <2>1. so = [k \in DOMAIN p.objects |->
                  LET o == p.objects[k]
                  IN [name |-> o.name, c2s |-> Side(o, "c2s"), s2c |-> Side(o, "s2c")]]
    BY DEF Said
  <2>2. so[i] = [name |-> p.objects[i].name, c2s |-> Side(p.objects[i], "c2s"),
                 s2c |-> Side(p.objects[i], "s2c")]
    BY <1>1, <2>1
  <2> QED
    BY <2>2 DEF ObjIs, Side
<1>3. First(so, i) = Append(First(so, i - 1), obj)
  <2>1. i - 1 \in Nat /\ (i - 1) + 1 = i
    BY <1>1
  <2> QED
    BY <1>2, <2>1, FirstNext
<1> HIDE DEF so
<1>4. out = [name |-> p.name, version |-> p.version, objects |-> First(so, i - 1),
             enums |-> First(p.enums, 0)]
  BY DEF OutIs, so
<1>5. out' = [name |-> p.name, version |-> p.version, objects |-> First(so, i),
              enums |-> First(p.enums, 0)]
  BY <1>3, <1>4
<1> QED
  BY <1>5 DEF OutIs, so

(* After parse_enum the protocol has the enum. *)
LEMMA OutIsNextEnum ==
  ASSUME NEW p, ProtocolWritten(p), NEW i \in 1..Len(p.enums),
         OutIs(p, Len(p.objects), i - 1),
         EnmIs(p.enums[i], Len(p.enums[i].values)),
         out' = [out EXCEPT !.enums = Append(@, enm)]
  PROVE  OutIs(p, Len(p.objects), i)'
<1> DEFINE so == First(Said(p).objects, Len(p.objects))
           e == p.enums[i]
<1>1. DOMAIN p.enums = 1..Len(p.enums) /\ Len(p.enums) \in Nat
  BY Places DEF ProtocolWritten
<1>2. e = enm
  <2>1. e = [name |-> e.name, values |-> e.values] /\ IsSeq(e.values)
    BY <1>1 DEF ProtocolWritten, EnumWritten
  <2>2. First(e.values, Len(e.values)) = e.values
    BY <2>1, FirstAll
  <2> QED
    BY <2>1, <2>2 DEF EnmIs
<1>3. First(p.enums, i) = Append(First(p.enums, i - 1), enm)
  <2>1. i - 1 \in Nat /\ (i - 1) + 1 = i
    BY <1>1
  <2> QED
    BY <1>2, <2>1, FirstNext
<1> HIDE DEF so
<1>4. out = [name |-> p.name, version |-> p.version, objects |-> so,
             enums |-> First(p.enums, i - 1)]
  BY DEF OutIs, so
<1>5. out' = [name |-> p.name, version |-> p.version, objects |-> so,
              enums |-> First(p.enums, i)]
  BY <1>3, <1>4
<1> QED
  BY <1>5 DEF OutIs, so

(* A protocol begins with its name and version. *)
LEMMA OutIsFirst ==
  ASSUME NEW p, out' = [out EXCEPT !.name = p.name, !.version = p.version],
         out = [name |-> <<>>, version |-> 0, objects |-> <<>>, enums |-> <<>>]
  PROVE  OutIs(p, 0, 0)'
<1>1. First(Said(p).objects, 0) = <<>> /\ First(p.enums, 0) = <<>>
  BY FirstNone
<1>2. out' = [name |-> p.name, version |-> p.version, objects |-> <<>>, enums |-> <<>>]
  OBVIOUS
<1> QED
  BY <1>1, <1>2 DEF OutIs

(* A method has one argument more. *)
LEMMA MethIsNext ==
  ASSUME NEW m, NEW k \in Nat, MethIs(m, k, ""),
         meth' = [meth EXCEPT !.args = Append(@, m.args[k + 1])]
  PROVE  MethIs(m, k + 1, "")'
<1>1. First(m.args, k + 1) = Append(First(m.args, k), m.args[k + 1])
  BY FirstNext
<1> QED
  BY <1>1 DEF MethIs

(* An enum has one value more. *)
LEMMA EnmIsNext ==
  ASSUME NEW e, NEW k \in Nat, EnmIs(e, k),
         enm' = [enm EXCEPT !.values = Append(@, e.values[k + 1])]
  PROVE  EnmIs(e, k + 1)'
<1>1. First(e.values, k + 1) = Append(First(e.values, k), e.values[k + 1])
  BY FirstNext
<1> QED
  BY <1>1 DEF EnmIs

(* Past an event of its own, the reader is at the next place. *)
LEMMA Goes ==
  ASSUME NEW D, NEW e \in Nat, pos = e, Moves
  PROVE  Progress(D, e + 1)'
BY DEF Moves, Progress

(* When a remark begins, the next place is behind it. *)
LEMMA EntersRemark ==
  ASSUME NEW D, NEW q \in Nat, q >= 1, pos = q, NEW tag, Lies(Remark(tag), D, q),
         pos' = pos + 1, Passes("text", tag, 0)'
  PROVE  Progress(D, q + 3)'
<1>1. D[q] = Opening(tag, NoAttrs)
  BY RemarkLies
<1>2. D[q].tag = tag
  BY <1>1 DEF Opening, Ev
<1>3. PassesRemark(D, q)'
  BY <1>2 DEF PassesRemark
<1>4. q \in 1..(pos' - 1) /\ pos' < q + 3
  OBVIOUS
<1> QED
  BY <1>3, <1>4 DEF Progress

(* When an aside begins, the next place is behind it. *)
LEMMA EntersAside ==
  ASSUME NEW D, NEW q \in Nat, q >= 1, pos = q, Lies(Aside, D, q),
         pos' = pos + 1, Passes("skip", "aside", 0)'
  PROVE  Progress(D, q + 8)'
<1>1. pos' \notin {q + 2, q + 3}
  OBVIOUS
<1>2. PassesAside(D, q)'
  BY <1>1 DEF PassesAside
<1>3. q \in 1..(pos' - 1) /\ pos' < q + 8
  OBVIOUS
<1> QED
  BY <1>2, <1>3 DEF Progress

(* When an argument with a closing tag begins, the next place is behind    *)
(* that tag.                                                               *)
LEMMA EntersArg ==
  ASSUME NEW D, NEW q \in Nat, q >= 1, pos = q, Lies(Remark("summary"), D, q + 1),
         D[q + 4] = Closing("arg"), pos' = pos + 1, Passes("skip", "arg", 0)'
  PROVE  Progress(D, q + 5)'
<1>2. PassesArg(D, q)'
  BY DEF PassesArg
<1>3. q \in 1..(pos' - 1) /\ pos' < q + 5
  OBVIOUS
<1> QED
  BY <1>2, <1>3 DEF Progress

-----------------------------------------------------------------------------
(* From each spot to the next. *)
(* When nothing is passed, the reader is at the place. *)
LEMMA NothingPassed ==
  ASSUME NEW D, NEW e, Progress(D, e), passing = <<>>
  PROVE  pos = e
<1>1. \A how, tag, depth : ~Passes(how, tag, depth)
  BY DEF Passes
<1> QED
  BY <1>1 DEF Progress, PassesRemark, PassesAside, PassesArg

(* Where an object and its parts are. *)
ObjectThere(D, o, l, q, next) ==
  /\ ObjectWritten(o) /\ q \in Nat \ {0}
  /\ next = ObjectEnd(o, l, q) + 1
  /\ D[q] = ObjectOpening(o)
  /\ l.noise => Lies(Aside, D, q + 1) /\ Lies(Remark("description"), D, q + 9)
  /\ \A j \in 1..Len(o.methods) : Lies(MethodDoc(o.methods[j], l), D, MethAt(o, l, q, j))
  /\ D[ObjectEnd(o, l, q)] = Closing("object")
  /\ MethAt(o, l, q, 1) = q + 1 + (IF l.noise THEN 11 ELSE 0)
  /\ \A j \in 1..(Len(o.methods) + 1) : MethAt(o, l, q, j) \in Nat \ {0}
  /\ \A j \in 1..Len(o.methods) :
       MethAt(o, l, q, j + 1) = MethAt(o, l, q, j) + Len(MethodDoc(o.methods[j], l))

(* An object's parts, where the document has them. *)
LEMMA ObjectHere ==
  ASSUME NEW p, ProtocolWritten(p), NEW l, NEW D, D = Doc(p, l), NEW i \in 1..Len(p.objects),
         NEW o, o = p.objects[i], NEW q, q = ObjAt(p, l, i)
  PROVE  ObjectThere(D, o, l, q, ObjAt(p, l, i + 1))
<1>1. DOMAIN p.objects = 1..Len(p.objects) /\ Len(p.objects) \in Nat
  BY Places DEF ProtocolWritten
<1>2. ObjectWritten(o)
  BY <1>1 DEF ProtocolWritten
<1>3. q \in Nat \ {0}
  <2>1. i \in 1..(Len(p.objects) + 1)
    BY <1>1
  <2> QED
    BY <2>1, DocLies
<1>4. Lies(ObjectDoc(o, l), D, q) /\ ObjAt(p, l, i + 1) = q + Len(ObjectDoc(o, l))
  BY DocLies
<1>5. /\ D[q] = ObjectOpening(o)
      /\ l.noise => Lies(Aside, D, q + 1) /\ Lies(Remark("description"), D, q + 9)
      /\ \A k \in 1..Len(o.methods) : Lies(MethodDoc(o.methods[k], l), D, MethAt(o, l, q, k))
      /\ D[ObjectEnd(o, l, q)] = Closing("object")
  <2>1. \A d, r : r \in Nat /\ Lies(ObjectDoc(o, l), d, r) =>
          /\ d[r] = ObjectOpening(o)
          /\ l.noise => Lies(Aside, d, r + 1) /\ Lies(Remark("description"), d, r + 9)
          /\ \A k \in 1..Len(o.methods) : Lies(MethodDoc(o.methods[k], l), d, MethAt(o, l, r, k))
          /\ d[ObjectEnd(o, l, r)] = Closing("object")
    BY ONLY <1>2, ObjectLies
  <2>2. q \in Nat
    BY <1>3
  <2> QED
    BY ONLY <1>4, <2>1, <2>2
<1>6. /\ MethAt(o, l, q, 1) = q + 1 + (IF l.noise THEN 11 ELSE 0)
      /\ \A k \in 1..(Len(o.methods) + 1) : MethAt(o, l, q, k) \in Nat \ {0}
      /\ \A k \in 1..Len(o.methods) :
                   MethAt(o, l, q, k + 1) = MethAt(o, l, q, k) + Len(MethodDoc(o.methods[k], l))
      /\ q + Len(ObjectDoc(o, l)) = ObjectEnd(o, l, q) + 1
  <2>1. \A r \in Nat :
          /\ MethAt(o, l, r, 1) = r + 1 + (IF l.noise THEN 11 ELSE 0)
          /\ \A k \in 1..(Len(o.methods) + 1) : MethAt(o, l, r, k) \in Nat \ {0}
          /\ \A k \in 1..Len(o.methods) :
               MethAt(o, l, r, k + 1) = MethAt(o, l, r, k) + Len(MethodDoc(o.methods[k], l))
          /\ r + Len(ObjectDoc(o, l)) = ObjectEnd(o, l, r) + 1
    BY ONLY <1>2, ObjectLies
  <2>2. q \in Nat
    BY <1>3
  <2> QED
    BY ONLY <2>1, <2>2
<1>7. ObjAt(p, l, i + 1) = ObjectEnd(o, l, q) + 1
  BY ONLY <1>4, <1>6
<1> QED
  BY ONLY <1>2, <1>3, <1>5, <1>6, <1>7 DEF ObjectThere

(* Where a method and its parts are. *)
ReturnsThere(D, m, l, r) ==
  m.returns # "" => D[ReturnsAt(m, l, r)] = Ev("empty", "returns", [iface |-> m.returns])

MethodThere(D, m, l, r, next) ==
  /\ MethodWritten(m) /\ r \in Nat \ {0}
  /\ next = MethodEnd(m, l, r) + 1
  /\ D[r] = MethodOpening(m, l)
  /\ l.noise => Lies(Remark("description"), D, r + 1) /\ Lies(Aside, D, r + 4)
  /\ \A k \in 1..Len(m.args) : Lies(ArgDoc(m.args[k], l), D, ArgAt(m, l, r, k))
  /\ ReturnsThere(D, m, l, r)
  /\ D[MethodEnd(m, l, r)] = Closing(m.side)
  /\ ArgAt(m, l, r, 1) = r + 1 + (IF l.noise THEN 11 ELSE 0)
  /\ \A k \in 1..(Len(m.args) + 1) : ArgAt(m, l, r, k) \in Nat \ {0}
  /\ \A k \in 1..Len(m.args) : ArgAt(m, l, r, k + 1) = ArgAt(m, l, r, k) + ArgLen(l)

(* A method's parts are where the document has them. *)
LEMMA MethodHere ==
  ASSUME NEW p, ProtocolWritten(p), NEW l, NEW D, D = Doc(p, l), NEW i \in 1..Len(p.objects),
         NEW j \in 1..Len(p.objects[i].methods),
         NEW m, m = p.objects[i].methods[j], NEW r, r = PlaceOf(p, l, i, j)
  PROVE  MethodThere(D, m, l, r, PlaceOf(p, l, i, j + 1))
<1> DEFINE o == p.objects[i]
           q == ObjAt(p, l, i)
<1>1. /\ ObjectWritten(o)
      /\ \A k \in 1..Len(o.methods) : Lies(MethodDoc(o.methods[k], l), D, MethAt(o, l, q, k))
      /\ \A k \in 1..(Len(o.methods) + 1) : MethAt(o, l, q, k) \in Nat \ {0}
      /\ \A k \in 1..Len(o.methods) :
              MethAt(o, l, q, k + 1) = MethAt(o, l, q, k) + Len(MethodDoc(o.methods[k], l))
  <2>1. o = p.objects[i] /\ q = ObjAt(p, l, i) /\ ProtocolWritten(p) /\ D = Doc(p, l)
        /\ i \in 1..Len(p.objects)
    OBVIOUS
  <2> HIDE DEF o, q
  <2>2. ObjectThere(D, o, l, q, ObjAt(p, l, i + 1))
    BY ONLY <2>1, ObjectHere
  <2> QED
    BY ONLY <2>2 DEF ObjectThere
<1>2. DOMAIN o.methods = 1..Len(o.methods) /\ Len(o.methods) \in Nat
  BY <1>1, Places DEF ObjectWritten
<1>3. MethodWritten(m)
  BY <1>1, <1>2 DEF ObjectWritten
<1>4. r = MethAt(o, l, q, j) /\ PlaceOf(p, l, i, j + 1) = MethAt(o, l, q, j + 1)
  BY DEF PlaceOf
<1>5. r \in Nat \ {0} /\ Lies(MethodDoc(m, l), D, r)
      /\ PlaceOf(p, l, i, j + 1) = r + Len(MethodDoc(m, l))
  BY <1>1, <1>2, <1>4
<1>6. IsSeq(m.args) /\ r \in Nat
  BY <1>3, <1>5 DEF MethodWritten
<1>7. /\ D[r] = MethodOpening(m, l)
      /\ l.noise => Lies(Remark("description"), D, r + 1) /\ Lies(Aside, D, r + 4)
      /\ \A k \in 1..Len(m.args) : Lies(ArgDoc(m.args[k], l), D, ArgAt(m, l, r, k))
      /\ m.returns # "" =>
           D[ReturnsAt(m, l, r)] = Ev("empty", "returns", [iface |-> m.returns])
      /\ D[MethodEnd(m, l, r)] = Closing(m.side)
  <2>1. \A d, q2 : q2 \in Nat /\ Lies(MethodDoc(m, l), d, q2) =>
          /\ d[q2] = MethodOpening(m, l)
          /\ l.noise => Lies(Remark("description"), d, q2 + 1) /\ Lies(Aside, d, q2 + 4)
          /\ \A k \in 1..Len(m.args) : Lies(ArgDoc(m.args[k], l), d, ArgAt(m, l, q2, k))
          /\ m.returns # "" =>
               d[ReturnsAt(m, l, q2)] = Ev("empty", "returns", [iface |-> m.returns])
          /\ d[MethodEnd(m, l, q2)] = Closing(m.side)
    BY ONLY <1>6, MethodLies
  <2> QED
    BY ONLY <1>5, <1>6, <2>1
<1>8. /\ ArgAt(m, l, r, 1) = r + 1 + (IF l.noise THEN 11 ELSE 0)
      /\ \A k \in 1..(Len(m.args) + 1) : ArgAt(m, l, r, k) \in Nat \ {0}
      /\ \A k \in 1..Len(m.args) : ArgAt(m, l, r, k + 1) = ArgAt(m, l, r, k) + ArgLen(l)
      /\ r + Len(MethodDoc(m, l)) = MethodEnd(m, l, r) + 1
  <2>1. \A q2 \in Nat :
          /\ ArgAt(m, l, q2, 1) = q2 + 1 + (IF l.noise THEN 11 ELSE 0)
          /\ \A k \in 1..(Len(m.args) + 1) : ArgAt(m, l, q2, k) \in Nat \ {0}
          /\ \A k \in 1..Len(m.args) : ArgAt(m, l, q2, k + 1) = ArgAt(m, l, q2, k) + ArgLen(l)
          /\ q2 + Len(MethodDoc(m, l)) = MethodEnd(m, l, q2) + 1
    BY ONLY <1>6, MethodLies
  <2> QED
    BY ONLY <1>6, <2>1
<1> QED
  BY <1>3, <1>5, <1>7, <1>8 DEF MethodThere, ReturnsThere

(* Where an enum and its parts are. *)
EnumThere(D, e, q, next) ==
  /\ EnumWritten(e) /\ q \in Nat \ {0} /\ Len(e.values) \in Nat
  /\ next = q + Len(e.values) + 2
  /\ D[q] = EnumOpening(e)
  /\ \A k \in 1..Len(e.values) : D[q + k] = Value(e.values[k])
  /\ D[q + Len(e.values) + 1] = Closing("enum")

(* An enum's parts, where the document has them. *)
LEMMA EnumHere ==
  ASSUME NEW p, ProtocolWritten(p), NEW l, NEW D, D = Doc(p, l), NEW i \in 1..Len(p.enums),
         NEW e, e = p.enums[i], NEW q, q = EnumAt(p, l, i)
  PROVE  EnumThere(D, e, q, EnumAt(p, l, i + 1))
<1>1. DOMAIN p.enums = 1..Len(p.enums) /\ Len(p.enums) \in Nat
  BY Places DEF ProtocolWritten
<1>2. EnumWritten(e)
  BY <1>1 DEF ProtocolWritten
<1>3. q \in Nat \ {0}
  <2>1. i \in 1..(Len(p.enums) + 1)
    BY <1>1
  <2> QED
    BY <2>1, DocLies
<1>4. Lies(EnumDoc(e), D, q) /\ EnumAt(p, l, i + 1) = q + Len(EnumDoc(e))
  BY DocLies
<1>5. Len(e.values) \in Nat
  BY <1>2, Places DEF EnumWritten
<1>6. Len(EnumDoc(e)) = Len(e.values) + 2
  BY <1>2, EnumLies DEF Sized
<1>7. /\ D[q] = EnumOpening(e)
      /\ \A k \in 1..Len(e.values) : D[q + k] = Value(e.values[k])
      /\ D[q + Len(e.values) + 1] = Closing("enum")
  <2>1. \A d, r : r \in Nat /\ Lies(EnumDoc(e), d, r) =>
          /\ d[r] = EnumOpening(e)
          /\ \A k \in 1..Len(e.values) : d[r + k] = Value(e.values[k])
          /\ d[r + Len(e.values) + 1] = Closing("enum")
    BY ONLY <1>2, EnumLies
  <2>2. q \in Nat
    BY <1>3
  <2> QED
    BY ONLY <1>4, <2>1, <2>2
<1>8. EnumAt(p, l, i + 1) = q + Len(e.values) + 2
  BY <1>3, <1>4, <1>5, <1>6
<1> QED
  BY ONLY <1>2, <1>3, <1>5, <1>7, <1>8 DEF EnumThere

(* What a step leads to. *)
Answers(p, l, D) ==
  /\ Lacks(D[pos]) => parse' = "failed"
  /\ Next1 = D[pos] => parse' = "reading" /\ Spot(p, l, D)'

(* The protocol tag leads to the copyright or to the first object. *)
LEMMA FromStart ==
  ASSUME NEW p, ProtocolWritten(p), NEW l, NEW D, D = Doc(p, l), AtStart(D), Sees(D[pos])
  PROVE  Answers(p, l, D)
<1>1. pos = 1 /\ where = "protocol"
  BY NothingPassed DEF AtStart, Sees
<1>2. D[1] = ProtocolOpening(p) /\ ObjAt(p, l, 1) = 2 + (IF l.noise THEN 3 ELSE 0)
  BY DocLies
<1>3. /\ Lacks(D[pos]) => parse' = "failed"
      /\ Next1 = D[pos] => /\ Moves /\ UNCHANGED where
                           /\ out' = [out EXCEPT !.name = p.name, !.version = p.version]
  BY <1>1, <1>2, SeesProtocol
<1>4. ASSUME Next1 = D[pos]
      PROVE  parse' = "reading" /\ Spot(p, l, D)'
  <2>1. OutIs(p, 0, 0)'
    BY <1>3, <1>4, OutIsFirst DEF AtStart
  <2>2. Progress(D, 2)' /\ where' = "protocol" /\ parse' = "reading"
    <3>1. Progress(D, 1 + 1)'
      BY <1>1, <1>3, <1>4, Goes
    <3>2. 1 + 1 = 2
      OBVIOUS
    <3> QED
      BY <1>1, <1>3, <1>4, <3>1, <3>2 DEF Moves
  <2>3. CASE l.noise
    BY <2>1, <2>2, <2>3 DEF AtCopyright, Spot
  <2>4. CASE ~l.noise
    <3>1. ObjAt(p, l, 1) = 2 /\ 1 - 1 = 0 /\ 1 \in 1..(Len(p.objects) + 1)
      BY <1>2, <2>4, Places DEF ProtocolWritten
    <3>2. AtObject(p, l, D, 1)'
      BY <2>1, <2>2, <3>1 DEF AtObject
    <3> QED
      BY <2>2, <3>1, <3>2 DEF Spot
  <2> QED
    BY <2>3, <2>4
<1> QED
  BY <1>3, <1>4 DEF Answers

(* The copyright leads to the first object. *)
LEMMA FromCopyright ==
  ASSUME NEW p, ProtocolWritten(p), NEW l, NEW D, D = Doc(p, l), AtCopyright(p, l, D),
         Sees(D[pos])
  PROVE  Answers(p, l, D)
<1>1. pos = 2 /\ where = "protocol" /\ l.noise
  BY NothingPassed DEF AtCopyright, Sees
<1>2. Lies(Remark("copyright"), D, 2) /\ ObjAt(p, l, 1) = 5
  BY <1>1, DocLies
<1>3. D[pos] = Opening("copyright", NoAttrs)
  BY <1>1, <1>2, RemarkLies
<1>4. /\ pos' = pos + 1 /\ Passes("text", "copyright", 0)' /\ parse' = "reading"
      /\ UNCHANGED <<where, out, obj, meth, enm>>
  BY <1>1, <1>3, SeesCopyright
<1>5. Progress(D, 5)'
  <2>1. Progress(D, 2 + 3)'
    BY <1>1, <1>2, <1>4, EntersRemark
  <2> QED
    BY <2>1
<1>6. OutIs(p, 0, 0)'
  BY <1>4 DEF AtCopyright, OutIs
<1>7. 1 - 1 = 0 /\ 1 \in 1..(Len(p.objects) + 1)
  BY Places DEF ProtocolWritten
<1>8. AtObject(p, l, D, 1)'
  BY <1>1, <1>2, <1>4, <1>5, <1>6, <1>7 DEF AtObject
<1>9. ~Lacks(D[pos])
  <2>1. D[pos].attrs = NoAttrs
    BY <1>3 DEF Opening, Ev
  <2> QED
    BY <2>1, NothingLacks
<1> QED
  BY <1>4, <1>7, <1>8, <1>9 DEF Answers, Spot

(* An object's tag leads to its aside or to its first method. *)
LEMMA FromObject ==
  ASSUME NEW p, ProtocolWritten(p), NEW l, NEW D, D = Doc(p, l),
         NEW i \in 1..Len(p.objects), AtObject(p, l, D, i), Sees(D[pos])
  PROVE  Answers(p, l, D)
<1> DEFINE o == p.objects[i]
           q == ObjAt(p, l, i)
<1>1. pos = q /\ where = "protocol" /\ OutIs(p, i - 1, 0)
  BY NothingPassed DEF AtObject, Sees
<1>2. /\ ObjectWritten(o) /\ q \in Nat \ {0} /\ D[q] = ObjectOpening(o)
      /\ MethAt(o, l, q, 1) = q + 1 + (IF l.noise THEN 11 ELSE 0)
  <2>1. ObjectThere(D, o, l, q, ObjAt(p, l, i + 1))
    BY ObjectHere
  <2> HIDE DEF o, q
  <2> QED
    BY ONLY <2>1 DEF ObjectThere
<1>3. /\ Lacks(D[pos]) => parse' = "failed"
      /\ Next1 = D[pos] => /\ Moves /\ where' = "object" /\ UNCHANGED out
                           /\ obj' = [name |-> o.name, c2s |-> <<>>, s2c |-> <<>>]
  BY <1>1, <1>2, SeesObject
<1>4. ASSUME Next1 = D[pos]
      PROVE  parse' = "reading" /\ Spot(p, l, D)'
  <2>1. ObjIs(o, 0)' /\ OutIs(p, i - 1, 0)'
    <3>1. ObjIs(o, 0)'
      BY <1>2, <1>3, <1>4, ObjIsFirst
    <3> QED
      BY <1>1, <1>3, <1>4, <3>1 DEF OutIs
  <2>2. Progress(D, q + 1)' /\ where' = "object" /\ parse' = "reading"
    BY <1>1, <1>2, <1>3, <1>4, Goes DEF Moves
  <2>3. CASE l.noise
    <3>1. AtObjectAside(p, l, D, i)'
      BY <2>1, <2>2, <2>3 DEF AtObjectAside
    <3> QED
      BY <2>2, <3>1 DEF Spot
  <2>4. CASE ~l.noise
    <3>1. MethAt(o, l, q, 1) = q + 1 /\ 1 - 1 = 0 /\ 1 \in 1..(Len(o.methods) + 1)
      BY <1>2, <2>4, Places DEF ObjectWritten
    <3>2. AtMethod(p, l, D, i, 1)'
      BY <2>1, <2>2, <3>1 DEF AtMethod
    <3> QED
      BY <2>2, <3>1, <3>2 DEF Spot
  <2> QED
    BY <2>3, <2>4
<1> QED
  BY <1>3, <1>4 DEF Answers

(* An object's aside leads to its description. *)
LEMMA FromObjectAside ==
  ASSUME NEW p, ProtocolWritten(p), NEW l, NEW D, D = Doc(p, l),
         NEW i \in 1..Len(p.objects), AtObjectAside(p, l, D, i), Sees(D[pos])
  PROVE  Answers(p, l, D)
<1> DEFINE o == p.objects[i]
           q == ObjAt(p, l, i)
<1>1. pos = q + 1 /\ where = "object" /\ l.noise
  BY NothingPassed DEF AtObjectAside, Sees
<1>2. q \in Nat \ {0} /\ Lies(Aside, D, q + 1)
  <2>1. ObjectThere(D, o, l, q, ObjAt(p, l, i + 1))
    BY ObjectHere
  <2> HIDE DEF o, q
  <2> QED
    BY ONLY <1>1, <2>1 DEF ObjectThere
<1> HIDE DEF q
<1>3. q + 1 \in Nat /\ q + 1 >= 1 /\ (q + 1) + 8 = q + 9
  BY <1>2
<1>4. D[pos] = Opening("aside", NoAttrs)
  BY <1>1, <1>2, <1>3, AsideLies
<1>5. /\ pos' = pos + 1 /\ parse' = "reading" /\ UNCHANGED <<where, out, obj, meth, enm>>
      /\ Passes("skip", "aside", 0)'
  <2>1. /\ pos' = pos + 1 /\ parse' = "reading" /\ UNCHANGED <<where, out, obj, meth, enm>>
        /\ Passes(IF "aside" = "description" THEN "text" ELSE "skip", "aside", 0)'
    BY <1>1, <1>4, SeesRemark
  <2> QED
    BY <2>1
<1>6. Progress(D, q + 9)'
  <2>1. Progress(D, (q + 1) + 8)'
    BY <1>1, <1>2, <1>3, <1>5, EntersAside
  <2> QED
    BY <1>3, <2>1
<1>7. AtObjectRemark(p, l, D, i)'
  BY <1>1, <1>5, <1>6 DEF AtObjectAside, AtObjectRemark, OutIs, ObjIs, q
<1>9. ~Lacks(D[pos])
  <2>1. D[pos].attrs = NoAttrs
    BY <1>4 DEF Opening, Ev
  <2> QED
    BY <2>1, NothingLacks
<1> QED
  BY <1>5, <1>7, <1>9 DEF Answers, Spot

(* An object's description leads to its first method. *)
LEMMA FromObjectRemark ==
  ASSUME NEW p, ProtocolWritten(p), NEW l, NEW D, D = Doc(p, l),
         NEW i \in 1..Len(p.objects), AtObjectRemark(p, l, D, i), Sees(D[pos])
  PROVE  Answers(p, l, D)
<1> DEFINE o == p.objects[i]
           q == ObjAt(p, l, i)
<1>1. pos = q + 9 /\ where = "object" /\ l.noise
  BY NothingPassed DEF AtObjectRemark, Sees
<1>2. /\ ObjectWritten(o) /\ q \in Nat \ {0} /\ Lies(Remark("description"), D, q + 9)
      /\ MethAt(o, l, q, 1) = q + 1 + (IF l.noise THEN 11 ELSE 0)
  <2>1. ObjectThere(D, o, l, q, ObjAt(p, l, i + 1))
    BY ObjectHere
  <2> HIDE DEF o, q
  <2> QED
    BY ONLY <1>1, <2>1 DEF ObjectThere
<1> HIDE DEF q
<1>3. q + 9 \in Nat /\ q + 9 >= 1 /\ MethAt(o, l, q, 1) = (q + 9) + 3
  BY <1>1, <1>2
<1>4. D[pos] = Opening("description", NoAttrs)
  BY <1>1, <1>2, <1>3, RemarkLies
<1>5. /\ pos' = pos + 1 /\ parse' = "reading" /\ UNCHANGED <<where, out, obj, meth, enm>>
      /\ Passes("text", "description", 0)'
  BY <1>1, <1>4, SeesRemark
<1>6. Progress(D, MethAt(o, l, q, 1))'
  <2>1. Progress(D, (q + 9) + 3)'
    BY <1>1, <1>2, <1>3, <1>5, EntersRemark
  <2> QED
    BY <1>3, <2>1
<1>7. 1 - 1 = 0 /\ 1 \in 1..(Len(o.methods) + 1)
  BY <1>2, Places DEF ObjectWritten
<1>8. AtMethod(p, l, D, i, 1)'
  BY <1>1, <1>5, <1>6, <1>7 DEF AtObjectRemark, AtMethod, OutIs, ObjIs, q
<1>9. ~Lacks(D[pos])
  <2>1. D[pos].attrs = NoAttrs
    BY <1>4 DEF Opening, Ev
  <2> QED
    BY <2>1, NothingLacks
<1> QED
  BY <1>5, <1>7, <1>8, <1>9 DEF Answers, Spot

(* A method's tag leads to its description or to its first argument. *)
LEMMA FromMethod ==
  ASSUME NEW p, ProtocolWritten(p), NEW l, NEW D, D = Doc(p, l),
         NEW i \in 1..Len(p.objects), NEW j \in 1..Len(p.objects[i].methods),
         AtMethod(p, l, D, i, j), Sees(D[pos])
  PROVE  Answers(p, l, D)
<1> DEFINE m == p.objects[i].methods[j]
           r == PlaceOf(p, l, i, j)
<1>1. pos = r /\ where = "object" /\ OutIs(p, i - 1, 0) /\ ObjIs(p.objects[i], j - 1)
  BY NothingPassed DEF AtMethod, Sees, PlaceOf
<1>2. /\ MethodWritten(m) /\ r \in Nat \ {0} /\ D[r] = MethodOpening(m, l)
      /\ ArgAt(m, l, r, 1) = r + 1 + (IF l.noise THEN 11 ELSE 0)
  <2>1. m = p.objects[i].methods[j] /\ r = PlaceOf(p, l, i, j) /\ ProtocolWritten(p)
        /\ D = Doc(p, l) /\ i \in 1..Len(p.objects) /\ j \in 1..Len(p.objects[i].methods)
    OBVIOUS
  <2> HIDE DEF m, r
  <2>2. MethodThere(D, m, l, r, PlaceOf(p, l, i, j + 1))
    BY ONLY <2>1, MethodHere
  <2> QED
    BY <2>2 DEF MethodThere
<1>3. /\ Lacks(D[pos]) => parse' = "failed"
      /\ Next1 = D[pos] => /\ Moves /\ where' = "method" /\ UNCHANGED <<out, obj>>
                           /\ meth' = [side |-> m.side, name |-> m.name, args |-> <<>>,
                                       returns |-> "", destructor |-> m.destructor]
  <2> HIDE DEF m, r
  <2> QED
    BY <1>1, <1>2, SeesMethod
<1>4. ASSUME Next1 = D[pos]
      PROVE  parse' = "reading" /\ Spot(p, l, D)'
  <2>1. MethIs(m, 0, "")' /\ InMethod(p, i, j)'
    <3>1. First(m.args, 0) = <<>>
      BY FirstNone
    <3> QED
      BY <1>1, <1>3, <1>4, <3>1 DEF OutIs, ObjIs, MethIs, InMethod
  <2>2. Progress(D, r + 1)' /\ parse' = "reading"
    BY <1>1, <1>2, <1>3, <1>4, Goes DEF Moves
  <2>3. CASE l.noise
    <3>1. AtMethodRemark(p, l, D, i, j)'
      BY <2>1, <2>2, <2>3 DEF AtMethodRemark
    <3> QED
      BY <2>2, <3>1 DEF Spot
  <2>4. CASE ~l.noise
    <3>1. ArgAt(m, l, r, 1) = r + 1 /\ 1 - 1 = 0 /\ 1 \in 1..(Len(m.args) + 1)
      BY <1>2, <2>4, Places DEF MethodWritten
    <3>2. AtArg(p, l, D, i, j, 1)'
      BY <2>1, <2>2, <3>1 DEF AtArg
    <3> QED
      BY <2>2, <3>1, <3>2 DEF Spot
  <2> QED
    BY <2>3, <2>4
<1> QED
  BY <1>3, <1>4 DEF Answers

(* An object's closing tag leads to what is behind the object. *)
LEMMA FromObjectEnd ==
  ASSUME NEW p, ProtocolWritten(p), NEW l, NEW D, D = Doc(p, l),
         NEW i \in 1..Len(p.objects), NEW j, j = Len(p.objects[i].methods) + 1,
         AtMethod(p, l, D, i, j), Sees(D[pos])
  PROVE  Answers(p, l, D)
<1> DEFINE o == p.objects[i]
           q == ObjAt(p, l, i)
           e == ObjectEnd(o, l, q)
<1>2. /\ ObjectWritten(o) /\ D[e] = Closing("object")
      /\ ObjAt(p, l, i + 1) = e + 1
      /\ \A k \in 1..(Len(o.methods) + 1) : MethAt(o, l, q, k) \in Nat \ {0}
  <2>1. ObjectThere(D, o, l, q, ObjAt(p, l, i + 1))
    BY ObjectHere
  <2> HIDE DEF o, q
  <2> QED
    BY ONLY <2>1 DEF ObjectThere, e
<1>3. Len(o.methods) \in Nat /\ j - 1 = Len(o.methods) /\ j \in 1..(Len(o.methods) + 1)
      /\ Len(p.objects) \in Nat
  BY <1>2, Places DEF ObjectWritten, ProtocolWritten
<1>1. pos = e /\ where = "object" /\ OutIs(p, i - 1, 0) /\ ObjIs(o, Len(o.methods))
  BY <1>3, NothingPassed DEF AtMethod, Sees, ObjectEnd
<1>4. e \in Nat
  BY <1>2, <1>3 DEF ObjectEnd
<1>5. /\ Moves /\ where' = "protocol" /\ UNCHANGED <<obj, meth, enm>>
      /\ out' = [out EXCEPT !.objects = Append(@, obj)]
  BY <1>1, <1>2, SeesClosing
<1>6. OutIs(p, i, 0)'
  BY <1>1, <1>5, OutIsNext
<1>7. Progress(D, ObjAt(p, l, i + 1))'
  <2>1. Progress(D, e + 1)'
    <3> HIDE DEF e
    <3> QED
      BY <1>1, <1>4, <1>5, Goes
  <2> QED
    BY <1>2, <2>1
<1>8. (i + 1) - 1 = i /\ i + 1 \in 1..(Len(p.objects) + 1)
  BY <1>3
<1>9. AtObject(p, l, D, i + 1)'
  BY <1>5, <1>6, <1>7, <1>8 DEF AtObject
<1>10. ~Lacks(D[pos])
  <2>1. D[pos].attrs = <<>>
    BY <1>1, <1>2 DEF Closing, Ev
  <2> QED
    BY <2>1, NothingLacks
<1> QED
  BY <1>5, <1>8, <1>9, <1>10 DEF Answers, Spot, Moves
(* A method's description leads to its aside. *)
LEMMA FromMethodRemark ==
  ASSUME NEW p, ProtocolWritten(p), NEW l, NEW D, D = Doc(p, l),
         NEW i \in 1..Len(p.objects), NEW j \in 1..Len(p.objects[i].methods),
         AtMethodRemark(p, l, D, i, j), Sees(D[pos])
  PROVE  Answers(p, l, D)
<1> DEFINE m == p.objects[i].methods[j]
           r == PlaceOf(p, l, i, j)
<1>1. MethodThere(D, m, l, r, PlaceOf(p, l, i, j + 1))
  BY MethodHere
<1>2. pos = r + 1 /\ where = "method" /\ l.noise
  BY NothingPassed DEF AtMethodRemark, InMethod, Sees
<1>3. /\ r + 1 \in Nat /\ r + 1 >= 1 /\ (r + 1) + 3 = r + 4
      /\ Lies(Remark("description"), D, r + 1)
  <2> HIDE DEF r, m
  <2> QED
    BY <1>1, <1>2 DEF MethodThere
<1> DEFINE q == r + 1
<1> HIDE DEF q
<1>4. D[q] = Opening("description", NoAttrs)
  BY <1>3, RemarkLies DEF q
<1>5. /\ pos' = pos + 1 /\ parse' = "reading" /\ UNCHANGED <<where, out, obj, meth, enm>>
      /\ Passes("text", "description", 0)'
  BY <1>2, <1>4, SeesRemark DEF q
<1>6. Progress(D, r + 4)'
  <2>1. Progress(D, q + 3)'
    BY <1>2, <1>3, <1>5, EntersRemark DEF q
  <2> QED
    BY <1>3, <2>1 DEF q
<1>7. AtMethodAside(p, l, D, i, j)'
  BY <1>2, <1>5, <1>6 DEF AtMethodRemark, AtMethodAside, InMethod, OutIs, ObjIs, MethIs
<1>8. ~Lacks(D[pos])
  <2>1. D[pos].attrs = NoAttrs
    BY <1>2, <1>4 DEF Opening, Ev, q
  <2> QED
    BY <2>1, NothingLacks
<1> QED
  BY <1>5, <1>7, <1>8 DEF Answers, Spot

(* A method's aside leads to its first argument. *)
LEMMA FromMethodAside ==
  ASSUME NEW p, ProtocolWritten(p), NEW l, NEW D, D = Doc(p, l),
         NEW i \in 1..Len(p.objects), NEW j \in 1..Len(p.objects[i].methods),
         AtMethodAside(p, l, D, i, j), Sees(D[pos])
  PROVE  Answers(p, l, D)
<1> DEFINE m == p.objects[i].methods[j]
           r == PlaceOf(p, l, i, j)
<1>1. MethodThere(D, m, l, r, PlaceOf(p, l, i, j + 1))
  BY MethodHere
<1>2. pos = r + 4 /\ where = "method" /\ l.noise
  BY NothingPassed DEF AtMethodAside, InMethod, Sees
<1>3. /\ r + 4 \in Nat /\ r + 4 >= 1 /\ (r + 4) + 8 = ArgAt(m, l, r, 1)
      /\ Lies(Aside, D, r + 4) /\ 1 \in 1..(Len(m.args) + 1)
  <2> HIDE DEF r, m
  <2>1. Len(m.args) \in Nat
    BY <1>1, Places DEF MethodThere, MethodWritten
  <2> QED
    BY <1>1, <1>2, <2>1 DEF MethodThere
<1> DEFINE q == r + 4
<1> HIDE DEF q
<1>4. D[q] = Opening("aside", NoAttrs)
  BY <1>3, AsideLies DEF q
<1>5. /\ pos' = pos + 1 /\ parse' = "reading" /\ UNCHANGED <<where, out, obj, meth, enm>>
      /\ Passes("skip", "aside", 0)'
  <2>1. /\ pos' = pos + 1 /\ parse' = "reading" /\ UNCHANGED <<where, out, obj, meth, enm>>
        /\ Passes(IF "aside" = "description" THEN "text" ELSE "skip", "aside", 0)'
    BY <1>2, <1>4, SeesRemark DEF q
  <2> QED
    BY <2>1
<1>6. Progress(D, ArgAt(m, l, r, 1))'
  <2>1. Progress(D, q + 8)'
    BY <1>2, <1>3, <1>5, EntersAside DEF q
  <2> QED
    BY <1>3, <2>1 DEF q
<1>7. AtArg(p, l, D, i, j, 1)'
  <2>1. 1 - 1 = 0
    OBVIOUS
  <2> QED
    BY <1>2, <1>5, <1>6, <2>1 DEF AtMethodAside, AtArg, InMethod, OutIs, ObjIs, MethIs
<1>8. ~Lacks(D[pos])
  <2>1. D[pos].attrs = NoAttrs
    BY <1>2, <1>4 DEF Opening, Ev, q
  <2> QED
    BY <2>1, NothingLacks
<1> QED
  BY <1>3, <1>5, <1>7, <1>8 DEF Answers, Spot

(* An argument leads to the next one, or to what is behind the last. *)
LEMMA FromArg ==
  ASSUME NEW p, ProtocolWritten(p), NEW l, NEW D, D = Doc(p, l),
         NEW i \in 1..Len(p.objects), NEW j \in 1..Len(p.objects[i].methods),
         NEW k \in 1..Len(p.objects[i].methods[j].args),
         AtArg(p, l, D, i, j, k), Sees(D[pos])
  PROVE  Answers(p, l, D)
<1> DEFINE m == p.objects[i].methods[j]
           r == PlaceOf(p, l, i, j)
           a == m.args[k]
           e == ArgAt(m, l, r, k)
<1>1. MethodThere(D, m, l, r, PlaceOf(p, l, i, j + 1))
  BY MethodHere
<1>2. pos = e /\ InMethod(p, i, j) /\ MethIs(m, k - 1, "")
  BY NothingPassed DEF AtArg, Sees
<1>3. /\ Len(m.args) \in Nat /\ ArgWritten(a) /\ e \in Nat /\ e >= 1
      /\ Lies(ArgDoc(a, l), D, e) /\ ArgAt(m, l, r, k + 1) = e + ArgLen(l)
  <2>1. k \in 1..Len(m.args)
    OBVIOUS
  <2> HIDE DEF m, r
  <2>2. Len(m.args) \in Nat /\ DOMAIN m.args = 1..Len(m.args) /\ MethodWritten(m)
    BY <1>1, Places DEF MethodThere, MethodWritten
  <2>3. ArgWritten(a)
    BY <2>1, <2>2 DEF MethodWritten
  <2>4. k \in 1..(Len(m.args) + 1)
    BY <2>1, <2>2
  <2>5. e \in Nat \ {0} /\ Lies(ArgDoc(a, l), D, e) /\ ArgAt(m, l, r, k + 1) = e + ArgLen(l)
    BY <1>1, <2>1, <2>4 DEF MethodThere
  <2> QED
    BY <2>2, <2>3, <2>5
<1>k. k - 1 \in Nat /\ (k - 1) + 1 = k /\ (k + 1) - 1 = k /\ k + 1 \in 1..(Len(m.args) + 1)
  <2>1. k \in 1..Len(m.args) /\ Len(m.args) \in Nat
    BY <1>3
  <2> HIDE DEF m
  <2> QED
    BY ONLY <2>1
<1> DEFINE ev == IF l.open THEN "start" ELSE "empty"
<1>4. /\ D[e] = Ev(ev, "arg", ArgAttrs(a))
      /\ l.open => Lies(Remark("summary"), D, e + 1) /\ D[e + 4] = Closing("arg")
  <2> HIDE DEF m, r, a, e
  <2>1. /\ ~l.open => D[e] = Ev("empty", "arg", ArgAttrs(a))
        /\ l.open => /\ D[e] = Opening("arg", ArgAttrs(a))
                     /\ Lies(Remark("summary"), D, e + 1)
                     /\ D[e + 4] = Closing("arg")
    BY <1>3, ArgLies
  <2> QED
    BY <2>1 DEF Opening
<1>5. /\ Lacks(D[pos]) => parse' = "failed"
      /\ Next1 = D[pos] =>
              /\ pos' = pos + 1 /\ parse' = "reading"
              /\ IF ev = "start" THEN Passes("skip", "arg", 0)' ELSE passing' = <<>>
              /\ UNCHANGED <<where, out, obj, enm>>
              /\ meth' = [meth EXCEPT !.args = Append(@, a)]
  <2>1. where = "method" /\ ev \in {"start", "empty"}
    BY <1>2 DEF InMethod
  <2>2. Sees(Ev(ev, "arg", ArgAttrs(a)))
    BY <1>2, <1>4
  <2> HIDE DEF m, r, a, e, ev
  <2>3. /\ Lacks(Ev(ev, "arg", ArgAttrs(a))) => parse' = "failed"
        /\ Next1 = Ev(ev, "arg", ArgAttrs(a)) =>
              /\ pos' = pos + 1 /\ parse' = "reading"
              /\ IF ev = "start" THEN Passes("skip", "arg", 0)' ELSE passing' = <<>>
              /\ UNCHANGED <<where, out, obj, enm>>
              /\ meth' = [meth EXCEPT !.args = Append(@, a)]
    BY <1>3, <2>1, <2>2, SeesArg
  <2> QED
    BY <1>2, <1>4, <2>3
<1>6. ASSUME Next1 = D[pos]
      PROVE  parse' = "reading" /\ Spot(p, l, D)'
  <2>1. Progress(D, ArgAt(m, l, r, k + 1))'
    <3>1. CASE l.open
      <4>1. Passes("skip", "arg", 0)' /\ pos' = pos + 1
        BY <1>5, <1>6, <3>1
      <4>2. ArgLen(l) = 5
        BY <3>1 DEF ArgLen
      <4> HIDE DEF m, r, a, e
      <4>3. Progress(D, e + 5)'
        BY <1>2, <1>3, <1>4, <3>1, <4>1, EntersArg
      <4> QED
        BY <1>3, <4>2, <4>3
    <3>2. CASE ~l.open
      <4>1. Moves
        BY <1>5, <1>6, <3>2 DEF Moves
      <4>2. ArgLen(l) = 1
        BY <3>2 DEF ArgLen
      <4> HIDE DEF m, r, a, e
      <4>3. Progress(D, e + 1)'
        BY <1>2, <1>3, <4>1, Goes
      <4> QED
        BY <1>3, <4>2, <4>3
    <3> QED
      BY <3>1, <3>2
  <2>2. MethIs(m, k, "")'
    <3>1. k - 1 \in Nat /\ (k - 1) + 1 = k
      BY ONLY <1>k
    <3>2. meth' = [meth EXCEPT !.args = Append(@, m.args[(k - 1) + 1])]
      BY <1>5, <1>6, <3>1
    <3> HIDE DEF m
    <3>3. MethIs(m, (k - 1) + 1, "")'
      BY <1>2, <3>1, <3>2, MethIsNext
    <3> QED
      BY <3>1, <3>3
  <2>3. InMethod(p, i, j)'
    BY <1>2, <1>5, <1>6 DEF InMethod, OutIs, ObjIs
  <2>4. (k + 1) - 1 = k /\ k + 1 \in 1..(Len(m.args) + 1)
    BY ONLY <1>k
  <2>5. AtArg(p, l, D, i, j, k + 1)'
    BY <2>1, <2>2, <2>3, <2>4 DEF AtArg
  <2> QED
    BY <1>5, <1>6, <2>4, <2>5 DEF Spot
<1> QED
  BY <1>5, <1>6 DEF Answers

Returning(m) == m.returns # ""

(* What a method returns leads to the method's end. *)
LEMMA FromReturns ==
  ASSUME NEW p, ProtocolWritten(p), NEW l, NEW D, D = Doc(p, l),
         NEW i \in 1..Len(p.objects), NEW j \in 1..Len(p.objects[i].methods),
         NEW k, k = Len(p.objects[i].methods[j].args) + 1,
         AtArg(p, l, D, i, j, k), Sees(D[pos]),
         Returning(p.objects[i].methods[j])
  PROVE  Answers(p, l, D)
<1> DEFINE m == p.objects[i].methods[j]
           r == PlaceOf(p, l, i, j)
           e == ReturnsAt(m, l, r)
           n == Len(m.args)
<1>1. MethodThere(D, m, l, r, PlaceOf(p, l, i, j + 1))
  BY MethodHere
<1>2. n \in Nat /\ k - 1 = n /\ k \in 1..(n + 1)
  <2>1. k = n + 1
    OBVIOUS
  <2>2. n \in Nat
    <3>1. IsSeq(m.args)
      <4> HIDE DEF m, r
      <4> QED
        BY <1>1 DEF MethodThere, MethodWritten
    <3> HIDE DEF m
    <3> QED
      BY ONLY <3>1, Places
  <2> HIDE DEF n
  <2> QED
    BY ONLY <2>1, <2>2
<1>3. pos = e /\ InMethod(p, i, j) /\ MethIs(m, n, "")
  <2>1. pos = ArgAt(m, l, r, k) /\ InMethod(p, i, j) /\ MethIs(m, k - 1, "")
    BY NothingPassed DEF AtArg, Sees
  <2> QED
    BY <1>2, <2>1 DEF ReturnsAt
<1>5. /\ e \in Nat /\ D[e] = Ev("empty", "returns", [iface |-> m.returns])
      /\ MethodEnd(m, l, r) = e + 1
  <2> HIDE DEF m, r
  <2>1. e \in Nat
    BY <1>1, <1>2 DEF MethodThere, ReturnsAt
  <2>2. D[e] = Ev("empty", "returns", [iface |-> m.returns])
    <3>1. Returning(m)
      BY DEF m
    <3> QED
      BY <1>1, <3>1 DEF MethodThere, ReturnsThere, Returning
  <2>3. MethodEnd(m, l, r) = e + 1
    <3>1. Returning(m)
      BY DEF m
    <3> QED
      BY <3>1 DEF MethodEnd, Returning
  <2> QED
    BY <2>1, <2>2, <2>3
<1>6. /\ Lacks(D[pos]) => parse' = "failed"
      /\ Next1 = D[pos] => /\ Moves /\ UNCHANGED <<where, out, obj, enm>>
                           /\ meth' = [meth EXCEPT !.returns = m.returns]
  <2>1. where = "method" /\ Sees(Ev("empty", "returns", [iface |-> m.returns]))
    BY <1>3, <1>5 DEF InMethod
  <2> HIDE DEF m, r, e
  <2> QED
    BY <1>3, <1>5, <2>1, SeesReturns
<1>7. ASSUME Next1 = D[pos]
      PROVE  parse' = "reading" /\ Spot(p, l, D)'
  <2>1. Progress(D, MethodEnd(m, l, r))'
    <3>1. Progress(D, e + 1)'
      <4> HIDE DEF m, r, e
      <4> QED
        BY <1>3, <1>5, <1>6, <1>7, Goes
    <3> QED
      BY <1>5, <3>1
  <2>2. MethIs(m, n, m.returns)'
    <3> HIDE DEF m, r, e, n
    <3> QED
      BY <1>3, <1>6, <1>7 DEF MethIs
  <2>3. InMethod(p, i, j)'
    BY <1>3, <1>6, <1>7 DEF InMethod, OutIs, ObjIs
  <2>4. AtMethodEnd(p, l, D, i, j)'
    BY <2>1, <2>2, <2>3 DEF AtMethodEnd
  <2> QED
    BY <1>6, <1>7, <2>4 DEF Spot, Moves
<1> QED
  BY <1>6, <1>7 DEF Answers

(* A method's closing tag leads to the next method. *)
LEMMA FromMethodEnd ==
  ASSUME NEW p, ProtocolWritten(p), NEW l, NEW D, D = Doc(p, l),
         NEW i \in 1..Len(p.objects), NEW j \in 1..Len(p.objects[i].methods),
         AtMethodEnd(p, l, D, i, j), Sees(D[pos])
  PROVE  Answers(p, l, D)
<1> DEFINE o == p.objects[i]
           m == o.methods[j]
           r == PlaceOf(p, l, i, j)
           e == MethodEnd(m, l, r)
<1>1. MethodThere(D, m, l, r, PlaceOf(p, l, i, j + 1))
  BY MethodHere
<1>2. pos = e /\ InMethod(p, i, j) /\ MethIs(m, Len(m.args), m.returns)
  BY NothingPassed DEF AtMethodEnd, Sees
<1>3. e \in Nat /\ D[e] = Closing(m.side) /\ PlaceOf(p, l, i, j + 1) = e + 1
  <2> HIDE DEF m, r
  <2>1. Len(m.args) + 1 \in 1..(Len(m.args) + 1)
    BY <1>1, Places DEF MethodThere, MethodWritten
  <2>2. ReturnsAt(m, l, r) \in Nat
    BY <1>1, <2>1 DEF MethodThere, ReturnsAt
  <2>3. e \in Nat
    <3> DEFINE c == IF m.returns = "" THEN 0 ELSE 1
    <3>1. c \in Nat
      OBVIOUS
    <3>2. e = ReturnsAt(m, l, r) + c
      BY DEF MethodEnd
    <3> HIDE DEF c, e
    <3> QED
      BY <2>2, <3>1, <3>2
  <2>4. D[e] = Closing(m.side) /\ PlaceOf(p, l, i, j + 1) = e + 1
    BY <1>1 DEF MethodThere
  <2> QED
    BY <2>3, <2>4
<1>4. ObjectWritten(o) /\ Len(o.methods) \in Nat
  <2>1. ObjectWritten(o)
    <3>1. DOMAIN p.objects = 1..Len(p.objects)
      BY Places DEF ProtocolWritten
    <3> QED
      BY <3>1 DEF ProtocolWritten
  <2> QED
    BY <2>1, Places DEF ObjectWritten
<1>5. /\ Moves /\ where' = "object" /\ UNCHANGED <<out, meth, enm>>
      /\ obj' = IF meth.side = "c2s"
                THEN [obj EXCEPT !.c2s = Append(@, Method(meth))]
                ELSE [obj EXCEPT !.s2c = Append(@, Method(meth))]
  <2>1. where = "method" /\ Sees(Closing(m.side))
    BY <1>2, <1>3 DEF InMethod
  <2> HIDE DEF m
  <2> QED
    BY <2>1, SeesClosing
<1>6. ObjIs(o, j)'
  <2>1. j \in 1..Len(o.methods) /\ ObjIs(o, j - 1) /\ m = o.methods[j]
    BY <1>2 DEF InMethod
  <2> HIDE DEF o, m
  <2> QED
    BY <1>2, <1>4, <1>5, <2>1, ObjIsNext
<1>7. Progress(D, PlaceOf(p, l, i, j + 1))'
  <2>1. Progress(D, e + 1)'
    <3> HIDE DEF e
    <3> QED
      BY <1>2, <1>3, <1>5, Goes
  <2> QED
    BY <1>3, <2>1
<1>8. (j + 1) - 1 = j /\ j + 1 \in 1..(Len(o.methods) + 1)
  BY <1>4
<1>9. AtMethod(p, l, D, i, j + 1)'
  BY <1>2, <1>5, <1>6, <1>7, <1>8 DEF AtMethod, InMethod, OutIs, PlaceOf
<1>10. ~Lacks(D[pos])
  <2>1. D[pos].attrs = <<>>
    BY <1>2, <1>3 DEF Closing, Ev
  <2> QED
    BY <2>1, NothingLacks
<1> QED
  BY <1>5, <1>8, <1>9, <1>10 DEF Answers, Spot, Moves

(* An enum's tag leads to its first value. *)
LEMMA FromEnum ==
  ASSUME NEW p, ProtocolWritten(p), NEW l, NEW D, D = Doc(p, l),
         NEW i \in 1..Len(p.enums), AtEnum(p, l, D, i), Sees(D[pos])
  PROVE  Answers(p, l, D)
<1> DEFINE e == p.enums[i]
           q == EnumAt(p, l, i)
<1>1. pos = q /\ where = "protocol" /\ OutIs(p, Len(p.objects), i - 1)
  BY NothingPassed DEF AtEnum, Sees
<1>2. D[q] = EnumOpening(e) /\ q \in Nat /\ Len(e.values) \in Nat
  <2>1. EnumThere(D, e, q, EnumAt(p, l, i + 1))
    BY EnumHere
  <2> HIDE DEF e, q
  <2> QED
    BY ONLY <2>1 DEF EnumThere
<1>3. /\ Lacks(D[pos]) => parse' = "failed"
      /\ Next1 = D[pos] => /\ Moves /\ where' = "enum" /\ UNCHANGED out
                           /\ enm' = [name |-> e.name, values |-> <<>>]
  BY <1>1, <1>2, SeesEnum
<1>4. ASSUME Next1 = D[pos]
      PROVE  parse' = "reading" /\ Spot(p, l, D)'
  <2>1. Progress(D, q + 1)'
    BY <1>1, <1>2, <1>3, <1>4, Goes
  <2>2. EnmIs(e, 0)' /\ OutIs(p, Len(p.objects), i - 1)'
    <3>1. First(e.values, 0) = <<>>
      BY FirstNone
    <3> QED
      BY <1>1, <1>3, <1>4, <3>1 DEF EnmIs, OutIs
  <2>3. 1 - 1 = 0 /\ 1 \in 1..(Len(e.values) + 1)
    BY <1>2
  <2>4. AtValue(p, l, D, i, 1)'
    BY <1>3, <1>4, <2>1, <2>2, <2>3 DEF AtValue
  <2> QED
    BY <1>3, <1>4, <2>3, <2>4 DEF Spot, Moves
<1> QED
  BY <1>3, <1>4 DEF Answers

(* A value leads to the next one. *)
LEMMA FromValue ==
  ASSUME NEW p, ProtocolWritten(p), NEW l, NEW D, D = Doc(p, l),
         NEW i \in 1..Len(p.enums), NEW k \in 1..Len(p.enums[i].values),
         AtValue(p, l, D, i, k), Sees(D[pos])
  PROVE  Answers(p, l, D)
<1> DEFINE e == p.enums[i]
           q == EnumAt(p, l, i)
<1>1. pos = q + k /\ where = "enum" /\ OutIs(p, Len(p.objects), i - 1) /\ EnmIs(e, k - 1)
  BY NothingPassed DEF AtValue, Sees
<1>2. /\ \A n \in 1..Len(e.values) : D[q + n] = Value(e.values[n])
      /\ q \in Nat /\ Len(e.values) \in Nat
  <2>1. EnumThere(D, e, q, EnumAt(p, l, i + 1))
    BY EnumHere
  <2> HIDE DEF e, q
  <2> QED
    BY ONLY <2>1 DEF EnumThere
<1>3. D[pos] = Value(e.values[k]) /\ q + k \in Nat
  <2>1. k \in 1..Len(e.values)
    OBVIOUS
  <2> HIDE DEF e, q
  <2>2. k \in Nat
    BY ONLY <1>2, <2>1
  <2> QED
    BY ONLY <1>1, <1>2, <2>1, <2>2
<1>4. /\ Lacks(D[pos]) => parse' = "failed"
      /\ Next1 = D[pos] => /\ Moves /\ UNCHANGED <<where, out>>
                           /\ enm' = [enm EXCEPT !.values = Append(@, e.values[k])]
  BY <1>1, <1>3, SeesValue
<1>5. ASSUME Next1 = D[pos]
      PROVE  parse' = "reading" /\ Spot(p, l, D)'
  <2>1. Progress(D, q + (k + 1))'
    <3>1. Progress(D, (q + k) + 1)'
      <4> HIDE DEF q
      <4> QED
        BY <1>1, <1>3, <1>4, <1>5, Goes
    <3>2. (q + k) + 1 = q + (k + 1)
      BY <1>2
    <3> QED
      BY <3>1, <3>2
  <2>2. EnmIs(e, k)'
    <3>1. k - 1 \in Nat /\ (k - 1) + 1 = k
      BY <1>2
    <3>2. enm' = [enm EXCEPT !.values = Append(@, e.values[(k - 1) + 1])]
      BY <1>4, <1>5, <3>1
    <3> HIDE DEF e
    <3>3. EnmIs(e, (k - 1) + 1)'
      BY <1>1, <3>1, <3>2, EnmIsNext
    <3> QED
      BY <3>1, <3>3
  <2>3. (k + 1) - 1 = k /\ k + 1 \in 1..(Len(e.values) + 1)
    BY <1>2
  <2>4. AtValue(p, l, D, i, k + 1)'
    BY <1>1, <1>4, <1>5, <2>1, <2>2, <2>3 DEF AtValue, OutIs
  <2> QED
    BY <1>4, <1>5, <2>3, <2>4 DEF Spot, Moves
<1> QED
  BY <1>4, <1>5 DEF Answers

(* An enum's closing tag leads to the next enum. *)
LEMMA FromEnumEnd ==
  ASSUME NEW p, ProtocolWritten(p), NEW l, NEW D, D = Doc(p, l),
         NEW i \in 1..Len(p.enums), NEW k, k = Len(p.enums[i].values) + 1,
         AtValue(p, l, D, i, k), Sees(D[pos])
  PROVE  Answers(p, l, D)
<1> DEFINE e == p.enums[i]
           q == EnumAt(p, l, i)
           n == Len(e.values)
<1>2. /\ D[q + n + 1] = Closing("enum") /\ q \in Nat /\ n \in Nat
      /\ EnumAt(p, l, i + 1) = q + n + 2
  <2>1. EnumThere(D, e, q, EnumAt(p, l, i + 1))
    BY EnumHere
  <2> HIDE DEF e, q
  <2> QED
    BY ONLY <2>1 DEF EnumThere, n
<1>1. /\ pos = q + n + 1 /\ where = "enum" /\ OutIs(p, Len(p.objects), i - 1) /\ EnmIs(e, n)
      /\ q + n + 1 \in Nat
  <2>1. pos = q + k /\ where = "enum" /\ OutIs(p, Len(p.objects), i - 1) /\ EnmIs(e, k - 1)
    BY NothingPassed DEF AtValue, Sees
  <2>2. k - 1 = n /\ q + k = q + n + 1 /\ q + n + 1 \in Nat
    <3>1. k = n + 1
      OBVIOUS
    <3> HIDE DEF n, q
    <3> QED
      BY <1>2, <3>1
  <2> QED
    BY <2>1, <2>2
<1>3. /\ Moves /\ where' = "protocol" /\ UNCHANGED <<obj, meth, enm>>
      /\ out' = [out EXCEPT !.enums = Append(@, enm)]
  BY <1>1, <1>2, SeesClosing
<1>4. OutIs(p, Len(p.objects), i)'
  BY <1>1, <1>3, OutIsNextEnum
<1>5. Progress(D, EnumAt(p, l, i + 1))'
  <2> DEFINE f == q + n + 1
  <2>1. f + 1 = EnumAt(p, l, i + 1)
    BY <1>2
  <2> HIDE DEF f
  <2>2. Progress(D, f + 1)'
    BY <1>1, <1>3, Goes DEF f
  <2> QED
    BY <2>1, <2>2
<1>6. (i + 1) - 1 = i /\ i + 1 \in 1..(Len(p.enums) + 1)
  BY Places DEF ProtocolWritten
<1>7. AtEnum(p, l, D, i + 1)'
  BY <1>3, <1>4, <1>5, <1>6 DEF AtEnum
<1>8. ~Lacks(D[pos])
  <2>1. D[pos].attrs = <<>>
    BY <1>1, <1>2 DEF Closing, Ev
  <2> QED
    BY <2>1, NothingLacks
<1> QED
  BY <1>3, <1>6, <1>7, <1>8 DEF Answers, Spot, Moves

(* The protocol's closing tag leads to the end. *)
LEMMA FromProtocolEnd ==
  ASSUME NEW p, ProtocolWritten(p), NEW l, NEW D, D = Doc(p, l),
         NEW i, i = Len(p.enums) + 1, AtEnum(p, l, D, i), Sees(D[pos])
  PROVE  Answers(p, l, D)
<1>1. Len(p.enums) \in Nat /\ i - 1 = Len(p.enums) /\ i \in 1..(Len(p.enums) + 1)
  BY Places DEF ProtocolWritten
<1>2. D[EnumAt(p, l, i)] = Closing("protocol") /\ Len(D) = EnumAt(p, l, i)
      /\ EnumAt(p, l, i) \in Nat
  <2>1. D[EnumAt(p, l, i)] = Closing("protocol") /\ Len(D) = EnumAt(p, l, i)
    BY DocLies
  <2>2. EnumAt(p, l, i) \in Nat
    BY <1>1, DocLies
  <2> QED
    BY <2>1, <2>2
<1>3. /\ pos = Len(D) /\ where = "protocol" /\ OutIs(p, Len(p.objects), Len(p.enums))
      /\ Len(D) \in Nat /\ D[pos] = Closing("protocol")
  <2>1. pos = EnumAt(p, l, i) /\ where = "protocol" /\ OutIs(p, Len(p.objects), i - 1)
    BY NothingPassed DEF AtEnum, Sees
  <2> QED
    BY <1>1, <1>2, <2>1
<1>4. Moves /\ UNCHANGED <<where, out, obj, meth, enm>>
  BY <1>3, SeesClosing
<1>5. Progress(D, Len(D) + 1)'
  BY <1>3, <1>4, Goes
<1>6. AtEnd(p, l, D)'
  BY <1>3, <1>4, <1>5 DEF AtEnd, OutIs
<1>7. ~Lacks(D[pos])
  <2>1. D[pos].attrs = <<>>
    BY <1>3 DEF Closing, Ev
  <2> QED
    BY <2>1, NothingLacks
<1> QED
  BY <1>4, <1>6, <1>7 DEF Answers, Spot, Moves
(* The places are in the document. *)

(* Places that rise step by step rise from the first to the last. *)
LEMMA Rising ==
  ASSUME NEW n \in Nat, NEW f \in [1..(n + 1) -> Nat], \A i \in 1..n : f[i] <= f[i + 1]
  PROVE  \A i \in 1..(n + 1) : f[i] <= f[n + 1] /\ f[1] <= f[i]
<1> DEFINE S == {i \in 0..n : f[1] <= f[i + 1] /\ f[n + 1 - i] <= f[n + 1]}
<1>1. 0 \in S
  <2>1. f[n + 1] \in Nat /\ f[1] \in Nat
    OBVIOUS
  <2>2. n + 1 - 0 = n + 1 /\ 0 + 1 = 1
    OBVIOUS
  <2> QED
    BY <2>1, <2>2
<1>2. ASSUME NEW i \in 1..n, i - 1 \in S
      PROVE  i \in S
  <2>1. i \in 1..n /\ n + 1 - i \in 1..n /\ (i - 1) + 1 = i
        /\ n + 1 - (i - 1) = (n + 1 - i) + 1
    OBVIOUS
  <2>2. f[1] <= f[i] /\ f[(n + 1 - i) + 1] <= f[n + 1]
    BY <1>2, <2>1
  <2>3. f[i] <= f[i + 1] /\ f[n + 1 - i] <= f[(n + 1 - i) + 1]
    BY <2>1
  <2>4. /\ f[1] \in Nat /\ f[i] \in Nat /\ f[i + 1] \in Nat /\ f[n + 1] \in Nat
        /\ f[n + 1 - i] \in Nat /\ f[(n + 1 - i) + 1] \in Nat
    BY <2>1
  <2>5. f[1] <= f[i + 1] /\ f[n + 1 - i] <= f[n + 1]
    BY <2>2, <2>3, <2>4
  <2> QED
    BY <2>5
<1>3. \A i \in 0..n : i \in S
  <2> HIDE DEF S
  <2> QED
    BY <1>1, <1>2, Stepping
<1>4. ASSUME NEW i \in 1..(n + 1)
      PROVE  f[i] <= f[n + 1] /\ f[1] <= f[i]
  <2>1. i - 1 \in 0..n /\ n + 1 - i \in 0..n /\ (i - 1) + 1 = i /\ n + 1 - (n + 1 - i) = i
    OBVIOUS
  <2> QED
    BY <1>3, <2>1
<1> QED
  BY <1>4

(* Which places there are. *)
Inside(D, e) == e \in 1..Len(D)

(* Objects and enums begin inside the document. *)
LEMMA TopInside ==
  ASSUME NEW p, ProtocolWritten(p), NEW l, NEW D, D = Doc(p, l)
  PROVE  /\ Len(D) \in Nat /\ Inside(D, 1) /\ Inside(D, 2)
         /\ \A i \in 1..(Len(p.objects) + 1) : Inside(D, ObjAt(p, l, i))
         /\ \A k \in 1..(Len(p.enums) + 1) : Inside(D, EnumAt(p, l, k))
<1> DEFINE n == Len(p.objects)
           ne == Len(p.enums)
           f == [i \in 1..(n + 1) |-> ObjAt(p, l, i)]
           g == [i \in 1..(ne + 1) |-> EnumAt(p, l, i)]
<1>1. /\ n \in Nat /\ ne \in Nat /\ DOMAIN p.objects = 1..n /\ DOMAIN p.enums = 1..ne
  BY Places DEF ProtocolWritten
<1>2. ASSUME NEW i \in 1..n
      PROVE  Len(ObjectDoc(p.objects[i], l)) \in Nat
  <2>1. ObjectWritten(p.objects[i])
    BY <1>1 DEF ProtocolWritten
  <2>2. IsSeq(ObjectDoc(p.objects[i], l))
    BY <2>1, ObjectLies
  <2> QED
    BY <2>2, Places
<1>3. ASSUME NEW i \in 1..ne
      PROVE  Len(EnumDoc(p.enums[i])) \in Nat
  <2>1. EnumWritten(p.enums[i])
    BY <1>1 DEF ProtocolWritten
  <2>2. IsSeq(EnumDoc(p.enums[i]))
    BY <2>1, EnumLies DEF Sized
  <2> QED
    BY <2>2, Places
<1>4. \A i \in 1..(n + 1) : ObjAt(p, l, i) \in Nat \ {0}
  BY DocLies
<1>5. \A k \in 1..(ne + 1) : EnumAt(p, l, k) \in Nat \ {0}
  BY DocLies
<1>6. \A i \in 1..n : ObjAt(p, l, i + 1) = ObjAt(p, l, i) + Len(ObjectDoc(p.objects[i], l))
  BY DocLies
<1>7. \A k \in 1..ne : EnumAt(p, l, k + 1) = EnumAt(p, l, k) + Len(EnumDoc(p.enums[k]))
  BY DocLies
<1>8. ObjAt(p, l, 1) >= 2 /\ EnumAt(p, l, 1) = ObjAt(p, l, n + 1) /\ Len(D) = EnumAt(p, l, ne + 1)
  <2>1. ObjAt(p, l, 1) = 2 + (IF l.noise THEN 3 ELSE 0)
    BY DocLies
  <2>2. EnumAt(p, l, 1) = ObjAt(p, l, n + 1) /\ Len(D) = EnumAt(p, l, ne + 1)
    BY DocLies
  <2>3. ObjAt(p, l, 1) >= 2
    BY ONLY <2>1
  <2> QED
    BY <2>2, <2>3
<1> HIDE DEF n, ne
<1>9. f \in [1..(n + 1) -> Nat] /\ \A i \in 1..n : f[i] <= f[i + 1]
  <2>1. f \in [1..(n + 1) -> Nat]
    BY <1>4
  <2>2. ASSUME NEW i \in 1..n
        PROVE  f[i] <= f[i + 1]
    <3>1. i \in 1..(n + 1) /\ i + 1 \in 1..(n + 1)
      BY <1>1
    <3> QED
      BY <1>2, <1>4, <1>6, <3>1
  <2> QED
    BY <2>1, <2>2
<1>10. g \in [1..(ne + 1) -> Nat] /\ \A i \in 1..ne : g[i] <= g[i + 1]
  <2>1. g \in [1..(ne + 1) -> Nat]
    BY <1>5
  <2>2. ASSUME NEW i \in 1..ne
        PROVE  g[i] <= g[i + 1]
    <3>1. i \in 1..(ne + 1) /\ i + 1 \in 1..(ne + 1)
      BY <1>1
    <3> QED
      BY <1>3, <1>5, <1>7, <3>1
  <2> QED
    BY <2>1, <2>2
<1>11. \A i \in 1..(n + 1) : f[i] <= f[n + 1] /\ f[1] <= f[i]
  <2> HIDE DEF f
  <2> QED
    BY <1>1, <1>9, Rising
<1>12. \A i \in 1..(ne + 1) : g[i] <= g[ne + 1] /\ g[1] <= g[i]
  <2> HIDE DEF g
  <2> QED
    BY <1>1, <1>10, Rising
<1>13. /\ 1 \in 1..(n + 1) /\ n + 1 \in 1..(n + 1) /\ 1 \in 1..(ne + 1)
       /\ ne + 1 \in 1..(ne + 1)
  BY <1>1
<1>14. /\ f[1] = ObjAt(p, l, 1) /\ f[n + 1] = g[1] /\ g[ne + 1] = Len(D)
       /\ f[1] \in Nat /\ g[1] \in Nat /\ Len(D) \in Nat
  BY <1>4, <1>5, <1>8, <1>13
<1>15. f[1] <= g[1] /\ g[1] <= Len(D)
  <2> HIDE DEF f, g
  <2> QED
    BY <1>11, <1>12, <1>13, <1>14
<1>16. Inside(D, 1) /\ Inside(D, 2)
  BY <1>8, <1>14, <1>15 DEF Inside
<1>17. ASSUME NEW i \in 1..(n + 1)
       PROVE  Inside(D, ObjAt(p, l, i))
  <2>1. f[i] = ObjAt(p, l, i) /\ f[i] <= g[1]
    BY <1>11, <1>14
  <2> HIDE DEF f, g
  <2> QED
    BY <1>4, <1>14, <1>15, <2>1 DEF Inside
<1>18. ASSUME NEW i \in 1..(ne + 1)
       PROVE  Inside(D, EnumAt(p, l, i))
  <2>1. g[i] = EnumAt(p, l, i) /\ g[i] <= Len(D)
    BY <1>12, <1>14
  <2> HIDE DEF f, g
  <2> QED
    BY <1>5, <1>14, <2>1 DEF Inside
<1> QED
  BY <1>14, <1>16, <1>17, <1>18 DEF n, ne

(* An object's parts are inside the document. *)
LEMMA ObjectInside ==
  ASSUME NEW p, ProtocolWritten(p), NEW l, NEW D, D = Doc(p, l), NEW i \in 1..Len(p.objects)
  PROVE  /\ l.noise => Inside(D, ObjAt(p, l, i) + 1) /\ Inside(D, ObjAt(p, l, i) + 9)
         /\ \A j \in 1..(Len(p.objects[i].methods) + 1) : Inside(D, PlaceOf(p, l, i, j))
<1> DEFINE o == p.objects[i]
           q == ObjAt(p, l, i)
           n == Len(o.methods)
           f == [j \in 1..(n + 1) |-> MethAt(o, l, q, j)]
<1>0. o = p.objects[i] /\ q = ObjAt(p, l, i) /\ ProtocolWritten(p) /\ D = Doc(p, l)
      /\ i \in 1..Len(p.objects)
  OBVIOUS
<1>a. ObjectThere(D, o, l, q, ObjAt(p, l, i + 1))
  BY ONLY <1>0, ObjectHere
<1>1. ObjectWritten(o) /\ q \in Nat \ {0} /\ ObjAt(p, l, i + 1) = ObjectEnd(o, l, q) + 1
      /\ MethAt(o, l, q, 1) = q + 1 + (IF l.noise THEN 11 ELSE 0)
  <2> HIDE DEF o, q
  <2> QED
    BY ONLY <1>a DEF ObjectThere
<1>2. \A j \in 1..(n + 1) : MethAt(o, l, q, j) \in Nat \ {0}
  <2> HIDE DEF o, q
  <2> QED
    BY ONLY <1>a DEF ObjectThere, n
<1>3. \A j \in 1..n : MethAt(o, l, q, j + 1) = MethAt(o, l, q, j) + Len(MethodDoc(o.methods[j], l))
  <2> HIDE DEF o, q
  <2> QED
    BY ONLY <1>a DEF ObjectThere, n
<1>4. n \in Nat /\ DOMAIN o.methods = 1..n
  BY <1>1, Places DEF ObjectWritten
<1>5. ASSUME NEW j \in 1..n
      PROVE  Len(MethodDoc(o.methods[j], l)) \in Nat
  <2>1. IsSeq(o.methods[j].args)
    BY <1>1, <1>4 DEF ObjectWritten, MethodWritten
  <2>2. IsSeq(MethodDoc(o.methods[j], l))
    BY <2>1, MethodLies
  <2> QED
    BY <2>2, Places
<1>6. Inside(D, ObjAt(p, l, i + 1)) /\ Len(D) \in Nat
  <2>1. i + 1 \in 1..(Len(p.objects) + 1)
    BY Places DEF ProtocolWritten
  <2> QED
    BY <2>1, TopInside
<1>7. \A j : PlaceOf(p, l, i, j) = MethAt(o, l, q, j)
  BY DEF PlaceOf
<1>8. ObjectEnd(o, l, q) = MethAt(o, l, q, n + 1)
  BY DEF ObjectEnd
<1> HIDE DEF o, q, n
<1>9. f \in [1..(n + 1) -> Nat] /\ \A j \in 1..n : f[j] <= f[j + 1]
  <2>1. f \in [1..(n + 1) -> Nat]
    BY <1>2
  <2>2. ASSUME NEW j \in 1..n
        PROVE  f[j] <= f[j + 1]
    <3>1. j \in 1..(n + 1) /\ j + 1 \in 1..(n + 1)
      BY <1>4
    <3> QED
      BY <1>2, <1>3, <1>5, <3>1
  <2> QED
    BY <2>1, <2>2
<1>10. \A j \in 1..(n + 1) : f[j] <= f[n + 1] /\ f[1] <= f[j]
  <2> HIDE DEF f
  <2> QED
    BY <1>4, <1>9, Rising
<1>11. \A j \in 1..(n + 1) : f[j] = MethAt(o, l, q, j) /\ f[j] \in Nat \ {0}
  BY <1>2
<1> HIDE DEF f
<1>12. 1 \in 1..(n + 1) /\ n + 1 \in 1..(n + 1)
  BY <1>4
<1>13. f[n + 1] < Len(D)
  <2>1. f[n + 1] + 1 <= Len(D) /\ f[n + 1] \in Nat
    BY <1>1, <1>6, <1>8, <1>11, <1>12 DEF Inside
  <2> QED
    BY <1>6, <2>1
<1>14. ASSUME NEW j \in 1..(n + 1)
       PROVE  Inside(D, PlaceOf(p, l, i, j))
  <2>1. f[j] <= f[n + 1] /\ f[j] \in Nat \ {0} /\ f[n + 1] \in Nat
    BY <1>10, <1>11, <1>12
  <2>2. PlaceOf(p, l, i, j) = f[j]
    BY <1>7, <1>11
  <2> QED
    BY <1>6, <1>13, <2>1, <2>2 DEF Inside
<1>15. l.noise => Inside(D, q + 1) /\ Inside(D, q + 9)
  <2>1. f[1] <= f[n + 1] /\ f[1] = q + 1 + (IF l.noise THEN 11 ELSE 0) /\ f[n + 1] \in Nat
    BY <1>1, <1>10, <1>11, <1>12
  <2> QED
    BY <1>1, <1>6, <1>13, <2>1 DEF Inside
<1> QED
  BY <1>14, <1>15 DEF o, q, n

(* A method's parts are inside the document. *)
LEMMA MethodInside ==
  ASSUME NEW p, ProtocolWritten(p), NEW l, NEW D, D = Doc(p, l), NEW i \in 1..Len(p.objects),
         NEW j \in 1..Len(p.objects[i].methods),
         NEW m, m = p.objects[i].methods[j], NEW r, r = PlaceOf(p, l, i, j)
  PROVE  /\ l.noise => Inside(D, r + 1) /\ Inside(D, r + 4)
         /\ \A k \in 1..(Len(m.args) + 1) : Inside(D, ArgAt(m, l, r, k))
         /\ Inside(D, MethodEnd(m, l, r))
<1> DEFINE n == Len(m.args)
           next == PlaceOf(p, l, i, j + 1)
           f == [k \in 1..(n + 1) |-> ArgAt(m, l, r, k)]
<1>1. MethodThere(D, m, l, r, next)
  BY MethodHere
<1>2. Inside(D, next) /\ Len(D) \in Nat
  <2>1. DOMAIN p.objects = 1..Len(p.objects)
    BY Places DEF ProtocolWritten
  <2>2. Len(p.objects[i].methods) \in Nat
    BY <2>1, Places DEF ProtocolWritten, ObjectWritten
  <2>3. j + 1 \in 1..(Len(p.objects[i].methods) + 1)
    BY <2>2
  <2> QED
    BY <2>3, ObjectInside, TopInside
<1> HIDE DEF next
<1>3. n \in Nat
  <2>1. IsSeq(m.args)
    BY <1>1 DEF MethodThere, MethodWritten
  <2> QED
    BY ONLY <2>1, Places
<1>4. /\ r \in Nat \ {0} /\ next = MethodEnd(m, l, r) + 1
      /\ ArgAt(m, l, r, 1) = r + 1 + (IF l.noise THEN 11 ELSE 0)
  BY <1>1 DEF MethodThere
<1>5. \A k \in 1..(n + 1) : ArgAt(m, l, r, k) \in Nat \ {0}
  BY <1>1 DEF MethodThere
<1>6. \A k \in 1..n : ArgAt(m, l, r, k + 1) = ArgAt(m, l, r, k) + ArgLen(l)
  BY <1>1 DEF MethodThere
<1> DEFINE c == IF m.returns = "" THEN 0 ELSE 1
<1>7. MethodEnd(m, l, r) = ArgAt(m, l, r, n + 1) + c /\ c \in Nat
  <2>1. c \in Nat
    OBVIOUS
  <2>2. MethodEnd(m, l, r) = ArgAt(m, l, r, n + 1) + c
    BY DEF MethodEnd, ReturnsAt
  <2> HIDE DEF c, n
  <2> QED
    BY <2>1, <2>2
<1>8. ArgLen(l) \in Nat
  BY DEF ArgLen
<1> HIDE DEF n, c
<1>9. f \in [1..(n + 1) -> Nat] /\ \A k \in 1..n : f[k] <= f[k + 1]
  <2>1. f \in [1..(n + 1) -> Nat]
    BY <1>5
  <2>2. ASSUME NEW k \in 1..n
        PROVE  f[k] <= f[k + 1]
    <3>1. k \in 1..(n + 1) /\ k + 1 \in 1..(n + 1)
      BY <1>3
    <3> QED
      BY <1>5, <1>6, <1>8, <3>1
  <2> QED
    BY <2>1, <2>2
<1>10. \A k \in 1..(n + 1) : f[k] <= f[n + 1] /\ f[1] <= f[k]
  <2> HIDE DEF f
  <2> QED
    BY <1>3, <1>9, Rising
<1>11. \A k \in 1..(n + 1) : f[k] = ArgAt(m, l, r, k) /\ f[k] \in Nat \ {0}
  BY <1>5
<1> HIDE DEF f
<1>12. 1 \in 1..(n + 1) /\ n + 1 \in 1..(n + 1)
  BY <1>3
<1>13. f[n + 1] + c < Len(D) /\ MethodEnd(m, l, r) = f[n + 1] + c /\ f[n + 1] \in Nat \ {0}
  <2>1. f[n + 1] + c + 1 <= Len(D) /\ f[n + 1] \in Nat \ {0}
    BY <1>2, <1>4, <1>7, <1>11, <1>12 DEF Inside
  <2>2. MethodEnd(m, l, r) = f[n + 1] + c
    BY <1>7, <1>11, <1>12
  <2> QED
    BY <1>2, <1>7, <2>1, <2>2
<1>14. ASSUME NEW k \in 1..(n + 1)
       PROVE  Inside(D, ArgAt(m, l, r, k))
  <2>1. f[k] <= f[n + 1] /\ f[k] \in Nat \ {0} /\ ArgAt(m, l, r, k) = f[k]
    BY <1>10, <1>11
  <2>2. \A x, y, len : x \in Nat /\ y \in Nat \ {0} /\ len \in Nat /\ y <= x /\ x + c < len
          => y \in 1..len
    BY <1>7
  <2> QED
    BY ONLY <1>2, <1>13, <2>1, <2>2 DEF Inside
<1>15. l.noise => Inside(D, r + 1) /\ Inside(D, r + 4)
  <2>1. f[1] <= f[n + 1] /\ f[1] = r + 1 + (IF l.noise THEN 11 ELSE 0)
    BY <1>4, <1>10, <1>11, <1>12
  <2>2. l.noise => r + 12 < Len(D)
    BY ONLY <1>2, <1>4, <1>7, <1>13, <2>1
  <2> QED
    BY ONLY <1>2, <1>4, <2>2 DEF Inside
<1>16. Inside(D, MethodEnd(m, l, r))
  BY <1>2, <1>7, <1>13 DEF Inside
<1> QED
  BY <1>14, <1>15, <1>16 DEF n

(* An enum's values are inside the document. *)
LEMMA EnumInside ==
  ASSUME NEW p, ProtocolWritten(p), NEW l, NEW D, D = Doc(p, l), NEW i \in 1..Len(p.enums),
         NEW k \in 1..(Len(p.enums[i].values) + 1)
  PROVE  Inside(D, EnumAt(p, l, i) + k)
<1> DEFINE n == Len(p.enums[i].values)
           q == EnumAt(p, l, i)
           e == p.enums[i]
<1>0. e = p.enums[i] /\ q = EnumAt(p, l, i) /\ ProtocolWritten(p) /\ D = Doc(p, l)
      /\ i \in 1..Len(p.enums)
  OBVIOUS
<1>1. q \in Nat \ {0} /\ Len(e.values) \in Nat /\ EnumAt(p, l, i + 1) = q + Len(e.values) + 2
  <2>1. EnumThere(D, e, q, EnumAt(p, l, i + 1))
    BY ONLY <1>0, EnumHere
  <2> HIDE DEF e, q
  <2> QED
    BY ONLY <2>1 DEF EnumThere
<1>2. Inside(D, EnumAt(p, l, i + 1)) /\ Len(D) \in Nat
  <2>1. i + 1 \in 1..(Len(p.enums) + 1)
    BY Places DEF ProtocolWritten
  <2> QED
    BY <2>1, TopInside
<1>3. n = Len(e.values) /\ k \in 1..(n + 1)
  OBVIOUS
<1> HIDE DEF n, q, e
<1>4. q + k \in 1..Len(D)
  BY <1>1, <1>2, <1>3 DEF Inside
<1> QED
  BY <1>4 DEF Inside, q

-----------------------------------------------------------------------------
(* Every spot leads to one. *)
(* Behind the last object the enums begin. *)
LEMMA ObjectsRead ==
  ASSUME NEW p, ProtocolWritten(p), NEW l, NEW D, D = Doc(p, l),
         AtObject(p, l, D, Len(p.objects) + 1)
  PROVE  AtEnum(p, l, D, 1)
<1>1. Len(p.objects) \in Nat
  BY Places DEF ProtocolWritten
<1>2. EnumAt(p, l, 1) = ObjAt(p, l, Len(p.objects) + 1)
  BY DocLies
<1>3. (Len(p.objects) + 1) - 1 = Len(p.objects) /\ 1 - 1 = 0
  BY <1>1
<1> QED
  BY <1>2, <1>3 DEF AtObject, AtEnum

(* Behind the last argument of a method that returns nothing is its end. *)
LEMMA ArgsRead ==
  ASSUME NEW p, NEW l, NEW D, NEW i, NEW j, NEW m, m = p.objects[i].methods[j],
         Len(m.args) \in Nat, ~Returning(m), MethodEnd(m, l, PlaceOf(p, l, i, j)) \in Nat,
         ReturnsAt(m, l, PlaceOf(p, l, i, j)) \in Nat,
         AtArg(p, l, D, i, j, Len(m.args) + 1)
  PROVE  AtMethodEnd(p, l, D, i, j)
<1> DEFINE r == PlaceOf(p, l, i, j)
<1>1. MethodEnd(m, l, r) = ArgAt(m, l, r, Len(m.args) + 1)
  <2>1. MethodEnd(m, l, r) = ReturnsAt(m, l, r) + 0
    BY DEF MethodEnd, Returning
  <2>2. ReturnsAt(m, l, r) \in Nat
    OBVIOUS
  <2> HIDE DEF r
  <2> QED
    BY ONLY <2>1, <2>2 DEF ReturnsAt
<1>2. m.returns = "" /\ (Len(m.args) + 1) - 1 = Len(m.args)
  <2>1. m.returns = ""
    BY DEF Returning
  <2>2. Len(m.args) \in Nat
    OBVIOUS
  <2>3. (Len(m.args) + 1) - 1 = Len(m.args)
    BY ONLY <2>2
  <2> QED
    BY <2>1, <2>3
<1> QED
  BY <1>1, <1>2 DEF AtArg, AtMethodEnd

(* From every spot but the last, the event there leads to a spot, and one  *)
(* that lacks an attribute is refused.                                     *)
LEMMA SeenAnswers ==
  ASSUME NEW p, ProtocolWritten(p), NEW l, NEW D, D = Doc(p, l), Spot(p, l, D),
         ~AtEnd(p, l, D), Sees(D[pos])
  PROVE  Answers(p, l, D)
<1>0. /\ Len(p.objects) \in Nat /\ DOMAIN p.objects = 1..Len(p.objects)
      /\ Len(p.enums) \in Nat /\ DOMAIN p.enums = 1..Len(p.enums)
  BY Places DEF ProtocolWritten
<1>1. CASE AtStart(D)
  BY <1>1, FromStart
<1>2. CASE AtCopyright(p, l, D)
  BY <1>2, FromCopyright
<1>3. ASSUME NEW i \in 1..(Len(p.enums) + 1), AtEnum(p, l, D, i)
      PROVE  Answers(p, l, D)
  <2>1. CASE i \in 1..Len(p.enums)
    BY <1>3, <2>1, FromEnum
  <2>2. CASE i = Len(p.enums) + 1
    BY <1>3, <2>2, FromProtocolEnd
  <2> QED
    BY <1>0, <2>1, <2>2
<1>4. ASSUME NEW i \in 1..(Len(p.objects) + 1), AtObject(p, l, D, i)
      PROVE  Answers(p, l, D)
  <2>1. CASE i \in 1..Len(p.objects)
    BY <1>4, <2>1, FromObject
  <2>2. CASE i = Len(p.objects) + 1
    <3>1. AtEnum(p, l, D, 1)
      BY <1>4, <2>2, ObjectsRead
    <3>2. 1 \in 1..(Len(p.enums) + 1)
      BY <1>0
    <3> QED
      BY <1>3, <3>1, <3>2
  <2> QED
    BY <1>0, <2>1, <2>2
<1>5. ASSUME NEW i \in 1..Len(p.objects), AtObjectAside(p, l, D, i) \/ AtObjectRemark(p, l, D, i)
      PROVE  Answers(p, l, D)
  BY <1>5, FromObjectAside, FromObjectRemark
<1>6. ASSUME NEW i \in 1..Len(p.objects), NEW j \in 1..(Len(p.objects[i].methods) + 1),
             AtMethod(p, l, D, i, j)
      PROVE  Answers(p, l, D)
  <2>0. Len(p.objects[i].methods) \in Nat
    BY <1>0, Places DEF ProtocolWritten, ObjectWritten
  <2>1. CASE j \in 1..Len(p.objects[i].methods)
    BY <1>6, <2>1, FromMethod
  <2>2. CASE j = Len(p.objects[i].methods) + 1
    BY <1>6, <2>2, FromObjectEnd
  <2> QED
    BY <2>0, <2>1, <2>2
<1>7. ASSUME NEW i \in 1..Len(p.objects), NEW j \in 1..Len(p.objects[i].methods),
             \/ AtMethodRemark(p, l, D, i, j) \/ AtMethodAside(p, l, D, i, j)
             \/ AtMethodEnd(p, l, D, i, j)
      PROVE  Answers(p, l, D)
  BY <1>7, FromMethodRemark, FromMethodAside, FromMethodEnd
<1>8. ASSUME NEW i \in 1..Len(p.objects), NEW j \in 1..Len(p.objects[i].methods),
             NEW k \in 1..(Len(p.objects[i].methods[j].args) + 1), AtArg(p, l, D, i, j, k)
      PROVE  Answers(p, l, D)
  <2> DEFINE m == p.objects[i].methods[j]
             r == PlaceOf(p, l, i, j)
             n == Len(m.args)
  <2>0. MethodThere(D, m, l, r, PlaceOf(p, l, i, j + 1))
    BY MethodHere
  <2>1. n \in Nat
    <3>1. IsSeq(m.args)
      <4> HIDE DEF m, r
      <4> QED
        BY <2>0 DEF MethodThere, MethodWritten
    <3> HIDE DEF m
    <3> QED
      BY ONLY <3>1, Places
  <2>2. CASE k \in 1..n
    BY <1>8, <2>2, FromArg
  <2>3. CASE k = n + 1 /\ Returning(m)
    BY <1>8, <2>3, FromReturns
  <2>4. CASE k = n + 1 /\ ~Returning(m)
    <3>1. n + 1 \in 1..(n + 1)
      <4> HIDE DEF n
      <4> QED
        BY ONLY <2>1
    <3>2. Inside(D, ArgAt(m, l, r, n + 1)) /\ Inside(D, MethodEnd(m, l, r)) /\ Len(D) \in Nat
      BY <3>1, MethodInside, TopInside
    <3>3. ReturnsAt(m, l, r) \in Nat /\ MethodEnd(m, l, r) \in Nat
      <4> HIDE DEF m, r
      <4> QED
        BY ONLY <3>2 DEF Inside, ReturnsAt, n
    <3>4. AtArg(p, l, D, i, j, n + 1)
      BY <1>8, <2>4
    <3>5. AtMethodEnd(p, l, D, i, j)
      BY <2>1, <2>4, <3>3, <3>4, ArgsRead
    <3> QED
      BY <1>7, <3>5
  <2>5. k \in 1..n \/ k = n + 1
    <3>1. k \in 1..(n + 1)
      OBVIOUS
    <3> HIDE DEF n
    <3> QED
      BY ONLY <2>1, <3>1
  <2> QED
    BY <2>2, <2>3, <2>4, <2>5
<1>9. ASSUME NEW i \in 1..Len(p.enums), NEW k \in 1..(Len(p.enums[i].values) + 1),
             AtValue(p, l, D, i, k)
      PROVE  Answers(p, l, D)
  <2>0. Len(p.enums[i].values) \in Nat
    BY <1>0, Places DEF ProtocolWritten, EnumWritten
  <2>1. CASE k \in 1..Len(p.enums[i].values)
    BY <1>9, <2>1, FromValue
  <2>2. CASE k = Len(p.enums[i].values) + 1
    BY <1>9, <2>2, FromEnumEnd
  <2> QED
    BY <2>0, <2>1, <2>2
<1> HIDE DEF Answers
<1> QED
  BY <1>1, <1>2, <1>3, <1>4, <1>5, <1>6, <1>7, <1>8, <1>9 DEF Spot

(* Where a spot is, and that an element passed keeps it. *)
Holds(p, l, D) ==
  \/ \E e \in 1..Len(D) : Progress(D, e)
  \/ AtEnd(p, l, D)

(* A spot is inside the document, or behind its end. *)
LEMMA SpotHolds ==
  ASSUME NEW p, ProtocolWritten(p), NEW l, NEW D, D = Doc(p, l), Spot(p, l, D)
  PROVE  Holds(p, l, D)
<1>0. \A e : Inside(D, e) /\ Progress(D, e) => Holds(p, l, D)
  BY DEF Holds, Inside
<1>1. CASE AtStart(D) \/ AtCopyright(p, l, D)
  BY <1>0, <1>1, TopInside DEF AtStart, AtCopyright
<1>2. ASSUME NEW i \in 1..(Len(p.objects) + 1), AtObject(p, l, D, i)
      PROVE  Holds(p, l, D)
  BY <1>0, <1>2, TopInside DEF AtObject
<1>3. ASSUME NEW i \in 1..(Len(p.enums) + 1), AtEnum(p, l, D, i)
      PROVE  Holds(p, l, D)
  BY <1>0, <1>3, TopInside DEF AtEnum
<1>4. ASSUME NEW i \in 1..Len(p.objects), AtObjectAside(p, l, D, i) \/ AtObjectRemark(p, l, D, i)
      PROVE  Holds(p, l, D)
  BY <1>0, <1>4, ObjectInside DEF AtObjectAside, AtObjectRemark
<1>5. ASSUME NEW i \in 1..Len(p.objects), NEW j \in 1..(Len(p.objects[i].methods) + 1),
             AtMethod(p, l, D, i, j)
      PROVE  Holds(p, l, D)
  <2>1. Inside(D, PlaceOf(p, l, i, j))
    BY ObjectInside
  <2> QED
    BY <1>0, <1>5, <2>1 DEF AtMethod, PlaceOf
<1>6. ASSUME NEW i \in 1..Len(p.objects), NEW j \in 1..Len(p.objects[i].methods),
             \/ AtMethodRemark(p, l, D, i, j) \/ AtMethodAside(p, l, D, i, j)
             \/ AtMethodEnd(p, l, D, i, j)
      PROVE  Holds(p, l, D)
  <2> DEFINE m == p.objects[i].methods[j]
             r == PlaceOf(p, l, i, j)
  <2>1. l.noise => Inside(D, r + 1) /\ Inside(D, r + 4)
    BY MethodInside
  <2>2. Inside(D, MethodEnd(m, l, r))
    BY MethodInside
  <2> QED
    BY <1>0, <1>6, <2>1, <2>2 DEF AtMethodRemark, AtMethodAside, AtMethodEnd
<1>7. ASSUME NEW i \in 1..Len(p.objects), NEW j \in 1..Len(p.objects[i].methods),
             NEW k \in 1..(Len(p.objects[i].methods[j].args) + 1), AtArg(p, l, D, i, j, k)
      PROVE  Holds(p, l, D)
  <2> DEFINE m == p.objects[i].methods[j]
             r == PlaceOf(p, l, i, j)
  <2>1. Inside(D, ArgAt(m, l, r, k))
    BY MethodInside
  <2> QED
    BY <1>0, <1>7, <2>1 DEF AtArg
<1>8. ASSUME NEW i \in 1..Len(p.enums), NEW k \in 1..(Len(p.enums[i].values) + 1),
             AtValue(p, l, D, i, k)
      PROVE  Holds(p, l, D)
  <2>1. Inside(D, EnumAt(p, l, i) + k)
    BY EnumInside
  <2> QED
    BY <1>0, <1>8, <2>1 DEF AtValue
<1>9. CASE AtEnd(p, l, D)
  BY <1>9 DEF Holds
<1> QED
  BY <1>1, <1>2, <1>3, <1>4, <1>5, <1>6, <1>7, <1>8, <1>9 DEF Spot

(* While an element is passed nothing is read: the spot stays. *)
LEMMA SpotKept ==
  ASSUME NEW p, NEW l, NEW D, Spot(p, l, D), UNCHANGED <<where, out, obj, meth, enm>>,
         \A e : Progress(D, e) => Progress(D, e)'
  PROVE  Spot(p, l, D)'
<1>1. AtStart(D) => AtStart(D)'
  BY DEF AtStart
<1>2. AtCopyright(p, l, D) => AtCopyright(p, l, D)'
  BY DEF AtCopyright, OutIs
<1>3. \A i : AtObject(p, l, D, i) => AtObject(p, l, D, i)'
  BY DEF AtObject, OutIs
<1>4. \A i : AtEnum(p, l, D, i) => AtEnum(p, l, D, i)'
  BY DEF AtEnum, OutIs
<1>5. AtEnd(p, l, D) => AtEnd(p, l, D)'
  BY DEF AtEnd, OutIs
<1>6. \A i : AtObjectAside(p, l, D, i) => AtObjectAside(p, l, D, i)'
  BY DEF AtObjectAside, OutIs, ObjIs
<1>7. \A i : AtObjectRemark(p, l, D, i) => AtObjectRemark(p, l, D, i)'
  BY DEF AtObjectRemark, OutIs, ObjIs
<1>8. \A i, j : AtMethod(p, l, D, i, j) => AtMethod(p, l, D, i, j)'
  BY DEF AtMethod, OutIs, ObjIs
<1>9. \A i, j : InMethod(p, i, j) => InMethod(p, i, j)'
  BY DEF InMethod, OutIs, ObjIs
<1>10. \A m, k, r : MethIs(m, k, r) => MethIs(m, k, r)'
  BY DEF MethIs
<1>11. \A i, j : AtMethodRemark(p, l, D, i, j) => AtMethodRemark(p, l, D, i, j)'
  BY <1>9, <1>10 DEF AtMethodRemark
<1>12. \A i, j : AtMethodAside(p, l, D, i, j) => AtMethodAside(p, l, D, i, j)'
  BY <1>9, <1>10 DEF AtMethodAside
<1>13. \A i, j, k : AtArg(p, l, D, i, j, k) => AtArg(p, l, D, i, j, k)'
  BY <1>9, <1>10 DEF AtArg
<1>14. \A i, j : AtMethodEnd(p, l, D, i, j) => AtMethodEnd(p, l, D, i, j)'
  BY <1>9, <1>10 DEF AtMethodEnd
<1>15. \A i, k : AtValue(p, l, D, i, k) => AtValue(p, l, D, i, k)'
  BY DEF AtValue, OutIs, EnmIs
<1> QED
  BY <1>1, <1>2, <1>3, <1>4, <1>5, <1>6, <1>7, <1>8, <1>11, <1>12, <1>13, <1>14, <1>15
     DEF Spot

-----------------------------------------------------------------------------
(* What has been read by the end. *)

(* A step of the reader goes on by an event, or stops. *)
LEMMA StepGoes ==
  ASSUME ScanNext
  PROVE  /\ parse = "reading" /\ UNCHANGED <<said, form, damage, doc>>
         /\ parse' # "reading" \/ pos' = pos + 1
         /\ AtEof => \/ EofRefused
                     \/ ProtocolEnds
         /\ ~AtEof /\ passing # <<>> => PassOn
<1>1. PassOn => /\ parse = "reading" /\ UNCHANGED <<said, form, damage, doc>>
                /\ pos' = pos + 1 /\ ~AtEof
  BY DEF PassOn, Kept, Advance
<1>2. EofRefused => /\ parse = "reading" /\ UNCHANGED <<said, form, damage, doc>>
                    /\ parse' # "reading" /\ AtEof
  BY DEF EofRefused, Kept, Fails
<1>3. ProtocolEnds => /\ parse = "reading" /\ UNCHANGED <<said, form, damage, doc>>
                      /\ parse' # "reading" /\ AtEof
  BY DEF ProtocolEnds, Kept
<1> DEFINE Goes2 == /\ parse = "reading" /\ passing = <<>> /\ ~AtEof
                    /\ UNCHANGED <<said, form, damage, doc>>
                    /\ parse' # "reading" \/ pos' = pos + 1
<1>4. ReadProtocol \/ ReadCopyright \/ BeginObject \/ BeginEnum \/ GoesOn => Goes2
  BY DEF ReadProtocol, ReadCopyright, BeginObject, BeginEnum, GoesOn, Reads, Kept,
         Fails, Advance
<1>5. ObjectPasses \/ BeginMethod \/ ObjectEnds => Goes2
  BY DEF ObjectPasses, BeginMethod, ObjectEnds, Reads, Kept, Fails, Advance
<1>6. ReadArg \/ ReadReturns \/ MethodPasses \/ MethodEnds => Goes2
  BY DEF ReadArg, ReadReturns, MethodPasses, MethodEnds, Reads, Kept, Fails, Advance
<1>7. ReadValue \/ EnumEnds => Goes2
  BY DEF ReadValue, EnumEnds, Reads, Kept, Fails, Advance
<1> QED
  BY <1>1, <1>2, <1>3, <1>4, <1>5, <1>6, <1>7 DEF ScanNext

(* While an element is passed the spot is ahead. *)
LEMMA PassingPlace ==
  ASSUME NEW D, NEW e, Progress(D, e), passing # <<>>, pos \in Nat
  PROVE  e \in Nat /\ pos < e
<1>1. PICK q \in 1..(pos - 1) : pos < e /\ (e = q + 3 \/ e = q + 8 \/ e = q + 5)
  BY DEF Progress
<1> QED
  BY <1>1

(* The first places of a sequence are a prefix of it. *)
LEMMA FirstIsPrefix ==
  ASSUME NEW f, IsSeq(f), NEW n \in 0..Len(f)
  PROVE  IsPrefix(First(f, n), f)
<1> DEFINE S == ToSet(f)
           s == First(f, n)
           t == SubSeq(f, 1, n)
<1>1. f \in Seq(S) /\ Len(f) \in Nat /\ n \in Nat
  BY Places DEF IsSeq
<1> HIDE DEF S
<1>2. \A k \in 1..n : f[k] \in S
  BY <1>1
<1>3. s \in Seq(S) /\ Len(s) = n /\ \A k \in 1..n : s[k] = f[k]
  BY <1>1, <1>2, FirstIsSeq
<1>4. t \in Seq(S) /\ Len(t) = n /\ \A k \in 1..n : t[k] = f[k]
  <2> HIDE DEF s
  <2> QED
    BY <1>1, <1>2
<1> HIDE DEF s, t
<1>5. s = t
  BY <1>3, <1>4, SameSeq
<1>6. SubSeq(s, 1, n) = s
  BY <1>1, <1>3
<1>7. Len(s) <= Len(f) /\ SubSeq(s, 1, Len(s)) = SubSeq(f, 1, Len(s))
  BY <1>1, <1>3, <1>5, <1>6 DEF t
<1> QED
  BY <1>7 DEF IsPrefix, s

(* What is said, as sequences. *)
LEMMA SaidSeqs ==
  ASSUME NEW p, ProtocolWritten(p)
  PROVE  /\ IsSeq(Said(p).objects) /\ Len(Said(p).objects) = Len(p.objects)
         /\ IsSeq(p.enums) /\ Said(p).enums = p.enums
         /\ Said(p) = [name |-> p.name, version |-> p.version, objects |-> Said(p).objects,
                       enums |-> p.enums]
<1> DEFINE Obj(o) == [name |-> o.name, c2s |-> Side(o, "c2s"), s2c |-> Side(o, "s2c")]
           n == Len(p.objects)
           so == [i \in DOMAIN p.objects |-> Obj(p.objects[i])]
           S == {Obj(p.objects[i]) : i \in DOMAIN p.objects}
<1>1. DOMAIN p.objects = 1..n /\ n \in Nat /\ IsSeq(p.enums)
  BY Places DEF ProtocolWritten
<1>2. so \in [1..n -> S]
  <2> HIDE DEF Obj, n
  <2> QED
    BY <1>1
<1>3. Said(p) = [name |-> p.name, version |-> p.version, objects |-> so, enums |-> p.enums]
  BY DEF Said
<1> HIDE DEF so, S, n
<1>4. so \in Seq(S) /\ Len(so) = n
  BY <1>1, <1>2
<1>5. IsSeq(so)
  BY <1>4, SeqIsSeq
<1> QED
  BY <1>1, <1>3, <1>4, <1>5 DEF n

(* What has been read in the protocol's loop is a part of what is said. *)
LEMMA ReadIsPart ==
  ASSUME NEW p, ProtocolWritten(p), NEW l, NEW D, D = Doc(p, l), Spot(p, l, D),
         where = "protocol"
  PROVE  /\ IsPrefix(out.objects, Said(p).objects)
         /\ IsPrefix(out.enums, Said(p).enums)
<1>1. /\ Len(p.objects) \in Nat /\ Len(p.enums) \in Nat
      /\ IsSeq(Said(p).objects) /\ Len(Said(p).objects) = Len(p.objects)
      /\ IsSeq(p.enums) /\ Said(p).enums = p.enums
  BY Places, SaidSeqs DEF ProtocolWritten
<1>2. \A a \in 0..Len(p.objects) : IsPrefix(First(Said(p).objects, a), Said(p).objects)
  BY <1>1, FirstIsPrefix
<1>3. \A a \in 0..Len(p.enums) : IsPrefix(First(p.enums, a), Said(p).enums)
  BY <1>1, FirstIsPrefix
<1>4. ASSUME NEW a \in 0..Len(p.objects), NEW b \in 0..Len(p.enums), OutIs(p, a, b)
      PROVE  IsPrefix(out.objects, Said(p).objects) /\ IsPrefix(out.enums, Said(p).enums)
  <2>1. out.objects = First(Said(p).objects, a) /\ out.enums = First(p.enums, b)
    BY <1>4 DEF OutIs
  <2> QED
    BY <1>2, <1>3, <2>1
<1>5. 0 \in 0..Len(p.objects) /\ 0 \in 0..Len(p.enums)
  BY <1>1
<1>6. CASE AtStart(D)
  <2>1. out.objects = <<>> /\ out.enums = <<>>
    BY <1>6 DEF AtStart
  <2>2. First(Said(p).objects, 0) = <<>> /\ First(p.enums, 0) = <<>>
    BY FirstNone
  <2> QED
    BY <1>2, <1>3, <1>5, <2>1, <2>2
<1>7. CASE AtCopyright(p, l, D)
  BY <1>4, <1>5, <1>7 DEF AtCopyright
<1>8. CASE AtEnd(p, l, D)
  BY <1>1, <1>4, <1>8 DEF AtEnd
<1>9. ASSUME NEW i \in 1..(Len(p.objects) + 1), AtObject(p, l, D, i)
      PROVE  IsPrefix(out.objects, Said(p).objects) /\ IsPrefix(out.enums, Said(p).enums)
  <2>1. i - 1 \in 0..Len(p.objects)
    BY <1>1
  <2> QED
    BY <1>4, <1>5, <1>9, <2>1 DEF AtObject
<1>10. ASSUME NEW i \in 1..(Len(p.enums) + 1), AtEnum(p, l, D, i)
       PROVE  IsPrefix(out.objects, Said(p).objects) /\ IsPrefix(out.enums, Said(p).enums)
  <2>1. i - 1 \in 0..Len(p.enums) /\ Len(p.objects) \in 0..Len(p.objects)
    BY <1>1
  <2> QED
    BY <1>4, <1>10, <2>1 DEF AtEnum
<1>11. /\ \A i : ~AtObjectAside(p, l, D, i) /\ ~AtObjectRemark(p, l, D, i)
       /\ \A i, j : /\ ~AtMethod(p, l, D, i, j) /\ ~AtMethodRemark(p, l, D, i, j)
                    /\ ~AtMethodAside(p, l, D, i, j) /\ ~AtMethodEnd(p, l, D, i, j)
       /\ \A i, j, k : ~AtArg(p, l, D, i, j, k)
       /\ \A i, k : ~AtValue(p, l, D, i, k)
  BY DEF AtObjectAside, AtObjectRemark, AtMethod, AtMethodRemark, AtMethodAside, AtMethodEnd,
         AtArg, AtValue, InMethod
<1> QED
  BY <1>6, <1>7, <1>8, <1>9, <1>10, <1>11 DEF Spot

(* With all objects and all enums read, it is what is said. *)
LEMMA ReadIsAll ==
  ASSUME NEW p, ProtocolWritten(p), OutIs(p, Len(p.objects), Len(p.enums))
  PROVE  out = Said(p)
<1>1. /\ First(Said(p).objects, Len(p.objects)) = Said(p).objects
      /\ First(p.enums, Len(p.enums)) = p.enums
  <2>1. First(Said(p).objects, Len(Said(p).objects)) = Said(p).objects
    BY FirstAll, SaidSeqs
  <2>2. First(p.enums, Len(p.enums)) = p.enums
    BY FirstAll, SaidSeqs
  <2> QED
    BY <2>1, <2>2, SaidSeqs
<1>2. Said(p) = [name |-> p.name, version |-> p.version, objects |-> Said(p).objects,
                 enums |-> p.enums]
  BY SaidSeqs
<1> QED
  BY <1>1, <1>2 DEF OutIs

-----------------------------------------------------------------------------
(* Documents that are damaged. *)

(* The event that is next is the document's, or lacks an attribute. *)
LEMMA NextOfHurt ==
  ASSUME NEW D, IsSeq(D), Hurt(D), pos \in Nat \ {0}, ~AtEof
  PROVE  /\ pos <= Len(D)
         /\ \/ Next1 = D[pos]
            \/ damage = "attr" /\ Lacks(D[pos])
<1> DEFINE S == ToSet(D)
<1>1. D \in Seq(S) /\ Len(D) \in Nat /\ DOMAIN D = 1..Len(D)
  BY Places DEF IsSeq
<1> HIDE DEF S
<1>2. CASE damage = "none" /\ doc = D
  <2>1. Next1 = D[pos] /\ pos <= Len(D)
    BY <1>1, <1>2 DEF Next1, AtEof
  <2> QED
    BY <2>1
<1>3. CASE damage = "cut" /\ \E n \in 0..(Len(D) - 1) : doc = SubSeq(D, 1, n)
  <2>1. PICK n \in 0..(Len(D) - 1) : doc = SubSeq(D, 1, n)
    BY <1>3
  <2>2. Len(doc) = n /\ \A k \in 1..n : doc[k] = D[k]
    BY <1>1, <2>1
  <2>3. pos \in 1..n /\ pos <= Len(D)
    BY <1>1, <2>2 DEF AtEof
  <2>4. Next1 = D[pos]
    BY <2>2, <2>3 DEF Next1
  <2> QED
    BY <2>3, <2>4
<1>4. CASE damage = "attr" /\ \E i \in DOMAIN D : \E attr \in DOMAIN D[i].attrs \ Optional :
             pos <= i /\ doc = [D EXCEPT ![i] = Without(@, attr)]
  <2>0. PICK i \in DOMAIN D : \E attr \in DOMAIN D[i].attrs \ Optional :
             pos <= i /\ doc = [D EXCEPT ![i] = Without(@, attr)]
    BY <1>4
  <2>1. PICK attr \in DOMAIN D[i].attrs \ Optional :
             pos <= i /\ doc = [D EXCEPT ![i] = Without(@, attr)]
    BY <2>0
  <2> DEFINE w == Without(D[i], attr)
  <2> HIDE DEF w
  <2>2. doc = [D EXCEPT ![i] = w]
    BY <2>1 DEF w
  <2>3. pos \in 1..Len(D) /\ i \in 1..Len(D)
    BY <1>1, <2>1
  <2>4. Next1 = IF pos = i THEN w ELSE D[pos]
    BY <1>1, <2>2, <2>3 DEF Next1
  <2>5. CASE pos = i
    <3>1. Lacks(D[pos])
      BY <2>1, <2>4, <2>5 DEF Lacks, w
    <3> QED
      BY <1>4, <2>3, <3>1
  <2>6. CASE pos # i
    BY <2>3, <2>4, <2>6
  <2> QED
    BY <2>5, <2>6
<1> QED
  BY <1>2, <1>3, <1>4 DEF Hurt

(* It lacks none when an attribute further on is missing. *)
LEMMA HurtGoes ==
  ASSUME NEW D, IsSeq(D), Hurt(D), pos \in Nat \ {0}, ~AtEof, pos' = pos + 1,
         UNCHANGED <<damage, doc>>, ~Lacks(D[pos])
  PROVE  Hurt(D)'
<1>1. CASE damage = "none" /\ doc = D
  BY <1>1 DEF Hurt
<1>2. CASE damage = "cut" /\ \E n \in 0..(Len(D) - 1) : doc = SubSeq(D, 1, n)
  BY <1>2 DEF Hurt
<1>3. CASE damage = "attr" /\ \E i \in DOMAIN D : \E attr \in DOMAIN D[i].attrs \ Optional :
             pos <= i /\ doc = [D EXCEPT ![i] = Without(@, attr)]
  <2>0. PICK i \in DOMAIN D : \E attr \in DOMAIN D[i].attrs \ Optional :
             pos <= i /\ doc = [D EXCEPT ![i] = Without(@, attr)]
    BY <1>3
  <2>1. PICK attr \in DOMAIN D[i].attrs \ Optional :
             pos <= i /\ doc = [D EXCEPT ![i] = Without(@, attr)]
    BY <2>0
  <2>2. DOMAIN D = 1..Len(D) /\ Len(D) \in Nat
    BY Places
  <2>3. pos # i
    <3>1. ASSUME pos = i
          PROVE  Next1 = Without(D[pos], attr)
      BY <2>1, <2>2, <3>1 DEF Next1
    <3> QED
      BY <2>1, <3>1 DEF Lacks
  <2>4. pos' <= i
    BY <2>1, <2>2, <2>3
  <2>5. \E j \in DOMAIN D : \E a \in DOMAIN D[j].attrs \ Optional :
             pos' <= j /\ doc' = [D EXCEPT ![j] = Without(@, a)]
    BY <2>1, <2>4
  <2> QED
    BY <1>3, <2>5 DEF Hurt
<1> QED
  BY <1>1, <1>2, <1>3 DEF Hurt

(* A reader that is at the end has met no event that lacks an attribute. *)
LEMMA AttrIsAhead ==
  ASSUME NEW D, IsSeq(D), Hurt(D), pos \in Nat \ {0}, AtEof
  PROVE  damage # "attr"
<1> SUFFICES ASSUME damage = "attr"
             PROVE  FALSE
  OBVIOUS
<1>0. PICK i \in DOMAIN D : \E attr \in DOMAIN D[i].attrs \ Optional :
             pos <= i /\ doc = [D EXCEPT ![i] = Without(@, attr)]
  BY DEF Hurt
<1>1. PICK attr \in DOMAIN D[i].attrs \ Optional :
             pos <= i /\ doc = [D EXCEPT ![i] = Without(@, attr)]
  BY <1>0
<1>2. D \in Seq(ToSet(D)) /\ DOMAIN D = 1..Len(D) /\ Len(D) \in Nat
  BY Places DEF IsSeq
<1>3. DOMAIN doc = DOMAIN D
  BY <1>1
<1>4. Len(doc) = Len(D)
  <2> DEFINE w == Without(D[i], attr)
             S == ToSet(D) \cup {w}
  <2>1. doc = [D EXCEPT ![i] = w]
    BY <1>1
  <2>2. D \in Seq(S) /\ w \in S /\ i \in 1..Len(D)
    BY <1>2
  <2> HIDE DEF w, S
  <2> QED
    BY <2>1, <2>2
<1> QED
  BY <1>1, <1>2, <1>4 DEF AtEof

(* What is passed has no attributes. *)
LEMMA PassedHasNone ==
  ASSUME NEW D, NEW e \in Nat, Progress(D, e), pos \in Nat, passing # <<>>
  PROVE  D[pos].attrs = NoAttrs \/ D[pos].attrs = <<>>
<1>1. PICK q \in 1..(pos - 1) :
        /\ pos < e
        /\ \/ e = q + 3 /\ PassesRemark(D, q)
           \/ e = q + 8 /\ PassesAside(D, q)
           \/ e = q + 5 /\ PassesArg(D, q)
  BY DEF Progress
<1>2. q \in Nat /\ q < pos /\ pos < e /\ q >= 1
  BY <1>1
<1>3. \A ev, tag : /\ Ev(ev, tag, NoAttrs).attrs = NoAttrs
                   /\ Opening(tag, NoAttrs).attrs = NoAttrs
                   /\ Closing(tag).attrs = <<>>
  BY DEF Ev, Opening, Closing
<1>4. \A tag, r : r \in Nat /\ Lies(Remark(tag), D, r) =>
        \A k \in r..(r + 2) : D[k].attrs = NoAttrs \/ D[k].attrs = <<>>
  <2> SUFFICES ASSUME NEW tag, NEW r \in Nat, Lies(Remark(tag), D, r), NEW k \in r..(r + 2)
               PROVE  D[k].attrs = NoAttrs \/ D[k].attrs = <<>>
    OBVIOUS
  <2>1. k = r \/ k = r + 1 \/ k = r + 2
    OBVIOUS
  <2>2. /\ D[r] = Opening(tag, NoAttrs) /\ D[r + 1] = Ev("text", tag, NoAttrs)
        /\ D[r + 2] = Closing(tag)
    BY RemarkLies
  <2> QED
    BY <1>3, <2>1, <2>2
<1>5. CASE e = q + 3 /\ PassesRemark(D, q)
  <2>1. Lies(Remark(D[q].tag), D, q) /\ pos \in q..(q + 2)
    BY <1>2, <1>5 DEF PassesRemark
  <2> QED
    BY <1>2, <1>4, <2>1
<1>6. CASE e = q + 8 /\ PassesAside(D, q)
  <2>1. /\ Lies(Remark("aside"), D, q + 1) /\ Lies(Remark("p"), D, q + 4)
        /\ D[q + 7] = Closing("aside")
    BY <1>2, <1>6, AsideLies DEF PassesAside
  <2>2. /\ q + 1 \in Nat /\ q + 4 \in Nat
        /\ \/ pos \in (q + 1)..((q + 1) + 2)
           \/ pos \in (q + 4)..((q + 4) + 2)
           \/ pos = q + 7
    BY <1>2, <1>6
  <2> QED
    BY <1>3, <1>4, <2>1, <2>2
<1>7. CASE e = q + 5 /\ PassesArg(D, q)
  <2>1. Lies(Remark("summary"), D, q + 1) /\ D[q + 4] = Closing("arg")
    BY <1>7 DEF PassesArg
  <2>2. q + 1 \in Nat /\ (pos \in (q + 1)..((q + 1) + 2) \/ pos = q + 4)
    BY <1>2, <1>7
  <2> QED
    BY <1>3, <1>4, <2>1, <2>2
<1> QED
  BY <1>1, <1>5, <1>6, <1>7

(* Before the end a step of the reader leads from a spot to a spot, or     *)
(* refuses a document in which an attribute is missing.                    *)
LEMMA ReadingStep ==
  ASSUME NEW p, ProtocolWritten(p), NEW l, pos \in Nat \ {0},
         NEW D, D = Doc(p, l), Hurt(D), Spot(p, l, D), ScanNext, ~AtEof
  PROVE  \/ parse' = "failed" /\ damage = "attr"
         \/ parse' = "reading" /\ pos' \in Nat \ {0} /\ Hurt(D)' /\ Spot(p, l, D)'
<1>0. IsSeq(D) /\ Len(D) \in Nat
  BY DocLies, TopInside
<1>1. /\ UNCHANGED <<said, damage, doc>>
      /\ parse' # "reading" \/ pos' = pos + 1
      /\ parse = "reading"
  BY StepGoes
<1>2. /\ pos <= Len(D)
      /\ \/ Next1 = D[pos]
         \/ damage = "attr" /\ Lacks(D[pos])
  BY <1>0, NextOfHurt
<1>3. CASE passing # <<>>
  <2>1. PassOn
    BY <1>3, StepGoes
  <2>2. pos' = pos + 1 /\ parse' = "reading" /\ UNCHANGED <<where, out, obj, meth, enm>>
    BY <1>1, <2>1 DEF PassOn, Advance
  <2>3. \E e \in Nat : Progress(D, e)
    <3>1. Holds(p, l, D)
      BY SpotHolds
    <3> QED
      BY <1>0, <3>1 DEF Holds, AtEnd
  <2>4. D[pos].attrs = NoAttrs \/ D[pos].attrs = <<>>
    BY <1>3, <2>3, PassedHasNone
  <2>5. ~Lacks(D[pos])
    BY <2>4, NothingLacks
  <2>6. EvIs(D[pos].ev, D[pos].tag)
    BY <1>2, <2>5 DEF EvIs
  <2>7. \A e : Progress(D, e) => Progress(D, e)'
    <3> SUFFICES ASSUME NEW e, Progress(D, e)
                 PROVE  Progress(D, e)'
      OBVIOUS
    <3>1. e \in Nat
      BY <1>3, PassingPlace
    <3>2. Progress(D, e) /\ pos \in Nat
      OBVIOUS
    <3>3. PassOn => Progress(D, e)'
      BY ONLY <1>3, <2>6, <3>1, <3>2, ProgressOn
    <3> QED
      BY <2>1, <3>3
  <2>8. Spot(p, l, D)'
    BY <2>2, <2>7, SpotKept
  <2>9. Hurt(D)'
    BY <1>0, <1>1, <2>2, <2>5, HurtGoes
  <2> QED
    BY <2>2, <2>8, <2>9
<1>4. CASE passing = <<>>
  <2>1. ~AtEnd(p, l, D)
    <3>1. ASSUME AtEnd(p, l, D)
          PROVE  FALSE
      <4>1. pos = Len(D) + 1
        BY <1>4, <3>1, NothingPassed DEF AtEnd
      <4> QED
        BY <1>0, <1>2, <4>1
    <3> QED
      BY <3>1
  <2>2. Sees(D[pos])
    BY <1>2, <1>4 DEF Sees
  <2>3. Answers(p, l, D)
    BY <2>1, <2>2, SeenAnswers
  <2>4. CASE Lacks(D[pos])
    <3>1. parse' = "failed"
      BY <2>3, <2>4 DEF Answers
    <3>2. ~(Next1 = D[pos])
      BY <2>3, <3>1 DEF Answers
    <3> QED
      BY <1>2, <3>1, <3>2
  <2>5. CASE ~Lacks(D[pos])
    <3>1. parse' = "reading" /\ Spot(p, l, D)'
      BY <1>2, <2>3, <2>5 DEF Answers
    <3>2. pos' = pos + 1
      BY <1>1, <3>1
    <3>3. Hurt(D)'
      BY <1>0, <1>1, <2>5, <3>2, HurtGoes
    <3> QED
      BY <3>1, <3>2, <3>3
  <2> QED
    BY <2>4, <2>5
<1> QED
  BY <1>3, <1>4

-----------------------------------------------------------------------------
(* The invariant. *)
(* At the end the reader stops, with what ParsedAsWritten promises. *)
LEMMA EofStep ==
  ASSUME NEW p, p = said, ProtocolWritten(p), NEW l, NEW D, D = Doc(p, l), pos \in Nat \ {0},
         Hurt(D), Spot(p, l, D), ScanNext, AtEof
  PROVE  parse' # "reading" /\ ParsedAsWritten'
<1>0. IsSeq(D) /\ Len(D) \in Nat
  BY DocLies, TopInside
<1>1. UNCHANGED <<said, damage, doc>> /\ (EofRefused \/ ProtocolEnds)
  BY StepGoes
<1>2. EofRefused => parse' = "failed" /\ (passing # <<>> \/ where # "protocol")
  BY DEF EofRefused, Fails
<1>3. ProtocolEnds => parse' = "parsed" /\ where = "protocol" /\ UNCHANGED out
  BY DEF ProtocolEnds
<1>4. parse' # "reading"
  BY <1>1, <1>2, <1>3
<1>5. damage # "attr"
  BY <1>0, AttrIsAhead
<1>6. CASE damage = "none"
  <2>1. pos > Len(D)
    BY <1>6 DEF Hurt, AtEof
  <2>2. \A e \in Nat : Progress(D, e) => pos <= e
    <3> SUFFICES ASSUME NEW e \in Nat, Progress(D, e)
                 PROVE  pos <= e
      OBVIOUS
    <3>1. CASE passing = <<>>
      BY <3>1, NothingPassed
    <3>2. CASE passing # <<>>
      <4>1. pos \in Nat
        OBVIOUS
      <4>2. pos < e
        BY <3>2, <4>1, PassingPlace
      <4> QED
        BY <4>1, <4>2
    <3> QED
      BY <3>1, <3>2
  <2>3. AtEnd(p, l, D)
    <3>1. Holds(p, l, D)
      BY SpotHolds
    <3>2. ~\E e \in 1..Len(D) : Progress(D, e)
      <4> SUFFICES ASSUME NEW e \in 1..Len(D), Progress(D, e)
                   PROVE  FALSE
        OBVIOUS
      <4>1. e \in Nat /\ e <= Len(D)
        BY <1>0
      <4>2. pos <= e
        BY <2>2, <4>1
      <4> QED
        BY <1>0, <2>1, <4>1, <4>2
    <3> QED
      BY <3>1, <3>2 DEF Holds
  <2>4. passing = <<>>
    <3> SUFFICES ASSUME passing # <<>>
                 PROVE  FALSE
      OBVIOUS
    <3>1. Progress(D, Len(D) + 1) /\ pos \in Nat
      BY <2>3 DEF AtEnd
    <3>2. pos < Len(D) + 1
      BY <3>1, PassingPlace
    <3> QED
      BY <1>0, <2>1, <3>1, <3>2
  <2>5. where = "protocol" /\ OutIs(p, Len(p.objects), Len(p.enums))
    BY <2>3 DEF AtEnd
  <2>6. parse' = "parsed" /\ UNCHANGED out
    BY <1>1, <1>2, <1>3, <2>4, <2>5
  <2>7. out = Said(p)
    BY <2>5, ReadIsAll
  <2>8. Said(p)' = Said(p) /\ said' = p
    BY <1>1
  <2>9. out' = Said(said')
    BY <2>6, <2>7, <2>8
  <2> HIDE DEF Said
  <2> QED
    BY <1>1, <1>4, <1>6, <2>6, <2>9 DEF ParsedAsWritten
<1>7. CASE damage = "cut"
  <2>1. CASE parse' = "parsed"
    <3>1. where = "protocol" /\ UNCHANGED out
      BY <1>1, <1>2, <1>3, <2>1
    <3>2. IsPrefix(out.objects, Said(p).objects) /\ IsPrefix(out.enums, Said(p).enums)
      BY <3>1, ReadIsPart
    <3>3. IsPrefix(out'.objects, Said(said').objects) /\ IsPrefix(out'.enums, Said(said').enums)
      BY <1>1, <3>1, <3>2
    <3>4. damage' = "cut"
      BY <1>1, <1>7
    <3> QED
      BY ONLY <1>4, <3>3, <3>4 DEF ParsedAsWritten
  <2>2. CASE parse' # "parsed"
    <3>1. damage' = "cut" /\ parse' # "parsed"
      BY <1>1, <1>7, <2>2
    <3> QED
      BY ONLY <1>4, <3>1 DEF ParsedAsWritten
  <2> QED
    BY <1>4, <2>1, <2>2
<1>8. damage \in {"none", "cut", "attr"}
  BY DEF Hurt
<1> QED
  BY <1>4, <1>5, <1>6, <1>7, <1>8

(* Every step of the reader keeps it. *)
LEMMA ReadInvScans ==
  ASSUME ReadInv, ScanNext, ProtocolWritten(said)
  PROVE  ReadInv'
<1>1. parse = "reading" /\ UNCHANGED <<said, form, damage, doc>>
  BY StepGoes
<1>9. said' \in Protocols
  BY <1>1 DEF ReadInv
<1> SUFFICES ASSUME form = "plain"
             PROVE  ReadInv'
  BY <1>1, <1>9 DEF ReadInv
<1>2. Reading /\ said \in Protocols
  BY <1>1 DEF ReadInv
<1>3. PICK p : p = said
  OBVIOUS
<1>4. PICK l \in Layouts : Hurt(Doc(p, l)) /\ Spot(p, l, Doc(p, l))
  BY <1>2, <1>3 DEF Reading
<1> DEFINE D == Doc(p, l)
<1>5. PICK d : d = D
  OBVIOUS
<1>6. ProtocolWritten(p) /\ d = Doc(p, l) /\ pos \in Nat \ {0} /\ Hurt(d) /\ Spot(p, l, d)
  BY <1>2, <1>3, <1>4, <1>5 DEF Reading
<1>7. CASE AtEof
  <2>1. parse' # "reading" /\ ParsedAsWritten'
    BY <1>3, <1>6, <1>7, EofStep
  <2> QED
    BY <1>1, <1>2, <2>1 DEF ReadInv
<1>8. CASE ~AtEof
  <2>1. \/ parse' = "failed" /\ damage = "attr"
        \/ parse' = "reading" /\ pos' \in Nat \ {0} /\ Hurt(d)' /\ Spot(p, l, d)'
    BY <1>6, <1>8, ReadingStep
  <2>2. CASE parse' = "failed" /\ damage = "attr"
    <3>1. damage' = "attr" /\ parse' = "failed"
      BY <1>1, <2>2
    <3>2. ParsedAsWritten'
      BY <3>1 DEF ParsedAsWritten
    <3> QED
      BY <1>1, <1>2, <3>1, <3>2 DEF ReadInv
  <2>3. CASE parse' = "reading" /\ pos' \in Nat \ {0} /\ Hurt(d)' /\ Spot(p, l, d)'
    <3>1. Doc(said, l)' = d /\ said' = p
      BY <1>1, <1>3, <1>5
    <3>2. Hurt(Doc(said, l))' /\ Spot(said, l, Doc(said, l))'
      BY <2>3, <3>1
    <3>3. Reading'
      BY <2>3, <3>2 DEF Reading
    <3> QED
      BY <1>1, <1>2, <2>3, <3>3 DEF ReadInv
  <2> QED
    BY <2>1, <2>2, <2>3
<1> QED
  BY <1>7, <1>8

(* It holds when the reader starts. *)
LEMMA ReadInvStarts ==
  ASSUME ScanInit, ProtocolWritten(said)
  PROVE  ReadInv
<1> SUFFICES ASSUME form = "plain"
             PROVE  ReadInv
  BY DEF ReadInv, ScanInit
<1>1. PICK l \in Layouts :
        \/ damage = "none" /\ doc = Doc(said, l)
        \/ \E hurt \in Damaged(Doc(said, l)) : damage = hurt.kind /\ doc = hurt.doc
  BY DEF ScanInit, Written
<1> DEFINE D == Doc(said, l)
<1>2. IsSeq(D) /\ Len(D) \in Nat /\ DOMAIN D = 1..Len(D)
  BY DocLies, Places
<1>3. /\ pos = 1 /\ where = "protocol" /\ passing = <<>> /\ parse = "reading"
      /\ out = [name |-> <<>>, version |-> 0, objects |-> <<>>, enums |-> <<>>]
      /\ said \in Protocols
  BY DEF ScanInit
<1> HIDE DEF D
<1>4. Spot(said, l, D)
  BY <1>3 DEF Spot, AtStart, Progress
<1>5. Hurt(D)
  <2>1. CASE damage = "none" /\ doc = D
    BY <2>1 DEF Hurt
  <2>2. ASSUME NEW n \in 0..(Len(D) - 1), NEW hurt, hurt = [kind |-> "cut", doc |-> SubSeq(D, 1, n)],
               damage = hurt.kind, doc = hurt.doc
        PROVE  Hurt(D)
    BY <2>2 DEF Hurt
  <2>3. ASSUME NEW i \in DOMAIN D, NEW attr \in DOMAIN D[i].attrs \ Optional,
               NEW hurt, hurt = [kind |-> "attr", doc |-> [D EXCEPT ![i] = Without(@, attr)]],
               damage = hurt.kind, doc = hurt.doc
        PROVE  Hurt(D)
    <3>1. pos <= i
      BY <1>2, <1>3
    <3>2. damage = "attr" /\ doc = [D EXCEPT ![i] = Without(@, attr)]
      BY <2>3
    <3> QED
      BY <3>1, <3>2 DEF Hurt
  <2>4. ASSUME NEW hurt \in Damaged(D), damage = hurt.kind, doc = hurt.doc
        PROVE  Hurt(D)
    <3>1. \/ \E n \in 0..(Len(D) - 1) : hurt = [kind |-> "cut", doc |-> SubSeq(D, 1, n)]
          \/ \E i \in DOMAIN D : \E attr \in DOMAIN D[i].attrs \ Optional :
               hurt = [kind |-> "attr", doc |-> [D EXCEPT ![i] = Without(@, attr)]]
      BY DEF Damaged
    <3> QED
      BY <2>2, <2>3, <2>4, <3>1
  <2> QED
    BY <1>1, <2>1, <2>4 DEF D
<1> QED
  BY <1>3, <1>4, <1>5 DEF ReadInv, Reading, D

(* When the reader is done it stays. *)
LEMMA ReadInvStays ==
  ASSUME ReadInv, parse # "reading", UNCHANGED <<said, form, damage, out, parse>>
  PROVE  ReadInv'
BY DEF ReadInv, ParsedAsWritten

(* Whatever leaves the reader alone keeps it. *)
LEMMA ReadInvKept ==
  ASSUME ReadInv, UNCHANGED scanVars
  PROVE  ReadInv'
<1> SUFFICES ASSUME form = "plain"
             PROVE  ReadInv'
  BY DEF ReadInv, scanVars
<1>1. CASE parse # "reading"
  BY <1>1, ReadInvStays DEF scanVars
<1>2. CASE parse = "reading"
  <2>1. PICK p : p = said
    OBVIOUS
  <2>2. PICK l \in Layouts : Hurt(Doc(p, l)) /\ Spot(p, l, Doc(p, l))
    BY <1>2, <2>1 DEF ReadInv, Reading
  <2>3. PICK D : D = Doc(p, l)
    OBVIOUS
  <2>4. Hurt(D)'
    BY <2>2, <2>3 DEF Hurt, scanVars
  <2>5. \A e : Progress(D, e) => Progress(D, e)'
    BY DEF Progress, PassesRemark, PassesAside, PassesArg, Passes, scanVars
  <2>6. Spot(p, l, D)'
    BY <2>2, <2>3, <2>5, SpotKept DEF scanVars
  <2>7. Doc(said, l)' = D /\ said' = p /\ said' \in Protocols
    BY <1>2, <2>1, <2>3 DEF ReadInv, scanVars
  <2>8. Hurt(Doc(said, l))' /\ Spot(said, l, Doc(said, l))'
    BY <2>4, <2>6, <2>7
  <2>9. parse' = "reading" /\ pos' \in Nat \ {0}
    BY <1>2 DEF ReadInv, Reading, scanVars
  <2> QED
    BY <2>7, <2>8, <2>9 DEF ReadInv, Reading
<1> QED
  BY <1>1, <1>2

(* What is said can be written. *)
LEMMA SaidIsWritten ==
  ASSUME ReadInv \/ ScanInit
  PROVE  ProtocolWritten(said)
BY ProtocolsAssumption DEF ReadInv, ScanInit

(* It is about what ParsedAsWritten is about. *)
LEMMA ReadInvSays ==
  ASSUME ReadInv
  PROVE  ParsedAsWritten
BY DEF ReadInv, ParsedAsWritten

-----------------------------------------------------------------------------
(* The parser by itself: parse_protocol returns the protocol that a        *)
(* complete document says that is written plainly - methods, objects and   *)
(* enums with tags, values and returns as empty elements, arguments and    *)
(* remarks in any of the layouts -, refuses one that lacks an attribute it *)
(* needs, and of one that is cut off it returns no object and no enum that *)
(* is not there in full.                                                   *)
THEOREM ParserReadsWhatIsSaid ==
  ScanInit /\ [][ScanNext]_scanVars => []ParsedAsWritten
<1>1. ScanInit => ReadInv
  BY SaidIsWritten, ReadInvStarts
<1>2. ReadInv /\ [ScanNext]_scanVars => ReadInv'
  BY SaidIsWritten, ReadInvScans, ReadInvKept
<1>3. ReadInv => ParsedAsWritten
  BY ReadInvSays
<1> QED
  BY <1>1, <1>2, <1>3, PTL

=============================================================================

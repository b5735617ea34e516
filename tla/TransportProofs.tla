--------------------------- MODULE TransportProofs ---------------------------
(***************************************************************************)
(* Proofs about Transport: its type invariant, and that messages reach the *)
(* other end whole, once and in their order, for every size of the read    *)
(* buffer and of the kernel's, and every division of the messages.         *)
(*                                                                         *)
(* The invariant follows the parts on their way to an end that still reads *)
(* them, those it has read (batch) before those the kernel holds (wire):   *)
(* the first begins the message after the last one handled, each is        *)
(* followed by the part its sender put next, and the last by the one it is *)
(* about to put.  A part is therefore never lost, repeated or overtaken,   *)
(* and what the batch begins with always parses.                           *)
(***************************************************************************)
EXTENDS Transport, LeastNumber, SequenceTheorems

\* The parts on their way to e: read and not handled, then in the kernel.
Count(e) == Len(batch[e]) + Len(wire[Other(e)])
At(e, k) == IF k <= Len(batch[e]) THEN batch[e][k]
                                  ELSE wire[Other(e)][k - Len(batch[e])]

\* The part after part p of what s sent, and the one s puts next.
Follows(s, p) == IF p[2] < sent[s][p[1]] THEN <<p[1], p[2] + 1>>
                                         ELSE <<p[1] + 1, 1>>
AllPut(s) == sent[s] = <<>> \/ put[s] = Length(s)
Coming(s) == IF AllPut(s) THEN <<Len(sent[s]) + 1, 1>>
                          ELSE <<Len(sent[s]), put[s] + 1>>

\* What stands at place k: past the last there is what is put next.
Part(e, k) == IF k <= Count(e) THEN At(e, k) ELSE Coming(Other(e))

\* Every part is one of a message that was sent.
PartOf(s, p) == p[1] \in 1..Len(sent[s]) /\ p[2] \in 1..sent[s][p[1]]
Known(e) ==
  /\ \A i \in 1..Len(batch[e]) : PartOf(Other(e), batch[e][i])
  /\ \A i \in 1..Len(wire[e]) : PartOf(e, wire[e][i])

Contiguous(e) ==
  /\ Part(e, 1) = <<Len(delivered[e]) + 1, 1>>
  /\ \A k \in 1..Count(e) : Part(e, k + 1) = Follows(Other(e), At(e, k))

\* e has not failed, and handles what it reads.
Listens(e) == life[e] = "open" /\ pc[e] # "fatal"

Prefix(e) ==
  /\ Len(delivered[e]) <= Len(sent[Other(e)])
  /\ \A i \in 1..Len(delivered[e]) : delivered[e][i] = i

\* Between two sends, the last message has been put whole.
Whole(s) == life[s] = "open" /\ ~sending[s] => AllPut(s)

InStep(e) ==
  ~cut[Other(e)] =>
    Prefix(e) /\ (Listens(e) => Contiguous(e) /\ Whole(Other(e)))

SendOK(s) ==
  /\ sent[s] # <<>> => put[s] <= Length(s)
  /\ sending[s] => sent[s] # <<>> /\ put[s] < Length(s)

IInv == TypeOK /\ \A e \in Ends : SendOK(e) /\ Known(e) /\ InStep(e)

-----------------------------------------------------------------------------
(* Each end has one other, whose other it is. *)
LEMMA Ends2 ==
  ASSUME NEW e \in Ends
  PROVE  /\ Other(e) \in Ends /\ Other(Other(e)) = e /\ Other(e) # e
         /\ \A x \in Ends : x = e \/ x = Other(e)
BY DEF Ends, Other

(* Sequences cut in two at n: what either piece holds, at which place. *)
LEMMA CutAt ==
  ASSUME NEW S, NEW q \in Seq(S), NEW n \in 0..Len(q)
  PROVE  /\ SubSeq(q, 1, n) \in Seq(S) /\ Len(SubSeq(q, 1, n)) = n
         /\ \A i \in 1..n : SubSeq(q, 1, n)[i] = q[i]
         /\ SubSeq(q, n + 1, Len(q)) \in Seq(S)
         /\ Len(SubSeq(q, n + 1, Len(q))) = Len(q) - n
         /\ \A i \in 1..(Len(q) - n) : SubSeq(q, n + 1, Len(q))[i] = q[n + i]
<1>1. Len(q) \in Nat /\ \A i \in 1..Len(q) : q[i] \in S
  OBVIOUS
<1>2. SubSeq(q, 1, n) \in Seq(S) /\ Len(SubSeq(q, 1, n)) = n
  BY <1>1
<1>3. \A i \in 1..n : SubSeq(q, 1, n)[i] = q[i]
  BY <1>1, <1>2
<1>4. SubSeq(q, n + 1, Len(q)) \in Seq(S)
  BY <1>1
<1>5. Len(SubSeq(q, n + 1, Len(q))) = Len(q) - n
  BY <1>1
<1>6. \A i \in 1..(Len(q) - n) : SubSeq(q, n + 1, Len(q))[i] = q[n + i]
  BY <1>1, <1>5
<1> QED
  BY <1>2, <1>3, <1>4, <1>5, <1>6

(* One sequence after another: what stands at which place. *)
LEMMA CatAt ==
  ASSUME NEW S, NEW q \in Seq(S), NEW r \in Seq(S)
  PROVE  /\ q \o r \in Seq(S) /\ Len(q \o r) = Len(q) + Len(r)
         /\ \A i \in 1..Len(q) : (q \o r)[i] = q[i]
         /\ \A i \in 1..Len(r) : (q \o r)[Len(q) + i] = r[i]
OBVIOUS

(* So it is of a sequence that is the two joined. *)
LEMMA CatAs ==
  ASSUME NEW S, NEW q \in Seq(S), NEW r \in Seq(S), NEW t, t = q \o r
  PROVE  /\ t \in Seq(S) /\ Len(t) = Len(q) + Len(r)
         /\ \A i \in 1..Len(q) : t[i] = q[i]
         /\ \A i \in 1..Len(r) : t[Len(q) + i] = r[i]
BY CatAt

(* The last message and its length, when there is one. *)
LEMMA LastSent ==
  ASSUME TypeOK, NEW e \in Ends, sent[e] # <<>>
  PROVE  /\ Len(sent[e]) \in Nat \ {0} /\ Len(sent[e]) \in 1..Len(sent[e])
         /\ Length(e) \in Nat \ {0}
BY DEF TypeOK, Length

(* send_message begins: what it leaves of the type and of its own state. *)
LEMMA Begun ==
  ASSUME TypeOK, NEW e \in Ends, NEW n \in Nat \ {0}, Begin(e, n)
  PROVE  /\ sent' \in [Ends -> Seq(Nat \ {0})] /\ put' \in [Ends -> Nat]
         /\ sending' \in [Ends -> BOOLEAN]
         /\ Len(sent'[e]) = Len(sent[e]) + 1
         /\ \A m \in 1..Len(sent[e]) : sent'[e][m] = sent[e][m]
         /\ sent'[e] # <<>> /\ Length(e)' = n
         /\ put'[e] = 0 /\ sending'[e] = TRUE
         /\ \A y \in Ends \ {e} : /\ sent'[y] = sent[y] /\ put'[y] = put[y]
                                  /\ sending'[y] = sending[y]
<1>1. sent[e] \in Seq(Nat \ {0}) /\ Len(sent[e]) \in Nat
  BY DEF TypeOK
<1>2. sent'[e] = Append(sent[e], n)
  BY DEF TypeOK, Begin
<1>3. /\ Len(sent'[e]) = Len(sent[e]) + 1
      /\ sent'[e][Len(sent[e]) + 1] = n
      /\ \A m \in 1..Len(sent[e]) : sent'[e][m] = sent[e][m]
  BY <1>1, <1>2
<1>4. sent'[e] # <<>>
  BY <1>1, <1>3
<1>5. Length(e)' = n
  BY <1>3 DEF Length
<1>6. sent' \in [Ends -> Seq(Nat \ {0})]
  BY <1>1 DEF TypeOK, Begin
<1> QED
  BY <1>3, <1>4, <1>5, <1>6 DEF TypeOK, Begin

(* The size of the piece the kernel takes. *)
LEMMA PieceSize ==
  ASSUME TypeOK, NEW e \in Ends, SendOK(e), sending[e]
  PROVE  /\ sent[e] # <<>> /\ Length(e) \in Nat \ {0} /\ put[e] \in Nat
         /\ put[e] < Length(e)
         /\ Least(Segment, Length(e) - put[e]) \in 1..(Length(e) - put[e])
BY LastSent, TransportAssumption DEF SendOK, Least, TypeOK

(* What taking a piece of n units does. *)
LEMMA PieceTaken ==
  ASSUME TypeOK, NEW e \in Ends, SendOK(e), TakePiece(e),
         NEW n, n = Least(Segment, Length(e) - put[e])
  PROVE  /\ n \in 1..(Length(e) - put[e])
         /\ wire'[e] \in Seq(Nat \X Nat) /\ Len(wire'[e]) = Len(wire[e]) + n
         /\ \A k \in 1..Len(wire[e]) : wire'[e][k] = wire[e][k]
         /\ \A i \in 1..n : wire'[e][Len(wire[e]) + i]
                              = <<Len(sent[e]), put[e] + i>>
         /\ put'[e] = put[e] + n
         /\ sending'[e] \in BOOLEAN
         /\ sending'[e] <=> put[e] + n < Length(e)
<1>1. n \in 1..(Length(e) - put[e]) /\ put[e] \in Nat /\ Length(e) \in Nat
  BY PieceSize DEF TakePiece
<1>2. PICK p : p = [i \in 1..n |-> <<Len(sent[e]), put[e] + i>>]
  OBVIOUS
<1>3. Len(sent[e]) \in Nat /\ n \in Nat
  BY <1>1 DEF TypeOK
<1>4. p \in Seq(Nat \X Nat) /\ Len(p) = n
  <2>1. \A i \in 1..n : <<Len(sent[e]), put[e] + i>> \in Nat \X Nat
    BY <1>1, <1>3
  <2>2. p \in [1..n -> Nat \X Nat]
    BY <1>2, <2>1
  <2> QED
    BY <1>3, <2>2
<1>5. wire[e] \in Seq(Nat \X Nat) /\ wire'[e] = wire[e] \o p
  BY <1>2 DEF TakePiece, TypeOK
<1>6. /\ wire'[e] \in Seq(Nat \X Nat) /\ Len(wire'[e]) = Len(wire[e]) + n
      /\ \A k \in 1..Len(wire[e]) : wire'[e][k] = wire[e][k]
      /\ \A i \in 1..n : wire'[e][Len(wire[e]) + i] = p[i]
  <2> PICK S : S = Nat \X Nat
    OBVIOUS
  <2>1. p \in Seq(S) /\ wire[e] \in Seq(S)
    BY <1>4, <1>5
  <2>2. /\ wire[e] \o p \in Seq(S) /\ Len(wire[e] \o p) = Len(wire[e]) + Len(p)
        /\ \A i \in 1..Len(wire[e]) : (wire[e] \o p)[i] = wire[e][i]
        /\ \A i \in 1..Len(p) : (wire[e] \o p)[Len(wire[e]) + i] = p[i]
    BY <2>1, CatAt
  <2> QED
    BY <1>4, <1>5, <2>2
<1>7. put'[e] = put[e] + n /\ sending'[e] = (put[e] + n < Length(e))
  BY DEF TakePiece, TypeOK
<1>8. sending'[e] \in BOOLEAN /\ (sending'[e] <=> put[e] + n < Length(e))
  <2>1. (put[e] + n < Length(e)) \in BOOLEAN
    OBVIOUS
  <2> QED
    BY <1>7, <2>1, Zenon
<1> QED
  BY <1>1, <1>2, <1>6, <1>7, <1>8

(* What recvmsg moves: the first units of the wire behind the batch. *)
LEMMA Received ==
  ASSUME TypeOK, NEW e \in Ends, Recv(e)
  PROVE  \E n \in 1..Len(wire[Other(e)]) :
           /\ batch'[e] \in Seq(Nat \X Nat) /\ wire'[Other(e)] \in Seq(Nat \X Nat)
           /\ Len(batch'[e]) = Len(batch[e]) + n
           /\ Len(wire'[Other(e)]) = Len(wire[Other(e)]) - n
           /\ \A i \in 1..Len(batch[e]) : batch'[e][i] = batch[e][i]
           /\ \A i \in 1..n : batch'[e][Len(batch[e]) + i] = wire[Other(e)][i]
           /\ \A i \in 1..(Len(wire[Other(e)]) - n) :
                wire'[Other(e)][i] = wire[Other(e)][n + i]
<1>a. PICK S : S = Nat \X Nat
  OBVIOUS
<1>b. PICK w : w = wire[Other(e)]
  OBVIOUS
<1>c. PICK n : n = Least(Buffer, Len(w))
  OBVIOUS
<1>1. w \in Seq(S) /\ batch[e] \in Seq(S) /\ w # <<>>
  BY <1>a, <1>b, Ends2 DEF TypeOK, Recv
<1>2. Len(w) \in Nat \ {0} /\ Len(batch[e]) \in Nat
  BY <1>1
<1>3. n \in 1..Len(w)
  BY <1>c, <1>2, TransportAssumption DEF Least
<1>4. /\ batch'[e] = batch[e] \o SubSeq(w, 1, n)
      /\ wire'[Other(e)] = SubSeq(w, n + 1, Len(w))
  BY <1>b, <1>c, Ends2 DEF TypeOK, Recv
<1>5. /\ SubSeq(w, 1, n) \in Seq(S) /\ Len(SubSeq(w, 1, n)) = n
      /\ \A i \in 1..n : SubSeq(w, 1, n)[i] = w[i]
      /\ SubSeq(w, n + 1, Len(w)) \in Seq(S)
      /\ Len(SubSeq(w, n + 1, Len(w))) = Len(w) - n
      /\ \A i \in 1..(Len(w) - n) : SubSeq(w, n + 1, Len(w))[i] = w[n + i]
  <2>1. n \in 0..Len(w)
    BY <1>2, <1>3
  <2> QED
    BY <1>1, <2>1, CutAt
<1>6. PICK r : r = SubSeq(w, 1, n)
  OBVIOUS
<1>7. /\ batch'[e] \in Seq(S) /\ Len(batch'[e]) = Len(batch[e]) + Len(r)
      /\ \A i \in 1..Len(batch[e]) : batch'[e][i] = batch[e][i]
      /\ \A i \in 1..Len(r) : batch'[e][Len(batch[e]) + i] = r[i]
  <2>1. r \in Seq(S) /\ batch'[e] = batch[e] \o r
    BY <1>4, <1>5, <1>6
  <2> QED
    BY <1>1, <2>1, CatAs
<1> QED
  <2>1. /\ batch'[e] \in Seq(S) /\ Len(batch'[e]) = Len(batch[e]) + n
        /\ \A i \in 1..Len(batch[e]) : batch'[e][i] = batch[e][i]
        /\ \A i \in 1..n : batch'[e][Len(batch[e]) + i] = w[i]
    BY <1>5, <1>6, <1>7
  <2>2. /\ wire'[Other(e)] \in Seq(S) /\ Len(wire'[Other(e)]) = Len(w) - n
        /\ \A i \in 1..(Len(w) - n) : wire'[Other(e)][i] = w[n + i]
    BY <1>4, <1>5
  <2> QED
    BY <1>3, <1>a, <1>b, <2>1, <2>2

(* The message a batch begins with, when it is all there. *)
LEMMA WholeMessage ==
  ASSUME TypeOK, NEW e \in Ends, Known(e), WholeNext(e)
  PROVE  \E m \in 1..Len(sent[Other(e)]) : \E n \in 1..Len(batch[e]) :
           /\ m = Head(batch[e])[1] /\ m = batch[e][1][1] /\ n = sent[Other(e)][m]
           /\ \A i \in 1..n : batch[e][i] = <<m, i>>
<1>a. PICK x \in Ends : x = Other(e)
  BY Ends2
<1>b. PICK m : m = Head(batch[e])[1]
  OBVIOUS
<1>c. PICK n : n = sent[x][m]
  OBVIOUS
<1>1. batch[e] \in Seq(Nat \X Nat) /\ batch[e] # <<>> /\ sent[x] \in Seq(Nat \ {0})
  BY DEF WholeNext, TypeOK
<1>2. Len(batch[e]) \in Nat \ {0} /\ Head(batch[e]) = batch[e][1]
  BY <1>1
<1>3. m \in 1..Len(sent[x])
  BY <1>a, <1>b, <1>2 DEF Known, PartOf
<1>4. n \in Nat \ {0}
  BY <1>c, <1>1, <1>3
<1>5. n <= Len(batch[e]) /\ SubSeq(batch[e], 1, n) = Parts(x, m)
  BY <1>a, <1>b, <1>c DEF WholeNext
<1>6. \A i \in 1..n : SubSeq(batch[e], 1, n)[i] = batch[e][i]
  <2>1. PICK S : S = Nat \X Nat
    OBVIOUS
  <2>2. n \in 0..Len(batch[e]) /\ batch[e] \in Seq(S)
    BY <1>1, <1>2, <1>4, <1>5, <2>1
  <2> QED
    BY <2>2, CutAt
<1>7. \A i \in 1..n : Parts(x, m)[i] = <<m, i>>
  BY <1>c DEF Parts
<1>8. \A i \in 1..n : batch[e][i] = <<m, i>>
  BY <1>5, <1>6, <1>7
<1> QED
  <2>1. n \in 1..Len(batch[e])
    BY <1>2, <1>4, <1>5
  <2> QED
    BY <1>a, <1>b, <1>c, <1>2, <1>3, <1>8, <2>1

(* What handling it takes off the batch. *)
LEMMA Handled ==
  ASSUME TypeOK, NEW e \in Ends, Known(e), Handle(e)
  PROVE  \E m \in 1..Len(sent[Other(e)]) : \E n \in 1..Len(batch[e]) :
           /\ m = batch[e][1][1] /\ n = sent[Other(e)][m]
           /\ \A i \in 1..n : batch[e][i] = <<m, i>>
           /\ delivered'[e] = Append(delivered[e], m)
           /\ batch'[e] \in Seq(Nat \X Nat)
           /\ Len(batch'[e]) = Len(batch[e]) - n
           /\ \A i \in 1..(Len(batch[e]) - n) : batch'[e][i] = batch[e][n + i]
<1>1. PICK m \in 1..Len(sent[Other(e)]), n \in 1..Len(batch[e]) :
        /\ m = Head(batch[e])[1] /\ m = batch[e][1][1] /\ n = sent[Other(e)][m]
        /\ \A i \in 1..n : batch[e][i] = <<m, i>>
  BY WholeMessage DEF Handle
<1>a. PICK S : S = Nat \X Nat
  OBVIOUS
<1>2. batch[e] \in Seq(S) /\ Len(batch[e]) \in Nat /\ n \in 0..Len(batch[e])
  BY <1>a DEF TypeOK
<1>3. /\ batch'[e] = SubSeq(batch[e], n + 1, Len(batch[e]))
      /\ delivered'[e] = Append(delivered[e], m)
  BY <1>1 DEF Handle, TypeOK
<1>4. /\ SubSeq(batch[e], n + 1, Len(batch[e])) \in Seq(S)
      /\ Len(SubSeq(batch[e], n + 1, Len(batch[e]))) = Len(batch[e]) - n
      /\ \A i \in 1..(Len(batch[e]) - n) :
           SubSeq(batch[e], n + 1, Len(batch[e]))[i] = batch[e][n + i]
  BY <1>2, CutAt
<1> QED
  BY <1>1, <1>3, <1>4, <1>a

(* The other end is left alone when one begins to send. *)
LEMMA BegunOther ==
  ASSUME TypeOK, NEW e \in Ends, NEW x \in Ends, x # e,
         NEW n \in Nat \ {0}, Begin(e, n)
  PROVE  sent'[x] = sent[x] /\ put'[x] = put[x] /\ sending'[x] = sending[x]
BY DEF Begin, TypeOK

(* The lengths of the sequences of an end are numbers. *)
LEMMA LengthsTyped ==
  ASSUME TypeOK, NEW e \in Ends
  PROVE  /\ Len(sent[e]) \in Nat /\ Len(wire[e]) \in Nat
         /\ Len(batch[e]) \in Nat /\ Len(delivered[e]) \in Nat
<1>1. sent[e] \in Seq(Nat \ {0}) /\ delivered[e] \in Seq(Nat)
  BY DEF TypeOK
<1>2. wire[e] \in Seq(Nat \X Nat) /\ batch[e] \in Seq(Nat \X Nat)
  BY DEF TypeOK
<1> QED
  BY <1>1, <1>2

(* What an error does to the end that meets it. *)
LEMMA Failed ==
  ASSUME TypeOK, NEW e \in Ends, Fail(e)
  PROVE  /\ life' \in [Ends -> {"open", "error", "end", "exited"}]
         /\ pc' \in [Ends -> {"idle", "recv", "batch", "handler", "fatal"}]
         /\ sent' \in [Ends -> Seq(Nat \ {0})] /\ put' \in [Ends -> Nat]
         /\ sending' \in [Ends -> BOOLEAN] /\ cut' = cut
         /\ batch' = [batch EXCEPT ![e] = <<>>] /\ batch' \in [Ends -> Seq(Nat \X Nat)]
         /\ ~Listens(e)'
         /\ \/ sent' = sent /\ put' = put /\ sending' = sending
            \/ Begin(e, 1) /\ life' = life
         /\ \A y \in Ends \ {e} : life'[y] = life[y] /\ pc'[y] = pc[y]
<1>1. batch' = [batch EXCEPT ![e] = <<>>] /\ batch' \in [Ends -> Seq(Nat \X Nat)]
  BY DEF Fail, TypeOK
<1>2. CASE e = "client"
  <2>1. /\ life' = [life EXCEPT ![e] = "error"] /\ pc' = [pc EXCEPT ![e] = "idle"]
        /\ sent' = sent /\ put' = put /\ sending' = sending /\ cut' = cut
    BY <1>2 DEF Fail, outs
  <2>2. ~Listens(e)'
    BY <2>1 DEF TypeOK, Listens
  <2>3. /\ life' \in [Ends -> {"open", "error", "end", "exited"}]
        /\ pc' \in [Ends -> {"idle", "recv", "batch", "handler", "fatal"}]
        /\ \A y \in Ends \ {e} : life'[y] = life[y] /\ pc'[y] = pc[y]
    BY <2>1 DEF TypeOK
  <2> QED
    BY <1>1, <2>1, <2>2, <2>3 DEF TypeOK
<1>3. CASE e # "client"
  <2>1. /\ Begin(e, 1) /\ life' = life /\ cut' = cut
        /\ pc' = [pc EXCEPT ![e] = "fatal"]
    BY <1>3 DEF Fail
  <2>2. pc' \in [Ends -> {"idle", "recv", "batch", "handler", "fatal"}] /\ pc'[e] = "fatal"
    BY <2>1 DEF TypeOK
  <2>3. sent' \in [Ends -> Seq(Nat \ {0})] /\ put' \in [Ends -> Nat] /\ sending' \in [Ends -> BOOLEAN]
    <3>1. 1 \in Nat \ {0}
      OBVIOUS
    <3> QED
      BY <2>1, <3>1, Begun
  <2>4. ~Listens(e)' /\ \A y \in Ends \ {e} : life'[y] = life[y] /\ pc'[y] = pc[y]
    BY <2>1 DEF TypeOK, Listens
  <2> QED
    BY <1>1, <2>1, <2>2, <2>3, <2>4 DEF TypeOK
<1> QED
  BY <1>2, <1>3

-----------------------------------------------------------------------------
(* The parts that are known stay known when nothing new is put: the        *)
(* batches can only be dropped and the messages only be added to.          *)
LEMMA KnownStays ==
  ASSUME TypeOK, NEW y \in Ends, Known(y),
         \A s \in Ends : /\ Len(sent[s]) <= Len(sent'[s])
                         /\ Len(sent'[s]) \in Nat
                         /\ \A m \in 1..Len(sent[s]) : sent'[s][m] = sent[s][m],
         batch'[y] = batch[y] \/ batch'[y] = <<>>, wire'[y] = wire[y]
  PROVE  Known(y)'
<1>1. Len(sent[y]) \in Nat /\ Len(sent[Other(y)]) \in Nat
  BY Ends2 DEF TypeOK
<1>2. \A i \in 1..Len(batch'[y]) : PartOf(Other(y), batch[y][i])'
  <2>1. CASE batch'[y] = batch[y]
    <3> SUFFICES ASSUME NEW i \in 1..Len(batch[y])
                 PROVE  PartOf(Other(y), batch[y][i])'
      BY <2>1
    <3>1. PICK p : p = batch[y][i]
      OBVIOUS
    <3>2. p[1] \in 1..Len(sent[Other(y)]) /\ p[2] \in 1..sent[Other(y)][p[1]]
      BY <3>1 DEF Known, PartOf
    <3>3. p[1] \in 1..Len(sent'[Other(y)]) /\ p[2] \in 1..sent'[Other(y)][p[1]]
      BY <1>1, <3>2, Ends2
    <3> QED
      BY <2>1, <3>1, <3>3 DEF PartOf
  <2>2. CASE batch'[y] = <<>>
    BY <2>2
  <2> QED
    BY <2>1, <2>2
<1>3. \A i \in 1..Len(wire'[y]) : PartOf(y, wire[y][i])'
  <2> SUFFICES ASSUME NEW i \in 1..Len(wire[y])
               PROVE  PartOf(y, wire[y][i])'
    OBVIOUS
  <2>1. PICK p : p = wire[y][i]
    OBVIOUS
  <2>2. p[1] \in 1..Len(sent[y]) /\ p[2] \in 1..sent[y][p[1]]
    BY <2>1 DEF Known, PartOf
  <2>3. p[1] \in 1..Len(sent'[y]) /\ p[2] \in 1..sent'[y][p[1]]
    BY <1>1, <2>2
  <2> QED
    BY <2>1, <2>3 DEF PartOf
<1> QED
  BY <1>2, <1>3 DEF Known

(* send_message keeps its own state in order when it begins. *)
LEMMA BegunOK ==
  ASSUME TypeOK, \A y \in Ends : SendOK(y), NEW e \in Ends,
         NEW n \in Nat \ {0}, Begin(e, n)
  PROVE  /\ \A y \in Ends : SendOK(y)'
         /\ \A s \in Ends : /\ Len(sent[s]) <= Len(sent'[s])
                            /\ Len(sent'[s]) \in Nat
                            /\ \A m \in 1..Len(sent[s]) : sent'[s][m] = sent[s][m]
<1>1. SendOK(e)'
  <2>1. put'[e] = 0 /\ Length(e)' = n /\ sent'[e] # <<>>
    BY Begun
  <2> QED
    BY <2>1 DEF SendOK
<1>2. ASSUME NEW y \in Ends \ {e}
      PROVE  SendOK(y)'
  <2>1. sent'[y] = sent[y] /\ put'[y] = put[y] /\ sending'[y] = sending[y]
    BY <1>2, Begun
  <2> QED
    BY <1>2, <2>1 DEF SendOK, Length
<1>3. ASSUME NEW s \in Ends
      PROVE  /\ Len(sent[s]) <= Len(sent'[s])
             /\ Len(sent'[s]) \in Nat
             /\ \A m \in 1..Len(sent[s]) : sent'[s][m] = sent[s][m]
  <2>1. Len(sent[s]) \in Nat
    BY DEF TypeOK
  <2>2. CASE s = e
    <3>1. /\ Len(sent'[e]) = Len(sent[e]) + 1
          /\ \A m \in 1..Len(sent[e]) : sent'[e][m] = sent[e][m]
      BY Begun
    <3> QED
      BY <2>1, <2>2, <3>1
  <2>3. CASE s # e
    <3>1. sent'[s] = sent[s]
      BY <2>3, Begun
    <3> QED
      BY <2>1, <3>1
  <2> QED
    BY <2>2, <2>3
<1> QED
  BY <1>1, <1>2, <1>3

(* What an action leaves in order that neither puts nor takes. *)
LEMMA Untouched ==
  ASSUME TypeOK, \A y \in Ends : SendOK(y) /\ Known(y), wire' = wire,
         sent' = sent, put' = put,
         \A y \in Ends : /\ sending'[y] => sending[y]
                         /\ batch'[y] = batch[y] \/ batch'[y] = <<>>
  PROVE  \A y \in Ends : SendOK(y)' /\ Known(y)'
<1>1. \A y \in Ends : SendOK(y)'
  BY DEF SendOK, Length
<1>2. \A s \in Ends : Len(sent[s]) \in Nat
  BY DEF TypeOK
<1>3. ASSUME NEW y \in Ends
      PROVE  Known(y)'
  BY <1>2, KnownStays
<1> QED
  BY <1>1, <1>3

(* So it is when an end fails. *)
LEMMA FailedOK ==
  ASSUME TypeOK, \A y \in Ends : SendOK(y) /\ Known(y), NEW e \in Ends,
         Fail(e), wire' = wire, delivered' = delivered
  PROVE  TypeOK' /\ \A y \in Ends : SendOK(y)' /\ Known(y)'
<1>1. TypeOK'
  BY Failed DEF TypeOK
<1>2. \A y \in Ends : batch'[y] = batch[y] \/ batch'[y] = <<>>
  BY Failed DEF TypeOK
<1>3. CASE sent' = sent /\ put' = put /\ sending' = sending
  <2>1. \A y \in Ends : /\ sending'[y] => sending[y]
                        /\ batch'[y] = batch[y] \/ batch'[y] = <<>>
    BY <1>2, <1>3
  <2>2. \A y \in Ends : SendOK(y)' /\ Known(y)'
    BY <1>3, <2>1, Untouched
  <2> QED
    BY <1>1, <2>2
<1>4. CASE Begin(e, 1)
  <2>1. 1 \in Nat \ {0}
    OBVIOUS
  <2>2. /\ \A y \in Ends : SendOK(y)'
        /\ \A s \in Ends : /\ Len(sent[s]) <= Len(sent'[s])
                           /\ Len(sent'[s]) \in Nat
                           /\ \A m \in 1..Len(sent[s]) : sent'[s][m] = sent[s][m]
    BY <1>4, <2>1, BegunOK
  <2>3. ASSUME NEW y \in Ends
        PROVE  Known(y)'
    BY <1>2, <2>2, KnownStays
  <2> QED
    BY <1>1, <2>2, <2>3
<1> QED
  BY <1>1, <1>3, <1>4, Failed

-----------------------------------------------------------------------------
(* The types, the state of send_message and the known parts, kept by every *)
(* action of an end; first by the sends.                                   *)
LEMMA SendsKeep ==
  ASSUME TypeOK, \A y \in Ends : SendOK(y) /\ Known(y), NEW e \in Ends,
         Send(e) \/ SendGoesOn(e)
  PROVE  TypeOK' /\ \A y \in Ends : SendOK(y)' /\ Known(y)'
<1>1. CASE Send(e)
  <2>1. PICK n \in Nat \ {0} : Begin(e, n)
    BY <1>1, TransportAssumption DEF Send
  <2>2. /\ life' = life /\ pc' = pc /\ wire' = wire /\ batch' = batch
        /\ delivered' = delivered /\ cut' = cut
    BY <1>1 DEF Send
  <2>3. TypeOK'
    BY <2>1, <2>2, Begun DEF TypeOK
  <2>4. /\ \A y \in Ends : SendOK(y)'
        /\ \A s \in Ends : /\ Len(sent[s]) <= Len(sent'[s])
                           /\ Len(sent'[s]) \in Nat
                           /\ \A m \in 1..Len(sent[s]) : sent'[s][m] = sent[s][m]
    BY <2>1, BegunOK
  <2>5. ASSUME NEW y \in Ends
        PROVE  Known(y)'
    BY <2>2, <2>4, KnownStays
  <2> QED
    BY <2>3, <2>4, <2>5
<1>2. CASE TakePiece(e)
  <2>1. PICK n : n = Least(Segment, Length(e) - put[e])
    OBVIOUS
  <2>2. /\ n \in 1..(Length(e) - put[e])
        /\ wire'[e] \in Seq(Nat \X Nat) /\ Len(wire'[e]) = Len(wire[e]) + n
        /\ \A k \in 1..Len(wire[e]) : wire'[e][k] = wire[e][k]
        /\ \A i \in 1..n : wire'[e][Len(wire[e]) + i]
                             = <<Len(sent[e]), put[e] + i>>
        /\ put'[e] = put[e] + n
    BY <1>2, <2>1, PieceTaken
  <2>b. sending'[e] \in BOOLEAN /\ (sending'[e] => put[e] + n < Length(e))
    <3>1. sending'[e] \in BOOLEAN /\ (sending'[e] <=> put[e] + n < Length(e))
      BY <1>2, <2>1, PieceTaken
    <3> QED
      BY <3>1
  <2>3. /\ sent[e] # <<>> /\ Length(e) \in Nat \ {0} /\ put[e] \in Nat
        /\ Len(sent[e]) \in 1..Len(sent[e]) /\ Len(wire[e]) \in Nat
    BY <1>2, PieceSize, LastSent DEF TakePiece, TypeOK
  <2>4. /\ life' = life /\ pc' = pc /\ batch' = batch /\ sent' = sent
        /\ delivered' = delivered /\ cut' = cut
        /\ \A y \in Ends \ {e} : wire'[y] = wire[y] /\ put'[y] = put[y] /\ sending'[y] = sending[y]
    BY <1>2 DEF TakePiece, TypeOK
  <2>5. TypeOK'
    <3>1. wire' = [wire EXCEPT ![e] = wire'[e]] /\ put' = [put EXCEPT ![e] = put'[e]]
          /\ sending' = [sending EXCEPT ![e] = sending'[e]]
      BY <1>2 DEF TakePiece, TypeOK
    <3>2. put'[e] \in Nat /\ sending'[e] \in BOOLEAN
      <4>0. n \in 1..(Length(e) - put[e])
        BY <2>2
      <4>1. put[e] + n \in Nat
        BY <2>3, <4>0
      <4> QED
        BY <2>2, <2>b, <4>1
    <3>3. put' \in [Ends -> Nat] /\ sending' \in [Ends -> BOOLEAN]
      BY <3>1, <3>2 DEF TypeOK
    <3>4. wire' \in [Ends -> Seq(Nat \X Nat)]
      BY <2>2, <3>1 DEF TypeOK
    <3> QED
      BY <2>4, <3>3, <3>4 DEF TypeOK
  <2>6. ASSUME NEW y \in Ends
        PROVE  SendOK(y)'
    <3>1. CASE y = e
      <4>1. Length(e)' = Length(e) /\ sent'[e] # <<>> /\ put'[e] <= Length(e)
        <5>1. Length(e)' = Length(e)
          BY <2>4 DEF Length
        <5>2. sent'[e] # <<>>
          BY <2>3, <2>4
        <5>3. put'[e] <= Length(e)
          <6>1. n \in 1..(Length(e) - put[e]) /\ put'[e] = put[e] + n
            BY <2>2
          <6>2. Length(e) \in Nat /\ put[e] \in Nat
            BY <2>3
          <6> QED
            BY <6>1, <6>2
        <5> QED
          BY <5>1, <5>2, <5>3
      <4>2. sending'[e] => put'[e] < Length(e)
        BY <2>2, <2>b
      <4> QED
        BY <3>1, <4>1, <4>2 DEF SendOK
    <3>2. CASE y # e
      BY <2>4, <3>2 DEF SendOK, Length
    <3> QED
      BY <3>1, <3>2
  <2>7. ASSUME NEW y \in Ends
        PROVE  Known(y)'
    <3>1. CASE y = e
      <4>1. \A i \in 1..Len(batch'[e]) : PartOf(Other(e), batch[e][i])'
        BY <2>4 DEF Known, PartOf
      <4>2. ASSUME NEW k \in 1..Len(wire'[e])
            PROVE  PartOf(e, wire[e][k])'
        <5>1. CASE k <= Len(wire[e])
          <6>1. k \in 1..Len(wire[e]) /\ wire'[e][k] = wire[e][k]
            BY <2>2, <2>3, <5>1
          <6> QED
            BY <2>4, <6>1 DEF Known, PartOf
        <5>2. CASE k > Len(wire[e])
          <6>1. PICK i : i = k - Len(wire[e])
            OBVIOUS
          <6>2. i \in 1..n /\ k = Len(wire[e]) + i
            BY <2>2, <2>3, <5>2, <6>1
          <6>3. wire'[e][k] = <<Len(sent[e]), put[e] + i>>
            BY <2>2, <6>2
          <6>4. put[e] + i \in 1..Length(e)
            <7>1. n \in 1..(Length(e) - put[e]) /\ put[e] \in Nat /\ Length(e) \in Nat
              BY <2>2, <2>3
            <7> QED
              BY <6>2, <7>1
          <6> QED
            BY <2>3, <2>4, <6>3, <6>4 DEF PartOf, Length
        <5> QED
          BY <2>2, <2>3, <5>1, <5>2
      <4> QED
        BY <3>1, <4>1, <4>2 DEF Known
    <3>2. CASE y # e
      BY <2>4, <3>2 DEF Known, PartOf
    <3> QED
      BY <3>1, <3>2
  <2> QED
    BY <2>5, <2>6, <2>7
<1>3. CASE ShortWrite(e) \/ PeerGone(e) \/ FatalSent(e)
  <2>1. TypeOK'
    BY <1>3 DEF ShortWrite, PeerGone, FatalSent, TypeOK, outs
  <2>2. /\ wire' = wire /\ sent' = sent /\ put' = put
        /\ \A y \in Ends : /\ sending'[y] => sending[y]
                           /\ batch'[y] = batch[y] \/ batch'[y] = <<>>
    BY <1>3 DEF ShortWrite, PeerGone, FatalSent, TypeOK, outs
  <2>3. \A y \in Ends : SendOK(y)' /\ Known(y)'
    BY <2>2, Untouched
  <2> QED
    BY <2>1, <2>3
<1> QED
  BY <1>1, <1>2, <1>3 DEF SendGoesOn

(* Then by the reads. *)
LEMMA ReadsKeep ==
  ASSUME TypeOK, \A y \in Ends : SendOK(y) /\ Known(y), NEW e \in Ends,
         Recv(e) \/ RecvNothing(e) \/ RecvEnd(e)
  PROVE  TypeOK' /\ \A y \in Ends : SendOK(y)' /\ Known(y)'
<1>a. PICK x \in Ends : x = Other(e)
  BY Ends2
<1>b. x # e /\ Other(x) = e /\ \A y \in Ends : y = e \/ y = x
  BY <1>a, Ends2
<1>1. CASE Recv(e)
  <2>1. PICK n \in 1..Len(wire[x]) :
          /\ batch'[e] \in Seq(Nat \X Nat) /\ wire'[x] \in Seq(Nat \X Nat)
          /\ Len(batch'[e]) = Len(batch[e]) + n
          /\ Len(wire'[x]) = Len(wire[x]) - n
          /\ \A i \in 1..Len(batch[e]) : batch'[e][i] = batch[e][i]
          /\ \A i \in 1..n : batch'[e][Len(batch[e]) + i] = wire[x][i]
          /\ \A i \in 1..(Len(wire[x]) - n) : wire'[x][i] = wire[x][n + i]
    BY <1>1, <1>a, Received
  <2>2. /\ life' = life /\ sent' = sent /\ sending' = sending /\ put' = put
        /\ cut' = cut /\ delivered' = delivered
    BY <1>1 DEF Recv, outs
  <2>3. /\ batch' = [batch EXCEPT ![e] = batch'[e]]
        /\ wire' = [wire EXCEPT ![x] = wire'[x]]
        /\ pc' \in [Ends -> {"idle", "recv", "batch", "handler", "fatal"}]
    BY <1>1, <1>a DEF Recv, TypeOK
  <2>4. TypeOK'
    <3>1. batch' \in [Ends -> Seq(Nat \X Nat)] /\ wire' \in [Ends -> Seq(Nat \X Nat)]
      BY <2>1, <2>3 DEF TypeOK
    <3> QED
      BY <2>2, <2>3, <3>1 DEF TypeOK
  <2>5. \A y \in Ends : SendOK(y)'
    BY <2>2 DEF SendOK, Length
  <2>6. Len(batch[e]) \in Nat /\ Len(wire[x]) \in Nat
    BY LengthsTyped
  <2>9. /\ n \in 1..Len(wire[x]) /\ Len(batch'[e]) = Len(batch[e]) + n
        /\ Len(wire'[x]) = Len(wire[x]) - n
    BY <2>1
  <2>7. Known(e)'
    <3>1. ASSUME NEW k \in 1..Len(batch'[e])
          PROVE  PartOf(x, batch[e][k])'
      <4>1. CASE k <= Len(batch[e])
        <5>0. k \in 1..Len(batch[e])
          BY <2>9, <2>6, <4>1
        <5>1. k \in 1..Len(batch[e]) /\ batch'[e][k] = batch[e][k]
          BY <2>1, <5>0
        <5> QED
          BY <1>a, <2>2, <5>1 DEF Known, PartOf
      <4>2. CASE k > Len(batch[e])
        <5>1. PICK i : i = k - Len(batch[e])
          OBVIOUS
        <5>2. i \in 1..n /\ k = Len(batch[e]) + i /\ i \in 1..Len(wire[x])
          BY <2>9, <2>6, <4>2, <5>1
        <5>3. batch'[e][k] = wire[x][i]
          BY <2>1, <5>2
        <5> QED
          BY <2>2, <5>2, <5>3 DEF Known, PartOf
      <4> QED
        BY <2>1, <2>6, <4>1, <4>2
    <3>2. wire'[e] = wire[e]
      BY <1>b, <2>3 DEF TypeOK
    <3>3. \A k \in 1..Len(wire'[e]) : PartOf(e, wire[e][k])'
      BY <2>2, <3>2 DEF Known, PartOf
    <3> QED
      BY <1>a, <3>1, <3>3 DEF Known
  <2>8. Known(x)'
    <3>1. batch'[x] = batch[x]
      BY <1>b, <2>3 DEF TypeOK
    <3>2. \A k \in 1..Len(batch'[x]) : PartOf(Other(x), batch[x][k])'
      BY <2>2, <3>1 DEF Known, PartOf
    <3>3. ASSUME NEW k \in 1..Len(wire'[x])
          PROVE  PartOf(x, wire[x][k])'
      <4>1. PICK i : i = n + k
        OBVIOUS
      <4>0. i \in 1..Len(wire[x]) /\ k \in 1..(Len(wire[x]) - n)
        BY <2>9, <2>6, <4>1
      <4>2. i \in 1..Len(wire[x]) /\ wire'[x][k] = wire[x][i]
        BY <2>1, <4>0, <4>1
      <4> QED
        BY <2>2, <4>2 DEF Known, PartOf
    <3> QED
      BY <3>2, <3>3 DEF Known
  <2> QED
    BY <1>b, <2>4, <2>5, <2>7, <2>8
<1>2. CASE Fail(e) /\ wire' = wire /\ delivered' = delivered
  BY <1>2, FailedOK
<1>3. CASE RecvEnd(e) /\ ~Fail(e)
  <2>1. TypeOK'
    BY <1>3 DEF RecvEnd, TypeOK, outs
  <2>2. /\ wire' = wire /\ sent' = sent /\ put' = put
        /\ \A y \in Ends : /\ sending'[y] => sending[y]
                           /\ batch'[y] = batch[y] \/ batch'[y] = <<>>
    BY <1>3 DEF RecvEnd, outs
  <2>3. \A y \in Ends : SendOK(y)' /\ Known(y)'
    BY <2>2, Untouched
  <2> QED
    BY <2>1, <2>3
<1> QED
  BY <1>1, <1>2, <1>3 DEF RecvNothing, RecvEnd

(* Something is taken off the front of a batch: what is left is known. *)
LEMMA LessKnown ==
  ASSUME TypeOK, \A y \in Ends : SendOK(y) /\ Known(y), NEW e \in Ends,
         NEW n \in 0..Len(batch[e]), wire' = wire, sent' = sent,
         put' = put, sending' = sending,
         batch' = [batch EXCEPT ![e] = SubSeq(@, n + 1, Len(@))]
  PROVE  /\ batch' \in [Ends -> Seq(Nat \X Nat)]
         /\ \A y \in Ends : SendOK(y)' /\ Known(y)'
<1>a. PICK S : S = Nat \X Nat
  OBVIOUS
<1>1. batch[e] \in Seq(S) /\ Len(batch[e]) \in Nat
  BY <1>a DEF TypeOK
<1>2. batch'[e] = SubSeq(batch[e], n + 1, Len(batch[e]))
  BY DEF TypeOK
<1>3. /\ batch'[e] \in Seq(S) /\ Len(batch'[e]) = Len(batch[e]) - n
      /\ \A i \in 1..(Len(batch[e]) - n) : batch'[e][i] = batch[e][n + i]
  BY <1>1, <1>2, CutAt
<1>4. batch' \in [Ends -> Seq(Nat \X Nat)]
  BY <1>3, <1>a DEF TypeOK
<1>5. \A y \in Ends : SendOK(y)'
  BY DEF SendOK, Length
<1>6. ASSUME NEW y \in Ends
      PROVE  Known(y)'
  <2>1. CASE y = e
    <3>1. ASSUME NEW k \in 1..Len(batch'[e])
          PROVE  PartOf(Other(e), batch[e][k])'
      <4>1. PICK i : i = n + k
        OBVIOUS
      <4>2. i \in 1..Len(batch[e]) /\ batch'[e][k] = batch[e][i]
        BY <1>1, <1>3, <4>1
      <4> QED
        BY <4>2 DEF Known, PartOf
    <3>2. \A k \in 1..Len(wire'[e]) : PartOf(e, wire[e][k])'
      BY DEF Known, PartOf
    <3> QED
      BY <2>1, <3>1, <3>2 DEF Known
  <2>2. CASE y # e
    <3>1. batch'[y] = batch[y]
      BY <2>2 DEF TypeOK
    <3> QED
      BY <3>1 DEF Known, PartOf
  <2> QED
    BY <2>1, <2>2
<1> QED
  BY <1>4, <1>5, <1>6

(* Last by the handling, and by the end of the process. *)
LEMMA HandlingKeeps ==
  ASSUME TypeOK, \A y \in Ends : SendOK(y) /\ Known(y), NEW e \in Ends,
         \/ Handle(e) \/ HandleCut(e) \/ HandleGarbage(e) \/ BatchEnds(e)
         \/ Exit(e)
  PROVE  TypeOK' /\ \A y \in Ends : SendOK(y)' /\ Known(y)'
<1>0. Len(batch[e]) \in Nat /\ DOMAIN batch[e] = 1..Len(batch[e])
  BY DEF TypeOK
<1>1. CASE Handle(e)
  <2>1. PICK m \in 1..Len(sent[Other(e)]), n \in 1..Len(batch[e]) :
          m = Head(batch[e])[1] /\ n = sent[Other(e)][m]
    BY <1>1, WholeMessage DEF Handle
  <2>2. /\ batch' = [batch EXCEPT ![e] = SubSeq(@, n + 1, Len(@))]
        /\ delivered' = [delivered EXCEPT ![e] = Append(@, m)]
        /\ pc' = [pc EXCEPT ![e] = "handler"]
        /\ life' = life /\ sent' = sent /\ sending' = sending /\ put' = put
        /\ cut' = cut /\ wire' = wire
    BY <1>1, <2>1 DEF Handle, outs
  <2>3. n \in 0..Len(batch[e])
    BY <1>0
  <2>4. /\ batch' \in [Ends -> Seq(Nat \X Nat)]
        /\ \A y \in Ends : SendOK(y)' /\ Known(y)'
    BY <2>2, <2>3, LessKnown
  <2>5. m \in Nat /\ delivered' \in [Ends -> Seq(Nat)]
    <3>1. Len(sent[Other(e)]) \in Nat /\ delivered[e] \in Seq(Nat)
      BY Ends2 DEF TypeOK
    <3>2. m \in Nat
      BY <3>1
    <3>3. Append(delivered[e], m) \in Seq(Nat)
      BY <3>1, <3>2
    <3> QED
      BY <2>2, <3>2, <3>3 DEF TypeOK
  <2>6. TypeOK'
    BY <2>2, <2>4, <2>5 DEF TypeOK
  <2> QED
    BY <2>4, <2>6
<1>2. CASE Fail(e) /\ wire' = wire /\ delivered' = delivered
  BY <1>2, FailedOK
<1>3. CASE HandleGarbage(e) /\ ~(Fail(e) /\ delivered' = delivered)
  <2>1. PICK n \in 1..Len(batch[e]) :
          batch' = [batch EXCEPT ![e] = SubSeq(@, n + 1, Len(@))]
    BY <1>0, <1>3 DEF HandleGarbage
  <2>2. /\ delivered' = [delivered EXCEPT ![e] = Append(@, 0)]
        /\ pc' = [pc EXCEPT ![e] = "handler"]
        /\ life' = life /\ sent' = sent /\ sending' = sending /\ put' = put
        /\ cut' = cut /\ wire' = wire
    BY <1>3 DEF HandleGarbage, outs
  <2>3. n \in 0..Len(batch[e])
    BY <1>0
  <2>4. /\ batch' \in [Ends -> Seq(Nat \X Nat)]
        /\ \A y \in Ends : SendOK(y)' /\ Known(y)'
    BY <2>1, <2>2, <2>3, LessKnown
  <2>5. TypeOK'
    <3>1. delivered[e] \in Seq(Nat) /\ 0 \in Nat
      BY DEF TypeOK
    <3>2. Append(delivered[e], 0) \in Seq(Nat)
      BY <3>1
    <3>3. delivered' \in [Ends -> Seq(Nat)]
      BY <2>2, <3>2 DEF TypeOK
    <3> QED
      BY <2>2, <2>4, <3>3 DEF TypeOK
  <2> QED
    BY <2>4, <2>5
<1>4. CASE BatchEnds(e) \/ Exit(e)
  <2>1. TypeOK'
    <3>1. CASE BatchEnds(e)
      BY <3>1 DEF BatchEnds, TypeOK, outs
    <3>2. CASE Exit(e)
      <4>1. batch' \in [Ends -> Seq(Nat \X Nat)]
        BY <3>2 DEF Exit, TypeOK
      <4>2. /\ life' \in [Ends -> {"open", "error", "end", "exited"}]
            /\ pc' \in [Ends -> {"idle", "recv", "batch", "handler", "fatal"}]
            /\ sending' \in [Ends -> BOOLEAN]
        BY <3>2 DEF Exit, TypeOK
      <4> QED
        BY <3>2, <4>1, <4>2 DEF Exit, TypeOK
    <3> QED
      BY <1>4, <3>1, <3>2
  <2>2. /\ wire' = wire /\ sent' = sent /\ put' = put
        /\ \A y \in Ends : /\ sending'[y] => sending[y]
                           /\ batch'[y] = batch[y] \/ batch'[y] = <<>>
    BY <1>4 DEF BatchEnds, Exit, TypeOK, outs
  <2>3. \A y \in Ends : SendOK(y)' /\ Known(y)'
    BY <2>2, Untouched
  <2> QED
    BY <2>1, <2>3
<1> QED
  BY <1>1, <1>2, <1>3, <1>4 DEF HandleCut, HandleGarbage

-----------------------------------------------------------------------------
(* The parts on their way, each at its place. *)
LEMMA OnTheWay ==
  ASSUME TypeOK, \A y \in Ends : Known(y), NEW e \in Ends
  PROVE  /\ Len(batch[e]) \in Nat /\ Len(wire[Other(e)]) \in Nat
         /\ Count(e) \in Nat
         /\ \A k \in 1..Count(e) : PartOf(Other(e), At(e, k))
<1>a. PICK x \in Ends : x = Other(e)
  BY Ends2
<1>1. Len(batch[e]) \in Nat /\ Len(wire[x]) \in Nat
  BY DEF TypeOK
<1>2. Count(e) \in Nat /\ Count(e) = Len(batch[e]) + Len(wire[x])
  <2>1. Count(e) = Len(batch[e]) + Len(wire[x])
    BY <1>a DEF Count
  <2>2. PICK a \in Nat, b \in Nat : a = Len(batch[e]) /\ b = Len(wire[x])
    BY <1>1
  <2>3. a + b \in Nat
    OBVIOUS
  <2> QED
    BY <2>1, <2>2, <2>3
<1>3. ASSUME NEW k \in 1..Count(e)
      PROVE  PartOf(x, At(e, k))
  <2>1. CASE k <= Len(batch[e])
    <3>1. k \in 1..Len(batch[e]) /\ At(e, k) = batch[e][k]
      BY <1>1, <2>1 DEF At
    <3> QED
      BY <1>a, <3>1 DEF Known
  <2>2. CASE ~(k <= Len(batch[e]))
    <3>1. PICK i : i = k - Len(batch[e])
      OBVIOUS
    <3>2. i \in 1..Len(wire[x])
      <4>1. PICK a \in Nat, b \in Nat : a = Len(batch[e]) /\ b = Len(wire[x])
        BY <1>1
      <4>2. k \in 1..(a + b) /\ ~(k <= a) /\ i = k - a
        BY <1>2, <2>2, <3>1, <4>1
      <4>3. i \in 1..b
        BY <4>2
      <4> QED
        BY <4>1, <4>3
    <3>3. At(e, k) = wire[x][i]
      BY <1>a, <2>2, <3>1 DEF At
    <3> QED
      BY <3>2, <3>3 DEF Known
  <2> QED
    BY <2>1, <2>2
<1> QED
  BY <1>1, <1>2, <1>3, <1>a

(* An end stays in step when nothing that reaches it is touched, or when it *)
(* stops listening.                                                        *)
LEMMA StaysInStep ==
  ASSUME NEW e \in Ends, NEW x \in Ends, x = Other(e), InStep(e),
         ~cut'[x] => ~cut[x],
         delivered'[e] = delivered[e], sent'[x] = sent[x],
         Listens(e)' => /\ Listens(e) /\ batch'[e] = batch[e]
                        /\ wire'[x] = wire[x] /\ put'[x] = put[x]
                        /\ Whole(x) => Whole(x)'
  PROVE  InStep(e)'
<1> SUFFICES ASSUME ~cut'[x]
             PROVE  Prefix(e)' /\ (Listens(e)' => Contiguous(e)' /\ Whole(x)')
  BY DEF InStep
<1>1. Prefix(e) /\ (Listens(e) => Contiguous(e) /\ Whole(x))
  BY DEF InStep
<1>2. Prefix(e)'
  BY <1>1 DEF Prefix
<1>3. ASSUME Listens(e)'
      PROVE  Contiguous(e)' /\ Whole(x)'
  <2>1. /\ Contiguous(e) /\ Whole(x)' /\ batch'[e] = batch[e]
        /\ wire'[x] = wire[x] /\ put'[x] = put[x]
    BY <1>1, <1>3
  <2>2. Count(e)' = Count(e) /\ \A k : At(e, k)' = At(e, k)
    BY <2>1 DEF Count, At
  <2>3. Coming(x)' = Coming(x)
    BY <2>1 DEF Coming, AllPut, Length
  <2>4. \A k : Part(e, k)' = Part(e, k)
    BY <2>2, <2>3 DEF Part
  <2>5. \A p : Follows(x, p)' = Follows(x, p)
    BY DEF Follows
  <2>6. ASSUME NEW k \in 1..Count(e)
        PROVE  Part(e, k + 1)' = Follows(x, At(e, k))'
    <3>1. PICK p : p = At(e, k)
      OBVIOUS
    <3>2. Part(e, k + 1) = Follows(x, p) /\ At(e, k)' = p
      BY <2>1, <2>2, <3>1 DEF Contiguous
    <3>3. Follows(x, At(e, k))' = Follows(x, p)'
      BY <3>2 DEF Follows
    <3> QED
      BY <2>4, <2>5, <3>2, <3>3
  <2>7. Part(e, 1)' = <<Len(delivered'[e]) + 1, 1>>
    BY <2>1, <2>4 DEF Contiguous
  <2> QED
    BY <2>1, <2>2, <2>6, <2>7 DEF Contiguous
<1> QED
  BY <1>2, <1>3

(* A message begun: the part to be put next is the first of the new one,   *)
(* as it was when there was none.                                          *)
LEMMA BegunInStep ==
  ASSUME TypeOK, \A y \in Ends : Known(y), NEW e \in Ends, NEW x \in Ends,
         x = Other(e), InStep(e), NEW n \in Nat \ {0}, Begin(x, n),
         life[x] = "open", ~sending[x], cut' = cut, delivered' = delivered,
         batch'[e] = batch[e], wire' = wire, Listens(e)' => Listens(e)
  PROVE  InStep(e)'
<1>0. /\ Len(sent'[x]) = Len(sent[x]) + 1
      /\ \A m \in 1..Len(sent[x]) : sent'[x][m] = sent[x][m]
      /\ sent'[x] # <<>> /\ Length(x)' = n
      /\ put'[x] = 0 /\ sending'[x] = TRUE
  BY Begun
<1>a. Len(sent[x]) \in Nat /\ Len(delivered[e]) \in Nat
  BY DEF TypeOK
<1> SUFFICES ASSUME ~cut[x]
             PROVE  Prefix(e)' /\ (Listens(e)' => Contiguous(e)' /\ Whole(x)')
  BY DEF InStep
<1>1. Prefix(e) /\ (Listens(e) => Contiguous(e) /\ Whole(x))
  BY DEF InStep
<1>2. Prefix(e)'
  BY <1>0, <1>1, <1>a DEF Prefix
<1>3. Whole(x)'
  BY <1>0 DEF Whole
<1>4. ASSUME Listens(e)'
      PROVE  Contiguous(e)'
  <2>1. Contiguous(e) /\ AllPut(x)
    BY <1>1, <1>4 DEF Whole
  <2>2. Count(e)' = Count(e) /\ \A k : At(e, k)' = At(e, k)
    BY DEF Count, At
  <2>3. Coming(x) = <<Len(sent[x]) + 1, 1>>
    BY <2>1 DEF Coming
  <2>4. Coming(x)' = <<Len(sent[x]) + 1, 1>>
    <3>1. ~AllPut(x)'
      BY <1>0 DEF AllPut
    <3> QED
      BY <1>0, <3>1 DEF Coming
  <2>5. \A k : Part(e, k)' = Part(e, k)
    BY <2>2, <2>3, <2>4 DEF Part
  <2>6. ASSUME NEW k \in 1..Count(e)
        PROVE  Part(e, k + 1)' = Follows(x, At(e, k))'
    <3>1. PICK p : p = At(e, k)
      OBVIOUS
    <3>2. Part(e, k + 1) = Follows(x, p) /\ At(e, k)' = p
      BY <2>1, <2>2, <3>1 DEF Contiguous
    <3>3. p[1] \in 1..Len(sent[x])
      BY <3>1, OnTheWay DEF PartOf
    <3>4. Follows(x, At(e, k))' = Follows(x, p)
      BY <1>0, <3>2, <3>3 DEF Follows
    <3> QED
      BY <2>5, <3>2, <3>4
  <2>7. Part(e, 1)' = <<Len(delivered'[e]) + 1, 1>>
    BY <2>1, <2>5 DEF Contiguous
  <2> QED
    BY <2>2, <2>6, <2>7 DEF Contiguous
<1> QED
  BY <1>2, <1>3, <1>4

(* A piece taken: its parts follow one another behind the last of those on *)
(* their way, the first of them the one that was to be put next.           *)
LEMMA PieceInStep ==
  ASSUME TypeOK, \A y \in Ends : SendOK(y) /\ Known(y), NEW e \in Ends,
         NEW x \in Ends, x = Other(e), InStep(e), TakePiece(x)
  PROVE  InStep(e)'
<1>1. PICK n : n = Least(Segment, Length(x) - put[x])
  OBVIOUS
<1>2. /\ n \in 1..(Length(x) - put[x])
      /\ wire'[x] \in Seq(Nat \X Nat) /\ Len(wire'[x]) = Len(wire[x]) + n
      /\ \A k \in 1..Len(wire[x]) : wire'[x][k] = wire[x][k]
      /\ \A i \in 1..n : wire'[x][Len(wire[x]) + i]
                           = <<Len(sent[x]), put[x] + i>>
      /\ put'[x] = put[x] + n
      /\ sending'[x] \in BOOLEAN
      /\ sending'[x] <=> put[x] + n < Length(x)
  BY <1>1, PieceTaken
<1>3. /\ sent[x] # <<>> /\ Length(x) \in Nat \ {0} /\ put[x] \in Nat
      /\ put[x] < Length(x)
  BY PieceSize DEF TakePiece
<1>4. /\ life' = life /\ pc' = pc /\ batch' = batch /\ sent' = sent
      /\ delivered' = delivered /\ cut' = cut
  BY DEF TakePiece
<1>5. PICK a \in Nat, b \in Nat, l \in Nat, q \in Nat, s \in Nat :
        /\ a = Len(batch[e]) /\ b = Len(wire[x]) /\ l = Length(x)
        /\ q = put[x] /\ s = Len(sent[x])
  <2>1. /\ Len(batch[e]) \in Nat /\ Len(wire[x]) \in Nat
        /\ Length(x) \in Nat /\ put[x] \in Nat /\ Len(sent[x]) \in Nat
    BY <1>3, LengthsTyped
  <2> QED
    BY <2>1, Zenon
<1>6. n \in Nat \ {0} /\ n \in 1..(l - q) /\ q + n <= l
  <2>1. n \in 1..(l - q)
    BY <1>2, <1>5
  <2> QED
    BY <2>1
<1>7. Count(e) = a + b /\ Count(e)' = a + b + n
  <2>1. Len(batch'[e]) = a /\ Len(wire'[x]) = b + n
    BY <1>2, <1>4, <1>5
  <2>2. Count(e) = a + b
    BY <1>5 DEF Count
  <2>3. Count(e)' = a + (b + n)
    BY <2>1 DEF Count
  <2>4. a + (b + n) = a + b + n
    BY <1>6
  <2> QED
    BY <2>2, <2>3, <2>4
<1>8. \A k \in 1..(a + b) : At(e, k)' = At(e, k)
  <2> SUFFICES ASSUME NEW k \in 1..(a + b)
               PROVE  At(e, k)' = At(e, k)
    OBVIOUS
  <2>1. CASE k <= a
    BY <1>4, <1>5, <2>1 DEF At
  <2>2. CASE ~(k <= a)
    <3>1. k - a \in 1..b
      BY <2>2
    <3>2. wire'[x][k - a] = wire[x][k - a]
      BY <1>2, <1>5, <3>1
    <3> QED
      BY <1>4, <1>5, <2>2, <3>2 DEF At
  <2> QED
    BY <2>1, <2>2
<1>9. \A i \in 1..n : At(e, a + b + i)' = <<s, q + i>>
  <2> SUFFICES ASSUME NEW i \in 1..n
               PROVE  At(e, a + b + i)' = <<s, q + i>>
    OBVIOUS
  <2>1. ~(a + b + i <= a) /\ (a + b + i) - a = b + i
    BY <1>6
  <2>2. wire'[x][b + i] = <<s, q + i>>
    BY <1>2, <1>5
  <2> QED
    BY <1>4, <1>5, <2>1, <2>2 DEF At
<1>10. Coming(x) = <<s, q + 1>>
  <2>1. ~AllPut(x)
    BY <1>3 DEF AllPut
  <2> QED
    BY <1>5, <2>1 DEF Coming
<1>11. Coming(x)' = IF q + n = l THEN <<s + 1, 1>> ELSE <<s, q + n + 1>>
  <2>1. Length(x)' = l /\ sent'[x] # <<>> /\ put'[x] = q + n /\ Len(sent'[x]) = s
    BY <1>2, <1>3, <1>4, <1>5 DEF Length
  <2>2. AllPut(x)' <=> q + n = l
    BY <2>1 DEF AllPut
  <2> QED
    BY <2>1, <2>2 DEF Coming
<1>12. Whole(x)'
  <2>1. Length(x)' = l /\ put'[x] = q + n /\ (sending'[x] <=> q + n < l)
    BY <1>2, <1>4, <1>5 DEF Length
  <2>2. ~(q + n < l) => q + n = l
    BY <1>6
  <2> QED
    BY <2>1, <2>2 DEF Whole, AllPut
<1>13. \A p : Follows(x, p)' = Follows(x, p)
  BY <1>4 DEF Follows
<1> SUFFICES ASSUME ~cut[x]
             PROVE  Prefix(e)' /\ (Listens(e)' => Contiguous(e)' /\ Whole(x)')
  BY <1>4 DEF InStep
<1>14. Prefix(e)' /\ (Listens(e)' => Contiguous(e))
  BY <1>4 DEF InStep, Prefix, Listens
<1>15. ASSUME Contiguous(e)
       PROVE  Contiguous(e)'
  <2>1. \A k \in 1..(a + b + 1) : Part(e, k)' = Part(e, k)
    <3> SUFFICES ASSUME NEW k \in 1..(a + b + 1)
                 PROVE  Part(e, k)' = Part(e, k)
      OBVIOUS
    <3>1. k <= a + b + n
      BY <1>6
    <3>2. Part(e, k)' = At(e, k)'
      BY <1>7, <3>1 DEF Part
    <3>3. CASE k \in 1..(a + b)
      BY <1>7, <1>8, <3>2, <3>3 DEF Part
    <3>4. CASE k = a + b + 1
      <4>1. At(e, k)' = <<s, q + 1>>
        BY <1>6, <1>9, <3>4
      <4>2. Part(e, k) = <<s, q + 1>>
        BY <1>7, <1>10, <3>4 DEF Part
      <4> QED
        BY <3>2, <4>1, <4>2
    <3> QED
      BY <3>3, <3>4
  <2>2. Part(e, 1)' = <<Len(delivered'[e]) + 1, 1>>
    <3>1. 1 \in 1..(a + b + 1)
      OBVIOUS
    <3> QED
      BY <1>4, <1>15, <2>1, <3>1 DEF Contiguous
  <2>3. ASSUME NEW k \in 1..(a + b)
        PROVE  Part(e, k + 1)' = Follows(x, At(e, k))'
    <3>1. PICK p : p = At(e, k)
      OBVIOUS
    <3>2. Part(e, k + 1) = Follows(x, p) /\ At(e, k)' = p
      BY <1>7, <1>8, <1>15, <3>1 DEF Contiguous
    <3>3. Follows(x, At(e, k))' = Follows(x, p)
      BY <1>4, <3>2 DEF Follows
    <3>4. k + 1 \in 1..(a + b + 1)
      OBVIOUS
    <3> QED
      BY <2>1, <3>2, <3>3, <3>4
  <2>4. ASSUME NEW i \in 1..n
        PROVE  Part(e, a + b + i + 1)' = Follows(x, At(e, a + b + i))'
    <3>1. PICK k : k = a + b + i
      OBVIOUS
    <3>2. At(e, k)' = <<s, q + i>>
      BY <1>9, <3>1
    <3>3. Follows(x, At(e, k))' = IF q + i < l THEN <<s, q + i + 1>> ELSE <<s + 1, 1>>
      <4>1. sent'[x][s] = l
        BY <1>4, <1>5 DEF Length
      <4> QED
        BY <3>2, <4>1 DEF Follows
    <3>4. CASE i = n
      <4>1. Part(e, k + 1)' = Coming(x)'
        <5>1. ~(k + 1 <= a + b + n)
          BY <1>6, <3>1, <3>4
        <5> QED
          BY <1>7, <5>1 DEF Part
      <4>2. q + i = l <=> ~(q + i < l)
        BY <1>6, <3>4
      <4> QED
        BY <1>11, <3>1, <3>3, <3>4, <4>1, <4>2
    <3>5. CASE i # n
      <4>1. i + 1 \in 1..n /\ k + 1 = a + b + (i + 1) /\ k + 1 <= a + b + n
            /\ q + i < l
        BY <1>6, <3>1, <3>5
      <4>2. At(e, k + 1)' = <<s, q + (i + 1)>>
        BY <1>9, <4>1
      <4>3. Part(e, k + 1)' = At(e, k + 1)'
        BY <1>7, <4>1 DEF Part
      <4> QED
        BY <3>1, <3>3, <4>1, <4>2, <4>3
    <3> QED
      BY <3>4, <3>5
  <2>5. ASSUME NEW k \in 1..(a + b + n)
        PROVE  Part(e, k + 1)' = Follows(x, At(e, k))'
    <3>1. CASE k \in 1..(a + b)
      BY <2>3, <3>1
    <3>2. CASE k \notin 1..(a + b)
      <4>1. PICK i : i = k - (a + b)
        OBVIOUS
      <4>2. i \in 1..n /\ k = a + b + i
        BY <1>6, <3>2, <4>1
      <4> QED
        BY <2>4, <4>2
    <3> QED
      BY <3>1, <3>2
  <2> QED
    BY <1>7, <2>2, <2>5 DEF Contiguous
<1> QED
  BY <1>12, <1>14, <1>15

(* A read: what is on its way changes hands and keeps its place. *)
LEMMA ReadInStep ==
  ASSUME TypeOK, NEW e \in Ends, InStep(e), Recv(e)
  PROVE  InStep(e)'
<1>a. PICK x \in Ends : x = Other(e) /\ x # e
  BY Ends2
<1>1. PICK n \in 1..Len(wire[x]) :
        /\ batch'[e] \in Seq(Nat \X Nat) /\ wire'[x] \in Seq(Nat \X Nat)
        /\ Len(batch'[e]) = Len(batch[e]) + n
        /\ Len(wire'[x]) = Len(wire[x]) - n
        /\ \A i \in 1..Len(batch[e]) : batch'[e][i] = batch[e][i]
        /\ \A i \in 1..n : batch'[e][Len(batch[e]) + i] = wire[x][i]
        /\ \A i \in 1..(Len(wire[x]) - n) : wire'[x][i] = wire[x][n + i]
  BY <1>a, Received
<1>2. /\ life' = life /\ sent' = sent /\ sending' = sending /\ put' = put
      /\ cut' = cut /\ delivered' = delivered
  BY DEF Recv, outs
<1>3. Listens(e)
  BY DEF Recv, Reads, Listens
<1>4. PICK a \in Nat, b \in Nat : a = Len(batch[e]) /\ b = Len(wire[x])
  BY DEF TypeOK
<1>5. n \in Nat \ {0} /\ n <= b /\ n \in 1..b
  BY <1>1, <1>4
<1>6. Count(e) = a + b
  BY <1>a, <1>4 DEF Count
<1>7. Count(e)' = a + b
  <2>1. Len(batch'[e]) = a + n /\ Len(wire'[x]) = b - n
    BY <1>1, <1>4
  <2>2. Count(e)' = (a + n) + (b - n)
    BY <1>a, <2>1 DEF Count
  <2>3. (a + n) + (b - n) = a + b
    BY <1>5
  <2> QED
    BY <2>2, <2>3
<1>8. ASSUME NEW k \in 1..(a + b)
      PROVE  At(e, k)' = At(e, k)
  <2>1. Len(batch'[e]) = a + n
    BY <1>1, <1>4
  <2>2. CASE k <= a
    <3>1. k \in 1..a /\ k <= a + n
      BY <1>5, <2>2
    <3>2. batch'[e][k] = batch[e][k]
      BY <1>1, <1>4, <3>1
    <3> QED
      BY <1>4, <2>1, <2>2, <3>1, <3>2 DEF At
  <2>3. CASE ~(k <= a) /\ k <= a + n
    <3>1. PICK i : i = k - a
      OBVIOUS
    <3>2. i \in 1..n /\ k = a + i
      BY <1>5, <2>3, <3>1
    <3>3. batch'[e][a + i] = wire[x][i]
      BY <1>1, <1>4, <3>2
    <3>4. At(e, k)' = batch'[e][k]
      BY <2>1, <2>3 DEF At
    <3>5. At(e, k) = wire[x][i]
      BY <1>a, <1>4, <2>3, <3>1 DEF At
    <3> QED
      BY <3>2, <3>3, <3>4, <3>5
  <2>4. CASE ~(k <= a) /\ ~(k <= a + n)
    <3>1. PICK i : i = k - (a + n)
      OBVIOUS
    <3>2. i \in 1..(b - n) /\ k - a = n + i
      BY <1>5, <2>4, <3>1
    <3>3. wire'[x][i] = wire[x][n + i]
      BY <1>1, <1>4, <3>2
    <3>4. At(e, k)' = wire'[x][i]
      BY <1>a, <2>1, <2>4, <3>1 DEF At
    <3>5. At(e, k) = wire[x][n + i]
      BY <1>a, <1>4, <2>4, <3>2 DEF At
    <3> QED
      BY <3>3, <3>4, <3>5
  <2> QED
    BY <2>2, <2>3, <2>4
<1>9. Coming(x)' = Coming(x)
  BY <1>2 DEF Coming, AllPut, Length
<1>10. ASSUME NEW k \in 1..(a + b + 1)
       PROVE  Part(e, k)' = Part(e, k)
  <2>1. CASE k \in 1..(a + b)
    BY <1>6, <1>7, <1>8, <2>1 DEF Part
  <2>2. CASE k \notin 1..(a + b)
    <3>1. ~(k <= a + b)
      BY <2>2
    <3> QED
      BY <1>a, <1>6, <1>7, <1>9, <3>1 DEF Part
  <2> QED
    BY <2>1, <2>2
<1> SUFFICES ASSUME ~cut[x]
             PROVE  Prefix(e)' /\ Contiguous(e)' /\ Whole(x)'
  BY <1>2, <1>a DEF InStep
<1>11. Prefix(e)' /\ Contiguous(e) /\ Whole(x)'
  BY <1>2, <1>3, <1>a DEF InStep, Prefix, Whole, AllPut, Length
<1>12. Part(e, 1)' = <<Len(delivered'[e]) + 1, 1>>
  <2>1. 1 \in 1..(a + b + 1)
    OBVIOUS
  <2> QED
    BY <1>2, <1>10, <1>11, <2>1 DEF Contiguous
<1>13. ASSUME NEW k \in 1..(a + b)
       PROVE  Part(e, k + 1)' = Follows(x, At(e, k))'
  <2>1. PICK p : p = At(e, k)
    OBVIOUS
  <2>2. Part(e, k + 1) = Follows(x, p) /\ At(e, k)' = p
    BY <1>6, <1>8, <1>11, <1>a, <2>1 DEF Contiguous
  <2>3. Follows(x, At(e, k))' = Follows(x, p)
    BY <1>2, <2>2 DEF Follows
  <2>4. k + 1 \in 1..(a + b + 1)
    OBVIOUS
  <2> QED
    BY <1>10, <2>2, <2>3, <2>4
<1> QED
  BY <1>a, <1>7, <1>11, <1>12, <1>13 DEF Contiguous

(* A message handled: it is the one after the last, and behind its last    *)
(* part stands the first of the next.                                      *)
LEMMA HandleInStep ==
  ASSUME TypeOK, \A y \in Ends : Known(y), NEW e \in Ends, InStep(e), Handle(e)
  PROVE  InStep(e)'
<1>a. PICK x \in Ends : x = Other(e) /\ x # e
  BY Ends2
<1>1. PICK m \in 1..Len(sent[x]), n \in 1..Len(batch[e]) :
        /\ m = batch[e][1][1] /\ n = sent[x][m]
        /\ \A i \in 1..n : batch[e][i] = <<m, i>>
        /\ delivered'[e] = Append(delivered[e], m)
        /\ batch'[e] \in Seq(Nat \X Nat)
        /\ Len(batch'[e]) = Len(batch[e]) - n
        /\ \A i \in 1..(Len(batch[e]) - n) : batch'[e][i] = batch[e][n + i]
  BY <1>a, Handled
<1>2. /\ life' = life /\ sent' = sent /\ sending' = sending /\ put' = put
      /\ cut' = cut /\ wire' = wire
  BY DEF Handle, outs
<1>3. Listens(e)
  BY DEF Handle, InBatch, Listens
<1>4. PICK a \in Nat, b \in Nat, d \in Nat, s \in Nat :
        /\ a = Len(batch[e]) /\ b = Len(wire[x]) /\ d = Len(delivered[e])
        /\ s = Len(sent[x])
  <2>1. /\ Len(batch[e]) \in Nat /\ Len(wire[x]) \in Nat
        /\ Len(delivered[e]) \in Nat /\ Len(sent[x]) \in Nat
    BY LengthsTyped
  <2> QED
    BY <2>1, Zenon
<1>5. n \in Nat \ {0} /\ n <= a /\ n \in 1..a /\ m \in 1..s /\ m \in Nat
  <2>1. n \in 1..a /\ m \in 1..s
    BY <1>1, <1>4
  <2> QED
    BY <1>4, <2>1
<1>6. Count(e) = a + b
  BY <1>a, <1>4 DEF Count
<1>7. Count(e)' = a + b - n /\ Len(batch'[e]) = a - n
  <2>1. Len(batch'[e]) = a - n /\ Len(wire'[x]) = b
    BY <1>1, <1>2, <1>4
  <2>2. Count(e)' = (a - n) + b
    BY <1>a, <2>1 DEF Count
  <2>3. (a - n) + b = a + b - n
    BY <1>5
  <2> QED
    BY <2>1, <2>2, <2>3
<1>8. ASSUME NEW k \in 1..(a + b - n)
      PROVE  At(e, k)' = At(e, n + k) /\ n + k \in 1..(a + b)
  <2>1. n + k \in 1..(a + b)
    BY <1>5
  <2>2. CASE k <= a - n
    <3>1. k \in 1..(a - n) /\ n + k <= a
      BY <1>5, <2>2
    <3>2. batch'[e][k] = batch[e][n + k]
      BY <1>1, <1>4, <3>1
    <3> QED
      BY <1>4, <1>7, <2>1, <2>2, <3>1, <3>2 DEF At
  <2>3. CASE ~(k <= a - n)
    <3>1. ~(n + k <= a) /\ k - (a - n) = (n + k) - a
      BY <1>5, <2>3
    <3>2. At(e, k)' = wire[x][k - (a - n)]
      BY <1>a, <1>2, <1>7, <2>3 DEF At
    <3>3. At(e, n + k) = wire[x][(n + k) - a]
      BY <1>a, <1>4, <3>1 DEF At
    <3> QED
      BY <2>1, <3>1, <3>2, <3>3
  <2> QED
    BY <2>2, <2>3
<1>9. Coming(x)' = Coming(x)
  BY <1>2 DEF Coming, AllPut, Length
<1>10. ASSUME NEW k \in 1..(a + b - n + 1)
       PROVE  Part(e, k)' = Part(e, n + k)
  <2>1. CASE k \in 1..(a + b - n)
    <3>1. k <= a + b - n /\ n + k <= a + b
      BY <1>5, <2>1
    <3> QED
      BY <1>6, <1>7, <1>8, <2>1, <3>1 DEF Part
  <2>2. CASE k \notin 1..(a + b - n)
    <3>1. ~(k <= a + b - n) /\ ~(n + k <= a + b)
      BY <1>5, <2>2
    <3> QED
      BY <1>a, <1>6, <1>7, <1>9, <3>1 DEF Part
  <2> QED
    BY <2>1, <2>2
<1> SUFFICES ASSUME ~cut[x]
             PROVE  Prefix(e)' /\ Contiguous(e)' /\ Whole(x)'
  BY <1>2, <1>a DEF InStep
<1>11. Prefix(e) /\ Contiguous(e) /\ Whole(x)'
  BY <1>2, <1>3, <1>a DEF InStep, Whole, AllPut, Length
<1>12. m = d + 1
  <2>0. 1 <= a /\ 1 <= a + b /\ 1 \in 1..n
    BY <1>5
  <2>1. At(e, 1) = batch[e][1] /\ 1 <= a + b
    BY <1>4, <2>0 DEF At
  <2>2. Part(e, 1) = <<m, 1>>
    <3>1. Part(e, 1) = batch[e][1]
      BY <1>6, <2>1 DEF Part
    <3>2. batch[e][1] = <<m, 1>>
      BY <1>1, <2>0
    <3> QED
      BY <3>1, <3>2
  <2>3. Part(e, 1) = <<d + 1, 1>>
    BY <1>4, <1>11 DEF Contiguous
  <2> QED
    BY <2>2, <2>3
<1>13. Len(delivered'[e]) = d + 1 /\ \A i \in 1..(d + 1) : delivered'[e][i] = i
  <2>1. /\ delivered[e] \in Seq(Nat) /\ d = Len(delivered[e]) /\ m \in Nat
        /\ delivered'[e] = Append(delivered[e], m)
    BY <1>1, <1>4, <1>5 DEF TypeOK
  <2>2. Len(delivered'[e]) = d + 1 /\ delivered'[e][d + 1] = m
    BY <2>1
  <2>3. \A i \in 1..d : delivered'[e][i] = delivered[e][i]
    BY <2>1
  <2>4. \A i \in 1..d : delivered[e][i] = i
    BY <1>4, <1>11 DEF Prefix
  <2>5. \A i \in 1..(d + 1) : i \in 1..d \/ i = d + 1
    OBVIOUS
  <2> QED
    BY <1>12, <2>2, <2>3, <2>4, <2>5
<1>14. Prefix(e)'
  <2>1. d + 1 <= Len(sent'[x])
    BY <1>2, <1>4, <1>5, <1>12
  <2> QED
    BY <1>a, <1>13, <2>1 DEF Prefix
<1>15. Part(e, 1)' = <<Len(delivered'[e]) + 1, 1>>
  <2>1. 1 \in 1..(a + b - n + 1) /\ n \in 1..(a + b)
    BY <1>5
  <2>2. Part(e, 1)' = Part(e, n + 1)
    BY <1>10, <2>1
  <2>3. At(e, n) = <<m, n>>
    <3>1. n \in 1..n /\ n \in 1..a
      BY <1>5
    <3>2. batch[e][n] = <<m, n>>
      BY <1>1, <3>1
    <3>3. n <= Len(batch[e])
      BY <1>4, <1>5
    <3> QED
      BY <3>2, <3>3 DEF At
  <2>4. Part(e, n + 1) = Follows(x, <<m, n>>)
    <3>1. n \in 1..Count(e)
      BY <1>6, <2>1
    <3> QED
      BY <1>a, <1>11, <2>3, <3>1 DEF Contiguous
  <2>5. Follows(x, <<m, n>>) = <<m + 1, 1>>
    <3>1. n = sent[x][m]
      BY <1>1, Zenon
    <3>2. ~(n < sent[x][m])
      BY <1>5, <3>1
    <3> QED
      BY <3>2 DEF Follows
  <2> QED
    BY <1>12, <1>13, <2>2, <2>4, <2>5
<1>16. ASSUME NEW k \in 1..(a + b - n)
       PROVE  Part(e, k + 1)' = Follows(x, At(e, k))'
  <2>1. PICK p : p = At(e, n + k)
    OBVIOUS
  <2>2. n + k \in 1..(a + b) /\ At(e, k)' = p
    BY <1>8, <2>1
  <2>3. Part(e, n + k + 1) = Follows(x, p)
    BY <1>6, <1>11, <1>a, <2>1, <2>2 DEF Contiguous
  <2>4. Follows(x, At(e, k))' = Follows(x, p)
    BY <1>2, <2>2 DEF Follows
  <2>5. k + 1 \in 1..(a + b - n + 1) /\ n + (k + 1) = n + k + 1
    BY <1>5
  <2>6. Part(e, k + 1)' = Part(e, n + (k + 1))
    BY <1>10, <2>5
  <2> QED
    BY <2>3, <2>4, <2>5, <2>6
<1> QED
  BY <1>a, <1>7, <1>11, <1>14, <1>15, <1>16 DEF Contiguous

(* What an end in step has read always goes on with a message, or with the *)
(* first parts of one.                                                     *)
LEMMA NoGarbage ==
  ASSUME TypeOK, \A y \in Ends : Known(y), NEW e \in Ends, InStep(e),
         Listens(e), ~cut[Other(e)], batch[e] # <<>>
  PROVE  WholeNext(e) \/ CutNext(e)
<1>a. PICK x \in Ends : x = Other(e)
  BY Ends2
<1>1. batch[e] \in Seq(Nat \X Nat) /\ Len(batch[e]) \in Nat \ {0}
      /\ Head(batch[e]) = batch[e][1]
  BY DEF TypeOK
<1>2. PICK a \in Nat \ {0}, b \in Nat : a = Len(batch[e]) /\ b = Len(wire[x])
  BY <1>1 DEF TypeOK
<1>3. PICK m : m = batch[e][1][1]
  OBVIOUS
<1>4. m \in 1..Len(sent[x])
  BY <1>a, <1>2, <1>3 DEF Known, PartOf
<1>5. PICK l \in Nat \ {0} : l = sent[x][m]
  <2>1. sent[x] \in Seq(Nat \ {0})
    BY DEF TypeOK
  <2> QED
    BY <1>4, <2>1
<1>6. Contiguous(e)
  BY DEF InStep
<1>7. Count(e) = a + b
  BY <1>a, <1>2 DEF Count
<1>8. \A k \in 1..a : At(e, k) = batch[e][k] /\ Part(e, k) = batch[e][k]
  <2> SUFFICES ASSUME NEW k \in 1..a
               PROVE  At(e, k) = batch[e][k] /\ Part(e, k) = batch[e][k]
    OBVIOUS
  <2>1. k <= a /\ k <= a + b
    OBVIOUS
  <2>2. At(e, k) = batch[e][k]
    BY <1>2, <2>1 DEF At
  <2> QED
    BY <1>7, <2>1, <2>2 DEF Part
<1>9. batch[e][1] = <<m, 1>>
  <2>1. 1 \in 1..a
    OBVIOUS
  <2> QED
    BY <1>3, <1>6, <1>8, <2>1 DEF Contiguous
<1>10. \A k \in 1..a : k <= l => batch[e][k] = <<m, k>>
  <2> DEFINE S == {k \in 1..a : k <= l /\ batch[e][k] # <<m, k>>}
  <2> SUFFICES ASSUME S # {}
               PROVE  FALSE
    OBVIOUS
  <2>1. S \in SUBSET Nat
    OBVIOUS
  <2>2. PICK k \in S : \A j \in S : k <= j
    <3> HIDE DEF S
    <3> QED
      BY <2>1, LeastOf
  <2>3. k \in 1..a /\ k <= l /\ batch[e][k] # <<m, k>>
    BY <2>2
  <2>4. k # 1
    BY <1>9, <2>3
  <2>5. PICK j : j = k - 1
    OBVIOUS
  <2>6. j \in 1..a /\ j < l /\ k = j + 1 /\ j <= l /\ ~(k <= j) /\ j \in 1..(a + b)
    BY <2>3, <2>4, <2>5
  <2>7. batch[e][j] = <<m, j>>
    BY <2>2, <2>6
  <2>8. Part(e, k) = Follows(x, <<m, j>>)
    BY <1>a, <1>6, <1>7, <1>8, <2>6, <2>7 DEF Contiguous
  <2>9. Follows(x, <<m, j>>) = <<m, k>>
    BY <1>5, <2>6 DEF Follows
  <2> QED
    BY <1>8, <2>3, <2>8, <2>9
<1>11. CASE l <= a
  <2>1. l \in 0..Len(batch[e])
    <3>1. l \in 0..a
      BY <1>11
    <3> QED
      BY <1>2, <3>1
  <2>2. PICK S : S = Nat \X Nat
    OBVIOUS
  <2>3. /\ SubSeq(batch[e], 1, l) \in Seq(S) /\ Len(SubSeq(batch[e], 1, l)) = l
        /\ \A i \in 1..l : SubSeq(batch[e], 1, l)[i] = batch[e][i]
    BY <1>1, <2>1, <2>2, CutAt
  <2>4. \A i \in 1..l : SubSeq(batch[e], 1, l)[i] = <<m, i>>
    BY <1>10, <1>11, <2>3
  <2>5. SubSeq(batch[e], 1, l) = [i \in 1..l |-> <<m, i>>]
    BY <2>3, <2>4
  <2>6. Parts(x, m) = [i \in 1..l |-> <<m, i>>]
    BY <1>5 DEF Parts
  <2> QED
    <3>1. Head(batch[e])[1] = m /\ sent[Other(e)][m] = l
      BY <1>1, <1>a, <1>3, <1>5
    <3>2. l <= Len(batch[e])
      BY <1>2, <1>11
    <3>3. SubSeq(batch[e], 1, l) = Parts(Other(e), m)
      BY <1>a, <2>5, <2>6
    <3> QED
      BY <3>1, <3>2, <3>3 DEF WholeNext
<1>12. CASE ~(l <= a)
  <2>1. \A i \in 1..a : batch[e][i] = <<m, i>>
    BY <1>10, <1>12
  <2>2. DOMAIN batch[e] = 1..a
    BY <1>1, <1>2
  <2> QED
    BY <1>1, <1>3, <2>1, <2>2 DEF CutNext
<1> QED
  BY <1>11, <1>12

-----------------------------------------------------------------------------
(* An end that fails is in step, as it has stopped listening; the other is *)
(* too, to which it sends nothing more or a last message.                  *)
LEMMA FailInStep ==
  ASSUME TypeOK, \A y \in Ends : Known(y) /\ InStep(y), NEW e \in Ends,
         Fail(e), life[e] = "open", ~sending[e], wire' = wire,
         delivered' = delivered
  PROVE  \A y \in Ends : InStep(y)'
<1>a. PICK x \in Ends : x = Other(e) /\ x # e /\ e = Other(x)
  BY Ends2
<1>1. /\ ~Listens(e)' /\ cut' = cut /\ batch'[x] = batch[x]
      /\ life'[x] = life[x] /\ pc'[x] = pc[x]
  BY <1>a, Failed DEF TypeOK
<1>2. CASE sent' = sent /\ put' = put /\ sending' = sending
  <2>1. InStep(e)'
    BY <1>a, <1>1, <1>2, StaysInStep
  <2>2. Whole(e) => Whole(e)'
    BY <1>2 DEF Whole, AllPut, Length
  <2>3. Listens(x)' => Listens(x)
    BY <1>1 DEF Listens
  <2>4. InStep(x)'
    BY <1>a, <1>1, <1>2, <2>2, <2>3, StaysInStep
  <2> QED
    BY <1>a, <2>1, <2>4, Ends2
<1>3. CASE Begin(e, 1)
  <2>0. 1 \in Nat \ {0}
    OBVIOUS
  <2>1. sent'[x] = sent[x]
    BY <1>a, <1>3, <2>0, BegunOther
  <2>2. InStep(e)'
    BY <1>a, <1>1, <2>1, StaysInStep
  <2>3. Listens(x)' => Listens(x)
    BY <1>1 DEF Listens
  <2>4. InStep(x)'
    BY <1>a, <1>1, <1>3, <2>0, <2>3, BegunInStep
  <2> QED
    BY <1>a, <2>2, <2>4, Ends2
<1> QED
  BY <1>2, <1>3, Failed

(* Every action of an end leaves both ends in step. *)
LEMMA StepInStep ==
  ASSUME IInv, NEW e \in Ends, Send(e) \/ SendGoesOn(e) \/ Reading(e) \/ Exit(e)
  PROVE  \A y \in Ends : InStep(y)'
<1>a. PICK x \in Ends : x = Other(e) /\ x # e /\ e = Other(x)
  BY Ends2
<1>b. /\ TypeOK /\ \A y \in Ends : SendOK(y) /\ Known(y) /\ InStep(y)
      /\ \A y \in Ends : y = e \/ y = x
  BY <1>a, Ends2 DEF IInv
<1>1. CASE Send(e)
  <2>1. PICK n \in Nat \ {0} : Begin(e, n)
    BY <1>1, TransportAssumption DEF Send
  <2>2. /\ life' = life /\ pc' = pc /\ wire' = wire /\ batch' = batch
        /\ delivered' = delivered /\ cut' = cut
        /\ life[e] = "open" /\ ~sending[e]
    BY <1>1 DEF Send
  <2>3. sent'[x] = sent[x] /\ put'[x] = put[x] /\ sending'[x] = sending[x]
    BY <1>a, <1>b, <2>1, BegunOther
  <2>4. \A y \in Ends : Listens(y)' => Listens(y)
    BY <2>2 DEF Listens
  <2>5. Whole(x) => Whole(x)'
    BY <2>2, <2>3 DEF Whole, AllPut, Length
  <2>6. InStep(e)'
    BY <1>a, <1>b, <2>2, <2>3, <2>4, <2>5, StaysInStep
  <2>7. InStep(x)'
    BY <1>a, <1>b, <2>1, <2>2, <2>4, BegunInStep
  <2> QED
    BY <1>b, <2>6, <2>7
<1>2. CASE TakePiece(e)
  <2>1. InStep(x)'
    BY <1>a, <1>b, <1>2, PieceInStep
  <2>2. /\ life' = life /\ pc' = pc /\ batch' = batch /\ sent' = sent
        /\ delivered' = delivered /\ cut' = cut
        /\ wire'[x] = wire[x] /\ put'[x] = put[x] /\ sending'[x] = sending[x]
    BY <1>a, <1>b, <1>2 DEF TakePiece, TypeOK
  <2>3. (Listens(e)' => Listens(e)) /\ (Whole(x) => Whole(x)')
    BY <2>2 DEF Listens, Whole, AllPut, Length
  <2>4. InStep(e)'
    BY <1>a, <1>b, <2>2, <2>3, StaysInStep
  <2> QED
    BY <1>b, <2>1, <2>4
<1>3. CASE ShortWrite(e)
  <2>1. /\ life' = life /\ pc' = pc /\ batch' = batch /\ sent' = sent
        /\ delivered' = delivered /\ wire' = wire /\ put' = put
        /\ cut'[e] = TRUE /\ cut'[x] = cut[x] /\ sending'[x] = sending[x]
    BY <1>a, <1>b, <1>3 DEF ShortWrite, TypeOK
  <2>2. InStep(x)'
    BY <1>a, <2>1 DEF InStep
  <2>3. (Listens(e)' => Listens(e)) /\ (Whole(x) => Whole(x)')
    BY <2>1 DEF Listens, Whole, AllPut, Length
  <2>4. InStep(e)'
    BY <1>a, <1>b, <2>1, <2>3, StaysInStep
  <2> QED
    BY <1>b, <2>2, <2>4
<1>4. CASE PeerGone(e)
  <2>1. /\ life' = life /\ pc' = pc /\ batch' = batch /\ sent' = sent
        /\ delivered' = delivered /\ wire' = wire /\ put' = put /\ cut' = cut
        /\ sending'[x] = sending[x]
    BY <1>a, <1>b, <1>4 DEF PeerGone, TypeOK
  <2>2. ~Listens(x)'
    BY <1>a, <1>4, <2>1 DEF PeerGone, Dead, Listens
  <2>3. InStep(x)'
    BY <1>a, <1>b, <2>1, <2>2, StaysInStep
  <2>4. (Listens(e)' => Listens(e)) /\ (Whole(x) => Whole(x)')
    BY <2>1 DEF Listens, Whole, AllPut, Length
  <2>5. InStep(e)'
    BY <1>a, <1>b, <2>1, <2>4, StaysInStep
  <2> QED
    BY <1>b, <2>3, <2>5
<1>5. CASE FatalSent(e)
  <2>1. /\ batch' = batch /\ sent' = sent /\ delivered' = delivered
        /\ wire' = wire /\ put' = put /\ cut' = cut /\ sending' = sending
        /\ life'[x] = life[x] /\ pc'[x] = pc[x] /\ life'[e] = "error"
    BY <1>a, <1>b, <1>5 DEF FatalSent, TypeOK, outs
  <2>2. /\ ~Listens(e)' /\ (Listens(x)' => Listens(x))
        /\ Whole(e)'
    BY <2>1 DEF Listens, Whole
  <2>3. InStep(e)'
    BY <1>a, <1>b, <2>1, <2>2, StaysInStep
  <2>4. InStep(x)'
    BY <1>a, <1>b, <2>1, <2>2, StaysInStep
  <2> QED
    BY <1>b, <2>3, <2>4
<1>6. CASE Recv(e)
  <2>1. InStep(e)'
    BY <1>b, <1>6, ReadInStep
  <2>2. /\ life' = life /\ sent' = sent /\ sending' = sending /\ put' = put
        /\ cut' = cut /\ delivered' = delivered /\ pc'[x] = pc[x]
        /\ batch'[x] = batch[x] /\ wire'[e] = wire[e]
    BY <1>a, <1>b, <1>6 DEF Recv, TypeOK, outs
  <2>3. (Listens(x)' => Listens(x)) /\ (Whole(e) => Whole(e)')
    BY <2>2 DEF Listens, Whole, AllPut, Length
  <2>4. InStep(x)'
    BY <1>a, <1>b, <2>2, <2>3, StaysInStep
  <2> QED
    BY <1>b, <2>1, <2>4
<1>7. CASE /\ Fail(e) /\ wire' = wire /\ delivered' = delivered
           /\ life[e] = "open" /\ ~sending[e]
  BY <1>b, <1>7, FailInStep
<1>8. CASE RecvEnd(e) /\ ~Fail(e)
  <2>1. /\ batch' = batch /\ wire' = wire /\ delivered' = delivered
        /\ sent' = sent /\ sending' = sending /\ put' = put /\ cut' = cut
        /\ life'[x] = life[x] /\ pc'[x] = pc[x] /\ life[e] = "open" /\ ~sending[e]
    BY <1>a, <1>b, <1>8 DEF RecvEnd, Reads, TypeOK, outs
  <2>2. Listens(e)' => Listens(e)
    BY <1>8 DEF RecvEnd, Reads, Listens
  <2>3. (Listens(x)' => Listens(x)) /\ (Whole(x) => Whole(x)') /\ (Whole(e) => Whole(e)')
    BY <2>1 DEF Listens, Whole, AllPut, Length
  <2>4. InStep(e)' /\ InStep(x)'
    BY <1>a, <1>b, <2>1, <2>2, <2>3, StaysInStep
  <2> QED
    BY <1>b, <2>4
<1>9. CASE Handle(e)
  <2>1. InStep(e)'
    BY <1>b, <1>9, HandleInStep
  <2>2. /\ life' = life /\ sent' = sent /\ sending' = sending /\ put' = put
        /\ cut' = cut /\ wire' = wire /\ pc'[x] = pc[x]
        /\ batch'[x] = batch[x] /\ delivered'[x] = delivered[x]
    BY <1>a, <1>b, <1>9 DEF Handle, TypeOK, outs
  <2>3. (Listens(x)' => Listens(x)) /\ (Whole(e) => Whole(e)')
    BY <2>2 DEF Listens, Whole, AllPut, Length
  <2>4. InStep(x)'
    BY <1>a, <1>b, <2>2, <2>3, StaysInStep
  <2> QED
    BY <1>b, <2>1, <2>4
<1>10. CASE HandleGarbage(e) /\ ~(Fail(e) /\ delivered' = delivered)
  <2>1. /\ life' = life /\ sent' = sent /\ sending' = sending /\ put' = put
        /\ cut' = cut /\ wire' = wire /\ pc'[x] = pc[x]
        /\ batch'[x] = batch[x] /\ delivered'[x] = delivered[x]
    BY <1>a, <1>b, <1>10 DEF HandleGarbage, TypeOK, outs
  <2>2. Listens(e) /\ batch[e] # <<>> /\ ~WholeNext(e) /\ ~CutNext(e)
    BY <1>10 DEF HandleGarbage, InBatch, Listens
  <2>3. cut[x]
    BY <1>a, <1>b, <2>2, NoGarbage
  <2>4. InStep(e)'
    BY <1>a, <2>1, <2>3 DEF InStep
  <2>5. (Listens(x)' => Listens(x)) /\ (Whole(e) => Whole(e)')
    BY <2>1 DEF Listens, Whole, AllPut, Length
  <2>6. InStep(x)'
    BY <1>a, <1>b, <2>1, <2>5, StaysInStep
  <2> QED
    BY <1>b, <2>4, <2>6
<1>11. CASE BatchEnds(e)
  <2>1. /\ batch' = batch /\ wire' = wire /\ delivered' = delivered
        /\ sent' = sent /\ sending' = sending /\ put' = put /\ cut' = cut
        /\ life' = life /\ pc'[x] = pc[x]
    BY <1>a, <1>b, <1>11 DEF BatchEnds, TypeOK, outs
  <2>2. Listens(e)' => Listens(e)
    BY <1>11 DEF BatchEnds, InBatch, Listens
  <2>3. (Listens(x)' => Listens(x)) /\ (Whole(x) => Whole(x)') /\ (Whole(e) => Whole(e)')
    BY <2>1 DEF Listens, Whole, AllPut, Length
  <2>4. InStep(e)' /\ InStep(x)'
    BY <1>a, <1>b, <2>1, <2>2, <2>3, StaysInStep
  <2> QED
    BY <1>b, <2>4
<1>12. CASE Exit(e)
  <2>1. /\ wire' = wire /\ delivered' = delivered /\ sent' = sent
        /\ put' = put /\ cut' = cut /\ life'[x] = life[x] /\ pc'[x] = pc[x]
        /\ batch'[x] = batch[x] /\ life'[e] = "exited"
    BY <1>a, <1>b, <1>12 DEF Exit, TypeOK
  <2>2. /\ ~Listens(e)' /\ (Listens(x)' => Listens(x)) /\ Whole(e)'
    BY <2>1 DEF Listens, Whole
  <2>3. InStep(e)' /\ InStep(x)'
    BY <1>a, <1>b, <2>1, <2>2, StaysInStep
  <2> QED
    BY <1>b, <2>3
<1>13. CASE RecvNothing(e)
  BY <1>7, <1>13 DEF RecvNothing, Reads
<1>14. CASE RecvEnd(e)
  BY <1>7, <1>8, <1>14 DEF RecvEnd, Reads
<1>15. CASE HandleCut(e) \/ HandleGarbage(e)
  BY <1>7, <1>10, <1>15 DEF HandleCut, HandleGarbage, InBatch
<1> QED
  BY <1>1, <1>2, <1>3, <1>4, <1>5, <1>6, <1>9, <1>11, <1>12, <1>13, <1>14, <1>15
     DEF SendGoesOn, Reading

-----------------------------------------------------------------------------
(* The invariant holds. *)
LEMMA Inductive ==
  Spec => []IInv
<1>1. Init => IInv
  <2> SUFFICES ASSUME Init
               PROVE  IInv
    OBVIOUS
  <2>1. TypeOK
    BY EmptySeq DEF Init, TypeOK
  <2>2. \A y \in Ends : SendOK(y) /\ Known(y)
    BY Ends2 DEF Init, SendOK, Known
  <2>3. ASSUME NEW y \in Ends
        PROVE  InStep(y)
    <3>1. Other(y) \in Ends
      BY Ends2
    <3>2. Count(y) = 0
      BY <3>1 DEF Init, Count
    <3>3. Part(y, 1) = <<1, 1>>
      BY <3>1, <3>2 DEF Init, Part, Coming, AllPut
    <3>4. Contiguous(y)
      BY <3>2, <3>3 DEF Init, Contiguous
    <3> QED
      BY <3>1, <3>4 DEF Init, InStep, Prefix, Whole, AllPut
  <2> QED
    BY <2>1, <2>2, <2>3 DEF IInv
<1>2. IInv /\ [Next]_vars => IInv'
  <2> SUFFICES ASSUME IInv, [Next]_vars
               PROVE  IInv'
    OBVIOUS
  <2>1. CASE UNCHANGED vars
    <3>1. \A y \in Ends : Whole(y) => Whole(y)'
      BY <2>1 DEF vars, outs, Whole, AllPut, Length
    <3>2. \A y \in Ends : Listens(y)' => Listens(y)
      BY <2>1 DEF vars, Listens
    <3>3. ASSUME NEW y \in Ends
          PROVE  InStep(y)'
      BY <2>1, <3>1, <3>2, StaysInStep, Ends2 DEF IInv, vars, outs
    <3>4. \A y \in Ends : SendOK(y)' /\ Known(y)'
      BY <2>1, Untouched DEF IInv, vars, outs
    <3>5. TypeOK'
      BY <2>1 DEF IInv, TypeOK, vars, outs
    <3> QED
      BY <3>3, <3>4, <3>5 DEF IInv
  <2>2. ASSUME NEW e \in Ends, Send(e) \/ SendGoesOn(e) \/ Reading(e) \/ Exit(e)
        PROVE  IInv'
    <3>1. \A y \in Ends : InStep(y)'
      BY <2>2, StepInStep
    <3>2. TypeOK' /\ \A y \in Ends : SendOK(y)' /\ Known(y)'
      BY <2>2, SendsKeep, ReadsKeep, HandlingKeeps DEF IInv, Reading
    <3> QED
      BY <3>1, <3>2 DEF IInv
  <2> QED
    BY <2>1, <2>2 DEF Next
<1> QED
  BY <1>1, <1>2, PTL DEF Spec

(* The variables have their types: what an end is doing, the lengths and   *)
(* the parts of what crosses the stream.                                   *)
THEOREM TypeCorrect ==
  Spec => []TypeOK
<1>1. IInv => TypeOK
  BY DEF IInv
<1> QED
  BY <1>1, Inductive, PTL

(* What read_from_socket and handle_message make of the bytes is what      *)
(* send_message was given: whole messages, each once, in their order,      *)
(* unless a sendmsg took only a part of one.                               *)
THEOREM MessagesKeepTheirOrder ==
  Spec => []DeliveredInOrder
<1>1. IInv => DeliveredInOrder
  <2> SUFFICES ASSUME IInv, NEW e \in Ends, ~cut[Other(e)]
               PROVE  /\ Len(delivered[e]) <= Len(sent[Other(e)])
                      /\ \A i \in DOMAIN delivered[e] : delivered[e][i] = i
    BY DEF DeliveredInOrder
  <2>1. Prefix(e)
    BY DEF IInv, InStep
  <2>2. DOMAIN delivered[e] = 1..Len(delivered[e])
    BY DEF IInv, TypeOK
  <2> QED
    BY <2>1, <2>2 DEF Prefix
<1> QED
  BY <1>1, Inductive, PTL
=============================================================================

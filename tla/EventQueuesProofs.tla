-------------------------- MODULE EventQueuesProofs --------------------------
(***************************************************************************)
(* Proofs about EventQueues, for every set of queues, however their calls  *)
(* overlap: the type invariant, that the poller's one-shot interest is     *)
(* never lost, and that no message is handled twice or out of its queue's  *)
(* order; and, until calls overlap, that a roundtrip returns with the      *)
(* acknowledgment of its own request.                                      *)
(*                                                                         *)
(* The second rests on Shot, which holds also while no call waits. The     *)
(* third rests on StreamOrder: the numbers of the messages ascend from     *)
(* what a queue has handled, through what it has read, to the stream, and  *)
(* no two queues have seen the same one. The last rests on InOnePlace: of  *)
(* the one roundtrip under way, the request or its acknowledgment is in a  *)
(* single place, and nothing of another is in any.                         *)
(***************************************************************************)
EXTENDS EventQueues, TLAPS

\* The interest is armed, or a call has been woken and is about to arm it.
Shot == armed \/ \E q \in Queues : pc[q] = "woken"

Nos(s) == {s[i].no : i \in 1..Len(s)}

Ascending(s) == \A i, j \in 1..Len(s) : i < j => s[i].no < s[j].no

\* The messages a queue has handled, or read.
Seen(q, read, done) == done[q] \cup Nos(read[q])

\* The messages of the stream, the last of them numbered n, in their order.
Order(stream, n, read, done) ==
  /\ Ascending(stream)
  /\ \A k \in Nos(stream) : k <= n
  /\ \A q \in Queues :
       /\ Ascending(read[q])
       /\ \A m \in Seen(q, read, done) : m <= n /\ \A k \in Nos(stream) : m < k
       /\ \A m \in done[q], k \in Nos(read[q]) : m < k
       /\ \A r \in Queues \ {q} :
            Seen(q, read, done) \cap Seen(r, read, done) = {}

StreamOrder == Order(s2c, sentNo, batch, handled)

IInv == TypeOK /\ Shot /\ StreamOrder

-----------------------------------------------------------------------------
(* Facts about sequences. *)

\* A message put at the end of a sequence.
LEMMA AppendFacts ==
  ASSUME NEW T, NEW s \in Seq(T), NEW x \in T
  PROVE  /\ Append(s, x) \in Seq(T)
         /\ Len(Append(s, x)) = Len(s) + 1 /\ Len(s) \in Nat
         /\ \A i \in 1..Len(s) : Append(s, x)[i] = s[i]
         /\ Append(s, x)[Len(s) + 1] = x
  OBVIOUS

\* The first message taken off a sequence.
LEMMA TailFacts ==
  ASSUME NEW T, NEW s \in Seq(T), s # <<>>
  PROVE  /\ Head(s) = s[1] /\ Head(s) \in T /\ 1 \in 1..Len(s)
         /\ Tail(s) \in Seq(T)
         /\ Len(s) \in Nat /\ Len(Tail(s)) = Len(s) - 1
         /\ \A i \in 1..Len(Tail(s)) : Tail(s)[i] = s[i + 1] /\ i + 1 \in 1..Len(s)
  OBVIOUS

\* A sequence of messages cut in two.
LEMMA CutFacts ==
  ASSUME NEW T, NEW s \in Seq(T), NEW n \in 1..Len(s)
  PROVE  /\ Len(s) \in Nat
         /\ SubSeq(s, 1, n) \in Seq(T) /\ Len(SubSeq(s, 1, n)) = n
         /\ \A i \in 1..n : SubSeq(s, 1, n)[i] = s[i] /\ i \in 1..Len(s)
         /\ SubSeq(s, n + 1, Len(s)) \in Seq(T)
         /\ Len(SubSeq(s, n + 1, Len(s))) = Len(s) - n
         /\ \A i \in 1..(Len(s) - n) :
              SubSeq(s, n + 1, Len(s))[i] = s[n + i] /\ n + i \in 1..Len(s)
  OBVIOUS

\* An ascending sequence stays ascending with a higher number at its end.
LEMMA AppendAscends ==
  ASSUME NEW s \in Seq(Messages), NEW x \in Messages, Ascending(s),
         \A m \in Nos(s) : m < x.no
  PROVE  Ascending(Append(s, x)) /\ Nos(Append(s, x)) = Nos(s) \cup {x.no}
<1>1. /\ Len(Append(s, x)) = Len(s) + 1 /\ Len(s) \in Nat
      /\ \A i \in 1..Len(s) : Append(s, x)[i] = s[i]
      /\ Append(s, x)[Len(s) + 1] = x
  BY AppendFacts
<1>2. Ascending(Append(s, x))
  BY <1>1 DEF Ascending, Nos
<1>3. Nos(Append(s, x)) = Nos(s) \cup {x.no}
  BY <1>1 DEF Nos
<1> QED BY <1>2, <1>3

\* Its first message is below the others.
LEMMA TailAscends ==
  ASSUME NEW s \in Seq(Messages), s # <<>>, Ascending(s)
  PROVE  /\ Ascending(Tail(s)) /\ Head(s).no \in Nos(s)
         /\ Nos(Tail(s)) \subseteq Nos(s)
         /\ \A n \in Nos(Tail(s)) : Head(s).no < n
<1>1. /\ Head(s) = s[1] /\ 1 \in 1..Len(s)
      /\ Len(s) \in Nat /\ Len(Tail(s)) = Len(s) - 1
      /\ \A i \in 1..Len(Tail(s)) : Tail(s)[i] = s[i + 1] /\ i + 1 \in 1..Len(s)
  BY TailFacts
<1> QED BY <1>1 DEF Ascending, Nos

\* Cut in two, the first part is below the second.
LEMMA CutAscends ==
  ASSUME NEW s \in Seq(Messages), NEW n \in 1..Len(s), Ascending(s)
  PROVE  LET a == SubSeq(s, 1, n)
             b == SubSeq(s, n + 1, Len(s))
         IN /\ Ascending(a) /\ Ascending(b)
            /\ Nos(a) \subseteq Nos(s) /\ Nos(b) \subseteq Nos(s)
            /\ \A x \in Nos(a), y \in Nos(b) : x < y
<1> DEFINE a == SubSeq(s, 1, n)
           b == SubSeq(s, n + 1, Len(s))
<1>1. /\ Len(s) \in Nat /\ Len(a) = n /\ Len(b) = Len(s) - n
      /\ \A i \in 1..n : a[i] = s[i] /\ i \in 1..Len(s)
      /\ \A i \in 1..(Len(s) - n) : b[i] = s[n + i] /\ n + i \in 1..Len(s)
  BY CutFacts
<1> HIDE DEF a, b
<1>2. Ascending(a) /\ Nos(a) \subseteq Nos(s)
  BY <1>1 DEF Ascending, Nos
<1>3. Ascending(b) /\ Nos(b) \subseteq Nos(s)
  <2>1. ASSUME NEW i \in 1..(Len(s) - n), NEW j \in 1..(Len(s) - n), i < j
        PROVE  b[i].no < b[j].no
    <3>1. n + i < n + j
      BY <1>1, <2>1
    <3> QED BY <1>1, <2>1, <3>1 DEF Ascending
  <2>2. ASSUME NEW x \in Nos(b) PROVE x \in Nos(s)
    <3>1. PICK j \in 1..(Len(s) - n) : x = b[j].no
      BY <1>1 DEF Nos
    <3> QED BY <1>1, <3>1 DEF Nos
  <2> QED BY <1>1, <2>1, <2>2 DEF Ascending
<1>4. ASSUME NEW i \in 1..n, NEW j \in 1..(Len(s) - n) PROVE a[i].no < b[j].no
  <2>1. i \in 1..Len(s) /\ n + j \in 1..Len(s) /\ a[i] = s[i] /\ b[j] = s[n + j]
    BY <1>1
  <2>2. i < n + j
    BY <1>1
  <2>3. s[i].no < s[n + j].no
    BY <2>1, <2>2 DEF Ascending
  <2> QED BY <2>1, <2>3
<1>5. ASSUME NEW x \in Nos(a), NEW y \in Nos(b) PROVE x < y
  <2>1. PICK i \in 1..n : x = a[i].no
    BY <1>1 DEF Nos
  <2>2. PICK j \in 1..(Len(s) - n) : y = b[j].no
    BY <1>1 DEF Nos
  <2> QED BY <1>4, <2>1, <2>2
<1> QED BY <1>2, <1>3, <1>5 DEF a, b

\* The numbers of messages are natural numbers.
LEMMA NosNat ==
  ASSUME NEW s \in Seq(Messages)
  PROVE  Nos(s) \subseteq Nat
<1>1. \A i \in 1..Len(s) : s[i] \in Messages
  OBVIOUS
<1>2. \A m \in Messages : m.no \in Nat
  BY DEF Messages
<1> QED BY <1>1, <1>2 DEF Nos

-----------------------------------------------------------------------------
(* The initial state, and what a returning call leaves. *)

\* A client starts in the invariant.
LEMMA InitInv == Init => IInv
<1> SUFFICES ASSUME Init PROVE IInv
  OBVIOUS
<1>1. FlagsOK
  BY Zenon DEF Init, FlagsOK
<1>2. CallsOK /\ TrafficOK /\ ServerOK
  BY DEF Init, CallsOK, TrafficOK, ServerOK
<1>3. Shot
  BY DEF Init, Shot
<1>4. StreamOrder
  BY DEF Init, StreamOrder, Order, Ascending, Nos, Seen
<1> QED BY <1>1, <1>2, <1>3, <1>4 DEF IInv, TypeOK

\* One value of a function replaced by another of its type.
LEMMA ExceptType ==
  ASSUME NEW S, NEW T, NEW f \in [S -> T], NEW x \in S, NEW v \in T
  PROVE  [f EXCEPT ![x] = v] \in [S -> T]
  OBVIOUS

\* A history of calls that overlap stays one.
LEMMA OverlapType ==
  ASSUME overlapped \in BOOLEAN, Begin \/ UNCHANGED overlapped
  PROVE  overlapped' \in BOOLEAN /\ (overlapped => overlapped')
<1>1. CASE Begin
  <2>1. overlapped' = (overlapped \/ \E r \in Queues : UnderWay(r))
    BY <1>1, Zenon DEF Begin
  <2>2. \A x : (x = (overlapped \/ \E r \in Queues : UnderWay(r))) => x \in BOOLEAN
    BY Zenon
  <2> QED BY <2>1, <2>2, Zenon
<1>2. CASE UNCHANGED overlapped
  BY <1>2, Zenon
<1> QED BY <1>1, <1>2, Zenon

\* The calls that overlap are remembered.
LEMMA NextOverlap ==
  ASSUME overlapped \in BOOLEAN, [Next]_vars
  PROVE  overlapped' \in BOOLEAN /\ (overlapped => overlapped')
<1>1. ASSUME NEW q \in Queues, ReturnOk(q) \/ ReturnErr(q)
      PROVE  UNCHANGED overlapped
  BY <1>1, Zenon DEF ReturnOk, ReturnErr
<1>2. ASSUME NEW q \in Queues, Dispatch(q) \/ Roundtrip(q)
      PROVE  Begin
  BY <1>2, Zenon DEF Dispatch, Roundtrip
<1>3. ASSUME NEW q \in Queues, GoesOn(q)
      PROVE  UNCHANGED overlapped
  BY <1>1, <1>3 DEF GoesOn, TripDispatches, TripReturns, TripFails, PollEnters,
     PollBusy, PollNothing, PollWakes, Rearm, Read, ReadNothing, ReadEnd,
     HandleNewObject, HandleRoundtripDone, HandleEvent, HandleUnknown,
     HandlerReturns, DispatchReturns, calls
<1>4. ASSUME MakeObject \/ ServerDispatch \/ SendEvent \/ ServerExits
      PROVE  UNCHANGED overlapped
  BY <1>4 DEF MakeObject, ServerDispatch, ServerReads, HandleRoundtripRequest,
     HandleMake, ServerEndsBatch, SendEvent, ServerExits, client, calls
<1>5. CASE UNCHANGED vars
  BY <1>5, OverlapType DEF vars, calls
<1> QED BY <1>2, <1>3, <1>4, <1>5, OverlapType, Zenon DEF Next

\* What a returning call leaves.
LEMMA Returns ==
  ASSUME TypeOK, NEW q \in Queues, ReturnOk(q) \/ ReturnErr(q)
  PROVE  /\ pc' = [pc EXCEPT ![q] = "app"]
         /\ UNCHANGED <<last, ackd, block, overlapped>>
         /\ trip' \in [Queues -> BOOLEAN] /\ failed' \in [Queues -> BOOLEAN]
<1>1. CASE ReturnOk(q)
  BY <1>1, Zenon DEF ReturnOk, Goto, trips, TypeOK, FlagsOK
<1>2. CASE ReturnErr(q)
  <2>1. trip' \in [Queues -> BOOLEAN] /\ failed' \in [Queues -> BOOLEAN]
    BY <1>2, ExceptType, Zenon DEF ReturnErr, TypeOK, FlagsOK
  <2> QED BY <1>2, <2>1 DEF ReturnErr, Goto
<1> QED BY <1>1, <1>2

\* A call goes from one place to another.
LEMMA GotoType ==
  ASSUME CallsOK, NEW q \in Queues,
         NEW place \in {"app", "poll", "wait", "woken", "read", "batch", "handler"},
         pc' = [pc EXCEPT ![q] = place]
  PROVE  /\ pc' \in [Queues -> {"app", "poll", "wait", "woken", "read", "batch",
                                "handler"}]
         /\ pc'[q] = place /\ \A r \in Queues \ {q} : pc'[r] = pc[r]
  BY DEF CallsOK

\* The one shot is not lost by a step that neither disarms the interest nor
\* takes a woken call elsewhere.
LEMMA ShotKept ==
  ASSUME Shot, armed' = armed, \A q \in Queues : pc[q] = "woken" => pc'[q] = "woken"
  PROVE  Shot'
  BY DEF Shot

-----------------------------------------------------------------------------
(* The steps of a call that leave the messages alone. *)

Places(q) ==
  \/ Dispatch(q) \/ TripDispatches(q) \/ TripReturns(q) \/ TripFails(q)
  \/ PollEnters(q) \/ PollBusy(q) \/ PollNothing(q) \/ PollWakes(q) \/ Rearm(q)
  \/ ReadNothing(q) \/ ReadEnd(q) \/ HandlerReturns(q) \/ DispatchReturns(q)

\* They keep the types of the client's calls, and the one shot.
LEMMA PlacesStep ==
  ASSUME TypeOK, Shot, NEW q \in Queues, Places(q)
  PROVE  /\ FlagsOK' /\ CallsOK' /\ Shot'
         /\ UNCHANGED <<c2s, s2c, batch, handled, server>>
<1> USE DEF TypeOK
<1>p. CallsOK /\ FlagsOK
  OBVIOUS
<1>1. CASE Dispatch(q)
  <2>1. CallsOK' /\ Shot' /\ UNCHANGED <<c2s, s2c, batch, handled, server>>
    BY <1>1, GotoType, ShotKept DEF Dispatch, Goto, CallsOK, shared, trips, MayCall
  <2>2. FlagsOK'
    BY <1>1, ExceptType, OverlapType, Zenon DEF Dispatch, FlagsOK, shared, trips, server
  <2> QED BY <2>1, <2>2
<1>2. CASE TripDispatches(q)
  <2>1. CallsOK' /\ Shot' /\ UNCHANGED <<c2s, s2c, batch, handled, server>>
    BY <1>2, GotoType, ShotKept DEF TripDispatches, Goto, CallsOK, shared, trips
  <2>2. FlagsOK'
    BY <1>2, ExceptType, Zenon DEF TripDispatches, FlagsOK, shared, trips, server
  <2> QED BY <2>1, <2>2
<1>3. CASE TripReturns(q)
  <2>1. CallsOK' /\ Shot' /\ UNCHANGED <<c2s, s2c, batch, handled, server>>
    BY <1>3, ShotKept DEF TripReturns, CallsOK, shared, calls
  <2>2. FlagsOK'
    BY <1>3, ExceptType, Zenon DEF TripReturns, FlagsOK, shared, calls, server
  <2> QED BY <2>1, <2>2
<1>4. CASE TripFails(q)
  <2>1. /\ ReturnOk(q) \/ ReturnErr(q)
        /\ pc[q] # "woken"
        /\ UNCHANGED <<armed, known, asked, batch, handled, c2s, s2c, server>>
        /\ error' \in BOOLEAN /\ waiter' \in SUBSET Queues
    BY <1>4 DEF TripFails, shared, FlagsOK, CallsOK
  <2>2. CallsOK' /\ Shot'
    BY <2>1, Returns, GotoType, ShotKept DEF CallsOK
  <2>3. FlagsOK'
    BY <2>1, Returns, Zenon DEF FlagsOK, server
  <2> QED BY <2>1, <2>2, <2>3
<1>5. CASE PollEnters(q)
  <2>1. CallsOK' /\ Shot' /\ UNCHANGED <<c2s, s2c, batch, handled, server>>
    BY <1>5, GotoType, ShotKept DEF PollEnters, Goto, CallsOK, shared, trips
  <2>2. FlagsOK'
    BY <1>5, ExceptType, Zenon DEF PollEnters, FlagsOK, shared, trips, server
  <2> QED BY <2>1, <2>2
<1>6. CASE PollBusy(q)
  <2>1. /\ ReturnOk(q) \/ ReturnErr(q)
        /\ pc[q] # "woken"
        /\ UNCHANGED <<armed, known, asked, batch, handled, c2s, s2c, server>>
        /\ error' \in BOOLEAN /\ waiter' \in SUBSET Queues
    BY <1>6 DEF PollBusy, shared, FlagsOK, CallsOK
  <2>2. CallsOK' /\ Shot'
    BY <2>1, Returns, GotoType, ShotKept DEF CallsOK
  <2>3. FlagsOK'
    BY <2>1, Returns, Zenon DEF FlagsOK, server
  <2> QED BY <2>1, <2>2, <2>3
<1>7. CASE PollNothing(q)
  <2>1. /\ ReturnOk(q) \/ ReturnErr(q)
        /\ pc[q] # "woken"
        /\ UNCHANGED <<armed, known, asked, batch, handled, c2s, s2c, server>>
        /\ error' \in BOOLEAN /\ waiter' \in SUBSET Queues
    BY <1>7 DEF PollNothing, shared, FlagsOK, CallsOK
  <2>2. CallsOK' /\ Shot'
    BY <2>1, Returns, GotoType, ShotKept DEF CallsOK
  <2>3. FlagsOK'
    BY <2>1, Returns, Zenon DEF FlagsOK, server
  <2> QED BY <2>1, <2>2, <2>3
<1>8. CASE PollWakes(q)
  <2>1. CallsOK' /\ Shot' /\ UNCHANGED <<c2s, s2c, batch, handled, server>>
    BY <1>8, GotoType DEF PollWakes, Goto, CallsOK, trips, Shot
  <2>2. FlagsOK'
    BY <1>8, ExceptType, Zenon DEF PollWakes, FlagsOK, shared, trips, server
  <2> QED BY <2>1, <2>2
<1>9. CASE Rearm(q)
  <2>1. CallsOK' /\ Shot' /\ UNCHANGED <<c2s, s2c, batch, handled, server>>
    BY <1>9, GotoType DEF Rearm, Goto, CallsOK, trips, Shot
  <2>2. FlagsOK'
    BY <1>9, ExceptType, Zenon DEF Rearm, FlagsOK, shared, trips, server
  <2> QED BY <2>1, <2>2
<1>10. CASE ReadNothing(q)
  <2>1. /\ ReturnOk(q) \/ ReturnErr(q)
        /\ pc[q] # "woken"
        /\ UNCHANGED <<armed, known, asked, batch, handled, c2s, s2c, server>>
        /\ error' \in BOOLEAN /\ waiter' \in SUBSET Queues
    BY <1>10 DEF ReadNothing, shared, FlagsOK, CallsOK
  <2>2. CallsOK' /\ Shot'
    BY <2>1, Returns, GotoType, ShotKept DEF CallsOK
  <2>3. FlagsOK'
    BY <2>1, Returns, Zenon DEF FlagsOK, server
  <2> QED BY <2>1, <2>2, <2>3
<1>11. CASE ReadEnd(q)
  <2>1. /\ ReturnOk(q) \/ ReturnErr(q)
        /\ pc[q] # "woken"
        /\ UNCHANGED <<armed, known, asked, batch, handled, c2s, s2c, server>>
        /\ error' \in BOOLEAN /\ waiter' \in SUBSET Queues
    BY <1>11 DEF ReadEnd, shared, FlagsOK, CallsOK
  <2>2. CallsOK' /\ Shot'
    BY <2>1, Returns, GotoType, ShotKept DEF CallsOK
  <2>3. FlagsOK'
    BY <2>1, Returns, Zenon DEF FlagsOK, server
  <2> QED BY <2>1, <2>2, <2>3
<1>12. CASE HandlerReturns(q)
  <2>1. CallsOK' /\ Shot' /\ UNCHANGED <<c2s, s2c, batch, handled, server>>
    BY <1>12, GotoType, ShotKept DEF HandlerReturns, Goto, CallsOK, shared, trips
  <2>2. FlagsOK'
    BY <1>12, ExceptType, Zenon DEF HandlerReturns, FlagsOK, shared, trips, server
  <2> QED BY <2>1, <2>2
<1>13. CASE DispatchReturns(q)
  <2>1. /\ ReturnOk(q) \/ ReturnErr(q)
        /\ pc[q] # "woken"
        /\ UNCHANGED <<armed, known, asked, batch, handled, c2s, s2c, server>>
        /\ error' \in BOOLEAN /\ waiter' \in SUBSET Queues
    BY <1>13 DEF DispatchReturns, shared, FlagsOK, CallsOK
  <2>2. CallsOK' /\ Shot'
    BY <2>1, Returns, GotoType, ShotKept DEF CallsOK
  <2>3. FlagsOK'
    BY <2>1, Returns, Zenon DEF FlagsOK, server
  <2> QED BY <2>1, <2>2, <2>3
<1> QED BY <1>1, <1>2, <1>3, <1>4, <1>5, <1>6, <1>7, <1>8, <1>9, <1>10, <1>11, <1>12, <1>13 DEF Places

-----------------------------------------------------------------------------
(* What the steps do to the order of the messages. *)

\* It says nothing of the other variables.
LEMMA OrderKept ==
  ASSUME StreamOrder, UNCHANGED <<s2c, sentNo, batch, handled>>
  PROVE  StreamOrder'
  BY DEF StreamOrder

\* What TypeOK says of the numbers.
LEMMA Numbers ==
  ASSUME TypeOK
  PROVE  /\ sentNo \in Nat /\ Nos(s2c) \subseteq Nat
         /\ \A q \in Queues :
              handled[q] \subseteq Nat /\ Nos(batch[q]) \subseteq Nat
              /\ Seen(q, batch, handled) \subseteq Nat
  BY NosNat DEF TypeOK, TrafficOK, Seen

\* A message goes from what a queue has read to what it has handled.
LEMMA TakeOrder ==
  ASSUME TypeOK, StreamOrder, NEW q \in Queues, NEW type, NextIs(q, type),
         UNCHANGED <<s2c, sentNo>>
  PROVE  /\ StreamOrder' /\ Head(batch[q]) \in Messages
         /\ batch' \in [Queues -> Seq(Messages)]
         /\ handled' \in [Queues -> SUBSET Nat]
<1> DEFINE m == Head(batch[q])
           rest == Tail(batch[q])
<1>1. /\ batch[q] \in Seq(Messages) /\ batch[q] # <<>>
      /\ batch' = [batch EXCEPT ![q] = rest]
      /\ handled' = [handled EXCEPT ![q] = @ \cup {m.no}]
      /\ batch \in [Queues -> Seq(Messages)]
      /\ handled \in [Queues -> SUBSET Nat]
  BY DEF NextIs, TypeOK, TrafficOK
<1>2. m \in Messages /\ rest \in Seq(Messages)
  BY <1>1, TailFacts
<1>3. m.no \in Nat
  BY <1>2 DEF Messages
<1>4. /\ Ascending(rest) /\ m.no \in Nos(batch[q])
      /\ Nos(rest) \subseteq Nos(batch[q]) /\ \A n \in Nos(rest) : m.no < n
  BY <1>1, TailAscends DEF StreamOrder, Order
<1> HIDE DEF m, rest
<1>5. /\ batch'[q] = rest /\ handled'[q] = handled[q] \cup {m.no}
      /\ \A r \in Queues \ {q} : batch'[r] = batch[r] /\ handled'[r] = handled[r]
      /\ batch' \in [Queues -> Seq(Messages)]
      /\ handled' \in [Queues -> SUBSET Nat]
  BY <1>1, <1>2, <1>3
<1>6. /\ Seen(q, batch', handled') \subseteq Seen(q, batch, handled)
      /\ \A r \in Queues \ {q} : Seen(r, batch', handled') = Seen(r, batch, handled)
  BY <1>4, <1>5 DEF Seen
<1>7. \A r \in Queues :
        /\ Ascending(batch'[r])
        /\ \A h \in handled'[r], k \in Nos(batch'[r]) : h < k
  BY <1>4, <1>5 DEF StreamOrder, Order
<1>8. Order(s2c, sentNo, batch', handled')
  BY <1>6, <1>7 DEF StreamOrder, Order
<1> QED BY <1>2, <1>5, <1>8 DEF StreamOrder, m

\* A message goes to the end of the stream.
LEMMA SendOrder ==
  ASSUME TypeOK, StreamOrder, NEW type \in {"new", "done", "event"},
         NEW arg \in Nat, ToClient(type, arg), UNCHANGED <<batch, handled>>
  PROVE  StreamOrder' /\ s2c' \in Seq(Messages) /\ sentNo' \in Nat
<1> DEFINE x == [no |-> sentNo + 1, type |-> type, arg |-> arg]
<1>1. /\ s2c' = Append(s2c, x) /\ sentNo' = sentNo + 1
      /\ s2c \in Seq(Messages) /\ sentNo \in Nat
  BY DEF ToClient, TypeOK, TrafficOK
<1>2. x \in Messages /\ x.no = sentNo + 1
  BY <1>1 DEF Messages
<1> HIDE DEF x
<1>3. Ascending(s2c') /\ Nos(s2c') = Nos(s2c) \cup {x.no}
  <2>1. \A m \in Nos(s2c) : m < x.no
    BY <1>1, <1>2, Numbers DEF StreamOrder, Order
  <2> QED BY <1>1, <1>2, <2>1, AppendAscends DEF StreamOrder, Order
<1>4. \A m \in Nos(s2c') : m <= sentNo'
  BY <1>1, <1>2, <1>3, Numbers DEF StreamOrder, Order
<1>5. ASSUME NEW q \in Queues, NEW m \in Seen(q, batch, handled)
      PROVE  m <= sentNo' /\ \A k \in Nos(s2c') : m < k
  <2>1. m \in Nat /\ m <= sentNo /\ \A k \in Nos(s2c) : m < k
    BY Numbers DEF StreamOrder, Order
  <2> QED BY <1>1, <1>2, <1>3, <2>1
<1>6. Order(s2c', sentNo', batch, handled)
  BY <1>3, <1>4, <1>5 DEF StreamOrder, Order
<1> QED BY <1>1, <1>2, <1>6, AppendFacts DEF StreamOrder

\* A queue reads the front of the stream.
LEMMA ReadOrder ==
  ASSUME TypeOK, StreamOrder, NEW q \in Queues, Read(q)
  PROVE  /\ StreamOrder' /\ s2c' \in Seq(Messages)
         /\ batch' \in [Queues -> Seq(Messages)]
<1>1. s2c \in Seq(Messages) /\ batch \in [Queues -> Seq(Messages)]
  BY DEF TypeOK, TrafficOK
<1>2. PICK n \in 1..Len(s2c) :
        /\ batch' = [batch EXCEPT ![q] = SubSeq(s2c, 1, n)]
        /\ s2c' = SubSeq(s2c, n + 1, Len(s2c))
  <2>1. DOMAIN s2c = 1..Len(s2c)
    BY <1>1
  <2> QED BY <2>1 DEF Read
<1> DEFINE a == SubSeq(s2c, 1, n)
           b == SubSeq(s2c, n + 1, Len(s2c))
<1>3. /\ a \in Seq(Messages) /\ b \in Seq(Messages)
      /\ Ascending(a) /\ Ascending(b)
      /\ Nos(a) \subseteq Nos(s2c) /\ Nos(b) \subseteq Nos(s2c)
      /\ \A x \in Nos(a), y \in Nos(b) : x < y
  BY <1>1, CutFacts, CutAscends DEF StreamOrder, Order
<1>4. batch' = [batch EXCEPT ![q] = a] /\ s2c' = b
  BY <1>2
<1> HIDE DEF a, b
<1>5. /\ batch'[q] = a /\ batch' \in [Queues -> Seq(Messages)]
      /\ \A r \in Queues \ {q} : batch'[r] = batch[r]
  BY <1>1, <1>3, <1>4
<1>6. handled' = handled /\ sentNo' = sentNo
  BY DEF Read, server
<1>7. /\ Seen(q, batch', handled) \subseteq Seen(q, batch, handled) \cup Nos(a)
      /\ \A r \in Queues \ {q} : Seen(r, batch', handled) = Seen(r, batch, handled)
  BY <1>5 DEF Seen
<1>8. \A r \in Queues : Nos(s2c) \cap Seen(r, batch, handled) = {}
  BY Numbers DEF StreamOrder, Order
<1>9. \A r \in Queues :
        /\ Ascending(batch'[r])
        /\ \A m \in handled[r], k \in Nos(batch'[r]) : m < k
  BY <1>3, <1>5 DEF StreamOrder, Order, Seen
<1>10. \A r \in Queues : \A m \in Seen(r, batch', handled) :
         m <= sentNo /\ \A k \in Nos(b) : m < k
  BY <1>3, <1>7 DEF StreamOrder, Order
<1>11. \A r \in Queues : \A t \in Queues \ {r} :
         Seen(r, batch', handled) \cap Seen(t, batch', handled) = {}
  BY <1>3, <1>7, <1>8 DEF StreamOrder, Order
<1>12. Order(b, sentNo, batch', handled)
  BY <1>3, <1>9, <1>10, <1>11 DEF StreamOrder, Order
<1> QED BY <1>3, <1>4, <1>5, <1>6, <1>12 DEF StreamOrder

-----------------------------------------------------------------------------
(* The steps that touch the messages. *)

Handles(q) ==
  HandleNewObject(q) \/ HandleRoundtripDone(q) \/ HandleEvent(q) \/ HandleUnknown(q)

\* A message is handled.
LEMMA HandlesStep ==
  ASSUME IInv, NEW q \in Queues, Handles(q)
  PROVE  IInv'
<1>1. TypeOK /\ StreamOrder /\ Shot /\ CallsOK /\ FlagsOK /\ TrafficOK /\ ServerOK
  BY DEF IInv, TypeOK
<1>2. UNCHANGED <<c2s, s2c, server>>
  BY DEF Handles, HandleNewObject, HandleRoundtripDone, HandleEvent, HandleUnknown
<1>3. PICK type : NextIs(q, type)
  BY DEF Handles, HandleNewObject, HandleRoundtripDone, HandleEvent, HandleUnknown
<1>4. /\ StreamOrder' /\ Head(batch[q]) \in Messages
      /\ batch' \in [Queues -> Seq(Messages)]
      /\ handled' \in [Queues -> SUBSET Nat]
  BY <1>1, <1>2, <1>3, TakeOrder DEF server
<1>5. Head(batch[q]).arg \in Nat /\ pc[q] = "batch"
  BY <1>3, <1>4 DEF Messages, NextIs
<1>6. TrafficOK' /\ ServerOK'
  BY <1>1, <1>2, <1>4 DEF TrafficOK, ServerOK, server
<1>7. CASE HandleNewObject(q)
  <2>1. CallsOK' /\ Shot'
    BY <1>1, <1>5, <1>7, ShotKept DEF HandleNewObject, CallsOK, trips, calls
  <2>2. FlagsOK'
    BY <1>1, <1>2, <1>7, Zenon DEF HandleNewObject, FlagsOK, trips, calls, server
  <2> QED BY <1>4, <1>6, <2>1, <2>2 DEF IInv, TypeOK
<1>8. CASE HandleRoundtripDone(q)
  <2>1. CallsOK' /\ Shot'
    BY <1>1, <1>5, <1>8, ShotKept DEF HandleRoundtripDone, CallsOK, shared, calls
  <2>2. FlagsOK'
    BY <1>1, <1>2, <1>8, Zenon DEF HandleRoundtripDone, FlagsOK, shared, calls, server
  <2> QED BY <1>4, <1>6, <2>1, <2>2 DEF IInv, TypeOK
<1>9. CASE HandleEvent(q)
  <2>1. CallsOK' /\ Shot'
    BY <1>1, <1>5, <1>9, GotoType, ShotKept DEF HandleEvent, Goto, CallsOK, shared, trips
  <2>2. FlagsOK'
    BY <1>1, <1>2, <1>9, Zenon DEF HandleEvent, FlagsOK, shared, trips, server
  <2> QED BY <1>4, <1>6, <2>1, <2>2 DEF IInv, TypeOK
<1>10. CASE HandleUnknown(q)
  <2>1. CallsOK' /\ Shot'
    BY <1>1, <1>5, <1>10, ShotKept DEF HandleUnknown, CallsOK, trips, calls
  <2>2. FlagsOK'
    BY <1>1, <1>2, <1>10, Zenon DEF HandleUnknown, FlagsOK, trips, calls, server
  <2> QED BY <1>4, <1>6, <2>1, <2>2 DEF IInv, TypeOK
<1> QED BY <1>7, <1>8, <1>9, <1>10 DEF Handles

\* A queue reads.
LEMMA ReadStep ==
  ASSUME IInv, NEW q \in Queues, Read(q)
  PROVE  IInv'
<1>1. TypeOK /\ StreamOrder /\ Shot /\ CallsOK /\ FlagsOK /\ TrafficOK /\ ServerOK
  BY DEF IInv, TypeOK
<1>2. /\ StreamOrder' /\ s2c' \in Seq(Messages)
      /\ batch' \in [Queues -> Seq(Messages)]
  BY <1>1, ReadOrder
<1>3. TrafficOK' /\ ServerOK'
  BY <1>1, <1>2 DEF Read, TrafficOK, ServerOK, server
<1>4. CallsOK' /\ Shot'
  BY <1>1, GotoType, ShotKept DEF Read, Goto, CallsOK, shared, trips
<1>5. FlagsOK'
  BY <1>1, Zenon DEF Read, FlagsOK, shared, trips, server
<1> QED BY <1>2, <1>3, <1>4, <1>5 DEF IInv, TypeOK

\* The client sends a request.
LEMMA AsksStep ==
  ASSUME IInv, MakeObject \/ \E q \in Queues : Roundtrip(q)
  PROVE  IInv'
<1>1. TypeOK /\ StreamOrder /\ Shot /\ CallsOK /\ FlagsOK /\ TrafficOK /\ ServerOK
  BY DEF IInv, TypeOK
<1>2. CASE MakeObject
  <2>1. [type |-> "make"] \in Requests
    BY DEF Requests
  <2>2. c2s' \in Seq(Requests) /\ Len(c2s') = Len(c2s) + 1 /\ Len(c2s) \in Nat
    BY <1>1, <1>2, <2>1, AppendFacts DEF MakeObject, TrafficOK
  <2>3. TrafficOK' /\ ServerOK'
    BY <1>1, <1>2, <2>2 DEF MakeObject, TrafficOK, ServerOK, server
  <2>4. CallsOK' /\ Shot'
    BY <1>1, <1>2, ShotKept DEF MakeObject, CallsOK, trips, calls
  <2>5. FlagsOK'
    BY <1>1, <1>2, Zenon DEF MakeObject, FlagsOK, trips, calls, server
  <2>6. StreamOrder'
    BY <1>1, <1>2, OrderKept DEF MakeObject, server
  <2> QED BY <2>3, <2>4, <2>5, <2>6 DEF IInv, TypeOK
<1>3. ASSUME NEW q \in Queues, Roundtrip(q) PROVE IInv'
  <2>1. [type |-> "trip", queue |-> q, seq |-> last[q] + 1] \in Requests
    BY <1>1 DEF Requests, CallsOK
  <2>2. c2s' \in Seq(Requests) /\ Len(c2s') = Len(c2s) + 1 /\ Len(c2s) \in Nat
    BY <1>1, <1>3, <2>1, AppendFacts DEF Roundtrip, TrafficOK
  <2>3. TrafficOK' /\ ServerOK'
    BY <1>1, <1>3, <2>2 DEF Roundtrip, TrafficOK, ServerOK, server
  <2>4. CallsOK' /\ Shot'
    BY <1>1, <1>3, ShotKept DEF Roundtrip, CallsOK, shared
  <2>5. FlagsOK'
    BY <1>1, <1>3, ExceptType, OverlapType, Zenon DEF Roundtrip, FlagsOK, shared, server
  <2>6. StreamOrder'
    BY <1>1, <1>3, OrderKept DEF Roundtrip, server
  <2> QED BY <2>3, <2>4, <2>5, <2>6 DEF IInv, TypeOK
<1> QED BY <1>2, <1>3

\* The server takes a request.
LEMMA ServerNextType ==
  ASSUME TrafficOK, ServerOK, NEW type, ServerNext(type)
  PROVE  /\ Head(c2s) \in Requests /\ Head(c2s).type = type
         /\ c2s' \in Seq(Requests) /\ sBatch' \in 0..Len(c2s')
<1>1. c2s \in Seq(Requests) /\ Len(c2s) \in Nat /\ sBatch \in 1..Len(c2s)
  BY DEF TrafficOK, ServerOK, ServerNext
<1>2. c2s # <<>>
  BY <1>1
<1> QED BY <1>1, <1>2, TailFacts DEF ServerNext

\* The server's steps.
LEMMA ServerStep ==
  ASSUME IInv, ServerDispatch \/ SendEvent \/ ServerExits
  PROVE  IInv'
<1>1. TypeOK /\ StreamOrder /\ Shot /\ CallsOK /\ FlagsOK /\ TrafficOK /\ ServerOK
  BY DEF IInv, TypeOK
<1>2. UNCHANGED client
  BY DEF ServerDispatch, ServerReads, HandleRoundtripRequest, HandleMake,
         ServerEndsBatch, SendEvent, ServerExits
<1>3. CallsOK' /\ Shot' /\ UNCHANGED <<batch, handled>>
  BY <1>1, <1>2, ShotKept DEF client, CallsOK, shared, trips, calls
<1>4. UNCHANGED <<error, armed, block, trip, failed, overlapped>>
  BY <1>2 DEF client, shared, trips, calls
<1>5. CASE ServerReads
  <2>1. sBatch' \in 0..Len(c2s')
    BY <1>1, <1>5 DEF ServerReads, TrafficOK
  <2>2. TrafficOK' /\ ServerOK'
    BY <1>1, <1>3, <1>5, <2>1 DEF ServerReads, TrafficOK, ServerOK
  <2>3. FlagsOK'
    BY <1>1, <1>4, <1>5, Zenon DEF ServerReads, FlagsOK
  <2>4. StreamOrder'
    BY <1>1, <1>3, <1>5, OrderKept DEF ServerReads
  <2> QED BY <1>3, <2>2, <2>3, <2>4 DEF IInv, TypeOK
<1>6. CASE HandleRoundtripRequest
  <2>1. Head(c2s).seq \in Nat /\ Head(c2s).queue \in Queues
    BY <1>1, <1>6, ServerNextType DEF HandleRoundtripRequest, Requests
  <2>2. TrafficOK' /\ ServerOK'
    BY <1>1, <1>3, <1>6, <2>1, ServerNextType
       DEF HandleRoundtripRequest, TrafficOK, ServerOK
  <2>3. FlagsOK'
    BY <1>1, <1>4, <1>6, Zenon DEF HandleRoundtripRequest, FlagsOK
  <2>4. StreamOrder'
    BY <1>1, <1>3, <1>6, OrderKept DEF HandleRoundtripRequest
  <2> QED BY <1>3, <2>2, <2>3, <2>4 DEF IInv, TypeOK
<1>7. CASE HandleMake
  <2>1. made \in Nat /\ made' = made + 1
    BY <1>1, <1>7 DEF HandleMake, ServerOK
  <2>2. StreamOrder' /\ s2c' \in Seq(Messages) /\ sentNo' \in Nat
    BY <1>1, <1>3, <1>7, <2>1, SendOrder DEF HandleMake
  <2>3. TrafficOK' /\ ServerOK'
    BY <1>1, <1>3, <1>7, <2>1, <2>2, ServerNextType DEF HandleMake, TrafficOK, ServerOK
  <2>4. FlagsOK'
    BY <1>1, <1>4, <1>7, Zenon DEF HandleMake, FlagsOK
  <2> QED BY <1>3, <2>2, <2>3, <2>4 DEF IInv, TypeOK
<1>8. CASE ServerEndsBatch
  <2>1. StreamOrder' /\ s2c' \in Seq(Messages) /\ sentNo' \in Nat
    <3>1. CASE sSlot > 0
      BY <1>1, <1>3, <1>8, <3>1, SendOrder DEF ServerEndsBatch, ServerOK
    <3>2. CASE ~(sSlot > 0)
      BY <1>1, <1>3, <1>8, <3>2, OrderKept DEF ServerEndsBatch, TrafficOK
    <3> QED BY <3>1, <3>2
  <2>2. TrafficOK' /\ ServerOK'
    BY <1>1, <1>3, <1>8, <2>1 DEF ServerEndsBatch, TrafficOK, ServerOK
  <2>3. FlagsOK'
    BY <1>1, <1>4, <1>8, Zenon DEF ServerEndsBatch, FlagsOK
  <2> QED BY <1>3, <2>1, <2>2, <2>3 DEF IInv, TypeOK
<1>9. CASE SendEvent
  <2>1. PICK id \in 1..made : ToClient("event", id)
    BY <1>9 DEF SendEvent
  <2>2. made \in Nat /\ id \in Nat
    BY <1>1 DEF ServerOK
  <2>3. StreamOrder' /\ s2c' \in Seq(Messages) /\ sentNo' \in Nat
    BY <1>1, <1>3, <2>1, <2>2, SendOrder
  <2>4. TrafficOK' /\ ServerOK'
    BY <1>1, <1>3, <1>9, <2>3 DEF SendEvent, TrafficOK, ServerOK
  <2>5. FlagsOK'
    BY <1>1, <1>4, <1>9, Zenon DEF SendEvent, FlagsOK
  <2> QED BY <1>3, <2>3, <2>4, <2>5 DEF IInv, TypeOK
<1>10. CASE ServerExits
  <2>1. TrafficOK' /\ ServerOK'
    BY <1>1, <1>3, <1>10 DEF ServerExits, TrafficOK, ServerOK
  <2>2. FlagsOK'
    BY <1>1, <1>4, <1>10, Zenon DEF ServerExits, FlagsOK
  <2>3. StreamOrder'
    BY <1>1, <1>3, <1>10, OrderKept DEF ServerExits
  <2> QED BY <1>3, <2>1, <2>2, <2>3 DEF IInv, TypeOK
<1> QED BY <1>5, <1>6, <1>7, <1>8, <1>9, <1>10 DEF ServerDispatch

-----------------------------------------------------------------------------
(* The invariant is inductive. *)

\* Every step keeps the invariant.
LEMMA StepInv ==
  ASSUME IInv, [Next]_vars
  PROVE  IInv'
<1>1. TypeOK /\ StreamOrder /\ Shot /\ CallsOK /\ FlagsOK /\ TrafficOK /\ ServerOK
  BY DEF IInv, TypeOK
<1>2. ASSUME NEW q \in Queues, Places(q) PROVE IInv'
  <2>1. /\ FlagsOK' /\ CallsOK' /\ Shot'
        /\ UNCHANGED <<c2s, s2c, batch, handled, server>>
    BY <1>1, <1>2, PlacesStep
  <2>2. TrafficOK' /\ ServerOK' /\ StreamOrder'
    BY <1>1, <2>1, OrderKept DEF TrafficOK, ServerOK, server
  <2> QED BY <2>1, <2>2 DEF IInv, TypeOK
<1>3. ASSUME NEW q \in Queues, GoesOn(q) PROVE IInv'
  <2>1. Places(q) \/ Handles(q) \/ Read(q)
    BY <1>3 DEF GoesOn, Places, Handles
  <2> QED BY <1>2, <2>1, HandlesStep, ReadStep
<1>4. ASSUME NEW q \in Queues, Dispatch(q) \/ Roundtrip(q) \/ GoesOn(q) PROVE IInv'
  <2>1. CASE Dispatch(q)
    BY <1>2, <2>1 DEF Places
  <2> QED BY <1>3, <1>4, <2>1, AsksStep
<1>5. CASE UNCHANGED vars
  <2>1. FlagsOK'
    BY <1>1, <1>5, Zenon DEF FlagsOK, vars, shared, trips, calls, server
  <2>2. CallsOK' /\ Shot'
    BY <1>1, <1>5, ShotKept DEF CallsOK, vars, shared, trips, calls
  <2>3. TrafficOK' /\ ServerOK' /\ StreamOrder'
    BY <1>1, <1>5, OrderKept DEF TrafficOK, ServerOK, vars, server
  <2> QED BY <2>1, <2>2, <2>3 DEF IInv, TypeOK
<1> QED BY <1>4, <1>5, AsksStep, ServerStep DEF Next

\* Every state the client and the server reach satisfies the invariant.
THEOREM Inductive == Spec => []IInv
<1>1. Init => IInv
  BY InitInv
<1>2. IInv /\ [Next]_vars => IInv'
  BY StepInv
<1> QED BY <1>1, <1>2, PTL DEF Spec

\* The state keeps its type; the server's batch lies within the stream.
THEOREM TypeCorrect == Spec => []TypeOK
<1>1. IInv => TypeOK
  BY DEF IInv
<1> QED BY <1>1, Inductive, PTL

\* However the calls overlap, the poller's one shot is never lost.
THEOREM NoLostWakeupEver == Spec => []NoLostWakeup
<1>1. IInv => NoLostWakeup
  BY DEF IInv, Shot, NoLostWakeup
<1> QED BY <1>1, Inductive, PTL

\* However the calls overlap, no message is handled twice, nor before an
\* earlier one of the same queue.
THEOREM HandledOnceEver == Spec => []HandledOnce
<1>1. ASSUME IInv PROVE HandledOnce
  <2>1. TypeOK /\ StreamOrder
    BY <1>1 DEF IInv
  <2>2. s2c \in Seq(Messages) /\ \A q \in Queues : batch[q] \in Seq(Messages)
    BY <2>1 DEF TypeOK, TrafficOK
  <2>3. /\ \A i \in DOMAIN s2c : s2c[i].no \in Nos(s2c)
        /\ \A q \in Queues : \A i \in DOMAIN batch[q] : batch[q][i].no \in Nos(batch[q])
    BY <2>2 DEF Nos
  <2>4. ASSUME NEW q \in Queues, NEW r \in Queues
        PROVE  /\ q # r => handled[q] \cap handled[r] = {}
               /\ \A m \in handled[q] :
                    /\ \A i \in DOMAIN batch[r] : batch[r][i].no # m
                    /\ \A i \in DOMAIN batch[q] : batch[q][i].no > m
                    /\ \A i \in DOMAIN s2c : s2c[i].no > m
    <3>1. q # r => handled[q] \cap handled[r] = {}
      BY <2>1 DEF StreamOrder, Order, Seen
    <3>2. ASSUME NEW m \in handled[q]
          PROVE  /\ \A k \in Nos(batch[r]) : k # m
                 /\ \A k \in Nos(batch[q]) : m < k
                 /\ \A k \in Nos(s2c) : m < k
      <4>1. (\A k \in Nos(batch[q]) : m < k) /\ \A k \in Nos(s2c) : m < k
        BY <2>1 DEF StreamOrder, Order, Seen
      <4>2. \A k \in Nos(batch[r]) : k # m
        <5>1. CASE q = r
          BY <4>1, <5>1, <2>1, Numbers
        <5>2. CASE q # r
          BY <2>1, <5>2 DEF StreamOrder, Order, Seen
        <5> QED BY <5>1, <5>2
      <4> QED BY <4>1, <4>2
    <3>3. /\ Nos(s2c) \subseteq Nat /\ Nos(batch[q]) \subseteq Nat
          /\ handled[q] \subseteq Nat
      BY <2>1, Numbers
    <3> QED BY <2>3, <3>1, <3>2, <3>3
  <2> QED BY <2>4 DEF HandledOnce
<1> QED BY <1>1, Inductive, PTL

-----------------------------------------------------------------------------
(* Roundtrips, until calls overlap. *)

\* A queue with no call under way.
Idle(q) == ~trip[q] /\ pc[q] = "app" /\ batch[q] = <<>>

\* No call is under way but one; nobody else is in the poller, and after an
\* error nothing is read any more.
Alone ==
  /\ \A q, r \in Queues : q = r \/ Idle(q) \/ Idle(r)
  /\ \A q \in Queues : pc[q] \notin {"batch", "handler"} => batch[q] = <<>>
  /\ \A q \in waiter : pc[q] = "wait"
  /\ error => \A q \in Queues : pc[q] \in {"app", "batch", "handler"}

\* Roundtrip n of q is under way and not acknowledged.
Awaits(q, n) == trip[q] /\ last[q] = n /\ ackd[q] < n

\* The requests in a stream, and the acknowledgments.
Trips(s) == {i \in 1..Len(s) : s[i].type = "trip"}
Dones(s) == {i \in 1..Len(s) : s[i].type = "done"}
NoDones == Dones(s2c) = {} /\ \A q \in Queues : Dones(batch[q]) = {}

\* Where a roundtrip is: its request in the stream, the server's slot, its
\* acknowledgment in the stream, or read. It is in one place, and without a
\* roundtrip under way there is nothing in any.
RequestPlaced ==
  sState = "up" => \A i \in Trips(c2s) :
    /\ Awaits(c2s[i].queue, c2s[i].seq)
    /\ sSlot = 0 /\ NoDones
    /\ \A j \in Trips(c2s) : i = j

SlotPlaced ==
  sState = "up" /\ sSlot > 0 =>
    /\ \E q \in Queues : Awaits(q, sSlot) /\ served[q] = sSlot
    /\ NoDones

AckPlaced ==
  \A i \in Dones(s2c) :
    /\ \E q \in Queues : Awaits(q, s2c[i].arg) /\ served[q] = s2c[i].arg
    /\ \A q \in Queues : Dones(batch[q]) = {}
    /\ \A j \in Dones(s2c) : i = j

ReadPlaced ==
  \A q \in Queues : \A i \in Dones(batch[q]) :
    /\ Awaits(q, batch[q][i].arg)
    /\ \A j \in Dones(batch[q]) : i = j

InOnePlace == ~error => RequestPlaced /\ SlotPlaced /\ AckPlaced /\ ReadPlaced

\* What is acknowledged, or read as acknowledged, the server has handled.
Acknowledged ==
  \A q \in Queues :
    /\ ackd[q] <= served[q] /\ served[q] <= last[q]
    /\ \A i \in Dones(batch[q]) : batch[q][i].arg <= served[q]

Matched == \A q \in Queues : ~trip[q] /\ ~failed[q] => last[q] <= served[q]

TripInv == Alone /\ InOnePlace /\ Acknowledged /\ Matched

\* A call that goes on is the only one.
LEMMA OnlyCall ==
  ASSUME TypeOK, Alone, NEW q \in Queues, ~Idle(q)
  PROVE  /\ \A r \in Queues \ {q} : Idle(r)
         /\ waiter \subseteq {q} /\ (pc[q] # "wait" => waiter = {})
<1>1. \A r \in Queues \ {q} : Idle(r)
  BY DEF Alone
<1>2. waiter \subseteq Queues /\ \A r \in waiter : pc[r] = "wait"
  BY DEF Alone, TypeOK, CallsOK
<1> QED BY <1>1, <1>2 DEF Idle

\* The first call begins when there is none.
LEMMA FirstCall ==
  ASSUME TypeOK, Alone, NEW q \in Queues, MayCall(q), Begin, ~overlapped'
  PROVE  waiter = {} /\ ~error /\ \A r \in Queues : Idle(r)
<1>1. \A r \in Queues : ~UnderWay(r)
  BY Zenon DEF Begin
<1>2. \A r \in Queues : Idle(r)
  BY <1>1 DEF Alone, UnderWay, Idle
<1>3. waiter \subseteq Queues /\ \A r \in waiter : pc[r] = "wait"
  BY DEF Alone, TypeOK, CallsOK
<1> QED BY <1>2, <1>3 DEF Idle, MayCall

\* What a call on q leaves of the others.
Others(q) ==
  \A r \in Queues \ {q} :
    /\ trip'[r] = trip[r] /\ failed'[r] = failed[r]
    /\ last'[r] = last[r] /\ ackd'[r] = ackd[r]
    /\ pc'[r] = pc[r] /\ batch'[r] = batch[r]

\* It is where a call that is the only one may be.
Stays(q) ==
  /\ pc'[q] \notin {"batch", "handler"} => batch'[q] = <<>>
  /\ waiter' \subseteq {q} /\ (waiter' # {} => pc'[q] = "wait")
  /\ error' => pc'[q] \in {"app", "batch", "handler"}

LEMMA StaysAlone ==
  ASSUME NEW q \in Queues, Others(q), Stays(q),
         \A r \in Queues \ {q} : Idle(r)
  PROVE  Alone'
<1>1. \A r \in Queues \ {q} : ~trip'[r] /\ pc'[r] = "app" /\ batch'[r] = <<>>
  BY DEF Others, Idle
<1> QED BY <1>1 DEF Stays, Alone, Idle

\* A call that returns without having read anything it has not handled.
LEMMA ReturnStays ==
  ASSUME TypeOK, NEW q \in Queues,
         ReturnOk(q) \/ ReturnErr(q), batch' = batch, batch[q] = <<>>, waiter' = {}
  PROVE  /\ Others(q) /\ Stays(q) /\ last' = last /\ ackd' = ackd
         /\ \/ trip' = trip /\ failed' = failed
            \/ ~trip'[q] /\ failed'[q]
<1>1. /\ trip \in [Queues -> BOOLEAN] /\ failed \in [Queues -> BOOLEAN]
      /\ pc' = [pc EXCEPT ![q] = "app"] /\ DOMAIN pc = Queues
  BY DEF TypeOK, FlagsOK, CallsOK, ReturnOk, ReturnErr, Goto
<1>2. last' = last /\ ackd' = ackd
  BY DEF ReturnOk, ReturnErr, trips
<1>3. pc'[q] = "app" /\ batch'[q] = <<>> /\ \A r \in Queues \ {q} : pc'[r] = pc[r]
  BY <1>1
<1>4. Stays(q)
  BY <1>3 DEF Stays
<1>5. CASE ReturnOk(q)
  <2>1. trip' = trip /\ failed' = failed
    BY <1>5 DEF ReturnOk, trips
  <2>2. Others(q)
    BY <1>2, <1>3, <2>1 DEF Others
  <2> QED BY <1>2, <1>4, <2>1, <2>2
<1>6. CASE ReturnErr(q)
  <2>1. trip' = [trip EXCEPT ![q] = FALSE] /\ failed' = [failed EXCEPT ![q] = TRUE]
    BY <1>6 DEF ReturnErr
  <2>2. ~trip'[q] /\ failed'[q]
    BY <1>1, <2>1
  <2>3. \A r \in Queues \ {q} : trip'[r] = trip[r] /\ failed'[r] = failed[r]
    BY <1>1, <2>1
  <2>4. Others(q)
    BY <1>2, <1>3, <2>3 DEF Others
  <2> QED BY <1>2, <1>4, <2>2, <2>4
<1> QED BY <1>5, <1>6

\* A call on q that has begun, or goes on.
LEMMA GoStays ==
  ASSUME TypeOK, NEW q \in Queues,
         NEW place, Goto(q, place), UNCHANGED <<trips, failed, batch>>,
         place \in {"batch", "handler"} \/ batch[q] = <<>>,
         waiter' \subseteq {q}, waiter' # {} => place = "wait",
         error' => place \in {"app", "batch", "handler"}
  PROVE  Others(q) /\ Stays(q)
<1>1. pc'[q] = place /\ \A r \in Queues \ {q} : pc'[r] = pc[r]
  BY DEF Goto, TypeOK, CallsOK
<1> QED BY <1>1 DEF Others, Stays, trips

\* A call ends or goes on without touching the traffic. It ends with an error
\* of the connection, or at the end of the stream; without one only when its
\* roundtrip is acknowledged.
Settles(q) ==
  /\ last' = last /\ ackd' = ackd /\ (error => error')
  /\ \/ trip' = trip /\ failed' = failed
     \/ /\ ~trip'[q] /\ failed'[q]
        /\ error' \/ (sState # "up" /\ s2c = <<>> /\ batch[q] = <<>>)
     \/ ~trip'[q] /\ failed' = failed /\ last[q] <= ackd[q]

LEMMA PlacesAlone ==
  ASSUME TypeOK, Alone, ~overlapped', NEW q \in Queues, Places(q)
  PROVE  /\ Others(q) /\ Stays(q) /\ Settles(q)
         /\ \A r \in Queues \ {q} : Idle(r)
<1>1. CASE Dispatch(q)
  <2>1. /\ waiter = {} /\ ~error /\ batch[q] = <<>>
        /\ \A r \in Queues \ {q} : Idle(r)
    BY <1>1, FirstCall DEF Dispatch, Idle
  <2>2. /\ Goto(q, "poll") /\ UNCHANGED <<shared, trips, failed, batch>>
    BY <1>1 DEF Dispatch
  <2>3. Others(q) /\ Stays(q)
    BY <2>1, <2>2, GoStays DEF shared
  <2> QED BY <2>1, <2>2, <2>3 DEF Settles, shared, trips
<1>2. ASSUME ~Idle(q)
      PROVE  /\ \A r \in Queues \ {q} : Idle(r)
             /\ waiter \subseteq {q} /\ (pc[q] # "wait" => waiter = {})
             /\ (pc[q] \notin {"batch", "handler"} => batch[q] = <<>>)
             /\ (pc[q] \notin {"app", "batch", "handler"} => ~error)
  <2>1. /\ (pc[q] \notin {"batch", "handler"} => batch[q] = <<>>)
        /\ (pc[q] \notin {"app", "batch", "handler"} => ~error)
    BY DEF Alone
  <2> QED BY <1>2, <2>1, OnlyCall
<1>3. CASE TripDispatches(q)
  <2>1. /\ ~Idle(q) /\ pc[q] = "app" /\ ~error /\ Goto(q, "poll")
        /\ UNCHANGED <<shared, trips, failed, batch>>
    BY <1>3 DEF TripDispatches, Idle
  <2>2. Others(q) /\ Stays(q)
    BY <1>2, <2>1, GoStays DEF shared
  <2> QED BY <1>2, <2>1, <2>2 DEF Settles, shared, trips
<1>4. CASE TripReturns(q)
  <2>1. /\ ~Idle(q) /\ pc[q] = "app" /\ last[q] <= ackd[q]
        /\ trip' = [trip EXCEPT ![q] = FALSE]
        /\ UNCHANGED <<shared, last, ackd, pc, failed, batch>>
    BY <1>4 DEF TripReturns, Idle, calls, TypeOK, CallsOK
  <2>2. ~trip'[q] /\ \A r \in Queues \ {q} : trip'[r] = trip[r]
    BY <2>1 DEF TypeOK, FlagsOK
  <2>3. Others(q)
    BY <2>1, <2>2 DEF Others
  <2>4. Stays(q)
    BY <1>2, <2>1, <2>2 DEF Stays, shared
  <2> QED BY <1>2, <2>1, <2>2, <2>3, <2>4 DEF Settles, shared
<1>5. CASE TripFails(q)
  <2>1. /\ ~Idle(q) /\ pc[q] = "app" /\ error /\ ReturnErr(q)
        /\ UNCHANGED <<shared, batch>>
    BY <1>5 DEF TripFails, Idle
  <2>2. batch[q] = <<>> /\ waiter' = {} /\ error'
    BY <1>2, <2>1 DEF shared
  <2>3. /\ Others(q) /\ Stays(q) /\ last' = last /\ ackd' = ackd
        /\ \/ trip' = trip /\ failed' = failed
           \/ ~trip'[q] /\ failed'[q]
    BY <2>1, <2>2, ReturnStays
  <2> QED BY <1>2, <2>1, <2>2, <2>3 DEF Settles
<1>6. CASE PollEnters(q)
  <2>1. /\ ~Idle(q) /\ pc[q] = "poll" /\ waiter' = {q} /\ Goto(q, "wait")
        /\ UNCHANGED <<error, trips, failed, batch>>
    BY <1>6 DEF PollEnters, Idle
  <2>2. Others(q) /\ Stays(q)
    BY <1>2, <2>1, GoStays
  <2> QED BY <1>2, <2>1, <2>2 DEF Settles, trips
<1>7. ~PollBusy(q)
  BY <1>2 DEF PollBusy, Idle
<1>8. CASE PollNothing(q)
  <2>1. /\ ~Idle(q) /\ pc[q] = "wait" /\ ReturnOk(q) /\ waiter' = {}
        /\ UNCHANGED <<error, batch>>
    BY <1>8 DEF PollNothing, Idle
  <2>2. /\ Others(q) /\ Stays(q) /\ last' = last /\ ackd' = ackd
        /\ trip' = trip /\ failed' = failed
    BY <1>2, <2>1, ReturnStays DEF ReturnOk, trips
  <2> QED BY <1>2, <2>1, <2>2 DEF Settles
<1>9. CASE PollWakes(q)
  <2>1. /\ ~Idle(q) /\ pc[q] = "wait" /\ waiter' = {} /\ Goto(q, "woken")
        /\ UNCHANGED <<error, trips, failed, batch>>
    BY <1>9 DEF PollWakes, Idle
  <2>2. Others(q) /\ Stays(q)
    BY <1>2, <2>1, GoStays
  <2> QED BY <1>2, <2>1, <2>2 DEF Settles, trips
<1>10. CASE Rearm(q)
  <2>1. /\ ~Idle(q) /\ pc[q] = "woken" /\ waiter' = waiter /\ Goto(q, "read")
        /\ UNCHANGED <<error, trips, failed, batch>>
    BY <1>10 DEF Rearm, Idle
  <2>2. Others(q) /\ Stays(q)
    BY <1>2, <2>1, GoStays
  <2> QED BY <1>2, <2>1, <2>2 DEF Settles, trips
<1>11. CASE ReadNothing(q) \/ ReadEnd(q)
  <2>1. /\ ~Idle(q) /\ pc[q] = "read" /\ ReturnErr(q) /\ batch' = batch
        /\ waiter' = waiter /\ (error => error')
        /\ error' \/ (sState # "up" /\ s2c = <<>>)
    BY <1>11 DEF ReadNothing, ReadEnd, Idle, shared
  <2>2. batch[q] = <<>> /\ waiter' = {}
    BY <1>2, <2>1
  <2>3. /\ Others(q) /\ Stays(q) /\ last' = last /\ ackd' = ackd
        /\ \/ trip' = trip /\ failed' = failed
           \/ ~trip'[q] /\ failed'[q]
    BY <2>1, <2>2, ReturnStays
  <2> QED BY <1>2, <2>1, <2>2, <2>3 DEF Settles
<1>12. CASE HandlerReturns(q)
  <2>1. /\ ~Idle(q) /\ pc[q] = "handler" /\ Goto(q, "batch")
        /\ UNCHANGED <<shared, trips, failed, batch>>
    BY <1>12 DEF HandlerReturns, Idle
  <2>2. Others(q) /\ Stays(q)
    BY <1>2, <2>1, GoStays DEF shared
  <2> QED BY <1>2, <2>1, <2>2 DEF Settles, shared, trips
<1>13. CASE DispatchReturns(q)
  <2>1. /\ ~Idle(q) /\ pc[q] = "batch" /\ batch[q] = <<>> /\ UNCHANGED <<shared, batch>>
        /\ IF error THEN ReturnErr(q) ELSE ReturnOk(q)
    BY <1>13 DEF DispatchReturns, Idle
  <2>2. waiter' = {} /\ error' = error
    BY <1>2, <2>1 DEF shared
  <2>3. /\ Others(q) /\ Stays(q) /\ last' = last /\ ackd' = ackd
        /\ \/ trip' = trip /\ failed' = failed
           \/ ~trip'[q] /\ failed'[q]
    BY <2>1, <2>2, ReturnStays
  <2>4. error \/ (trip' = trip /\ failed' = failed)
    BY <2>1 DEF ReturnOk, trips
  <2> QED BY <1>2, <2>1, <2>2, <2>3, <2>4 DEF Settles
<1> QED BY <1>1, <1>3, <1>4, <1>5, <1>6, <1>7, <1>8, <1>9, <1>10, <1>11, <1>12, <1>13
        DEF Places

\* A call that settles leaves its roundtrip where it is, or has none any more.
LEMMA SettlesTrips ==
  ASSUME TypeOK, TripInv, NEW q \in Queues, Others(q), Settles(q),
         \A r \in Queues \ {q} : Idle(r), UNCHANGED <<c2s, s2c, batch, server>>
  PROVE  InOnePlace' /\ Acknowledged' /\ Matched'
<1>1. /\ \A r \in Queues : last[r] \in Nat /\ ackd[r] \in Nat /\ served[r] \in Nat
      /\ \A r \in Queues \ {q} : trip'[r] = trip[r] /\ failed'[r] = failed[r]
      /\ last' = last /\ ackd' = ackd /\ UNCHANGED <<served, sState, sSlot>>
  BY DEF TypeOK, CallsOK, ServerOK, Others, Settles, server
<1>2. Acknowledged'
  BY <1>1 DEF TripInv, Acknowledged
<1>3. Matched'
  <2>1. ((trip'[q] <=> trip[q]) /\ failed'[q] = failed[q]) \/ failed'[q] \/ last[q] <= ackd[q]
    BY DEF Settles
  <2>2. last[q] <= ackd[q] => last[q] <= served[q]
    BY <1>1 DEF TripInv, Acknowledged
  <2>3. ~trip'[q] /\ ~failed'[q] => last[q] <= served[q]
    BY <2>1, <2>2 DEF TripInv, Matched
  <2> QED BY <1>1, <2>3 DEF TripInv, Matched
<1>4. ASSUME ~error' PROVE (RequestPlaced /\ SlotPlaced /\ AckPlaced /\ ReadPlaced)'
  <2>1. RequestPlaced /\ SlotPlaced /\ AckPlaced /\ ReadPlaced
    BY <1>4 DEF Settles, TripInv, InOnePlace
  <2>2. CASE \A r \in Queues : \A n : Awaits(r, n) => Awaits(r, n)'
    <3>1. \A i \in Trips(c2s) : c2s[i].queue \in Queues
      BY DEF TypeOK, TrafficOK, Requests, Trips
    <3>2. NoDones' = NoDones
      BY DEF NoDones
    <3>3. RequestPlaced'
      BY <1>1, <2>1, <2>2, <3>1, <3>2 DEF RequestPlaced
    <3>4. SlotPlaced'
      BY <1>1, <2>1, <2>2, <3>2 DEF SlotPlaced
    <3>5. AckPlaced'
      BY <1>1, <2>1, <2>2 DEF AckPlaced
    <3>6. ReadPlaced'
      BY <1>1, <2>1, <2>2 DEF ReadPlaced
    <3> QED BY <3>3, <3>4, <3>5, <3>6
  <2>3. CASE trip' = trip \/ (last[q] <= ackd[q] /\ \A r \in Queues \ {q} : trip'[r] = trip[r])
    <3>1. \A n : Awaits(q, n) => last[q] = n /\ ackd[q] < n
      BY DEF Awaits
    <3>2. last[q] <= ackd[q] => \A n : ~Awaits(q, n)
      BY <1>1, <3>1
    <3>3. \A r \in Queues : \A n : Awaits(r, n) => Awaits(r, n)'
      BY <1>1, <2>3, <3>2 DEF Awaits
    <3> QED BY <2>2, <3>3
  <2>4. CASE sState # "up" /\ s2c = <<>> /\ batch[q] = <<>>
    <3>1. Dones(s2c) = {} /\ \A r \in Queues : Dones(batch[r]) = {}
      BY <2>4 DEF Idle, Dones
    <3> QED BY <1>1, <2>4, <3>1 DEF RequestPlaced, SlotPlaced, AckPlaced, ReadPlaced
  <2> QED BY <1>1, <1>4, <2>3, <2>4 DEF Settles
<1> QED BY <1>2, <1>3, <1>4 DEF InOnePlace

LEMMA PlacesTrips ==
  ASSUME TypeOK, Shot, TripInv, ~overlapped', NEW q \in Queues, Places(q)
  PROVE  TripInv'
<1>1. /\ Others(q) /\ Stays(q) /\ Settles(q)
      /\ \A r \in Queues \ {q} : Idle(r)
  BY PlacesAlone DEF TripInv
<1>2. UNCHANGED <<c2s, s2c, batch, server>>
  BY PlacesStep
<1>3. Alone'
  BY <1>1, StaysAlone
<1>4. InOnePlace' /\ Acknowledged' /\ Matched'
  BY <1>1, <1>2, SettlesTrips
<1> QED BY <1>3, <1>4 DEF TripInv

-----------------------------------------------------------------------------
(* The messages of a roundtrip, along the streams. *)

\* The first of some messages is taken off.
LEMMA TakenOff ==
  ASSUME NEW T, NEW s \in Seq(T), s # <<>>
  PROVE  /\ \A i \in Dones(Tail(s)) : i + 1 \in Dones(s) /\ Tail(s)[i] = s[i + 1]
         /\ \A i \in Trips(Tail(s)) : i + 1 \in Trips(s) /\ Tail(s)[i] = s[i + 1]
         /\ Dones(s) \subseteq Nat /\ Trips(s) \subseteq Nat /\ Head(s) = s[1]
         /\ Dones(Tail(s)) \subseteq Nat \ {0} /\ Trips(Tail(s)) \subseteq Nat \ {0}
         /\ (Head(s).type = "done" => 1 \in Dones(s))
         /\ (Head(s).type = "trip" => 1 \in Trips(s))
<1>1. /\ Head(s) = s[1] /\ 1 \in 1..Len(s) /\ Len(s) \in Nat /\ Len(Tail(s)) = Len(s) - 1
      /\ \A i \in 1..Len(Tail(s)) : Tail(s)[i] = s[i + 1] /\ i + 1 \in 1..Len(s)
  BY TailFacts
<1> QED BY <1>1 DEF Dones, Trips

\* One is put at the end.
LEMMA PutOn ==
  ASSUME NEW T, NEW s \in Seq(T), NEW x \in T
  PROVE  /\ \A i \in 1..Len(s) : Append(s, x)[i] = s[i]
         /\ Append(s, x)[Len(s) + 1] = x
         /\ Dones(s) \subseteq 1..Len(s) /\ Trips(s) \subseteq 1..Len(s)
         /\ Dones(Append(s, x)) =
              IF x.type = "done" THEN Dones(s) \cup {Len(s) + 1} ELSE Dones(s)
         /\ Trips(Append(s, x)) =
              IF x.type = "trip" THEN Trips(s) \cup {Len(s) + 1} ELSE Trips(s)
<1>1. /\ Len(Append(s, x)) = Len(s) + 1 /\ Len(s) \in Nat
      /\ \A i \in 1..Len(s) : Append(s, x)[i] = s[i]
      /\ Append(s, x)[Len(s) + 1] = x
  BY AppendFacts
<1>2. \A i : i \in 1..(Len(s) + 1) <=> i \in 1..Len(s) \/ i = Len(s) + 1
  BY <1>1
<1>3. Dones(s) \subseteq 1..Len(s) /\ Trips(s) \subseteq 1..Len(s)
  BY DEF Dones, Trips
<1>4. \A i : i \in Dones(Append(s, x)) <=> i \in Dones(s) \/ (i = Len(s) + 1 /\ x.type = "done")
  BY <1>1, <1>2 DEF Dones
<1>5. \A i : i \in Trips(Append(s, x)) <=> i \in Trips(s) \/ (i = Len(s) + 1 /\ x.type = "trip")
  BY <1>1, <1>2 DEF Trips
<1>6. Dones(Append(s, x)) = IF x.type = "done" THEN Dones(s) \cup {Len(s) + 1} ELSE Dones(s)
  BY <1>4
<1>7. Trips(Append(s, x)) = IF x.type = "trip" THEN Trips(s) \cup {Len(s) + 1} ELSE Trips(s)
  BY <1>5
<1> QED BY <1>1, <1>3, <1>6, <1>7

\* They are cut in two.
LEMMA CutOff ==
  ASSUME NEW T, NEW s \in Seq(T), NEW n \in 1..Len(s)
  PROVE  LET a == SubSeq(s, 1, n)
             b == SubSeq(s, n + 1, Len(s))
         IN /\ \A i \in Dones(a) : i \in Dones(s) /\ a[i] = s[i] /\ i <= n
            /\ \A i \in Dones(b) : n + i \in Dones(s) /\ b[i] = s[n + i]
            /\ Dones(a) \subseteq Nat /\ Dones(b) \subseteq Nat \ {0}
<1> DEFINE a == SubSeq(s, 1, n)
           b == SubSeq(s, n + 1, Len(s))
<1>1. /\ Len(s) \in Nat /\ Len(a) = n /\ Len(b) = Len(s) - n
      /\ \A i \in 1..n : a[i] = s[i] /\ i \in 1..Len(s)
      /\ \A i \in 1..(Len(s) - n) : b[i] = s[n + i] /\ n + i \in 1..Len(s)
  BY CutFacts
<1> HIDE DEF a, b
<1>2. \A i \in Dones(a) : i \in Dones(s) /\ a[i] = s[i] /\ i <= n
  BY <1>1 DEF Dones
<1>3. \A i \in Dones(b) : n + i \in Dones(s) /\ b[i] = s[n + i]
  BY <1>1 DEF Dones
<1>4. Dones(a) \subseteq Nat /\ Dones(b) \subseteq Nat \ {0}
  BY <1>1 DEF Dones
<1> QED BY <1>2, <1>3, <1>4 DEF a, b

\* What the handling of a message does: it was the first of those q has read.
LEMMA HandlesMoves ==
  ASSUME TypeOK, Alone, NEW q \in Queues, Handles(q)
  PROVE  /\ Others(q) /\ Stays(q) /\ \A r \in Queues \ {q} : Idle(r)
         /\ \A i \in Dones(batch'[q]) :
              i + 1 \in Dones(batch[q]) /\ batch'[q][i] = batch[q][i + 1]
         /\ Dones(batch[q]) \subseteq Nat /\ Dones(batch'[q]) \subseteq Nat \ {0}
         /\ UNCHANGED <<trip, failed, last, c2s, s2c, server>> /\ (error => error')
         /\ \/ ackd' = ackd
            \/ 1 \in Dones(batch[q]) /\ ackd'[q] = batch[q][1].arg
<1>1. PICK type : NextIs(q, type)
  BY DEF Handles, HandleNewObject, HandleRoundtripDone, HandleEvent, HandleUnknown
<1>2. /\ ~Idle(q) /\ pc[q] = "batch" /\ batch[q] \in Seq(Messages) /\ batch[q] # <<>>
      /\ batch'[q] = Tail(batch[q]) /\ \A r \in Queues \ {q} : batch'[r] = batch[r]
  BY <1>1 DEF NextIs, Idle, TypeOK, TrafficOK
<1>3. /\ waiter = {} /\ \A r \in Queues \ {q} : Idle(r)
  BY <1>2, OnlyCall
<1>4. /\ UNCHANGED <<trip, failed, last, c2s, s2c, server, waiter>>
      /\ (error => error')
      /\ pc' = pc \/ Goto(q, "handler")
  BY DEF Handles, HandleNewObject, HandleRoundtripDone, HandleEvent, HandleUnknown,
     shared, trips, calls
<1>5. \/ ackd' = ackd
      \/ Head(batch[q]).type = "done" /\ ackd' = [ackd EXCEPT ![q] = Head(batch[q]).arg]
  BY DEF Handles, HandleNewObject, HandleRoundtripDone, HandleEvent, HandleUnknown,
     trips, NextIs
<1>6. pc'[q] \in {"batch", "handler"} /\ \A r \in Queues \ {q} : pc'[r] = pc[r]
  BY <1>2, <1>4 DEF Goto, TypeOK, CallsOK
<1>7. ackd \in [Queues -> Nat]
  BY DEF TypeOK, CallsOK
<1>8. Others(q)
  BY <1>2, <1>4, <1>5, <1>6, <1>7 DEF Others
<1>9. Stays(q)
  BY <1>3, <1>4, <1>6 DEF Stays
<1>10. /\ \A i \in Dones(batch'[q]) :
            i + 1 \in Dones(batch[q]) /\ batch'[q][i] = batch[q][i + 1]
       /\ Dones(batch[q]) \subseteq Nat /\ Dones(batch'[q]) \subseteq Nat \ {0}
       /\ Head(batch[q]) = batch[q][1]
       /\ (Head(batch[q]).type = "done" => 1 \in Dones(batch[q]))
  <2>1. PICK s \in Seq(Messages) : s = batch[q]
    BY <1>2
  <2>2. /\ \A i \in Dones(Tail(s)) : i + 1 \in Dones(s) /\ Tail(s)[i] = s[i + 1]
        /\ Dones(s) \subseteq Nat /\ Dones(Tail(s)) \subseteq Nat \ {0} /\ Head(s) = s[1]
        /\ (Head(s).type = "done" => 1 \in Dones(s))
    BY <1>2, <2>1, TakenOff
  <2> QED BY <1>2, <2>1, <2>2
<1>11. \/ ackd' = ackd
       \/ 1 \in Dones(batch[q]) /\ ackd'[q] = batch[q][1].arg
  BY <1>5, <1>7, <1>10
<1> QED BY <1>3, <1>4, <1>8, <1>9, <1>10, <1>11

\* A message is handled. If it acknowledges the roundtrip, that was the place
\* the roundtrip was in.
LEMMA HandlesTrips ==
  ASSUME TypeOK, TripInv, NEW q \in Queues, Handles(q)
  PROVE  TripInv'
<1>1. /\ Others(q) /\ Stays(q) /\ \A r \in Queues \ {q} : Idle(r)
      /\ \A i \in Dones(batch'[q]) :
           i + 1 \in Dones(batch[q]) /\ batch'[q][i] = batch[q][i + 1]
      /\ Dones(batch[q]) \subseteq Nat /\ Dones(batch'[q]) \subseteq Nat \ {0}
      /\ UNCHANGED <<trip, failed, last, c2s, s2c, server>> /\ (error => error')
      /\ \/ ackd' = ackd
         \/ 1 \in Dones(batch[q]) /\ ackd'[q] = batch[q][1].arg
  BY HandlesMoves DEF TripInv
<1>2. UNCHANGED <<served, sState, sSlot>>
  BY <1>1 DEF server
<1>3. Alone'
  BY <1>1, StaysAlone
<1>4. \A r \in Queues \ {q} : batch'[r] = batch[r] /\ ackd'[r] = ackd[r] /\ batch[r] = <<>>
  BY <1>1 DEF Others, Idle
<1>5. Matched'
  BY <1>1, <1>2 DEF TripInv, Matched
<1>6. Acknowledged'
  <2>1. \A r \in Queues : ackd[r] <= served[r] /\ served[r] <= last[r]
    BY DEF TripInv, Acknowledged
  <2>2. \A i \in Dones(batch[q]) : batch[q][i].arg <= served[q]
    BY DEF TripInv, Acknowledged
  <2>3. ackd'[q] <= served[q]
    BY <1>1, <2>1, <2>2
  <2>4. \A i \in Dones(batch'[q]) : batch'[q][i].arg <= served[q]
    BY <1>1, <2>2
  <2>5. \A r \in Queues \ {q} : \A i \in Dones(batch'[r]) : batch'[r][i].arg <= served[r]
    BY <1>4 DEF TripInv, Acknowledged
  <2> QED BY <1>1, <1>2, <1>4, <2>1, <2>3, <2>4, <2>5 DEF Acknowledged
<1>7. ASSUME ~error' PROVE (RequestPlaced /\ SlotPlaced /\ AckPlaced /\ ReadPlaced)'
  <2>1. RequestPlaced /\ SlotPlaced /\ AckPlaced /\ ReadPlaced
    BY <1>1, <1>7 DEF TripInv, InOnePlace
  <2>2. \A r \in Queues : Dones(batch[r]) = {} => Dones(batch'[r]) = {}
    BY <1>1, <1>4
  <2>3. \A r \in Queues \ {q} : Dones(batch'[r]) = {}
    BY <1>4 DEF Dones
  <2>4. CASE ackd' = ackd
    <3>1. \A r \in Queues : \A n : Awaits(r, n) => Awaits(r, n)'
      BY <1>1, <2>4 DEF Awaits
    <3>2. \A i \in Trips(c2s) : c2s[i].queue \in Queues
      BY DEF TypeOK, TrafficOK, Requests, Trips
    <3>3. NoDones => NoDones'
      BY <1>1, <2>2 DEF NoDones
    <3>4. RequestPlaced'
      BY <1>1, <1>2, <2>1, <3>1, <3>2, <3>3 DEF RequestPlaced
    <3>5. SlotPlaced'
      BY <1>1, <1>2, <2>1, <3>1, <3>3 DEF SlotPlaced
    <3>6. AckPlaced'
      BY <1>1, <1>2, <2>1, <2>2, <3>1 DEF AckPlaced
    <3>7. ReadPlaced'
      <4>1. ASSUME NEW i \in Dones(batch'[q])
            PROVE  /\ Awaits(q, batch[q][i].arg)'
                   /\ \A j \in Dones(batch'[q]) : i = j
        <5>1. i + 1 \in Dones(batch[q]) /\ batch'[q][i] = batch[q][i + 1] /\ i \in Nat
          BY <1>1, <4>1
        <5>2. Awaits(q, batch[q][i + 1].arg)
          BY <2>1, <5>1 DEF ReadPlaced
        <5>3. ASSUME NEW j \in Dones(batch'[q]) PROVE i = j
          <6>1. j + 1 \in Dones(batch[q]) /\ j \in Nat
            BY <1>1, <5>3
          <6>2. i + 1 = j + 1
            BY <2>1, <5>1, <6>1 DEF ReadPlaced
          <6> QED BY <5>1, <6>1, <6>2
        <5>4. Awaits(q, batch[q][i].arg)'
          <6>1. batch'[q][i].arg = batch[q][i + 1].arg
            BY <5>1
          <6> QED BY <1>1, <2>4, <5>2, <6>1 DEF Awaits
        <5> QED BY <5>3, <5>4
      <4> QED BY <2>3, <4>1 DEF ReadPlaced
    <3> QED BY <3>4, <3>5, <3>6, <3>7
  <2>5. CASE 1 \in Dones(batch[q])
    <3>1. Dones(batch'[q]) = {}
      <4>1. \A i \in Dones(batch'[q]) : i + 1 = 1 /\ i \in Nat \ {0}
        BY <1>1, <2>1, <2>5 DEF ReadPlaced
      <4> QED BY <4>1
    <3>2. ~NoDones
      BY <2>5 DEF NoDones
    <3>3. sState = "up" => Trips(c2s) = {} /\ ~(sSlot > 0)
      BY <2>1, <3>2 DEF RequestPlaced, SlotPlaced
    <3>4. Dones(s2c) = {}
      BY <2>1, <2>5 DEF AckPlaced
    <3> QED BY <1>1, <1>2, <2>3, <3>1, <3>3, <3>4
          DEF RequestPlaced, SlotPlaced, AckPlaced, ReadPlaced
  <2> QED BY <1>1, <2>4, <2>5
<1> QED BY <1>3, <1>5, <1>6, <1>7 DEF TripInv, InOnePlace

\* What a read does: it takes the first messages of the stream.
LEMMA ReadMoves ==
  ASSUME TypeOK, Alone, NEW q \in Queues, Read(q)
  PROVE  /\ Others(q) /\ Stays(q) /\ \A r \in Queues \ {q} : Idle(r)
         /\ ~error /\ ~error'
         /\ UNCHANGED <<trip, failed, last, ackd, c2s, server>>
         /\ \E n \in Nat :
              /\ \A i \in Dones(batch'[q]) :
                   i \in Dones(s2c) /\ batch'[q][i] = s2c[i] /\ i <= n
              /\ \A i \in Dones(s2c') : n + i \in Dones(s2c) /\ s2c'[i] = s2c[n + i]
              /\ Dones(batch'[q]) \subseteq Nat /\ Dones(s2c') \subseteq Nat \ {0}
<1>1. /\ ~Idle(q) /\ pc[q] = "read" /\ Goto(q, "batch")
      /\ UNCHANGED <<shared, trips, failed, c2s, server>>
      /\ s2c \in Seq(Messages) /\ batch \in [Queues -> Seq(Messages)]
  BY DEF Read, Idle, TypeOK, TrafficOK
<1>2. PICK n \in 1..Len(s2c) :
        /\ batch' = [batch EXCEPT ![q] = SubSeq(s2c, 1, n)]
        /\ s2c' = SubSeq(s2c, n + 1, Len(s2c))
  <2>1. DOMAIN s2c = 1..Len(s2c)
    BY <1>1
  <2> QED BY <2>1 DEF Read
<1>3. /\ waiter = {} /\ \A r \in Queues \ {q} : Idle(r)
  BY <1>1, OnlyCall
<1>4. ~error
  BY <1>1 DEF Alone
<1>5. pc'[q] = "batch" /\ \A r \in Queues \ {q} : pc'[r] = pc[r] /\ batch'[r] = batch[r]
  BY <1>1, <1>2 DEF Goto, TypeOK, CallsOK
<1>6. Others(q) /\ Stays(q)
  BY <1>1, <1>3, <1>4, <1>5 DEF Others, Stays, shared, trips
<1>7. batch'[q] = SubSeq(s2c, 1, n) /\ n \in Nat
  BY <1>1, <1>2
<1>8. /\ \A i \in Dones(batch'[q]) :
           i \in Dones(s2c) /\ batch'[q][i] = s2c[i] /\ i <= n
      /\ \A i \in Dones(s2c') : n + i \in Dones(s2c) /\ s2c'[i] = s2c[n + i]
      /\ Dones(batch'[q]) \subseteq Nat /\ Dones(s2c') \subseteq Nat \ {0}
  <2>1. PICK a : a = SubSeq(s2c, 1, n)
    OBVIOUS
  <2>2. PICK b : b = SubSeq(s2c, n + 1, Len(s2c))
    OBVIOUS
  <2>3. /\ \A i \in Dones(a) : i \in Dones(s2c) /\ a[i] = s2c[i] /\ i <= n
        /\ \A i \in Dones(b) : n + i \in Dones(s2c) /\ b[i] = s2c[n + i]
        /\ Dones(a) \subseteq Nat /\ Dones(b) \subseteq Nat \ {0}
    <3>1. LET a1 == SubSeq(s2c, 1, n)
              b1 == SubSeq(s2c, n + 1, Len(s2c))
          IN /\ \A i \in Dones(a1) : i \in Dones(s2c) /\ a1[i] = s2c[i] /\ i <= n
             /\ \A i \in Dones(b1) : n + i \in Dones(s2c) /\ b1[i] = s2c[n + i]
             /\ Dones(a1) \subseteq Nat /\ Dones(b1) \subseteq Nat \ {0}
      BY <1>1, CutOff, Zenon
    <3> QED BY <2>1, <2>2, <3>1, Zenon
  <2>4. batch'[q] = a /\ s2c' = b
    BY <1>2, <1>7, <2>1, <2>2
  <2> QED BY <2>3, <2>4
<1> QED BY <1>1, <1>3, <1>4, <1>6, <1>7, <1>8 DEF shared, trips

\* Only the queue whose roundtrip is under way can read its acknowledgment.
LEMMA ReadTrips ==
  ASSUME TypeOK, TripInv, NEW q \in Queues, Read(q)
  PROVE  TripInv'
<1>1. /\ Others(q) /\ Stays(q) /\ \A r \in Queues \ {q} : Idle(r)
      /\ ~error /\ ~error'
      /\ UNCHANGED <<trip, failed, last, ackd, c2s, server>>
  BY ReadMoves DEF TripInv
<1>2. PICK n \in Nat :
        /\ \A i \in Dones(batch'[q]) :
             i \in Dones(s2c) /\ batch'[q][i] = s2c[i] /\ i <= n
        /\ \A i \in Dones(s2c') : n + i \in Dones(s2c) /\ s2c'[i] = s2c[n + i]
        /\ Dones(batch'[q]) \subseteq Nat /\ Dones(s2c') \subseteq Nat \ {0}
  BY ReadMoves DEF TripInv
<1>3. UNCHANGED <<served, sState, sSlot>>
  BY <1>1 DEF server
<1>4. Alone'
  BY <1>1, StaysAlone
<1>5. RequestPlaced /\ SlotPlaced /\ AckPlaced /\ ReadPlaced
  BY <1>1 DEF TripInv, InOnePlace
<1>6. \A r \in Queues \ {q} : batch'[r] = batch[r] /\ Dones(batch'[r]) = {} /\ ~trip[r]
  BY <1>1 DEF Others, Idle, Dones
<1>7. \A i \in Dones(s2c) : Awaits(q, s2c[i].arg) /\ served[q] = s2c[i].arg
  BY <1>5, <1>6 DEF AckPlaced, Awaits
<1>8. Matched'
  BY <1>1, <1>3 DEF TripInv, Matched
<1>9. Acknowledged'
  <2>1. \A i \in Dones(batch'[q]) : batch'[q][i].arg = served[q]
    BY <1>2, <1>7
  <2>2. served[q] \in Nat
    BY DEF TypeOK, ServerOK
  <2>3. \A i \in Dones(batch'[q]) : batch'[q][i].arg <= served[q]
    BY <2>1, <2>2
  <2> QED BY <1>1, <1>3, <1>6, <2>3 DEF TripInv, Acknowledged
<1>10. \A r \in Queues : \A k : Awaits(r, k) => Awaits(r, k)'
  BY <1>1 DEF Awaits
<1>11. NoDones => NoDones'
  BY <1>2, <1>6 DEF NoDones
<1>12. RequestPlaced'
  <2>1. \A i \in Trips(c2s) : c2s[i].queue \in Queues
    BY DEF TypeOK, TrafficOK, Requests, Trips
  <2> QED BY <1>1, <1>3, <1>5, <1>10, <1>11, <2>1 DEF RequestPlaced
<1>13. SlotPlaced'
  BY <1>3, <1>5, <1>10, <1>11 DEF SlotPlaced
<1>14. AckPlaced'
  <2> SUFFICES ASSUME NEW i \in Dones(s2c')
               PROVE  /\ \E r \in Queues : /\ Awaits(r, s2c[i].arg)'
                                           /\ served'[r] = s2c'[i].arg
                      /\ \A r \in Queues : Dones(batch'[r]) = {}
                      /\ \A j \in Dones(s2c') : i = j
    BY DEF AckPlaced
  <2>1. n + i \in Dones(s2c) /\ s2c'[i] = s2c[n + i] /\ i \in Nat \ {0}
    BY <1>2
  <2>2. Awaits(q, s2c[i].arg)' /\ served'[q] = s2c'[i].arg
    BY <1>1, <1>3, <1>7, <2>1 DEF Awaits
  <2>3. Dones(batch'[q]) = {}
    <3> SUFFICES ASSUME NEW j \in Dones(batch'[q]) PROVE FALSE
      OBVIOUS
    <3>1. j \in Dones(s2c) /\ j <= n /\ j \in Nat
      BY <1>2
    <3>2. j = n + i
      BY <1>5, <2>1, <3>1 DEF AckPlaced
    <3> QED BY <2>1, <3>1, <3>2
  <2>4. ASSUME NEW j \in Dones(s2c') PROVE i = j
    <3>1. n + j \in Dones(s2c) /\ j \in Nat
      BY <1>2
    <3>2. n + i = n + j
      BY <1>5, <2>1, <3>1 DEF AckPlaced
    <3> QED BY <2>1, <3>1, <3>2
  <2> QED BY <1>6, <2>2, <2>3, <2>4
<1>15. ReadPlaced'
  <2>1. ASSUME NEW i \in Dones(batch'[q])
        PROVE  /\ Awaits(q, batch[q][i].arg)'
               /\ \A j \in Dones(batch'[q]) : i = j
    <3>1. i \in Dones(s2c) /\ batch'[q][i] = s2c[i]
      BY <1>2
    <3>2. Awaits(q, batch[q][i].arg)'
      BY <1>1, <1>7, <3>1 DEF Awaits
    <3>3. \A j \in Dones(batch'[q]) : i = j
      BY <1>2, <1>5, <3>1 DEF AckPlaced
    <3> QED BY <3>2, <3>3
  <2> QED BY <1>6, <2>1 DEF ReadPlaced
<1> QED BY <1>4, <1>8, <1>9, <1>12, <1>13, <1>14, <1>15 DEF TripInv, InOnePlace

\* What a step that is not of a call leaves alone.
CallsKept == UNCHANGED <<error, waiter, trip, last, ackd, pc, failed, batch>>

LEMMA KeptAlone ==
  ASSUME Alone, CallsKept
  PROVE  Alone'
  BY DEF Alone, Idle, CallsKept

\* Messages of no roundtrip are put on the streams, or the first taken off.
LEMMA OtherTraffic ==
  ASSUME TypeOK, TripInv, CallsKept, UNCHANGED <<served, sSlot>>,
         sState' = "up" => sState = "up",
         NEW d \in Nat,
         \A i \in Trips(c2s') : i + d \in Trips(c2s) /\ c2s'[i] = c2s[i + d] /\ i \in Nat,
         Dones(s2c') = Dones(s2c), \A i \in Dones(s2c) : s2c'[i] = s2c[i]
  PROVE  TripInv'
<1>1. Alone'
  BY KeptAlone DEF TripInv
<1>2. Acknowledged' /\ Matched'
  BY DEF CallsKept, TripInv, Acknowledged, Matched
<1>3. ASSUME ~error' PROVE (RequestPlaced /\ SlotPlaced /\ AckPlaced /\ ReadPlaced)'
  <2>1. RequestPlaced /\ SlotPlaced /\ AckPlaced /\ ReadPlaced
    BY <1>3 DEF CallsKept, TripInv, InOnePlace
  <2>2. \A q \in Queues : \A n : Awaits(q, n) => Awaits(q, n)'
    BY DEF CallsKept, Awaits
  <2>3. NoDones => NoDones'
    BY DEF CallsKept, NoDones
  <2>4. RequestPlaced'
    <3> SUFFICES ASSUME sState' = "up", NEW i \in Trips(c2s')
                 PROVE  /\ Awaits(c2s[i].queue, c2s[i].seq)'
                        /\ sSlot' = 0 /\ NoDones'
                        /\ \A j \in Trips(c2s') : i = j
      BY DEF RequestPlaced
    <3>1. i + d \in Trips(c2s) /\ c2s'[i] = c2s[i + d] /\ i \in Nat
      OBVIOUS
    <3>2. /\ Awaits(c2s[i + d].queue, c2s[i + d].seq)
          /\ sSlot = 0 /\ NoDones
          /\ \A j \in Trips(c2s) : i + d = j
      BY <2>1, <3>1 DEF RequestPlaced
    <3>3. Awaits(c2s[i].queue, c2s[i].seq)'
      BY <3>1, <3>2 DEF CallsKept, Awaits
    <3>4. ASSUME NEW j \in Trips(c2s') PROVE i = j
      <4>1. j + d \in Trips(c2s) /\ j \in Nat
        BY <3>4
      <4>2. i + d = j + d
        BY <3>2, <4>1
      <4> QED BY <3>1, <4>1, <4>2
    <3> QED BY <2>3, <3>2, <3>3, <3>4
  <2>5. SlotPlaced'
    BY <2>1, <2>2, <2>3 DEF SlotPlaced
  <2>6. AckPlaced'
    BY <2>1, <2>2 DEF CallsKept, AckPlaced
  <2>7. ReadPlaced'
    BY <2>1, <2>2 DEF CallsKept, ReadPlaced
  <2> QED BY <2>4, <2>5, <2>6, <2>7
<1> QED BY <1>1, <1>2, <1>3 DEF TripInv, InOnePlace

\* Without a roundtrip under way, there is nothing of one anywhere.
LEMMA NothingAwaited ==
  ASSUME TypeOK, TripInv, ~error, \A q \in Queues : ~trip[q] /\ batch[q] = <<>>
  PROVE  NoDones /\ (sState = "up" => Trips(c2s) = {} /\ sSlot = 0)
<1>1. RequestPlaced /\ SlotPlaced /\ AckPlaced
  BY DEF TripInv, InOnePlace
<1>2. \A q \in Queues : \A n : ~Awaits(q, n)
  BY DEF Awaits
<1>3. NoDones
  <2>1. \A q \in Queues : Dones(batch[q]) = {}
    <3>1. Dones(<<>>) = {}
      BY DEF Dones
    <3> QED BY <3>1
  <2>2. Dones(s2c) = {}
    BY <1>1, <1>2 DEF AckPlaced
  <2> QED BY <2>1, <2>2 DEF NoDones
<1>4. \A i \in Trips(c2s) : c2s[i].queue \in Queues
  BY DEF TypeOK, TrafficOK, Requests, Trips
<1>5. sState = "up" => Trips(c2s) = {}
  BY <1>1, <1>2, <1>4 DEF RequestPlaced
<1>6. sState = "up" => ~(sSlot > 0)
  BY <1>1, <1>2 DEF SlotPlaced
<1>7. sSlot \in Nat
  BY DEF TypeOK, ServerOK
<1> QED BY <1>3, <1>5, <1>6, <1>7

\* A roundtrip begins: its request is the place it is in.
LEMMA RoundtripTrips ==
  ASSUME TypeOK, TripInv, ~overlapped', NEW q \in Queues, Roundtrip(q)
  PROVE  TripInv'
<1>1. waiter = {} /\ ~error /\ \A r \in Queues : Idle(r)
  BY FirstCall DEF TripInv, Roundtrip
<1> DEFINE x == [type |-> "trip", queue |-> q, seq |-> last[q] + 1]
<1>2. /\ trip' = [trip EXCEPT ![q] = TRUE]
      /\ last' = [last EXCEPT ![q] = @ + 1] /\ c2s' = Append(c2s, x)
      /\ UNCHANGED <<shared, ackd, pc, failed, batch, s2c, server>>
  BY DEF Roundtrip
<1>3. /\ trip'[q] /\ last'[q] = last[q] + 1 /\ last[q] \in Nat
      /\ \A r \in Queues \ {q} : trip'[r] = trip[r] /\ last'[r] = last[r]
      /\ \A r \in Queues : ackd[r] \in Nat /\ served[r] \in Nat
      /\ c2s \in Seq(Requests)
  BY <1>2 DEF TypeOK, CallsOK, TrafficOK, ServerOK, FlagsOK
<1>5. Alone'
  <2>1. Others(q)
    BY <1>2, <1>3 DEF Others
  <2>2. Stays(q)
    BY <1>1, <1>2 DEF Stays, shared, Idle
  <2> QED BY <1>1, <2>1, <2>2, StaysAlone
<1>6. NoDones /\ (sState = "up" => Trips(c2s) = {} /\ sSlot = 0)
  BY <1>1, NothingAwaited DEF Idle
<1>7. /\ Trips(c2s') = Trips(c2s) \cup {Len(c2s) + 1}
      /\ c2s'[Len(c2s) + 1] = x
  <2>1. x \in Requests /\ x.type = "trip"
    BY <1>3 DEF Requests
  <2> HIDE DEF x
  <2> QED BY <1>2, <1>3, <2>1, PutOn
<1>8. UNCHANGED <<error, sState, sSlot, served, s2c, batch, ackd, failed>>
  BY <1>2 DEF shared, server
<1>9. \A r \in Queues : ackd[r] <= served[r] /\ served[r] <= last[r]
  BY DEF TripInv, Acknowledged
<1>10. Acknowledged'
  <2>1. served[q] <= last[q] + 1
    BY <1>3, <1>9
  <2>2. \A r \in Queues : Dones(batch[r]) = {}
    BY <1>6 DEF NoDones
  <2> QED BY <1>3, <1>8, <1>9, <2>1, <2>2 DEF Acknowledged
<1>11. Matched'
  BY <1>3, <1>8 DEF TripInv, Matched
<1>n. PICK n : n = last[q] + 1
  OBVIOUS
<1>12. Awaits(q, n)'
  <2>1. ackd[q] < last[q] + 1
    <3>1. ackd[q] \in Nat /\ served[q] \in Nat /\ ackd[q] <= served[q] /\ served[q] <= last[q]
      BY <1>3, <1>9
    <3> QED BY <1>3, <3>1
  <2> QED BY <1>3, <1>8, <1>n, <2>1 DEF Awaits
<1>13. (RequestPlaced /\ SlotPlaced /\ AckPlaced /\ ReadPlaced)'
  <2>1. x.queue = q /\ x.seq = n
    BY <1>n
  <2>2. NoDones'
    BY <1>6, <1>8 DEF NoDones
  <2> HIDE DEF x
  <2>3. RequestPlaced'
    <3> SUFFICES ASSUME sState' = "up", NEW i \in Trips(c2s')
                 PROVE  /\ Awaits(c2s[i].queue, c2s[i].seq)'
                        /\ sSlot' = 0 /\ NoDones'
                        /\ \A j \in Trips(c2s') : i = j
      BY DEF RequestPlaced
    <3>1. Trips(c2s') = {Len(c2s) + 1} /\ sSlot' = 0
      BY <1>6, <1>7, <1>8
    <3>2. c2s'[i].queue = q /\ c2s'[i].seq = n
      BY <1>7, <2>1, <3>1
    <3>3. Awaits(c2s[i].queue, c2s[i].seq)'
      BY <1>12, <3>2 DEF Awaits
    <3> QED BY <2>2, <3>1, <3>3
  <2>4. SlotPlaced' /\ AckPlaced' /\ ReadPlaced'
    BY <1>6, <1>8, <2>2 DEF SlotPlaced, AckPlaced, ReadPlaced, NoDones
  <2> QED BY <2>3, <2>4
<1> QED BY <1>5, <1>10, <1>11, <1>13 DEF TripInv, InOnePlace

\* The server takes the first message.
LEMMA ServerTakes ==
  ASSUME TypeOK, NEW type, ServerNext(type)
  PROVE  /\ c2s \in Seq(Requests) /\ c2s # <<>> /\ Serving
         /\ c2s' = Tail(c2s) /\ Head(c2s).type = type
<1>1. c2s \in Seq(Requests) /\ sBatch \in 0..Len(c2s) /\ sBatch > 0
  BY DEF ServerNext, TypeOK, TrafficOK, ServerOK
<1>2. c2s # <<>>
  BY <1>1
<1> QED BY <1>1, <1>2 DEF ServerNext

\* It handles the request of a roundtrip, which goes to the slot.
LEMMA RequestTrips ==
  ASSUME TypeOK, TripInv, HandleRoundtripRequest
  PROVE  TripInv'
<1>1. /\ c2s \in Seq(Requests) /\ c2s # <<>> /\ sState = "up" /\ ~error
      /\ c2s' = Tail(c2s) /\ Head(c2s).type = "trip"
  BY ServerTakes DEF HandleRoundtripRequest, Serving
<1>2. PICK m : m = Head(c2s)
  OBVIOUS
<1>3. /\ sSlot' = m.seq /\ served' = [served EXCEPT ![m.queue] = m.seq]
      /\ UNCHANGED <<client, s2c, sState>>
  BY <1>2 DEF HandleRoundtripRequest
<1>4. CallsKept /\ UNCHANGED <<error, s2c, sState, batch, trip, last, ackd, failed>>
  BY <1>3 DEF CallsKept, client, shared, trips, calls
<1>5. /\ \A i \in Trips(Tail(c2s)) : i + 1 \in Trips(c2s) /\ i \in Nat \ {0}
      /\ 1 \in Trips(c2s) /\ m = c2s[1]
  BY <1>1, <1>2, TakenOff
<1>6. RequestPlaced
  BY <1>1 DEF TripInv, InOnePlace
<1>7. /\ Awaits(m.queue, m.seq) /\ NoDones /\ \A j \in Trips(c2s) : 1 = j
  BY <1>1, <1>5, <1>6 DEF RequestPlaced
<1>8. m.queue \in Queues
  BY <1>1, <1>5 DEF Requests, Trips
<1>9. Trips(c2s') = {}
  <2> SUFFICES ASSUME NEW i \in Trips(Tail(c2s)) PROVE FALSE
    BY <1>1
  <2>1. i + 1 = 1 /\ i \in Nat \ {0}
    BY <1>5, <1>7
  <2> QED BY <2>1
<1>10. /\ served'[m.queue] = m.seq
       /\ \A r \in Queues \ {m.queue} : served'[r] = served[r]
  BY <1>3, <1>8 DEF TypeOK, ServerOK
<1>11. Alone'
  BY <1>4, KeptAlone DEF TripInv
<1>12. trip[m.queue] /\ last[m.queue] = m.seq /\ ackd[m.queue] < m.seq
  BY <1>7 DEF Awaits
<1>13. Matched'
  BY <1>4, <1>10, <1>12 DEF TripInv, Matched
<1>14. Acknowledged'
  <2>1. ackd[m.queue] <= m.seq /\ m.seq <= last[m.queue]
    BY <1>8, <1>12 DEF TypeOK, CallsOK
  <2>2. \A r \in Queues : Dones(batch[r]) = {}
    BY <1>7 DEF NoDones
  <2> QED BY <1>4, <1>10, <2>1, <2>2 DEF TripInv, Acknowledged
<1>15. (RequestPlaced /\ SlotPlaced /\ AckPlaced /\ ReadPlaced)'
  <2>1. NoDones'
    BY <1>4, <1>7 DEF NoDones
  <2>2. Awaits(m.queue, sSlot)' /\ served'[m.queue] = sSlot'
    BY <1>3, <1>4, <1>10, <1>12 DEF Awaits
  <2>3. SlotPlaced'
    BY <1>8, <2>1, <2>2 DEF SlotPlaced
  <2> QED BY <1>9, <2>1, <2>3 DEF RequestPlaced, AckPlaced, ReadPlaced, NoDones
<1> QED BY <1>11, <1>13, <1>14, <1>15 DEF TripInv, InOnePlace

\* At the end of the batch the slot becomes the acknowledgment.
LEMMA SlotTrips ==
  ASSUME TypeOK, TripInv, ServerEndsBatch
  PROVE  TripInv'
<1>1. /\ sState = "up" /\ ~error /\ sSlot' = 0
      /\ IF sSlot > 0 THEN ToClient("done", sSlot) ELSE UNCHANGED <<s2c, sentNo>>
      /\ UNCHANGED <<client, c2s, sState, served>>
  BY DEF ServerEndsBatch, Serving
<1>2. CallsKept /\ UNCHANGED <<error, batch, trip, last, ackd, failed>>
  BY <1>1 DEF CallsKept, client, shared, trips, calls
<1>3. s2c \in Seq(Messages) /\ sentNo \in Nat /\ sSlot \in Nat
  BY DEF TypeOK, TrafficOK, ServerOK
<1>4. Trips(c2s) \subseteq Nat
  BY DEF Trips
<1>5. CASE ~(sSlot > 0)
  <2>1. sSlot' = sSlot /\ s2c' = s2c
    BY <1>1, <1>3, <1>5
  <2>2. \A i \in Trips(c2s') : i + 0 \in Trips(c2s) /\ c2s'[i] = c2s[i + 0] /\ i \in Nat
    BY <1>1, <1>4
  <2> QED BY <1>1, <1>2, <2>1, <2>2, OtherTraffic
<1>6. CASE sSlot > 0
  <2>1. PICK x : x = [no |-> sentNo + 1, type |-> "done", arg |-> sSlot]
    OBVIOUS
  <2>2. s2c' = Append(s2c, x) /\ x \in Messages /\ x.type = "done" /\ x.arg = sSlot
    BY <1>1, <1>3, <1>6, <2>1 DEF ToClient, Messages
  <2>3. /\ Dones(s2c') = Dones(s2c) \cup {Len(s2c) + 1} /\ s2c'[Len(s2c) + 1] = x
    BY <1>3, <2>2, PutOn
  <2>4. RequestPlaced /\ SlotPlaced
    BY <1>1 DEF TripInv, InOnePlace
  <2>5. PICK q \in Queues : Awaits(q, sSlot) /\ served[q] = sSlot
    BY <1>1, <1>6, <2>4 DEF SlotPlaced
  <2>6. NoDones
    BY <1>1, <1>6, <2>4 DEF SlotPlaced
  <2>7. Trips(c2s) = {}
    BY <1>1, <1>3, <1>6, <2>4 DEF RequestPlaced
  <2>8. \A r \in Queues : Dones(batch'[r]) = {}
    BY <1>2, <2>6 DEF NoDones
  <2>9. PICK n : n = sSlot
    OBVIOUS
  <2>10. Awaits(q, n)' /\ served'[q] = n
    BY <1>1, <1>2, <2>5, <2>9 DEF Awaits
  <2>11. AckPlaced'
    <3> SUFFICES ASSUME NEW i \in Dones(s2c')
                 PROVE  /\ \E r \in Queues : /\ Awaits(r, s2c[i].arg)'
                                             /\ served'[r] = s2c'[i].arg
                        /\ \A r \in Queues : Dones(batch'[r]) = {}
                        /\ \A j \in Dones(s2c') : i = j
      BY DEF AckPlaced
    <3>1. Dones(s2c') = {Len(s2c) + 1}
      BY <2>3, <2>6 DEF NoDones
    <3>2. s2c'[i].arg = n
      BY <2>2, <2>3, <2>9, <3>1
    <3>3. Awaits(q, s2c[i].arg)' /\ served'[q] = s2c'[i].arg
      BY <2>10, <3>2 DEF Awaits
    <3> QED BY <2>8, <3>1, <3>3
  <2>12. RequestPlaced' /\ SlotPlaced' /\ ReadPlaced'
    BY <1>1, <2>7, <2>8 DEF RequestPlaced, SlotPlaced, ReadPlaced
  <2>13. Acknowledged' /\ Matched'
    BY <1>1, <1>2 DEF TripInv, Acknowledged, Matched
  <2>14. Alone'
    BY <1>2, KeptAlone DEF TripInv
  <2> QED BY <2>11, <2>12, <2>13, <2>14 DEF TripInv, InOnePlace
<1> QED BY <1>5, <1>6

\* The other steps of the server, and the request for an object.
LEMMA OtherTrips ==
  ASSUME TypeOK, TripInv,
         MakeObject \/ ServerReads \/ HandleMake \/ SendEvent \/ ServerExits
  PROVE  TripInv'
<1>1. /\ c2s \in Seq(Requests) /\ s2c \in Seq(Messages) /\ sentNo \in Nat
      /\ made \in Nat /\ Dones(s2c) \subseteq Nat
      /\ \A i \in Trips(c2s) : i + 0 = i /\ i \in Nat
  BY DEF TypeOK, TrafficOK, ServerOK, Dones, Trips
<1>2. CallsKept /\ UNCHANGED <<served, sSlot>> /\ (sState' = "up" => sState = "up")
  BY DEF MakeObject, ServerReads, HandleMake, SendEvent, ServerExits, CallsKept,
     client, server, shared, trips, calls
<1>3. CASE c2s' = c2s /\ s2c' = s2c
  <2>1. \A i \in Trips(c2s') : i + 0 \in Trips(c2s) /\ c2s'[i] = c2s[i + 0] /\ i \in Nat
    BY <1>1, <1>3
  <2> QED BY <1>2, <1>3, <2>1, OtherTraffic
<1>4. CASE MakeObject
  <2>1. PICK x : x = [type |-> "make"]
    OBVIOUS
  <2>2. c2s' = Append(c2s, x) /\ x \in Requests /\ x.type # "trip" /\ s2c' = s2c
    BY <1>4, <2>1 DEF MakeObject, Requests
  <2>3. /\ Trips(c2s') = Trips(c2s) /\ Trips(c2s) \subseteq 1..Len(c2s)
        /\ \A i \in 1..Len(c2s) : c2s'[i] = c2s[i]
    BY <1>1, <2>2, PutOn
  <2>4. \A i \in Trips(c2s') : i + 0 \in Trips(c2s) /\ c2s'[i] = c2s[i + 0] /\ i \in Nat
    BY <1>1, <2>3
  <2> QED BY <1>2, <2>2, <2>4, OtherTraffic
<1>5. ASSUME NEW type \in {"new", "event"}, NEW arg \in Nat, ToClient(type, arg)
      PROVE  Dones(s2c') = Dones(s2c) /\ \A i \in Dones(s2c) : s2c'[i] = s2c[i]
  <2>1. PICK x : x = [no |-> sentNo + 1, type |-> type, arg |-> arg]
    OBVIOUS
  <2>2. s2c' = Append(s2c, x) /\ x \in Messages /\ x.type # "done"
    BY <1>1, <1>5, <2>1 DEF ToClient, Messages
  <2> QED BY <1>1, <2>2, PutOn
<1>6. CASE HandleMake
  <2>1. c2s # <<>> /\ c2s' = Tail(c2s)
    BY <1>6, ServerTakes DEF HandleMake
  <2>2. Dones(s2c') = Dones(s2c) /\ \A i \in Dones(s2c) : s2c'[i] = s2c[i]
    BY <1>1, <1>5, <1>6 DEF HandleMake
  <2>3. \A i \in Trips(c2s') : i + 1 \in Trips(c2s) /\ c2s'[i] = c2s[i + 1] /\ i \in Nat
    BY <1>1, <2>1, TakenOff
  <2> QED BY <1>2, <2>2, <2>3, OtherTraffic
<1>7. CASE SendEvent
  <2>1. PICK id \in 1..made : ToClient("event", id)
    BY <1>7 DEF SendEvent
  <2>2. Dones(s2c') = Dones(s2c) /\ \A i \in Dones(s2c) : s2c'[i] = s2c[i]
    BY <1>1, <1>5, <2>1
  <2>3. c2s' = c2s
    BY <1>7 DEF SendEvent
  <2>4. \A i \in Trips(c2s') : i + 0 \in Trips(c2s) /\ c2s'[i] = c2s[i + 0] /\ i \in Nat
    BY <1>1, <2>3
  <2> QED BY <1>2, <2>2, <2>4, OtherTraffic
<1>8. CASE ServerReads \/ ServerExits
  BY <1>3, <1>8 DEF ServerReads, ServerExits
<1> QED BY <1>4, <1>6, <1>7, <1>8

\* No step takes a roundtrip out of its place.
LEMMA StepTrips ==
  ASSUME IInv, TripInv, ~overlapped', [Next]_vars
  PROVE  TripInv'
<1>1. TypeOK /\ Shot
  BY DEF IInv
<1>2. CASE \E q \in Queues : Dispatch(q) \/ Roundtrip(q) \/ GoesOn(q)
  <2>1. PICK q \in Queues : Dispatch(q) \/ Roundtrip(q) \/ GoesOn(q)
    BY <1>2
  <2>2. Roundtrip(q) \/ Places(q) \/ Handles(q) \/ Read(q)
    BY <2>1 DEF GoesOn, Places, Handles
  <2> QED BY <1>1, <2>2, RoundtripTrips, PlacesTrips, HandlesTrips, ReadTrips
<1>3. CASE MakeObject \/ ServerDispatch \/ SendEvent \/ ServerExits
  BY <1>1, <1>3, OtherTrips, RequestTrips, SlotTrips DEF ServerDispatch
<1>4. CASE UNCHANGED vars
  <2>1. CallsKept /\ UNCHANGED <<served, sSlot, sState, c2s, s2c>>
    BY <1>4 DEF vars, CallsKept, shared, trips, calls, server
  <2>2. \A i \in Trips(c2s) : i + 0 = i /\ i \in Nat
    BY DEF Trips
  <2>3. \A i \in Trips(c2s') : i + 0 \in Trips(c2s) /\ c2s'[i] = c2s[i + 0] /\ i \in Nat
    BY <2>1, <2>2
  <2> QED BY <1>1, <2>1, <2>3, OtherTraffic
<1> QED BY <1>2, <1>3, <1>4 DEF Next

(* Until calls overlap, a roundtrip that returned without an error was      *)
(* handled by the server. After that it is false: TLC finds a state of two  *)
(* queues in which it was not.                                              *)
THEOREM RoundtripsMatch == Spec => []RoundtripMatches
<1> DEFINE Apart == ~overlapped => TripInv
<1>1. Init => Apart
  <2> SUFFICES ASSUME Init PROVE TripInv
    OBVIOUS
  <2>1. Dones(<<>>) = {} /\ Trips(<<>>) = {}
    BY DEF Dones, Trips
  <2>2. Alone
    BY DEF Init, Alone, Idle
  <2>3. InOnePlace
    BY <2>1 DEF Init, InOnePlace, RequestPlaced, SlotPlaced, AckPlaced, ReadPlaced
  <2>4. Acknowledged /\ Matched
    BY <2>1 DEF Init, Acknowledged, Matched
  <2> QED BY <2>2, <2>3, <2>4 DEF TripInv
<1>2. IInv /\ Apart /\ [Next]_vars => Apart'
  <2> SUFFICES ASSUME IInv, Apart, [Next]_vars, ~overlapped' PROVE TripInv'
    OBVIOUS
  <2>1. ~overlapped
    BY NextOverlap, Zenon DEF IInv, TypeOK, FlagsOK
  <2> QED BY <2>1, StepTrips
<1>3. Apart => RoundtripMatches
  BY DEF TripInv, Matched, RoundtripMatches
<1> QED BY <1>1, <1>2, <1>3, Inductive, PTL DEF Spec
=============================================================================

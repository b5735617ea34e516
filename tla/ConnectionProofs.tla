-------------------------- MODULE ConnectionProofs --------------------------
(***************************************************************************)
(* Proofs about Connection, for every value of its constants: the type     *)
(* invariant, that the server never looks up an object it does not have,   *)
(* and that the two sides agree on what every id means.                    *)
(*                                                                         *)
(* NoUnknownObject is not inductive.  What makes it hold is that the       *)
(* destructor of an object is the last message about it (LastWord), that   *)
(* the client sends it only when nothing of its own can name the object    *)
(* again (ClientsAreListed), and that ids and seqs never part (Agreement,  *)
(* NewInFlight): the inductive invariant IInv says so.                     *)
(*                                                                         *)
(* The second part shows that the connection implements ObjectRegistry,    *)
(* that a destructor runs once and a disconnect runs the rest newest       *)
(* first, that a roundtrip is a barrier, that no request for an object is  *)
(* lost, and that calls arrive in the order they were made.  IInv does not *)
(* say that an object is asked for once, nor where the calls on it are.    *)
(* JInv adds that: each part speaks of few variables, and only the steps   *)
(* that change those have to be looked at for it.                          *)
(***************************************************************************)
EXTENDS Connection, SequenceTheorems, TLAPS

-----------------------------------------------------------------------------
(* The inductive invariant. *)

\* Requests carry numbers the client has given out, and say what they are for.
SeqsGivenOut ==
  /\ \A i \in 1..Len(c2s) : c2s[i].type \in {"bind", "make"} =>
       /\ c2s[i].seq \in 1..cSeq
       /\ (c2s[i].seq \in cRoots) <=> (c2s[i].type = "bind")
  /\ \A o \in 1..Len(sObj) :
       /\ sObj[o].seq \in 1..cSeq
       /\ (sObj[o].kind = "root") <=> (sObj[o].seq \in cRoots)

\* Deferred calls are methods of objects the client has asked for.
DeferredOK(q) ==
  \A i \in 1..Len(q) :
    /\ q[i].dep \in 1..cSeq
    /\ q[i].msg.type \in {"make", "call"}
    /\ q[i].msg.type = "make" => q[i].msg.seq \in (1..cSeq) \ cRoots

\* An id the client has is the server's id for the same seq.
Agreement ==
  \A s \in Seqs : cId[s] # 0 => cId[s] \in 1..Len(sObj) /\ sObj[cId[s]].seq = s

\* So is an id on its way to the client.
NewInFlight ==
  \A i \in 1..Len(s2c) : s2c[i].type = "new" =>
    s2c[i].obj \in 1..Len(sObj) /\ sObj[s2c[i].obj].seq = s2c[i].seq

\* While the client lists or holds an object, the server lists it and no
\* destructor of it is on its way.
ClientsAreListed ==
  sState = "up" =>
    \A o \in 1..Len(sObj) : sObj[o].seq \in cListed \cup cHeld =>
      /\ o \in sListed
      /\ \A i \in 1..Len(c2s) : c2s[i] # DestroyMsg(o)

\* Every object a message on its way names is listed.
NamedAreListed ==
  \A i \in 1..Len(c2s) : c2s[i].obj # 0 => c2s[i].obj \in sListed

\* A destructor is the last message about its object.
LastWord ==
  \A i, j \in 1..Len(c2s) :
    i < j /\ c2s[i].type = "destroy" => c2s[j].obj # c2s[i].obj

\* Messages have the shape their constructors give them.
Shapes ==
  \A i \in 1..Len(c2s) :
    /\ c2s[i].type = "destroy" => c2s[i] = DestroyMsg(c2s[i].obj)
    /\ c2s[i].type \in {"make", "call", "destroy"} => c2s[i].obj # 0

\* Nothing is on its way to a server that has let go of the client.
DownIsEmpty == sState # "up" => c2s = <<>>

StreamLinks ==
  /\ SeqsGivenOut /\ ClientsAreListed /\ NamedAreListed /\ LastWord /\ Shapes
  /\ DownIsEmpty
QueueLinks == DeferredOK(cQueue) /\ DeferredOK(cPending)
IdLinks == Agreement /\ NewInFlight

Links == StreamLinks /\ QueueLinks /\ IdLinks

IInv == TypeOK /\ Links

-----------------------------------------------------------------------------
(* Facts about sequences: a message put at the end, one taken off the front. *)

\* A message put at the end of a sequence.
LEMMA AppendFacts ==
  ASSUME NEW T, NEW q \in Seq(T), NEW x \in T
  PROVE  /\ q \o <<x>> \in Seq(T)
         /\ Len(q \o <<x>>) = Len(q) + 1
         /\ \A i \in 1..Len(q) : (q \o <<x>>)[i] = q[i]
         /\ (q \o <<x>>)[Len(q) + 1] = x
  OBVIOUS

\* The first message taken off a sequence.
LEMMA TailFacts ==
  ASSUME NEW T, NEW q \in Seq(T), q # <<>>
  PROVE  /\ Head(q) = q[1] /\ Head(q) \in T
         /\ Tail(q) \in Seq(T)
         /\ Len(q) \in Nat /\ Len(q) > 0 /\ Len(Tail(q)) = Len(q) - 1
         /\ \A i \in 1..Len(Tail(q)) : Tail(q)[i] = q[i + 1]
  OBVIOUS

\* What a sequence holds has the type of its elements.
LEMMA ElementFacts ==
  ASSUME NEW T, NEW q \in Seq(T), NEW i \in 1..Len(q)
  PROVE  q[i] \in T
  OBVIOUS

\* The rest of a batch, after its first message.
LEMMA SubSeqFacts ==
  ASSUME NEW T, NEW q \in Seq(T), NEW n \in 1..Len(q)
  PROVE  /\ SubSeq(q, 2, n) \in Seq(T)
         /\ Len(SubSeq(q, 2, n)) = n - 1
         /\ \A i \in 1..(n - 1) : SubSeq(q, 2, n)[i] = q[i + 1]
  OBVIOUS

-----------------------------------------------------------------------------
\* A connection starts in the invariant.
LEMMA InitInv == Init => IInv
<1> SUFFICES ASSUME Init PROVE IInv
  OBVIOUS
<1> USE ConnectionAssumption DEF Init, Seqs, Ids
<1>1. ClientTypeOK
  BY DEF ClientTypeOK
<1>2. StreamTypeOK
  BY DEF StreamTypeOK
<1>3. ServerTypeOK
  BY DEF ServerTypeOK
<1>4. FlagsOK
  BY Zenon DEF FlagsOK
<1>5. Links
  BY DEF Links, StreamLinks, QueueLinks, IdLinks, SeqsGivenOut, DeferredOK, Agreement, NewInFlight,
         ClientsAreListed, NamedAreListed, LastWord, Shapes, DownIsEmpty
<1> QED BY <1>1, <1>2, <1>3, <1>4, <1>5 DEF IInv, TypeOK

-----------------------------------------------------------------------------
(* What a step may do to the state without breaking the links: Names may   *)
(* grow by fresh numbers (Fresh), what the client can name may shrink or    *)
(* take in fresh numbers (Fewer).                                           *)

Fresh ==
  /\ cSeq \in Nat /\ cSeq' \in Nat /\ cSeq <= cSeq' /\ cSeq' <= MaxSeq
  /\ \A s \in 1..cSeq : s \in cRoots' <=> s \in cRoots

Fewer ==
  \A s \in 1..cSeq : s \in cListed' \cup cHeld' => s \in cListed \cup cHeld

\* The shape of c2s after one message was put at its end.
Sent(m) ==
  /\ c2s' \in Seq(ClientMessages)
  /\ Len(c2s) \in Nat /\ Len(c2s') = Len(c2s) + 1
  /\ \A i \in 1..Len(c2s) : c2s'[i] = c2s[i]
  /\ c2s'[Len(c2s) + 1] = m

\* What the client writes arrives at the end of c2s, or is lost.
LEMMA ToServerCases ==
  ASSUME NEW m \in ClientMessages, c2s \in Seq(ClientMessages), c2s' = ToServer(<<m>>)
  PROVE  c2s' = c2s \/ (sState = "up" /\ Sent(m))
<1>1. CASE cShut \/ sState # "up"
  BY <1>1 DEF ToServer
<1>2. CASE ~(cShut \/ sState # "up")
  <2>1. c2s' = c2s \o <<m>> /\ sState = "up"
    BY <1>2 DEF ToServer
  <2>2. /\ c2s \o <<m>> \in Seq(ClientMessages)
        /\ Len(c2s \o <<m>>) = Len(c2s) + 1
        /\ \A i \in 1..Len(c2s) : (c2s \o <<m>>)[i] = c2s[i]
        /\ (c2s \o <<m>>)[Len(c2s) + 1] = m
    BY AppendFacts
  <2>3. Len(c2s) \in Nat
    OBVIOUS
  <2>4. Sent(m)
    BY <2>1, <2>2, <2>3 DEF Sent
  <2> QED BY <2>1, <2>4
<1> QED BY <1>1, <1>2

\* SeqsGivenOut, when nothing is sent and seqs may be given out.
LEMMA SeqsKept ==
  ASSUME SeqsGivenOut, Fresh, c2s' = c2s, sObj' = sObj
  PROVE  SeqsGivenOut'
  BY DEF SeqsGivenOut, Fresh

\* SeqsGivenOut, when a message is sent whose seq was given out.
LEMMA SeqsSent ==
  ASSUME SeqsGivenOut, Fresh, sObj' = sObj, NEW m, Sent(m),
         m.type \in {"bind", "make"} =>
           m.seq \in 1..cSeq' /\ (m.seq \in cRoots' <=> m.type = "bind")
  PROVE  SeqsGivenOut'
<1>1. \A i \in 1..Len(c2s') : c2s'[i].type \in {"bind", "make"} =>
        /\ c2s'[i].seq \in 1..cSeq'
        /\ (c2s'[i].seq \in cRoots') <=> (c2s'[i].type = "bind")
  <2> SUFFICES ASSUME NEW i \in 1..Len(c2s'), c2s'[i].type \in {"bind", "make"}
               PROVE  /\ c2s'[i].seq \in 1..cSeq'
                      /\ (c2s'[i].seq \in cRoots') <=> (c2s'[i].type = "bind")
    OBVIOUS
  <2>1. CASE i = Len(c2s) + 1
    BY <2>1 DEF Sent
  <2>2. CASE i \in 1..Len(c2s)
    BY <2>2 DEF Sent, SeqsGivenOut, Fresh
  <2> QED BY <2>1, <2>2 DEF Sent
<1>2. \A o \in 1..Len(sObj) :
        /\ sObj[o].seq \in 1..cSeq'
        /\ (sObj[o].kind = "root") <=> (sObj[o].seq \in cRoots')
  BY DEF SeqsGivenOut, Fresh
<1> QED BY <1>1, <1>2 DEF SeqsGivenOut

\* ClientsAreListed, when the client comes to name nothing old.
LEMMA ListedKept ==
  ASSUME ClientsAreListed, SeqsGivenOut, Fewer,
         UNCHANGED <<c2s, sObj, sListed, sState>>
  PROVE  ClientsAreListed'
  BY DEF ClientsAreListed, SeqsGivenOut, Fewer, DestroyMsg

\* ClientsAreListed, when a message is sent that ends nothing it names.
LEMMA ListedSent ==
  ASSUME ClientsAreListed, SeqsGivenOut, Fewer, NEW m, Sent(m),
         UNCHANGED <<sObj, sListed, sState>>,
         \A o \in 1..Len(sObj) : sObj[o].seq \in cListed' \cup cHeld' => m # DestroyMsg(o)
  PROVE  ClientsAreListed'
<1> SUFFICES ASSUME sState = "up", NEW o \in 1..Len(sObj), sObj[o].seq \in cListed' \cup cHeld'
             PROVE  o \in sListed /\ \A i \in 1..Len(c2s') : c2s'[i] # DestroyMsg(o)
  BY DEF ClientsAreListed, DestroyMsg
<1>1. o \in sListed /\ \A i \in 1..Len(c2s) : c2s[i] # DestroyMsg(o)
  BY DEF ClientsAreListed, SeqsGivenOut, Fewer
<1>2. m # DestroyMsg(o)
  OBVIOUS
<1> QED BY <1>1, <1>2 DEF Sent

\* What the client can name is listed, and its destructor has not been sent.
LEMMA NamedIsListed ==
  ASSUME Agreement, ClientsAreListed, sState = "up",
         NEW s \in Seqs, s \in cListed \cup cHeld, cId[s] # 0
  PROVE  /\ cId[s] \in 1..Len(sObj) /\ sObj[cId[s]].seq = s
         /\ cId[s] \in sListed
         /\ \A i \in 1..Len(c2s) : c2s[i] # DestroyMsg(cId[s])
  BY DEF Agreement, ClientsAreListed

\* The links between messages, when one that names a listed object is sent.
LEMMA MessagesSent ==
  ASSUME NamedAreListed, LastWord, Shapes, NEW m, Sent(m), sListed' = sListed,
         sState = "up", sState' = sState,
         m.type = "destroy" => m = DestroyMsg(m.obj),
         m.type \in {"make", "call", "destroy"} => m.obj # 0,
         m.obj # 0 => m.obj \in sListed /\ \A i \in 1..Len(c2s) : c2s[i] # DestroyMsg(m.obj)
  PROVE  NamedAreListed' /\ LastWord' /\ Shapes' /\ DownIsEmpty'
<1>1. NamedAreListed'
  BY DEF NamedAreListed, Sent
<1>2. LastWord'
  <2> SUFFICES ASSUME NEW i \in 1..Len(c2s'), NEW j \in 1..Len(c2s'),
                      i < j, c2s'[i].type = "destroy"
               PROVE  c2s'[j].obj # c2s'[i].obj
    BY DEF LastWord
  <2>1. i \in 1..Len(c2s) /\ c2s'[i] = c2s[i]
    BY DEF Sent
  <2>2. c2s[i] = DestroyMsg(c2s[i].obj) /\ c2s[i].obj # 0
    BY <2>1 DEF Shapes
  <2>3. CASE j = Len(c2s) + 1
    <3>1. c2s'[j] = m
      BY <2>3 DEF Sent
    <3>2. ASSUME m.obj = c2s[i].obj PROVE FALSE
      BY <2>1, <2>2, <3>2
    <3> QED BY <2>1, <3>1, <3>2
  <2>4. CASE j \in 1..Len(c2s)
    <3>1. c2s'[j] = c2s[j]
      BY <2>4 DEF Sent
    <3> QED BY <2>1, <2>4, <3>1 DEF LastWord
  <2> QED BY <2>3, <2>4 DEF Sent
<1>3. Shapes'
  <2> SUFFICES ASSUME NEW i \in 1..Len(c2s')
               PROVE  /\ c2s'[i].type = "destroy" => c2s'[i] = DestroyMsg(c2s'[i].obj)
                      /\ c2s'[i].type \in {"make", "call", "destroy"} => c2s'[i].obj # 0
    BY DEF Shapes, DestroyMsg
  <2>1. CASE i \in 1..Len(c2s)
    <3>1. c2s'[i] = c2s[i]
      BY <2>1 DEF Sent
    <3> QED BY <2>1, <3>1 DEF Shapes
  <2>2. CASE i = Len(c2s) + 1
    <3>1. c2s'[i] = m
      BY <2>2 DEF Sent
    <3> QED BY <3>1
  <2> QED BY <2>1, <2>2 DEF Sent
<1>4. DownIsEmpty'
  BY DEF DownIsEmpty
<1> QED BY <1>1, <1>2, <1>3, <1>4

\* A client step that leaves the stream as it is.
LEMMA StreamKept ==
  ASSUME StreamLinks, Fresh, Fewer, UNCHANGED <<c2s, sObj, sListed, sState>>
  PROVE  StreamLinks'
<1>1. SeqsGivenOut'
  BY SeqsKept DEF StreamLinks
<1>2. ClientsAreListed'
  BY ListedKept DEF StreamLinks
<1>3. NamedAreListed' /\ LastWord' /\ Shapes' /\ DownIsEmpty'
  BY DEF StreamLinks, NamedAreListed, LastWord, Shapes, DownIsEmpty, DestroyMsg
<1> QED BY <1>1, <1>2, <1>3 DEF StreamLinks

\* What the client may send.
MaySend(m) ==
  /\ m \in ClientMessages
  /\ m.type \in {"bind", "make"} =>
       m.seq \in 1..cSeq' /\ (m.seq \in cRoots' <=> m.type = "bind")
  /\ m.type = "destroy" => m = DestroyMsg(m.obj)
  /\ m.type \in {"make", "call", "destroy"} => m.obj # 0
  /\ sState = "up" /\ m.obj # 0 =>
       m.obj \in sListed /\ \A i \in 1..Len(c2s) : c2s[i] # DestroyMsg(m.obj)
  /\ \A o \in 1..Len(sObj) : sObj[o].seq \in cListed' \cup cHeld' => m # DestroyMsg(o)

\* A client step that sends one message.
LEMMA StreamSent ==
  ASSUME StreamLinks, Fresh, Fewer, UNCHANGED <<sObj, sListed, sState>>,
         c2s \in Seq(ClientMessages), NEW m, MaySend(m), c2s' = ToServer(<<m>>)
  PROVE  StreamLinks'
<1>1. CASE c2s' = c2s
  BY <1>1, StreamKept
<1>2. CASE sState = "up" /\ Sent(m)
  <2>1. SeqsGivenOut'
    BY <1>2, SeqsSent DEF StreamLinks, MaySend
  <2>2. ClientsAreListed'
    BY <1>2, ListedSent DEF StreamLinks, MaySend
  <2>3. NamedAreListed' /\ LastWord' /\ Shapes' /\ DownIsEmpty'
    BY <1>2, MessagesSent DEF StreamLinks, MaySend
  <2> QED BY <2>1, <2>2, <2>3 DEF StreamLinks
<1> QED BY <1>1, <1>2, ToServerCases DEF MaySend

\* The first message was taken off c2s.
Taken ==
  /\ Len(c2s) \in Nat /\ Len(c2s') \in Nat /\ Len(c2s') = Len(c2s) - 1
  /\ \A i \in 1..Len(c2s') : c2s'[i] = c2s[i + 1] /\ i + 1 \in 1..Len(c2s)

\* The server takes the first message.
LEMMA TakenFacts ==
  ASSUME c2s \in Seq(ClientMessages), c2s # <<>>, c2s' = Tail(c2s)
  PROVE  /\ Taken /\ c2s' \in Seq(ClientMessages)
         /\ Head(c2s) = c2s[1] /\ 1 \in 1..Len(c2s) /\ Head(c2s) \in ClientMessages
  BY TailFacts DEF Taken

\* The links between messages, when the first is taken.
LEMMA TakenShapes ==
  ASSUME Taken, LastWord, Shapes
  PROVE  LastWord' /\ Shapes'
<1>1. LastWord'
  <2> SUFFICES ASSUME NEW i \in 1..Len(c2s'), NEW j \in 1..Len(c2s'),
                      i < j, c2s'[i].type = "destroy"
               PROVE  c2s'[j].obj # c2s'[i].obj
    BY DEF LastWord
  <2>1. /\ i + 1 \in 1..Len(c2s) /\ j + 1 \in 1..Len(c2s) /\ i + 1 < j + 1
        /\ c2s'[i] = c2s[i + 1] /\ c2s'[j] = c2s[j + 1]
    BY DEF Taken
  <2> QED BY <2>1 DEF LastWord
<1>2. Shapes'
  <2> SUFFICES ASSUME NEW i \in 1..Len(c2s')
               PROVE  /\ c2s'[i].type = "destroy" => c2s'[i] = DestroyMsg(c2s'[i].obj)
                      /\ c2s'[i].type \in {"make", "call", "destroy"} => c2s'[i].obj # 0
    BY DEF Shapes, DestroyMsg
  <2>1. i + 1 \in 1..Len(c2s) /\ c2s'[i] = c2s[i + 1]
    BY DEF Taken
  <2> QED BY <2>1 DEF Shapes
<1> QED BY <1>1, <1>2

\* The server takes a message and creates, destroys and closes nothing.
LEMMA StreamTaken ==
  ASSUME StreamLinks, Taken,
         UNCHANGED <<cSeq, cRoots, cListed, cHeld, sObj, sListed, sState>>,
         c2s' = Tail(c2s), c2s # <<>>
  PROVE  StreamLinks'
<1>1. SeqsGivenOut'
  BY DEF Taken, StreamLinks, SeqsGivenOut
<1>2. ClientsAreListed'
  <2> SUFFICES ASSUME sState = "up", NEW o \in 1..Len(sObj), sObj[o].seq \in cListed \cup cHeld
               PROVE  o \in sListed /\ \A i \in 1..Len(c2s') : c2s'[i] # DestroyMsg(o)
    BY DEF ClientsAreListed, DestroyMsg
  <2>1. o \in sListed /\ \A i \in 1..Len(c2s) : c2s[i] # DestroyMsg(o)
    BY DEF StreamLinks, ClientsAreListed
  <2> QED BY <2>1 DEF Taken
<1>3. NamedAreListed'
  BY DEF Taken, StreamLinks, NamedAreListed
<1>4. LastWord' /\ Shapes'
  BY TakenShapes DEF StreamLinks
<1>5. DownIsEmpty'
  BY DEF StreamLinks, DownIsEmpty
<1> QED BY <1>1, <1>2, <1>3, <1>4, <1>5 DEF StreamLinks

\* The server takes a destructor and ends its object.
LEMMA StreamDestroyed ==
  ASSUME StreamLinks, Taken,
         UNCHANGED <<cSeq, cRoots, cListed, cHeld, sObj, sState>>,
         c2s' = Tail(c2s), c2s # <<>>, NEW o,
         1 \in 1..Len(c2s), c2s[1].type = "destroy", o = c2s[1].obj,
         sListed' = sListed \ {o}
  PROVE  StreamLinks'
<1>1. SeqsGivenOut'
  BY DEF Taken, StreamLinks, SeqsGivenOut
<1>2. c2s[1] = DestroyMsg(o)
  BY DEF StreamLinks, Shapes
<1>3. ClientsAreListed'
  <2> SUFFICES ASSUME sState = "up", NEW p \in 1..Len(sObj), sObj[p].seq \in cListed \cup cHeld
               PROVE  p \in sListed' /\ \A i \in 1..Len(c2s') : c2s'[i] # DestroyMsg(p)
    BY DEF ClientsAreListed, DestroyMsg
  <2>1. p \in sListed /\ \A i \in 1..Len(c2s) : c2s[i] # DestroyMsg(p)
    BY DEF StreamLinks, ClientsAreListed
  <2>2. p # o
    BY <1>2, <2>1
  <2> QED BY <2>1, <2>2 DEF Taken
<1>4. NamedAreListed'
  <2> SUFFICES ASSUME NEW i \in 1..Len(c2s'), c2s'[i].obj # 0
               PROVE  c2s'[i].obj \in sListed'
    BY DEF NamedAreListed
  <2>1. i + 1 \in 1..Len(c2s) /\ 1 < i + 1 /\ c2s'[i] = c2s[i + 1]
    BY DEF Taken
  <2>2. c2s[i + 1].obj # o
    BY <2>1 DEF StreamLinks, LastWord
  <2> QED BY <2>1, <2>2 DEF StreamLinks, NamedAreListed
<1>5. LastWord' /\ Shapes'
  BY TakenShapes DEF StreamLinks
<1>6. DownIsEmpty'
  BY DEF StreamLinks, DownIsEmpty
<1> QED BY <1>1, <1>3, <1>4, <1>5, <1>6 DEF StreamLinks

\* The server takes a request for an object and makes it.
LEMMA StreamCreated ==
  ASSUME StreamLinks, Taken,
         UNCHANGED <<cSeq, cRoots, cListed, cHeld, sState>>,
         c2s' = Tail(c2s), c2s # <<>>, c2s \in Seq(ClientMessages),
         sObj \in Seq([seq : Seqs, kind : {"root", "child"}]),
         sListed \subseteq 1..Len(sObj),
         NEW s, NEW kind \in {"root", "child"}, s \in Seqs,
         s \in 1..cSeq, s \in cRoots <=> kind = "root",
         sObj' = sObj \o <<[seq |-> s, kind |-> kind]>>,
         sListed' = sListed \cup {Len(sObj) + 1}
  PROVE  StreamLinks'
<1>1. /\ Len(sObj) \in Nat /\ Len(sObj') = Len(sObj) + 1
      /\ \A o \in 1..Len(sObj) : sObj'[o] = sObj[o]
      /\ sObj'[Len(sObj) + 1] = [seq |-> s, kind |-> kind]
  BY AppendFacts
<1>2. SeqsGivenOut'
  <2>1. \A i \in 1..Len(c2s') : c2s'[i].type \in {"bind", "make"} =>
          /\ c2s'[i].seq \in 1..cSeq
          /\ (c2s'[i].seq \in cRoots) <=> (c2s'[i].type = "bind")
    BY DEF Taken, StreamLinks, SeqsGivenOut
  <2>2. ASSUME NEW o \in 1..Len(sObj')
        PROVE  /\ sObj'[o].seq \in 1..cSeq
               /\ (sObj'[o].kind = "root") <=> (sObj'[o].seq \in cRoots)
    <3>1. CASE o \in 1..Len(sObj)
      BY <1>1, <3>1 DEF StreamLinks, SeqsGivenOut
    <3>2. CASE o = Len(sObj) + 1
      BY <1>1, <3>2
    <3> QED BY <1>1, <3>1, <3>2
  <2> QED BY <2>1, <2>2 DEF SeqsGivenOut
<1>3. ASSUME NEW i \in 1..Len(c2s') PROVE c2s'[i] # DestroyMsg(Len(sObj) + 1)
  <2>1. i + 1 \in 1..Len(c2s) /\ c2s'[i] = c2s[i + 1]
    BY DEF Taken
  <2>2. c2s[i + 1].obj # 0 => c2s[i + 1].obj \in 1..Len(sObj)
    BY <2>1 DEF StreamLinks, NamedAreListed
  <2>3. c2s[i + 1].obj # Len(sObj) + 1
    BY <1>1, <2>2
  <2> QED BY <2>1, <2>3 DEF DestroyMsg
<1>4. ClientsAreListed'
  <2> SUFFICES ASSUME sState = "up", NEW o \in 1..Len(sObj'), sObj'[o].seq \in cListed \cup cHeld
               PROVE  o \in sListed' /\ \A i \in 1..Len(c2s') : c2s'[i] # DestroyMsg(o)
    BY DEF ClientsAreListed, DestroyMsg
  <2>1. CASE o = Len(sObj) + 1
    BY <1>3, <2>1
  <2>2. CASE o \in 1..Len(sObj)
    <3>1. o \in sListed /\ \A i \in 1..Len(c2s) : c2s[i] # DestroyMsg(o)
      BY <1>1, <2>2 DEF StreamLinks, ClientsAreListed
    <3> QED BY <3>1 DEF Taken
  <2> QED BY <1>1, <2>1, <2>2
<1>5. NamedAreListed'
  BY DEF Taken, StreamLinks, NamedAreListed
<1>6. LastWord' /\ Shapes'
  BY TakenShapes DEF StreamLinks
<1>7. DownIsEmpty'
  BY DEF StreamLinks, DownIsEmpty
<1> QED BY <1>2, <1>4, <1>5, <1>6, <1>7 DEF StreamLinks

\* The server lets go of the client: nothing is on its way any more.
LEMMA StreamClosed ==
  ASSUME StreamLinks, c2s' = <<>>, sState' # "up", UNCHANGED <<cSeq, cRoots, sObj>>
  PROVE  StreamLinks'
<1>1. SeqsGivenOut'
  BY DEF StreamLinks, SeqsGivenOut
<1>2. ClientsAreListed' /\ NamedAreListed' /\ LastWord' /\ Shapes' /\ DownIsEmpty'
  BY DEF ClientsAreListed, NamedAreListed, LastWord, Shapes, DownIsEmpty
<1> QED BY <1>1, <1>2 DEF StreamLinks

-----------------------------------------------------------------------------
(* The deferred calls. *)

\* The deferred calls, when they stay and seqs may be given out.
LEMMA QueuesKept ==
  ASSUME QueueLinks, Fresh, UNCHANGED <<cQueue, cPending>>
  PROVE  QueueLinks'
  BY DEF QueueLinks, DeferredOK, Fresh

\* A call is put at the end of the queue.
LEMMA QueueGrows ==
  ASSUME QueueLinks, Fresh, cQueue \in Seq(DeferredCalls), NEW d \in DeferredCalls,
         d.dep \in 1..cSeq', d.msg.type \in {"make", "call"},
         d.msg.type = "make" => d.msg.seq \in (1..cSeq') \ cRoots',
         cQueue' = Append(cQueue, d)
  PROVE  DeferredOK(cQueue)' /\ cQueue' \in Seq(DeferredCalls)
<1>1. /\ cQueue' \in Seq(DeferredCalls)
      /\ Len(cQueue') = Len(cQueue) + 1 /\ Len(cQueue) \in Nat
      /\ \A i \in 1..Len(cQueue) : cQueue'[i] = cQueue[i]
      /\ cQueue'[Len(cQueue) + 1] = d
  OBVIOUS
<1>2. ASSUME NEW i \in 1..Len(cQueue')
      PROVE  /\ cQueue'[i].dep \in 1..cSeq'
             /\ cQueue'[i].msg.type \in {"make", "call"}
             /\ cQueue'[i].msg.type = "make" => cQueue'[i].msg.seq \in (1..cSeq') \ cRoots'
  <2>1. CASE i \in 1..Len(cQueue)
    BY <1>1, <2>1 DEF QueueLinks, DeferredOK, Fresh
  <2>2. CASE i = Len(cQueue) + 1
    BY <1>1, <2>2
  <2> QED BY <1>1, <2>1, <2>2
<1> QED BY <1>1, <1>2 DEF DeferredOK

\* The flush looks at the first pending call.
LEMMA PendingShrinks ==
  ASSUME QueueLinks, cPending \in Seq(DeferredCalls), cPending # <<>>,
         cPending' = Tail(cPending), UNCHANGED <<cSeq, cRoots>>
  PROVE  /\ DeferredOK(cPending)' /\ cPending' \in Seq(DeferredCalls)
         /\ Head(cPending) \in DeferredCalls
         /\ Head(cPending).dep \in 1..cSeq
         /\ Head(cPending).msg.type \in {"make", "call"}
         /\ Head(cPending).msg.type = "make" => Head(cPending).msg.seq \in (1..cSeq) \ cRoots
<1>1. /\ Head(cPending) = cPending[1] /\ Head(cPending) \in DeferredCalls
      /\ Tail(cPending) \in Seq(DeferredCalls)
      /\ 1 \in 1..Len(cPending)
      /\ \A i \in 1..Len(Tail(cPending)) :
           Tail(cPending)[i] = cPending[i + 1] /\ i + 1 \in 1..Len(cPending)
  BY TailFacts
<1>2. DeferredOK(cPending)'
  BY <1>1 DEF QueueLinks, DeferredOK
<1> QED BY <1>1, <1>2 DEF QueueLinks, DeferredOK

-----------------------------------------------------------------------------
(* The ids. *)

\* The ids, when nothing about them changes.
LEMMA IdsKept ==
  ASSUME IdLinks, UNCHANGED <<cId, sObj, s2c>>
  PROVE  IdLinks'
  BY DEF IdLinks, Agreement, NewInFlight

\* The client reads a message: what stays in s2c was there.
LEMMA RepliesShrink ==
  ASSUME IdLinks, UNCHANGED <<cId, sObj>>, s2c' \in Seq(ServerMessages),
         \A i \in 1..Len(s2c') : \E j \in 1..Len(s2c) : s2c'[i] = s2c[j]
  PROVE  IdLinks'
  BY DEF IdLinks, Agreement, NewInFlight

\* The server sends something other than an id.
LEMMA ReplySent ==
  ASSUME IdLinks, UNCHANGED <<cId, sObj>>, s2c \in Seq(ServerMessages),
         NEW m \in ServerMessages, m.type # "new", s2c' = ToClient(<<m>>)
  PROVE  IdLinks' /\ s2c' \in Seq(ServerMessages) /\ Len(s2c') >= Len(s2c)
<1>1. CASE s2c' = s2c
  BY <1>1, IdsKept
<1>2. CASE s2c' = s2c \o <<m>>
  <2>1. /\ s2c' \in Seq(ServerMessages) /\ Len(s2c) \in Nat
        /\ Len(s2c') = Len(s2c) + 1
        /\ \A i \in 1..Len(s2c) : s2c'[i] = s2c[i]
        /\ s2c'[Len(s2c) + 1] = m
    <3>1. /\ s2c \o <<m>> \in Seq(ServerMessages)
          /\ Len(s2c \o <<m>>) = Len(s2c) + 1
          /\ \A i \in 1..Len(s2c) : (s2c \o <<m>>)[i] = s2c[i]
          /\ (s2c \o <<m>>)[Len(s2c) + 1] = m
      BY AppendFacts
    <3>2. Len(s2c) \in Nat
      OBVIOUS
    <3> QED BY <1>2, <3>1, <3>2
  <2>2. NewInFlight'
    BY <2>1 DEF IdLinks, NewInFlight
  <2>3. Agreement'
    BY DEF IdLinks, Agreement
  <2> QED BY <2>1, <2>2, <2>3 DEF IdLinks
<1> QED BY <1>1, <1>2 DEF ToClient

\* The server makes an object and sends its id.
LEMMA IdsCreated ==
  ASSUME IdLinks, UNCHANGED cId, s2c \in Seq(ServerMessages),
         sObj \in Seq([seq : Seqs, kind : {"root", "child"}]),
         NEW s \in Seqs, NEW kind \in {"root", "child"},
         CreateObject(s, kind)
  PROVE  /\ IdLinks' /\ s2c' \in Seq(ServerMessages) /\ Len(s2c') >= Len(s2c)
         /\ sObj' = sObj \o <<[seq |-> s, kind |-> kind]>>
         /\ sObj' \in Seq([seq : Seqs, kind : {"root", "child"}])
         /\ Len(sObj) \in Nat /\ Len(sObj') = Len(sObj) + 1
         /\ sListed' = sListed \cup {Len(sObj) + 1}
<1>0. [seq |-> s, kind |-> kind] \in [seq : Seqs, kind : {"root", "child"}]
  OBVIOUS
<1>1. /\ sObj' = sObj \o <<[seq |-> s, kind |-> kind]>>
      /\ sObj' \in Seq([seq : Seqs, kind : {"root", "child"}])
      /\ Len(sObj) \in Nat /\ Len(sObj') = Len(sObj) + 1
      /\ \A o \in 1..Len(sObj) : sObj'[o] = sObj[o]
      /\ sObj'[Len(sObj) + 1] = [seq |-> s, kind |-> kind]
  BY <1>0, AppendFacts DEF CreateObject
<1>2. sListed' = sListed \cup {Len(sObj) + 1}
  BY <1>1 DEF CreateObject
<1>3. Agreement'
  BY <1>1 DEF IdLinks, Agreement
<1>4. ASSUME s2c' = s2c \o <<NewMsg(Len(sObj) + 1, s)>>
      PROVE  NewInFlight' /\ s2c' \in Seq(ServerMessages) /\ Len(s2c') >= Len(s2c)
  <2>1. NewMsg(Len(sObj) + 1, s) \in ServerMessages
    BY <1>1, ConnectionAssumption DEF NewMsg, ServerMessages, Seqs
  <2>2. /\ s2c' \in Seq(ServerMessages) /\ Len(s2c) \in Nat
        /\ Len(s2c') = Len(s2c) + 1
        /\ \A i \in 1..Len(s2c) : s2c'[i] = s2c[i]
        /\ s2c'[Len(s2c) + 1] = NewMsg(Len(sObj) + 1, s)
    BY <1>4, <2>1, AppendFacts
  <2>3. ASSUME NEW i \in 1..Len(s2c'), s2c'[i].type = "new"
        PROVE  s2c'[i].obj \in 1..Len(sObj') /\ sObj'[s2c'[i].obj].seq = s2c'[i].seq
    <3>1. CASE i \in 1..Len(s2c)
      BY <1>1, <2>2, <2>3, <3>1 DEF IdLinks, NewInFlight
    <3>2. CASE i = Len(s2c) + 1
      BY <1>1, <2>2, <3>2 DEF NewMsg
    <3> QED BY <2>2, <3>1, <3>2
  <2> QED BY <2>2, <2>3 DEF NewInFlight
<1>5. ASSUME s2c' = s2c
      PROVE  NewInFlight' /\ s2c' \in Seq(ServerMessages) /\ Len(s2c') >= Len(s2c)
  <2>1. NewInFlight'
    BY <1>1, <1>5 DEF IdLinks, NewInFlight
  <2> QED BY <1>5, <2>1
<1>6. s2c' = s2c \/ s2c' = s2c \o <<NewMsg(Len(sObj) + 1, s)>>
  BY <1>1 DEF CreateObject, ToClient
<1> QED BY <1>1, <1>2, <1>3, <1>4, <1>5, <1>6 DEF IdLinks

-----------------------------------------------------------------------------
(* The types that a step of the other side leaves as they are. *)

\* The type of c2s after the client sends a message.
LEMMA SendType ==
  ASSUME StreamTypeOK, NEW m \in ClientMessages, c2s' = ToServer(<<m>>)
  PROVE  c2s' \in Seq(ClientMessages) /\ Len(c2s') >= Len(c2s)
<1>1. c2s \in Seq(ClientMessages)
  BY DEF StreamTypeOK
<1> QED BY <1>1, ToServerCases DEF Sent

\* The types of what a step of the client leaves alone.
LEMMA ServerFrame ==
  ASSUME ServerTypeOK, StreamTypeOK, UNCHANGED svars, UNCHANGED <<s2c, ahead>>,
         c2s' \in Seq(ClientMessages), Len(c2s') >= Len(c2s)
  PROVE  ServerTypeOK' /\ StreamTypeOK'
<1>1. /\ sObj' = sObj /\ sListed' = sListed /\ sDestroyed' = sDestroyed
      /\ sState' = sState /\ sBatch' = sBatch /\ sSlot' = sSlot
      /\ sSpent' = sSpent /\ sDtor' = sDtor /\ sLast' = sLast
  BY DEF svars, sObjects, sControl, sHistory
<1>2. Len(c2s) \in Nat /\ Len(c2s') \in Nat
  BY DEF StreamTypeOK
<1>3. StreamTypeOK'
  BY <1>2 DEF StreamTypeOK
<1>4. ServerTypeOK'
  BY <1>1, <1>2 DEF ServerTypeOK, Ids
<1> QED BY <1>3, <1>4

\* The types of what a step of the server leaves alone.
LEMMA ClientFrame ==
  ASSUME ClientTypeOK, UNCHANGED cvars, s2c \in Seq(ServerMessages),
         s2c' \in Seq(ServerMessages), Len(s2c') >= Len(s2c)
  PROVE  ClientTypeOK'
<1>1. /\ cSeq' = cSeq /\ cId' = cId /\ cRoots' = cRoots /\ cListed' = cListed
      /\ cHeld' = cHeld /\ cDestroyed' = cDestroyed /\ cQueue' = cQueue
      /\ cPending' = cPending /\ cpc' = cpc /\ cCur' = cCur /\ cWaitObj' = cWaitObj
      /\ cBatch' = cBatch /\ cSent' = cSent /\ cAckd' = cAckd /\ cCalls' = cCalls
  BY DEF cvars, cAsked, cObjects, cDeferred, cControl, cWaits
<1>2. cBatch' \in 0..Len(s2c')
  BY <1>1 DEF ClientTypeOK
<1> QED BY <1>1, <1>2 DEF ClientTypeOK

-----------------------------------------------------------------------------
(* Steps of the client that send nothing and take nothing off the stream. *)

\* Every step that only moves the client's control, or gives up objects.
LEMMA StillInv ==
  ASSUME IInv, UNCHANGED svars, UNCHANGED <<c2s, s2c, ahead>>,
         UNCHANGED <<cId, cSeq, cRoots, cQueue, cPending>>,
         cListed' \cup cHeld' \subseteq cListed \cup cHeld,
         FlagsOK', ClientTypeOK'
  PROVE  IInv'
<1>1. Fresh /\ Fewer
  BY DEF Fresh, Fewer, IInv, TypeOK, ClientTypeOK
<1>2. UNCHANGED <<sObj, sListed, sState>>
  BY DEF svars, sObjects, sControl
<1>3. StreamTypeOK' /\ ServerTypeOK'
  <2>1. c2s' \in Seq(ClientMessages) /\ Len(c2s') >= Len(c2s)
    BY DEF IInv, TypeOK, StreamTypeOK
  <2> QED BY <2>1, ServerFrame DEF IInv, TypeOK
<1>4. StreamLinks'
  BY <1>1, <1>2, StreamKept DEF IInv, Links
<1>5. QueueLinks'
  BY <1>1, QueuesKept DEF IInv, Links
<1>6. IdLinks'
  BY <1>2, IdsKept DEF IInv, Links
<1> QED BY <1>3, <1>4, <1>5, <1>6 DEF IInv, TypeOK, Links

\* bind and roundtrip return, with or without an error.
LEMMA WaitsInv ==
  ASSUME IInv, WaitReturns \/ WaitFails \/ ClientReadsEnd
  PROVE  IInv'
<1>1. FlagsOK'
  BY Zenon DEF IInv, TypeOK, FlagsOK, WaitReturns, WaitFails, ClientReadsEnd, svars, cFailed,
       cControl, sControl
<1>2. UNCHANGED svars /\ UNCHANGED <<c2s, s2c, ahead>>
      /\ UNCHANGED <<cId, cSeq, cRoots, cQueue, cPending>>
  BY DEF WaitReturns, WaitFails, ClientReadsEnd, cAsked, cObjects, cDeferred
<1>3. /\ cHeld' \subseteq cHeld /\ cWaitObj' = 0 /\ cpc' \in {cpc, "app"}
      /\ UNCHANGED <<cListed, cDestroyed, cBatch, cCur, cSent, cAckd, cCalls>>
  BY DEF WaitReturns, WaitFails, ClientReadsEnd, HeldAfterFailure, cAsked, cObjects, cControl
<1>4. ClientTypeOK'
  BY <1>2, <1>3 DEF IInv, TypeOK, ClientTypeOK
<1> QED BY <1>1, <1>2, <1>3, <1>4, StillInv

\* dispatch_events goes from one phase to the next.
LEMMA ControlInv ==
  ASSUME IInv, \/ Dispatch \/ CollectDone \/ NoTraffic \/ ClientReads
               \/ HandlerBlocks \/ FlushDone
  PROVE  IInv'
<1>1. FlagsOK'
  BY Zenon DEF IInv, TypeOK, FlagsOK, Dispatch, CollectDone, NoTraffic, ClientReads,
       HandlerBlocks, FlushDone, svars, cFailed, cWaits, sControl
<1>2. UNCHANGED svars /\ UNCHANGED <<c2s, s2c, ahead>>
      /\ UNCHANGED <<cId, cSeq, cRoots, cQueue, cPending>>
  BY DEF Dispatch, CollectDone, NoTraffic, ClientReads, HandlerBlocks, FlushDone,
         cAsked, cObjects, cDeferred
<1>3. /\ UNCHANGED <<cListed, cHeld, cDestroyed, cCur, cWaitObj, cSent, cAckd, cCalls>>
      /\ cpc' \in {"collect", "wait", "app", "batch", "stuck", "sweep"}
      /\ cBatch' = cBatch \/ cBatch' \in 1..Len(s2c)
  BY DEF Dispatch, CollectDone, NoTraffic, ClientReads, HandlerBlocks, FlushDone,
         cAsked, cObjects, cWaits
<1>4. ClientTypeOK'
  BY <1>2, <1>3 DEF IInv, TypeOK, ClientTypeOK
<1> QED BY <1>1, <1>2, <1>3, <1>4, StillInv

\* A handler keeps its proxy.
LEMMA KeepProxyInv ==
  ASSUME IInv, KeepProxy
  PROVE  IInv'
<1>1. FlagsOK'
  BY Zenon DEF IInv, TypeOK, FlagsOK, KeepProxy, svars, cFailed, cWaits, cControl, sControl
<1>2. UNCHANGED svars /\ UNCHANGED <<c2s, s2c, ahead>>
      /\ UNCHANGED <<cId, cSeq, cRoots, cQueue, cPending>>
  BY DEF KeepProxy, cAsked, cObjects, cDeferred
<1>3. /\ UNCHANGED <<cListed, cDestroyed, cCur, cBatch, cpc, cWaitObj, cSent, cAckd, cCalls>>
      /\ cHeld' = cHeld \cup {cCur} /\ cpc = "handler"
  BY DEF KeepProxy, cAsked, cObjects, cWaits, cControl
<1>4. ClientTypeOK' /\ cCur \in cListed
  BY <1>2, <1>3 DEF IInv, TypeOK, ClientTypeOK
<1> QED BY <1>1, <1>2, <1>3, <1>4, StillInv

\* A handler returns; a destructor event ends its object.
LEMMA HandlerReturnsInv ==
  ASSUME IInv, HandlerReturns
  PROVE  IInv'
<1>1. FlagsOK'
  BY Zenon DEF IInv, TypeOK, FlagsOK, HandlerReturns, svars, cFailed, cWaits, sControl
<1>2. UNCHANGED svars /\ UNCHANGED <<c2s, s2c, ahead>>
      /\ UNCHANGED <<cId, cSeq, cRoots, cQueue, cPending>>
  BY DEF HandlerReturns, cAsked, cDeferred
<1>3. /\ UNCHANGED <<cHeld, cBatch, cWaitObj, cSent, cAckd, cCalls>>
      /\ cpc' = "batch" /\ cCur' = 0 /\ cListed' \subseteq cListed
      /\ cDestroyed' \subseteq cDestroyed \cup {cCur}
      /\ cpc = "handler"
  BY DEF HandlerReturns, cAsked, cWaits
<1>4. ClientTypeOK'
  BY <1>2, <1>3 DEF IInv, TypeOK, ClientTypeOK
<1> QED BY <1>1, <1>2, <1>3, <1>4, StillInv

-----------------------------------------------------------------------------
(* Steps of the client that read a message. *)

\* Every step of the client that takes messages off s2c.
LEMMA ReadInv ==
  ASSUME IInv, UNCHANGED svars, UNCHANGED <<c2s, ahead>>,
         UNCHANGED <<cSeq, cRoots, cListed, cHeld, cQueue, cPending>>,
         IdLinks', s2c' \in Seq(ServerMessages), FlagsOK', ClientTypeOK'
  PROVE  IInv'
<1>1. Fresh /\ Fewer
  BY DEF Fresh, Fewer, IInv, TypeOK, ClientTypeOK
<1>2. UNCHANGED <<sObj, sListed, sState>>
  BY DEF svars, sObjects, sControl
<1>3. StreamTypeOK'
  BY DEF IInv, TypeOK, StreamTypeOK
<1>4. ServerTypeOK'
  BY DEF IInv, TypeOK, ServerTypeOK, svars, sObjects, sControl, sHistory, Ids
<1>5. StreamLinks'
  BY <1>1, <1>2, StreamKept DEF IInv, Links
<1>6. QueueLinks'
  BY <1>1, QueuesKept DEF IInv, Links
<1> QED BY <1>3, <1>4, <1>5, <1>6 DEF IInv, TypeOK, Links

\* The client takes the first message.
LEMMA ReadTail ==
  ASSUME IInv, s2c # <<>>, s2c' = Tail(s2c)
  PROVE  /\ s2c' \in Seq(ServerMessages) /\ Len(s2c) \in Nat
         /\ Len(s2c') = Len(s2c) - 1
         /\ \A i \in 1..Len(s2c') : \E j \in 1..Len(s2c) : s2c'[i] = s2c[j]
         /\ 1 \in 1..Len(s2c) /\ Head(s2c) = s2c[1] /\ Head(s2c) \in ServerMessages
<1>1. s2c \in Seq(ServerMessages)
  BY DEF IInv, TypeOK, StreamTypeOK
<1>2. /\ s2c' \in Seq(ServerMessages) /\ Len(s2c) \in Nat /\ Len(s2c) > 0
      /\ Len(s2c') = Len(s2c) - 1 /\ Head(s2c) = s2c[1] /\ Head(s2c) \in ServerMessages
      /\ \A i \in 1..Len(s2c') : s2c'[i] = s2c[i + 1] /\ i + 1 \in 1..Len(s2c)
  BY <1>1, TailFacts
<1> QED BY <1>2

\* handle_message is at a message that was read.
LEMMA ClientNextFacts ==
  ASSUME IInv, NEW types, ClientNext(types)
  PROVE  s2c # <<>> /\ cBatch \in 1..Len(s2c) /\ cBatch' = cBatch - 1 /\ cpc = "batch"
  BY DEF ClientNext, IInv, TypeOK, ClientTypeOK, StreamTypeOK

\* An id arrives.
LEMMA HandleNewObjectInv ==
  ASSUME IInv, HandleNewObject
  PROVE  IInv'
<1> USE DEF HandleNewObject
<1>1. FlagsOK'
  BY Zenon DEF IInv, TypeOK, FlagsOK, svars, cFailed, cWaits, sControl
<1>2. UNCHANGED svars /\ UNCHANGED <<c2s, ahead>>
      /\ UNCHANGED <<cSeq, cRoots, cListed, cHeld, cQueue, cPending, cDestroyed>>
      /\ UNCHANGED <<cpc, cCur, cWaitObj, cSent, cAckd, cCalls>>
      /\ s2c' = Tail(s2c)
      /\ cId' = OnSeq(Head(s2c).seq, Head(s2c).obj)
  BY DEF cAsked, cDeferred, cWaits
<1>3. s2c # <<>> /\ cBatch \in 1..Len(s2c) /\ cBatch' = cBatch - 1 /\ cpc = "batch"
  BY ClientNextFacts
<1>4. Head(s2c).type = "new"
  BY DEF ClientNext
<1>5. /\ s2c' \in Seq(ServerMessages) /\ Len(s2c) \in Nat
      /\ Len(s2c') = Len(s2c) - 1
      /\ \A i \in 1..Len(s2c') : \E j \in 1..Len(s2c) : s2c'[i] = s2c[j]
      /\ 1 \in 1..Len(s2c) /\ Head(s2c) = s2c[1] /\ Head(s2c) \in ServerMessages
  BY <1>2, <1>3, ReadTail
<1> DEFINE m == Head(s2c)
<1>6. m.obj \in 1..Len(sObj) /\ sObj[m.obj].seq = m.seq
  BY <1>4, <1>5 DEF IInv, Links, IdLinks, NewInFlight
<1>7. cId \in [Seqs -> Nat] /\ m.obj \in Nat
  BY <1>5 DEF IInv, TypeOK, ClientTypeOK, ServerMessages
<1>8. cId' \in [Seqs -> Nat]
  BY <1>2, <1>7 DEF OnSeq
<1>9. UNCHANGED sObj
  BY <1>2 DEF svars, sObjects
<1>10. NewInFlight'
  BY <1>5, <1>9 DEF IInv, Links, IdLinks, NewInFlight
<1>11. Agreement'
  <2> SUFFICES ASSUME NEW s \in Seqs, cId'[s] # 0
               PROVE  cId'[s] \in 1..Len(sObj) /\ sObj[cId'[s]].seq = s
    BY <1>9 DEF Agreement
  <2>1. cId'[s] = cId[s] \/ (cId'[s] = m.obj /\ s = m.seq)
    BY <1>2, <1>7 DEF OnSeq
  <2>2. CASE cId'[s] = cId[s]
    BY <2>2 DEF IInv, Links, IdLinks, Agreement
  <2> QED BY <1>6, <2>1, <2>2
<1>12. ClientTypeOK'
  BY <1>2, <1>3, <1>5, <1>8 DEF IInv, TypeOK, ClientTypeOK
<1> QED BY <1>1, <1>2, <1>5, <1>10, <1>11, <1>12, ReadInv DEF IdLinks

\* An event of a listed object arrives.
LEMMA HandleEventInv ==
  ASSUME IInv, HandleEvent
  PROVE  IInv'
<1>1. FlagsOK'
  <2>1. cCurLast' \in BOOLEAN
    BY Zenon DEF HandleEvent
  <2> QED BY Zenon, <2>1 DEF IInv, TypeOK, FlagsOK, HandleEvent, svars, cFailed, cWaits, sControl
<1>2. UNCHANGED svars /\ UNCHANGED <<c2s, ahead>>
      /\ UNCHANGED <<cSeq, cId, cRoots, cListed, cHeld, cQueue, cPending, cDestroyed>>
      /\ UNCHANGED <<cWaitObj, cSent, cAckd, cCalls>>
      /\ s2c' = Tail(s2c) /\ cCur' \in cListed /\ cpc' = "handler"
  BY DEF HandleEvent, cAsked, cObjects, cDeferred, cWaits
<1>3. s2c # <<>> /\ cBatch \in 1..Len(s2c) /\ cBatch' = cBatch - 1 /\ cpc = "batch"
  BY ClientNextFacts DEF HandleEvent
<1>4. /\ s2c' \in Seq(ServerMessages) /\ Len(s2c) \in Nat
      /\ Len(s2c') = Len(s2c) - 1
      /\ \A i \in 1..Len(s2c') : \E j \in 1..Len(s2c) : s2c'[i] = s2c[j]
  BY <1>2, <1>3, ReadTail
<1>5. IdLinks'
  <2>1. UNCHANGED <<cId, sObj>>
    BY <1>2 DEF svars, sObjects
  <2> QED BY <1>4, <2>1, RepliesShrink DEF IInv, Links
<1>6. ClientTypeOK'
  BY <1>2, <1>3, <1>4 DEF IInv, TypeOK, ClientTypeOK
<1> QED BY <1>1, <1>2, <1>4, <1>5, <1>6, ReadInv

\* An event of an object that is not listed arrives.
LEMMA HandleUnknownInv ==
  ASSUME IInv, HandleUnknown
  PROVE  IInv'
<1>1. FlagsOK'
  BY Zenon DEF IInv, TypeOK, FlagsOK, HandleUnknown, svars, cWaits, sControl
<1>2. UNCHANGED svars /\ UNCHANGED <<c2s, ahead>>
      /\ UNCHANGED <<cSeq, cId, cRoots, cListed, cHeld, cQueue, cPending, cDestroyed>>
      /\ UNCHANGED <<cpc, cCur, cWaitObj, cSent, cAckd, cCalls>>
      /\ s2c' = SubSeq(s2c, 2, cBatch)
  BY DEF HandleUnknown, cAsked, cObjects, cDeferred, cWaits
<1>3. s2c # <<>> /\ cBatch \in 1..Len(s2c) /\ cBatch' = cBatch - 1 /\ cpc = "batch"
  BY ClientNextFacts DEF HandleUnknown
<1>4. s2c \in Seq(ServerMessages)
  BY DEF IInv, TypeOK, StreamTypeOK
<1>5. /\ s2c' \in Seq(ServerMessages) /\ Len(s2c) \in Nat
      /\ Len(s2c') = cBatch - 1
      /\ \A i \in 1..(cBatch - 1) : s2c'[i] = s2c[i + 1] /\ i + 1 \in 1..Len(s2c)
  BY <1>2, <1>3, <1>4, SubSeqFacts
<1>6. \A i \in 1..Len(s2c') : \E j \in 1..Len(s2c) : s2c'[i] = s2c[j]
  BY <1>5
<1>7. IdLinks'
  <2>1. UNCHANGED <<cId, sObj>>
    BY <1>2 DEF svars, sObjects
  <2> QED BY <1>5, <1>6, <2>1, RepliesShrink DEF IInv, Links
<1>8. ClientTypeOK'
  BY <1>2, <1>3, <1>5 DEF IInv, TypeOK, ClientTypeOK
<1> QED BY <1>1, <1>2, <1>5, <1>7, <1>8, ReadInv

\* The end of a roundtrip or a fatal error arrives.
LEMMA HandleAnswerInv ==
  ASSUME IInv, HandleRoundtripDone \/ HandleFatal
  PROVE  IInv'
<1>1. FlagsOK'
  BY Zenon DEF IInv, TypeOK, FlagsOK, HandleRoundtripDone, HandleFatal, svars, cFailed,
       cWaits, sControl
<1>2. UNCHANGED svars /\ UNCHANGED <<c2s, ahead>>
      /\ UNCHANGED <<cSeq, cId, cRoots, cListed, cHeld, cQueue, cPending, cDestroyed>>
      /\ UNCHANGED <<cpc, cCur, cWaitObj, cSent, cCalls>>
      /\ s2c' = Tail(s2c) /\ cAckd' \in {cAckd, Head(s2c).seq}
  BY DEF HandleRoundtripDone, HandleFatal, cAsked, cObjects, cDeferred, cWaits
<1>3. s2c # <<>> /\ cBatch \in 1..Len(s2c) /\ cBatch' = cBatch - 1 /\ cpc = "batch"
  BY ClientNextFacts DEF HandleRoundtripDone, HandleFatal
<1>4. /\ s2c' \in Seq(ServerMessages) /\ Len(s2c) \in Nat
      /\ Len(s2c') = Len(s2c) - 1
      /\ \A i \in 1..Len(s2c') : \E j \in 1..Len(s2c) : s2c'[i] = s2c[j]
      /\ Head(s2c) \in ServerMessages
  BY <1>2, <1>3, ReadTail
<1>5. IdLinks'
  <2>1. UNCHANGED <<cId, sObj>>
    BY <1>2 DEF svars, sObjects
  <2> QED BY <1>4, <2>1, RepliesShrink DEF IInv, Links
<1>6. cAckd' \in Nat
  BY <1>2, <1>4 DEF IInv, TypeOK, ClientTypeOK, ServerMessages
<1>7. ClientTypeOK'
  BY <1>2, <1>3, <1>4, <1>6 DEF IInv, TypeOK, ClientTypeOK
<1> QED BY <1>1, <1>2, <1>4, <1>5, <1>7, ReadInv

\* The client's process exits.
LEMMA ClientExitsInv ==
  ASSUME IInv, ClientExits
  PROVE  IInv'
<1>1. FlagsOK'
  BY Zenon DEF IInv, TypeOK, FlagsOK, ClientExits, svars, cWaits, sControl
<1>2. UNCHANGED svars /\ UNCHANGED <<c2s, ahead>>
      /\ UNCHANGED <<cSeq, cId, cRoots, cListed, cHeld, cQueue, cPending, cDestroyed>>
      /\ UNCHANGED <<cCur, cWaitObj, cSent, cAckd, cCalls>>
      /\ s2c' = <<>> /\ cBatch' = 0 /\ cpc' = "exited"
  BY DEF ClientExits, cAsked, cObjects, cDeferred, cWaits
<1>3. IdLinks'
  <2>1. UNCHANGED <<cId, sObj>>
    BY <1>2 DEF svars, sObjects
  <2> QED BY <1>2, <2>1, RepliesShrink DEF IInv, Links
<1>4. ClientTypeOK'
  BY <1>2 DEF IInv, TypeOK, ClientTypeOK
<1> QED BY <1>1, <1>2, <1>3, <1>4, ReadInv

-----------------------------------------------------------------------------
(* Steps of the client that send or defer. *)

\* A client step that leaves c2s as it is or sends what it may send.
LEMMA SendInv ==
  ASSUME IInv, UNCHANGED svars, UNCHANGED s2c, UNCHANGED cId,
         cSeq' \in Nat, cSeq <= cSeq', cSeq' <= MaxSeq,
         \A s \in 1..cSeq : s \in cRoots' <=> s \in cRoots,
         \A s \in 1..cSeq : s \in cListed' \cup cHeld' => s \in cListed \cup cHeld,
         NEW m, c2s' = c2s \/ (MaySend(m) /\ c2s' = ToServer(<<m>>)),
         ahead' = ahead \/ ahead' = Len(c2s'),
         QueueLinks', FlagsOK', ClientTypeOK'
  PROVE  IInv'
<1>1. Fresh /\ Fewer
  BY DEF Fresh, Fewer, IInv, TypeOK, ClientTypeOK
<1>2. UNCHANGED <<sObj, sListed, sState>>
  BY DEF svars, sObjects, sControl
<1>3. c2s \in Seq(ClientMessages) /\ s2c \in Seq(ServerMessages)
  BY DEF IInv, TypeOK, StreamTypeOK
<1>4. c2s' \in Seq(ClientMessages) /\ Len(c2s') >= Len(c2s)
  <2>1. CASE c2s' = c2s
    BY <1>3, <2>1
  <2>2. CASE MaySend(m) /\ c2s' = ToServer(<<m>>)
    BY <2>2, SendType DEF IInv, TypeOK, MaySend
  <2> QED BY <2>1, <2>2
<1>5. StreamTypeOK'
  BY <1>3, <1>4 DEF IInv, TypeOK, StreamTypeOK
<1>6. ServerTypeOK'
  <2>1. UNCHANGED <<sObj, sListed, sDestroyed, sState, sBatch, sSlot, sSpent, sDtor, sLast>>
    BY DEF svars, sObjects, sControl, sHistory
  <2>2. Len(c2s) \in Nat /\ Len(c2s') \in Nat
    BY <1>3, <1>4
  <2> QED BY <1>4, <2>1, <2>2 DEF IInv, TypeOK, ServerTypeOK, Ids
<1>7. StreamLinks'
  <2>1. CASE c2s' = c2s
    BY <1>1, <1>2, <2>1, StreamKept DEF IInv, Links
  <2>2. CASE MaySend(m) /\ c2s' = ToServer(<<m>>)
    BY <1>1, <1>2, <1>3, <2>2, StreamSent DEF IInv, Links
  <2> QED BY <2>1, <2>2
<1>8. IdLinks'
  BY <1>2, IdsKept DEF IInv, Links
<1> QED BY <1>5, <1>6, <1>7, <1>8 DEF IInv, TypeOK, Links

\* What the client sends about an object it lists or holds.
LEMMA NamingIsAllowed ==
  ASSUME IInv, NEW s \in Seqs, s \in cListed \cup cHeld, cId[s] # 0,
         NEW n \in ClientMessages, n.obj = cId[s], n.type \in {"make", "call"},
         n.type = "make" => n.seq \in (1..cSeq') \ cRoots',
         UNCHANGED sObj
  PROVE  MaySend(n)
<1>1. sState = "up" => n.obj \in sListed /\ \A i \in 1..Len(c2s) : c2s[i] # DestroyMsg(n.obj)
  BY NamedIsListed DEF IInv, Links, StreamLinks, IdLinks
<1>2. \A o \in 1..Len(sObj) : n # DestroyMsg(o)
  BY DEF DestroyMsg
<1> QED BY <1>1, <1>2 DEF MaySend

\* WireObject::call sends or defers a call of an object the client can name.
LEMMA IssueFacts ==
  ASSUME IInv, NEW s \in Seqs, s \in cListed \cup cHeld,
         NEW m \in ClientMessages, m.type \in {"make", "call"},
         m.type = "make" => m.seq \in (1..cSeq') \ cRoots',
         cSeq' \in Nat, cSeq <= cSeq', cSeq' <= MaxSeq, cRoots' = cRoots, s \in 1..cSeq,
         Issue(s, m), UNCHANGED <<cPending, sObj>>
  PROVE  /\ QueueLinks' /\ cQueue' \in Seq(DeferredCalls)
         /\ \E n : c2s' = c2s \/ (MaySend(n) /\ c2s' = ToServer(<<n>>))
<1>1. Fresh
  BY DEF Fresh, IInv, TypeOK, ClientTypeOK
<1>2. cQueue \in Seq(DeferredCalls) /\ QueueLinks /\ cId \in [Seqs -> Nat]
  BY DEF IInv, TypeOK, ClientTypeOK, Links
<1>3. CASE cId[s] # 0
  <2> DEFINE n == [m EXCEPT !.obj = cId[s]]
  <2>1. c2s' = ToServer(<<n>>) /\ cQueue' = cQueue
    BY <1>3 DEF Issue
  <2>2. n \in ClientMessages /\ n.obj = cId[s] /\ n.type = m.type /\ n.seq = m.seq
    BY <1>2 DEF ClientMessages
  <2>3. MaySend(n)
    BY <1>3, <2>2, NamingIsAllowed
  <2>4. QueueLinks'
    BY <1>1, <1>2, <2>1, QueuesKept
  <2> QED BY <1>2, <2>1, <2>3, <2>4
<1>4. CASE cId[s] = 0
  <2>1. cQueue' = Append(cQueue, Deferred(s, m)) /\ c2s' = c2s
    BY <1>4 DEF Issue
  <2>2. PICK d \in DeferredCalls : d.dep = s /\ d.msg = m /\ cQueue' = Append(cQueue, d)
    BY <2>1 DEF Deferred, DeferredCalls
  <2>3. d.dep \in 1..cSeq' /\ d.msg.type \in {"make", "call"}
        /\ (d.msg.type = "make" => d.msg.seq \in (1..cSeq') \ cRoots')
    BY <2>2, <1>1 DEF Fresh
  <2>4. DeferredOK(cQueue)' /\ cQueue' \in Seq(DeferredCalls)
    BY <1>1, <1>2, <2>2, <2>3, QueueGrows
  <2>5. DeferredOK(cPending)'
    BY <1>1, <1>2 DEF QueueLinks, DeferredOK, Fresh
  <2> QED BY <2>1, <2>4, <2>5 DEF QueueLinks
<1> QED BY <1>3, <1>4

\* A handler's object is listed.
LEMMA UsableFacts ==
  ASSUME IInv, AppRuns
  PROVE  Usable \subseteq cListed \cup cHeld /\ Usable \subseteq 1..cSeq /\ 1..cSeq \subseteq Seqs
<1>1. /\ cHeld \subseteq 1..cSeq /\ cListed \subseteq 1..cSeq
      /\ cSeq \in 0..MaxSeq /\ (cpc = "handler" => cCur \in cListed)
  BY DEF IInv, TypeOK, ClientTypeOK
<1>2. 1..cSeq \subseteq Seqs
  BY <1>1, ConnectionAssumption DEF Seqs
<1>3. Usable \subseteq cHeld \cup (IF cpc = "handler" THEN {cCur} ELSE {})
  BY DEF Usable
<1> QED BY <1>1, <1>2, <1>3

\* A method without a result is called.
LEMMA CallInv ==
  ASSUME IInv, NEW s \in Seqs, Call(s)
  PROVE  IInv'
<1>1. FlagsOK'
  BY Zenon DEF IInv, TypeOK, FlagsOK, Call, svars, cFailed, cControl, cWaits, sControl
<1>2. UNCHANGED svars /\ UNCHANGED <<s2c, ahead>>
      /\ UNCHANGED <<cSeq, cId, cRoots, cListed, cHeld, cPending, cDestroyed>>
      /\ UNCHANGED <<cpc, cCur, cBatch, cWaitObj, cSent, cAckd>>
      /\ cCalls' = cCalls + 1 /\ cCalls < MaxCalls /\ s \in Usable /\ AppRuns
  BY DEF Call, cObjects, cControl, cWaits
<1>3. PICK k \in Nat : Issue(s, CallMsg(0, k))
  BY <1>2 DEF Call, IInv, TypeOK, ClientTypeOK
<1>4. CallMsg(0, k) \in ClientMessages /\ CallMsg(0, k).type = "call"
  BY DEF CallMsg, ClientMessages
<1>5. s \in cListed \cup cHeld /\ s \in 1..cSeq
  BY <1>2, UsableFacts
<1>6. cSeq' \in Nat /\ cSeq <= cSeq' /\ cSeq' <= MaxSeq
  BY <1>2, ConnectionAssumption DEF IInv, TypeOK, ClientTypeOK
<1>7. /\ QueueLinks' /\ cQueue' \in Seq(DeferredCalls)
      /\ \E n : c2s' = c2s \/ (MaySend(n) /\ c2s' = ToServer(<<n>>))
  <2>1. UNCHANGED sObj
    BY <1>2 DEF svars, sObjects
  <2> QED BY <1>2, <1>3, <1>4, <1>5, <1>6, <2>1, IssueFacts
<1>8. ClientTypeOK'
  BY <1>2, <1>7, ConnectionAssumption DEF IInv, TypeOK, ClientTypeOK
<1> QED BY <1>1, <1>2, <1>6, <1>7, <1>8, SendInv

\* A method that returns an object is called.
LEMMA MakeObjectInv ==
  ASSUME IInv, NEW s \in Seqs, MakeObject(s)
  PROVE  IInv'
<1>1. FlagsOK'
  BY Zenon DEF IInv, TypeOK, FlagsOK, MakeObject, svars, cFailed, cControl, cWaits, sControl
<1>2. UNCHANGED svars /\ UNCHANGED <<s2c, ahead>>
      /\ UNCHANGED <<cId, cRoots, cPending, cDestroyed>>
      /\ UNCHANGED <<cpc, cCur, cBatch, cWaitObj, cSent, cAckd, cCalls>>
      /\ cSeq < MaxSeq /\ cSeq' = cSeq + 1
      /\ cListed' = cListed \cup {cSeq + 1} /\ cHeld' = cHeld \cup {cSeq + 1}
      /\ s \in Usable /\ AppRuns /\ Issue(s, MakeMsg(0, cSeq + 1))
  BY DEF MakeObject, cControl, cWaits
<1>3. cSeq \in Nat /\ MaxSeq \in Nat /\ cRoots \subseteq 1..cSeq /\ cSeq + 1 \in Nat
  BY ConnectionAssumption DEF IInv, TypeOK, ClientTypeOK
<1>4. /\ MakeMsg(0, cSeq + 1) \in ClientMessages
      /\ MakeMsg(0, cSeq + 1).type = "make" /\ MakeMsg(0, cSeq + 1).seq = cSeq + 1
  BY <1>3 DEF MakeMsg, ClientMessages
<1>5. s \in cListed \cup cHeld /\ s \in 1..cSeq
  BY <1>2, UsableFacts
<1>6. cSeq' \in Nat /\ cSeq <= cSeq' /\ cSeq' <= MaxSeq /\ cSeq + 1 \in (1..cSeq') \ cRoots'
  BY <1>2, <1>3
<1>7. /\ QueueLinks' /\ cQueue' \in Seq(DeferredCalls)
      /\ \E n : c2s' = c2s \/ (MaySend(n) /\ c2s' = ToServer(<<n>>))
  <2>1. UNCHANGED sObj
    BY <1>2 DEF svars, sObjects
  <2> QED BY <1>2, <1>4, <1>5, <1>6, <2>1, IssueFacts
<1>8. ClientTypeOK'
  BY <1>2, <1>3, <1>7 DEF IInv, TypeOK, ClientTypeOK
<1>9. \A t \in 1..cSeq : t \in cListed' \cup cHeld' => t \in cListed \cup cHeld
  BY <1>2, <1>3
<1> QED BY <1>1, <1>2, <1>6, <1>7, <1>8, <1>9, SendInv

\* Drop sends the destructor of an object that is listed and held no more.
LEMMA DropFacts ==
  ASSUME IInv, NEW s \in Seqs, s \in cListed \cup cHeld, s \notin cListed' \cup cHeld',
         UNCHANGED sObj, c2s' = ToServer(DropMsgs(s))
  PROVE  \E n : c2s' = c2s \/ (MaySend(n) /\ c2s' = ToServer(<<n>>))
<1>1. CASE DropMsgs(s) = <<>>
  <2>1. c2s \in Seq(ClientMessages)
    BY DEF IInv, TypeOK, StreamTypeOK
  <2>2. c2s' = c2s \/ c2s' = c2s \o <<>>
    BY <1>1 DEF ToServer
  <2>3. c2s \o <<>> = c2s
    BY <2>1
  <2> QED BY <2>2, <2>3
<1>2. CASE cId[s] # 0 /\ DropMsgs(s) = <<DestroyMsg(cId[s])>>
  <2> DEFINE o == cId[s]
  <2>1. o \in Nat
    BY DEF IInv, TypeOK, ClientTypeOK
  <2>2. DestroyMsg(o) \in ClientMessages
    BY <2>1 DEF DestroyMsg, ClientMessages
  <2>3. /\ o \in 1..Len(sObj) /\ sObj[o].seq = s
    BY <1>2 DEF IInv, Links, IdLinks, Agreement
  <2>4. sState = "up" => o \in sListed /\ \A i \in 1..Len(c2s) : c2s[i] # DestroyMsg(o)
    BY <1>2, NamedIsListed DEF IInv, Links, StreamLinks, IdLinks
  <2>5. \A p \in 1..Len(sObj) : sObj[p].seq \in cListed' \cup cHeld' =>
          DestroyMsg(o) # DestroyMsg(p)
    <3> SUFFICES ASSUME NEW p \in 1..Len(sObj), sObj[p].seq \in cListed' \cup cHeld',
                        DestroyMsg(o) = DestroyMsg(p)
                 PROVE  FALSE
      OBVIOUS
    <3>1. o = p
      BY DEF DestroyMsg
    <3> QED BY <2>3, <3>1
  <2>6. MaySend(DestroyMsg(o))
    <3>1. DestroyMsg(o).type = "destroy" /\ DestroyMsg(o).obj = o
      BY DEF DestroyMsg
    <3> HIDE DEF o
    <3> QED BY <1>2, <2>2, <2>4, <2>5, <3>1 DEF MaySend, o
  <2> QED BY <1>2, <2>6
<1> QED BY <1>1, <1>2 DEF DropMsgs

\* The application drops a handle.
LEMMA DropHandleInv ==
  ASSUME IInv, NEW s \in Seqs, DropHandle(s)
  PROVE  IInv'
<1>1. FlagsOK'
  BY Zenon DEF IInv, TypeOK, FlagsOK, DropHandle, svars, cFailed, cControl, cWaits, sControl
<1>2. UNCHANGED svars /\ UNCHANGED <<s2c, ahead>>
      /\ UNCHANGED <<cId, cSeq, cRoots, cListed, cQueue, cPending, cDestroyed>>
      /\ UNCHANGED <<cpc, cCur, cBatch, cWaitObj, cSent, cAckd, cCalls>>
      /\ s \in cHeld /\ cHeld' = cHeld \ {s}
      /\ c2s' = IF s \in cListed THEN c2s ELSE ToServer(DropMsgs(s))
  BY DEF DropHandle, cAsked, cObjects, cDeferred, cControl, cWaits
<1>3. \E n : c2s' = c2s \/ (MaySend(n) /\ c2s' = ToServer(<<n>>))
  <2>1. CASE s \in cListed
    BY <1>2, <2>1
  <2>2. CASE s \notin cListed
    <3>1. UNCHANGED sObj
      BY <1>2 DEF svars, sObjects
    <3> QED BY <1>2, <2>2, <3>1, DropFacts
  <2> QED BY <2>1, <2>2
<1>4. ClientTypeOK'
  BY <1>2 DEF IInv, TypeOK, ClientTypeOK
<1>5. Fresh /\ QueueLinks'
  <2>1. Fresh
    BY <1>2 DEF Fresh, IInv, TypeOK, ClientTypeOK
  <2> QED BY <1>2, <2>1, QueuesKept DEF IInv, Links
<1> QED BY <1>1, <1>2, <1>3, <1>4, <1>5, SendInv DEF Fresh

\* What the client lists it has given a seq.
LEMMA ListedAreSeqs ==
  ASSUME IInv
  PROVE  cListed \subseteq Seqs /\ cListed \subseteq 1..cSeq /\ cSeq \in Nat /\ cSeq <= MaxSeq
  BY ConnectionAssumption DEF IInv, TypeOK, ClientTypeOK, Seqs

\* The collection removes an orphan.
LEMMA CollectOneInv ==
  ASSUME IInv, CollectOne
  PROVE  IInv'
<1>1. FlagsOK'
  BY Zenon DEF IInv, TypeOK, FlagsOK, CollectOne, svars, cFailed, cControl, cWaits, sControl
<1>2. UNCHANGED svars /\ UNCHANGED <<s2c, ahead>>
      /\ UNCHANGED <<cId, cSeq, cRoots, cHeld, cQueue, cPending, cDestroyed>>
      /\ UNCHANGED <<cpc, cCur, cBatch, cWaitObj, cSent, cAckd, cCalls>>
      /\ cpc \in {"collect", "sweep"}
  BY DEF CollectOne, cAsked, cDeferred, cControl, cWaits
<1>3. PICK s \in Orphans : cListed' = cListed \ {s} /\ c2s' = ToServer(DropMsgs(s))
  BY DEF CollectOne
<1>4. s \in cListed /\ s \notin cHeld /\ s \in Seqs
  <2>1. cListed \subseteq Seqs
    BY ListedAreSeqs
  <2> QED BY <2>1 DEF Orphans
<1>5. \E n : c2s' = c2s \/ (MaySend(n) /\ c2s' = ToServer(<<n>>))
  <2>1. UNCHANGED sObj
    BY <1>2 DEF svars, sObjects
  <2> QED BY <1>2, <1>3, <1>4, <2>1, DropFacts
<1>6. ClientTypeOK'
  BY <1>2, <1>3 DEF IInv, TypeOK, ClientTypeOK
<1>7. Fresh /\ QueueLinks'
  <2>1. Fresh
    BY <1>2 DEF Fresh, IInv, TypeOK, ClientTypeOK
  <2> QED BY <1>2, <2>1, QueuesKept DEF IInv, Links
<1> QED BY <1>1, <1>2, <1>3, <1>5, <1>6, <1>7, SendInv DEF Fresh

\* A protocol is bound.
LEMMA BindInv ==
  ASSUME IInv, Bind
  PROVE  IInv'
<1>1. FlagsOK'
  BY Zenon DEF IInv, TypeOK, FlagsOK, Bind, svars, cFailed, cControl, sControl
<1>2. UNCHANGED svars /\ UNCHANGED <<s2c, ahead>>
      /\ UNCHANGED <<cId, cQueue, cPending, cDestroyed>>
      /\ UNCHANGED <<cpc, cCur, cBatch, cSent, cAckd, cCalls>>
      /\ cpc = "app" /\ cSeq < MaxSeq /\ cSeq' = cSeq + 1
      /\ cRoots' = cRoots \cup {cSeq + 1} /\ cListed' = cListed \cup {cSeq + 1}
      /\ cHeld' = cHeld \cup {cSeq + 1} /\ cWaitObj' = cSeq + 1
      /\ c2s' = ToServer(<<BindMsg(cSeq + 1)>>)
  BY DEF Bind, cDeferred, cControl
<1>3. cSeq \in Nat /\ MaxSeq \in Nat /\ cRoots \subseteq 1..cSeq
  BY ConnectionAssumption DEF IInv, TypeOK, ClientTypeOK
<1>4. MaySend(BindMsg(cSeq + 1))
  <2>1. BindMsg(cSeq + 1) \in ClientMessages
    BY <1>3 DEF BindMsg, ClientMessages
  <2>2. /\ BindMsg(cSeq + 1).type = "bind" /\ BindMsg(cSeq + 1).obj = 0
        /\ BindMsg(cSeq + 1).seq = cSeq + 1
    BY DEF BindMsg
  <2>3. \A o \in 1..Len(sObj) : BindMsg(cSeq + 1) # DestroyMsg(o)
    BY DEF BindMsg, DestroyMsg
  <2> QED BY <1>2, <1>3, <2>1, <2>2, <2>3 DEF MaySend
<1>5. ClientTypeOK'
  BY <1>2, <1>3 DEF IInv, TypeOK, ClientTypeOK
<1>6. Fresh /\ QueueLinks'
  <2>1. Fresh
    BY <1>2, <1>3 DEF Fresh
  <2> QED BY <1>2, <2>1, QueuesKept DEF IInv, Links
<1>7. \A t \in 1..cSeq : t \in cListed' \cup cHeld' => t \in cListed \cup cHeld
  BY <1>2, <1>3
<1> QED BY <1>1, <1>2, <1>4, <1>5, <1>6, <1>7, SendInv DEF Fresh

\* A roundtrip is requested.
LEMMA RoundtripInv ==
  ASSUME IInv, Roundtrip
  PROVE  IInv'
<1>1. FlagsOK'
  BY Zenon DEF IInv, TypeOK, FlagsOK, Roundtrip, svars, cFailed, cControl, sControl
<1>2. UNCHANGED svars /\ UNCHANGED s2c
      /\ UNCHANGED <<cId, cSeq, cRoots, cListed, cHeld, cQueue, cPending, cDestroyed>>
      /\ UNCHANGED <<cpc, cCur, cBatch, cWaitObj, cAckd, cCalls>>
      /\ cSent < MaxTrips /\ cSent' = cSent + 1 /\ ahead' = Len(c2s')
      /\ c2s' = ToServer(<<TripMsg(cSent + 1)>>)
  BY DEF Roundtrip, cObjects, cAsked, cDeferred, cControl
<1>3. cSent \in Nat /\ MaxTrips \in Nat
  BY ConnectionAssumption DEF IInv, TypeOK, ClientTypeOK
<1>4. MaySend(TripMsg(cSent + 1))
  <2>1. TripMsg(cSent + 1) \in ClientMessages
    BY <1>3 DEF TripMsg, ClientMessages
  <2>2. TripMsg(cSent + 1).type = "trip" /\ TripMsg(cSent + 1).obj = 0
    BY DEF TripMsg
  <2>3. \A o \in 1..Len(sObj) : TripMsg(cSent + 1) # DestroyMsg(o)
    BY DEF TripMsg, DestroyMsg
  <2> QED BY <2>1, <2>2, <2>3 DEF MaySend
<1>5. ClientTypeOK'
  BY <1>2, <1>3 DEF IInv, TypeOK, ClientTypeOK
<1>6. Fresh /\ QueueLinks'
  <2>1. Fresh
    BY <1>2 DEF Fresh, IInv, TypeOK, ClientTypeOK
  <2> QED BY <1>2, <2>1, QueuesKept DEF IInv, Links
<1> QED BY <1>1, <1>2, <1>4, <1>5, <1>6, SendInv DEF Fresh

\* The flush takes the deferred calls.
LEMMA TakeDeferredInv ==
  ASSUME IInv, TakeDeferred
  PROVE  IInv'
<1>1. FlagsOK'
  BY Zenon DEF IInv, TypeOK, FlagsOK, TakeDeferred, svars, cFailed, cWaits, sControl
<1>2. UNCHANGED svars /\ UNCHANGED <<c2s, s2c, ahead>>
      /\ UNCHANGED <<cId, cSeq, cRoots, cListed, cHeld, cDestroyed>>
      /\ UNCHANGED <<cCur, cBatch, cWaitObj, cSent, cAckd, cCalls>>
      /\ cpc' = "flush" /\ cPending' = cQueue /\ cQueue' = <<>>
  BY DEF TakeDeferred, cObjects, cAsked, cWaits
<1>3. ClientTypeOK'
  BY <1>2 DEF IInv, TypeOK, ClientTypeOK
<1>4. QueueLinks'
  BY <1>2 DEF IInv, Links, QueueLinks, DeferredOK
<1>5. cSeq' \in Nat /\ cSeq <= cSeq' /\ cSeq' <= MaxSeq
  BY <1>2, ListedAreSeqs
<1> QED BY <1>1, <1>2, <1>3, <1>4, <1>5, SendInv

\* The flush drops, keeps or sends a deferred call.
LEMMA FlushOneInv ==
  ASSUME IInv, FlushOne
  PROVE  IInv'
<1>1. FlagsOK'
  BY Zenon DEF IInv, TypeOK, FlagsOK, FlushOne, svars, cFailed, cWaits, cControl, sControl
<1> DEFINE d == Head(cPending)
<1>2. UNCHANGED svars /\ UNCHANGED <<s2c, ahead>>
      /\ UNCHANGED <<cId, cSeq, cRoots, cListed, cHeld, cDestroyed>>
      /\ UNCHANGED <<cpc, cCur, cBatch, cWaitObj, cSent, cAckd, cCalls>>
      /\ cPending # <<>> /\ cPending' = Tail(cPending)
  BY DEF FlushOne, cObjects, cAsked, cControl, cWaits
<1>3. cSeq' \in Nat /\ cSeq <= cSeq' /\ cSeq' <= MaxSeq /\ Fresh
  BY <1>2, ListedAreSeqs DEF Fresh
<1>4. cPending \in Seq(DeferredCalls) /\ cQueue \in Seq(DeferredCalls) /\ QueueLinks
      /\ cId \in [Seqs -> Nat]
  BY DEF IInv, TypeOK, ClientTypeOK, Links
<1>5. /\ DeferredOK(cPending)' /\ cPending' \in Seq(DeferredCalls)
      /\ d \in DeferredCalls
      /\ d.dep \in 1..cSeq
      /\ d.msg.type \in {"make", "call"}
      /\ d.msg.type = "make" => d.msg.seq \in (1..cSeq) \ cRoots
  BY <1>2, <1>4, PendingShrinks
<1>6. d.dep \in Seqs /\ d.msg \in ClientMessages
  BY <1>5 DEF DeferredCalls
<1>7. \/ UNCHANGED <<c2s, cQueue>>
      \/ UNCHANGED c2s /\ cQueue' = Append(cQueue, d)
      \/ /\ d.dep \in cListed /\ cId[d.dep] # 0
         /\ c2s' = ToServer(<<[d.msg EXCEPT !.obj = cId[d.dep]]>>)
         /\ UNCHANGED cQueue
  BY DEF FlushOne
<1> HIDE DEF d
<1>8. /\ QueueLinks' /\ cQueue' \in Seq(DeferredCalls)
      /\ \E n : c2s' = c2s \/ (MaySend(n) /\ c2s' = ToServer(<<n>>))
  <2>1. CASE cQueue' = cQueue
    <3>1. DeferredOK(cQueue)'
      BY <1>3, <1>4, <2>1 DEF QueueLinks, DeferredOK, Fresh
    <3>2. CASE c2s' = c2s
      BY <1>4, <1>5, <2>1, <3>1, <3>2 DEF QueueLinks
    <3>3. CASE /\ d.dep \in cListed /\ cId[d.dep] # 0
               /\ c2s' = ToServer(<<[d.msg EXCEPT !.obj = cId[d.dep]]>>)
      <4> DEFINE n == [d.msg EXCEPT !.obj = cId[d.dep]]
      <4>1. n \in ClientMessages /\ n.obj = cId[d.dep] /\ n.type = d.msg.type /\ n.seq = d.msg.seq
        BY <1>4, <1>6 DEF ClientMessages
      <4>2. UNCHANGED sObj
        BY <1>2 DEF svars, sObjects
      <4>3. n.type = "make" => n.seq \in (1..cSeq') \ cRoots'
        BY <1>2, <1>5, <4>1
      <4>4. MaySend(n)
        BY <1>5, <1>6, <3>3, <4>1, <4>2, <4>3, NamingIsAllowed
      <4> QED BY <1>4, <1>5, <2>1, <3>1, <3>3, <4>4 DEF QueueLinks
    <3> QED BY <1>7, <2>1, <3>2, <3>3
  <2>2. CASE c2s' = c2s /\ cQueue' = Append(cQueue, d)
    <3>1. DeferredOK(cQueue)' /\ cQueue' \in Seq(DeferredCalls)
      BY <1>2, <1>3, <1>4, <1>5, <2>2, QueueGrows
    <3> QED BY <1>5, <2>2, <3>1 DEF QueueLinks
  <2> QED BY <1>7, <2>1, <2>2
<1>9. ClientTypeOK'
  BY <1>2, <1>5, <1>8 DEF IInv, TypeOK, ClientTypeOK
<1> QED BY <1>1, <1>2, <1>3, <1>8, <1>9, SendInv

-----------------------------------------------------------------------------
(* Steps of the server. *)

\* Every step of the server: what it has to show.
LEMMA ServerInv ==
  ASSUME IInv, UNCHANGED cvars, StreamLinks', IdLinks',
         s2c' \in Seq(ServerMessages), Len(s2c') >= Len(s2c),
         c2s' \in Seq(ClientMessages), ahead' \in 0..Len(c2s'),
         FlagsOK', ServerTypeOK'
  PROVE  IInv'
<1>1. StreamTypeOK'
  BY DEF StreamTypeOK
<1>2. ClientTypeOK'
  BY ClientFrame DEF IInv, TypeOK, StreamTypeOK
<1>3. QueueLinks'
  BY DEF IInv, Links, QueueLinks, DeferredOK, cvars, cDeferred, cAsked
<1> QED BY <1>1, <1>2, <1>3 DEF IInv, TypeOK, Links

\* A client's step is none of the server's: what its links speak of stays.
LEMMA ClientStays ==
  ASSUME UNCHANGED cvars
  PROVE  UNCHANGED <<cSeq, cRoots, cListed, cHeld, cId, cShut>>
  BY DEF cvars, cAsked, cObjects, cFailed

\* The parts of the invariant the server's steps use.
LEMMA Types ==
  ASSUME IInv
  PROVE  /\ c2s \in Seq(ClientMessages) /\ s2c \in Seq(ServerMessages)
         /\ ahead \in 0..Len(c2s) /\ Len(c2s) \in Nat /\ Len(s2c) \in Nat
         /\ sObj \in Seq([seq : Seqs, kind : {"root", "child"}])
         /\ Ids = 1..Len(sObj) /\ Len(sObj) \in Nat
         /\ sListed \subseteq Ids /\ sDestroyed \subseteq Ids /\ sDtor \in Seq(Ids)
         /\ StreamLinks /\ IdLinks
  BY DEF IInv, TypeOK, StreamTypeOK, ServerTypeOK, Links, Ids

\* handle_message is at a message that was read.
LEMMA ServerNextFacts ==
  ASSUME IInv, NEW type, ServerNext(type)
  PROVE  /\ c2s # <<>> /\ c2s' = Tail(c2s) /\ Taken /\ c2s' \in Seq(ClientMessages)
         /\ 1 \in 1..Len(c2s) /\ Head(c2s) = c2s[1] /\ Head(c2s) \in ClientMessages
         /\ Head(c2s).type = type
         /\ ahead' \in 0..Len(c2s') /\ sBatch' \in 0..Len(c2s')
         /\ type \in {"make", "call", "destroy"} => Head(c2s).obj \in sListed
<1>1. c2s # <<>> /\ c2s' = Tail(c2s) /\ Head(c2s).type = type
  BY Types DEF ServerNext, IInv, TypeOK, ServerTypeOK
<1>2. /\ Taken /\ c2s' \in Seq(ClientMessages)
      /\ 1 \in 1..Len(c2s) /\ Head(c2s) = c2s[1] /\ Head(c2s) \in ClientMessages
  BY <1>1, Types, TakenFacts
<1>3. ahead' \in 0..Len(c2s') /\ sBatch' \in 0..Len(c2s')
  <2>1. sBatch \in 0..Len(c2s) /\ sBatch > 0 /\ sBatch' = sBatch - 1
        /\ ahead' = IF ahead > 0 THEN ahead - 1 ELSE 0
    BY DEF ServerNext, IInv, TypeOK, ServerTypeOK
  <2> QED BY <1>2, <2>1, Types DEF Taken
<1>4. type \in {"make", "call", "destroy"} => Head(c2s).obj \in sListed
  BY <1>1, <1>2, Types DEF StreamLinks, Shapes, NamedAreListed
<1> QED BY <1>1, <1>2, <1>3, <1>4

\* The server's type after an object was made.
LEMMA CreatedType ==
  ASSUME IInv, UNCHANGED <<sDestroyed, sState, sSlot, sSpent, sDtor, sLast>>,
         sObj' \in Seq([seq : Seqs, kind : {"root", "child"}]),
         Len(sObj') = Len(sObj) + 1, sListed' = sListed \cup {Len(sObj) + 1},
         sBatch' \in 0..Len(c2s')
  PROVE  ServerTypeOK'
<1>1. Ids' = 1..(Len(sObj) + 1) /\ Ids \subseteq Ids' /\ Len(sObj) + 1 \in Ids'
  BY Types DEF Ids
<1>2. sDtor' \in Seq(Ids')
  BY <1>1, Types
<1>3. sListed' \subseteq Ids' /\ sDestroyed' \subseteq Ids'
  BY <1>1, Types
<1> QED BY <1>2, <1>3 DEF IInv, TypeOK, ServerTypeOK

\* The server handles BindProtocol.
LEMMA HandleBindInv ==
  ASSUME IInv, HandleBind
  PROVE  IInv'
<1> DEFINE m == Head(c2s)
<1>1. ServerNext("bind") /\ CreateObject(m.seq, "root") /\ UNCHANGED cvars
      /\ UNCHANGED <<sDestroyed, sError, sState, sBusy, sSlot, sSpent, sDtor, sLast>>
  BY DEF HandleBind, sHistory
<1>2. FlagsOK'
  BY <1>1, Zenon DEF IInv, TypeOK, FlagsOK, cvars, cFailed, cControl, cWaits
<1>3. m.seq \in 1..cSeq /\ m.seq \in cRoots /\ m.seq \in Seqs
  <2>1. m.type = "bind" /\ m = c2s[1] /\ 1 \in 1..Len(c2s)
    BY <1>1, ServerNextFacts
  <2>2. m.seq \in 1..cSeq /\ m.seq \in cRoots
    BY <2>1, Types DEF StreamLinks, SeqsGivenOut
  <2>3. 1..cSeq \subseteq Seqs
    BY ListedAreSeqs, ConnectionAssumption DEF Seqs
  <2> QED BY <2>2, <2>3
<1>4. /\ IdLinks' /\ s2c' \in Seq(ServerMessages) /\ Len(s2c') >= Len(s2c)
      /\ sObj' = sObj \o <<[seq |-> m.seq, kind |-> "root"]>>
      /\ sObj' \in Seq([seq : Seqs, kind : {"root", "child"}])
      /\ Len(sObj') = Len(sObj) + 1
      /\ sListed' = sListed \cup {Len(sObj) + 1}
  BY <1>1, <1>3, Types, ClientStays, IdsCreated
<1>5. StreamLinks'
  BY <1>1, <1>3, <1>4, Types, ClientStays, ServerNextFacts, StreamCreated
<1>6. ServerTypeOK'
  BY <1>1, <1>4, ServerNextFacts, CreatedType
<1> QED BY <1>1, <1>2, <1>4, <1>5, <1>6, ServerNextFacts, ServerInv

\* A handled message that creates and destroys nothing.
LEMMA TakenInv ==
  ASSUME IInv, NEW type, ServerNext(type), UNCHANGED cvars,
         UNCHANGED <<sObj, sListed, sDestroyed, sState, sSpent, sDtor, s2c>>,
         sSlot' \in Nat, sLast' \in [Seqs -> Nat], FlagsOK'
  PROVE  IInv'
<1>1. StreamLinks'
  BY Types, ClientStays, ServerNextFacts, StreamTaken
<1>2. IdLinks'
  BY Types, ClientStays, IdsKept
<1>3. ServerTypeOK'
  BY ServerNextFacts DEF IInv, TypeOK, ServerTypeOK, Ids
<1> QED BY <1>1, <1>2, <1>3, Types, ServerNextFacts, ServerInv

\* The server handles a call that returns an object.
LEMMA HandleMakeInv ==
  ASSUME IInv, HandleMake
  PROVE  IInv'
<1> DEFINE m == Head(c2s)
<1>1. ServerNext("make") /\ UNCHANGED cvars
      /\ UNCHANGED <<sState, sBusy, sSlot, sSpent>>
  BY DEF HandleMake
<1>2. m.obj \in sListed /\ m.type = "make" /\ m = c2s[1] /\ 1 \in 1..Len(c2s)
  BY <1>1, ServerNextFacts
<1>3. /\ UNCHANGED <<sDestroyed, sError, sDtor, sLast>>
      /\ UNCHANGED <<sObj, sListed, s2c>> \/ CreateObject(m.seq, "child")
  BY <1>2 DEF HandleMake
<1>4. FlagsOK'
  BY <1>1, <1>3, Zenon DEF IInv, TypeOK, FlagsOK, cvars, cFailed, cControl, cWaits
<1>5. CASE UNCHANGED <<sObj, sListed, s2c>>
  <2>1. sSlot' \in Nat /\ sLast' \in [Seqs -> Nat]
    BY <1>1, <1>3 DEF IInv, TypeOK, ServerTypeOK
  <2> QED BY <1>1, <1>3, <1>4, <1>5, <2>1, TakenInv
<1>6. CASE CreateObject(m.seq, "child")
  <2>1. m.seq \in 1..cSeq /\ m.seq \notin cRoots /\ m.seq \in Seqs
    <3>1. m.seq \in 1..cSeq /\ m.seq \notin cRoots
      BY <1>2, Types DEF StreamLinks, SeqsGivenOut
    <3>2. 1..cSeq \subseteq Seqs
      BY ListedAreSeqs, ConnectionAssumption DEF Seqs
    <3> QED BY <3>1, <3>2
  <2>2. /\ IdLinks' /\ s2c' \in Seq(ServerMessages) /\ Len(s2c') >= Len(s2c)
        /\ sObj' = sObj \o <<[seq |-> m.seq, kind |-> "child"]>>
        /\ sObj' \in Seq([seq : Seqs, kind : {"root", "child"}])
        /\ Len(sObj') = Len(sObj) + 1
        /\ sListed' = sListed \cup {Len(sObj) + 1}
    BY <1>1, <1>6, <2>1, Types, ClientStays, IdsCreated
  <2>3. StreamLinks'
    BY <1>1, <2>1, <2>2, Types, ClientStays, ServerNextFacts, StreamCreated
  <2>4. ServerTypeOK'
    BY <1>1, <1>3, <2>2, ServerNextFacts, CreatedType
  <2> QED BY <1>1, <1>4, <2>2, <2>3, <2>4, ServerNextFacts, ServerInv
<1> QED BY <1>3, <1>5, <1>6

\* The server handles a call without a result.
LEMMA HandleCallInv ==
  ASSUME IInv, HandleCall
  PROVE  IInv'
<1> DEFINE m == Head(c2s)
<1>1. ServerNext("call") /\ UNCHANGED cvars
      /\ UNCHANGED <<sState, sBusy, sSlot, sSpent>>
  BY DEF HandleCall
<1>2. m.obj \in sListed /\ m \in ClientMessages
  BY <1>1, ServerNextFacts
<1>3. /\ UNCHANGED <<sObj, sListed, sDestroyed, sError, sDtor, s2c>>
      /\ sLast' = IF m.seq = 0 THEN sLast ELSE [sLast EXCEPT ![sObj[m.obj].seq] = m.seq]
  BY <1>2 DEF HandleCall, sObjects
<1>4. FlagsOK'
  BY <1>1, <1>3, Zenon DEF IInv, TypeOK, FlagsOK, cvars, cFailed, cControl, cWaits
<1>5. sLast' \in [Seqs -> Nat] /\ sSlot' \in Nat
  <2>1. m.seq \in Nat
    BY <1>2 DEF ClientMessages
  <2> QED BY <1>1, <1>3, <2>1 DEF IInv, TypeOK, ServerTypeOK
<1> QED BY <1>1, <1>3, <1>4, <1>5, TakenInv

\* The server handles a roundtrip request.
LEMMA HandleRoundtripRequestInv ==
  ASSUME IInv, HandleRoundtripRequest
  PROVE  IInv'
<1>1. /\ ServerNext("trip") /\ UNCHANGED cvars /\ sSlot' = Head(c2s).seq
      /\ UNCHANGED <<sObj, sListed, sDestroyed, sError, sState, sBusy, s2c>>
      /\ UNCHANGED <<sSpent, sDtor, sLast>>
  BY DEF HandleRoundtripRequest, sObjects, sHistory
<1>2. FlagsOK'
  BY <1>1, Zenon DEF IInv, TypeOK, FlagsOK, cvars, cFailed, cControl, cWaits
<1>3. sLast' \in [Seqs -> Nat] /\ sSlot' \in Nat
  BY <1>1, ServerNextFacts DEF IInv, TypeOK, ServerTypeOK, ClientMessages
<1> QED BY <1>1, <1>2, <1>3, TakenInv

\* The server handles a destructor.
LEMMA HandleDestroyInv ==
  ASSUME IInv, HandleDestroy
  PROVE  IInv'
<1> DEFINE o == Head(c2s).obj
<1>1. ServerNext("destroy") /\ UNCHANGED cvars
      /\ UNCHANGED <<sState, sBusy, sSlot, sSpent>>
  BY DEF HandleDestroy
<1>2. /\ o \in sListed /\ o = c2s[1].obj /\ c2s[1].type = "destroy" /\ 1 \in 1..Len(c2s)
      /\ o \in Ids
  BY <1>1, ServerNextFacts, Types
<1>3. /\ sDtor' = Append(sDtor, o) /\ sDestroyed' = sDestroyed \cup {o}
      /\ sListed' = sListed \ {o}
      /\ UNCHANGED <<sObj, sError, sLast, s2c>>
  BY <1>2 DEF HandleDestroy
<1>4. FlagsOK'
  BY <1>1, <1>3, Zenon DEF IInv, TypeOK, FlagsOK, cvars, cFailed, cControl, cWaits
<1>5. StreamLinks'
  BY <1>1, <1>2, <1>3, Types, ClientStays, ServerNextFacts, StreamDestroyed
<1>6. IdLinks'
  BY <1>1, <1>3, Types, ClientStays, IdsKept
<1>7. ServerTypeOK'
  <2>1. Ids' = Ids /\ sDtor' \in Seq(Ids)
    BY <1>2, <1>3, Types DEF Ids
  <2> QED BY <1>1, <1>2, <1>3, <2>1, ServerNextFacts DEF IInv, TypeOK, ServerTypeOK
<1> QED BY <1>1, <1>3, <1>4, <1>5, <1>6, <1>7, Types, ServerNextFacts, ServerInv

\* A step that leaves the objects, the stream to the server and the ids alone.
LEMMA ServerQuietInv ==
  ASSUME IInv, UNCHANGED cvars, UNCHANGED <<sObj, sListed, sState, c2s, ahead>>,
         IdLinks', s2c' \in Seq(ServerMessages), Len(s2c') >= Len(s2c),
         FlagsOK', ServerTypeOK'
  PROVE  IInv'
<1>1. Fresh /\ Fewer
  BY ListedAreSeqs, ClientStays DEF Fresh, Fewer
<1>2. StreamLinks'
  BY <1>1, Types, StreamKept
<1> QED BY <1>2, Types, ServerInv

\* The server reads a batch.
LEMMA ServerReadsInv ==
  ASSUME IInv, ServerReads
  PROVE  IInv'
<1>1. /\ UNCHANGED <<sObj, sListed, sDestroyed, sState, sSlot, sSpent, sDtor, sLast>>
      /\ UNCHANGED <<cvars, c2s, s2c, ahead>>
      /\ sBatch' \in 1..Len(c2s)
  BY DEF ServerReads, sObjects, sHistory
<1>2. FlagsOK'
  BY Zenon DEF ServerReads, IInv, TypeOK, FlagsOK, cvars, cFailed, cControl, cWaits
<1>3. ServerTypeOK'
  BY <1>1 DEF IInv, TypeOK, ServerTypeOK, Ids
<1>4. IdLinks'
  BY <1>1, Types, ClientStays, IdsKept
<1> QED BY <1>1, <1>2, <1>3, <1>4, Types, ServerQuietInv

\* The server lets go of the client.
LEMMA ServerClosesInv ==
  ASSUME IInv, UNCHANGED cvars, UNCHANGED sObj, c2s' = <<>>, ahead' = 0, sState' # "up",
         IdLinks', s2c' \in Seq(ServerMessages), Len(s2c') >= Len(s2c),
         FlagsOK', ServerTypeOK'
  PROVE  IInv'
<1>1. StreamLinks'
  BY Types, ClientStays, StreamClosed
<1>2. c2s' \in Seq(ClientMessages) /\ ahead' \in 0..Len(c2s')
  OBVIOUS
<1> QED BY <1>1, <1>2, ServerInv

\* The server is done with a batch.
LEMMA ServerEndsBatchInv ==
  ASSUME IInv, ServerEndsBatch
  PROVE  IInv'
<1>1. /\ UNCHANGED <<sObj, sListed, sDestroyed, sSpent, sDtor, sLast>> /\ UNCHANGED cvars
      /\ sState = "up" /\ sSlot' = 0 /\ sBatch = 0
      /\ \/ UNCHANGED <<c2s, sState, sBatch, ahead>>
         \/ sState' = "closing" /\ c2s' = <<>> /\ sBatch' = 0 /\ ahead' = 0
      /\ s2c' = s2c \/ s2c' = ToClient(<<DoneMsg(sSlot)>>)
  BY DEF ServerEndsBatch, RemoveClient, sObjects, sHistory
<1>2. FlagsOK'
  BY Zenon DEF ServerEndsBatch, IInv, TypeOK, FlagsOK, cvars, cFailed, cControl, cWaits
<1>3. DoneMsg(sSlot) \in ServerMessages /\ DoneMsg(sSlot).type # "new"
  BY DEF DoneMsg, ServerMessages, IInv, TypeOK, ServerTypeOK
<1>4. IdLinks' /\ s2c' \in Seq(ServerMessages) /\ Len(s2c') >= Len(s2c)
  <2>1. CASE s2c' = s2c
    BY <1>1, <2>1, Types, ClientStays, IdsKept
  <2>2. CASE s2c' = ToClient(<<DoneMsg(sSlot)>>)
    BY <1>1, <1>3, <2>2, Types, ClientStays, ReplySent
  <2> QED BY <1>1, <2>1, <2>2
<1>5. ServerTypeOK'
  BY <1>1, Types DEF IInv, TypeOK, ServerTypeOK, Ids
<1>6. CASE UNCHANGED <<c2s, sState, sBatch, ahead>>
  BY <1>1, <1>2, <1>4, <1>5, <1>6, ServerQuietInv
<1>7. CASE sState' = "closing" /\ c2s' = <<>> /\ sBatch' = 0 /\ ahead' = 0
  BY <1>1, <1>2, <1>4, <1>5, <1>7, ServerClosesInv
<1> QED BY <1>1, <1>6, <1>7

\* The server reads the end of the stream.
LEMMA ServerReadsEndInv ==
  ASSUME IInv, ServerReadsEnd
  PROVE  IInv'
<1>1. /\ UNCHANGED <<sObj, sListed, sDestroyed, sSlot, sSpent, sDtor, sLast>>
      /\ UNCHANGED cvars /\ UNCHANGED s2c
      /\ sState' = "closing" /\ c2s' = <<>> /\ sBatch' = 0 /\ ahead' = 0
  BY DEF ServerReadsEnd, RemoveClient, sObjects, sHistory
<1>2. FlagsOK'
  BY Zenon DEF ServerReadsEnd, IInv, TypeOK, FlagsOK, cvars, cFailed, cControl, cWaits
<1>3. ServerTypeOK'
  BY <1>1, Types DEF IInv, TypeOK, ServerTypeOK, Ids
<1>4. IdLinks'
  BY <1>1, Types, ClientStays, IdsKept
<1> QED BY <1>1, <1>2, <1>3, <1>4, Types, ServerClosesInv

\* The server's application lets go of a dropped client's objects.
LEMMA ServerLetsGoInv ==
  ASSUME IInv, ServerLetsGo
  PROVE  IInv'
<1>1. /\ UNCHANGED <<sObj, sListed, sDestroyed, sBatch, sSlot, sSpent, sDtor, sLast>>
      /\ UNCHANGED <<cvars, c2s, s2c, ahead>>
      /\ sState = "dropped" /\ sState' = "closed"
  BY DEF ServerLetsGo, sObjects, sHistory
<1>2. FlagsOK'
  BY Zenon DEF ServerLetsGo, IInv, TypeOK, FlagsOK, cvars, cFailed, cControl, cWaits
<1>3. ServerTypeOK'
  BY <1>1, Types DEF IInv, TypeOK, ServerTypeOK, Ids
<1>4. IdLinks'
  BY <1>1, Types, ClientStays, IdsKept
<1>5. c2s' = <<>> /\ ahead' = 0
  BY <1>1, Types DEF StreamLinks, DownIsEmpty
<1> QED BY <1>1, <1>2, <1>3, <1>4, <1>5, Types, ServerClosesInv

\* The server's process exits.
LEMMA ServerExitsInv ==
  ASSUME IInv, ServerExits
  PROVE  IInv'
<1>1. /\ UNCHANGED <<sObj, sListed, sDestroyed, sSlot, sSpent, sDtor, sLast>>
      /\ UNCHANGED cvars /\ UNCHANGED s2c
      /\ sState' = "closed" /\ c2s' = <<>> /\ sBatch' = 0 /\ ahead' = 0
  BY DEF ServerExits, sObjects, sHistory
<1>2. FlagsOK'
  BY Zenon DEF ServerExits, IInv, TypeOK, FlagsOK, cvars, cFailed, cControl, cWaits
<1>3. ServerTypeOK'
  BY <1>1, Types DEF IInv, TypeOK, ServerTypeOK, Ids
<1>4. IdLinks'
  BY <1>1, Types, ClientStays, IdsKept
<1> QED BY <1>1, <1>2, <1>3, <1>4, Types, ServerClosesInv

\* A disconnect runs a destructor.
LEMMA DestroyForDisconnectInv ==
  ASSUME IInv, DestroyForDisconnect
  PROVE  IInv'
<1>1. /\ UNCHANGED <<sObj, sListed, sState, sBatch, sSlot, sSpent, sLast>>
      /\ UNCHANGED <<cvars, c2s, s2c, ahead>>
  BY DEF DestroyForDisconnect, sControl
<1>2. PICK o \in sListed : sDtor' = Append(sDtor, o) /\ sDestroyed' = sDestroyed \cup {o}
  BY DEF DestroyForDisconnect, Left
<1>3. FlagsOK'
  BY Zenon DEF DestroyForDisconnect, IInv, TypeOK, FlagsOK, cvars, cFailed, cControl,
       cWaits, sControl
<1>4. ServerTypeOK'
  <2>1. Ids' = Ids /\ o \in Ids /\ sDtor' \in Seq(Ids)
    BY <1>1, <1>2, Types DEF Ids
  <2> QED BY <1>1, <1>2, <2>1 DEF IInv, TypeOK, ServerTypeOK
<1>5. IdLinks'
  BY <1>1, Types, ClientStays, IdsKept
<1> QED BY <1>1, <1>3, <1>4, <1>5, Types, ServerQuietInv

\* A disconnect empties the server's list.
LEMMA ForgetObjectsInv ==
  ASSUME IInv, ForgetObjects
  PROVE  IInv'
<1>1. /\ UNCHANGED <<sObj, sDestroyed, sBatch, sSlot, sSpent, sDtor, sLast>>
      /\ UNCHANGED <<cvars, c2s, s2c, ahead>>
      /\ sState = "closing" /\ sState' = "dropped" /\ sListed' = {}
  BY DEF ForgetObjects, sHistory
<1>2. FlagsOK'
  BY Zenon DEF ForgetObjects, IInv, TypeOK, FlagsOK, cvars, cFailed, cControl, cWaits
<1>3. ServerTypeOK'
  BY <1>1, Types DEF IInv, TypeOK, ServerTypeOK, Ids
<1>4. IdLinks'
  BY <1>1, Types, ClientStays, IdsKept
<1>5. c2s' = <<>> /\ ahead' = 0
  BY <1>1, Types DEF StreamLinks, DownIsEmpty
<1> QED BY <1>1, <1>2, <1>3, <1>4, <1>5, Types, ServerClosesInv

\* The server's application sends an event, a destructor or an error.
LEMMA ServerAppInv ==
  ASSUME IInv, NEW o \in Ids, SendEvent(o) \/ SendGone(o) \/ RaiseError(o)
  PROVE  IInv'
<1>1. /\ UNCHANGED <<sObj, sListed, sState, sBatch, sSlot, sDtor, sLast>>
      /\ UNCHANGED <<cvars, c2s, ahead>>
      /\ sDestroyed' \subseteq sDestroyed \cup {o}
      /\ \E w \in {"event", "gone", "error"} : sSpent' = [sSpent EXCEPT ![w] = @ + 1]
      /\ \E m \in {EventMsg(o), GoneMsg(o), FatalMsg(o)} : s2c' = ToClient(<<m>>)
  BY DEF SendEvent, SendGone, RaiseError, Emits, sObjects, sControl
<1>2. FlagsOK'
  BY Zenon DEF SendEvent, SendGone, RaiseError, IInv, TypeOK, FlagsOK, cvars, cFailed,
       cControl, cWaits, sControl
<1>3. o \in Nat
  BY Types
<1>4. PICK m \in ServerMessages : m.type # "new" /\ s2c' = ToClient(<<m>>)
  BY <1>1, <1>3 DEF EventMsg, GoneMsg, FatalMsg, ServerMessages
<1>5. IdLinks' /\ s2c' \in Seq(ServerMessages) /\ Len(s2c') >= Len(s2c)
  BY <1>1, <1>4, Types, ClientStays, ReplySent
<1>6. sSpent' \in [{"event", "gone", "error"} -> Nat]
  BY <1>1 DEF IInv, TypeOK, ServerTypeOK
<1>7. ServerTypeOK'
  BY <1>1, <1>6 DEF IInv, TypeOK, ServerTypeOK, Ids
<1> QED BY <1>1, <1>2, <1>5, <1>7, ServerQuietInv

-----------------------------------------------------------------------------
(* The theorems. *)

\* Every step preserves the invariant.
LEMMA NextInv ==
  ASSUME IInv, [Next]_vars
  PROVE  IInv'
<1>1. CASE ClientApp
  BY <1>1, BindInv, RoundtripInv, ControlInv, KeepProxyInv, CallInv, MakeObjectInv,
     DropHandleInv DEF ClientApp
<1>2. CASE ClientDispatch \/ NoTraffic \/ ClientExits
  BY <1>2, WaitsInv, ControlInv, CollectOneInv, HandleNewObjectInv, HandleEventInv,
     HandleUnknownInv, HandlerReturnsInv, HandleAnswerInv, TakeDeferredInv, FlushOneInv,
     ClientExitsInv DEF ClientDispatch
<1>3. CASE ServerDispatch \/ ServerLetsGo \/ ServerExits
  BY <1>3, ServerReadsInv, HandleBindInv, HandleMakeInv, HandleCallInv, HandleDestroyInv,
     HandleRoundtripRequestInv, ServerEndsBatchInv, ServerReadsEndInv,
     DestroyForDisconnectInv, ForgetObjectsInv, ServerLetsGoInv, ServerExitsInv DEF ServerDispatch
<1>4. CASE ServerApp
  BY <1>4, ServerAppInv DEF ServerApp
<1>5. CASE UNCHANGED vars
  <2>1. UNCHANGED cvars /\ UNCHANGED svars /\ UNCHANGED <<c2s, s2c, ahead>>
    BY <1>5 DEF vars
  <2>2. UNCHANGED <<sObj, sListed, sDestroyed, sState, sBatch, sSlot, sSpent, sDtor, sLast>>
    BY <2>1 DEF svars, sObjects, sControl, sHistory
  <2>3. FlagsOK'
    BY <2>1, Zenon DEF IInv, TypeOK, FlagsOK, cvars, svars, cFailed, cControl, cWaits, sControl
  <2>4. ServerTypeOK'
    BY <2>1, <2>2 DEF IInv, TypeOK, ServerTypeOK, Ids
  <2>5. IdLinks'
    BY <2>1, <2>2, Types, ClientStays, IdsKept
  <2> QED BY <2>1, <2>2, <2>3, <2>4, <2>5, Types, ServerQuietInv
<1> QED BY <1>1, <1>2, <1>3, <1>4, <1>5 DEF Next

\* Every state of a connection satisfies the inductive invariant.
THEOREM Inductive == Spec => []IInv
<1>1. IInv /\ [Next]_vars => IInv'
  BY NextInv
<1> QED BY <1>1, InitInv, PTL DEF Spec

\* Every state of a connection has its type, for every number of objects,
\* calls, events, destructors, roundtrips and errors.
THEOREM TypeCorrect == Spec => []TypeOK
<1>1. IInv => TypeOK
  BY DEF IInv
<1> QED BY <1>1, Inductive, PTL

\* The server never looks up the object of a message in vain: its on_generic
\* does not answer a client of the generated proxies with a fatal error.
THEOREM NoUnknownObjectEver == Spec => []NoUnknownObject
<1>1. IInv => NoUnknownObject
  <2> SUFFICES ASSUME IInv, sBatch > 0, Head(c2s).obj # 0
               PROVE  Head(c2s).obj \in sListed
    BY DEF NoUnknownObject
  <2>1. Len(c2s) >= 1 /\ c2s \in Seq(ClientMessages) /\ Len(c2s) \in Nat
    BY Types DEF IInv, TypeOK, ServerTypeOK
  <2>2. Head(c2s) = c2s[1] /\ 1 \in 1..Len(c2s)
    BY <2>1, TailFacts
  <2> QED BY <2>2, Types DEF StreamLinks, NamedAreListed
<1> QED BY <1>1, Inductive, PTL

\* on_seq never gives an object the id of another object, or of an object of
\* the other kind.
THEOREM IdsAgree == Spec => []IdAgreement
<1>1. IInv => IdAgreement
  <2> SUFFICES ASSUME IInv, NEW s \in 1..cSeq, cId[s] # 0
               PROVE  /\ cId[s] \in Ids
                      /\ sObj[cId[s]].seq = s
                      /\ sObj[cId[s]].kind = IF s \in cRoots THEN "root" ELSE "child"
    BY DEF IdAgreement
  <2>1. s \in Seqs
    BY ListedAreSeqs, ConnectionAssumption DEF Seqs
  <2>2. cId[s] \in 1..Len(sObj) /\ sObj[cId[s]].seq = s
    BY <2>1, Types DEF IdLinks, Agreement
  <2>3. sObj[cId[s]].kind \in {"root", "child"}
    <3>1. sObj \in Seq([seq : Seqs, kind : {"root", "child"}])
      BY Types
    <3>2. sObj[cId[s]] \in [seq : Seqs, kind : {"root", "child"}]
      BY <2>2, <3>1, ElementFacts
    <3> QED BY <3>2
  <2>4. (sObj[cId[s]].kind = "root") <=> (s \in cRoots)
    BY <2>2, Types DEF StreamLinks, SeqsGivenOut
  <2> QED BY <2>2, <2>3, <2>4, Types
<1> QED BY <1>1, Inductive, PTL

-----------------------------------------------------------------------------
(* The second part: requests, calls, roundtrips and ends. *)

\* A destructor runs once. While the connection lives, an object that left
\* the list is destroyed; after it, every object with a destructor is.
Ends ==
  /\ IsInjective(sDtor)
  /\ Range(sDtor) \subseteq sDestroyed
  /\ sState = "up" => Range(sDtor) \cap sListed = {}
  /\ sState \in {"up", "closing"} => \A o \in Ids : o \in sListed \cup sDestroyed
  /\ sState = "dropped" => \A o \in Ids : sObj[o].kind = "child" => o \in sDestroyed

\* Roundtrip numbers ascend along their way: the server's requests not yet
\* handled, the slot, the acknowledgments, the client's last one. ahead ends
\* at the newest request.
Trips ==
  /\ sSlot <= cSent /\ cAckd <= cSent
  /\ \A k \in 1..Len(s2c) : s2c[k].type = "done" => s2c[k].seq <= cSent
  /\ \A i \in 1..Len(c2s) : c2s[i].type = "trip" =>
       /\ c2s[i].seq <= cSent /\ sSlot < c2s[i].seq /\ cAckd < c2s[i].seq
       /\ \A k \in 1..Len(s2c) : s2c[k].type = "done" => s2c[k].seq < c2s[i].seq
       /\ \A j \in 1..Len(c2s) : i < j /\ c2s[j].type = "trip" => c2s[i].seq < c2s[j].seq
  /\ ahead > 0 => c2s[ahead] = TripMsg(cSent)

\* An object the client no longer lists has its id, and so has the one whose
\* handler runs: messages to the client name objects.
Resolved ==
  /\ \A s \in 1..cSeq : s \notin cListed => cId[s] # 0
  /\ cpc = "handler" => cId[cCur] # 0
  /\ \A k \in 1..Len(s2c) : s2c[k].type \in {"event", "gone", "new"} => s2c[k].obj # 0

\* The client's end is shut only with an error or at its exit.
ShutIsOver == cShut => cError \/ cpc = "exited"

\* The messages that ask for an object, in the stream or deferred.
AsksFor(m, s) == m.type \in {"bind", "make"} /\ m.seq = s

\* An object is asked for once: no two requests on their way, and none for an
\* object that was made, which is made once.
StreamOnce ==
  /\ \A i, j \in 1..Len(c2s) : \A s \in Seqs :
       AsksFor(c2s[i], s) /\ AsksFor(c2s[j], s) => i = j
  /\ \A i \in 1..Len(c2s) : \A o \in 1..Len(sObj) : ~AsksFor(c2s[i], sObj[o].seq)
  /\ \A o, p \in 1..Len(sObj) : sObj[o].seq = sObj[p].seq => o = p

\* So it is with the deferred requests.
DeferredOnce(q) ==
  /\ \A i, j \in 1..Len(q) : \A s \in Seqs :
       AsksFor(q[i].msg, s) /\ AsksFor(q[j].msg, s) => i = j
  /\ \A i \in 1..Len(q) : \A o \in 1..Len(sObj) : ~AsksFor(q[i].msg, sObj[o].seq)
  /\ \A i \in 1..Len(q) : \A j \in 1..Len(c2s) : \A s \in Seqs :
       ~(AsksFor(q[i].msg, s) /\ AsksFor(c2s[j], s))

AskedOnce ==
  /\ StreamOnce /\ DeferredOnce(cQueue) /\ DeferredOnce(cPending)
  /\ \A i \in 1..Len(cQueue) : \A j \in 1..Len(cPending) : \A s \in Seqs :
       ~(AsksFor(cQueue[i].msg, s) /\ AsksFor(cPending[j].msg, s))

\* An object is answered once, and has no id before.
AnsweredOnce ==
  /\ \A k, l \in 1..Len(s2c) :
       s2c[k].type = "new" /\ s2c[l].type = "new" /\ s2c[k].seq = s2c[l].seq => k = l
  /\ \A k \in 1..Len(s2c) : s2c[k].type = "new" => cId[s2c[k].seq] = 0

\* Outside the handling of messages, deferred calls are of unresolved objects;
\* only a flush has calls it has not looked at.
DeferredWait ==
  /\ cpc \in {"app", "collect", "wait", "flush", "sweep"} =>
       \A i \in 1..Len(cQueue) : cId[cQueue[i].dep] = 0
  /\ cpc \notin {"flush", "exited"} => cPending = <<>>

\* Without destructors of the server nothing is ended that the client lists,
\* and deferred calls are of objects it lists.
NothingGone ==
  sSpent["gone"] = 0 =>
    /\ ~cCurLast
    /\ \A k \in 1..Len(s2c) : s2c[k].type # "gone"
    /\ sState = "up" => sListed \cap sDestroyed = {}
    /\ \A i \in 1..Len(cQueue) : cQueue[i].dep \in cListed
    /\ \A i \in 1..Len(cPending) : cPending[i].dep \in cListed

\* Where the request for an object without an id, or its answer, is.
StreamAsks(s) == \E i \in 1..Len(c2s) : AsksFor(c2s[i], s)
DeferredAsks(q, s) == \E i \in 1..Len(q) : AsksFor(q[i].msg, s)
Answers(s) == \E k \in 1..Len(s2c) : s2c[k].type = "new" /\ s2c[k].seq = s

Accounted ==
  sState = "up" /\ ~cShut /\ sSpent["gone"] = 0 =>
    \A s \in 1..cSeq : cId[s] = 0 =>
      \/ StreamAsks(s) \/ DeferredAsks(cQueue, s) \/ DeferredAsks(cPending, s)
      \/ Answers(s)

\* A message to the server names an object by the id the client has for it.
NamedAreKnown ==
  \A i \in 1..Len(c2s) : c2s[i].obj # 0 =>
    cId[sObj[c2s[i].obj].seq] = c2s[i].obj

Numbered(m) == m.type = "call" /\ m.seq # 0

\* The numbered calls on one object ascend along their way: the last one
\* delivered, those in the stream, the deferred ones.
StreamOrder ==
  \A i \in 1..Len(c2s) : Numbered(c2s[i]) =>
    /\ c2s[i].seq <= cCalls
    /\ sLast[sObj[c2s[i].obj].seq] < c2s[i].seq
    /\ \A j \in 1..Len(c2s) :
         i < j /\ Numbered(c2s[j]) /\ c2s[j].obj = c2s[i].obj => c2s[i].seq < c2s[j].seq

DeferredOrder(q) ==
  \A i \in 1..Len(q) : Numbered(q[i].msg) =>
    /\ q[i].msg.seq <= cCalls
    /\ sLast[q[i].dep] < q[i].msg.seq
    /\ \A j \in 1..Len(c2s) :
         Numbered(c2s[j]) /\ c2s[j].obj = cId[q[i].dep] => c2s[j].seq < q[i].msg.seq
    /\ \A j \in 1..Len(q) :
         i < j /\ Numbered(q[j].msg) /\ q[j].dep = q[i].dep => q[i].msg.seq < q[j].msg.seq

CallOrder ==
  /\ NamedAreKnown /\ StreamOrder /\ DeferredOrder(cQueue) /\ DeferredOrder(cPending)
  /\ \A s \in Seqs : sLast[s] <= cCalls
  /\ \A i \in 1..Len(cQueue) : \A j \in 1..Len(cPending) :
       /\ Numbered(cQueue[i].msg) /\ Numbered(cPending[j].msg)
       /\ cQueue[i].dep = cPending[j].dep
       => cQueue[i].msg.seq < cPending[j].msg.seq

Places == Resolved /\ ShutIsOver /\ AskedOnce /\ AnsweredOnce /\ DeferredWait

JInv == IInv /\ Ends /\ Trips /\ Places /\ NothingGone /\ Accounted /\ CallOrder

-----------------------------------------------------------------------------
(* What steps do to the streams and the queues. *)

\* What the client writes is put at the end of c2s, or lost.
Writes(m) ==
  IF cShut \/ sState # "up" THEN c2s' = c2s ELSE Sent(m)

\* So is what the server writes at the end of s2c.
ReplyPut(m) ==
  /\ s2c' \in Seq(ServerMessages)
  /\ Len(s2c) \in Nat /\ Len(s2c') = Len(s2c) + 1
  /\ \A k \in 1..Len(s2c) : s2c'[k] = s2c[k]
  /\ s2c'[Len(s2c) + 1] = m

Replies(m) == IF cShut THEN s2c' = s2c ELSE ReplyPut(m)

\* The client has taken the first message; it may have lost the last ones.
ReplyTaken ==
  /\ Len(s2c) \in Nat /\ Len(s2c') \in Nat
  /\ \A k \in 1..Len(s2c') : s2c'[k] = s2c[k + 1] /\ k + 1 \in 1..Len(s2c)

\* A call was deferred.
Deferring(d) ==
  /\ Len(cQueue) \in Nat /\ Len(cQueue') = Len(cQueue) + 1
  /\ \A i \in 1..Len(cQueue) : cQueue'[i] = cQueue[i]
  /\ cQueue'[Len(cQueue) + 1] = d

\* The flush has looked at the first of its calls.
PendingTaken ==
  /\ cPending # <<>> /\ 1 \in 1..Len(cPending)
  /\ Len(cPending) \in Nat /\ Len(cPending') = Len(cPending) - 1
  /\ \A i \in 1..Len(cPending') : cPending'[i] = cPending[i + 1] /\ i + 1 \in 1..Len(cPending)

\* The types of what the parts of the invariant speak of.
LEMMA Typed ==
  ASSUME IInv
  PROVE  /\ c2s \in Seq(ClientMessages) /\ s2c \in Seq(ServerMessages)
         /\ cQueue \in Seq(DeferredCalls) /\ cPending \in Seq(DeferredCalls)
         /\ Len(c2s) \in Nat /\ Len(s2c) \in Nat /\ Len(cQueue) \in Nat
         /\ Len(cPending) \in Nat /\ Len(sObj) \in Nat
         /\ cSeq \in Nat /\ cSeq <= MaxSeq /\ cId \in [Seqs -> Nat]
         /\ cListed \subseteq 1..cSeq /\ cHeld \subseteq 1..cSeq /\ 1..cSeq \subseteq Seqs
         /\ cSent \in Nat /\ cAckd \in Nat /\ cCalls \in Nat /\ sSlot \in Nat
         /\ ahead \in 0..Len(c2s) /\ sLast \in [Seqs -> Nat]
         /\ \A i \in 1..Len(c2s) : c2s[i] \in ClientMessages
         /\ \A i \in 1..Len(s2c) : s2c[i] \in ServerMessages
         /\ \A i \in 1..Len(cQueue) : cQueue[i] \in DeferredCalls
         /\ \A i \in 1..Len(cPending) : cPending[i] \in DeferredCalls
         /\ \A o \in 1..Len(sObj) : sObj[o] \in [seq : Seqs, kind : {"root", "child"}]
         /\ (cpc = "handler" => cCur \in cListed)
<1>1. ClientTypeOK /\ StreamTypeOK /\ ServerTypeOK
  BY DEF IInv, TypeOK
<1>2. sObj \in Seq([seq : Seqs, kind : {"root", "child"}])
  BY <1>1 DEF ServerTypeOK
<1>3. /\ c2s \in Seq(ClientMessages) /\ s2c \in Seq(ServerMessages)
      /\ cQueue \in Seq(DeferredCalls) /\ cPending \in Seq(DeferredCalls)
      /\ ahead \in 0..Len(c2s)
      /\ cSeq \in 0..MaxSeq /\ cId \in [Seqs -> Nat]
      /\ cListed \subseteq 1..cSeq /\ cHeld \subseteq 1..cSeq
      /\ cSent \in 0..MaxTrips /\ cAckd \in Nat /\ cCalls \in 0..MaxCalls
      /\ sSlot \in Nat /\ sLast \in [Seqs -> Nat]
      /\ (cpc = "handler" => cCur \in cListed)
  BY <1>1 DEF ClientTypeOK, StreamTypeOK, ServerTypeOK
<1>4. /\ cSeq \in Nat /\ cSeq <= MaxSeq /\ 1..cSeq \subseteq Seqs
      /\ cSent \in Nat /\ cCalls \in Nat
  BY <1>3, ConnectionAssumption DEF Seqs
<1>5. /\ \A i \in 1..Len(c2s) : c2s[i] \in ClientMessages
      /\ \A i \in 1..Len(s2c) : s2c[i] \in ServerMessages
      /\ \A i \in 1..Len(cQueue) : cQueue[i] \in DeferredCalls
      /\ \A i \in 1..Len(cPending) : cPending[i] \in DeferredCalls
      /\ \A o \in 1..Len(sObj) : sObj[o] \in [seq : Seqs, kind : {"root", "child"}]
  BY <1>2, <1>3, ElementFacts
<1>6. /\ Len(c2s) \in Nat /\ Len(s2c) \in Nat /\ Len(cQueue) \in Nat
      /\ Len(cPending) \in Nat /\ Len(sObj) \in Nat
  BY <1>2, <1>3
<1> QED BY <1>3, <1>4, <1>5, <1>6

\* A write of the client.
LEMMA WritesFacts ==
  ASSUME IInv, NEW m \in ClientMessages, c2s' = ToServer(<<m>>)
  PROVE  Writes(m)
<1>1. CASE cShut \/ sState # "up"
  BY <1>1 DEF Writes, ToServer
<1>2. CASE ~(cShut \/ sState # "up")
  <2>1. c2s' = c2s \o <<m>> /\ c2s \in Seq(ClientMessages) /\ Len(c2s) \in Nat
    <3>1. c2s \in Seq(ClientMessages) /\ Len(c2s) \in Nat
      BY ONLY IInv, Typed
    <3>2. c2s' = c2s \o <<m>>
      BY <1>2 DEF ToServer
    <3> QED
      BY ONLY <3>1, <3>2
  <2>2. Sent(m)
    BY <2>1, AppendFacts DEF Sent
  <2> QED BY <1>2, <2>2 DEF Writes
<1> QED BY <1>1, <1>2

\* A write of the server.
LEMMA RepliesFacts ==
  ASSUME IInv, NEW m \in ServerMessages, s2c' = ToClient(<<m>>)
  PROVE  Replies(m)
<1>1. CASE cShut
  BY <1>1 DEF Replies, ToClient
<1>2. CASE ~cShut
  <2>1. s2c' = s2c \o <<m>> /\ s2c \in Seq(ServerMessages) /\ Len(s2c) \in Nat
    <3>1. s2c \in Seq(ServerMessages) /\ Len(s2c) \in Nat
      BY ONLY IInv, Typed
    <3>2. s2c' = s2c \o <<m>>
      BY <1>2 DEF ToClient
    <3> QED
      BY ONLY <3>1, <3>2
  <2>2. ReplyPut(m)
    BY <2>1, AppendFacts DEF ReplyPut
  <2> QED BY <1>2, <2>2 DEF Replies
<1> QED BY <1>1, <1>2

\* After it, s2c holds what it held, and what was written.
LEMMA RepliesHold ==
  ASSUME NEW m, Replies(m), NEW k \in 1..Len(s2c')
  PROVE  (k \in 1..Len(s2c) /\ s2c'[k] = s2c[k]) \/ s2c'[k] = m
  BY DEF Replies, ReplyPut

\* The client takes the next message of its batch.
LEMMA ReceiveFacts ==
  ASSUME IInv, NEW types, ClientNext(types), s2c' = Tail(s2c) \/ s2c' = SubSeq(s2c, 2, cBatch)
  PROVE  /\ ReplyTaken /\ 1 \in 1..Len(s2c) /\ Head(s2c) = s2c[1]
         /\ Head(s2c) \in ServerMessages /\ Head(s2c).type \in types
         /\ cpc = "batch"
<1>1. s2c # <<>> /\ cBatch \in 1..Len(s2c) /\ cpc = "batch" /\ s2c \in Seq(ServerMessages)
  BY ClientNextFacts, Typed
<1>2. /\ Head(s2c) = s2c[1] /\ Head(s2c) \in ServerMessages /\ Len(s2c) \in Nat /\ Len(s2c) > 0
      /\ Len(Tail(s2c)) = Len(s2c) - 1
      /\ \A i \in 1..Len(Tail(s2c)) : Tail(s2c)[i] = s2c[i + 1]
  BY <1>1, TailFacts
<1>3. /\ Len(SubSeq(s2c, 2, cBatch)) = cBatch - 1
      /\ \A i \in 1..(cBatch - 1) : SubSeq(s2c, 2, cBatch)[i] = s2c[i + 1]
  BY <1>1, SubSeqFacts
<1>4. ReplyTaken
  BY <1>1, <1>2, <1>3 DEF ReplyTaken
<1> QED BY <1>1, <1>2, <1>4 DEF ClientNext

\* The flush takes the next of its calls.
LEMMA FlushFacts ==
  ASSUME IInv, cPending # <<>>, cPending' = Tail(cPending)
  PROVE  /\ PendingTaken /\ Head(cPending) = cPending[1] /\ cPending[1] \in DeferredCalls
         /\ cPending[1].dep \in 1..cSeq /\ cPending[1].msg.type \in {"make", "call"}
<1>1. cPending \in Seq(DeferredCalls) /\ DeferredOK(cPending)
  BY Typed DEF IInv, Links, QueueLinks
<1>2. /\ Head(cPending) = cPending[1] /\ Head(cPending) \in DeferredCalls
      /\ Len(cPending) \in Nat /\ Len(cPending) > 0 /\ Len(cPending') = Len(cPending) - 1
      /\ \A i \in 1..Len(cPending') : cPending'[i] = cPending[i + 1]
  BY <1>1, TailFacts
<1> QED BY <1>1, <1>2 DEF PendingTaken, DeferredOK

\* A call is put at the end of the queue.
LEMMA DeferringFacts ==
  ASSUME IInv, NEW d, d \in DeferredCalls, cQueue' = Append(cQueue, d)
  PROVE  Deferring(d)
<1>1. cQueue \in Seq(DeferredCalls)
  BY Typed
<1> QED BY <1>1 DEF Deferring

-----------------------------------------------------------------------------
(* Whose step it is. *)

ClientStep == ClientApp \/ ClientDispatch \/ NoTraffic \/ ClientExits
ServerStep == ServerDispatch \/ ServerApp \/ ServerLetsGo \/ ServerExits

\* A step of the client leaves the server alone.
LEMMA ClientLeaves ==
  ASSUME ClientStep
  PROVE  UNCHANGED svars
<1>1. CASE ClientApp
  BY <1>1 DEF ClientApp, Bind, Roundtrip, HandlerBlocks, KeepProxy, Call, MakeObject, DropHandle
<1>2. CASE WaitReturns \/ WaitFails \/ Dispatch \/ CollectOne \/ CollectDone
  BY <1>2 DEF WaitReturns, WaitFails, Dispatch, CollectOne, CollectDone
<1>3. CASE ClientReads \/ ClientReadsEnd \/ HandleNewObject \/ HandleEvent \/ HandleUnknown
  BY <1>3 DEF ClientReads, ClientReadsEnd, HandleNewObject, HandleEvent, HandleUnknown
<1>4. CASE \/ HandlerReturns \/ HandleRoundtripDone \/ HandleFatal
           \/ TakeDeferred \/ FlushOne \/ FlushDone
  BY <1>4 DEF HandlerReturns, HandleRoundtripDone, HandleFatal, TakeDeferred, FlushOne, FlushDone
<1>5. CASE NoTraffic \/ ClientExits
  BY <1>5 DEF NoTraffic, ClientExits
<1> QED BY <1>1, <1>2, <1>3, <1>4, <1>5 DEF ClientStep, ClientDispatch

\* A step of the server leaves the client alone.
LEMMA ServerLeaves ==
  ASSUME ServerStep
  PROVE  UNCHANGED cvars
<1>1. CASE ServerReads \/ HandleBind \/ HandleMake \/ HandleCall \/ HandleDestroy
  BY <1>1 DEF ServerReads, HandleBind, HandleMake, HandleCall, HandleDestroy
<1>2. CASE \/ HandleRoundtripRequest \/ ServerEndsBatch \/ ServerReadsEnd
           \/ DestroyForDisconnect \/ ForgetObjects
  BY <1>2 DEF HandleRoundtripRequest, ServerEndsBatch, ServerReadsEnd, DestroyForDisconnect,
     ForgetObjects
<1>3. CASE ServerApp \/ ServerLetsGo \/ ServerExits
  BY <1>3 DEF ServerApp, SendEvent, SendGone, RaiseError, ServerLetsGo, ServerExits
<1> QED BY <1>1, <1>2, <1>3 DEF ServerStep, ServerDispatch

\* Every step is of one of them.
LEMMA StepsSplit ==
  ASSUME Next
  PROVE  ClientStep \/ ServerStep
  BY DEF Next, ClientStep, ServerStep

\* The server handles messages only while the connection is up.
LEMMA ServerNextUp ==
  ASSUME IInv, NEW type, ServerNext(type)
  PROVE  /\ sState = "up" /\ Taken /\ Head(c2s) = c2s[1] /\ 1 \in 1..Len(c2s)
         /\ Head(c2s) \in ClientMessages /\ Head(c2s).type = type
         /\ ahead' = IF ahead > 0 THEN ahead - 1 ELSE 0
         /\ type \in {"make", "call", "destroy"} =>
              Head(c2s).obj \in sListed /\ Head(c2s).obj # 0
<1>1. /\ c2s # <<>> /\ Taken /\ 1 \in 1..Len(c2s) /\ Head(c2s) = c2s[1]
      /\ Head(c2s) \in ClientMessages /\ Head(c2s).type = type
      /\ type \in {"make", "call", "destroy"} => Head(c2s).obj \in sListed
  BY ServerNextFacts
<1>2. sState = "up"
  BY <1>1 DEF IInv, Links, StreamLinks, DownIsEmpty
<1>3. type \in {"make", "call", "destroy"} => Head(c2s).obj # 0
  BY <1>1 DEF IInv, Links, StreamLinks, Shapes
<1> QED BY <1>1, <1>2, <1>3 DEF ServerNext

-----------------------------------------------------------------------------
(* Objects end once. *)

\* Ends, when nothing it speaks of changes.
LEMMA EndsKept ==
  ASSUME Ends, UNCHANGED <<sObj, sListed, sDestroyed, sDtor, sState>>
  PROVE  Ends'
  BY DEF Ends, Ids, Range, IsInjective

\* A destructor is run for an object no destructor was run for.
LEMMA DtorRuns ==
  ASSUME IInv, Ends, NEW o \in Ids, o \notin Range(sDtor), sDtor' = Append(sDtor, o)
  PROVE  IsInjective(sDtor)' /\ Range(sDtor)' = Range(sDtor) \cup {o}
<1>1. sDtor \in Seq(Ids)
  BY Types
<1>2. /\ Len(sDtor) \in Nat /\ DOMAIN sDtor = 1..Len(sDtor)
      /\ DOMAIN sDtor' = 1..(Len(sDtor) + 1)
      /\ \A i \in 1..Len(sDtor) : sDtor'[i] = sDtor[i]
      /\ sDtor'[Len(sDtor) + 1] = o
  BY <1>1
<1>3. \A i \in 1..Len(sDtor) : sDtor[i] # o
  BY <1>2 DEF Range
<1>4. IsInjective(sDtor)'
  BY <1>2, <1>3 DEF Ends, IsInjective
<1>5. ASSUME NEW x PROVE x \in Range(sDtor') <=> x \in Range(sDtor) \cup {o}
  BY <1>2 DEF Range
<1> QED BY <1>4, <1>5

\* An object is made.
LEMMA EndsMade ==
  ASSUME IInv, Ends, NEW x, sObj' = Append(sObj, x), sListed' = sListed \cup {Len(sObj')},
         UNCHANGED <<sDestroyed, sDtor, sState>>, sState = "up"
  PROVE  Ends'
<1>1. /\ Len(sObj) \in Nat /\ Len(sObj') = Len(sObj) + 1
      /\ Ids = 1..Len(sObj) /\ Ids' = 1..(Len(sObj) + 1)
  <2>1. sObj \in Seq([seq : Seqs, kind : {"root", "child"}])
    BY Types
  <2> QED BY <2>1 DEF Ids
<1>2. Range(sDtor) \subseteq 1..Len(sObj)
  BY Types DEF Range
<1>3. Len(sObj) + 1 \notin Range(sDtor)
  BY <1>1, <1>2
<1> QED BY <1>1, <1>3 DEF Ends, IsInjective

\* The server's steps.
LEMMA EndsServer ==
  ASSUME IInv, Ends, ServerStep
  PROVE  Ends'
<1>1. CASE ServerReads \/ HandleRoundtripRequest
  BY <1>1, EndsKept DEF ServerReads, HandleRoundtripRequest, sObjects, sHistory
<1>2. CASE HandleBind
  BY <1>2, ServerNextUp, EndsMade DEF HandleBind, CreateObject, sHistory
<1>3. CASE HandleMake
  <2>1. sState = "up" /\ Head(c2s).obj \in sListed
    BY <1>3, ServerNextUp DEF HandleMake
  <2>2. CASE Head(c2s).obj \in sDestroyed
    BY <1>3, <2>1, <2>2, EndsKept DEF HandleMake
  <2>3. CASE Head(c2s).obj \notin sDestroyed
    BY <1>3, <2>1, <2>3, EndsMade DEF HandleMake, CreateObject
  <2> QED BY <2>2, <2>3
<1>4. CASE HandleCall
  <2>1. Head(c2s).obj \in sListed
    BY <1>4, ServerNextUp DEF HandleCall
  <2> QED BY <1>4, <2>1, EndsKept DEF HandleCall, sObjects
<1>5. CASE HandleDestroy
  <2> DEFINE o == Head(c2s).obj
  <2>1. sState = "up" /\ o \in sListed
    BY <1>5, ServerNextUp DEF HandleDestroy
  <2>2. /\ sDtor' = Append(sDtor, o) /\ sDestroyed' = sDestroyed \cup {o}
        /\ sListed' = sListed \ {o} /\ UNCHANGED <<sObj, sState>>
    BY <1>5, <2>1 DEF HandleDestroy
  <2>3. o \in Ids /\ o \notin Range(sDtor)
    BY <2>1, Types DEF Ends
  <2> HIDE DEF o
  <2>4. IsInjective(sDtor)' /\ Range(sDtor)' = Range(sDtor) \cup {o}
    BY <2>2, <2>3, DtorRuns
  <2> QED BY <2>1, <2>2, <2>4 DEF Ends, Ids
<1>6. CASE ServerEndsBatch \/ ServerReadsEnd
  <2>1. UNCHANGED <<sObj, sListed, sDestroyed, sDtor>> /\ sState = "up"
        /\ sState' \in {"up", "closing"}
    BY <1>6 DEF ServerEndsBatch, ServerReadsEnd, RemoveClient, sObjects, sHistory
  <2> QED BY <2>1 DEF Ends, Ids
<1>7. CASE DestroyForDisconnect
  <2>1. PICK o \in Left : sDtor' = Append(sDtor, o) /\ sDestroyed' = sDestroyed \cup {o}
    BY <1>7 DEF DestroyForDisconnect
  <2>2. sState = "closing" /\ UNCHANGED <<sObj, sListed, sState>>
    BY <1>7 DEF DestroyForDisconnect, sControl
  <2>3. o \in Ids /\ o \notin Range(sDtor)
    BY Types DEF Left, Ends
  <2>4. IsInjective(sDtor)' /\ Range(sDtor)' = Range(sDtor) \cup {o}
    BY <2>1, <2>3, DtorRuns
  <2> QED BY <2>1, <2>2, <2>4 DEF Ends, Ids
<1>8. CASE ForgetObjects
  <2>1. /\ sState = "closing" /\ sState' = "dropped" /\ Left = {}
        /\ UNCHANGED <<sObj, sDestroyed, sDtor>>
    BY <1>8 DEF ForgetObjects, sHistory
  <2> QED BY <2>1 DEF Ends, Ids, Left
<1>9. CASE ServerApp
  <2>1. UNCHANGED <<sObj, sListed, sDtor, sState>> /\ sDestroyed \subseteq sDestroyed'
    BY <1>9 DEF ServerApp, SendEvent, SendGone, RaiseError, sObjects, sControl
  <2> QED BY <2>1 DEF Ends, Ids
<1>10. CASE ServerLetsGo \/ ServerExits
  <2>1. UNCHANGED <<sObj, sListed, sDestroyed, sDtor>> /\ sState' = "closed"
    BY <1>10 DEF ServerLetsGo, ServerExits, sObjects, sHistory
  <2> QED BY <2>1 DEF Ends
<1> QED BY <1>1, <1>2, <1>3, <1>4, <1>5, <1>6, <1>7, <1>8, <1>9, <1>10
        DEF ServerStep, ServerDispatch

\* Every step.
LEMMA EndsStep ==
  ASSUME IInv, Ends, Next
  PROVE  Ends'
<1>1. CASE ClientStep
  BY <1>1, ClientLeaves, EndsKept DEF svars, sObjects, sControl, sHistory
<1> QED BY <1>1, StepsSplit, EndsServer

-----------------------------------------------------------------------------
(* What the client's steps that send do. *)

\* The client calls m on its object s, which has an id.
SendsOn(s, m) ==
  \E n \in ClientMessages :
    n.obj = cId[s] /\ n.type = m.type /\ n.seq = m.seq /\ Writes(n)

\* The client calls m on its object s.
Issued(s, m) ==
  \/ cId[s] # 0 /\ SendsOn(s, m) /\ cQueue' = cQueue
  \/ cId[s] = 0 /\ cpc = "app" /\ c2s' = c2s /\ Deferring(Deferred(s, m))

\* The client ends its object s at the server, or it leaves that undone.
Drops(s) == c2s' = c2s \/ (cId[s] # 0 /\ Writes(DestroyMsg(cId[s])))

LEMMA BindFacts ==
  ASSUME IInv, Bind
  PROVE  /\ Writes(BindMsg(cSeq + 1)) /\ cSeq' = cSeq + 1 /\ cSeq' \in Seqs
         /\ cListed' = cListed \cup {cSeq + 1} /\ cHeld' = cHeld \cup {cSeq + 1}
         /\ UNCHANGED <<s2c, ahead, cId, cQueue, cPending, cpc, cCur, cCurLast>>
         /\ UNCHANGED <<cSent, cAckd, cCalls, cError, cShut>>
<1>1. /\ cSeq' = cSeq + 1 /\ cSeq < MaxSeq /\ c2s' = ToServer(<<BindMsg(cSeq + 1)>>)
      /\ cListed' = cListed \cup {cSeq + 1} /\ cHeld' = cHeld \cup {cSeq + 1}
      /\ UNCHANGED <<s2c, ahead, cId, cQueue, cPending, cpc, cCur, cCurLast>>
      /\ UNCHANGED <<cSent, cAckd, cCalls, cError, cShut>>
  BY DEF Bind, cDeferred, cFailed, cControl
<1>2. cSeq + 1 \in Nat /\ cSeq' \in Seqs
  <2>1. cSeq \in Nat
    BY Typed
  <2> QED BY <1>1, <2>1, ConnectionAssumption DEF Seqs
<1>3. BindMsg(cSeq + 1) \in ClientMessages
  BY <1>2 DEF BindMsg, ClientMessages
<1> QED BY <1>1, <1>2, <1>3, WritesFacts

LEMMA RoundtripFacts ==
  ASSUME IInv, Roundtrip
  PROVE  /\ Writes(TripMsg(cSent + 1)) /\ cSent' = cSent + 1 /\ ahead' = Len(c2s')
         /\ cpc = "app" /\ ~cError
         /\ UNCHANGED <<s2c, cSeq, cListed, cHeld, cId, cQueue, cPending, cpc, cCur>>
         /\ UNCHANGED <<cCurLast, cAckd, cCalls, cError, cShut>>
<1>1. /\ cSent' = cSent + 1 /\ c2s' = ToServer(<<TripMsg(cSent + 1)>>)
      /\ ahead' = Len(c2s') /\ cpc = "app" /\ ~cError
      /\ UNCHANGED <<s2c, cSeq, cListed, cHeld, cId, cQueue, cPending, cpc, cCur>>
      /\ UNCHANGED <<cCurLast, cAckd, cCalls, cError, cShut>>
  BY DEF Roundtrip, cObjects, cAsked, cDeferred, cFailed, cControl
<1>2. TripMsg(cSent + 1) \in ClientMessages
  BY Typed DEF TripMsg, ClientMessages
<1> QED BY <1>1, <1>2, WritesFacts

LEMMA IssuedFacts ==
  ASSUME IInv, NEW s \in Seqs, NEW m \in ClientMessages, Issue(s, m)
  PROVE  Issued(s, m)
<1>1. CASE cId[s] # 0
  <2> DEFINE n == [m EXCEPT !.obj = cId[s]]
  <2>1. n \in ClientMessages /\ n.obj = cId[s] /\ n.type = m.type /\ n.seq = m.seq
    BY Typed DEF ClientMessages
  <2>2. c2s' = ToServer(<<n>>) /\ cQueue' = cQueue
    BY <1>1 DEF Issue
  <2> HIDE DEF n
  <2>3. Writes(n)
    BY <2>1, <2>2, WritesFacts
  <2> QED BY <1>1, <2>1, <2>2, <2>3 DEF Issued, SendsOn
<1>2. CASE cId[s] = 0
  <2>1. c2s' = c2s /\ cpc = "app" /\ cQueue' = Append(cQueue, Deferred(s, m))
    BY <1>2 DEF Issue
  <2>2. Deferred(s, m) \in DeferredCalls
    BY DEF Deferred, DeferredCalls
  <2> QED BY <1>2, <2>1, <2>2, DeferringFacts DEF Issued
<1> QED BY <1>1, <1>2

LEMMA CallFacts ==
  ASSUME IInv, NEW s \in Seqs, Call(s)
  PROVE  /\ \E k \in Nat : /\ k = (IF cpc = "app" THEN cCalls + 1 ELSE 0)
                           /\ Issued(s, CallMsg(0, k)) /\ CallMsg(0, k) \in ClientMessages
         /\ cCalls' = cCalls + 1 /\ s \in cListed \cup cHeld /\ s \in 1..cSeq
         /\ cpc \in {"app", "handler"} /\ (cpc = "handler" => s \in cHeld \cup {cCur})
         /\ UNCHANGED <<s2c, ahead, cSeq, cListed, cHeld, cId, cPending, cpc, cCur, cCurLast>>
         /\ UNCHANGED <<cSent, cAckd, cError, cShut>>
<1>1. /\ cCalls' = cCalls + 1 /\ s \in Usable /\ AppRuns
      /\ Issue(s, CallMsg(0, IF cpc = "app" THEN cCalls + 1 ELSE 0))
      /\ UNCHANGED <<s2c, ahead, cSeq, cListed, cHeld, cId, cPending, cpc, cCur, cCurLast>>
      /\ UNCHANGED <<cSent, cAckd, cError, cShut>>
  BY DEF Call, cObjects, cFailed, cControl, cWaits
<1>2. PICK k \in Nat : /\ k = (IF cpc = "app" THEN cCalls + 1 ELSE 0)
                       /\ Issue(s, CallMsg(0, k))
  BY <1>1, Typed
<1>3. CallMsg(0, k) \in ClientMessages
  BY DEF CallMsg, ClientMessages
<1>4. Issued(s, CallMsg(0, k))
  BY <1>2, <1>3, IssuedFacts
<1>5. s \in cListed \cup cHeld /\ s \in 1..cSeq
  BY <1>1, UsableFacts
<1>6. cpc \in {"app", "handler"} /\ (cpc = "handler" => s \in cHeld \cup {cCur})
  BY <1>1 DEF AppRuns, Usable
<1> QED BY <1>1, <1>2, <1>3, <1>4, <1>5, <1>6

LEMMA MakeObjectFacts ==
  ASSUME IInv, NEW s \in Seqs, MakeObject(s)
  PROVE  /\ Issued(s, MakeMsg(0, cSeq + 1)) /\ MakeMsg(0, cSeq + 1) \in ClientMessages
         /\ cSeq' = cSeq + 1 /\ cSeq' \in Seqs
         /\ cListed' = cListed \cup {cSeq + 1} /\ cHeld' = cHeld \cup {cSeq + 1}
         /\ s \in cListed \cup cHeld /\ s \in 1..cSeq
         /\ UNCHANGED <<s2c, ahead, cId, cPending, cpc, cCur, cCurLast>>
         /\ UNCHANGED <<cSent, cAckd, cCalls, cError, cShut>>
<1>1. /\ cSeq' = cSeq + 1 /\ cSeq < MaxSeq /\ s \in Usable /\ AppRuns
      /\ Issue(s, MakeMsg(0, cSeq + 1))
      /\ cListed' = cListed \cup {cSeq + 1} /\ cHeld' = cHeld \cup {cSeq + 1}
      /\ UNCHANGED <<s2c, ahead, cId, cPending, cpc, cCur, cCurLast>>
      /\ UNCHANGED <<cSent, cAckd, cCalls, cError, cShut>>
  BY DEF MakeObject, cFailed, cControl, cWaits
<1>2. MakeMsg(0, cSeq + 1) \in ClientMessages /\ cSeq' \in Seqs
  BY <1>1, Typed, ConnectionAssumption, SMTT(40) DEF MakeMsg, ClientMessages, Seqs
<1>3. Issued(s, MakeMsg(0, cSeq + 1))
  BY <1>1, <1>2, IssuedFacts
<1>4. s \in cListed \cup cHeld /\ s \in 1..cSeq
  BY <1>1, UsableFacts
<1> QED BY <1>1, <1>2, <1>3, <1>4

LEMMA DropsFacts ==
  ASSUME IInv, NEW s \in Seqs, c2s' = ToServer(DropMsgs(s))
  PROVE  Drops(s)
<1>1. CASE DropMsgs(s) = <<>>
  <2>1. c2s \in Seq(ClientMessages)
    BY Typed
  <2>2. c2s' = c2s \/ c2s' = c2s \o <<>>
    BY <1>1 DEF ToServer
  <2>3. c2s \o <<>> = c2s
    BY <2>1
  <2> QED BY <2>2, <2>3 DEF Drops
<1>2. CASE cId[s] # 0 /\ DropMsgs(s) = <<DestroyMsg(cId[s])>>
  <2>1. DestroyMsg(cId[s]) \in ClientMessages
    BY Typed DEF DestroyMsg, ClientMessages
  <2> QED BY <1>2, <2>1, WritesFacts DEF Drops
<1> QED BY <1>1, <1>2 DEF DropMsgs

LEMMA DropHandleFacts ==
  ASSUME IInv, NEW s \in Seqs, DropHandle(s)
  PROVE  /\ Drops(s) /\ s \in cHeld /\ cHeld' = cHeld \ {s}
         /\ UNCHANGED <<s2c, ahead, cSeq, cListed, cId, cQueue, cPending, cpc, cCur>>
         /\ UNCHANGED <<cCurLast, cSent, cAckd, cCalls, cError, cShut>>
<1>1. /\ c2s' = (IF s \in cListed THEN c2s ELSE ToServer(DropMsgs(s)))
      /\ s \in cHeld /\ cHeld' = cHeld \ {s}
      /\ UNCHANGED <<s2c, ahead, cSeq, cListed, cId, cQueue, cPending, cpc, cCur>>
      /\ UNCHANGED <<cCurLast, cSent, cAckd, cCalls, cError, cShut>>
  BY DEF DropHandle, cObjects, cAsked, cDeferred, cFailed, cControl, cWaits
<1>2. Drops(s)
  BY <1>1, DropsFacts DEF Drops
<1> QED BY <1>1, <1>2

LEMMA CollectFacts ==
  ASSUME IInv, CollectOne
  PROVE  /\ \E s \in Seqs : /\ Drops(s) /\ s \in cListed \ cHeld /\ cId[s] # 0
                            /\ cListed' = cListed \ {s}
         /\ cpc \in {"collect", "sweep"}
         /\ UNCHANGED <<s2c, ahead, cSeq, cHeld, cId, cQueue, cPending, cpc, cCur>>
         /\ UNCHANGED <<cCurLast, cSent, cAckd, cCalls, cError, cShut>>
<1>1. /\ cpc \in {"collect", "sweep"}
      /\ UNCHANGED <<s2c, ahead, cSeq, cHeld, cId, cQueue, cPending, cpc, cCur>>
      /\ UNCHANGED <<cCurLast, cSent, cAckd, cCalls, cError, cShut>>
  BY DEF CollectOne, cAsked, cDeferred, cFailed, cControl, cWaits
<1>2. PICK s \in Orphans : cListed' = cListed \ {s} /\ c2s' = ToServer(DropMsgs(s))
  BY DEF CollectOne
<1>3. s \in Seqs /\ s \in cListed \ cHeld /\ cId[s] # 0
  BY Typed DEF Orphans
<1> QED BY <1>1, <1>2, <1>3, DropsFacts

LEMMA FlushOneFacts ==
  ASSUME IInv, FlushOne
  PROVE  /\ PendingTaken /\ cPending[1] \in DeferredCalls /\ cPending[1].dep \in 1..cSeq
         /\ \/ cPending[1].dep \notin cListed /\ UNCHANGED <<c2s, cQueue>>
            \/ cId[cPending[1].dep] = 0 /\ c2s' = c2s /\ Deferring(cPending[1])
            \/ /\ cId[cPending[1].dep] # 0 /\ cQueue' = cQueue
               /\ SendsOn(cPending[1].dep, cPending[1].msg)
         /\ cpc = "flush"
         /\ UNCHANGED <<s2c, ahead, cSeq, cListed, cHeld, cId, cpc, cCur, cCurLast>>
         /\ UNCHANGED <<cSent, cAckd, cCalls, cError, cShut>>
<1> DEFINE d == Head(cPending)
<1>1. /\ cpc = "flush" /\ cPending # <<>> /\ cPending' = Tail(cPending)
      /\ UNCHANGED <<s2c, ahead, cSeq, cListed, cHeld, cId, cpc, cCur, cCurLast>>
      /\ UNCHANGED <<cSent, cAckd, cCalls, cError, cShut>>
  BY DEF FlushOne, cObjects, cAsked, cFailed, cControl, cWaits
<1>2. /\ PendingTaken /\ d = cPending[1] /\ d \in DeferredCalls
      /\ d.dep \in 1..cSeq /\ d.msg.type \in {"make", "call"}
  BY <1>1, FlushFacts
<1>3. \/ d.dep \notin cListed /\ UNCHANGED <<c2s, cQueue>>
      \/ cId[d.dep] = 0 /\ c2s' = c2s /\ cQueue' = Append(cQueue, d)
      \/ /\ cId[d.dep] # 0 /\ cQueue' = cQueue
         /\ c2s' = ToServer(<<[d.msg EXCEPT !.obj = cId[d.dep]]>>)
  BY DEF FlushOne
<1> HIDE DEF d
<1>4. CASE cId[d.dep] = 0 /\ c2s' = c2s /\ cQueue' = Append(cQueue, d)
  BY <1>1, <1>2, <1>4, DeferringFacts
<1>5. CASE /\ cId[d.dep] # 0 /\ cQueue' = cQueue
           /\ c2s' = ToServer(<<[d.msg EXCEPT !.obj = cId[d.dep]]>>)
  <2> DEFINE n == [d.msg EXCEPT !.obj = cId[d.dep]]
  <2>1. n \in ClientMessages /\ n.obj = cId[d.dep] /\ n.type = d.msg.type /\ n.seq = d.msg.seq
    BY <1>2, Typed DEF ClientMessages, DeferredCalls
  <2> HIDE DEF n
  <2>2. Writes(n)
    BY <1>5, <2>1, WritesFacts DEF n
  <2>3. SendsOn(d.dep, d.msg)
    BY <2>1, <2>2 DEF SendsOn
  <2> QED BY <1>1, <1>2, <1>5, <2>3
<1> QED BY <1>1, <1>2, <1>3, <1>4, <1>5

-----------------------------------------------------------------------------
(* What the other steps do to what the client and the server say. *)

\* The steps of the client that neither send nor receive.
QuietStep ==
  \/ WaitReturns \/ WaitFails \/ ClientReadsEnd \/ Dispatch \/ CollectDone \/ NoTraffic
  \/ ClientReads \/ HandlerBlocks \/ FlushDone \/ KeepProxy \/ HandlerReturns

ReceivingStep ==
  \/ HandleNewObject \/ HandleEvent \/ HandleUnknown \/ HandleRoundtripDone \/ HandleFatal

SendingStep ==
  \/ Bind \/ Roundtrip \/ CollectOne \/ FlushOne
  \/ \E s \in Seqs : Call(s) \/ MakeObject(s) \/ DropHandle(s)

LEMMA ClientSplit ==
  ASSUME ClientStep
  PROVE  QuietStep \/ ReceivingStep \/ SendingStep \/ TakeDeferred \/ ClientExits
  BY DEF ClientStep, ClientApp, ClientDispatch, QuietStep, ReceivingStep, SendingStep

LEMMA QuietFacts ==
  ASSUME QuietStep
  PROVE  /\ UNCHANGED <<c2s, s2c, ahead, cSeq, cId, cQueue, cPending>>
         /\ UNCHANGED <<cSent, cAckd, cCalls, cError, cShut>>
<1>1. CASE WaitReturns \/ WaitFails \/ ClientReadsEnd
  BY <1>1 DEF WaitReturns, WaitFails, ClientReadsEnd, cAsked, cObjects, cDeferred, cFailed
<1>2. CASE Dispatch \/ CollectDone \/ NoTraffic \/ ClientReads \/ HandlerBlocks \/ FlushDone
  BY <1>2 DEF Dispatch, CollectDone, NoTraffic, ClientReads, HandlerBlocks, FlushDone, cAsked,
     cObjects, cDeferred, cFailed, cWaits
<1>3. CASE KeepProxy \/ HandlerReturns
  BY <1>3 DEF KeepProxy, HandlerReturns, cAsked, cObjects, cDeferred, cFailed, cWaits
<1> QED BY <1>1, <1>2, <1>3 DEF QuietStep

LEMMA TakeDeferredFacts ==
  ASSUME TakeDeferred
  PROVE  /\ cPending' = cQueue /\ cQueue' = <<>> /\ cpc = "batch" /\ cpc' = "flush"
         /\ UNCHANGED <<c2s, s2c, ahead, cSeq, cListed, cHeld, cId, cCur, cCurLast>>
         /\ UNCHANGED <<cSent, cAckd, cCalls, cError, cShut>>
  BY DEF TakeDeferred, cAsked, cObjects, cFailed, cWaits

LEMMA ExitFacts ==
  ASSUME ClientExits
  PROVE  /\ s2c' = <<>> /\ cpc' = "exited" /\ cShut' = TRUE
         /\ UNCHANGED <<c2s, ahead, cSeq, cListed, cHeld, cId, cQueue, cPending, cCur>>
         /\ UNCHANGED <<cCurLast, cSent, cAckd, cCalls>>
  BY DEF ClientExits, cAsked, cObjects, cDeferred, cWaits

LEMMA ReceivingFacts ==
  ASSUME IInv, ReceivingStep
  PROVE  /\ ReplyTaken /\ 1 \in 1..Len(s2c) /\ Head(s2c) = s2c[1] /\ s2c[1] \in ServerMessages
         /\ cpc = "batch" /\ cpc' \in {"batch", "handler"}
         /\ UNCHANGED <<c2s, ahead, cSeq, cListed, cHeld, cQueue, cPending, cSent, cCalls>>
         /\ \/ /\ s2c[1].type = "new" /\ cId' = OnSeq(s2c[1].seq, s2c[1].obj)
               /\ UNCHANGED <<cAckd, cpc, cCur, cCurLast, cError, cShut>>
            \/ /\ s2c[1].type \in {"event", "gone"} /\ cCur' \in cListed
               /\ cId[cCur'] = s2c[1].obj /\ cCurLast' = (s2c[1].type = "gone")
               /\ UNCHANGED <<cId, cAckd, cError, cShut>>
            \/ /\ cError' = TRUE
               /\ UNCHANGED <<cId, cAckd, cpc, cCur, cCurLast>>
            \/ /\ s2c[1].type = "done" /\ cAckd' = s2c[1].seq
               /\ UNCHANGED <<cId, cpc, cCur, cCurLast, cError, cShut>>
<1>1. CASE HandleNewObject
  <2>1. ClientNext({"new"}) /\ s2c' = Tail(s2c)
    BY <1>1 DEF HandleNewObject
  <2>2. /\ ReplyTaken /\ 1 \in 1..Len(s2c) /\ Head(s2c) = s2c[1] /\ s2c[1] \in ServerMessages
        /\ s2c[1].type = "new" /\ cpc = "batch"
    BY <2>1, ReceiveFacts
  <2>3. /\ cId' = OnSeq(Head(s2c).seq, Head(s2c).obj)
        /\ UNCHANGED <<c2s, ahead, cSeq, cListed, cHeld, cQueue, cPending, cSent, cCalls>>
        /\ UNCHANGED <<cAckd, cpc, cCur, cCurLast, cError, cShut>>
    BY <1>1 DEF HandleNewObject, cAsked, cDeferred, cFailed, cWaits
  <2> QED BY <2>2, <2>3
<1>2. CASE HandleEvent
  <2>1. ClientNext({"event", "gone"}) /\ s2c' = Tail(s2c)
    BY <1>2 DEF HandleEvent
  <2>2. /\ ReplyTaken /\ 1 \in 1..Len(s2c) /\ Head(s2c) = s2c[1] /\ s2c[1] \in ServerMessages
        /\ s2c[1].type \in {"event", "gone"} /\ cpc = "batch"
    BY <2>1, ReceiveFacts
  <2>3. /\ cCur' \in cListed /\ cId[cCur'] = Head(s2c).obj
        /\ cCurLast' = (Head(s2c).type = "gone") /\ cpc' = "handler"
        /\ UNCHANGED <<c2s, ahead, cSeq, cListed, cHeld, cQueue, cPending, cSent, cCalls>>
        /\ UNCHANGED <<cId, cAckd, cError, cShut>>
    BY <1>2 DEF HandleEvent, cAsked, cObjects, cDeferred, cFailed, cWaits
  <2> QED BY <2>2, <2>3
<1>3. CASE HandleUnknown
  <2>1. ClientNext({"event", "gone"}) /\ s2c' = SubSeq(s2c, 2, cBatch)
    BY <1>3 DEF HandleUnknown
  <2>2. /\ ReplyTaken /\ 1 \in 1..Len(s2c) /\ Head(s2c) = s2c[1] /\ s2c[1] \in ServerMessages
        /\ cpc = "batch"
    BY <2>1, ReceiveFacts
  <2>3. /\ cError' = TRUE
        /\ UNCHANGED <<c2s, ahead, cSeq, cListed, cHeld, cQueue, cPending, cSent, cCalls>>
        /\ UNCHANGED <<cId, cAckd, cpc, cCur, cCurLast>>
    BY <1>3 DEF HandleUnknown, cAsked, cObjects, cDeferred, cWaits
  <2> QED BY <2>2, <2>3
<1>4. CASE HandleRoundtripDone
  <2>1. ClientNext({"done"}) /\ s2c' = Tail(s2c)
    BY <1>4 DEF HandleRoundtripDone
  <2>2. /\ ReplyTaken /\ 1 \in 1..Len(s2c) /\ Head(s2c) = s2c[1] /\ s2c[1] \in ServerMessages
        /\ s2c[1].type = "done" /\ cpc = "batch"
    BY <2>1, ReceiveFacts
  <2>3. /\ cAckd' = Head(s2c).seq
        /\ UNCHANGED <<c2s, ahead, cSeq, cListed, cHeld, cQueue, cPending, cSent, cCalls>>
        /\ UNCHANGED <<cId, cpc, cCur, cCurLast, cError, cShut>>
    BY <1>4 DEF HandleRoundtripDone, cAsked, cObjects, cDeferred, cFailed
  <2> QED BY <2>2, <2>3
<1>5. CASE HandleFatal
  <2>1. ClientNext({"fatal"}) /\ s2c' = Tail(s2c)
    BY <1>5 DEF HandleFatal
  <2>2. /\ ReplyTaken /\ 1 \in 1..Len(s2c) /\ Head(s2c) = s2c[1] /\ s2c[1] \in ServerMessages
        /\ cpc = "batch"
    BY <2>1, ReceiveFacts
  <2>3. /\ cError' = TRUE
        /\ UNCHANGED <<c2s, ahead, cSeq, cListed, cHeld, cQueue, cPending, cSent, cCalls>>
        /\ UNCHANGED <<cId, cAckd, cpc, cCur, cCurLast>>
    BY <1>5 DEF HandleFatal, cAsked, cObjects, cDeferred, cWaits
  <2> QED BY <2>2, <2>3
<1> QED BY <1>1, <1>2, <1>3, <1>4, <1>5 DEF ReceivingStep

\* The server makes an object for s and answers with its id.
Creates(s) ==
  /\ Len(sObj) \in Nat /\ Len(sObj') = Len(sObj) + 1
  /\ \A o \in 1..Len(sObj) : sObj'[o] = sObj[o]
  /\ sObj'[Len(sObj) + 1].seq = s
  /\ sListed' = sListed \cup {Len(sObj) + 1}
  /\ Replies(NewMsg(Len(sObj) + 1, s))

LEMMA CreatesFacts ==
  ASSUME IInv, NEW s \in Seqs, NEW kind \in {"root", "child"}, CreateObject(s, kind)
  PROVE  Creates(s)
<1>1. sObj \in Seq([seq : Seqs, kind : {"root", "child"}])
  BY Types
<1>2. [seq |-> s, kind |-> kind] \in [seq : Seqs, kind : {"root", "child"}]
  OBVIOUS
<1>3. /\ Len(sObj) \in Nat /\ Len(sObj') = Len(sObj) + 1
      /\ \A o \in 1..Len(sObj) : sObj'[o] = sObj[o]
      /\ sObj'[Len(sObj) + 1] = [seq |-> s, kind |-> kind]
  BY <1>1, <1>2 DEF CreateObject
<1>4. s2c' = ToClient(<<NewMsg(Len(sObj) + 1, s)>>) /\ sListed' = sListed \cup {Len(sObj) + 1}
  BY <1>3 DEF CreateObject
<1>5. NewMsg(Len(sObj) + 1, s) \in ServerMessages
  BY <1>3, ConnectionAssumption DEF NewMsg, ServerMessages, Seqs
<1>6. Replies(NewMsg(Len(sObj) + 1, s))
  BY <1>4, <1>5, RepliesFacts
<1> QED BY <1>3, <1>4, <1>6 DEF Creates

HandlingStep == HandleBind \/ HandleMake \/ HandleCall \/ HandleDestroy \/ HandleRoundtripRequest

\* The server handles the first message.
LEMMA HandlingFacts ==
  ASSUME IInv, HandlingStep
  PROVE  /\ Taken /\ 1 \in 1..Len(c2s) /\ c2s[1] \in ClientMessages
         /\ sState = "up" /\ sState' = "up" /\ sSpent' = sSpent
         /\ ahead' = (IF ahead > 0 THEN ahead - 1 ELSE 0)
         /\ \/ /\ c2s[1].type \in {"bind", "make"} /\ Creates(c2s[1].seq)
               /\ UNCHANGED <<sLast, sSlot, sDestroyed>>
            \/ /\ c2s[1].type = "make" /\ c2s[1].obj \in sListed \cap sDestroyed
               /\ UNCHANGED <<sObj, s2c, sListed, sDestroyed, sLast, sSlot>>
            \/ /\ c2s[1].type = "call" /\ c2s[1].obj \in 1..Len(sObj)
               /\ sLast' = (IF c2s[1].seq = 0 THEN sLast
                            ELSE [sLast EXCEPT ![sObj[c2s[1].obj].seq] = c2s[1].seq])
               /\ UNCHANGED <<sObj, s2c, sListed, sDestroyed, sSlot>>
            \/ /\ c2s[1].type = "destroy" /\ c2s[1].obj \in sListed
               /\ c2s[1] = DestroyMsg(c2s[1].obj)
               /\ sListed' = sListed \ {c2s[1].obj}
               /\ sDestroyed' = sDestroyed \cup {c2s[1].obj}
               /\ UNCHANGED <<sObj, s2c, sLast, sSlot>>
            \/ /\ c2s[1].type = "trip" /\ sSlot' = c2s[1].seq
               /\ UNCHANGED <<sObj, s2c, sListed, sDestroyed, sLast>>
<1> DEFINE m == Head(c2s)
<1>1. PICK type : ServerNext(type)
  BY DEF HandlingStep, HandleBind, HandleMake, HandleCall, HandleDestroy, HandleRoundtripRequest
<1>2. /\ sState = "up" /\ Taken /\ m = c2s[1] /\ 1 \in 1..Len(c2s) /\ m \in ClientMessages
      /\ ahead' = IF ahead > 0 THEN ahead - 1 ELSE 0
  BY <1>1, ServerNextUp
<1>3. sState' = "up" /\ sSpent' = sSpent
  BY <1>2 DEF HandlingStep, HandleBind, HandleMake, HandleCall, HandleDestroy,
     HandleRoundtripRequest, sHistory
<1>4. m.type \in {"bind", "make"} => m.seq \in Seqs
  <2>1. m.type \in {"bind", "make"} => m.seq \in 1..cSeq
    BY <1>2 DEF IInv, Links, StreamLinks, SeqsGivenOut
  <2> QED BY <2>1, Typed
<1>5. CASE HandleBind
  <2>1. m.type = "bind" /\ CreateObject(m.seq, "root") /\ UNCHANGED <<sLast, sSlot, sDestroyed>>
    BY <1>5 DEF HandleBind, ServerNext, sHistory
  <2> QED BY <1>2, <1>3, <1>4, <2>1, CreatesFacts
<1>6. CASE HandleMake
  <2>1. m.type = "make" /\ m.obj \in sListed
    BY <1>6, ServerNextUp DEF HandleMake
  <2>2. /\ UNCHANGED <<sDestroyed, sLast, sSlot>>
        /\ IF m.obj \in sDestroyed THEN UNCHANGED <<sObj, sListed, s2c>>
           ELSE CreateObject(m.seq, "child")
    BY <1>6, <2>1 DEF HandleMake
  <2> QED BY <1>2, <1>3, <1>4, <2>1, <2>2, CreatesFacts
<1>7. CASE HandleCall
  <2>1. m.type = "call" /\ m.obj \in sListed
    BY <1>7, ServerNextUp DEF HandleCall
  <2>2. /\ sLast' = (IF m.seq = 0 THEN sLast ELSE [sLast EXCEPT ![sObj[m.obj].seq] = m.seq])
        /\ UNCHANGED <<sObj, s2c, sListed, sDestroyed, sSlot>>
    BY <1>7, <2>1 DEF HandleCall, sObjects
  <2>3. m.obj \in 1..Len(sObj)
    BY <2>1, Types
  <2> QED BY <1>2, <1>3, <2>1, <2>2, <2>3
<1>8. CASE HandleDestroy
  <2>1. m.type = "destroy" /\ m.obj \in sListed
    BY <1>8, ServerNextUp DEF HandleDestroy
  <2>2. /\ sListed' = sListed \ {m.obj} /\ sDestroyed' = sDestroyed \cup {m.obj}
        /\ UNCHANGED <<sObj, s2c, sLast, sSlot>>
    BY <1>8, <2>1 DEF HandleDestroy
  <2>3. c2s[1] = DestroyMsg(c2s[1].obj)
    BY <1>2, <2>1 DEF IInv, Links, StreamLinks, Shapes
  <2> QED BY <1>2, <1>3, <2>1, <2>2, <2>3
<1>9. CASE HandleRoundtripRequest
  <2>1. /\ m.type = "trip" /\ sSlot' = m.seq
        /\ UNCHANGED <<sObj, s2c, sListed, sDestroyed, sLast>>
    BY <1>9 DEF HandleRoundtripRequest, ServerNext, sObjects, sHistory
  <2> QED BY <1>2, <1>3, <2>1
<1> QED BY <1>5, <1>6, <1>7, <1>8, <1>9 DEF HandlingStep

ClosingStep ==
  \/ ServerReads \/ ServerEndsBatch \/ ServerReadsEnd \/ DestroyForDisconnect
  \/ ForgetObjects \/ ServerApp \/ ServerLetsGo \/ ServerExits

LEMMA ServerSplit ==
  ASSUME ServerStep
  PROVE  HandlingStep \/ ClosingStep
  BY DEF ServerStep, ServerDispatch, HandlingStep, ClosingStep

\* The server does what no message asks for.
LEMMA ClosingFacts ==
  ASSUME IInv, ClosingStep
  PROVE  /\ UNCHANGED <<sObj, sLast>>
         /\ \/ UNCHANGED <<c2s, ahead>> /\ (sState' = "up" => sState = "up")
            \/ c2s' = <<>> /\ ahead' = 0 /\ sState' # "up"
         /\ sSlot' \in {0, sSlot}
         /\ \/ s2c' = s2c
            \/ sSlot > 0 /\ sSlot' = 0 /\ Replies(DoneMsg(sSlot))
            \/ \E o \in 1..Len(sObj) : Replies(EventMsg(o)) \/ Replies(FatalMsg(o))
            \/ \E o \in 1..Len(sObj) : Replies(GoneMsg(o)) /\ sSpent'["gone"] # 0
         /\ (sState' = "up" => /\ sListed' = sListed
                               /\ sDestroyed' = sDestroyed \/ sSpent'["gone"] # 0)
         /\ (sSpent'["gone"] = 0 => sSpent["gone"] = 0)
<1>1. CASE ServerReads
  BY <1>1 DEF ServerReads, sObjects, sHistory
<1>2. CASE DestroyForDisconnect
  BY <1>2 DEF DestroyForDisconnect, sControl
<1>3. CASE ForgetObjects \/ ServerLetsGo
  BY <1>3 DEF ForgetObjects, ServerLetsGo, sObjects, sHistory
<1>4. CASE ServerReadsEnd \/ ServerExits
  BY <1>4 DEF ServerReadsEnd, ServerExits, RemoveClient, sObjects, sHistory
<1>5. CASE ServerEndsBatch
  <2>1. /\ UNCHANGED <<sObj, sLast, sSpent, sListed, sDestroyed>> /\ sState = "up" /\ sSlot' = 0
        /\ \/ UNCHANGED <<c2s, ahead>>
           \/ c2s' = <<>> /\ ahead' = 0 /\ sState' # "up"
        /\ s2c' = IF sSlot > 0 THEN ToClient(<<DoneMsg(sSlot)>>) ELSE s2c
    BY <1>5 DEF ServerEndsBatch, RemoveClient, sObjects, sHistory
  <2>2. DoneMsg(sSlot) \in ServerMessages
    BY Typed DEF DoneMsg, ServerMessages
  <2>3. sSlot > 0 => Replies(DoneMsg(sSlot))
    BY <2>1, <2>2, RepliesFacts
  <2> QED BY <2>1, <2>3
<1>6. CASE ServerApp
  <2>1. PICK o \in 1..Len(sObj) : SendEvent(o) \/ SendGone(o) \/ RaiseError(o)
    BY <1>6, Types DEF ServerApp
  <2>2. /\ EventMsg(o) \in ServerMessages /\ GoneMsg(o) \in ServerMessages
        /\ FatalMsg(o) \in ServerMessages
    <3>1. Len(sObj) \in Nat
      BY Typed
    <3>2. o \in Nat
      BY <3>1
    <3> QED BY <3>2 DEF EventMsg, GoneMsg, FatalMsg, ServerMessages
  <2>3. /\ sSpent \in [{"event", "gone", "error"} -> Nat]
    BY DEF IInv, TypeOK, ServerTypeOK
  <2>4. CASE SendEvent(o)
    <3>1. /\ UNCHANGED <<sObj, sLast, c2s, ahead, sState, sSlot, sListed, sDestroyed>>
          /\ s2c' = ToClient(<<EventMsg(o)>>)
          /\ sSpent' = [sSpent EXCEPT !["event"] = @ + 1]
      BY <2>4 DEF SendEvent, Emits, sObjects, sControl
    <3> QED BY <2>2, <2>3, <3>1, RepliesFacts
  <2>5. CASE SendGone(o)
    <3>1. /\ UNCHANGED <<sObj, sLast, c2s, ahead, sState, sSlot, sListed>>
          /\ s2c' = ToClient(<<GoneMsg(o)>>)
          /\ sSpent' = [sSpent EXCEPT !["gone"] = @ + 1]
      BY <2>5 DEF SendGone, Emits, sControl
    <3>2. sSpent'["gone"] # 0
      BY <2>3, <3>1
    <3> QED BY <2>2, <3>1, <3>2, RepliesFacts
  <2>6. CASE RaiseError(o)
    <3>1. /\ UNCHANGED <<sObj, sLast, c2s, ahead, sState, sSlot, sListed, sDestroyed>>
          /\ s2c' = ToClient(<<FatalMsg(o)>>)
          /\ sSpent' = [sSpent EXCEPT !["error"] = @ + 1]
      BY <2>6 DEF RaiseError, Emits, sObjects
    <3> QED BY <2>2, <2>3, <3>1, RepliesFacts
  <2> QED BY <2>1, <2>4, <2>5, <2>6
<1> QED BY <1>1, <1>2, <1>3, <1>4, <1>5, <1>6 DEF ClosingStep

-----------------------------------------------------------------------------
(* Roundtrips. *)

\* A message that is not a request is sent.
LEMMA TripsSent ==
  ASSUME IInv, Trips, NEW m, m.type # "trip", Writes(m),
         UNCHANGED <<s2c, ahead, sSlot, cSent, cAckd>>
  PROVE  Trips'
<1>1. CASE c2s' = c2s
  BY <1>1 DEF Trips
<1>2. CASE Sent(m)
  <2>1. ahead > 0 => c2s'[ahead] = TripMsg(cSent)
    BY <1>2, Typed DEF Trips, Sent
  <2>2. ASSUME NEW i \in 1..Len(c2s'), c2s'[i].type = "trip"
        PROVE  /\ c2s'[i].seq <= cSent /\ sSlot < c2s'[i].seq /\ cAckd < c2s'[i].seq
               /\ \A k \in 1..Len(s2c) : s2c[k].type = "done" => s2c[k].seq < c2s'[i].seq
               /\ \A j \in 1..Len(c2s') :
                    i < j /\ c2s'[j].type = "trip" => c2s'[i].seq < c2s'[j].seq
    <3>1. i \in 1..Len(c2s) /\ c2s'[i] = c2s[i]
      BY <1>2, <2>2 DEF Sent
    <3>2. ASSUME NEW j \in 1..Len(c2s'), c2s'[j].type = "trip"
          PROVE  j \in 1..Len(c2s) /\ c2s'[j] = c2s[j]
      BY <1>2, <3>2 DEF Sent
    <3> QED BY <2>2, <3>1, <3>2 DEF Trips
  <2> QED BY <2>1, <2>2 DEF Trips, TripMsg
<1> QED BY <1>1, <1>2 DEF Writes

\* Nothing of it changes.
LEMMA TripsKept ==
  ASSUME Trips, UNCHANGED <<c2s, s2c, ahead, sSlot, cSent, cAckd>>
  PROVE  Trips'
  BY DEF Trips, TripMsg

\* The client calls something on an object.
LEMMA TripsIssued ==
  ASSUME IInv, Trips, NEW s \in Seqs, NEW m \in ClientMessages, m.type # "trip", SendsOn(s, m),
         UNCHANGED <<s2c, ahead, sSlot, cSent, cAckd>>
  PROVE  Trips'
  BY TripsSent DEF SendsOn

\* A request is sent: its number is new.
LEMMA TripsRequested ==
  ASSUME IInv, Trips, ShutIsOver, Roundtrip, UNCHANGED sSlot
  PROVE  Trips'
<1>1. /\ Writes(TripMsg(cSent + 1)) /\ cSent' = cSent + 1 /\ ahead' = Len(c2s')
      /\ cpc = "app" /\ ~cError /\ UNCHANGED <<s2c, cAckd>>
  BY RoundtripFacts
<1>2. ~cShut
  BY <1>1 DEF ShutIsOver
<1>3. /\ Len(c2s) \in Nat /\ cSent \in Nat /\ cAckd \in Nat /\ sSlot \in Nat
      /\ \A i \in 1..Len(c2s) : c2s[i].seq \in Nat
      /\ \A i \in 1..Len(s2c) : s2c[i].seq \in Nat
  BY Typed DEF ClientMessages, ServerMessages
<1>4. /\ TripMsg(cSent + 1).type = "trip" /\ TripMsg(cSent + 1).seq = cSent + 1
  BY DEF TripMsg
<1>5. CASE sState # "up"
  <2>1. c2s = <<>> /\ c2s' = c2s
    BY <1>1, <1>5 DEF Writes, IInv, Links, StreamLinks, DownIsEmpty
  <2>2. Len(c2s) = 0
    BY <2>1
  <2> QED BY <1>1, <1>3, <2>1, <2>2 DEF Trips
<1>6. CASE sState = "up"
  <2>1. /\ Len(c2s') = Len(c2s) + 1
        /\ \A i \in 1..Len(c2s) : c2s'[i] = c2s[i]
        /\ c2s'[Len(c2s) + 1] = TripMsg(cSent')
    BY <1>1, <1>2, <1>6 DEF Writes, Sent
  <2>2. sSlot <= cSent' /\ cAckd' <= cSent'
    BY <1>1, <1>3 DEF Trips
  <2>3. \A k \in 1..Len(s2c) : s2c[k].type = "done" => s2c[k].seq <= cSent'
    BY <1>1, <1>3 DEF Trips
  <2>4. ASSUME NEW i \in 1..Len(c2s'), c2s'[i].type = "trip"
        PROVE  /\ c2s'[i].seq <= cSent' /\ sSlot < c2s'[i].seq /\ cAckd < c2s'[i].seq
               /\ \A k \in 1..Len(s2c) : s2c[k].type = "done" => s2c[k].seq < c2s'[i].seq
               /\ \A j \in 1..Len(c2s') :
                    i < j /\ c2s'[j].type = "trip" => c2s'[i].seq < c2s'[j].seq
    <3>1. CASE i \in 1..Len(c2s)
      <4>1. c2s'[i] = c2s[i] /\ c2s[i].seq <= cSent
        BY <2>1, <2>4, <3>1 DEF Trips
      <4>2. ASSUME NEW j \in 1..Len(c2s'), i < j, c2s'[j].type = "trip"
            PROVE  c2s'[i].seq < c2s'[j].seq
        <5>1. CASE j \in 1..Len(c2s)
          BY <2>1, <2>4, <3>1, <4>2, <5>1 DEF Trips
        <5>2. CASE j = Len(c2s) + 1
          BY <1>1, <1>3, <1>4, <2>1, <3>1, <4>1, <5>2
        <5> QED BY <1>3, <2>1, <5>1, <5>2
      <4>3. /\ sSlot < c2s[i].seq /\ cAckd < c2s[i].seq
            /\ \A k \in 1..Len(s2c) : s2c[k].type = "done" => s2c[k].seq < c2s[i].seq
        BY <2>4, <3>1, <4>1 DEF Trips
      <4>4. c2s[i].seq <= cSent'
        BY <1>1, <1>3, <3>1, <4>1
      <4> QED BY <4>1, <4>2, <4>3, <4>4
    <3>2. CASE i = Len(c2s) + 1
      <4>1. c2s'[i].seq = cSent + 1
        BY <1>1, <1>4, <2>1, <3>2
      <4>2. \A k \in 1..Len(s2c) : s2c[k].type = "done" => s2c[k].seq < cSent + 1
        BY <1>3 DEF Trips
      <4>3. sSlot < cSent + 1 /\ cAckd < cSent + 1
        BY <1>3 DEF Trips
      <4>4. \A j \in 1..Len(c2s') : ~(i < j)
        BY <1>3, <2>1, <3>2
      <4> QED BY <1>1, <1>3, <4>1, <4>2, <4>3, <4>4
    <3> QED BY <1>3, <2>1, <3>1, <3>2
  <2>5. ahead' > 0 => c2s'[ahead'] = TripMsg(cSent')
    BY <1>1, <2>1
  <2> QED BY <1>1, <2>2, <2>3, <2>4, <2>5 DEF Trips, TripMsg
<1> QED BY <1>5, <1>6

\* The client receives: an acknowledgment is older than every request on its way.
LEMMA TripsReceived ==
  ASSUME IInv, Trips, ReplyTaken,
         UNCHANGED <<c2s, ahead, sSlot, cSent>>,
         \/ cAckd' = cAckd
         \/ 1 \in 1..Len(s2c) /\ s2c[1].type = "done" /\ cAckd' = s2c[1].seq
  PROVE  Trips'
<1>1. /\ cAckd' <= cSent
      /\ \A i \in 1..Len(c2s) : c2s[i].type = "trip" => cAckd' < c2s[i].seq
  BY DEF Trips
<1>2. /\ \A k \in 1..Len(s2c') : s2c'[k].type = "done" => s2c'[k].seq <= cSent
      /\ \A i \in 1..Len(c2s) : c2s[i].type = "trip" =>
           \A k \in 1..Len(s2c') : s2c'[k].type = "done" => s2c'[k].seq < c2s[i].seq
  BY DEF Trips, ReplyTaken
<1> QED BY <1>1, <1>2 DEF Trips, TripMsg

\* The server handles a message: a request it takes is the oldest.
LEMMA TripsHandled ==
  ASSUME IInv, Trips, HandlingStep, UNCHANGED <<cSent, cAckd>>
  PROVE  Trips'
<1>1. /\ Taken /\ 1 \in 1..Len(c2s)
      /\ ahead' = (IF ahead > 0 THEN ahead - 1 ELSE 0)
      /\ \/ sSlot' = sSlot
         \/ c2s[1].type = "trip" /\ sSlot' = c2s[1].seq
      /\ \/ s2c' = s2c
         \/ \E o, s : Replies(NewMsg(o, s))
  BY HandlingFacts DEF Creates
<1>2. ahead \in Nat /\ ahead <= Len(c2s) /\ Len(c2s) \in Nat
  BY Typed
<1>3. sSlot' <= cSent /\ cAckd <= cSent
  BY <1>1 DEF Trips
<1>4. \A k \in 1..Len(s2c') : s2c'[k].type = "done" => k \in 1..Len(s2c) /\ s2c'[k] = s2c[k]
  <2> SUFFICES ASSUME NEW k \in 1..Len(s2c'), s2c'[k].type = "done"
               PROVE  k \in 1..Len(s2c) /\ s2c'[k] = s2c[k]
    OBVIOUS
  <2>1. CASE s2c' = s2c
    BY <2>1
  <2>2. ASSUME NEW o, NEW s, Replies(NewMsg(o, s))
        PROVE  k \in 1..Len(s2c) /\ s2c'[k] = s2c[k]
    <3>1. s2c'[k] # NewMsg(o, s)
      BY DEF NewMsg
    <3> QED BY <2>2, <3>1, RepliesHold
  <2> QED BY <1>1, <2>1, <2>2
<1>5. ASSUME NEW i \in 1..Len(c2s'), c2s'[i].type = "trip"
      PROVE  /\ c2s'[i].seq <= cSent /\ sSlot' < c2s'[i].seq /\ cAckd < c2s'[i].seq
             /\ \A k \in 1..Len(s2c') : s2c'[k].type = "done" => s2c'[k].seq < c2s'[i].seq
             /\ \A j \in 1..Len(c2s') :
                  i < j /\ c2s'[j].type = "trip" => c2s'[i].seq < c2s'[j].seq
  <2>1. i + 1 \in 1..Len(c2s) /\ c2s'[i] = c2s[i + 1] /\ 1 < i + 1
    BY <1>1 DEF Taken
  <2>2. /\ c2s[i + 1].seq <= cSent /\ sSlot < c2s[i + 1].seq /\ cAckd < c2s[i + 1].seq
        /\ \A k \in 1..Len(s2c) : s2c[k].type = "done" => s2c[k].seq < c2s[i + 1].seq
    BY <1>5, <2>1 DEF Trips
  <2>3. sSlot' < c2s[i + 1].seq
    BY <1>1, <1>5, <2>1, <2>2 DEF Trips
  <2>4. ASSUME NEW j \in 1..Len(c2s'), i < j, c2s'[j].type = "trip"
        PROVE  c2s'[i].seq < c2s'[j].seq
    <3>1. j + 1 \in 1..Len(c2s) /\ c2s'[j] = c2s[j + 1] /\ i + 1 < j + 1
      BY <1>1, <2>4 DEF Taken
    <3> QED BY <1>5, <2>1, <2>4, <3>1 DEF Trips
  <2> QED BY <1>4, <2>1, <2>2, <2>3, <2>4
<1>6. \A k \in 1..Len(s2c') : s2c'[k].type = "done" => s2c'[k].seq <= cSent
  BY <1>4 DEF Trips
<1>7. ahead' > 0 => c2s'[ahead'] = TripMsg(cSent)
  <2> SUFFICES ASSUME ahead' > 0 PROVE c2s'[ahead'] = TripMsg(cSent)
    OBVIOUS
  <2>1. ahead > 0 /\ ahead' = ahead - 1 /\ ahead' \in 1..Len(c2s')
    BY <1>1, <1>2 DEF Taken
  <2>2. c2s'[ahead'] = c2s[ahead' + 1] /\ ahead' + 1 = ahead
    BY <1>1, <1>2, <2>1 DEF Taken
  <2> QED BY <2>1, <2>2 DEF Trips
<1> QED BY <1>3, <1>5, <1>6, <1>7 DEF Trips, TripMsg

\* The server does anything else: it acknowledges what is in its slot.
LEMMA TripsClosing ==
  ASSUME IInv, Trips, ClosingStep, UNCHANGED <<cSent, cAckd>>
  PROVE  Trips'
<1>1. /\ \/ UNCHANGED <<c2s, ahead>>
         \/ c2s' = <<>> /\ ahead' = 0
      /\ sSlot' \in {0, sSlot}
      /\ \/ s2c' = s2c
         \/ Replies(DoneMsg(sSlot))
         \/ \E o \in 1..Len(sObj) : Replies(EventMsg(o)) \/ Replies(FatalMsg(o)) \/ Replies(GoneMsg(o))
  BY ClosingFacts
<1>2. sSlot \in Nat /\ cSent \in Nat /\ Len(s2c) \in Nat /\ \A i \in 1..Len(c2s) : c2s[i].seq \in Nat
  BY Typed DEF ClientMessages
<1>3. sSlot' <= cSent /\ cAckd <= cSent
  BY <1>1, <1>2 DEF Trips
<1>4. ASSUME NEW k \in 1..Len(s2c'), s2c'[k].type = "done"
      PROVE  (k \in 1..Len(s2c) /\ s2c'[k] = s2c[k]) \/ s2c'[k].seq = sSlot
  <2>1. CASE Replies(DoneMsg(sSlot))
    BY <2>1, RepliesHold DEF DoneMsg
  <2>2. ASSUME NEW m, m.type # "done", Replies(m)
        PROVE  k \in 1..Len(s2c) /\ s2c'[k] = s2c[k]
    BY <1>4, <2>2, RepliesHold
  <2>3. \A o : /\ EventMsg(o).type # "done" /\ FatalMsg(o).type # "done"
               /\ GoneMsg(o).type # "done"
    BY DEF EventMsg, FatalMsg, GoneMsg
  <2> QED BY <1>1, <2>1, <2>2, <2>3
<1>5. \A k \in 1..Len(s2c') : s2c'[k].type = "done" => s2c'[k].seq <= cSent
  BY <1>4 DEF Trips
<1>6. CASE UNCHANGED <<c2s, ahead>>
  <2>1. ASSUME NEW i \in 1..Len(c2s), c2s[i].type = "trip"
        PROVE  /\ sSlot' < c2s[i].seq
               /\ \A k \in 1..Len(s2c') : s2c'[k].type = "done" => s2c'[k].seq < c2s[i].seq
    <3>1. sSlot < c2s[i].seq
      BY <2>1 DEF Trips
    <3>2. sSlot' < c2s[i].seq
      BY <1>1, <1>2, <3>1
    <3> QED BY <1>4, <2>1, <3>1, <3>2 DEF Trips
  <2> QED BY <1>3, <1>5, <1>6, <2>1 DEF Trips, TripMsg
<1>7. CASE c2s' = <<>> /\ ahead' = 0
  <2>1. Len(c2s') = 0
    BY <1>7
  <2> QED BY <1>3, <1>5, <1>7, <2>1 DEF Trips
<1> QED BY <1>1, <1>6, <1>7

\* The client's steps that send.
LEMMA TripsSending ==
  ASSUME IInv, Trips, ShutIsOver, SendingStep, UNCHANGED sSlot
  PROVE  Trips'
<1>1. CASE Bind
  <2>1. Writes(BindMsg(cSeq + 1)) /\ UNCHANGED <<s2c, ahead, cSent, cAckd>>
    BY <1>1, BindFacts
  <2> QED BY <2>1, TripsSent DEF BindMsg
<1>2. CASE Roundtrip
  BY <1>2, TripsRequested
<1>3. CASE CollectOne
  <2>1. PICK s \in Seqs : Drops(s)
    BY <1>3, CollectFacts
  <2>2. UNCHANGED <<s2c, ahead, cSent, cAckd>>
    BY <1>3, CollectFacts
  <2> QED BY <2>1, <2>2, TripsSent, TripsKept DEF Drops, DestroyMsg
<1>4. CASE FlushOne
  <2>1. /\ cPending[1] \in DeferredCalls /\ cPending[1].dep \in 1..cSeq
        /\ c2s' = c2s \/ SendsOn(cPending[1].dep, cPending[1].msg)
        /\ UNCHANGED <<s2c, ahead, cSent, cAckd>>
        /\ PendingTaken
    BY <1>4, FlushOneFacts
  <2>2. cPending[1].msg.type \in {"make", "call"}
    BY <2>1 DEF PendingTaken, IInv, Links, QueueLinks, DeferredOK
  <2>3. cPending[1].dep \in Seqs /\ cPending[1].msg \in ClientMessages
    BY <2>1 DEF DeferredCalls
  <2> QED BY <2>1, <2>2, <2>3, TripsIssued, TripsKept
<1>5. ASSUME NEW s \in Seqs, Call(s) PROVE Trips'
  <2>1. PICK k \in Nat : Issued(s, CallMsg(0, k)) /\ CallMsg(0, k) \in ClientMessages
    BY <1>5, CallFacts
  <2>2. UNCHANGED <<s2c, ahead, cSent, cAckd>>
    BY <1>5, CallFacts
  <2>3. CallMsg(0, k).type # "trip"
    BY DEF CallMsg
  <2> QED BY <2>1, <2>2, <2>3, TripsIssued, TripsKept DEF Issued
<1>6. ASSUME NEW s \in Seqs, MakeObject(s) PROVE Trips'
  <2>1. /\ Issued(s, MakeMsg(0, cSeq + 1)) /\ MakeMsg(0, cSeq + 1) \in ClientMessages
        /\ UNCHANGED <<s2c, ahead, cSent, cAckd>>
    BY <1>6, MakeObjectFacts
  <2>2. MakeMsg(0, cSeq + 1).type # "trip"
    BY DEF MakeMsg
  <2> QED BY <2>1, <2>2, TripsIssued, TripsKept DEF Issued
<1>7. ASSUME NEW s \in Seqs, DropHandle(s) PROVE Trips'
  <2>1. Drops(s) /\ UNCHANGED <<s2c, ahead, cSent, cAckd>>
    BY <1>7, DropHandleFacts
  <2> QED BY <2>1, TripsSent, TripsKept DEF Drops, DestroyMsg
<1> QED BY <1>1, <1>2, <1>3, <1>4, <1>5, <1>6, <1>7 DEF SendingStep

\* What the client's part of a step leaves alone, in the parts' variables.
LEMMA ServersOwn ==
  ASSUME ClientStep
  PROVE  UNCHANGED <<sObj, sListed, sDestroyed, sDtor, sState, sSlot, sSpent, sLast>>
  BY ClientLeaves DEF svars, sObjects, sControl, sHistory

LEMMA ClientsOwn ==
  ASSUME ServerStep
  PROVE  /\ UNCHANGED <<cSeq, cId, cListed, cHeld, cQueue, cPending, cpc, cCur, cCurLast>>
         /\ UNCHANGED <<cSent, cAckd, cCalls, cError, cShut>>
  BY ServerLeaves DEF cvars, cAsked, cObjects, cDeferred, cFailed, cControl, cWaits

\* Every step.
LEMMA TripsStep ==
  ASSUME IInv, Trips, ShutIsOver, Next
  PROVE  Trips'
<1>1. CASE ClientStep
  <2>1. UNCHANGED sSlot
    BY <1>1, ServersOwn
  <2>2. CASE QuietStep
    BY <2>1, <2>2, QuietFacts, TripsKept
  <2>3. CASE TakeDeferred
    BY <2>1, <2>3, TakeDeferredFacts, TripsKept
  <2>4. CASE ReceivingStep
    BY <2>1, <2>4, ReceivingFacts, TripsReceived
  <2>5. CASE ClientExits
    <3>1. s2c' = <<>> /\ UNCHANGED <<c2s, ahead, cSent, cAckd>>
      BY <2>5, ExitFacts
    <3>2. ReplyTaken
      BY <3>1, Typed DEF ReplyTaken
    <3> QED BY <2>1, <3>1, <3>2, TripsReceived
  <2>6. CASE SendingStep
    BY <2>1, <2>6, TripsSending
  <2> QED BY <1>1, <2>2, <2>3, <2>4, <2>5, <2>6, ClientSplit
<1>2. CASE ServerStep
  BY <1>2, ClientsOwn, ServerSplit, TripsHandled, TripsClosing
<1> QED BY <1>1, <1>2, StepsSplit

-----------------------------------------------------------------------------
(* What is resolved, and what waits. *)

\* The phases of dispatch_events outside the handling of messages.
Calm == {"app", "collect", "wait", "flush", "sweep"}

LEMMA QuietControl ==
  ASSUME QuietStep
  PROVE  /\ cpc # "exited"
         /\ (cpc' \in Calm => cpc \in Calm)
         /\ (cpc' \notin {"flush", "exited"} => cpc # "flush" \/ cPending = <<>>)
         /\ (cpc' = "handler" => cpc = "handler" /\ cCur' = cCur)
         /\ \/ cListed' = cListed
            \/ cpc = "handler" /\ cCurLast /\ cListed' = cListed \ {cCur}
         /\ cCurLast' \in {FALSE, cCurLast}
<1>1. CASE WaitReturns \/ WaitFails \/ ClientReadsEnd
  BY <1>1 DEF WaitReturns, WaitFails, ClientReadsEnd, cObjects, cControl, Calm
<1>2. CASE Dispatch \/ CollectDone \/ NoTraffic \/ ClientReads \/ HandlerBlocks
  BY <1>2 DEF Dispatch, CollectDone, NoTraffic, ClientReads, HandlerBlocks, cObjects, Calm
<1>3. CASE KeepProxy \/ FlushDone
  BY <1>3 DEF KeepProxy, FlushDone, cObjects, cControl, Calm
<1>4. CASE HandlerReturns
  BY <1>4 DEF HandlerReturns, Calm
<1> QED BY <1>1, <1>2, <1>3, <1>4 DEF QuietStep

\* A sending step leaves the client where it is, and lists what it asks for.
LEMMA SendingControl ==
  ASSUME IInv, SendingStep
  PROVE  /\ UNCHANGED <<s2c, cId, cpc, cCur, cCurLast, cError, cShut>>
         /\ \/ UNCHANGED <<cSeq, cListed>>
            \/ cSeq' = cSeq + 1 /\ cListed' = cListed \cup {cSeq + 1}
            \/ /\ cpc \in {"collect", "sweep"} /\ cSeq' = cSeq
               /\ \E s \in Seqs : cId[s] # 0 /\ cListed' = cListed \ {s}
<1>1. CASE Bind
  BY <1>1, BindFacts
<1>2. CASE Roundtrip
  BY <1>2, RoundtripFacts
<1>3. CASE CollectOne
  BY <1>3, CollectFacts
<1>4. CASE FlushOne
  BY <1>4, FlushOneFacts
<1>5. ASSUME NEW s \in Seqs, Call(s) \/ MakeObject(s) \/ DropHandle(s)
      PROVE  /\ UNCHANGED <<s2c, cId, cpc, cCur, cCurLast, cError, cShut>>
             /\ \/ UNCHANGED <<cSeq, cListed>>
                \/ cSeq' = cSeq + 1 /\ cListed' = cListed \cup {cSeq + 1}
  BY <1>5, CallFacts, MakeObjectFacts, DropHandleFacts
<1> QED BY <1>1, <1>2, <1>3, <1>4, <1>5 DEF SendingStep

\* The ids after one arrived.
LEMMA IdArrives ==
  ASSUME IInv, NEW s, NEW o, cId' = OnSeq(s, o)
  PROVE  \A t \in Seqs : cId'[t] = cId[t] \/ (t = s /\ s \in cListed /\ cId'[t] = o)
  BY Typed DEF OnSeq

\* A message to the client, put or taken.
RepliesName == \A k \in 1..Len(s2c) : s2c[k].type \in {"event", "gone", "new"} => s2c[k].obj # 0

LEMMA RepliesNameStep ==
  ASSUME IInv, RepliesName, Next
  PROVE  RepliesName'
<1>1. CASE s2c' = s2c
  BY <1>1 DEF RepliesName
<1>2. CASE ReplyTaken
  BY <1>2 DEF RepliesName, ReplyTaken
<1>3. CASE s2c' = <<>>
  BY <1>3 DEF RepliesName
<1>4. ASSUME NEW m, Replies(m), m.type \in {"event", "gone", "new"} => m.obj # 0
      PROVE  RepliesName'
  <2> SUFFICES ASSUME NEW k \in 1..Len(s2c'), s2c'[k].type \in {"event", "gone", "new"}
               PROVE  s2c'[k].obj # 0
    BY DEF RepliesName
  <2> QED BY <1>4, RepliesHold DEF RepliesName
<1>5. CASE ClientStep
  <2>1. s2c' = s2c \/ ReplyTaken \/ s2c' = <<>>
    BY <1>5, ClientSplit, QuietFacts, TakeDeferredFacts, ReceivingFacts, ExitFacts, SendingControl
  <2> QED BY <1>1, <1>2, <1>3, <2>1
<1>6. CASE HandlingStep
  <2>1. s2c' = s2c \/ \E s : Replies(NewMsg(Len(sObj) + 1, s))
    BY <1>6, HandlingFacts DEF Creates
  <2>2. Len(sObj) + 1 # 0
    BY Typed
  <2>3. \A s : NewMsg(Len(sObj) + 1, s).obj # 0
    BY <2>2 DEF NewMsg
  <2> QED BY <1>1, <1>4, <2>1, <2>3
<1>7. CASE ClosingStep
  <2>1. \/ s2c' = s2c
        \/ Replies(DoneMsg(sSlot))
        \/ \E o \in 1..Len(sObj) : Replies(EventMsg(o)) \/ Replies(FatalMsg(o)) \/ Replies(GoneMsg(o))
    BY <1>7, ClosingFacts
  <2>2. \A o \in 1..Len(sObj) : EventMsg(o).obj # 0 /\ FatalMsg(o).obj # 0 /\ GoneMsg(o).obj # 0
    BY DEF EventMsg, FatalMsg, GoneMsg
  <2>3. DoneMsg(sSlot).type = "done"
    BY DEF DoneMsg
  <2> QED BY <1>1, <1>4, <2>1, <2>2, <2>3
<1> QED BY <1>5, <1>6, <1>7, StepsSplit, ServerSplit

LEMMA ResolvedStep ==
  ASSUME IInv, Resolved, Next
  PROVE  Resolved'
<1>1. RepliesName'
  BY RepliesNameStep DEF Resolved, RepliesName
<1> SUFFICES /\ \A s \in 1..cSeq' : s \notin cListed' => cId'[s] # 0
             /\ cpc' = "handler" => cId'[cCur'] # 0
  BY <1>1 DEF Resolved, RepliesName
<1>2. /\ \A s \in 1..cSeq : s \notin cListed => cId[s] # 0
      /\ cpc = "handler" => cId[cCur] # 0
      /\ \A k \in 1..Len(s2c) : s2c[k].type \in {"event", "gone", "new"} => s2c[k].obj # 0
  BY DEF Resolved
<1>3. cSeq \in Nat /\ 1..cSeq \subseteq Seqs /\ cListed \subseteq 1..cSeq /\ (cpc = "handler" => cCur \in cListed)
  BY Typed
<1>4. CASE QuietStep
  <2>1. UNCHANGED <<cSeq, cId>>
    BY <1>4, QuietFacts
  <2> QED BY <1>2, <1>4, <2>1, QuietControl
<1>5. CASE TakeDeferred
  BY <1>2, <1>5, TakeDeferredFacts
<1>6. CASE ClientExits
  BY <1>2, <1>6, ExitFacts
<1>7. CASE SendingStep
  <2>1. UNCHANGED <<cId, cpc, cCur>>
    BY <1>7, SendingControl
  <2>2. ASSUME NEW s \in 1..cSeq', s \notin cListed' PROVE cId[s] # 0
    <3>1. CASE UNCHANGED <<cSeq, cListed>>
      BY <1>2, <2>2, <3>1
    <3>2. CASE cSeq' = cSeq + 1 /\ cListed' = cListed \cup {cSeq + 1}
      BY <1>2, <1>3, <2>2, <3>2
    <3>3. CASE cSeq' = cSeq /\ \E t \in Seqs : cId[t] # 0 /\ cListed' = cListed \ {t}
      BY <1>2, <2>2, <3>3
    <3> QED BY <1>7, <3>1, <3>2, <3>3, SendingControl
  <2> QED BY <1>2, <2>1, <2>2
<1>8. CASE ReceivingStep
  <2>1. UNCHANGED <<cSeq, cListed>> /\ 1 \in 1..Len(s2c) /\ cpc = "batch"
    BY <1>8, ReceivingFacts
  <2>2. CASE s2c[1].type = "new" /\ cId' = OnSeq(s2c[1].seq, s2c[1].obj) /\ UNCHANGED <<cpc, cCur>>
    <3>1. s2c[1].obj # 0
      BY <1>2, <2>1, <2>2
    <3>2. \A t \in Seqs : cId'[t] = cId[t] \/ cId'[t] = s2c[1].obj
      BY <2>2, IdArrives
    <3> QED BY <1>2, <1>3, <2>1, <2>2, <3>1, <3>2
  <2>3. CASE s2c[1].type \in {"event", "gone"} /\ cId[cCur'] = s2c[1].obj /\ cId' = cId
    BY <1>2, <2>1, <2>3
  <2>4. CASE UNCHANGED <<cId, cpc, cCur>>
    BY <1>2, <2>1, <2>4
  <2> QED BY <1>8, <2>2, <2>3, <2>4, ReceivingFacts
<1>9. CASE ServerStep
  BY <1>2, <1>9, ClientsOwn
<1> QED BY <1>4, <1>5, <1>6, <1>7, <1>8, <1>9, StepsSplit, ClientSplit

LEMMA ShutStep ==
  ASSUME IInv, ShutIsOver, Next
  PROVE  ShutIsOver'
<1>1. CASE QuietStep
  BY <1>1, QuietFacts, QuietControl DEF ShutIsOver
<1>2. CASE TakeDeferred
  BY <1>2, TakeDeferredFacts DEF ShutIsOver
<1>3. CASE ClientExits
  BY <1>3, ExitFacts DEF ShutIsOver
<1>4. CASE SendingStep
  BY <1>4, SendingControl DEF ShutIsOver
<1>5. CASE ReceivingStep
  BY <1>5, ReceivingFacts DEF ShutIsOver
<1>6. CASE ServerStep
  BY <1>6, ClientsOwn DEF ShutIsOver
<1> QED BY <1>1, <1>2, <1>3, <1>4, <1>5, <1>6, StepsSplit, ClientSplit

\* What a sending step does to the deferred calls.
LEMMA SendingQueues ==
  ASSUME IInv, Resolved, SendingStep
  PROVE  /\ \/ cQueue' = cQueue
            \/ \E d : /\ Deferring(d) /\ cId[d.dep] = 0 /\ d.dep \in cListed
                      /\ cpc \in {"app", "flush"}
         /\ cPending' = cPending \/ (PendingTaken /\ cpc = "flush")
<1>1. CASE Bind
  BY <1>1, BindFacts
<1>2. CASE Roundtrip
  BY <1>2, RoundtripFacts
<1>3. CASE CollectOne
  BY <1>3, CollectFacts
<1>4. CASE FlushOne
  BY <1>4, FlushOneFacts DEF Resolved
<1>5. ASSUME NEW s \in Seqs, NEW m, Issued(s, m), s \in 1..cSeq
      PROVE  \/ cQueue' = cQueue
             \/ \E d : /\ Deferring(d) /\ cId[d.dep] = 0 /\ d.dep \in cListed
                       /\ cpc \in {"app", "flush"}
  <2>1. Deferred(s, m).dep = s
    BY DEF Deferred
  <2> QED BY <1>5, <2>1 DEF Issued, Resolved
<1>6. ASSUME NEW s \in Seqs, Call(s)
      PROVE  cPending' = cPending /\ s \in 1..cSeq /\ \E m : Issued(s, m)
  BY <1>6, CallFacts
<1>7. ASSUME NEW s \in Seqs, MakeObject(s)
      PROVE  cPending' = cPending /\ s \in 1..cSeq /\ \E m : Issued(s, m)
  BY <1>7, MakeObjectFacts
<1>8. ASSUME NEW s \in Seqs, DropHandle(s)
      PROVE  UNCHANGED <<cQueue, cPending>>
  BY <1>8, DropHandleFacts
<1> QED BY <1>1, <1>2, <1>3, <1>4, <1>5, <1>6, <1>7, <1>8 DEF SendingStep

LEMMA DeferredWaitStep ==
  ASSUME IInv, Resolved, DeferredWait, Next
  PROVE  DeferredWait'
<1>1. /\ cpc \in Calm => \A i \in 1..Len(cQueue) : cId[cQueue[i].dep] = 0
      /\ cpc \notin {"flush", "exited"} => cPending = <<>>
  BY DEF DeferredWait, Calm
<1> SUFFICES /\ cpc' \in Calm => \A i \in 1..Len(cQueue') : cId'[cQueue'[i].dep] = 0
             /\ cpc' \notin {"flush", "exited"} => cPending' = <<>>
  BY DEF DeferredWait, Calm
<1>2. CASE QuietStep
  BY <1>1, <1>2, QuietFacts, QuietControl DEF Calm
<1>3. CASE TakeDeferred
  BY <1>3, TakeDeferredFacts
<1>4. CASE ClientExits
  BY <1>4, ExitFacts DEF Calm
<1>5. CASE SendingStep
  <2>1. UNCHANGED <<cId, cpc>>
    BY <1>5, SendingControl
  <2>2. cpc' \notin {"flush", "exited"} => cPending' = <<>>
    BY <1>1, <1>5, <2>1, SendingQueues
  <2>3. ASSUME cpc \in Calm, NEW i \in 1..Len(cQueue') PROVE cId[cQueue'[i].dep] = 0
    <3>1. CASE cQueue' = cQueue
      BY <1>1, <2>3, <3>1
    <3>2. ASSUME NEW d, Deferring(d), cId[d.dep] = 0 PROVE cId[cQueue'[i].dep] = 0
      BY <1>1, <2>3, <3>2 DEF Deferring
    <3> QED BY <1>5, <3>1, <3>2, SendingQueues
  <2> QED BY <2>1, <2>2, <2>3
<1>6. CASE ReceivingStep
  BY <1>1, <1>6, ReceivingFacts DEF Calm
<1>7. CASE ServerStep
  BY <1>1, <1>7, ClientsOwn
<1> QED BY <1>2, <1>3, <1>4, <1>5, <1>6, <1>7, StepsSplit, ClientSplit

-----------------------------------------------------------------------------
(* An object is answered once. *)

\* Its parts: the answers on their way differ, and their objects wait for them.
AnswersDiffer ==
  \A k, l \in 1..Len(s2c) :
    s2c[k].type = "new" /\ s2c[l].type = "new" /\ s2c[k].seq = s2c[l].seq => k = l
AnswersAwaited == \A k \in 1..Len(s2c) : s2c[k].type = "new" => cId[s2c[k].seq] = 0

\* Nothing is answered.
LEMMA AnswersKept ==
  ASSUME AnsweredOnce, NEW m, m.type # "new", s2c' = s2c \/ Replies(m), UNCHANGED cId
  PROVE  AnsweredOnce'
<1>1. ASSUME NEW k \in 1..Len(s2c'), s2c'[k].type = "new"
      PROVE  k \in 1..Len(s2c) /\ s2c'[k] = s2c[k]
  BY <1>1, RepliesHold
<1> QED BY <1>1 DEF AnsweredOnce

\* The client takes a message, and no id.
LEMMA AnswersTaken ==
  ASSUME AnsweredOnce, ReplyTaken, UNCHANGED cId
  PROVE  AnsweredOnce'
<1>1. ASSUME NEW k \in 1..Len(s2c')
      PROVE  k + 1 \in 1..Len(s2c) /\ s2c'[k] = s2c[k + 1] /\ k \in Nat
  BY DEF ReplyTaken
<1>2. AnswersDiffer'
  <2> SUFFICES ASSUME NEW k \in 1..Len(s2c'), NEW l \in 1..Len(s2c'),
                      s2c'[k].type = "new", s2c'[l].type = "new", s2c'[k].seq = s2c'[l].seq
               PROVE  k = l
    BY DEF AnswersDiffer
  <2>1. k + 1 = l + 1
    BY <1>1 DEF AnsweredOnce
  <2> QED BY <1>1, <2>1
<1>3. AnswersAwaited'
  BY <1>1 DEF AnsweredOnce, AnswersAwaited
<1> QED BY <1>2, <1>3 DEF AnsweredOnce, AnswersDiffer, AnswersAwaited

\* The client takes an id: no other answer is for the same object.
LEMMA IdTaken ==
  ASSUME IInv, AnsweredOnce, ReplyTaken, 1 \in 1..Len(s2c), s2c[1].type = "new",
         cId' = OnSeq(s2c[1].seq, s2c[1].obj)
  PROVE  AnsweredOnce'
<1>1. ASSUME NEW k \in 1..Len(s2c')
      PROVE  k + 1 \in 1..Len(s2c) /\ s2c'[k] = s2c[k + 1] /\ k \in Nat /\ k + 1 # 1
  BY DEF ReplyTaken
<1>2. AnswersDiffer'
  <2> SUFFICES ASSUME NEW k \in 1..Len(s2c'), NEW l \in 1..Len(s2c'),
                      s2c'[k].type = "new", s2c'[l].type = "new", s2c'[k].seq = s2c'[l].seq
               PROVE  k = l
    BY DEF AnswersDiffer
  <2>1. k + 1 = l + 1
    BY <1>1 DEF AnsweredOnce
  <2> QED BY <1>1, <2>1
<1>3. AnswersAwaited'
  <2> SUFFICES ASSUME NEW k \in 1..Len(s2c'), s2c'[k].type = "new"
               PROVE  cId'[s2c'[k].seq] = 0
    BY DEF AnswersAwaited
  <2>1. cId[s2c[k + 1].seq] = 0 /\ s2c[k + 1].seq # s2c[1].seq
    BY <1>1 DEF AnsweredOnce
  <2>2. s2c[k + 1].seq \in Seqs
    <3>1. s2c[k + 1].obj \in 1..Len(sObj) /\ sObj[s2c[k + 1].obj].seq = s2c[k + 1].seq
      BY <1>1 DEF IInv, Links, IdLinks, NewInFlight
    <3> QED BY <3>1, Typed
  <2>3. cId'[s2c[k + 1].seq] = 0
    BY <2>1, <2>2, IdArrives
  <2> QED BY <1>1, <2>3
<1> QED BY <1>2, <1>3 DEF AnsweredOnce, AnswersDiffer, AnswersAwaited

\* The server makes an object for a seq it made none for.
LEMMA AnswerSent ==
  ASSUME IInv, AnsweredOnce, NEW s \in Seqs, NEW o, Replies(NewMsg(o, s)), UNCHANGED cId,
         \A p \in 1..Len(sObj) : sObj[p].seq # s
  PROVE  AnsweredOnce'
<1>1. \A k \in 1..Len(s2c) : s2c[k].type = "new" => s2c[k].seq # s
  BY DEF IInv, Links, IdLinks, NewInFlight
<1>2. cId[s] = 0
  BY DEF IInv, Links, IdLinks, Agreement
<1>3. CASE s2c' = s2c
  BY <1>3 DEF AnsweredOnce
<1>4. CASE ReplyPut(NewMsg(o, s))
  <2>1. ASSUME NEW k \in 1..Len(s2c')
        PROVE  \/ k \in 1..Len(s2c) /\ s2c'[k] = s2c[k]
               \/ k = Len(s2c) + 1 /\ s2c'[k].seq = s
    BY <1>4 DEF ReplyPut, NewMsg
  <2>2. AnswersDiffer'
    BY <1>1, <2>1 DEF AnsweredOnce, AnswersDiffer
  <2>3. AnswersAwaited'
    BY <1>2, <2>1 DEF AnsweredOnce, AnswersAwaited
  <2> QED BY <2>2, <2>3 DEF AnsweredOnce, AnswersDiffer, AnswersAwaited
<1> QED BY <1>3, <1>4 DEF Replies

LEMMA AnsweredStep ==
  ASSUME IInv, AnsweredOnce, AskedOnce, Next
  PROVE  AnsweredOnce'
<1>1. CASE s2c' = s2c /\ cId' = cId
  BY <1>1 DEF AnsweredOnce
<1>2. CASE ClientStep
  <2>1. CASE ReceivingStep
    BY <2>1, ReceivingFacts, IdTaken, AnswersTaken
  <2>2. CASE ClientExits
    <3>1. s2c' = <<>> /\ cId' = cId
      BY <2>2, ExitFacts
    <3>2. ReplyTaken
      BY <3>1, Typed DEF ReplyTaken
    <3> QED BY <3>1, <3>2, AnswersTaken
  <2> QED BY <1>1, <1>2, <2>1, <2>2, ClientSplit, QuietFacts, TakeDeferredFacts, SendingControl
<1>3. CASE HandlingStep
  <2>1. cId' = cId
    BY <1>3, ClientsOwn DEF HandlingStep, ServerStep, ServerDispatch
  <2>2. CASE c2s[1].type \in {"bind", "make"} /\ Creates(c2s[1].seq)
    <3>1. 1 \in 1..Len(c2s)
      BY <1>3, HandlingFacts
    <3>2. c2s[1].seq \in 1..cSeq
      BY <2>2, <3>1 DEF IInv, Links, StreamLinks, SeqsGivenOut
    <3>3. c2s[1].seq \in Seqs
      BY <3>2, Typed
    <3>4. \A p \in 1..Len(sObj) : sObj[p].seq # c2s[1].seq
      BY <2>2, <3>1 DEF AskedOnce, StreamOnce, AsksFor
    <3> QED BY <2>1, <2>2, <3>3, <3>4, AnswerSent DEF Creates
  <2> QED BY <1>1, <1>3, <2>1, <2>2, HandlingFacts
<1>4. CASE ClosingStep
  <2>1. cId' = cId
    BY <1>4, ClientsOwn DEF ClosingStep, ServerStep, ServerDispatch
  <2>2. \/ s2c' = s2c \/ Replies(DoneMsg(sSlot))
        \/ \E o \in 1..Len(sObj) : Replies(EventMsg(o)) \/ Replies(FatalMsg(o)) \/ Replies(GoneMsg(o))
    BY <1>4, ClosingFacts
  <2>3. /\ DoneMsg(sSlot).type # "new"
        /\ \A o : EventMsg(o).type # "new" /\ FatalMsg(o).type # "new" /\ GoneMsg(o).type # "new"
    BY DEF EventMsg, FatalMsg, GoneMsg, DoneMsg
  <2> QED BY <1>1, <2>1, <2>2, <2>3, AnswersKept
<1> QED BY <1>2, <1>3, <1>4, StepsSplit, ServerSplit

-----------------------------------------------------------------------------
(* An object is asked for once. *)

\* What r holds, q held, in the same order.
Keeps(q, r) ==
  \E d \in {0, 1} : \A i \in 1..Len(r) : i \in Nat /\ i + d \in 1..Len(q) /\ r[i] = q[i + d]

\* An object was made for s.
Made(s) == \E o \in 1..Len(sObj) : sObj[o].seq = s

\* The streams and the queues only get shorter.
LEMMA KeepsFacts ==
  ASSUME NEW q, Len(q) \in Nat
  PROVE  Keeps(q, q) /\ Keeps(q, <<>>)
<1>1. Keeps(q, q)
  <2>1. \A i \in 1..Len(q) : i \in Nat /\ i + 0 \in 1..Len(q) /\ q[i] = q[i + 0]
    OBVIOUS
  <2> QED BY <2>1 DEF Keeps
<1>2. Keeps(q, <<>>)
  BY DEF Keeps
<1> QED BY <1>1, <1>2

LEMMA TakenKeeps ==
  ASSUME Taken
  PROVE  Keeps(c2s, c2s')
<1>1. \A i \in 1..Len(c2s') : i \in Nat /\ i + 1 \in 1..Len(c2s) /\ c2s'[i] = c2s[i + 1]
  BY DEF Taken
<1> QED BY <1>1 DEF Keeps

LEMMA PendingKeeps ==
  ASSUME PendingTaken
  PROVE  /\ Keeps(cPending, cPending')
         /\ \A i \in 1..Len(cPending') : i + 1 \in 1..Len(cPending) /\ i + 1 # 1
                                         /\ cPending'[i] = cPending[i + 1]
<1>1. \A i \in 1..Len(cPending') : i \in Nat /\ i + 1 \in 1..Len(cPending) /\ i + 1 # 1
                                   /\ cPending'[i] = cPending[i + 1]
  BY DEF PendingTaken
<1> QED BY <1>1 DEF Keeps

\* Nothing is asked for.
LEMMA StreamOnceFewer ==
  ASSUME StreamOnce, Keeps(c2s, c2s'), UNCHANGED sObj
  PROVE  StreamOnce'
<1>1. PICK d \in {0, 1} : \A i \in 1..Len(c2s') :
        i \in Nat /\ i + d \in 1..Len(c2s) /\ c2s'[i] = c2s[i + d]
  BY DEF Keeps
<1>2. ASSUME NEW i \in 1..Len(c2s'), NEW j \in 1..Len(c2s'), NEW s \in Seqs,
             AsksFor(c2s'[i], s), AsksFor(c2s'[j], s)
      PROVE  i = j
  <2>1. i + d = j + d
    BY <1>1, <1>2 DEF StreamOnce
  <2> QED BY <1>1, <2>1
<1>3. \A i \in 1..Len(c2s') : \A o \in 1..Len(sObj) : ~AsksFor(c2s'[i], sObj[o].seq)
  BY <1>1 DEF StreamOnce
<1> QED BY <1>2, <1>3 DEF StreamOnce, AsksFor

LEMMA DeferredOnceFewer ==
  ASSUME NEW q, NEW r, DeferredOnce(q), Keeps(q, r), Keeps(c2s, c2s'), UNCHANGED sObj
  PROVE  /\ \A i, j \in 1..Len(r) : \A s \in Seqs :
              AsksFor(r[i].msg, s) /\ AsksFor(r[j].msg, s) => i = j
         /\ \A i \in 1..Len(r) : \A o \in 1..Len(sObj') : ~AsksFor(r[i].msg, sObj'[o].seq)
         /\ \A i \in 1..Len(r) : \A j \in 1..Len(c2s') : \A s \in Seqs :
              ~(AsksFor(r[i].msg, s) /\ AsksFor(c2s'[j], s))
<1>1. PICK d \in {0, 1} : \A i \in 1..Len(r) : i \in Nat /\ i + d \in 1..Len(q) /\ r[i] = q[i + d]
  BY DEF Keeps
<1>2. PICK e \in {0, 1} : \A i \in 1..Len(c2s') :
        i \in Nat /\ i + e \in 1..Len(c2s) /\ c2s'[i] = c2s[i + e]
  BY DEF Keeps
<1>3. ASSUME NEW i \in 1..Len(r), NEW j \in 1..Len(r), NEW s \in Seqs,
             AsksFor(r[i].msg, s), AsksFor(r[j].msg, s)
      PROVE  i = j
  <2>1. i + d = j + d
    BY <1>1, <1>3 DEF DeferredOnce
  <2> QED BY <1>1, <2>1
<1>4. \A i \in 1..Len(r) : \A o \in 1..Len(sObj') : ~AsksFor(r[i].msg, sObj'[o].seq)
  BY <1>1 DEF DeferredOnce
<1>5. ASSUME NEW i \in 1..Len(r), NEW j \in 1..Len(c2s'), NEW s \in Seqs
      PROVE  ~(AsksFor(r[i].msg, s) /\ AsksFor(c2s'[j], s))
  BY <1>1, <1>2 DEF DeferredOnce
<1> QED BY <1>3, <1>4, <1>5

LEMMA AskedFewer ==
  ASSUME AskedOnce, Keeps(c2s, c2s'), Keeps(cQueue, cQueue'), Keeps(cPending, cPending'),
         UNCHANGED sObj
  PROVE  AskedOnce'
<1>1. StreamOnce'
  BY StreamOnceFewer DEF AskedOnce
<1>2. DeferredOnce(cQueue)' /\ DeferredOnce(cPending)'
  BY DeferredOnceFewer DEF AskedOnce, DeferredOnce, AsksFor
<1>3. ASSUME NEW i \in 1..Len(cQueue'), NEW j \in 1..Len(cPending'), NEW s \in Seqs
      PROVE  ~(AsksFor(cQueue'[i].msg, s) /\ AsksFor(cPending'[j].msg, s))
  <2>1. PICK k \in 1..Len(cQueue) : cQueue'[i] = cQueue[k]
    BY DEF Keeps
  <2>2. PICK l \in 1..Len(cPending) : cPending'[j] = cPending[l]
    BY DEF Keeps
  <2> QED BY <2>1, <2>2 DEF AskedOnce
<1> QED BY <1>1, <1>2, <1>3 DEF AskedOnce, AsksFor

\* A message is sent: what it asks for, nothing else does.
LEMMA AskedSent ==
  ASSUME IInv, AskedOnce, NEW m, Sent(m), Keeps(cQueue, cQueue'), Keeps(cPending, cPending'),
         UNCHANGED sObj,
         \A s \in Seqs : AsksFor(m, s) =>
           /\ ~StreamAsks(s) /\ ~Made(s)
           /\ ~DeferredAsks(cQueue', s) /\ ~DeferredAsks(cPending', s)
  PROVE  AskedOnce'
<1>1. ASSUME NEW i \in 1..Len(c2s')
      PROVE  (i \in 1..Len(c2s) /\ c2s'[i] = c2s[i]) \/ (i = Len(c2s) + 1 /\ c2s'[i] = m)
  BY DEF Sent
<1>2. StreamOnce'
  <2>1. ASSUME NEW i \in 1..Len(c2s'), NEW j \in 1..Len(c2s'), NEW s \in Seqs,
               AsksFor(c2s'[i], s), AsksFor(c2s'[j], s)
        PROVE  i = j
    BY <1>1, <2>1 DEF AskedOnce, StreamOnce, StreamAsks
  <2>2. ASSUME NEW i \in 1..Len(c2s'), NEW o \in 1..Len(sObj)
        PROVE  ~AsksFor(c2s'[i], sObj[o].seq)
    <3>1. sObj[o].seq \in Seqs
      BY Typed
    <3> QED BY <1>1, <2>2, <3>1 DEF AskedOnce, StreamOnce, Made
  <2> QED BY <2>1, <2>2 DEF AskedOnce, StreamOnce, AsksFor
<1>3. ASSUME NEW q, NEW r, DeferredOnce(q), Keeps(q, r),
             \A s \in Seqs : AsksFor(m, s) => ~DeferredAsks(r, s)
      PROVE  /\ \A i, j \in 1..Len(r) : \A s \in Seqs :
                  AsksFor(r[i].msg, s) /\ AsksFor(r[j].msg, s) => i = j
             /\ \A i \in 1..Len(r) : \A o \in 1..Len(sObj') : ~AsksFor(r[i].msg, sObj'[o].seq)
             /\ \A i \in 1..Len(r) : \A j \in 1..Len(c2s') : \A s \in Seqs :
                  ~(AsksFor(r[i].msg, s) /\ AsksFor(c2s'[j], s))
  <2>1. PICK d \in {0, 1} :
          \A i \in 1..Len(r) : i \in Nat /\ i + d \in 1..Len(q) /\ r[i] = q[i + d]
    BY <1>3 DEF Keeps
  <2>2. ASSUME NEW i \in 1..Len(r), NEW j \in 1..Len(r), NEW s \in Seqs,
               AsksFor(r[i].msg, s), AsksFor(r[j].msg, s)
        PROVE  i = j
    <3>1. i + d = j + d
      BY <1>3, <2>1, <2>2 DEF DeferredOnce
    <3> QED BY <2>1, <3>1
  <2>3. \A i \in 1..Len(r) : \A o \in 1..Len(sObj') : ~AsksFor(r[i].msg, sObj'[o].seq)
    BY <1>3, <2>1 DEF DeferredOnce
  <2>4. ASSUME NEW i \in 1..Len(r), NEW j \in 1..Len(c2s'), NEW s \in Seqs
        PROVE  ~(AsksFor(r[i].msg, s) /\ AsksFor(c2s'[j], s))
    BY <1>1, <1>3, <2>1 DEF DeferredOnce, DeferredAsks
  <2> QED BY <2>2, <2>3, <2>4
<1>4. DeferredOnce(cQueue)' /\ DeferredOnce(cPending)'
  BY <1>3 DEF AskedOnce, DeferredOnce, AsksFor
<1>5. ASSUME NEW i \in 1..Len(cQueue'), NEW j \in 1..Len(cPending'), NEW s \in Seqs
      PROVE  ~(AsksFor(cQueue'[i].msg, s) /\ AsksFor(cPending'[j].msg, s))
  <2>1. PICK k \in 1..Len(cQueue) : cQueue'[i] = cQueue[k]
    BY DEF Keeps
  <2>2. PICK l \in 1..Len(cPending) : cPending'[j] = cPending[l]
    BY DEF Keeps
  <2> QED BY <2>1, <2>2 DEF AskedOnce
<1> QED BY <1>2, <1>4, <1>5 DEF AskedOnce, AsksFor

\* A call is deferred: what it asks for, nothing else does.
LEMMA AskedDeferred ==
  ASSUME IInv, AskedOnce, NEW d, Deferring(d), Keeps(cPending, cPending'), UNCHANGED <<c2s, sObj>>,
         \A s \in Seqs : AsksFor(d.msg, s) =>
           /\ ~StreamAsks(s) /\ ~Made(s)
           /\ ~DeferredAsks(cQueue, s) /\ ~DeferredAsks(cPending', s)
  PROVE  AskedOnce'
<1>1. ASSUME NEW i \in 1..Len(cQueue')
      PROVE  \/ i \in 1..Len(cQueue) /\ cQueue'[i] = cQueue[i]
             \/ i = Len(cQueue) + 1 /\ cQueue'[i] = d
  BY DEF Deferring
<1>2. StreamOnce'
  BY DEF AskedOnce, StreamOnce, AsksFor
<1>3. Keeps(c2s, c2s')
  BY Typed, KeepsFacts
<1>4. DeferredOnce(cPending)'
  BY <1>3, DeferredOnceFewer DEF AskedOnce, DeferredOnce, AsksFor
<1>5. DeferredOnce(cQueue)'
  <2>1. ASSUME NEW i \in 1..Len(cQueue'), NEW j \in 1..Len(cQueue'), NEW s \in Seqs,
               AsksFor(cQueue'[i].msg, s), AsksFor(cQueue'[j].msg, s)
        PROVE  i = j
    BY <1>1, <2>1 DEF AskedOnce, DeferredOnce, DeferredAsks
  <2>2. ASSUME NEW i \in 1..Len(cQueue'), NEW o \in 1..Len(sObj)
        PROVE  ~AsksFor(cQueue'[i].msg, sObj[o].seq)
    <3>1. sObj[o].seq \in Seqs
      BY Typed
    <3> QED BY <1>1, <2>2, <3>1 DEF AskedOnce, DeferredOnce, Made
  <2>3. ASSUME NEW i \in 1..Len(cQueue'), NEW j \in 1..Len(c2s), NEW s \in Seqs
        PROVE  ~(AsksFor(cQueue'[i].msg, s) /\ AsksFor(c2s[j], s))
    BY <1>1 DEF AskedOnce, DeferredOnce, StreamAsks
  <2> QED BY <2>1, <2>2, <2>3 DEF DeferredOnce, AsksFor
<1>6. ASSUME NEW i \in 1..Len(cQueue'), NEW j \in 1..Len(cPending'), NEW s \in Seqs
      PROVE  ~(AsksFor(cQueue'[i].msg, s) /\ AsksFor(cPending'[j].msg, s))
  <2>1. PICK l \in 1..Len(cPending) : cPending'[j] = cPending[l]
    BY DEF Keeps
  <2> QED BY <1>1, <2>1 DEF AskedOnce, DeferredAsks
<1> QED BY <1>2, <1>4, <1>5, <1>6 DEF AskedOnce, AsksFor

\* The server takes a request and makes an object for it.
LEMMA AskedMade ==
  ASSUME IInv, AskedOnce, Taken, 1 \in 1..Len(c2s), c2s[1].type \in {"bind", "make"},
         Creates(c2s[1].seq), c2s[1].seq \in Seqs, UNCHANGED <<cQueue, cPending>>
  PROVE  AskedOnce'
<1> DEFINE t == c2s[1].seq
<1>1. AsksFor(c2s[1], t)
  BY DEF AsksFor
<1>2. ASSUME NEW o \in 1..Len(sObj')
      PROVE  \/ o \in 1..Len(sObj) /\ sObj'[o] = sObj[o]
             \/ o = Len(sObj) + 1 /\ sObj'[o].seq = t
  BY DEF Creates
<1>3. ASSUME NEW i \in 1..Len(c2s')
      PROVE  i \in Nat /\ i + 1 \in 1..Len(c2s) /\ c2s'[i] = c2s[i + 1] /\ ~AsksFor(c2s'[i], t)
  <2>1. i \in Nat /\ i + 1 \in 1..Len(c2s) /\ c2s'[i] = c2s[i + 1] /\ i + 1 # 1
    BY DEF Taken
  <2> QED BY <1>1, <2>1 DEF AskedOnce, StreamOnce
<1> HIDE DEF t
<1>4. StreamOnce'
  <2>1. ASSUME NEW i \in 1..Len(c2s'), NEW j \in 1..Len(c2s'), NEW s \in Seqs,
               AsksFor(c2s'[i], s), AsksFor(c2s'[j], s)
        PROVE  i = j
    <3>1. i + 1 = j + 1
      BY <1>3, <2>1 DEF AskedOnce, StreamOnce
    <3> QED BY <1>3, <3>1
  <2>2. \A i \in 1..Len(c2s') : \A o \in 1..Len(sObj') : ~AsksFor(c2s'[i], sObj'[o].seq)
    BY <1>2, <1>3 DEF AskedOnce, StreamOnce
  <2>3. \A o \in 1..Len(sObj) : sObj[o].seq # t
    BY <1>1 DEF AskedOnce, StreamOnce, AsksFor, t
  <2>4. \A o, p \in 1..Len(sObj') : sObj'[o].seq = sObj'[p].seq => o = p
    BY <1>2, <2>3 DEF AskedOnce, StreamOnce
  <2> QED BY <2>1, <2>2, <2>4 DEF StreamOnce, AsksFor
<1>5. ASSUME NEW q, DeferredOnce(q)
      PROVE  /\ \A i \in 1..Len(q) : \A o \in 1..Len(sObj') : ~AsksFor(q[i].msg, sObj'[o].seq)
             /\ \A i \in 1..Len(q) : \A j \in 1..Len(c2s') : \A s \in Seqs :
                  ~(AsksFor(q[i].msg, s) /\ AsksFor(c2s'[j], s))
  <2>1. \A i \in 1..Len(q) : ~AsksFor(q[i].msg, t)
    BY <1>1, <1>5 DEF DeferredOnce, t
  <2> QED BY <1>2, <1>3, <1>5, <2>1 DEF DeferredOnce
<1>6. DeferredOnce(cQueue)' /\ DeferredOnce(cPending)'
  BY <1>5, ZenonT(60) DEF AskedOnce, DeferredOnce, AsksFor
<1> QED BY <1>4, <1>6 DEF AskedOnce, AsksFor

\* Nothing has asked for the next seq.
LEMMA NextUnasked ==
  ASSUME IInv
  PROVE  /\ ~StreamAsks(cSeq + 1) /\ ~Made(cSeq + 1)
         /\ ~DeferredAsks(cQueue, cSeq + 1) /\ ~DeferredAsks(cPending, cSeq + 1)
<1>1. cSeq \in Nat /\ cSeq + 1 \notin 1..cSeq
  BY Typed
<1>2. /\ \A i \in 1..Len(cQueue) : cQueue[i].msg.type \in {"make", "call"}
                                   /\ (cQueue[i].msg.type = "make" => cQueue[i].msg.seq \in 1..cSeq)
      /\ \A i \in 1..Len(cPending) : cPending[i].msg.type \in {"make", "call"}
                                   /\ (cPending[i].msg.type = "make" => cPending[i].msg.seq \in 1..cSeq)
  BY DEF IInv, Links, QueueLinks, DeferredOK
<1>3. /\ \A i \in 1..Len(c2s) : c2s[i].type \in {"bind", "make"} => c2s[i].seq \in 1..cSeq
      /\ \A o \in 1..Len(sObj) : sObj[o].seq \in 1..cSeq
  BY DEF IInv, Links, StreamLinks, SeqsGivenOut
<1> QED BY <1>1, <1>2, <1>3 DEF StreamAsks, Made, DeferredAsks, AsksFor

\* A message that asks for what nothing asks for is written.
LEMMA AskedWritten ==
  ASSUME IInv, AskedOnce, NEW m, Writes(m), UNCHANGED <<cQueue, cPending, sObj>>,
         \A s \in Seqs : AsksFor(m, s) =>
           /\ ~StreamAsks(s) /\ ~Made(s)
           /\ ~DeferredAsks(cQueue, s) /\ ~DeferredAsks(cPending, s)
  PROVE  AskedOnce'
<1>1. Keeps(cQueue, cQueue') /\ Keeps(cPending, cPending') /\ Keeps(c2s, c2s)
  BY Typed, KeepsFacts
<1>2. CASE c2s' = c2s
  BY <1>1, <1>2, AskedFewer
<1>3. CASE Sent(m)
  BY <1>1, <1>3, AskedSent
<1> QED BY <1>2, <1>3 DEF Writes

\* So is one the client calls on an object, or it is deferred.
LEMMA AskedIssued ==
  ASSUME IInv, AskedOnce, NEW t \in Seqs, NEW m \in ClientMessages, Issued(t, m),
         UNCHANGED <<cPending, sObj>>,
         \A s \in Seqs : AsksFor(m, s) =>
           /\ ~StreamAsks(s) /\ ~Made(s)
           /\ ~DeferredAsks(cQueue, s) /\ ~DeferredAsks(cPending, s)
  PROVE  AskedOnce'
<1>1. CASE SendsOn(t, m) /\ cQueue' = cQueue
  <2>1. PICK n \in ClientMessages : n.type = m.type /\ n.seq = m.seq /\ Writes(n)
    BY <1>1 DEF SendsOn
  <2>2. \A s \in Seqs : AsksFor(n, s) => AsksFor(m, s)
    BY <2>1 DEF AsksFor
  <2> QED BY <1>1, <2>1, <2>2, AskedWritten
<1>2. CASE c2s' = c2s /\ Deferring(Deferred(t, m))
  <2>1. Deferred(t, m).msg = m
    BY DEF Deferred
  <2>2. Keeps(cPending, cPending')
    BY Typed, KeepsFacts
  <2> QED BY <1>2, <2>1, <2>2, AskedDeferred
<1> QED BY <1>1, <1>2 DEF Issued

\* The flush moves a request.
LEMMA AskedFlushed ==
  ASSUME IInv, AskedOnce, FlushOne, UNCHANGED sObj
  PROVE  AskedOnce'
<1> DEFINE d == cPending[1]
<1>1. /\ PendingTaken /\ d \in DeferredCalls
      /\ \/ UNCHANGED <<c2s, cQueue>>
         \/ c2s' = c2s /\ Deferring(d)
         \/ cQueue' = cQueue /\ SendsOn(d.dep, d.msg)
  BY FlushOneFacts
<1>2. 1 \in 1..Len(cPending) /\ Keeps(cPending, cPending')
  BY <1>1, PendingKeeps DEF PendingTaken
<1>3. Keeps(c2s, c2s) /\ Keeps(cQueue, cQueue)
  BY Typed, KeepsFacts
<1>4. ASSUME NEW s \in Seqs, AsksFor(d.msg, s)
      PROVE  /\ ~StreamAsks(s) /\ ~Made(s)
             /\ ~DeferredAsks(cQueue, s) /\ ~DeferredAsks(cPending', s)
  <2>1. ~StreamAsks(s)
    BY <1>2, <1>4 DEF AskedOnce, DeferredOnce, StreamAsks
  <2>2. ~Made(s)
    BY <1>2, <1>4 DEF AskedOnce, DeferredOnce, Made
  <2>3. ~DeferredAsks(cQueue, s)
    BY <1>2, <1>4 DEF AskedOnce, DeferredAsks
  <2>4. ASSUME NEW i \in 1..Len(cPending') PROVE ~AsksFor(cPending'[i].msg, s)
    <3>1. i + 1 \in 1..Len(cPending) /\ i + 1 # 1 /\ cPending'[i] = cPending[i + 1]
      BY <1>1, PendingKeeps
    <3> QED BY <1>2, <1>4, <3>1 DEF AskedOnce, DeferredOnce
  <2> QED BY <2>1, <2>2, <2>3, <2>4 DEF DeferredAsks
<1> HIDE DEF d
<1>5. CASE UNCHANGED <<c2s, cQueue>>
  BY <1>2, <1>3, <1>5, AskedFewer
<1>6. CASE c2s' = c2s /\ Deferring(d)
  BY <1>2, <1>4, <1>6, AskedDeferred
<1>7. CASE cQueue' = cQueue /\ SendsOn(d.dep, d.msg)
  <2>1. PICK n \in ClientMessages : n.type = d.msg.type /\ n.seq = d.msg.seq /\ Writes(n)
    BY <1>7 DEF SendsOn
  <2>2. \A s \in Seqs : AsksFor(n, s) => AsksFor(d.msg, s)
    BY <2>1 DEF AsksFor
  <2>3. CASE c2s' = c2s
    BY <1>2, <1>3, <1>7, <2>3, AskedFewer
  <2>4. CASE Sent(n)
    BY <1>2, <1>3, <1>4, <1>7, <2>2, <2>4, AskedSent
  <2> QED BY <2>1, <2>3, <2>4 DEF Writes
<1> QED BY <1>1, <1>5, <1>6, <1>7

\* The client's steps that send.
LEMMA AskedSending ==
  ASSUME IInv, AskedOnce, SendingStep, UNCHANGED sObj
  PROVE  AskedOnce'
<1>1. ASSUME NEW m, Writes(m), m.type \notin {"bind", "make"}, UNCHANGED <<cQueue, cPending>>
      PROVE  AskedOnce'
  <2>1. \A s \in Seqs : ~AsksFor(m, s)
    BY <1>1 DEF AsksFor
  <2> QED BY <1>1, <2>1, AskedWritten
<1>2. CASE Bind
  <2>1. Writes(BindMsg(cSeq + 1)) /\ UNCHANGED <<cQueue, cPending>>
    BY <1>2, BindFacts
  <2>2. \A s : AsksFor(BindMsg(cSeq + 1), s) => s = cSeq + 1
    BY DEF AsksFor, BindMsg
  <2> QED BY <2>1, <2>2, NextUnasked, AskedWritten
<1>3. CASE Roundtrip
  <2>1. Writes(TripMsg(cSent + 1)) /\ UNCHANGED <<cQueue, cPending>>
    BY <1>3, RoundtripFacts
  <2> QED BY <1>1, <2>1 DEF TripMsg
<1>4. ASSUME NEW s \in Seqs, Drops(s), UNCHANGED <<cQueue, cPending>> PROVE AskedOnce'
  <2>1. CASE c2s' = c2s
    <3>1. Keeps(cQueue, cQueue') /\ Keeps(cPending, cPending') /\ Keeps(c2s, c2s)
      BY <1>4, Typed, KeepsFacts
    <3> QED BY <2>1, <3>1, AskedFewer
  <2>2. CASE Writes(DestroyMsg(cId[s]))
    BY <1>1, <1>4, <2>2 DEF DestroyMsg
  <2> QED BY <1>4, <2>1, <2>2 DEF Drops
<1>5. CASE CollectOne
  BY <1>4, <1>5, CollectFacts
<1>6. CASE FlushOne
  BY <1>6, AskedFlushed
<1>7. ASSUME NEW s \in Seqs, Call(s) PROVE AskedOnce'
  <2>1. PICK k \in Nat : Issued(s, CallMsg(0, k)) /\ CallMsg(0, k) \in ClientMessages
    BY <1>7, CallFacts
  <2>2. cPending' = cPending
    BY <1>7, CallFacts
  <2>3. \A t : ~AsksFor(CallMsg(0, k), t)
    BY DEF AsksFor, CallMsg
  <2> QED BY <2>1, <2>2, <2>3, AskedIssued
<1>8. ASSUME NEW s \in Seqs, MakeObject(s) PROVE AskedOnce'
  <2>1. /\ Issued(s, MakeMsg(0, cSeq + 1)) /\ MakeMsg(0, cSeq + 1) \in ClientMessages
        /\ cPending' = cPending
    BY <1>8, MakeObjectFacts
  <2>2. \A t : AsksFor(MakeMsg(0, cSeq + 1), t) => t = cSeq + 1
    BY DEF AsksFor, MakeMsg
  <2> QED BY <2>1, <2>2, NextUnasked, AskedIssued
<1>9. ASSUME NEW s \in Seqs, DropHandle(s) PROVE AskedOnce'
  BY <1>4, <1>9, DropHandleFacts
<1> QED BY <1>2, <1>3, <1>5, <1>6, <1>7, <1>8, <1>9 DEF SendingStep

\* Every step.
LEMMA AskedStep ==
  ASSUME IInv, AskedOnce, DeferredWait, Next
  PROVE  AskedOnce'
<1>1. /\ Keeps(c2s, c2s) /\ Keeps(cQueue, cQueue) /\ Keeps(cPending, cPending)
      /\ Keeps(c2s, <<>>)
  BY Typed, KeepsFacts
<1>2. CASE ClientStep
  <2>1. UNCHANGED sObj
    BY <1>2, ServersOwn
  <2>2. CASE TakeDeferred
    <3>1. /\ cPending' = cQueue /\ cQueue' = <<>> /\ c2s' = c2s
      BY <2>2, TakeDeferredFacts
    <3>2. Len(cQueue') = 0
      BY <3>1
    <3>3. StreamOnce'
      BY <2>1, <3>1 DEF AskedOnce, StreamOnce, AsksFor
    <3>4. DeferredOnce(cPending)'
      BY <2>1, <3>1 DEF AskedOnce, DeferredOnce, AsksFor
    <3>5. DeferredOnce(cQueue)'
      BY <3>2 DEF DeferredOnce
    <3> QED BY <3>2, <3>3, <3>4, <3>5 DEF AskedOnce
  <2>3. CASE SendingStep
    BY <2>1, <2>3, AskedSending
  <2>4. CASE QuietStep \/ ReceivingStep \/ ClientExits
    <3>1. UNCHANGED <<c2s, cQueue, cPending>>
      BY <2>4, QuietFacts, ReceivingFacts, ExitFacts
    <3> QED BY <1>1, <2>1, <3>1, AskedFewer
  <2> QED BY <1>2, <2>2, <2>3, <2>4, ClientSplit
<1>3. CASE HandlingStep
  <2>1. UNCHANGED <<cQueue, cPending>>
    BY <1>3, ClientsOwn DEF HandlingStep, ServerStep, ServerDispatch
  <2>2. Taken /\ 1 \in 1..Len(c2s)
    BY <1>3, HandlingFacts
  <2>3. CASE c2s[1].type \in {"bind", "make"} /\ Creates(c2s[1].seq)
    <3>1. c2s[1].seq \in 1..cSeq
      BY <2>2, <2>3 DEF IInv, Links, StreamLinks, SeqsGivenOut
    <3>2. c2s[1].seq \in Seqs
      BY <3>1, Typed
    <3> QED BY <2>1, <2>2, <2>3, <3>2, AskedMade
  <2>4. CASE sObj' = sObj
    BY <1>1, <2>1, <2>2, <2>4, TakenKeeps, AskedFewer
  <2> QED BY <1>3, <2>3, <2>4, HandlingFacts
<1>4. CASE ClosingStep
  <2>1. UNCHANGED <<cQueue, cPending>>
    BY <1>4, ClientsOwn DEF ClosingStep, ServerStep, ServerDispatch
  <2>2. sObj' = sObj /\ (c2s' = c2s \/ c2s' = <<>>)
    BY <1>4, ClosingFacts
  <2> QED BY <1>1, <2>1, <2>2, AskedFewer
<1> QED BY <1>2, <1>3, <1>4, StepsSplit, ServerSplit

-----------------------------------------------------------------------------
(* What holds while the server has sent no destructor. *)

\* The parts of the client.
WaitersListed ==
  /\ \A i \in 1..Len(cQueue) : cQueue[i].dep \in cListed
  /\ \A i \in 1..Len(cPending) : cPending[i].dep \in cListed
NoGoneSent == \A k \in 1..Len(s2c) : s2c[k].type # "gone"

\* A sending step unlists only what is resolved, and no deferred call is of that.
LEMMA WaitersSending ==
  ASSUME IInv, Resolved, DeferredWait, WaitersListed, SendingStep
  PROVE  WaitersListed'
<1>1. /\ cpc \in {"collect", "sweep"} =>
           /\ \A i \in 1..Len(cQueue) : cId[cQueue[i].dep] = 0
           /\ cPending = <<>>
  BY DEF DeferredWait
<1>2. \A i \in 1..Len(cQueue) : cQueue[i].dep \in cListed'
  <2>1. CASE cListed \subseteq cListed'
    BY <2>1 DEF WaitersListed
  <2>2. ASSUME cpc \in {"collect", "sweep"}, NEW s \in Seqs, cId[s] # 0, cListed' = cListed \ {s}
        PROVE  \A i \in 1..Len(cQueue) : cQueue[i].dep \in cListed'
    BY <1>1, <2>2 DEF WaitersListed
  <2> QED BY <2>1, <2>2, SendingControl
<1>3. \A i \in 1..Len(cPending) : cPending[i].dep \in cListed'
  <2>1. CASE cListed \subseteq cListed'
    BY <2>1 DEF WaitersListed
  <2>2. CASE cpc \in {"collect", "sweep"}
    <3>1. Len(cPending) = 0
      BY <1>1, <2>2
    <3> QED BY <3>1
  <2> QED BY <2>1, <2>2, SendingControl
<1>4. \A i \in 1..Len(cPending') : cPending'[i].dep \in cListed'
  BY <1>3, SendingQueues DEF PendingTaken
<1>5. \A i \in 1..Len(cQueue') : cQueue'[i].dep \in cListed'
  <2>1. CASE cQueue' = cQueue
    BY <1>2, <2>1
  <2>2. ASSUME NEW d, Deferring(d), d.dep \in cListed, cpc \in {"app", "flush"}
        PROVE  \A i \in 1..Len(cQueue') : cQueue'[i].dep \in cListed'
    <3>1. cListed \subseteq cListed'
      BY <2>2, SendingControl
    <3> QED BY <1>2, <2>2, <3>1 DEF Deferring
  <2> QED BY <2>1, <2>2, SendingQueues
<1> QED BY <1>4, <1>5 DEF WaitersListed

LEMMA NothingGoneStep ==
  ASSUME IInv, Resolved, DeferredWait, NothingGone, Next
  PROVE  NothingGone'
<1> SUFFICES ASSUME sSpent'["gone"] = 0
             PROVE  /\ ~cCurLast' /\ NoGoneSent' /\ WaitersListed'
                    /\ sState' = "up" => sListed' \cap sDestroyed' = {}
  BY DEF NothingGone, NoGoneSent, WaitersListed
<1>1. sSpent["gone"] = 0
  BY StepsSplit, ServersOwn, ServerSplit, HandlingFacts, ClosingFacts
<1>2. /\ ~cCurLast /\ NoGoneSent /\ WaitersListed
      /\ sState = "up" => sListed \cap sDestroyed = {}
  BY <1>1 DEF NothingGone, NoGoneSent, WaitersListed
<1>3. CASE ClientStep
  <2>1. sState' = "up" => sListed' \cap sDestroyed' = {}
    BY <1>2, <1>3, ServersOwn
  <2>2. CASE QuietStep
    <3>1. UNCHANGED <<s2c, cQueue, cPending>>
      BY <2>2, QuietFacts
    <3>2. cListed' = cListed \/ cCurLast
      BY <2>2, QuietControl
    <3>3. cCurLast' = FALSE \/ cCurLast' = cCurLast
      BY <2>2, QuietControl
    <3> QED BY <1>2, <2>1, <3>1, <3>2, <3>3 DEF NoGoneSent, WaitersListed
  <2>3. CASE TakeDeferred
    BY <1>2, <2>1, <2>3, TakeDeferredFacts DEF NoGoneSent, WaitersListed
  <2>4. CASE ClientExits
    BY <1>2, <2>1, <2>4, ExitFacts DEF NoGoneSent, WaitersListed
  <2>5. CASE SendingStep
    BY <1>2, <2>1, <2>5, SendingControl, WaitersSending DEF NoGoneSent
  <2>6. CASE ReceivingStep
    <3>1. /\ ReplyTaken /\ 1 \in 1..Len(s2c) /\ UNCHANGED <<cListed, cQueue, cPending>>
          /\ cCurLast' \in {cCurLast, s2c[1].type = "gone"}
      BY <2>6, ReceivingFacts
    <3>2. NoGoneSent' /\ ~cCurLast'
      BY <1>2, <3>1 DEF NoGoneSent, ReplyTaken
    <3> QED BY <1>2, <2>1, <3>1, <3>2 DEF WaitersListed
  <2> QED BY <1>3, <2>2, <2>3, <2>4, <2>5, <2>6, ClientSplit
<1>4. ASSUME NEW m, Replies(m), m.type # "gone" PROVE NoGoneSent'
  BY <1>2, <1>4, RepliesHold DEF NoGoneSent
<1>5. CASE HandlingStep
  <2>1. ~cCurLast' /\ WaitersListed'
    BY <1>2, <1>5, ClientsOwn DEF HandlingStep, ServerStep, ServerDispatch, WaitersListed
  <2>2. NoGoneSent'
    <3>1. s2c' = s2c \/ \E o, s : Replies(NewMsg(o, s))
      BY <1>5, HandlingFacts DEF Creates
    <3>2. \A o, s : NewMsg(o, s).type # "gone"
      BY DEF NewMsg
    <3> QED BY <1>2, <1>4, <3>1, <3>2 DEF NoGoneSent
  <2>3. Len(sObj) + 1 \notin sDestroyed
    <3>1. sDestroyed \subseteq 1..Len(sObj) /\ Len(sObj) \in Nat
      BY Types
    <3> QED BY <3>1
  <2>4. sListed' \cap sDestroyed' = {}
    BY <1>2, <1>5, <2>3, HandlingFacts DEF Creates
  <2> QED BY <2>1, <2>2, <2>4
<1>6. CASE ClosingStep
  <2>1. ~cCurLast' /\ WaitersListed'
    BY <1>2, <1>6, ClientsOwn DEF ClosingStep, ServerStep, ServerDispatch, WaitersListed
  <2>2. NoGoneSent'
    <3>1. \/ s2c' = s2c \/ Replies(DoneMsg(sSlot))
          \/ \E o : Replies(EventMsg(o)) \/ Replies(FatalMsg(o))
      BY <1>6, ClosingFacts
    <3>2. /\ DoneMsg(sSlot).type # "gone"
          /\ \A o : EventMsg(o).type # "gone" /\ FatalMsg(o).type # "gone"
      BY DEF DoneMsg, EventMsg, FatalMsg
    <3> QED BY <1>2, <1>4, <3>1, <3>2 DEF NoGoneSent
  <2>3. sState' = "up" => sListed' \cap sDestroyed' = {}
    BY <1>2, <1>6, ClosingFacts
  <2> QED BY <2>1, <2>2, <2>3
<1> QED BY <1>3, <1>5, <1>6, StepsSplit, ServerSplit

-----------------------------------------------------------------------------
(* No request is lost. *)

\* The request for s, or its answer, is on its way.
Awaited(s) ==
  \/ StreamAsks(s) \/ DeferredAsks(cQueue, s) \/ DeferredAsks(cPending, s)
  \/ Answers(s)

\* The conditions under which the property speaks.
Undisturbed == sState = "up" /\ ~cShut /\ sSpent["gone"] = 0

\* What was asked stays asked when a message is written, and so is what it asks.
LEMMA SentAsks ==
  ASSUME NEW m, Sent(m), NEW s
  PROVE  /\ StreamAsks(s) => StreamAsks(s)'
         /\ AsksFor(m, s) => StreamAsks(s)'
<1>1. /\ \A i \in 1..Len(c2s) : i \in 1..Len(c2s') /\ c2s'[i] = c2s[i]
      /\ Len(c2s) + 1 \in 1..Len(c2s') /\ c2s'[Len(c2s) + 1] = m
  BY DEF Sent
<1> QED BY <1>1 DEF StreamAsks, AsksFor

LEMMA DeferringAsks ==
  ASSUME NEW d, Deferring(d), NEW s
  PROVE  /\ DeferredAsks(cQueue, s) => DeferredAsks(cQueue', s)
         /\ AsksFor(d.msg, s) => DeferredAsks(cQueue', s)
<1>1. /\ \A i \in 1..Len(cQueue) : i \in 1..Len(cQueue') /\ cQueue'[i] = cQueue[i]
      /\ Len(cQueue) + 1 \in 1..Len(cQueue') /\ cQueue'[Len(cQueue) + 1] = d
  BY DEF Deferring
<1> QED BY <1>1 DEF DeferredAsks

\* What was answered stays answered when the server writes.
LEMMA ReplyAnswers ==
  ASSUME NEW m, ReplyPut(m), NEW s
  PROVE  /\ Answers(s) => Answers(s)'
         /\ m.type = "new" /\ m.seq = s => Answers(s)'
<1>1. /\ \A k \in 1..Len(s2c) : k \in 1..Len(s2c') /\ s2c'[k] = s2c[k]
      /\ Len(s2c) + 1 \in 1..Len(s2c') /\ s2c'[Len(s2c) + 1] = m
  BY DEF ReplyPut
<1> QED BY <1>1 DEF Answers

\* A client that goes on takes one message, and every id that arrives.
LEMMA ReceivingNext ==
  ASSUME IInv, ReceivingStep, ~cShut'
  PROVE  /\ ~cShut /\ 1 \in 1..Len(s2c) /\ Len(s2c) \in Nat /\ Len(s2c') = Len(s2c) - 1
         /\ \A k \in 1..Len(s2c') : s2c'[k] = s2c[k + 1]
         /\ \/ s2c[1].type = "new" /\ cId' = OnSeq(s2c[1].seq, s2c[1].obj)
            \/ s2c[1].type # "new" /\ cId' = cId
<1>1. PICK types : ClientNext(types) /\ (s2c' = Tail(s2c) \/ s2c' = SubSeq(s2c, 2, cBatch))
  BY DEF ReceivingStep, HandleNewObject, HandleEvent, HandleUnknown, HandleRoundtripDone, HandleFatal
<1>2. s2c # <<>> /\ s2c \in Seq(ServerMessages)
  BY <1>1, ClientNextFacts, Typed
<1>3. s2c' = Tail(s2c) /\ ~cShut
  BY DEF ReceivingStep, HandleNewObject, HandleEvent, HandleUnknown, HandleRoundtripDone,
     HandleFatal, cFailed
<1>4. \/ Head(s2c).type = "new" /\ cId' = OnSeq(Head(s2c).seq, Head(s2c).obj)
      \/ Head(s2c).type # "new" /\ cId' = cId
  BY DEF ReceivingStep, HandleNewObject, HandleEvent, HandleUnknown, HandleRoundtripDone,
     HandleFatal, ClientNext, cObjects
<1>5. /\ Head(s2c) = s2c[1] /\ Len(s2c) \in Nat /\ Len(s2c) > 0
      /\ Len(Tail(s2c)) = Len(s2c) - 1
      /\ \A i \in 1..Len(Tail(s2c)) : Tail(s2c)[i] = s2c[i + 1]
  BY <1>2, TailFacts
<1> QED BY <1>3, <1>4, <1>5

\* An answer the client takes gives the object its id.
LEMMA AwaitedReceiving ==
  ASSUME IInv, Resolved, AnsweredOnce, ReceivingStep, ~cShut',
         NEW s \in 1..cSeq, cId[s] = 0, Awaited(s), cId'[s] = 0
  PROVE  Awaited(s)'
<1>1. UNCHANGED <<c2s, cQueue, cPending>>
  BY ReceivingFacts
<1>2. CASE StreamAsks(s) \/ DeferredAsks(cQueue, s) \/ DeferredAsks(cPending, s)
  BY <1>1, <1>2 DEF Awaited, StreamAsks, DeferredAsks, AsksFor
<1>3. CASE Answers(s)
  <2>1. PICK k \in 1..Len(s2c) : s2c[k].type = "new" /\ s2c[k].seq = s
    BY <1>3 DEF Answers
  <2>2. k # 1
    <3> SUFFICES ASSUME k = 1 PROVE FALSE
      OBVIOUS
    <3>1. cId' = OnSeq(s, s2c[1].obj) /\ s \in Seqs
      BY <2>1, ReceivingNext, Typed
    <3>2. s \in cListed /\ s2c[1].obj # 0
      BY <2>1 DEF Resolved
    <3>3. cId'[s] = s2c[1].obj
      BY <3>1, <3>2, Typed DEF OnSeq
    <3> QED BY <3>2, <3>3
  <2>3. k - 1 \in 1..Len(s2c') /\ s2c'[k - 1] = s2c[k]
    <3>1. k - 1 \in 1..Len(s2c') /\ (k - 1) + 1 = k
      BY <2>2, ReceivingNext
    <3> QED BY <3>1, ReceivingNext
  <2>4. Answers(s)'
    BY <2>1, <2>3 DEF Answers
  <2> QED BY <2>4 DEF Awaited
<1> QED BY <1>2, <1>3 DEF Awaited

\* A message of the client is not lost.
LEMMA AwaitedWritten ==
  ASSUME Undisturbed, NEW m, Writes(m), UNCHANGED <<s2c, cQueue, cPending>>, NEW s
  PROVE  /\ Awaited(s) => Awaited(s)'
         /\ AsksFor(m, s) => Awaited(s)'
<1>1. Sent(m)
  BY DEF Undisturbed, Writes
<1>2. /\ StreamAsks(s) => StreamAsks(s)'
      /\ AsksFor(m, s) => StreamAsks(s)'
  BY <1>1, SentAsks
<1> QED BY <1>2 DEF Awaited, DeferredAsks, Answers, AsksFor

LEMMA AwaitedIssued ==
  ASSUME Undisturbed, NEW t, NEW m, Issued(t, m), UNCHANGED <<s2c, cPending>>, NEW s
  PROVE  /\ Awaited(s) => Awaited(s)'
         /\ AsksFor(m, s) => Awaited(s)'
<1>1. CASE SendsOn(t, m) /\ cQueue' = cQueue
  <2>1. PICK n \in ClientMessages : n.type = m.type /\ n.seq = m.seq /\ Writes(n)
    BY <1>1 DEF SendsOn
  <2>2. AsksFor(m, s) => AsksFor(n, s)
    BY <2>1 DEF AsksFor
  <2> QED BY <1>1, <2>1, <2>2, AwaitedWritten
<1>2. CASE c2s' = c2s /\ Deferring(Deferred(t, m))
  <2>1. Deferred(t, m).msg = m
    BY DEF Deferred
  <2>2. /\ DeferredAsks(cQueue, s) => DeferredAsks(cQueue', s)
        /\ AsksFor(m, s) => DeferredAsks(cQueue', s)
    BY <1>2, <2>1, DeferringAsks
  <2>3. DeferredAsks(cQueue', s) => Awaited(s)'
    BY DEF Awaited, DeferredAsks, AsksFor
  <2> QED BY <1>2, <2>2, <2>3 DEF Awaited, DeferredAsks, StreamAsks, Answers, AsksFor
<1> QED BY <1>1, <1>2 DEF Issued

\* The flush keeps or sends what it looks at: its object is listed.
LEMMA AwaitedFlushed ==
  ASSUME IInv, NothingGone, Undisturbed, FlushOne, NEW s, Awaited(s)
  PROVE  Awaited(s)'
<1> DEFINE d == cPending[1]
<1>1. /\ PendingTaken /\ s2c' = s2c
      /\ \/ d.dep \notin cListed
         \/ c2s' = c2s /\ Deferring(d)
         \/ cQueue' = cQueue /\ SendsOn(d.dep, d.msg)
  BY FlushOneFacts
<1>2. 1 \in 1..Len(cPending)
  BY <1>1 DEF PendingTaken
<1>3. d.dep \in cListed
  BY <1>2 DEF NothingGone, Undisturbed
<1>4. DeferredAsks(cPending, s) => AsksFor(d.msg, s) \/ DeferredAsks(cPending', s)
  <2> SUFFICES ASSUME NEW i \in 1..Len(cPending), AsksFor(cPending[i].msg, s), i # 1
               PROVE  DeferredAsks(cPending', s)
    BY DEF DeferredAsks
  <2>1. i - 1 \in 1..Len(cPending') /\ (i - 1) + 1 = i
    BY <1>1 DEF PendingTaken
  <2>2. cPending'[i - 1] = cPending[i]
    BY <1>1, <2>1 DEF PendingTaken
  <2> QED BY <2>1, <2>2 DEF DeferredAsks
<1> HIDE DEF d
<1>5. /\ DeferredAsks(cPending', s) => Awaited(s)'
      /\ DeferredAsks(cQueue', s) => Awaited(s)'
      /\ StreamAsks(s)' => Awaited(s)'
      /\ Answers(s) => Awaited(s)'
  BY <1>1 DEF Awaited, DeferredAsks, Answers, StreamAsks, AsksFor
<1>6. CASE c2s' = c2s /\ Deferring(d)
  <2>1. /\ DeferredAsks(cQueue, s) => DeferredAsks(cQueue', s)
        /\ AsksFor(d.msg, s) => DeferredAsks(cQueue', s)
    BY <1>6, DeferringAsks
  <2>2. StreamAsks(s) => StreamAsks(s)'
    BY <1>6 DEF StreamAsks, AsksFor
  <2> QED BY <1>4, <1>5, <2>1, <2>2 DEF Awaited
<1>7. CASE cQueue' = cQueue /\ SendsOn(d.dep, d.msg)
  <2>1. PICK n \in ClientMessages : n.type = d.msg.type /\ n.seq = d.msg.seq /\ Writes(n)
    BY <1>7 DEF SendsOn
  <2>2. Sent(n)
    BY <2>1 DEF Undisturbed, Writes
  <2>3. /\ StreamAsks(s) => StreamAsks(s)'
        /\ AsksFor(n, s) => StreamAsks(s)'
    BY <2>2, SentAsks
  <2>4. AsksFor(d.msg, s) => AsksFor(n, s)
    BY <2>1 DEF AsksFor
  <2>5. DeferredAsks(cQueue, s) => DeferredAsks(cQueue', s)
    BY <1>7
  <2> QED BY <1>4, <1>5, <2>3, <2>4, <2>5 DEF Awaited
<1> QED BY <1>1, <1>3, <1>6, <1>7

\* Undisturbed was so before it is so.
LEMMA UndisturbedBefore ==
  ASSUME IInv, Next, Undisturbed'
  PROVE  Undisturbed
<1>1. CASE ClientStep
  <2>1. sState = "up" /\ sSpent["gone"] = 0
    BY <1>1, ServersOwn DEF Undisturbed
  <2>2. ~cShut
    BY <1>1, ClientSplit, QuietFacts, TakeDeferredFacts, ExitFacts, ReceivingNext, SendingControl
    DEF Undisturbed
  <2> QED BY <2>1, <2>2 DEF Undisturbed
<1>2. CASE ServerStep
  <2>1. ~cShut
    BY <1>2, ClientsOwn DEF Undisturbed
  <2>2. sState = "up" /\ sSpent["gone"] = 0
    BY <1>2, ServerSplit, HandlingFacts, ClosingFacts DEF Undisturbed
  <2> QED BY <2>1, <2>2 DEF Undisturbed
<1> QED BY <1>1, <1>2, StepsSplit

\* The client's steps that send.
LEMMA AwaitedSending ==
  ASSUME IInv, NothingGone, Undisturbed, SendingStep,
         NEW s \in 1..cSeq', s \in 1..cSeq => Awaited(s)
  PROVE  Awaited(s)'
<1>1. cSeq \in Nat
  BY Typed
<1>2. s \in 1..cSeq \/ (cSeq' = cSeq + 1 /\ s = cSeq + 1)
  BY <1>1, SendingControl
<1>3. CASE Bind
  <2>1. Writes(BindMsg(cSeq + 1)) /\ UNCHANGED <<s2c, cQueue, cPending>>
    BY <1>3, BindFacts
  <2>2. AsksFor(BindMsg(cSeq + 1), cSeq + 1)
    BY DEF AsksFor, BindMsg
  <2> QED BY <1>2, <2>1, <2>2, AwaitedWritten
<1>4. CASE Roundtrip
  <2>1. Writes(TripMsg(cSent + 1)) /\ UNCHANGED <<s2c, cQueue, cPending, cSeq>>
    BY <1>4, RoundtripFacts
  <2> QED BY <1>1, <1>2, <2>1, AwaitedWritten
<1>5. ASSUME NEW t \in Seqs, Drops(t), UNCHANGED <<s2c, cQueue, cPending, cSeq>>
      PROVE  Awaited(s)'
  <2>1. Awaited(s)
    BY <1>1, <1>2, <1>5
  <2>2. CASE c2s' = c2s
    BY <1>5, <2>1, <2>2 DEF Awaited, StreamAsks, DeferredAsks, Answers, AsksFor
  <2>3. CASE Writes(DestroyMsg(cId[t]))
    BY <1>5, <2>1, <2>3, AwaitedWritten
  <2> QED BY <1>5, <2>2, <2>3 DEF Drops
<1>6. CASE CollectOne
  BY <1>5, <1>6, CollectFacts
<1>7. CASE FlushOne
  <2>1. cSeq' = cSeq
    BY <1>7, FlushOneFacts
  <2>2. s \in 1..cSeq
    BY <2>1
  <2> QED BY <1>7, <2>2, AwaitedFlushed
<1>8. ASSUME NEW t \in Seqs, Call(t) PROVE Awaited(s)'
  <2>1. PICK k \in Nat : Issued(t, CallMsg(0, k))
    BY <1>8, CallFacts
  <2>2. UNCHANGED <<s2c, cPending, cSeq>>
    BY <1>8, CallFacts
  <2>3. s \in 1..cSeq
    BY <2>2
  <2> QED BY <2>1, <2>2, <2>3, AwaitedIssued
<1>9. ASSUME NEW t \in Seqs, MakeObject(t) PROVE Awaited(s)'
  <2>1. Issued(t, MakeMsg(0, cSeq + 1)) /\ UNCHANGED <<s2c, cPending>>
    BY <1>9, MakeObjectFacts
  <2>2. AsksFor(MakeMsg(0, cSeq + 1), cSeq + 1)
    BY DEF AsksFor, MakeMsg
  <2> QED BY <1>2, <2>1, <2>2, AwaitedIssued
<1>10. ASSUME NEW t \in Seqs, DropHandle(t) PROVE Awaited(s)'
  BY <1>5, <1>10, DropHandleFacts
<1> QED BY <1>3, <1>4, <1>6, <1>7, <1>8, <1>9, <1>10 DEF SendingStep

\* The server answers every request it handles.
LEMMA AwaitedHandling ==
  ASSUME IInv, NothingGone, Undisturbed, HandlingStep, NEW s, Awaited(s)
  PROVE  Awaited(s)'
<1>1. UNCHANGED <<cQueue, cPending>>
  BY ClientsOwn DEF HandlingStep, ServerStep, ServerDispatch
<1>2. Taken /\ 1 \in 1..Len(c2s)
  BY HandlingFacts
<1>3. \/ c2s[1].type \in {"bind", "make"} /\ Creates(c2s[1].seq)
      \/ c2s[1].type \notin {"bind", "make"} /\ s2c' = s2c
  BY HandlingFacts DEF NothingGone, Undisturbed
<1>4. StreamAsks(s) => AsksFor(c2s[1], s) \/ StreamAsks(s)'
  <2> SUFFICES ASSUME NEW i \in 1..Len(c2s), AsksFor(c2s[i], s), i # 1
               PROVE  StreamAsks(s)'
    BY DEF StreamAsks
  <2>1. i - 1 \in 1..Len(c2s') /\ (i - 1) + 1 = i
    BY <1>2 DEF Taken
  <2>2. c2s'[i - 1] = c2s[i]
    BY <1>2, <2>1 DEF Taken
  <2> QED BY <2>1, <2>2 DEF StreamAsks, AsksFor
<1>5. CASE c2s[1].type \in {"bind", "make"} /\ Creates(c2s[1].seq)
  <2> DEFINE m == NewMsg(Len(sObj) + 1, c2s[1].seq)
  <2>1. ReplyPut(m) /\ m.type = "new" /\ m.seq = c2s[1].seq
    BY <1>5 DEF Creates, Replies, Undisturbed, NewMsg
  <2> HIDE DEF m
  <2>2. /\ Answers(s) => Answers(s)'
        /\ m.type = "new" /\ m.seq = s => Answers(s)'
    BY <2>1, ReplyAnswers
  <2>3. AsksFor(c2s[1], s) => m.seq = s
    BY <2>1 DEF AsksFor
  <2> QED BY <1>1, <1>4, <2>1, <2>2, <2>3 DEF Awaited, DeferredAsks, AsksFor
<1>6. CASE c2s[1].type \notin {"bind", "make"} /\ s2c' = s2c
  <2>1. ~AsksFor(c2s[1], s)
    BY <1>6 DEF AsksFor
  <2> QED BY <1>1, <1>4, <1>6, <2>1 DEF Awaited, DeferredAsks, Answers, AsksFor
<1> QED BY <1>3, <1>5, <1>6

LEMMA AccountedStep ==
  ASSUME IInv, Places, NothingGone, Accounted, Next
  PROVE  Accounted'
<1> SUFFICES ASSUME Undisturbed', NEW s \in 1..cSeq', cId'[s] = 0
             PROVE  Awaited(s)'
  BY DEF Accounted, Undisturbed, Awaited
<1>1. Undisturbed
  BY UndisturbedBefore
<1>2. s \in 1..cSeq => (cId[s] = 0 => Awaited(s))
  BY <1>1 DEF Accounted, Undisturbed, Awaited
<1>3. CASE UNCHANGED <<c2s, s2c, cSeq, cId, cQueue, cPending>>
  BY <1>2, <1>3 DEF Awaited, StreamAsks, DeferredAsks, Answers, AsksFor
<1>4. CASE ClientStep
  <2>1. CASE TakeDeferred
    <3>1. /\ cPending' = cQueue /\ UNCHANGED <<c2s, s2c, cSeq, cId>> /\ cpc = "batch"
      BY <2>1, TakeDeferredFacts
    <3>2. Len(cPending) = 0
      BY <3>1 DEF Places, DeferredWait
    <3>3. ~DeferredAsks(cPending, s)
      BY <3>2 DEF DeferredAsks
    <3> QED BY <1>2, <3>1, <3>3 DEF Awaited, StreamAsks, DeferredAsks, Answers, AsksFor
  <2>2. CASE ClientExits
    BY <2>2, ExitFacts DEF Undisturbed
  <2>3. CASE ReceivingStep
    <3>1. ~cShut' /\ cSeq' = cSeq
      BY <2>3, ReceivingFacts DEF Undisturbed
    <3>2. cId[s] = 0
      <4> SUFFICES ASSUME cId[s] # 0 PROVE FALSE
        OBVIOUS
      <4>1. s \in Seqs
        BY <3>1, Typed
      <4>2. cId'[s] # cId[s]
        OBVIOUS
      <4>3. s2c[1].type = "new" /\ cId' = OnSeq(s2c[1].seq, s2c[1].obj) /\ 1 \in 1..Len(s2c)
        BY <2>3, <3>1, <4>2, ReceivingNext
      <4>4. cId'[s] = s2c[1].obj
        BY <4>1, <4>2, <4>3, IdArrives
      <4> QED BY <4>3, <4>4 DEF Places, Resolved
    <3> QED BY <1>2, <2>3, <3>1, <3>2, AwaitedReceiving DEF Places
  <2>4. CASE SendingStep
    <3>1. UNCHANGED cId
      BY <2>4, SendingControl
    <3> QED BY <1>1, <1>2, <2>4, <3>1, AwaitedSending
  <2> QED BY <1>3, <1>4, <2>1, <2>2, <2>3, <2>4, ClientSplit, QuietFacts
<1>5. CASE HandlingStep
  <2>1. UNCHANGED <<cSeq, cId>>
    BY <1>5, ClientsOwn DEF HandlingStep, ServerStep, ServerDispatch
  <2> QED BY <1>1, <1>2, <1>5, <2>1, AwaitedHandling
<1>6. CASE ClosingStep
  <2>1. UNCHANGED <<cSeq, cId, cQueue, cPending>>
    BY <1>6, ClientsOwn DEF ClosingStep, ServerStep, ServerDispatch
  <2>2. c2s' = c2s
    BY <1>6, ClosingFacts DEF Undisturbed
  <2>3. s2c' = s2c \/ \E m : ReplyPut(m)
    BY <1>1, <1>6, ClosingFacts DEF Replies, Undisturbed
  <2>4. Answers(s) => Answers(s)'
    BY <2>3, ReplyAnswers DEF Answers
  <2> QED BY <1>2, <2>1, <2>2, <2>4 DEF Awaited, StreamAsks, DeferredAsks, AsksFor
<1> QED BY <1>4, <1>5, <1>6, StepsSplit, ServerSplit

-----------------------------------------------------------------------------
(* Calls arrive in order. *)

\* The last part of CallOrder: the deferred calls a flush has looked at are
\* older than those it has not.
FlushOrder ==
  \A i \in 1..Len(cQueue) : \A j \in 1..Len(cPending) :
    /\ Numbered(cQueue[i].msg) /\ Numbered(cPending[j].msg)
    /\ cQueue[i].dep = cPending[j].dep
    => cQueue[i].msg.seq < cPending[j].msg.seq
LastMade == \A s \in Seqs : sLast[s] <= cCalls

\* The numbers are numbers.
LEMMA NumberTypes ==
  ASSUME IInv
  PROVE  /\ \A i \in 1..Len(c2s) : c2s[i].seq \in Nat /\ c2s[i].obj \in Nat
         /\ \A i \in 1..Len(cQueue) : cQueue[i].msg.seq \in Nat /\ cQueue[i].dep \in Seqs
         /\ \A i \in 1..Len(cPending) : cPending[i].msg.seq \in Nat /\ cPending[i].dep \in Seqs
         /\ \A s \in Seqs : sLast[s] \in Nat /\ cId[s] \in Nat
         /\ cCalls \in Nat
<1>1. \A i \in 1..Len(c2s) : c2s[i].seq \in Nat /\ c2s[i].obj \in Nat
  BY Typed DEF ClientMessages
<1>2. \A d \in DeferredCalls : d.msg.seq \in Nat /\ d.dep \in Seqs
  BY DEF DeferredCalls, ClientMessages
<1>3. /\ \A i \in 1..Len(cQueue) : cQueue[i] \in DeferredCalls
      /\ \A i \in 1..Len(cPending) : cPending[i] \in DeferredCalls
      /\ \A s \in Seqs : sLast[s] \in Nat /\ cId[s] \in Nat
      /\ cCalls \in Nat
  BY Typed
<1> QED BY <1>1, <1>2, <1>3

\* A message names an object of the server.
LEMMA NamedExist ==
  ASSUME IInv, NEW i \in 1..Len(c2s), c2s[i].obj # 0
  PROVE  /\ c2s[i].obj \in 1..Len(sObj) /\ c2s[i].obj \in sListed
         /\ sObj[c2s[i].obj].seq \in Seqs
<1>1. c2s[i].obj \in sListed
  BY DEF IInv, Links, StreamLinks, NamedAreListed
<1>2. c2s[i].obj \in 1..Len(sObj)
  BY <1>1, Types
<1> QED BY <1>1, <1>2, Typed

\* A call names its object.
LEMMA NumberedNames ==
  ASSUME IInv, NEW i \in 1..Len(c2s), Numbered(c2s[i])
  PROVE  c2s[i].obj # 0
  BY DEF IInv, Links, StreamLinks, Shapes, Numbered

\* The order of deferred calls, after messages arrived at the stream that come
\* before them.
LEMMA DeferredOrderStep ==
  ASSUME NEW q, NEW r, DeferredOrder(q), Keeps(q, r), UNCHANGED <<sLast, cId>>,
         cCalls \in Nat, cCalls' \in Nat, cCalls <= cCalls',
         \A i \in 1..Len(r) : r[i].msg.seq \in Nat,
         NEW m,
         \A j \in 1..Len(c2s') : c2s'[j] = m \/ \E l \in 1..Len(c2s) : c2s'[j] = c2s[l],
         \A i \in 1..Len(r) : Numbered(r[i].msg) /\ Numbered(m) /\ m.obj = cId[r[i].dep] =>
           m.seq < r[i].msg.seq
  PROVE  \A i \in 1..Len(r) : Numbered(r[i].msg) =>
           /\ r[i].msg.seq <= cCalls'
           /\ sLast'[r[i].dep] < r[i].msg.seq
           /\ \A j \in 1..Len(c2s') :
                Numbered(c2s'[j]) /\ c2s'[j].obj = cId'[r[i].dep] => c2s'[j].seq < r[i].msg.seq
           /\ \A j \in 1..Len(r) :
                i < j /\ Numbered(r[j].msg) /\ r[j].dep = r[i].dep => r[i].msg.seq < r[j].msg.seq
<1>1. PICK d \in {0, 1} : \A i \in 1..Len(r) : i \in Nat /\ i + d \in 1..Len(q) /\ r[i] = q[i + d]
  BY DEF Keeps
<1> SUFFICES ASSUME NEW i \in 1..Len(r), Numbered(r[i].msg)
             PROVE  /\ r[i].msg.seq <= cCalls'
                    /\ sLast[r[i].dep] < r[i].msg.seq
                    /\ \A j \in 1..Len(c2s') :
                         Numbered(c2s'[j]) /\ c2s'[j].obj = cId[r[i].dep] =>
                           c2s'[j].seq < r[i].msg.seq
                    /\ \A j \in 1..Len(r) :
                         i < j /\ Numbered(r[j].msg) /\ r[j].dep = r[i].dep =>
                           r[i].msg.seq < r[j].msg.seq
  OBVIOUS
<1>2. /\ r[i].msg.seq <= cCalls
      /\ sLast[r[i].dep] < r[i].msg.seq
      /\ \A j \in 1..Len(c2s) :
           Numbered(c2s[j]) /\ c2s[j].obj = cId[r[i].dep] => c2s[j].seq < r[i].msg.seq
  BY <1>1 DEF DeferredOrder
<1>3. r[i].msg.seq <= cCalls'
  BY <1>2
<1>4. ASSUME NEW j \in 1..Len(r), i < j, Numbered(r[j].msg), r[j].dep = r[i].dep
      PROVE  r[i].msg.seq < r[j].msg.seq
  <2>1. i + d \in 1..Len(q) /\ j + d \in 1..Len(q) /\ i + d < j + d
    BY <1>1, <1>4
  <2> QED BY <1>1, <1>4, <2>1 DEF DeferredOrder
<1> QED BY <1>2, <1>3, <1>4

\* The cross order, when the queues get shorter.
LEMMA FlushOrderKept ==
  ASSUME FlushOrder, Keeps(cQueue, cQueue'), Keeps(cPending, cPending')
  PROVE  FlushOrder'
<1>1. ASSUME NEW i \in 1..Len(cQueue'), NEW j \in 1..Len(cPending'),
             Numbered(cQueue'[i].msg), Numbered(cPending'[j].msg), cQueue'[i].dep = cPending'[j].dep
      PROVE  cQueue'[i].msg.seq < cPending'[j].msg.seq
  <2>1. PICK k \in 1..Len(cQueue) : cQueue'[i] = cQueue[k]
    BY DEF Keeps
  <2>2. PICK l \in 1..Len(cPending) : cPending'[j] = cPending[l]
    BY DEF Keeps
  <2> QED BY <1>1, <2>1, <2>2 DEF FlushOrder
<1> QED BY <1>1 DEF FlushOrder, Numbered

\* No numbered call is made, and none is delivered.
LEMMA OrderKept ==
  ASSUME IInv, CallOrder, Keeps(c2s, c2s'), Keeps(cQueue, cQueue'), Keeps(cPending, cPending'),
         UNCHANGED <<cId, sObj, sLast, cCalls>>
  PROVE  CallOrder'
<1>1. PICK d \in {0, 1} : \A i \in 1..Len(c2s') :
        i \in Nat /\ i + d \in 1..Len(c2s) /\ c2s'[i] = c2s[i + d]
  BY DEF Keeps
<1>2. NamedAreKnown'
  BY <1>1 DEF CallOrder, NamedAreKnown
<1>3. StreamOrder'
  <2> SUFFICES ASSUME NEW i \in 1..Len(c2s'), Numbered(c2s'[i])
               PROVE  /\ c2s'[i].seq <= cCalls
                      /\ sLast[sObj[c2s'[i].obj].seq] < c2s'[i].seq
                      /\ \A j \in 1..Len(c2s') :
                           i < j /\ Numbered(c2s'[j]) /\ c2s'[j].obj = c2s'[i].obj =>
                             c2s'[i].seq < c2s'[j].seq
    BY DEF StreamOrder, Numbered
  <2>1. c2s'[i].seq <= cCalls /\ sLast[sObj[c2s'[i].obj].seq] < c2s'[i].seq
    BY <1>1 DEF CallOrder, StreamOrder
  <2>2. ASSUME NEW j \in 1..Len(c2s'), i < j, Numbered(c2s'[j]), c2s'[j].obj = c2s'[i].obj
        PROVE  c2s'[i].seq < c2s'[j].seq
    <3>1. i + d \in 1..Len(c2s) /\ j + d \in 1..Len(c2s) /\ i + d < j + d
      BY <1>1, <2>2
    <3> QED BY <1>1, <2>2, <3>1 DEF CallOrder, StreamOrder
  <2> QED BY <2>1, <2>2
<1>4. /\ \A i \in 1..Len(cQueue') : cQueue'[i].msg.seq \in Nat
      /\ \A i \in 1..Len(cPending') : cPending'[i].msg.seq \in Nat
      /\ cCalls \in Nat /\ cCalls' <= cCalls /\ cCalls <= cCalls'
  BY NumberTypes, SMTT(40) DEF Keeps
<1>5. /\ \A j \in 1..Len(c2s') : \E l \in 1..Len(c2s) : c2s'[j] = c2s[l]
      /\ ~Numbered(TripMsg(0))
  BY <1>1 DEF Numbered, TripMsg
<1>6. DeferredOrder(cQueue)' /\ DeferredOrder(cPending)'
  <2>1. DeferredOrder(cQueue)'
    BY <1>4, <1>5, DeferredOrderStep DEF CallOrder, DeferredOrder, Numbered
  <2>2. DeferredOrder(cPending)'
    BY <1>4, <1>5, DeferredOrderStep DEF CallOrder, DeferredOrder, Numbered
  <2> QED BY <2>1, <2>2
<1>7. FlushOrder'
  BY FlushOrderKept DEF CallOrder, FlushOrder
<1> QED BY <1>2, <1>3, <1>6, <1>7 DEF CallOrder, FlushOrder

\* A message is sent: a numbered call is younger than all calls on its object
\* before it, and older than the deferred ones.
LEMMA OrderSent ==
  ASSUME IInv, CallOrder, NEW m \in ClientMessages, Sent(m),
         Keeps(cQueue, cQueue'), Keeps(cPending, cPending'),
         UNCHANGED <<cId, sObj, sLast>>, cCalls' \in Nat, cCalls <= cCalls',
         m.obj # 0 => cId[sObj[m.obj].seq] = m.obj,
         Numbered(m) =>
           /\ m.seq <= cCalls' /\ sLast[sObj[m.obj].seq] < m.seq
           /\ \A i \in 1..Len(c2s) : Numbered(c2s[i]) /\ c2s[i].obj = m.obj => c2s[i].seq < m.seq,
         \A i \in 1..Len(cQueue') :
           Numbered(cQueue'[i].msg) /\ Numbered(m) /\ m.obj = cId[cQueue'[i].dep] =>
             m.seq < cQueue'[i].msg.seq,
         \A i \in 1..Len(cPending') :
           Numbered(cPending'[i].msg) /\ Numbered(m) /\ m.obj = cId[cPending'[i].dep] =>
             m.seq < cPending'[i].msg.seq
  PROVE  CallOrder'
<1>1. ASSUME NEW i \in 1..Len(c2s')
      PROVE  (i \in 1..Len(c2s) /\ c2s'[i] = c2s[i]) \/ (i = Len(c2s) + 1 /\ c2s'[i] = m)
  BY DEF Sent
<1>2. NamedAreKnown'
  BY <1>1 DEF CallOrder, NamedAreKnown
<1>3. cCalls \in Nat /\ \A i \in 1..Len(c2s) : c2s[i].seq \in Nat
  BY NumberTypes
<1>4. StreamOrder'
  <2> SUFFICES ASSUME NEW i \in 1..Len(c2s'), Numbered(c2s'[i])
               PROVE  /\ c2s'[i].seq <= cCalls'
                      /\ sLast[sObj[c2s'[i].obj].seq] < c2s'[i].seq
                      /\ \A j \in 1..Len(c2s') :
                           i < j /\ Numbered(c2s'[j]) /\ c2s'[j].obj = c2s'[i].obj =>
                             c2s'[i].seq < c2s'[j].seq
    BY DEF StreamOrder, Numbered
  <2>1. CASE i \in 1..Len(c2s) /\ c2s'[i] = c2s[i]
    <3>1. c2s[i].seq <= cCalls /\ sLast[sObj[c2s[i].obj].seq] < c2s[i].seq
      BY <2>1 DEF CallOrder, StreamOrder
    <3>2. ASSUME NEW j \in 1..Len(c2s'), i < j, Numbered(c2s'[j]), c2s'[j].obj = c2s'[i].obj
          PROVE  c2s'[i].seq < c2s'[j].seq
      BY <1>1, <2>1, <3>2 DEF CallOrder, StreamOrder
    <3> QED BY <1>3, <2>1, <3>1, <3>2
  <2>2. CASE i = Len(c2s) + 1 /\ c2s'[i] = m
    <3>1. \A j \in 1..Len(c2s') : ~(i < j)
      BY <2>2 DEF Sent
    <3> QED BY <2>2, <3>1
  <2> QED BY <1>1, <2>1, <2>2
<1>5. /\ \A i \in 1..Len(cQueue') : cQueue'[i].msg.seq \in Nat
      /\ \A i \in 1..Len(cPending') : cPending'[i].msg.seq \in Nat
      /\ \A s \in Seqs : sLast[s] \in Nat
  BY NumberTypes DEF Keeps
<1>6. \A j \in 1..Len(c2s') : c2s'[j] = m \/ \E l \in 1..Len(c2s) : c2s'[j] = c2s[l]
  BY <1>1
<1>7. DeferredOrder(cQueue)'
  BY <1>3, <1>5, <1>6, DeferredOrderStep DEF CallOrder, DeferredOrder, Numbered
<1>8. DeferredOrder(cPending)'
  BY <1>3, <1>5, <1>6, DeferredOrderStep DEF CallOrder, DeferredOrder, Numbered
<1>9. FlushOrder'
  BY FlushOrderKept DEF CallOrder, FlushOrder
<1>10. LastMade'
  BY <1>3, <1>5 DEF CallOrder, LastMade
<1> QED BY <1>2, <1>4, <1>7, <1>8, <1>9, <1>10 DEF CallOrder, FlushOrder, LastMade

\* A call is deferred: a numbered one is younger than all before it, and older
\* than those the flush has not looked at.
LEMMA OrderDeferred ==
  ASSUME IInv, CallOrder, NEW d \in DeferredCalls, Deferring(d), Keeps(cPending, cPending'),
         UNCHANGED <<c2s, cId, sObj, sLast>>, cCalls' \in Nat, cCalls <= cCalls',
         Numbered(d.msg) =>
           /\ d.msg.seq <= cCalls' /\ sLast[d.dep] < d.msg.seq
           /\ \A i \in 1..Len(c2s) :
                Numbered(c2s[i]) /\ c2s[i].obj = cId[d.dep] => c2s[i].seq < d.msg.seq
           /\ \A i \in 1..Len(cQueue) :
                Numbered(cQueue[i].msg) /\ cQueue[i].dep = d.dep => cQueue[i].msg.seq < d.msg.seq
           /\ \A i \in 1..Len(cPending') :
                Numbered(cPending'[i].msg) /\ cPending'[i].dep = d.dep =>
                  d.msg.seq < cPending'[i].msg.seq
  PROVE  CallOrder'
<1>1. ASSUME NEW i \in 1..Len(cQueue')
      PROVE  \/ i \in 1..Len(cQueue) /\ cQueue'[i] = cQueue[i]
             \/ i = Len(cQueue) + 1 /\ cQueue'[i] = d
  BY DEF Deferring
<1>2. /\ cCalls \in Nat /\ \A i \in 1..Len(c2s) : c2s[i].seq \in Nat
      /\ \A i \in 1..Len(cQueue) : cQueue[i].msg.seq \in Nat
      /\ \A i \in 1..Len(cPending') : cPending'[i].msg.seq \in Nat
      /\ \A s \in Seqs : sLast[s] \in Nat
  BY NumberTypes DEF Keeps
<1>3. NamedAreKnown' /\ LastMade'
  BY <1>2 DEF CallOrder, NamedAreKnown, LastMade
<1>4. StreamOrder'
  BY <1>2 DEF CallOrder, StreamOrder, Numbered
<1>5. DeferredOrder(cPending)'
  <2>1. \A j \in 1..Len(c2s') :
          c2s'[j] = TripMsg(0) \/ \E l \in 1..Len(c2s) : c2s'[j] = c2s[l]
    OBVIOUS
  <2>2. ~Numbered(TripMsg(0))
    BY DEF Numbered, TripMsg
  <2>3. DeferredOrder(cPending)
    BY DEF CallOrder
  <2>4. /\ \A i \in 1..Len(cPending') : cPending'[i].msg.seq \in Nat
        /\ cCalls \in Nat
    BY <1>2
  <2> HIDE <1>2
  <2> QED BY <2>1, <2>2, <2>3, <2>4, DeferredOrderStep, ZenonT(60) DEF DeferredOrder, Numbered
<1>6. DeferredOrder(cQueue)'
  <2> SUFFICES ASSUME NEW i \in 1..Len(cQueue'), Numbered(cQueue'[i].msg)
               PROVE  /\ cQueue'[i].msg.seq <= cCalls'
                      /\ sLast[cQueue'[i].dep] < cQueue'[i].msg.seq
                      /\ \A j \in 1..Len(c2s) :
                           Numbered(c2s[j]) /\ c2s[j].obj = cId[cQueue'[i].dep] =>
                             c2s[j].seq < cQueue'[i].msg.seq
                      /\ \A j \in 1..Len(cQueue') :
                           i < j /\ Numbered(cQueue'[j].msg) /\ cQueue'[j].dep = cQueue'[i].dep =>
                             cQueue'[i].msg.seq < cQueue'[j].msg.seq
    BY DEF DeferredOrder, Numbered
  <2>1. CASE i \in 1..Len(cQueue) /\ cQueue'[i] = cQueue[i]
    <3>1. /\ cQueue[i].msg.seq <= cCalls /\ sLast[cQueue[i].dep] < cQueue[i].msg.seq
          /\ \A j \in 1..Len(c2s) :
               Numbered(c2s[j]) /\ c2s[j].obj = cId[cQueue[i].dep] => c2s[j].seq < cQueue[i].msg.seq
      BY <2>1 DEF CallOrder, DeferredOrder
    <3>2. ASSUME NEW j \in 1..Len(cQueue'), i < j, Numbered(cQueue'[j].msg),
                 cQueue'[j].dep = cQueue'[i].dep
          PROVE  cQueue'[i].msg.seq < cQueue'[j].msg.seq
      BY <1>1, <2>1, <3>2 DEF CallOrder, DeferredOrder
    <3>3. cQueue[i].msg.seq <= cCalls'
      BY <1>2, <2>1, <3>1
    <3> QED BY <2>1, <3>1, <3>2, <3>3
  <2>2. CASE i = Len(cQueue) + 1 /\ cQueue'[i] = d
    <3>1. \A j \in 1..Len(cQueue') : ~(i < j)
      BY <2>2 DEF Deferring
    <3> QED BY <2>2, <3>1
  <2> QED BY <1>1, <2>1, <2>2
<1>7. FlushOrder'
  <2>1. ASSUME NEW i \in 1..Len(cQueue'), NEW j \in 1..Len(cPending'),
               Numbered(cQueue'[i].msg), Numbered(cPending'[j].msg), cQueue'[i].dep = cPending'[j].dep
        PROVE  cQueue'[i].msg.seq < cPending'[j].msg.seq
    <3>1. PICK l \in 1..Len(cPending) : cPending'[j] = cPending[l]
      BY DEF Keeps
    <3> QED BY <1>1, <2>1, <3>1 DEF CallOrder
  <2> QED BY <2>1 DEF FlushOrder, Numbered
<1> QED BY <1>3, <1>4, <1>5, <1>6, <1>7 DEF CallOrder, FlushOrder, LastMade

\* dispatch_events takes the deferred calls.
LEMMA OrderTaken ==
  ASSUME CallOrder, cPending' = cQueue, cQueue' = <<>>,
         UNCHANGED <<c2s, cId, sObj, sLast, cCalls>>
  PROVE  CallOrder'
<1>1. Len(cQueue') = 0
  OBVIOUS
<1>2. NamedAreKnown' /\ LastMade' /\ StreamOrder'
  BY DEF CallOrder, NamedAreKnown, LastMade, StreamOrder, Numbered
<1>3. DeferredOrder(cPending)'
  BY DEF CallOrder, DeferredOrder, Numbered
<1>4. DeferredOrder(cQueue)' /\ FlushOrder'
  BY <1>1 DEF DeferredOrder, FlushOrder
<1> QED BY <1>2, <1>3, <1>4 DEF CallOrder, FlushOrder, LastMade

\* An id arrives: nothing in the stream names it yet.
LEMMA OrderIdArrives ==
  ASSUME IInv, AnsweredOnce, CallOrder, 1 \in 1..Len(s2c), s2c[1].type = "new",
         cId' = OnSeq(s2c[1].seq, s2c[1].obj),
         UNCHANGED <<c2s, cQueue, cPending, sObj, sLast, cCalls>>
  PROVE  CallOrder'
<1>1. /\ cId[s2c[1].seq] = 0
      /\ sObj[s2c[1].obj].seq = s2c[1].seq
  BY DEF AnsweredOnce, IInv, Links, IdLinks, NewInFlight
<1>2. \A t \in Seqs : cId'[t] = cId[t] \/ (t = s2c[1].seq /\ cId'[t] = s2c[1].obj)
  BY IdArrives
<1>3. ASSUME NEW i \in 1..Len(c2s), c2s[i].obj # 0
      PROVE  /\ cId[sObj[c2s[i].obj].seq] = c2s[i].obj
             /\ c2s[i].obj # s2c[1].obj
             /\ cId'[sObj[c2s[i].obj].seq] = c2s[i].obj
  <2>1. cId[sObj[c2s[i].obj].seq] = c2s[i].obj
    BY <1>3 DEF CallOrder, NamedAreKnown
  <2>2. sObj[c2s[i].obj].seq \in Seqs
    BY <1>3, NamedExist
  <2> QED BY <1>1, <1>2, <1>3, <2>1, <2>2
<1>4. NamedAreKnown'
  BY <1>3 DEF NamedAreKnown
<1>5. StreamOrder' /\ LastMade' /\ FlushOrder'
  BY DEF CallOrder, StreamOrder, LastMade, FlushOrder, Numbered
<1>6. ASSUME NEW q, DeferredOrder(q), \A i \in 1..Len(q) : q[i].dep \in Seqs
      PROVE  \A i \in 1..Len(q) : Numbered(q[i].msg) =>
               \A j \in 1..Len(c2s) :
                 Numbered(c2s[j]) /\ c2s[j].obj = cId'[q[i].dep] => c2s[j].seq < q[i].msg.seq
  <2> SUFFICES ASSUME NEW i \in 1..Len(q), Numbered(q[i].msg), NEW j \in 1..Len(c2s),
                      Numbered(c2s[j]), c2s[j].obj = cId'[q[i].dep]
               PROVE  c2s[j].seq < q[i].msg.seq
    OBVIOUS
  <2>1. c2s[j].obj # 0
    BY NumberedNames
  <2>2. cId'[q[i].dep] = cId[q[i].dep]
    BY <1>2, <1>3, <1>6, <2>1
  <2> QED BY <1>6, <2>2 DEF DeferredOrder
<1>7. DeferredOrder(cQueue)'
  BY <1>6, NumberTypes, ZenonT(60) DEF CallOrder, DeferredOrder, Numbered
<1>8. DeferredOrder(cPending)'
  BY <1>6, NumberTypes, ZenonT(60) DEF CallOrder, DeferredOrder, Numbered
<1> QED BY <1>4, <1>5, <1>7, <1>8 DEF CallOrder, FlushOrder, LastMade

\* The server handles a message: a numbered call is the oldest on its object.
LEMMA OrderHandled ==
  ASSUME IInv, CallOrder, Taken, 1 \in 1..Len(c2s),
         \A o \in 1..Len(sObj) : sObj'[o] = sObj[o],
         \A s \in Seqs : \/ sLast'[s] = sLast[s]
                         \/ /\ Numbered(c2s[1]) /\ s = sObj[c2s[1].obj].seq
                            /\ sLast'[s] = c2s[1].seq,
         UNCHANGED <<cId, cQueue, cPending, cCalls>>
  PROVE  CallOrder'
<1>1. ASSUME NEW i \in 1..Len(c2s')
      PROVE  i \in Nat /\ i + 1 \in 1..Len(c2s) /\ 1 < i + 1 /\ c2s'[i] = c2s[i + 1]
  BY DEF Taken
<1>2. ASSUME NEW i \in 1..Len(c2s), c2s[i].obj # 0
      PROVE  /\ cId[sObj[c2s[i].obj].seq] = c2s[i].obj /\ sObj'[c2s[i].obj] = sObj[c2s[i].obj]
             /\ sObj[c2s[i].obj].seq \in Seqs
  BY <1>2, NamedExist DEF CallOrder, NamedAreKnown
<1>3. NamedAreKnown'
  BY <1>1, <1>2 DEF NamedAreKnown
<1>4. StreamOrder'
  <2> SUFFICES ASSUME NEW i \in 1..Len(c2s'), Numbered(c2s'[i])
               PROVE  /\ c2s'[i].seq <= cCalls
                      /\ sLast'[sObj'[c2s'[i].obj].seq] < c2s'[i].seq
                      /\ \A j \in 1..Len(c2s') :
                           i < j /\ Numbered(c2s'[j]) /\ c2s'[j].obj = c2s'[i].obj =>
                             c2s'[i].seq < c2s'[j].seq
    BY DEF StreamOrder, Numbered
  <2>1. i + 1 \in 1..Len(c2s) /\ 1 < i + 1 /\ c2s'[i] = c2s[i + 1]
    BY <1>1
  <2>2. c2s[i + 1].seq <= cCalls /\ sLast[sObj[c2s[i + 1].obj].seq] < c2s[i + 1].seq
    BY <2>1 DEF CallOrder, StreamOrder
  <2>3. c2s[i + 1].obj # 0
    BY <2>1, NumberedNames
  <2>4. sLast'[sObj'[c2s'[i].obj].seq] < c2s'[i].seq
    <3> DEFINE t == sObj[c2s[i + 1].obj].seq
    <3>1. sObj'[c2s'[i].obj].seq = t /\ t \in Seqs /\ cId[t] = c2s[i + 1].obj
      BY <1>2, <2>1, <2>3
    <3>2. CASE sLast'[t] = sLast[t]
      BY <2>1, <2>2, <3>1, <3>2
    <3>3. CASE Numbered(c2s[1]) /\ t = sObj[c2s[1].obj].seq /\ sLast'[t] = c2s[1].seq
      <4>1. c2s[1].obj = c2s[i + 1].obj
        BY <1>2, <3>1, <3>3, NumberedNames
      <4>2. c2s[1].seq < c2s[i + 1].seq
        BY <2>1, <3>3, <4>1 DEF CallOrder, StreamOrder
      <4> QED BY <2>1, <3>1, <3>3, <4>2
    <3> QED BY <3>1, <3>2, <3>3
  <2>5. ASSUME NEW j \in 1..Len(c2s'), i < j, Numbered(c2s'[j]), c2s'[j].obj = c2s'[i].obj
        PROVE  c2s'[i].seq < c2s'[j].seq
    <3>1. j + 1 \in 1..Len(c2s) /\ i + 1 < j + 1 /\ c2s'[j] = c2s[j + 1]
      BY <1>1, <2>5
    <3> QED BY <2>1, <2>5, <3>1 DEF CallOrder, StreamOrder
  <2> QED BY <2>1, <2>2, <2>4, <2>5
<1>5. ASSUME NEW q, DeferredOrder(q), \A i \in 1..Len(q) : q[i].dep \in Seqs
      PROVE  \A i \in 1..Len(q) : Numbered(q[i].msg) =>
               /\ sLast'[q[i].dep] < q[i].msg.seq
               /\ \A j \in 1..Len(c2s') :
                    Numbered(c2s'[j]) /\ c2s'[j].obj = cId[q[i].dep] => c2s'[j].seq < q[i].msg.seq
  <2> SUFFICES ASSUME NEW i \in 1..Len(q), Numbered(q[i].msg)
               PROVE  /\ sLast'[q[i].dep] < q[i].msg.seq
                      /\ \A j \in 1..Len(c2s') :
                           Numbered(c2s'[j]) /\ c2s'[j].obj = cId[q[i].dep] =>
                             c2s'[j].seq < q[i].msg.seq
    OBVIOUS
  <2>1. /\ sLast[q[i].dep] < q[i].msg.seq
        /\ \A j \in 1..Len(c2s) :
             Numbered(c2s[j]) /\ c2s[j].obj = cId[q[i].dep] => c2s[j].seq < q[i].msg.seq
    BY <1>5 DEF DeferredOrder
  <2>2. ASSUME Numbered(c2s[1]), q[i].dep = sObj[c2s[1].obj].seq
        PROVE  c2s[1].seq < q[i].msg.seq
    BY <1>2, <2>1, <2>2, NumberedNames
  <2>3. sLast'[q[i].dep] < q[i].msg.seq
    BY <1>5, <2>1, <2>2
  <2> QED BY <1>1, <2>1, <2>3, SMTT(40)
<1>6. DeferredOrder(cQueue)'
  BY <1>5, NumberTypes, ZenonT(60) DEF CallOrder, DeferredOrder, Numbered
<1>7. DeferredOrder(cPending)'
  BY <1>5, NumberTypes, ZenonT(60) DEF CallOrder, DeferredOrder, Numbered
<1>8. LastMade' /\ FlushOrder'
  BY DEF CallOrder, StreamOrder, LastMade, FlushOrder, Numbered
<1> QED BY <1>3, <1>4, <1>6, <1>7, <1>8 DEF CallOrder, FlushOrder, LastMade

\* What is sent names its object by the id the client has.
LEMMA SentNames ==
  ASSUME IInv, NEW s \in Seqs, cId[s] # 0
  PROVE  cId[s] \in 1..Len(sObj) /\ sObj[cId[s]].seq = s
  BY DEF IInv, Links, IdLinks, Agreement

\* A message without a number is written, or lost.
LEMMA OrderWritten ==
  ASSUME IInv, CallOrder, NEW m \in ClientMessages, Writes(m), ~Numbered(m),
         m.obj # 0 => cId[sObj[m.obj].seq] = m.obj,
         UNCHANGED <<cId, sObj, sLast, cQueue, cPending>>, cCalls' \in Nat, cCalls <= cCalls'
  PROVE  CallOrder'
<1>1. Keeps(cQueue, cQueue) /\ Keeps(cPending, cPending) /\ Keeps(c2s, c2s)
  BY Typed, KeepsFacts
<1>2. CASE Sent(m)
  BY <1>1, <1>2, OrderSent
<1>3. CASE c2s' = c2s
  <2>1. NamedAreKnown' /\ FlushOrder'
    BY <1>3 DEF CallOrder, NamedAreKnown, FlushOrder, Numbered
  <2>2. cCalls \in Nat /\ \A s \in Seqs : sLast[s] \in Nat
    BY NumberTypes
  <2>3. LastMade'
    BY <2>2 DEF CallOrder, LastMade
  <2>4. \A i \in 1..Len(c2s) : c2s[i].seq \in Nat
    BY NumberTypes
  <2>5. StreamOrder'
    BY <1>3, <2>2, <2>4 DEF CallOrder, StreamOrder, Numbered
  <2>6. /\ \A i \in 1..Len(cQueue) : cQueue[i].msg.seq \in Nat
        /\ \A i \in 1..Len(cPending) : cPending[i].msg.seq \in Nat
    BY NumberTypes
  <2>7. /\ \A i \in 1..Len(cQueue) : Numbered(cQueue[i].msg) => cQueue[i].msg.seq <= cCalls'
        /\ \A i \in 1..Len(cPending) : Numbered(cPending[i].msg) => cPending[i].msg.seq <= cCalls'
    BY <2>2, <2>6 DEF CallOrder, DeferredOrder
  <2>8. DeferredOrder(cQueue)'
    BY <1>3, <2>7 DEF CallOrder, DeferredOrder, Numbered
  <2>9. DeferredOrder(cPending)'
    BY <1>3, <2>7 DEF CallOrder, DeferredOrder, Numbered
  <2> QED BY <2>1, <2>3, <2>5, <2>8, <2>9 DEF CallOrder, FlushOrder, LastMade
<1> QED BY <1>2, <1>3 DEF Writes

\* The application calls a method without a result.
LEMMA OrderCalled ==
  ASSUME IInv, CallOrder, DeferredWait, NEW s \in Seqs, Call(s), UNCHANGED <<sObj, sLast>>
  PROVE  CallOrder'
<1>1. PICK k \in Nat : /\ k = (IF cpc = "app" THEN cCalls + 1 ELSE 0)
                       /\ Issued(s, CallMsg(0, k)) /\ CallMsg(0, k) \in ClientMessages
  BY CallFacts
<1>2. cCalls' = cCalls + 1 /\ UNCHANGED <<cId, cPending>>
  BY CallFacts
<1>3. /\ cCalls \in Nat /\ cCalls' \in Nat /\ cCalls <= cCalls'
      /\ \A t \in Seqs : sLast[t] \in Nat
      /\ \A i \in 1..Len(c2s) : c2s[i].seq \in Nat
  BY <1>2, NumberTypes
<1>4. ASSUME cpc = "app"
      PROVE  cPending = <<>> /\ \A i \in 1..Len(cQueue) : cId[cQueue[i].dep] = 0
  BY <1>4 DEF DeferredWait
<1>5. /\ CallMsg(0, k).type = "call" /\ CallMsg(0, k).seq = k
  BY DEF CallMsg
<1>6. /\ Keeps(cQueue, cQueue) /\ Keeps(cPending, cPending)
  BY Typed, KeepsFacts
<1>7. /\ \A t \in Seqs : sLast[t] < cCalls + 1
      /\ \A i \in 1..Len(c2s) : Numbered(c2s[i]) => c2s[i].seq < cCalls + 1
      /\ \A i \in 1..Len(cQueue) : Numbered(cQueue[i].msg) => cQueue[i].msg.seq < cCalls + 1
  BY <1>3, NumberTypes DEF CallOrder, StreamOrder, DeferredOrder
<1>8. CASE cId[s] # 0 /\ SendsOn(s, CallMsg(0, k)) /\ cQueue' = cQueue
  <2>1. PICK n \in ClientMessages : /\ n.obj = cId[s] /\ n.type = "call" /\ n.seq = k
                                    /\ Writes(n)
    BY <1>5, <1>8 DEF SendsOn
  <2>2. sObj[n.obj].seq = s
    BY <1>8, <2>1, SentNames
  <2>3. CASE ~Numbered(n)
    BY <1>2, <1>3, <1>8, <2>1, <2>2, <2>3, OrderWritten
  <2>4. CASE Numbered(n) /\ c2s' = c2s
    <3>1. DestroyMsg(cId[s]) \in ClientMessages /\ ~Numbered(DestroyMsg(cId[s]))
          /\ DestroyMsg(cId[s]).obj = cId[s]
      BY Typed DEF DestroyMsg, ClientMessages, Numbered
    <3>2. cShut \/ sState # "up"
      <4> SUFFICES ASSUME ~(cShut \/ sState # "up") PROVE FALSE
        OBVIOUS
      <4>1. Len(c2s') = Len(c2s) + 1 /\ Len(c2s) \in Nat
        BY <2>1 DEF Writes, Sent
      <4> QED BY <2>4, <4>1
    <3>3. Writes(DestroyMsg(cId[s]))
      BY <2>4, <3>2 DEF Writes
    <3> QED BY <1>2, <1>3, <1>8, <2>1, <2>2, <3>1, <3>3, OrderWritten
  <2>5. CASE Numbered(n) /\ Sent(n)
    <3>1. cpc = "app" /\ k = cCalls + 1
      BY <1>1, <2>1, <2>5 DEF Numbered
    <3>2. /\ n.seq <= cCalls' /\ sLast[sObj[n.obj].seq] < n.seq
          /\ \A i \in 1..Len(c2s) : Numbered(c2s[i]) /\ c2s[i].obj = n.obj => c2s[i].seq < n.seq
      BY <1>2, <1>3, <1>7, <2>1, <2>2, <3>1
    <3>3. \A i \in 1..Len(cQueue') : n.obj # cId[cQueue'[i].dep]
      BY <1>4, <1>8, <2>1, <3>1
    <3>4. Len(cPending') = 0
      BY <1>2, <1>4, <3>1
    <3>5. Keeps(cQueue, cQueue') /\ Keeps(cPending, cPending')
      BY <1>2, <1>6, <1>8
    <3> QED BY <1>2, <1>3, <2>1, <2>2, <2>5, <3>2, <3>3, <3>4, <3>5, OrderSent
  <2> QED BY <2>1, <2>3, <2>4, <2>5 DEF Writes
<1>9. CASE cId[s] = 0 /\ cpc = "app" /\ c2s' = c2s /\ Deferring(Deferred(s, CallMsg(0, k)))
  <2> DEFINE d == Deferred(s, CallMsg(0, k))
  <2>1. d \in DeferredCalls /\ d.dep = s /\ d.msg = CallMsg(0, k)
    BY <1>1 DEF Deferred, DeferredCalls
  <2>2. k = cCalls + 1 /\ d.msg.seq = cCalls + 1
    BY <1>1, <1>5, <1>9, <2>1
  <2>3. Deferring(d)
    BY <1>9
  <2> HIDE DEF d
  <2>4. Len(cPending') = 0
    BY <1>2, <1>4, <1>9
  <2>5. Keeps(cPending, cPending')
    BY <1>2, <1>6
  <2>6. /\ d.msg.seq <= cCalls' /\ sLast[d.dep] < d.msg.seq
        /\ \A i \in 1..Len(c2s) :
             Numbered(c2s[i]) /\ c2s[i].obj = cId[d.dep] => c2s[i].seq < d.msg.seq
        /\ \A i \in 1..Len(cQueue) :
             Numbered(cQueue[i].msg) /\ cQueue[i].dep = d.dep => cQueue[i].msg.seq < d.msg.seq
    BY <1>2, <1>3, <1>7, <2>1, <2>2
  <2> QED BY <1>2, <1>3, <1>9, <2>1, <2>3, <2>4, <2>5, <2>6, OrderDeferred
<1> QED BY <1>1, <1>8, <1>9 DEF Issued

\* The flush looks at a call.
LEMMA OrderFlushed ==
  ASSUME IInv, CallOrder, DeferredWait, FlushOne, UNCHANGED <<sObj, sLast>>
  PROVE  CallOrder'
<1> DEFINE d == cPending[1]
<1>1. /\ PendingTaken /\ d \in DeferredCalls /\ d.dep \in 1..cSeq
      /\ \/ UNCHANGED <<c2s, cQueue>>
         \/ c2s' = c2s /\ Deferring(d)
         \/ cId[d.dep] # 0 /\ cQueue' = cQueue /\ SendsOn(d.dep, d.msg)
      /\ cpc = "flush" /\ UNCHANGED <<cId, cCalls>>
  BY FlushOneFacts
<1>2. /\ 1 \in 1..Len(cPending) /\ Keeps(cPending, cPending')
      /\ Keeps(c2s, c2s) /\ Keeps(cQueue, cQueue)
      /\ cCalls \in Nat /\ cCalls' \in Nat /\ cCalls <= cCalls'
  BY <1>1, PendingKeeps, KeepsFacts, Typed DEF PendingTaken
<1>3. \A i \in 1..Len(cQueue) : cId[cQueue[i].dep] = 0
  BY <1>1 DEF DeferredWait
<1>4. d.dep \in Seqs
  BY <1>1, Typed
<1>5. ASSUME Numbered(d.msg)
      PROVE  /\ d.msg.seq <= cCalls /\ sLast[d.dep] < d.msg.seq
             /\ \A i \in 1..Len(c2s) :
                  Numbered(c2s[i]) /\ c2s[i].obj = cId[d.dep] => c2s[i].seq < d.msg.seq
             /\ \A i \in 1..Len(cQueue) :
                  Numbered(cQueue[i].msg) /\ cQueue[i].dep = d.dep => cQueue[i].msg.seq < d.msg.seq
             /\ \A i \in 1..Len(cPending') :
                  Numbered(cPending'[i].msg) /\ cPending'[i].dep = d.dep =>
                    d.msg.seq < cPending'[i].msg.seq
  <2>1. /\ d.msg.seq <= cCalls /\ sLast[d.dep] < d.msg.seq
        /\ \A i \in 1..Len(c2s) :
             Numbered(c2s[i]) /\ c2s[i].obj = cId[d.dep] => c2s[i].seq < d.msg.seq
    BY <1>2, <1>5 DEF CallOrder, DeferredOrder
  <2>2. \A i \in 1..Len(cQueue) :
          Numbered(cQueue[i].msg) /\ cQueue[i].dep = d.dep => cQueue[i].msg.seq < d.msg.seq
    BY <1>2, <1>5 DEF CallOrder
  <2>3. ASSUME NEW i \in 1..Len(cPending'), Numbered(cPending'[i].msg), cPending'[i].dep = d.dep
        PROVE  d.msg.seq < cPending'[i].msg.seq
    <3>1. i \in Nat /\ i + 1 \in 1..Len(cPending) /\ 1 < i + 1 /\ cPending'[i] = cPending[i + 1]
      BY <1>1 DEF PendingTaken
    <3> QED BY <1>2, <1>5, <2>3, <3>1 DEF CallOrder, DeferredOrder
  <2> QED BY <2>1, <2>2, <2>3
<1> HIDE DEF d
<1>6. CASE UNCHANGED <<c2s, cQueue>>
  BY <1>1, <1>2, <1>6, OrderKept
<1>7. CASE c2s' = c2s /\ Deferring(d)
  BY <1>1, <1>2, <1>5, <1>7, OrderDeferred
<1>8. CASE cId[d.dep] # 0 /\ cQueue' = cQueue /\ SendsOn(d.dep, d.msg)
  <2>1. PICK n \in ClientMessages : /\ n.obj = cId[d.dep] /\ n.type = d.msg.type
                                    /\ n.seq = d.msg.seq /\ Writes(n)
    BY <1>8 DEF SendsOn
  <2>2. sObj[n.obj].seq = d.dep
    BY <1>4, <1>8, <2>1, SentNames
  <2>3. Numbered(n) <=> Numbered(d.msg)
    BY <2>1 DEF Numbered
  <2>4. CASE c2s' = c2s
    BY <1>1, <1>2, <1>8, <2>4, OrderKept
  <2>5. CASE Sent(n)
    <3>1. \A i \in 1..Len(cQueue') : n.obj # cId[cQueue'[i].dep]
      BY <1>3, <1>8, <2>1
    <3>2. ASSUME NEW i \in 1..Len(cPending'), Numbered(cPending'[i].msg), Numbered(n),
                 n.obj = cId[cPending'[i].dep]
          PROVE  n.seq < cPending'[i].msg.seq
      <4>1. cPending'[i].dep \in Seqs
        BY NumberTypes, <1>1 DEF PendingTaken
      <4>2. cPending'[i].dep = d.dep
        BY <1>8, <2>1, <2>2, <3>2, <4>1, SentNames
      <4> QED BY <1>5, <2>1, <2>3, <3>2, <4>2
    <3>3. /\ Numbered(n) =>
               /\ n.seq <= cCalls' /\ sLast[sObj[n.obj].seq] < n.seq
               /\ \A i \in 1..Len(c2s) :
                    Numbered(c2s[i]) /\ c2s[i].obj = n.obj => c2s[i].seq < n.seq
      BY <1>1, <1>5, <2>1, <2>2, <2>3
    <3>4. Keeps(cQueue, cQueue')
      BY <1>2, <1>8
    <3> QED BY <1>1, <1>2, <2>1, <2>2, <2>5, <3>1, <3>2, <3>3, <3>4, OrderSent
  <2> QED BY <2>1, <2>4, <2>5 DEF Writes
<1> QED BY <1>1, <1>6, <1>7, <1>8

\* The client's steps that send.
LEMMA OrderSending ==
  ASSUME IInv, CallOrder, DeferredWait, SendingStep, UNCHANGED <<sObj, sLast>>
  PROVE  CallOrder'
<1>1. /\ Keeps(c2s, c2s) /\ Keeps(cQueue, cQueue) /\ Keeps(cPending, cPending)
      /\ cCalls \in Nat /\ cSeq \in Nat /\ cSent \in Nat
  BY Typed, KeepsFacts
<1>2. CASE Bind
  <2>1. Writes(BindMsg(cSeq + 1)) /\ UNCHANGED <<cId, cQueue, cPending, cCalls>>
    BY <1>2, BindFacts
  <2>2. /\ BindMsg(cSeq + 1) \in ClientMessages /\ ~Numbered(BindMsg(cSeq + 1))
        /\ BindMsg(cSeq + 1).obj = 0
    BY <1>1 DEF BindMsg, ClientMessages, Numbered
  <2> QED BY <1>1, <2>1, <2>2, OrderWritten
<1>3. CASE Roundtrip
  <2>1. Writes(TripMsg(cSent + 1)) /\ UNCHANGED <<cId, cQueue, cPending, cCalls>>
    BY <1>3, RoundtripFacts
  <2>2. /\ TripMsg(cSent + 1) \in ClientMessages /\ ~Numbered(TripMsg(cSent + 1))
        /\ TripMsg(cSent + 1).obj = 0
    BY <1>1 DEF TripMsg, ClientMessages, Numbered
  <2> QED BY <1>1, <2>1, <2>2, OrderWritten
<1>4. ASSUME NEW s \in Seqs, Drops(s), UNCHANGED <<cId, cQueue, cPending, cCalls>>
      PROVE  CallOrder'
  <2>1. CASE c2s' = c2s
    BY <1>1, <1>4, <2>1, OrderKept
  <2>2. CASE cId[s] # 0 /\ Writes(DestroyMsg(cId[s]))
    <3>1. /\ DestroyMsg(cId[s]) \in ClientMessages /\ ~Numbered(DestroyMsg(cId[s]))
          /\ DestroyMsg(cId[s]).obj = cId[s]
      BY Typed DEF DestroyMsg, ClientMessages, Numbered
    <3>2. sObj[cId[s]].seq = s
      BY <2>2, SentNames
    <3> QED BY <1>1, <1>4, <2>2, <3>1, <3>2, OrderWritten
  <2> QED BY <1>4, <2>1, <2>2 DEF Drops
<1>5. CASE CollectOne
  BY <1>4, <1>5, CollectFacts
<1>6. CASE FlushOne
  BY <1>6, OrderFlushed
<1>7. ASSUME NEW s \in Seqs, Call(s) PROVE CallOrder'
  BY <1>7, OrderCalled
<1>8. ASSUME NEW s \in Seqs, MakeObject(s) PROVE CallOrder'
  <2> DEFINE m == MakeMsg(0, cSeq + 1)
  <2>1. Issued(s, m) /\ m \in ClientMessages /\ UNCHANGED <<cId, cPending, cCalls>>
    BY <1>8, MakeObjectFacts
  <2>2. m.type = "make"
    BY DEF MakeMsg
  <2> HIDE DEF m
  <2>3. CASE cId[s] # 0 /\ SendsOn(s, m) /\ cQueue' = cQueue
    <3>1. PICK n \in ClientMessages : n.obj = cId[s] /\ n.type = m.type /\ Writes(n)
      BY <2>3 DEF SendsOn
    <3>2. sObj[n.obj].seq = s
      BY <2>3, <3>1, SentNames
    <3>3. ~Numbered(n)
      BY <2>2, <3>1 DEF Numbered
    <3> QED BY <1>1, <2>1, <2>3, <3>1, <3>2, <3>3, OrderWritten
  <2>4. CASE c2s' = c2s /\ Deferring(Deferred(s, m))
    <3>1. Deferred(s, m) \in DeferredCalls /\ ~Numbered(Deferred(s, m).msg)
      BY <2>1, <2>2 DEF Deferred, DeferredCalls, Numbered
    <3> QED BY <1>1, <2>1, <2>4, <3>1, OrderDeferred
  <2> QED BY <2>1, <2>3, <2>4 DEF Issued
<1>9. ASSUME NEW s \in Seqs, DropHandle(s) PROVE CallOrder'
  BY <1>4, <1>9, DropHandleFacts
<1> QED BY <1>2, <1>3, <1>5, <1>6, <1>7, <1>8, <1>9 DEF SendingStep

\* Every step.
LEMMA CallOrderStep ==
  ASSUME IInv, Places, CallOrder, Next
  PROVE  CallOrder'
<1>1. /\ Keeps(c2s, c2s) /\ Keeps(cQueue, cQueue) /\ Keeps(cPending, cPending)
      /\ Keeps(c2s, <<>>)
  BY Typed, KeepsFacts
<1>2. CASE ClientStep
  <2>1. UNCHANGED <<sObj, sLast>>
    BY <1>2, ServersOwn
  <2>2. CASE QuietStep \/ ClientExits
    <3>1. UNCHANGED <<c2s, cId, cQueue, cPending, cCalls>>
      BY <2>2, QuietFacts, ExitFacts
    <3> QED BY <1>1, <2>1, <3>1, OrderKept
  <2>3. CASE TakeDeferred
    BY <2>1, <2>3, TakeDeferredFacts, OrderTaken
  <2>4. CASE SendingStep
    BY <2>1, <2>4, OrderSending DEF Places
  <2>5. CASE ReceivingStep
    <3>1. UNCHANGED <<c2s, cQueue, cPending, cCalls>> /\ 1 \in 1..Len(s2c)
      BY <2>5, ReceivingFacts
    <3>2. CASE cId' = cId
      BY <1>1, <2>1, <3>1, <3>2, OrderKept
    <3>3. CASE s2c[1].type = "new" /\ cId' = OnSeq(s2c[1].seq, s2c[1].obj)
      BY <2>1, <3>1, <3>3, OrderIdArrives DEF Places
    <3> QED BY <2>5, <3>2, <3>3, ReceivingFacts
  <2> QED BY <1>2, <2>2, <2>3, <2>4, <2>5, ClientSplit
<1>3. CASE HandlingStep
  <2>1. UNCHANGED <<cId, cQueue, cPending, cCalls>>
    BY <1>3, ClientsOwn DEF HandlingStep, ServerStep, ServerDispatch
  <2>2. Taken /\ 1 \in 1..Len(c2s)
    BY <1>3, HandlingFacts
  <2>3. \A o \in 1..Len(sObj) : sObj'[o] = sObj[o]
    BY <1>3, HandlingFacts DEF Creates
  <2>4. \/ sLast' = sLast
        \/ /\ c2s[1].type = "call" /\ c2s[1].seq # 0
           /\ sLast' = [sLast EXCEPT ![sObj[c2s[1].obj].seq] = c2s[1].seq]
    BY <1>3, HandlingFacts
  <2>5. \A s \in Seqs : \/ sLast'[s] = sLast[s]
                        \/ /\ Numbered(c2s[1]) /\ s = sObj[c2s[1].obj].seq
                           /\ sLast'[s] = c2s[1].seq
    <3>1. sLast \in [Seqs -> Nat]
      BY Typed
    <3> QED BY <2>4, <3>1 DEF Numbered
  <2> QED BY <2>1, <2>2, <2>3, <2>5, OrderHandled
<1>4. CASE ClosingStep
  <2>1. UNCHANGED <<cId, cQueue, cPending, cCalls>>
    BY <1>4, ClientsOwn DEF ClosingStep, ServerStep, ServerDispatch
  <2>2. UNCHANGED <<sObj, sLast>> /\ (c2s' = c2s \/ c2s' = <<>>)
    BY <1>4, ClosingFacts
  <2> QED BY <1>1, <2>1, <2>2, OrderKept
<1> QED BY <1>2, <1>3, <1>4, StepsSplit, ServerSplit

-----------------------------------------------------------------------------
(* The theorems. *)

\* A connection starts in the invariant.
LEMMA InitJ == Init => JInv
<1> SUFFICES ASSUME Init PROVE JInv
  OBVIOUS
<1>1. IInv
  BY InitInv
<1> USE DEF Init, Ids
<1>2. Ends
  BY DEF Ends, IsInjective, Range
<1>3. Trips
  BY DEF Trips
<1>4. Places
  BY DEF Places, Resolved, ShutIsOver, AskedOnce, StreamOnce, DeferredOnce, AnsweredOnce,
     DeferredWait, AsksFor
<1>5. NothingGone
  BY DEF NothingGone
<1>6. Accounted
  BY DEF Accounted
<1>7. CallOrder
  BY ConnectionAssumption DEF CallOrder, NamedAreKnown, StreamOrder, DeferredOrder
<1> QED BY <1>1, <1>2, <1>3, <1>4, <1>5, <1>6, <1>7 DEF JInv

\* Every step keeps it.
LEMMA NextJ == JInv /\ [Next]_vars => JInv'
<1>1. ASSUME JInv, Next PROVE JInv'
  <2>1. IInv'
    BY <1>1, NextInv DEF JInv
  <2>2. Ends'
    BY <1>1, EndsStep DEF JInv
  <2>3. Trips'
    BY <1>1, TripsStep DEF JInv, Places
  <2>4. Places'
    BY <1>1, ResolvedStep, ShutStep, AskedStep, AnsweredStep, DeferredWaitStep DEF JInv, Places
  <2>5. NothingGone'
    BY <1>1, NothingGoneStep DEF JInv, Places
  <2>6. Accounted'
    BY <1>1, AccountedStep DEF JInv
  <2>7. CallOrder'
    BY <1>1, CallOrderStep DEF JInv
  <2> QED BY <2>1, <2>2, <2>3, <2>4, <2>5, <2>6, <2>7 DEF JInv
<1>2. ASSUME JInv, UNCHANGED vars PROVE JInv'
  <2>1. UNCHANGED <<cHeld, cSeq, cRoots, cCalls, cId, cListed, cDestroyed, cQueue, cPending,
                    cError, cShut, cpc, cCur, cCurLast, cBatch, cWaitObj, cWaitAck, cSent, cAckd,
                    c2s, s2c, sObj, sListed, sDestroyed, sError, sState, sBusy, sBatch, sSlot,
                    sSpent, sDtor, sLast, ahead>>
    BY <1>2 DEF vars, cvars, svars, cAsked, cObjects, cDeferred, cFailed, cControl, cWaits,
       sObjects, sControl, sHistory
  <2>2. IInv'
    BY <1>2, NextInv DEF JInv
  <2>3. /\ Keeps(c2s, c2s') /\ Keeps(cQueue, cQueue') /\ Keeps(cPending, cPending')
    BY <1>2, <2>1, Typed, KeepsFacts DEF JInv
  <2>4. Ends' /\ Trips'
    BY <1>2, <2>1, EndsKept, TripsKept DEF JInv
  <2>5. AskedOnce' /\ CallOrder'
    BY <1>2, <2>1, <2>3, AskedFewer, OrderKept DEF JInv, Places
  <2>6. Resolved' /\ ShutIsOver' /\ AnsweredOnce' /\ DeferredWait'
    BY <1>2, <2>1 DEF JInv, Places, Resolved, ShutIsOver, AnsweredOnce, DeferredWait
  <2>7. NothingGone'
    BY <1>2, <2>1 DEF JInv, NothingGone
  <2>8. Accounted'
    BY <1>2, <2>1 DEF JInv, Accounted, StreamAsks, DeferredAsks, Answers, AsksFor
  <2> QED BY <2>2, <2>4, <2>5, <2>6, <2>7, <2>8 DEF JInv, Places
<1> QED BY <1>1, <1>2

\* The invariant of this module.
THEOREM JInductive == Spec => []JInv
<1> QED BY InitJ, NextJ, PTL DEF Spec

\* The server's application sees the destructor of an object at most once, and
\* after a disconnect every object that has one is destroyed: HandleDestroy and
\* destroy_objects_for_disconnect never both run it.
THEOREM DestructorsRunOnce == Spec => []DestructorOnce
<1>1. JInv => DestructorOnce
  BY DEF JInv, Ends, DestructorOnce
<1> QED BY <1>1, JInductive, PTL

\* An acknowledged roundtrip is a barrier: the server has handled every message
\* the client sent up to its newest request.
THEOREM RoundtripsAreBarriers == Spec => []RoundtripIsBarrier
<1>1. JInv => RoundtripIsBarrier
  <2> SUFFICES ASSUME JInv, cSent > 0, cAckd = cSent, ahead # 0 PROVE FALSE
    BY DEF RoundtripIsBarrier
  <2>1. /\ ahead \in 0..Len(c2s) /\ Len(c2s) \in Nat /\ cSent \in Nat
    BY Typed DEF JInv
  <2>2. ahead \in 1..Len(c2s) /\ ahead > 0
    BY <2>1
  <2>3. c2s[ahead] = TripMsg(cSent)
    BY <2>2 DEF JInv, Trips
  <2>4. cAckd < cSent
    BY <2>2, <2>3 DEF JInv, Trips, TripMsg
  <2> QED BY <2>1, <2>4
<1> QED BY <1>1, JInductive, PTL

\* While the server has sent no destructor, an object is without an id exactly as
\* long as its request or its answer is on its way: deferral and flush lose none.
THEOREM RequestsAccounted == Spec => []PendingAccounted
<1>1. JInv => PendingAccounted
  <2> SUFFICES ASSUME JInv, sState = "up", ~cShut, sSpent["gone"] = 0, NEW s \in 1..cSeq
               PROVE  cId[s] = 0 <=> (Asked(s) \/ Answered(s))
    BY DEF PendingAccounted
  <2>1. IInv /\ s \in Seqs
    BY Typed DEF JInv
  <2>2. /\ DOMAIN c2s = 1..Len(c2s) /\ DOMAIN s2c = 1..Len(s2c)
        /\ DOMAIN cQueue = 1..Len(cQueue) /\ DOMAIN cPending = 1..Len(cPending)
    BY <2>1, Typed
  <2>3. /\ \A i \in 1..Len(cQueue) : cQueue[i].msg.type \in {"make", "call"}
        /\ \A i \in 1..Len(cPending) : cPending[i].msg.type \in {"make", "call"}
    BY <2>1 DEF IInv, Links, QueueLinks, DeferredOK
  <2>4. Asked(s) <=> StreamAsks(s) \/ DeferredAsks(cQueue, s) \/ DeferredAsks(cPending, s)
    BY <2>2, <2>3 DEF Asked, StreamAsks, DeferredAsks, AsksFor
  <2>5. Answered(s) <=> Answers(s)
    BY <2>2 DEF Answered, Answers
  <2>6. ASSUME cId[s] # 0 PROVE ~Awaited(s)
    <3>1. cId[s] \in 1..Len(sObj) /\ sObj[cId[s]].seq = s
      BY <2>1, <2>6, SentNames
    <3>2. ~StreamAsks(s) /\ ~DeferredAsks(cQueue, s) /\ ~DeferredAsks(cPending, s)
      BY <3>1 DEF JInv, Places, AskedOnce, StreamOnce, DeferredOnce, StreamAsks, DeferredAsks
    <3>3. ~Answers(s)
      BY <2>6 DEF JInv, Places, AnsweredOnce, Answers
    <3> QED BY <3>2, <3>3 DEF Awaited
  <2> QED BY <2>4, <2>5, <2>6 DEF JInv, Accounted, Awaited
<1> QED BY <1>1, JInductive, PTL

\* The calls made on an object outside handlers are delivered in the order they
\* were made, across the moment its id arrives and deferral ends.
THEOREM CallsArriveInOrder == Spec => CallsInOrder
<1>1. JInv /\ [Next]_vars => [\A s \in Seqs : sLast'[s] >= sLast[s]]_vars
  <2> SUFFICES ASSUME JInv, Next, NEW s \in Seqs PROVE sLast'[s] >= sLast[s]
    OBVIOUS
  <2>1. IInv /\ sLast \in [Seqs -> Nat]
    BY Typed DEF JInv
  <2>2. CASE sLast' = sLast
    BY <2>1, <2>2
  <2>3. CASE HandlingStep
    <3>1. \/ sLast' = sLast
          \/ /\ c2s[1].type = "call" /\ c2s[1].seq # 0 /\ 1 \in 1..Len(c2s)
             /\ sLast' = [sLast EXCEPT ![sObj[c2s[1].obj].seq] = c2s[1].seq]
      BY <2>1, <2>3, HandlingFacts
    <3>2. ASSUME c2s[1].type = "call", c2s[1].seq # 0, 1 \in 1..Len(c2s)
          PROVE  sLast[sObj[c2s[1].obj].seq] < c2s[1].seq /\ c2s[1].seq \in Nat
      BY <2>1, <3>2, NumberTypes DEF JInv, CallOrder, StreamOrder, Numbered
    <3> QED BY <2>1, <2>2, <3>1, <3>2
  <2> QED BY <2>1, <2>2, <2>3, StepsSplit, ServersOwn, ServerSplit, ClosingFacts
<1> QED BY <1>1, JInductive, PTL DEF Spec, CallsInOrder

-----------------------------------------------------------------------------
(* The connection implements ObjectRegistry. *)

\* What the registry's variables stand for.
MadeSeqs == [o \in Ids |-> sObj[o].seq]
ReleasedSeqs == (1..cSeq) \ (cListed \cup cHeld)
LiveIds == IF sState = "up" THEN sListed ELSE {}

\* What the client does to what it lists and holds.
LEMMA NamedChange ==
  ASSUME IInv, ClientStep
  PROVE  \/ /\ cSeq' = cSeq + 1 /\ cSeq' \in Seqs
            /\ cListed' = cListed \cup {cSeq + 1} /\ cHeld' = cHeld \cup {cSeq + 1}
         \/ cSeq' = cSeq /\ cListed' \cup cHeld' = cListed \cup cHeld
         \/ cSeq' = cSeq /\ \E s : cListed' \cup cHeld' = (cListed \cup cHeld) \ {s}
<1>1. CASE Bind
  BY <1>1, BindFacts
<1>2. CASE \E s \in Seqs : MakeObject(s)
  BY <1>2, MakeObjectFacts
<1>3. CASE Roundtrip \/ FlushOne \/ TakeDeferred \/ ClientExits
  BY <1>3, RoundtripFacts, FlushOneFacts, TakeDeferredFacts, ExitFacts
<1>4. CASE \E s \in Seqs : Call(s)
  BY <1>4, CallFacts
<1>5. CASE \E s \in Seqs : DropHandle(s)
  <2>1. PICK s \in Seqs : DropHandle(s)
    BY <1>5
  <2>2. cSeq' = cSeq /\ cListed' = cListed /\ cHeld' = cHeld \ {s}
    BY <2>1, DropHandleFacts
  <2> QED BY <2>2
<1>6. CASE CollectOne
  <2>1. PICK s \in Seqs : s \in cListed \ cHeld /\ cListed' = cListed \ {s}
    BY <1>6, CollectFacts
  <2>2. cSeq' = cSeq /\ cHeld' = cHeld
    BY <1>6, CollectFacts
  <2> QED BY <2>1, <2>2
<1>7. CASE ReceivingStep
  BY <1>7, ReceivingFacts
<1>8. CASE WaitFails \/ ClientReadsEnd
  <2>1. UNCHANGED <<cSeq, cListed>> /\ cHeld' \in {cHeld, cHeld \ {cWaitObj}}
    BY <1>8 DEF WaitFails, ClientReadsEnd, HeldAfterFailure, cAsked, cObjects
  <2> QED BY <2>1
<1>9. CASE KeepProxy
  <2>1. cpc = "handler" /\ UNCHANGED <<cSeq, cListed>> /\ cHeld' = cHeld \cup {cCur}
    BY <1>9 DEF KeepProxy, cAsked, cObjects
  <2> QED BY <2>1, Typed
<1>10. CASE HandlerReturns
  <2>1. /\ UNCHANGED <<cSeq, cHeld>>
        /\ cListed' = cListed \/ cListed' = cListed \ {cCur}
    BY <1>10 DEF HandlerReturns, cAsked
  <2> QED BY <2>1
<1>11. CASE \/ WaitReturns \/ Dispatch \/ CollectDone \/ NoTraffic
            \/ ClientReads \/ HandlerBlocks \/ FlushDone
  BY <1>11 DEF WaitReturns, Dispatch, CollectDone, NoTraffic, ClientReads, HandlerBlocks, FlushDone,
     cAsked, cObjects
<1> QED BY <1>1, <1>2, <1>3, <1>4, <1>5, <1>6, <1>7, <1>8, <1>9, <1>10, <1>11, ClientSplit
        DEF QuietStep, SendingStep

\* A step of the client asks for an object, releases one that was made, or
\* changes nothing of the registry.
LEMMA ClientRefines ==
  ASSUME JInv, JInv', ClientStep
  PROVE  Registry!Next \/ UNCHANGED Registry!rvars
<1>1. UNCHANGED <<sObj, sListed, sState>>
  BY ServersOwn
<1>2. UNCHANGED <<MadeSeqs, LiveIds, sState = "up">>
  BY <1>1 DEF MadeSeqs, LiveIds, Ids
<1>3. cSeq \in Nat /\ cSeq <= MaxSeq /\ cListed \cup cHeld \subseteq 1..cSeq
  BY Typed DEF JInv
<1>4. CASE /\ cSeq' = cSeq + 1 /\ cSeq' \in Seqs
           /\ cListed' = cListed \cup {cSeq + 1} /\ cHeld' = cHeld \cup {cSeq + 1}
  <2>1. cSeq < MaxSeq
    BY <1>3, <1>4, ConnectionAssumption DEF Seqs
  <2>2. ReleasedSeqs' = ReleasedSeqs
    BY <1>3, <1>4 DEF ReleasedSeqs
  <2>3. Registry!Ask
    BY <1>2, <1>4, <2>1, <2>2 DEF Registry!Ask, MadeSeqs, LiveIds, ReleasedSeqs
  <2> QED BY <2>3 DEF Registry!Next
<1>5. CASE cSeq' = cSeq /\ cListed' \cup cHeld' = cListed \cup cHeld
  BY <1>2, <1>5 DEF Registry!rvars, MadeSeqs, LiveIds
<1>6. ASSUME cSeq' = cSeq, NEW s, s \in cListed \cup cHeld,
             cListed' \cup cHeld' = (cListed \cup cHeld) \ {s}
      PROVE  Registry!Next \/ UNCHANGED Registry!rvars
  <2>1. s \in 1..cSeq /\ s \in Seqs /\ s \notin ReleasedSeqs
    BY <1>3, <1>6, ConnectionAssumption DEF ReleasedSeqs, Seqs
  <2>2. cId'[s] # 0
    BY <1>6, <2>1 DEF JInv, Places, Resolved
  <2>3. cId'[s] \in 1..Len(sObj) /\ sObj[cId'[s]].seq = s
    BY <1>1, <2>1, <2>2 DEF JInv, IInv, Links, IdLinks, Agreement
  <2>4. s \in Range(MadeSeqs)
    <3>1. Ids = 1..Len(sObj)
      BY Types DEF JInv
    <3> QED BY <2>3, <3>1 DEF MadeSeqs, Range
  <2>5. ReleasedSeqs' = ReleasedSeqs \cup {s}
    BY <1>6, <2>1 DEF ReleasedSeqs
  <2>6. s \in Range(MadeSeqs) \ ReleasedSeqs
    BY <2>1, <2>4
  <2>7. Registry!Release(s)
    BY <1>2, <1>6, <2>5, <2>6
       DEF Registry!Release, Registry!Range, Range, MadeSeqs, LiveIds, ReleasedSeqs
  <2> QED BY <2>1, <2>7 DEF Registry!Next, Seqs
<1>7. CASE \E s : cSeq' = cSeq /\ cListed' \cup cHeld' = (cListed \cup cHeld) \ {s}
  <2>1. PICK s : cSeq' = cSeq /\ cListed' \cup cHeld' = (cListed \cup cHeld) \ {s}
    BY <1>7
  <2>2. CASE s \in cListed \cup cHeld
    BY <1>6, <2>1, <2>2
  <2>3. CASE s \notin cListed \cup cHeld
    BY <1>5, <2>1, <2>3
  <2> QED BY <2>2, <2>3
<1> QED BY <1>4, <1>5, <1>7, NamedChange DEF JInv

\* A made object is made in the registry.
LEMMA MadeGrows ==
  ASSUME IInv, IInv', NEW s \in Seqs, Creates(s)
  PROVE  MadeSeqs' = Append(MadeSeqs, s) /\ Len(MadeSeqs') = Len(sObj) + 1
<1>1. /\ Len(sObj) \in Nat /\ Ids = 1..Len(sObj) /\ Len(sObj') = Len(sObj) + 1
      /\ \A o \in 1..Len(sObj) : sObj'[o] = sObj[o] /\ sObj[o].seq \in Seqs
      /\ sObj'[Len(sObj) + 1].seq = s
  BY Types, Typed DEF Creates
<1>2. MadeSeqs \in Seq(Seqs) /\ Len(MadeSeqs) = Len(sObj)
  <2>1. MadeSeqs \in [1..Len(sObj) -> Seqs]
    BY <1>1 DEF MadeSeqs
  <2> QED BY <1>1, <2>1
<1>3. MadeSeqs' \in Seq(Seqs) /\ Len(MadeSeqs') = Len(sObj) + 1
  <2>1. Ids' = 1..(Len(sObj) + 1)
    <3>1. sObj' \in Seq([seq : Seqs, kind : {"root", "child"}])
      BY DEF IInv, TypeOK, ServerTypeOK
    <3> QED BY <1>1, <3>1 DEF Ids
  <2>2. MadeSeqs' \in [1..(Len(sObj) + 1) -> Seqs]
    BY <1>1, <2>1 DEF MadeSeqs
  <2> QED BY <1>1, <2>2
<1>4. Append(MadeSeqs, s) \in Seq(Seqs) /\ Len(Append(MadeSeqs, s)) = Len(sObj) + 1
  BY <1>1, <1>2
<1>5. \A i \in 1..(Len(sObj) + 1) : MadeSeqs'[i] = Append(MadeSeqs, s)[i]
  <2> SUFFICES ASSUME NEW i \in 1..(Len(sObj) + 1)
               PROVE  MadeSeqs'[i] = Append(MadeSeqs, s)[i]
    OBVIOUS
  <2>1. MadeSeqs'[i] = sObj'[i].seq
    <3>1. sObj' \in Seq([seq : Seqs, kind : {"root", "child"}])
      BY DEF IInv, TypeOK, ServerTypeOK
    <3> QED BY <1>1, <3>1 DEF MadeSeqs, Ids
  <2>2. CASE i \in 1..Len(sObj)
    BY <1>1, <1>2, <2>1, <2>2 DEF MadeSeqs
  <2>3. CASE i = Len(sObj) + 1
    BY <1>1, <1>2, <2>1, <2>3
  <2>4. Len(sObj) \in Nat
    BY <1>1
  <2>5. i \in 1..Len(sObj) \/ i = Len(sObj) + 1
    BY <2>4
  <2> QED BY <2>2, <2>3, <2>5
<1> QED BY <1>3, <1>4, <1>5, SeqEqual

\* A step of the server makes an object, ends one the client released, fails
\* the connection, or changes nothing of the registry.
LEMMA ServerRefines ==
  ASSUME JInv, JInv', ServerStep
  PROVE  Registry!Next \/ UNCHANGED Registry!rvars
<1>1. UNCHANGED <<cSeq, cListed, cHeld>> /\ ReleasedSeqs' = ReleasedSeqs
  BY ClientsOwn DEF ReleasedSeqs
<1>2. Len(sObj) \in Nat /\ Ids = 1..Len(sObj) /\ MaxSeq \in Nat
  BY Types, ConnectionAssumption DEF JInv
<1>3. CASE HandlingStep
  <2>1. /\ Taken /\ 1 \in 1..Len(c2s) /\ c2s[1] \in ClientMessages
        /\ sState = "up" /\ sState' = "up"
    BY <1>3, HandlingFacts DEF JInv
  <2>2. CASE c2s[1].type \in {"bind", "make"} /\ Creates(c2s[1].seq)
    <3>0. PICK s : s = c2s[1].seq
      OBVIOUS
    <3>1. s \in 1..cSeq /\ s \in Seqs
      <4>1. s \in 1..cSeq
        BY <2>1, <2>2, <3>0 DEF JInv, IInv, Links, StreamLinks, SeqsGivenOut
      <4>2. cSeq \in 0..MaxSeq
        BY Typed DEF JInv
      <4> QED BY <1>2, <4>1, <4>2 DEF Seqs
    <3>2. s \notin Range(MadeSeqs)
      <4>1. \A o \in 1..Len(sObj) : sObj[o].seq # s
        BY <2>1, <2>2, <3>0 DEF JInv, Places, AskedOnce, StreamOnce, AsksFor
      <4> QED BY <1>2, <4>1 DEF MadeSeqs, Range
    <3>3. MadeSeqs' = Append(MadeSeqs, s) /\ Len(MadeSeqs') = Len(sObj) + 1
      BY <2>2, <3>0, <3>1, MadeGrows DEF JInv
    <3>4. LiveIds' = LiveIds \cup {Len(MadeSeqs')}
      BY <2>1, <2>2, <3>0, <3>3 DEF LiveIds, Creates
    <3>5. Registry!Make(s)
      BY <1>1, <2>1, <3>1, <3>2, <3>3, <3>4
         DEF Registry!Make, Registry!Range, Range, MadeSeqs, LiveIds, ReleasedSeqs
    <3> QED BY <3>1, <3>5 DEF Registry!Next, Seqs
  <2>3. CASE /\ c2s[1].type = "destroy" /\ c2s[1].obj \in sListed
             /\ c2s[1] = DestroyMsg(c2s[1].obj)
             /\ sListed' = sListed \ {c2s[1].obj} /\ sObj' = sObj
    <3> DEFINE o == c2s[1].obj
    <3>1. o \in 1..Len(sObj)
      BY <1>2, <2>3, Types DEF JInv
    <3>2. sObj[o].seq \in ReleasedSeqs
      <4>1. sObj[o].seq \notin cListed \cup cHeld
        BY <2>1, <2>3, <3>1 DEF JInv, IInv, Links, StreamLinks, ClientsAreListed
      <4>2. sObj[o].seq \in 1..cSeq
        BY <3>1 DEF JInv, IInv, Links, StreamLinks, SeqsGivenOut
      <4> QED BY <4>1, <4>2 DEF ReleasedSeqs
    <3>3. MadeSeqs' = MadeSeqs /\ MadeSeqs[o] = sObj[o].seq
      BY <1>2, <2>3, <3>1 DEF MadeSeqs, Ids
    <3>4. o \in LiveIds /\ LiveIds' = LiveIds \ {o}
      BY <2>1, <2>3 DEF LiveIds
    <3>5. Registry!End(o)
      BY <1>1, <2>1, <3>2, <3>3, <3>4 DEF Registry!End, MadeSeqs, LiveIds, ReleasedSeqs
    <3> QED BY <3>4, <3>5 DEF Registry!Next, LiveIds
  <2>4. CASE sObj' = sObj /\ sListed' = sListed
    BY <1>1, <2>1, <2>4 DEF Registry!rvars, Ids
  <2> QED BY <1>3, <2>2, <2>3, <2>4, HandlingFacts DEF JInv
<1>4. CASE ClosingStep
  <2>1. /\ sObj' = sObj /\ (sState' = "up" => sState = "up")
        /\ (sState' = "up" => sListed' = sListed)
    BY <1>4, ClosingFacts DEF JInv
  <2>2. MadeSeqs' = MadeSeqs
    BY <2>1 DEF MadeSeqs, Ids
  <2>3. CASE sState' = "up"
    BY <1>1, <2>1, <2>3 DEF Registry!rvars, Ids
  <2>4. CASE sState = "up" /\ sState' # "up"
    <3>1. LiveIds' = {}
      BY <2>4 DEF LiveIds
    <3>2. Registry!Close
      BY <1>1, <2>2, <2>4, <3>1 DEF Registry!Close, MadeSeqs, LiveIds, ReleasedSeqs
    <3> QED BY <3>2 DEF Registry!Next
  <2>5. CASE sState # "up" /\ sState' # "up"
    BY <1>1, <2>1, <2>5 DEF Registry!rvars, Ids
  <2> QED BY <2>1, <2>3, <2>4, <2>5
<1> QED BY <1>3, <1>4, ServerSplit

(* The connection implements ObjectRegistry: the server makes an object the *)
(* client asked for at most once, and while the connection lives it ends an *)
(* object only after the client released it for good.                       *)
THEOREM ImplementsObjectRegistry == Spec => ImplementsRegistry
<1>1. Init => Registry!Init
  <2> SUFFICES ASSUME Init
               PROVE  Registry!Init
    OBVIOUS
  <2>1. /\ cSeq = 0 /\ cListed = {} /\ cHeld = {}
        /\ sObj = <<>> /\ sListed = {} /\ sState = "up"
    BY DEF Init
  <2>2. MadeSeqs = <<>> /\ ReleasedSeqs = {} /\ LiveIds = {}
    BY <2>1 DEF MadeSeqs, ReleasedSeqs, LiveIds, Ids
  <2> QED BY <2>1, <2>2 DEF Registry!Init, MadeSeqs, ReleasedSeqs, LiveIds
<1>2. JInv /\ JInv' /\ [Next]_vars => [Registry!Next]_(Registry!rvars)
  <2> SUFFICES ASSUME JInv, JInv', [Next]_vars
               PROVE  Registry!Next \/ UNCHANGED Registry!rvars
    OBVIOUS
  <2>1. CASE UNCHANGED vars
    BY <2>1 DEF vars, cvars, svars, cObjects, cAsked, sObjects, sControl, Registry!rvars, Ids
  <2> QED BY <2>1, ClientRefines, ServerRefines, StepsSplit
<1> QED BY <1>1, <1>2, JInductive, PTL DEF Spec, ImplementsRegistry, Registry!Spec
=============================================================================

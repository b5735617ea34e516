-------------------------- MODULE HandshakeProofs --------------------------
(***************************************************************************)
(* Proofs about Handshake, for every value of its constants: the type      *)
(* invariant, that a client which takes the handshake for done agrees with *)
(* the server on an offered version, that every bind comes after the       *)
(* acknowledgment and of a version the server has, and that a client which *)
(* gave up stays so.                                                       *)
(*                                                                         *)
(* Neither is inductive: what the client believes rests on what is on its  *)
(* way.  The inductive invariant IInv follows a version from the server's  *)
(* offer to the acknowledgment (AcksOffered), to the server (StoredIsAckd) *)
(* and back, with the protocols (AnswersFollow), into what the client does *)
(* with them (KnownFollows, BindsFollow).  VersionsFollow follows the      *)
(* versions of the protocols along the same way, into the roots.           *)
(***************************************************************************)
EXTENDS Handshake, LeastNumber, TLAPS

-----------------------------------------------------------------------------
(* The inductive invariant. *)

\* An acknowledgment on its way names the client's version, which was offered.
AcksOffered ==
  \A i \in 1..Len(c2s) : c2s[i].type = "ack" =>
    c2s[i].version = ClientVersion /\ ClientVersion \in Offered

\* So does the version the server has stored, if any.
StoredIsAckd == sVersion # 0 => sVersion = ClientVersion /\ ClientVersion \in Offered

\* The server sends its protocols only once it has stored the version.
AnswersFollow ==
  \A i \in 1..Len(s2c) : s2c[i].type = "protocols" => sVersion # 0

\* What the client knows of the handshake it has from such a message.
KnownFollows == cDone \/ cSpecs # <<>> => sVersion # 0

\* The client binds what it knows.
BindsFollow ==
  \A i \in 1..Len(c2s) : c2s[i].type = "bind" => sVersion # 0

Links ==
  /\ AcksOffered /\ StoredIsAckd /\ AnswersFollow /\ KnownFollows /\ BindsFollow

IInv == TypeOK /\ Links

-----------------------------------------------------------------------------
(* Facts about sequences: a message put at the end, one taken off the front. *)

\* A message put at the end of a sequence.
LEMMA AppendFacts ==
  ASSUME NEW T, NEW q \in Seq(T), NEW x \in T
  PROVE  /\ Append(q, x) \in Seq(T)
         /\ Len(Append(q, x)) = Len(q) + 1 /\ Len(q) \in Nat
         /\ \A i \in 1..Len(q) : Append(q, x)[i] = q[i]
         /\ Append(q, x)[Len(q) + 1] = x
  OBVIOUS

\* The first message taken off a sequence.
LEMMA TailFacts ==
  ASSUME NEW T, NEW q \in Seq(T), q # <<>>
  PROVE  /\ Head(q) = q[1] /\ Head(q) \in T /\ 1 \in 1..Len(q)
         /\ Tail(q) \in Seq(T)
         /\ Len(q) \in Nat /\ Len(Tail(q)) = Len(q) - 1
         /\ \A i \in 1..Len(Tail(q)) : Tail(q)[i] = q[i + 1] /\ i + 1 \in 1..Len(q)
  OBVIOUS

\* A list of protocols behind another.
LEMMA ConcatFacts ==
  ASSUME NEW T, NEW q \in Seq(T), NEW r \in Seq(T)
  PROVE  q \o r \in Seq(T)
  OBVIOUS

\* The types of the messages: each constructor makes a message.
LEMMA MessageTypes ==
  /\ HelloMsg \in ClientMessages
  /\ \A v \in Nat : AckMsg(v) \in ClientMessages
  /\ \A n \in Names, v \in Nat : BindMsg(n, v) \in ClientMessages
  /\ \A versions \in Offers : BeginMsg(versions) \in ServerMessages
  /\ \A ps \in Seq(Protocols) : ProtocolsMsg(ps) \in ServerMessages
  /\ NewMsg \in ServerMessages /\ FatalMsg \in ServerMessages
  BY DEF HelloMsg, AckMsg, BindMsg, BeginMsg, ProtocolsMsg, NewMsg, FatalMsg,
         ClientMessages, ServerMessages

\* What the type of a message says of its fields.
LEMMA MessageFields ==
  /\ \A m \in ClientMessages :
       /\ m.type = "ack" => m.version \in Nat
       /\ m.type = "bind" => m.version \in Nat /\ m.name \in Names
  /\ \A m \in ServerMessages :
       /\ m.type = "begin" => m.versions \subseteq Offered
       /\ m.type = "protocols" => m.specs \in Seq(Protocols)
  BY DEF HelloMsg, NewMsg, FatalMsg, ClientMessages, ServerMessages, Offered

\* A handshake starts in the invariant.
LEMMA InitInv == Init => IInv
<1> SUFFICES ASSUME Init PROVE IInv
  OBVIOUS
<1> USE HandshakeAssumption DEF Init
<1>1. ClientTypeOK /\ StreamTypeOK /\ ServerTypeOK
  BY MessageTypes DEF ClientTypeOK, StreamTypeOK, ServerTypeOK
<1>2. FlagsOK
  BY Zenon DEF FlagsOK
<1>3. Links
  BY DEF Links, AcksOffered, StoredIsAckd, AnswersFollow, KnownFollows, BindsFollow, HelloMsg
<1> QED BY <1>1, <1>2, <1>3 DEF IInv, TypeOK

-----------------------------------------------------------------------------
(* What the steps do to the streams. *)

\* The links say nothing of the variables a step changes, or less of them.
LEMMA LinksKept ==
  ASSUME Links, c2s' = c2s \/ c2s' = <<>>, s2c' = s2c \/ s2c' = <<>>,
         UNCHANGED <<sVersion, cDone, cSpecs>>
  PROVE  Links'
<1>1. CASE c2s' = c2s /\ s2c' = s2c
  BY <1>1 DEF Links, AcksOffered, StoredIsAckd, AnswersFollow, KnownFollows, BindsFollow
<1>2. CASE c2s' = <<>> /\ s2c' = s2c
  BY <1>2 DEF Links, AcksOffered, StoredIsAckd, AnswersFollow, KnownFollows, BindsFollow
<1>3. CASE c2s' = c2s /\ s2c' = <<>>
  BY <1>3 DEF Links, AcksOffered, StoredIsAckd, AnswersFollow, KnownFollows, BindsFollow
<1>4. CASE c2s' = <<>> /\ s2c' = <<>>
  BY <1>4 DEF Links, AcksOffered, StoredIsAckd, AnswersFollow, KnownFollows, BindsFollow
<1> QED BY <1>1, <1>2, <1>3, <1>4

\* What the client writes arrives at the end of c2s, or is lost.
LEMMA ToServerFacts ==
  ASSUME StreamTypeOK, NEW m \in ClientMessages, c2s' = ToServer(m)
  PROVE  /\ c2s' \in Seq(ClientMessages)
         /\ Len(c2s) \in Nat /\ Len(c2s') \in Nat /\ Len(c2s) <= Len(c2s')
         /\ \A i \in 1..Len(c2s') : (i \in 1..Len(c2s) /\ c2s'[i] = c2s[i]) \/ c2s'[i] = m
<1>1. CASE c2s' = c2s
  BY <1>1 DEF StreamTypeOK
<1>2. CASE c2s' = Append(c2s, m)
  BY <1>2, AppendFacts DEF StreamTypeOK
<1> QED BY <1>1, <1>2 DEF ToServer

\* What the server writes arrives at the end of s2c, or is lost.
LEMMA ToClientFacts ==
  ASSUME StreamTypeOK, NEW m \in ServerMessages, s2c' = ToClient(m)
  PROVE  /\ s2c' \in Seq(ServerMessages)
         /\ Len(s2c) \in Nat /\ Len(s2c') \in Nat /\ Len(s2c) <= Len(s2c')
         /\ \A i \in 1..Len(s2c') : (i \in 1..Len(s2c) /\ s2c'[i] = s2c[i]) \/ s2c'[i] = m
<1>1. CASE s2c' = s2c
  BY <1>1 DEF StreamTypeOK
<1>2. CASE s2c' = Append(s2c, m)
  BY <1>2, AppendFacts DEF StreamTypeOK
<1> QED BY <1>1, <1>2 DEF ToClient

\* The client takes a message: the batch and the stream stay typed.
LEMMA ClientTakes ==
  ASSUME TypeOK, NEW t, ClientNext(t), Handled
  PROVE  /\ Head(s2c) \in ServerMessages /\ Head(s2c) = s2c[1] /\ 1 \in 1..Len(s2c)
         /\ s2c' \in Seq(ServerMessages) /\ cBatch' \in 0..Len(s2c')
         /\ \A i \in 1..Len(s2c') : s2c'[i] = s2c[i + 1] /\ i + 1 \in 1..Len(s2c)
<1>1. s2c \in Seq(ServerMessages) /\ s2c # <<>> /\ cBatch \in 1..Len(s2c)
  BY DEF TypeOK, StreamTypeOK, ClientTypeOK, ClientNext
<1>2. s2c' = Tail(s2c) /\ cBatch' = cBatch - 1
  BY DEF Handled
<1> QED BY <1>1, <1>2, TailFacts

\* The server takes a message: the batch and the stream stay typed.
LEMMA ServerTakes ==
  ASSUME TypeOK, NEW t, ServerNext(t)
  PROVE  /\ Head(c2s) \in ClientMessages /\ Head(c2s) = c2s[1] /\ 1 \in 1..Len(c2s)
         /\ Head(c2s).type = t
         /\ c2s' \in Seq(ClientMessages) /\ sBatch' \in 0..Len(c2s')
         /\ \A i \in 1..Len(c2s') : c2s'[i] = c2s[i + 1] /\ i + 1 \in 1..Len(c2s)
<1>1. c2s \in Seq(ClientMessages) /\ c2s # <<>> /\ sBatch \in 1..Len(c2s)
  BY DEF TypeOK, StreamTypeOK, ServerTypeOK, ServerNext
<1>2. c2s' = Tail(c2s) /\ sBatch' = sBatch - 1
  BY DEF ServerNext
<1> QED BY <1>1, <1>2, TailFacts DEF ServerNext

-----------------------------------------------------------------------------
(* The steps that send and handle nothing. *)

\* The links, and the parts of the type invariant, make the invariant.
LEMMA Assemble ==
  ASSUME FlagsOK', ClientTypeOK', StreamTypeOK', ServerTypeOK', Links'
  PROVE  IInv'
  BY DEF IInv, TypeOK

\* The application calls wait_for_handshake.
LEMMA WaitForHandshakeInv ==
  ASSUME IInv, WaitForHandshake
  PROVE  IInv'
<1> USE HandshakeAssumption DEF IInv, TypeOK, WaitForHandshake, cEnd, cCall, cKnown, cvars, sKnown, svars, vars
<1>1. FlagsOK'
  BY Zenon DEF FlagsOK
<1>2. ClientTypeOK' /\ StreamTypeOK' /\ ServerTypeOK'
  BY AppendFacts DEF ClientTypeOK, StreamTypeOK, ServerTypeOK
<1>3. Links'
  BY LinksKept
<1> QED BY <1>1, <1>2, <1>3, Assemble

\* A call that waits returns.
LEMMA WaitReturnsInv ==
  ASSUME IInv, WaitReturns
  PROVE  IInv'
<1> USE HandshakeAssumption DEF IInv, TypeOK, WaitReturns, cEnd, cCall, cKnown, cvars, sKnown, svars, vars
<1>1. FlagsOK'
  BY Zenon DEF FlagsOK
<1>2. ClientTypeOK' /\ StreamTypeOK' /\ ServerTypeOK'
  BY AppendFacts DEF ClientTypeOK, StreamTypeOK, ServerTypeOK
<1>3. Links'
  BY LinksKept
<1> QED BY <1>1, <1>2, <1>3, Assemble

\* A dispatch begins.
LEMMA DispatchInv ==
  ASSUME IInv, Dispatch
  PROVE  IInv'
<1> USE HandshakeAssumption DEF IInv, TypeOK, Dispatch, cEnd, cCall, cKnown, cvars, sKnown, svars, vars
<1>1. FlagsOK'
  BY Zenon DEF FlagsOK
<1>2. ClientTypeOK' /\ StreamTypeOK' /\ ServerTypeOK'
  BY AppendFacts DEF ClientTypeOK, StreamTypeOK, ServerTypeOK
<1>3. Links'
  BY LinksKept
<1> QED BY <1>1, <1>2, <1>3, Assemble

\* The handshake's time is over.
LEMMA PollTimesOutInv ==
  ASSUME IInv, PollTimesOut
  PROVE  IInv'
<1> USE HandshakeAssumption DEF IInv, TypeOK, PollTimesOut, ReturnErr, cEnd, cCall, cKnown, cvars, sKnown, svars, vars
<1>1. FlagsOK'
  BY Zenon DEF FlagsOK
<1>2. ClientTypeOK' /\ StreamTypeOK' /\ ServerTypeOK'
  BY AppendFacts DEF ClientTypeOK, StreamTypeOK, ServerTypeOK
<1>3. Links'
  BY LinksKept
<1> QED BY <1>1, <1>2, <1>3, Assemble

\* A dispatch finds nothing.
LEMMA PollFindsNothingInv ==
  ASSUME IInv, PollFindsNothing
  PROVE  IInv'
<1> USE HandshakeAssumption DEF IInv, TypeOK, PollFindsNothing, cEnd, cCall, cKnown, cvars, sKnown, svars, vars
<1>1. FlagsOK'
  BY Zenon DEF FlagsOK
<1>2. ClientTypeOK' /\ StreamTypeOK' /\ ServerTypeOK'
  BY AppendFacts DEF ClientTypeOK, StreamTypeOK, ServerTypeOK
<1>3. Links'
  BY LinksKept
<1> QED BY <1>1, <1>2, <1>3, Assemble

\* The client reads a batch.
LEMMA ClientReadsInv ==
  ASSUME IInv, ClientReads
  PROVE  IInv'
<1> USE HandshakeAssumption DEF IInv, TypeOK, ClientReads, cEnd, cCall, cKnown, cvars, sKnown, svars, vars
<1>1. FlagsOK'
  BY Zenon DEF FlagsOK
<1>2. ClientTypeOK' /\ StreamTypeOK' /\ ServerTypeOK'
  BY AppendFacts DEF ClientTypeOK, StreamTypeOK, ServerTypeOK
<1>3. Links'
  BY LinksKept
<1> QED BY <1>1, <1>2, <1>3, Assemble

\* The client reads the end of the stream.
LEMMA ClientReadsEndInv ==
  ASSUME IInv, ClientReadsEnd
  PROVE  IInv'
<1> USE HandshakeAssumption DEF IInv, TypeOK, ClientReadsEnd, ReturnErr, cEnd, cCall, cKnown, cvars, sKnown, svars, vars
<1>1. FlagsOK'
  BY Zenon DEF FlagsOK
<1>2. ClientTypeOK' /\ StreamTypeOK' /\ ServerTypeOK'
  BY AppendFacts DEF ClientTypeOK, StreamTypeOK, ServerTypeOK
<1>3. Links'
  BY LinksKept
<1> QED BY <1>1, <1>2, <1>3, Assemble

\* A dispatch returns.
LEMMA DispatchReturnsInv ==
  ASSUME IInv, DispatchReturns
  PROVE  IInv'
<1> USE HandshakeAssumption DEF IInv, TypeOK, DispatchReturns, cEnd, cCall, cKnown, cvars, sKnown, svars, vars
<1>1. FlagsOK'
  BY Zenon DEF FlagsOK
<1>2. ClientTypeOK' /\ StreamTypeOK' /\ ServerTypeOK'
  BY AppendFacts DEF ClientTypeOK, StreamTypeOK, ServerTypeOK
<1>3. Links'
  BY LinksKept
<1> QED BY <1>1, <1>2, <1>3, Assemble

\* The client's process exits.
LEMMA ClientExitsInv ==
  ASSUME IInv, ClientExits
  PROVE  IInv'
<1> USE HandshakeAssumption DEF IInv, TypeOK, ClientExits, cEnd, cCall, cKnown, cvars, sKnown, svars, vars
<1>1. FlagsOK'
  BY Zenon DEF FlagsOK
<1>2. ClientTypeOK' /\ StreamTypeOK' /\ ServerTypeOK'
  BY AppendFacts DEF ClientTypeOK, StreamTypeOK, ServerTypeOK
<1>3. Links'
  BY LinksKept
<1> QED BY <1>1, <1>2, <1>3, Assemble

\* Time passes.
LEMMA TickInv ==
  ASSUME IInv, Tick
  PROVE  IInv'
<1> USE HandshakeAssumption DEF IInv, TypeOK, Tick, cEnd, cCall, cKnown, cvars, sKnown, svars, vars
<1>1. FlagsOK'
  BY Zenon DEF FlagsOK
<1>2. ClientTypeOK' /\ StreamTypeOK' /\ ServerTypeOK'
  BY AppendFacts DEF ClientTypeOK, StreamTypeOK, ServerTypeOK
<1>3. Links'
  BY LinksKept
<1> QED BY <1>1, <1>2, <1>3, Assemble

\* The server accepts the client.
LEMMA AcceptInv ==
  ASSUME IInv, Accept
  PROVE  IInv'
<1> USE HandshakeAssumption DEF IInv, TypeOK, Accept, cEnd, cCall, cKnown, cvars, sKnown, svars, vars
<1>1. FlagsOK'
  BY Zenon DEF FlagsOK
<1>2. ClientTypeOK' /\ StreamTypeOK' /\ ServerTypeOK'
  BY AppendFacts DEF ClientTypeOK, StreamTypeOK, ServerTypeOK
<1>3. Links'
  BY LinksKept
<1> QED BY <1>1, <1>2, <1>3, Assemble

\* The server registers a protocol.
LEMMA AddImplementationInv ==
  ASSUME IInv, AddImplementation
  PROVE  IInv'
<1> USE HandshakeAssumption DEF IInv, TypeOK, AddImplementation, cEnd, cCall, cKnown, cvars, sKnown, svars, vars
<1>1. FlagsOK'
  BY Zenon DEF FlagsOK
<1>2. ClientTypeOK' /\ StreamTypeOK' /\ ServerTypeOK'
  BY AppendFacts DEF ClientTypeOK, StreamTypeOK, ServerTypeOK
<1>3. Links'
  BY LinksKept
<1> QED BY <1>1, <1>2, <1>3, Assemble

\* The server reads a batch.
LEMMA ServerReadsInv ==
  ASSUME IInv, ServerReads
  PROVE  IInv'
<1> USE HandshakeAssumption DEF IInv, TypeOK, ServerReads, cEnd, cCall, cKnown, cvars, sKnown, svars, vars
<1>1. FlagsOK'
  BY Zenon DEF FlagsOK
<1>2. ClientTypeOK' /\ StreamTypeOK' /\ ServerTypeOK'
  BY AppendFacts DEF ClientTypeOK, StreamTypeOK, ServerTypeOK
<1>3. Links'
  BY LinksKept
<1> QED BY <1>1, <1>2, <1>3, Assemble

\* The server has handled a batch.
LEMMA ServerEndsBatchInv ==
  ASSUME IInv, ServerEndsBatch
  PROVE  IInv'
<1> USE HandshakeAssumption DEF IInv, TypeOK, ServerEndsBatch, cEnd, cCall, cKnown, cvars, sKnown, svars, vars
<1>1. FlagsOK'
  BY Zenon DEF FlagsOK
<1>2. ClientTypeOK' /\ StreamTypeOK' /\ ServerTypeOK'
  BY AppendFacts DEF ClientTypeOK, StreamTypeOK, ServerTypeOK
<1>3. Links'
  BY LinksKept
<1> QED BY <1>1, <1>2, <1>3, Assemble

\* The server reads the end of the stream.
LEMMA ServerReadsEndInv ==
  ASSUME IInv, ServerReadsEnd
  PROVE  IInv'
<1> USE HandshakeAssumption DEF IInv, TypeOK, ServerReadsEnd, RemoveClient, cEnd, cCall, cKnown, cvars, sKnown, svars, vars
<1>1. FlagsOK'
  BY Zenon DEF FlagsOK
<1>2. ClientTypeOK' /\ StreamTypeOK' /\ ServerTypeOK'
  BY AppendFacts DEF ClientTypeOK, StreamTypeOK, ServerTypeOK
<1>3. Links'
  BY LinksKept
<1> QED BY <1>1, <1>2, <1>3, Assemble

\* The server's process exits.
LEMMA ServerExitsInv ==
  ASSUME IInv, ServerExits
  PROVE  IInv'
<1> USE HandshakeAssumption DEF IInv, TypeOK, ServerExits, cEnd, cCall, cKnown, cvars, sKnown, svars, vars
<1>1. FlagsOK'
  BY Zenon DEF FlagsOK
<1>2. ClientTypeOK' /\ StreamTypeOK' /\ ServerTypeOK'
  BY AppendFacts DEF ClientTypeOK, StreamTypeOK, ServerTypeOK
<1>3. Links'
  BY LinksKept
<1> QED BY <1>1, <1>2, <1>3, Assemble

-----------------------------------------------------------------------------
(* The steps that send or handle a message. *)

\* Bind: the client knows the protocol, so the server has stored the version.
LEMMA BindInv ==
  ASSUME IInv, NEW n \in Names, Bind(n)
  PROVE  IInv'
<1> USE HandshakeAssumption DEF IInv, TypeOK, Bind, cEnd, cCall, cKnown, svars, sKnown
<1>1. FlagsOK'
  BY Zenon DEF FlagsOK
<1>2. PICK v \in Nat : c2s' = ToServer(BindMsg(n, v))
  <2>1. PICK v \in 0..Advertised(n) : c2s' = ToServer(BindMsg(n, v))
    OBVIOUS
  <2> QED BY <2>1
<1>3. BindMsg(n, v) \in ClientMessages
  BY MessageTypes
<1>4. /\ c2s' \in Seq(ClientMessages) /\ Len(c2s) <= Len(c2s')
      /\ Len(c2s) \in Nat /\ Len(c2s') \in Nat
      /\ \A i \in 1..Len(c2s') :
           (i \in 1..Len(c2s) /\ c2s'[i] = c2s[i]) \/ c2s'[i] = BindMsg(n, v)
  BY <1>2, <1>3, ToServerFacts
<1>5. ClientTypeOK' /\ StreamTypeOK' /\ ServerTypeOK'
  BY <1>4 DEF ClientTypeOK, StreamTypeOK, ServerTypeOK
<1>6. sVersion # 0
  <2>1. cSpecs # <<>>
    BY DEF Places
  <2> QED BY <2>1 DEF Links, KnownFollows
<1>7. AcksOffered' /\ BindsFollow'
  BY <1>4, <1>6 DEF Links, AcksOffered, BindsFollow, BindMsg
<1>8. StoredIsAckd' /\ AnswersFollow' /\ KnownFollows'
  BY DEF Links, StoredIsAckd, AnswersFollow, KnownFollows
<1> QED BY <1>1, <1>5, <1>7, <1>8, Assemble DEF Links

\* HandleBegin: the client acknowledges a version it was offered.
LEMMA HandleBeginInv ==
  ASSUME IInv, HandleBegin
  PROVE  IInv'
<1> USE HandshakeAssumption DEF IInv, TypeOK, cEnd, cKnown, svars, sKnown
<1>1. Head(s2c).versions \subseteq Offered
  <2>1. s2c \in Seq(ServerMessages) /\ s2c # <<>> /\ Head(s2c).type = "begin"
    BY DEF HandleBegin, ClientNext, ClientTypeOK, StreamTypeOK
  <2> QED BY <2>1, TailFacts, MessageFields
<1>2. CASE ClientVersion \in Head(s2c).versions
  <2>1. /\ ClientNext("begin") /\ Handled /\ c2s' = ToServer(AckMsg(ClientVersion))
        /\ UNCHANGED <<cEnd, cpc, cWait, cKnown, cBlock, svars, clock>>
    BY <1>2 DEF HandleBegin
  <2>2. FlagsOK'
    BY <2>1, Zenon DEF FlagsOK
  <2>3. AckMsg(ClientVersion) \in ClientMessages
    BY MessageTypes
  <2>4. /\ c2s' \in Seq(ClientMessages) /\ Len(c2s) <= Len(c2s')
        /\ Len(c2s) \in Nat /\ Len(c2s') \in Nat
        /\ \A i \in 1..Len(c2s') :
             (i \in 1..Len(c2s) /\ c2s'[i] = c2s[i]) \/ c2s'[i] = AckMsg(ClientVersion)
    BY <2>1, <2>3, ToServerFacts
  <2>5. /\ s2c' \in Seq(ServerMessages) /\ cBatch' \in 0..Len(s2c')
        /\ \A i \in 1..Len(s2c') : s2c'[i] = s2c[i + 1] /\ i + 1 \in 1..Len(s2c)
    BY <2>1, ClientTakes
  <2>6. ClientTypeOK' /\ StreamTypeOK' /\ ServerTypeOK'
    BY <2>1, <2>4, <2>5 DEF ClientTypeOK, StreamTypeOK, ServerTypeOK
  <2>7. AcksOffered' /\ BindsFollow'
    BY <1>1, <1>2, <2>1, <2>4 DEF Links, AcksOffered, BindsFollow, AckMsg
  <2>8. AnswersFollow'
    BY <2>1, <2>5 DEF Links, AnswersFollow
  <2>9. StoredIsAckd' /\ KnownFollows'
    BY <2>1 DEF Links, StoredIsAckd, KnownFollows
  <2> QED BY <2>2, <2>6, <2>7, <2>8, <2>9, Assemble DEF Links
<1>3. CASE ClientVersion \notin Head(s2c).versions
  <2>1. /\ cError' = TRUE /\ cShut' = TRUE /\ cBatch' = 0 /\ s2c' = <<>>
        /\ cpc' = "app" /\ cWait' = "none"
        /\ UNCHANGED <<c2s, cKnown, cBlock, svars, clock>>
    BY <1>3 DEF HandleBegin, ReturnErr
  <2>2. FlagsOK'
    BY <2>1, Zenon DEF FlagsOK
  <2>3. ClientTypeOK' /\ StreamTypeOK' /\ ServerTypeOK'
    BY <2>1 DEF ClientTypeOK, StreamTypeOK, ServerTypeOK
  <2>4. Links'
    BY <2>1, LinksKept
  <2> QED BY <2>2, <2>3, <2>4, Assemble
<1> QED BY <1>2, <1>3

\* HandleProtocols: the server sent them after it had stored the version.
LEMMA HandleProtocolsInv ==
  ASSUME IInv, HandleProtocols
  PROVE  IInv'
<1> USE HandshakeAssumption DEF IInv, TypeOK, HandleProtocols, cEnd, svars, sKnown
<1>1. FlagsOK'
  BY Zenon DEF FlagsOK
<1>2. /\ Head(s2c) \in ServerMessages /\ Head(s2c) = s2c[1] /\ 1 \in 1..Len(s2c)
      /\ s2c' \in Seq(ServerMessages) /\ cBatch' \in 0..Len(s2c')
      /\ \A i \in 1..Len(s2c') : s2c'[i] = s2c[i + 1] /\ i + 1 \in 1..Len(s2c)
  BY ClientTakes
<1>3. Head(s2c).type = "protocols"
  BY DEF ClientNext
<1>4. cSpecs' \in Seq(Protocols)
  BY <1>2, <1>3, MessageFields, ConcatFacts DEF ClientTypeOK
<1>5. ClientTypeOK' /\ StreamTypeOK' /\ ServerTypeOK'
  BY <1>2, <1>4 DEF ClientTypeOK, StreamTypeOK, ServerTypeOK
<1>6. sVersion # 0
  BY <1>2, <1>3 DEF Links, AnswersFollow
<1>7. AnswersFollow' /\ KnownFollows'
  BY <1>2, <1>6 DEF Links, AnswersFollow, KnownFollows
<1>8. AcksOffered' /\ BindsFollow' /\ StoredIsAckd'
  BY DEF Links, AcksOffered, BindsFollow, StoredIsAckd
<1> QED BY <1>1, <1>5, <1>7, <1>8, Assemble DEF Links

\* The client takes a message that changes nothing the links are about.
LEMMA TakenLinks ==
  ASSUME Links, UNCHANGED <<c2s, sVersion, cDone, cSpecs>>,
         \A i \in 1..Len(s2c') : s2c'[i] = s2c[i + 1] /\ i + 1 \in 1..Len(s2c)
  PROVE  Links'
<1>1. AnswersFollow'
  BY DEF Links, AnswersFollow
<1>2. AcksOffered' /\ BindsFollow' /\ StoredIsAckd' /\ KnownFollows'
  BY DEF Links, AcksOffered, BindsFollow, StoredIsAckd, KnownFollows
<1> QED BY <1>1, <1>2 DEF Links

\* HandleNewObject: a root has its id.
LEMMA HandleNewObjectInv ==
  ASSUME IInv, HandleNewObject
  PROVE  IInv'
<1> USE HandshakeAssumption DEF IInv, TypeOK, HandleNewObject, cEnd, svars, sKnown
<1>1. FlagsOK'
  BY Zenon DEF FlagsOK
<1>2. /\ s2c' \in Seq(ServerMessages) /\ cBatch' \in 0..Len(s2c')
      /\ \A i \in 1..Len(s2c') : s2c'[i] = s2c[i + 1] /\ i + 1 \in 1..Len(s2c)
  BY ClientTakes
<1>3. ClientTypeOK' /\ StreamTypeOK' /\ ServerTypeOK'
  BY <1>2 DEF ClientTypeOK, StreamTypeOK, ServerTypeOK
<1>4. Links'
  BY <1>2, TakenLinks
<1> QED BY <1>1, <1>3, <1>4, Assemble

\* HandleFatal: the error flag is set.
LEMMA HandleFatalInv ==
  ASSUME IInv, HandleFatal
  PROVE  IInv'
<1> USE HandshakeAssumption DEF IInv, TypeOK, HandleFatal, cKnown, svars, sKnown
<1>1. FlagsOK'
  BY Zenon DEF FlagsOK
<1>2. /\ s2c' \in Seq(ServerMessages) /\ cBatch' \in 0..Len(s2c')
      /\ \A i \in 1..Len(s2c') : s2c'[i] = s2c[i + 1] /\ i + 1 \in 1..Len(s2c)
  BY ClientTakes
<1>3. ClientTypeOK' /\ StreamTypeOK' /\ ServerTypeOK'
  BY <1>2 DEF ClientTypeOK, StreamTypeOK, ServerTypeOK
<1>4. Links'
  BY <1>2, TakenLinks
<1> QED BY <1>1, <1>3, <1>4, Assemble

\* The server takes a message and answers it; the version may become stored.
LEMMA AnsweredLinks ==
  ASSUME Links, StreamTypeOK, NEW m \in ServerMessages, s2c' = ToClient(m),
         UNCHANGED <<cDone, cSpecs>>, sVersion # 0 => sVersion' # 0,
         sVersion' # 0 => sVersion' = ClientVersion /\ ClientVersion \in Offered,
         m.type = "protocols" => sVersion' # 0,
         \A i \in 1..Len(c2s') : c2s'[i] = c2s[i + 1] /\ i + 1 \in 1..Len(c2s)
  PROVE  Links'
<1>1. AcksOffered' /\ BindsFollow' /\ StoredIsAckd' /\ KnownFollows'
  BY DEF Links, AcksOffered, BindsFollow, StoredIsAckd, KnownFollows
<1>2. AnswersFollow'
  BY ToClientFacts DEF Links, AnswersFollow
<1> QED BY <1>1, <1>2 DEF Links

\* HandleHello: the server offers its versions.
LEMMA HandleHelloInv ==
  ASSUME IInv, HandleHello
  PROVE  IInv'
<1> USE HandshakeAssumption DEF IInv, TypeOK, HandleHello, cvars, cEnd, cCall, cKnown, sKnown
<1>1. FlagsOK'
  BY Zenon DEF FlagsOK
<1>2. /\ c2s' \in Seq(ClientMessages) /\ sBatch' \in 0..Len(c2s')
      /\ \A i \in 1..Len(c2s') : c2s'[i] = c2s[i + 1] /\ i + 1 \in 1..Len(c2s)
  BY ServerTakes
<1>3. PICK versions \in Offers : s2c' = ToClient(BeginMsg(versions))
  OBVIOUS
<1>7. BeginMsg(versions) \in ServerMessages
  BY MessageTypes
<1>4. s2c' \in Seq(ServerMessages) /\ Len(s2c) <= Len(s2c') /\ Len(s2c) \in Nat /\ Len(s2c') \in Nat
  BY <1>3, <1>7, ToClientFacts
<1>5. ClientTypeOK' /\ StreamTypeOK' /\ ServerTypeOK'
  BY <1>2, <1>4 DEF ClientTypeOK, StreamTypeOK, ServerTypeOK
<1>6. Links'
  BY <1>2, <1>3, <1>7, AnsweredLinks DEF BeginMsg, Links, StoredIsAckd
<1> QED BY <1>1, <1>5, <1>6, Assemble

\* HandleAck: the version is stored, and the protocols are sent.
LEMMA HandleAckInv ==
  ASSUME IInv, HandleAck
  PROVE  IInv'
<1> USE HandshakeAssumption DEF IInv, TypeOK, HandleAck, cvars, cEnd, cCall, cKnown
<1>1. FlagsOK'
  BY Zenon DEF FlagsOK
<1>2. /\ Head(c2s) \in ClientMessages /\ Head(c2s) = c2s[1] /\ 1 \in 1..Len(c2s)
      /\ Head(c2s).type = "ack"
      /\ c2s' \in Seq(ClientMessages) /\ sBatch' \in 0..Len(c2s')
      /\ \A i \in 1..Len(c2s') : c2s'[i] = c2s[i + 1] /\ i + 1 \in 1..Len(c2s)
  BY ServerTakes
<1>3. sVersion' = ClientVersion /\ ClientVersion \in Offered /\ sVersion' # 0
  BY <1>2 DEF Links, AcksOffered
<1>4. ProtocolsMsg(sImpls) \in ServerMessages
  BY MessageTypes DEF ServerTypeOK
<1>5. s2c' \in Seq(ServerMessages) /\ Len(s2c) <= Len(s2c') /\ Len(s2c) \in Nat /\ Len(s2c') \in Nat
  BY <1>4, ToClientFacts
<1>6. ClientTypeOK' /\ StreamTypeOK' /\ ServerTypeOK'
  <2>1. ClientTypeOK'
    BY <1>5 DEF ClientTypeOK
  <2>2. StreamTypeOK'
    BY <1>2, <1>5 DEF StreamTypeOK
  <2>3. ServerTypeOK'
    BY <1>2, <1>3 DEF ServerTypeOK
  <2> QED BY <2>1, <2>2, <2>3
<1>7. Links'
  BY <1>2, <1>3, <1>4, AnsweredLinks
<1> QED BY <1>1, <1>6, <1>7, Assemble

\* HandleBind: a root is made.
LEMMA HandleBindInv ==
  ASSUME IInv, HandleBind
  PROVE  IInv'
<1> USE HandshakeAssumption DEF IInv, TypeOK, HandleBind, cvars, cEnd, cCall, cKnown
<1>1. FlagsOK'
  BY Zenon DEF FlagsOK
<1>2. /\ Head(c2s) \in ClientMessages /\ Head(c2s).type = "bind"
      /\ c2s' \in Seq(ClientMessages) /\ sBatch' \in 0..Len(c2s')
      /\ \A i \in 1..Len(c2s') : c2s'[i] = c2s[i + 1] /\ i + 1 \in 1..Len(c2s)
  BY ServerTakes
<1>3. Head(c2s).name \in Names /\ Head(c2s).version \in Nat
  BY <1>2, MessageFields
<1>4. NewMsg \in ServerMessages
  BY MessageTypes
<1>5. s2c' \in Seq(ServerMessages) /\ Len(s2c) <= Len(s2c') /\ Len(s2c) \in Nat /\ Len(s2c') \in Nat
  BY <1>4, ToClientFacts
<1>6. ClientTypeOK' /\ StreamTypeOK' /\ ServerTypeOK'
  BY <1>2, <1>3, <1>5 DEF ClientTypeOK, StreamTypeOK, ServerTypeOK
<1>7. Links'
  BY <1>2, <1>4, AnsweredLinks DEF NewMsg, Links, StoredIsAckd
<1> QED BY <1>1, <1>6, <1>7, Assemble

\* HandleMalformedBind: the client is removed.
LEMMA HandleMalformedBindInv ==
  ASSUME IInv, HandleMalformedBind
  PROVE  IInv'
<1> USE HandshakeAssumption DEF IInv, TypeOK, HandleMalformedBind, RemoveClient,
        cvars, cEnd, cCall, cKnown, sKnown
<1>1. FlagsOK'
  BY Zenon DEF FlagsOK
<1>2. FatalMsg \in ServerMessages
  BY MessageTypes
<1>3. s2c' \in Seq(ServerMessages) /\ Len(s2c) <= Len(s2c') /\ Len(s2c) \in Nat /\ Len(s2c') \in Nat
  BY <1>2, ToClientFacts
<1>4. ClientTypeOK' /\ StreamTypeOK' /\ ServerTypeOK'
  BY <1>3 DEF ClientTypeOK, StreamTypeOK, ServerTypeOK
<1>5. Links'
  <2>1. \A i \in 1..Len(c2s') : c2s'[i] = c2s[i + 1] /\ i + 1 \in 1..Len(c2s)
    OBVIOUS
  <2> QED BY <1>2, <2>1, AnsweredLinks DEF FatalMsg, Links, StoredIsAckd
<1> QED BY <1>1, <1>4, <1>5, Assemble

-----------------------------------------------------------------------------
(* The theorems. *)

\* Every step keeps the invariant.
LEMMA NextInv == ASSUME IInv, [Next]_vars PROVE IInv'
<1>1. CASE UNCHANGED vars
  <2> USE <1>1 DEF IInv, TypeOK, vars, cvars, svars, cEnd, cCall, cKnown, sKnown
  <2>1. FlagsOK'
    BY Zenon DEF FlagsOK
  <2>2. ClientTypeOK' /\ StreamTypeOK' /\ ServerTypeOK'
    BY DEF ClientTypeOK, StreamTypeOK, ServerTypeOK
  <2>3. Links'
    BY LinksKept
  <2> QED BY <2>1, <2>2, <2>3, Assemble
<1>2. CASE \E n \in Names : Bind(n)
  BY <1>2, BindInv
<1>3. CASE ClientDispatch
  BY <1>3, WaitReturnsInv, DispatchInv, PollTimesOutInv, PollFindsNothingInv, ClientReadsInv, ClientReadsEndInv, HandleBeginInv, HandleProtocolsInv, HandleNewObjectInv, HandleFatalInv, DispatchReturnsInv
     DEF ClientDispatch
<1>4. CASE ServerDispatch
  BY <1>4, AcceptInv, ServerReadsInv, HandleHelloInv, HandleAckInv, HandleBindInv, HandleMalformedBindInv, ServerEndsBatchInv, ServerReadsEndInv
     DEF ServerDispatch
<1>5. CASE WaitForHandshake \/ ClientExits \/ Tick \/ AddImplementation \/ ServerExits
  BY <1>5, WaitForHandshakeInv, ClientExitsInv, TickInv, AddImplementationInv, ServerExitsInv
<1> QED BY <1>1, <1>2, <1>3, <1>4, <1>5 DEF Next

\* The inductive invariant holds in every reachable state.
THEOREM Inductive == Spec => []IInv
  BY InitInv, NextInv, PTL DEF Spec

\* Every reachable state is well typed: batches lie within the streams, and
\* every message has the fields its handler reads.
THEOREM TypeCorrect == Spec => []TypeOK
<1>1. IInv => TypeOK
  BY DEF IInv
<1> QED BY <1>1, Inductive, PTL

\* A client that takes the handshake for done runs the version the server has
\* stored for it, and the server had offered that version.
THEOREM HandshakesAgree == Spec => []Agreement
<1>1. IInv => Agreement
  BY DEF IInv, Links, KnownFollows, StoredIsAckd, Agreement
<1> QED BY <1>1, Inductive, PTL

\* The server never handles a bind of a client whose version it has not stored.
THEOREM BindsComeAfterAcks == Spec => []BindAfterAck
<1>1. IInv => BindAfterAck
  <2> SUFFICES ASSUME IInv, sBatch > 0, Head(c2s).type = "bind"
               PROVE  sVersion # 0
    BY DEF BindAfterAck
  <2>1. c2s \in Seq(ClientMessages) /\ c2s # <<>>
    BY DEF IInv, TypeOK, StreamTypeOK, ServerTypeOK
  <2>2. Head(c2s) = c2s[1] /\ 1 \in 1..Len(c2s)
    BY <2>1, TailFacts
  <2> QED BY <2>2 DEF IInv, Links, BindsFollow
<1> QED BY <1>1, Inductive, PTL

-----------------------------------------------------------------------------
(* A handshake that ran out of time stays over: the error flag keeps every  *)
(* later dispatch from reading the answer.                                  *)

TimedOutIsOver == cTimedOut => cError /\ ~cDone /\ cpc \in {"app", "exited"}

\* Every step keeps a handshake that ran out of time over.
LEMMA TimedOutStays ==
  ASSUME TimedOutIsOver, [Next]_vars
  PROVE  TimedOutIsOver' /\ (cTimedOut => cTimedOut')
<1> USE DEF TimedOutIsOver, vars, cvars, svars, cEnd, cCall, cKnown, sKnown
<1>1. CASE UNCHANGED vars
  BY <1>1
<1>2. CASE \E n \in Names : Bind(n)
  BY <1>2 DEF Bind
<1>3. CASE ClientDispatch
  <2>1. CASE WaitReturns
    BY <2>1 DEF WaitReturns
  <2>2. CASE Dispatch
    BY <2>2 DEF Dispatch
  <2>3. CASE PollTimesOut
    <3>1. cpc = "poll" /\ ~cDone /\ cDone' = cDone
      BY <2>3 DEF PollTimesOut
    <3>2. cTimedOut' /\ cError' /\ cpc' = "app"
      BY <2>3 DEF PollTimesOut, ReturnErr
    <3> QED BY <3>1, <3>2
  <2>4. CASE \/ PollFindsNothing \/ ClientReads \/ ClientReadsEnd
           \/ HandleBegin \/ HandleProtocols \/ HandleNewObject \/ HandleFatal
           \/ DispatchReturns
    <3>1. cpc \in {"poll", "batch"}
      BY <2>4 DEF PollFindsNothing, ClientReads, ClientReadsEnd, HandleBegin,
         HandleProtocols, HandleNewObject, HandleFatal, DispatchReturns, ClientNext
    <3>2. cTimedOut' = cTimedOut
      BY <2>4 DEF PollFindsNothing, ClientReads, ClientReadsEnd, HandleBegin,
         HandleProtocols, HandleNewObject, HandleFatal, DispatchReturns
    <3> QED BY <3>1, <3>2
  <2> QED BY <1>3, <2>1, <2>2, <2>3, <2>4 DEF ClientDispatch
<1>4. CASE ServerDispatch
  BY <1>4 DEF ServerDispatch, Accept, ServerReads, HandleHello, HandleAck, HandleBind,
     HandleMalformedBind, ServerEndsBatch, ServerReadsEnd
<1>5. CASE WaitForHandshake \/ ClientExits \/ Tick \/ AddImplementation \/ ServerExits
  BY <1>5 DEF WaitForHandshake, ClientExits, Tick, AddImplementation, ServerExits
<1> QED BY <1>1, <1>2, <1>3, <1>4, <1>5 DEF Next

\* After HandshakeTimeout the handshake never completes, whatever is on its way.
THEOREM NoLateSuccessEver == Spec => NoLateSuccess
<1>1. Init => TimedOutIsOver
  BY DEF Init, TimedOutIsOver
<1>2. TimedOutIsOver /\ [Next]_vars => [cTimedOut => ~cDone']_vars
  BY TimedOutStays DEF TimedOutIsOver
<1> QED BY <1>1, <1>2, TimedOutStays, PTL DEF Spec, NoLateSuccess

-----------------------------------------------------------------------------
(* The versions of the roots.  What the client knows of a protocol is what *)
(* the server's list said when it was sent, and says still: the first      *)
(* entry of a name stays the first when others are registered.             *)

\* Of the names that ps has, qs has a first entry of the same version.
AsIn(ps, qs) ==
  \A n \in Names :
    Places(ps, n) # {} => Places(qs, n) # {} /\ VersionOf(ps, n) = VersionOf(qs, n)

\* A version that a list has for the name.
Backed(n, v, qs) == Places(qs, n) # {} /\ v <= VersionOf(qs, n)

VersionsFollow ==
  /\ AsIn(cSpecs, sImpls)
  /\ \A i \in 1..Len(s2c) : s2c[i].type = "protocols" => AsIn(s2c[i].specs, sImpls)
  /\ \A i \in 1..Len(c2s) :
       c2s[i].type = "bind" => Backed(c2s[i].name, c2s[i].version, sImpls)
  /\ \A i \in 1..Len(sRoots) : Backed(sRoots[i].name, sRoots[i].version, sImpls)

\* VersionOf is the version at the first place of the name.
LEMMA FirstPlace ==
  ASSUME NEW ps \in Seq(Protocols), NEW n,
         NEW i \in Places(ps, n), \A j \in Places(ps, n) : i <= j
  PROVE  VersionOf(ps, n) = ps[i].version
<1> DEFINE first == CHOOSE k \in Places(ps, n) : \A j \in Places(ps, n) : k <= j
<1>1. first \in Places(ps, n) /\ \A j \in Places(ps, n) : first <= j
  OBVIOUS
<1>2. Places(ps, n) \subseteq Nat
  BY DEF Places
<1>3. first = i
  BY <1>1, <1>2
<1> QED
  BY <1>3 DEF VersionOf

LEMMA FirstExists ==
  ASSUME NEW ps \in Seq(Protocols), NEW n, Places(ps, n) # {}
  PROVE  \E i \in Places(ps, n) :
           (\A j \in Places(ps, n) : i <= j) /\ VersionOf(ps, n) = ps[i].version
<1>1. Places(ps, n) \subseteq Nat
  BY DEF Places
<1>2. PICK i \in Places(ps, n) : \A j \in Places(ps, n) : i <= j
  BY <1>1, LeastOf
<1> QED
  BY <1>2, FirstPlace

\* What is put behind a list does not change the first entries it has.
LEMMA BehindKeeps ==
  ASSUME NEW ps \in Seq(Protocols), NEW rs \in Seq(Protocols), NEW n,
         Places(ps, n) # {}
  PROVE  Places(ps \o rs, n) # {} /\ VersionOf(ps \o rs, n) = VersionOf(ps, n)
<1>1. /\ ps \o rs \in Seq(Protocols) /\ Len(ps \o rs) = Len(ps) + Len(rs)
      /\ Len(ps) \in Nat /\ Len(rs) \in Nat
      /\ \A i \in 1..Len(ps) : (ps \o rs)[i] = ps[i]
  OBVIOUS
<1>2. PICK i \in Places(ps, n) :
        (\A j \in Places(ps, n) : i <= j) /\ VersionOf(ps, n) = ps[i].version
  BY FirstExists
<1>3. i \in 1..Len(ps) /\ ps[i].name = n
  BY <1>2 DEF Places
<1>4. i \in Places(ps \o rs, n)
  BY <1>1, <1>3 DEF Places
<1>5. ASSUME NEW j \in Places(ps \o rs, n) PROVE i <= j
  <2>1. j \in 1..(Len(ps) + Len(rs)) /\ (ps \o rs)[j].name = n
    BY <1>1, <1>5 DEF Places
  <2>2. CASE j \in 1..Len(ps)
    <3>1. j \in Places(ps, n)
      BY <1>1, <2>1, <2>2 DEF Places
    <3> QED
      BY <1>2, <3>1
  <2>3. CASE j > Len(ps)
    BY <1>1, <1>3, <2>1, <2>3
  <2> QED
    BY <1>1, <2>1, <2>2, <2>3
<1>6. VersionOf(ps \o rs, n) = (ps \o rs)[i].version
  BY <1>1, <1>4, <1>5, FirstPlace
<1> QED
  BY <1>1, <1>2, <1>3, <1>4, <1>6

\* A list behind another adds the first entries of the names the other lacks.
LEMMA BehindAdds ==
  ASSUME NEW ps \in Seq(Protocols), NEW rs \in Seq(Protocols), NEW n,
         Places(ps, n) = {}, Places(ps \o rs, n) # {}
  PROVE  Places(rs, n) # {} /\ VersionOf(ps \o rs, n) = VersionOf(rs, n)
<1>1. /\ ps \o rs \in Seq(Protocols) /\ Len(ps \o rs) = Len(ps) + Len(rs)
      /\ Len(ps) \in Nat /\ Len(rs) \in Nat
      /\ \A i \in 1..Len(ps) : (ps \o rs)[i] = ps[i]
      /\ \A i \in 1..Len(rs) : (ps \o rs)[Len(ps) + i] = rs[i]
  OBVIOUS
<1>2. ASSUME NEW j \in Places(ps \o rs, n)
      PROVE  j - Len(ps) \in Places(rs, n) /\ j \in Nat
  <2>1. j \in 1..(Len(ps) + Len(rs)) /\ (ps \o rs)[j].name = n
    BY <1>1, <1>2 DEF Places
  <2>2. j \notin 1..Len(ps)
    BY <1>1, <2>1 DEF Places
  <2>3. j - Len(ps) \in 1..Len(rs) /\ Len(ps) + (j - Len(ps)) = j
    BY <1>1, <2>1, <2>2
  <2>4. rs[j - Len(ps)] = (ps \o rs)[j]
    BY <1>1, <2>3
  <2> QED
    BY <2>1, <2>3, <2>4 DEF Places
<1>3. Places(rs, n) # {}
  BY <1>2
<1>4. PICK i \in Places(rs, n) :
        (\A j \in Places(rs, n) : i <= j) /\ VersionOf(rs, n) = rs[i].version
  BY <1>3, FirstExists
<1>5. i \in 1..Len(rs) /\ rs[i].name = n
  BY <1>4 DEF Places
<1>6. /\ Len(ps) + i \in Places(ps \o rs, n) /\ (ps \o rs)[Len(ps) + i] = rs[i]
  BY <1>1, <1>5 DEF Places
<1>7. ASSUME NEW j \in Places(ps \o rs, n) PROVE Len(ps) + i <= j
  <2>1. i <= j - Len(ps)
    BY <1>2, <1>4
  <2> QED
    BY <1>1, <1>2, <1>5, <2>1
<1>8. VersionOf(ps \o rs, n) = (ps \o rs)[Len(ps) + i].version
  BY <1>1, <1>6, <1>7, FirstPlace
<1> QED
  BY <1>3, <1>4, <1>6, <1>8

LEMMA ConcatAsIn ==
  ASSUME NEW ps \in Seq(Protocols), NEW rs \in Seq(Protocols), NEW qs \in Seq(Protocols),
         AsIn(ps, qs), AsIn(rs, qs)
  PROVE  AsIn(ps \o rs, qs)
<1> SUFFICES ASSUME NEW n \in Names, Places(ps \o rs, n) # {}
             PROVE  Places(qs, n) # {} /\ VersionOf(ps \o rs, n) = VersionOf(qs, n)
  BY DEF AsIn
<1>1. CASE Places(ps, n) # {}
  BY <1>1, BehindKeeps DEF AsIn
<1>2. CASE Places(ps, n) = {}
  BY <1>2, BehindAdds DEF AsIn
<1> QED
  BY <1>1, <1>2

\* Registering a protocol takes nothing back.
LEMMA RegisteredKeeps ==
  ASSUME NEW qs \in Seq(Protocols), NEW p \in Protocols
  PROVE  /\ \A ps : AsIn(ps, qs) => AsIn(ps, Append(qs, p))
         /\ \A n, v : Backed(n, v, qs) => Backed(n, v, Append(qs, p))
<1>1. Append(qs, p) = qs \o <<p>> /\ <<p>> \in Seq(Protocols)
  OBVIOUS
<1>2. ASSUME NEW n, Places(qs, n) # {}
      PROVE  /\ Places(Append(qs, p), n) # {}
             /\ VersionOf(Append(qs, p), n) = VersionOf(qs, n)
  <2>1. Places(qs \o <<p>>, n) # {} /\ VersionOf(qs \o <<p>>, n) = VersionOf(qs, n)
    BY <1>1, <1>2, BehindKeeps
  <2> QED
    BY <1>1, <2>1, Zenon
<1>3. \A ps : AsIn(ps, qs) => AsIn(ps, Append(qs, p))
  BY <1>2 DEF AsIn
<1>4. \A n, v : Backed(n, v, qs) => Backed(n, v, Append(qs, p))
  BY <1>2 DEF Backed
<1> QED
  BY <1>3, <1>4

(* A step that registers nothing, and whose messages and roots are old or  *)
(* follow the server's list themselves.                                    *)
LEMMA VersionsCarry ==
  ASSUME VersionsFollow, sImpls' = sImpls, AsIn(cSpecs', sImpls),
         \A i \in 1..Len(s2c') :
           \/ \E j \in 1..Len(s2c) : s2c'[i] = s2c[j]
           \/ s2c'[i].type # "protocols" \/ AsIn(s2c'[i].specs, sImpls),
         \A i \in 1..Len(c2s') :
           \/ \E j \in 1..Len(c2s) : c2s'[i] = c2s[j]
           \/ c2s'[i].type # "bind" \/ Backed(c2s'[i].name, c2s'[i].version, sImpls),
         \A i \in 1..Len(sRoots') :
           \/ \E j \in 1..Len(sRoots) : sRoots'[i] = sRoots[j]
           \/ Backed(sRoots'[i].name, sRoots'[i].version, sImpls)
  PROVE  VersionsFollow'
  BY DEF VersionsFollow

\* All of r was in q: it stays, is emptied, or has lost its head.
Old(r, q) == \A i \in 1..Len(r) : \E j \in 1..Len(q) : r[i] = q[j]

LEMMA NothingNew ==
  ASSUME NEW T, NEW q \in Seq(T)
  PROVE  Old(q, q) /\ Old(<<>>, q) /\ (q # <<>> => Old(Tail(q), q))
<1>1. Old(q, q) /\ Old(<<>>, q)
  BY DEF Old
<1>2. q # <<>> => Old(Tail(q), q)
  BY TailFacts DEF Old
<1> QED
  BY <1>1, <1>2

LEMMA VersionsStep ==
  ASSUME IInv, VersionsFollow, [Next]_vars
  PROVE  VersionsFollow'
<1> USE DEF vars, cvars, svars, cEnd, cCall, cKnown, sKnown
<1>0. /\ TypeOK /\ StreamTypeOK /\ AsIn(cSpecs, sImpls)
      /\ cSpecs \in Seq(Protocols) /\ sImpls \in Seq(Protocols)
      /\ c2s \in Seq(ClientMessages) /\ s2c \in Seq(ServerMessages)
      /\ sRoots \in Seq([name : Names, version : Nat])
  BY DEF IInv, TypeOK, StreamTypeOK, ClientTypeOK, ServerTypeOK, VersionsFollow
\* A step that sends nothing.
<1>1. ASSUME UNCHANGED <<cSpecs, sImpls, sRoots>>,
             c2s' = c2s \/ c2s' = <<>>, s2c' = s2c \/ s2c' = <<>>
      PROVE  VersionsFollow'
  <2>1. Old(c2s', c2s) /\ Old(s2c', s2c)
    BY <1>0, <1>1, NothingNew, Zenon
  <2>2. Old(sRoots', sRoots)
    BY <1>0, <1>1, NothingNew, Zenon
  <2> QED
    BY <1>0, <1>1, <2>1, <2>2, VersionsCarry DEF Old
\* The client handles a message, and may write one that is no bind.
<1>2. ASSUME UNCHANGED <<sImpls, sRoots>>, AsIn(cSpecs', sImpls),
             NEW t, ClientNext(t), s2c' = Tail(s2c) \/ s2c' = <<>>,
             c2s' = c2s \/ c2s' = ToServer(AckMsg(ClientVersion))
      PROVE  VersionsFollow'
  <2>1. s2c # <<>>
    BY <1>0, <1>2 DEF ClientNext, TypeOK, ClientTypeOK
  <2>2. Old(s2c', s2c)
    BY <1>0, <1>2, <2>1, NothingNew, Zenon
  <2>3. AckMsg(ClientVersion) \in ClientMessages /\ AckMsg(ClientVersion).type # "bind"
    BY MessageTypes, HandshakeAssumption DEF AckMsg
  <2>4. \A i \in 1..Len(c2s') :
          (\E j \in 1..Len(c2s) : c2s'[i] = c2s[j]) \/ c2s'[i].type # "bind"
    BY <1>0, <1>2, <2>3, ToServerFacts
  <2> QED
    BY <1>2, <2>2, <2>4, VersionsCarry DEF Old
\* The server handles a message, answers, and may make a root.
<1>3. ASSUME UNCHANGED <<cSpecs, sImpls>>, NEW t, ServerNext(t),
             NEW m \in ServerMessages, s2c' = ToClient(m),
             m.type # "protocols" \/ AsIn(m.specs, sImpls),
             \/ sRoots' = sRoots
             \/ t = "bind" /\ sRoots' = Append(sRoots, [name |-> Head(c2s).name,
                                                        version |-> Head(c2s).version])
      PROVE  VersionsFollow'
  <2>1. /\ Head(c2s) \in ClientMessages /\ Head(c2s) = c2s[1] /\ 1 \in 1..Len(c2s)
        /\ Head(c2s).type = t
        /\ \A i \in 1..Len(c2s') : c2s'[i] = c2s[i + 1] /\ i + 1 \in 1..Len(c2s)
    BY <1>0, <1>3, ServerTakes
  <2>2. \A i \in 1..Len(s2c') : (\E j \in 1..Len(s2c) : s2c'[i] = s2c[j]) \/ s2c'[i] = m
    BY <1>0, <1>3, ToClientFacts
  <2>3. \A i \in 1..Len(sRoots') :
          \/ \E j \in 1..Len(sRoots) : sRoots'[i] = sRoots[j]
          \/ Backed(sRoots'[i].name, sRoots'[i].version, sImpls)
    <3>1. CASE sRoots' = sRoots
      BY <3>1
    <3>2. CASE t = "bind" /\ sRoots' = Append(sRoots, [name |-> Head(c2s).name,
                                                       version |-> Head(c2s).version])
      <4> DEFINE r == [name |-> Head(c2s).name, version |-> Head(c2s).version]
      <4>1. r \in [name : Names, version : Nat] /\ Backed(r.name, r.version, sImpls)
        BY <2>1, <3>2, MessageFields DEF VersionsFollow
      <4> HIDE DEF r
      <4>2. /\ Len(sRoots') = Len(sRoots) + 1 /\ Len(sRoots) \in Nat
            /\ \A i \in 1..Len(sRoots) : sRoots'[i] = sRoots[i]
            /\ sRoots'[Len(sRoots) + 1] = r
        BY <1>0, <3>2, <4>1, AppendFacts DEF r
      <4>3. ASSUME NEW i \in 1..Len(sRoots')
            PROVE  (i \in 1..Len(sRoots) /\ sRoots'[i] = sRoots[i]) \/ sRoots'[i] = r
        BY <4>2
      <4> QED
        BY <4>1, <4>3
    <3> QED
      BY <1>3, <3>1, <3>2
  <2>4. \A i \in 1..Len(c2s') : \E j \in 1..Len(c2s) : c2s'[i] = c2s[j]
    BY <2>1
  <2>5. \A i \in 1..Len(s2c') :
          \/ \E j \in 1..Len(s2c) : s2c'[i] = s2c[j]
          \/ s2c'[i].type # "protocols" \/ AsIn(s2c'[i].specs, sImpls)
    BY <1>3, <2>2
  <2> QED
    BY <1>0, <1>3, <2>3, <2>4, <2>5, VersionsCarry
<1>4. ASSUME NEW n \in Names, Bind(n) PROVE VersionsFollow'
  <2>1. PICK v \in 0..Advertised(n) : c2s' = ToServer(BindMsg(n, v))
    BY <1>4 DEF Bind
  <2>2. /\ Places(cSpecs, n) # {} /\ UNCHANGED <<cSpecs, sImpls, sRoots, s2c>>
    BY <1>4 DEF Bind
  <2>3. Places(sImpls, n) # {} /\ Advertised(n) = VersionOf(sImpls, n)
    BY <1>0, <2>2 DEF AsIn, Advertised
  <2>4. /\ v \in Nat /\ v <= Advertised(n)
    <3>1. Advertised(n) \in Nat
      <4>1. PICK i \in Places(cSpecs, n) : Advertised(n) = cSpecs[i].version
        BY <1>0, <2>2, FirstExists DEF Advertised
      <4>2. cSpecs[i] \in Protocols
        BY <1>0, <4>1 DEF Places
      <4> QED
        BY <4>1, <4>2 DEF Protocols
    <3> QED
      BY <2>1, <3>1
  <2>5. Backed(n, v, sImpls)
    BY <2>3, <2>4 DEF Backed
  <2>6. BindMsg(n, v) \in ClientMessages
    BY <2>4, MessageTypes
  <2>7. BindMsg(n, v).name = n /\ BindMsg(n, v).version = v
    BY DEF BindMsg
  <2>8. \A i \in 1..Len(c2s') :
          \/ \E j \in 1..Len(c2s) : c2s'[i] = c2s[j]
          \/ Backed(c2s'[i].name, c2s'[i].version, sImpls)
    BY <1>0, <2>1, <2>5, <2>6, <2>7, ToServerFacts
  <2> QED
    BY <1>0, <2>2, <2>8, VersionsCarry
<1>5. CASE HandleBegin
  BY <1>0, <1>2, <1>5 DEF HandleBegin, Handled
<1>6. CASE HandleProtocols
  <2>1. /\ ClientNext("protocols") /\ s2c' = Tail(s2c) /\ c2s' = c2s
        /\ cSpecs' = cSpecs \o Head(s2c).specs /\ UNCHANGED <<sImpls, sRoots>>
    BY <1>6 DEF HandleProtocols, Handled
  <2>2. /\ Head(s2c) \in ServerMessages /\ Head(s2c) = s2c[1] /\ 1 \in 1..Len(s2c)
        /\ Head(s2c).type = "protocols"
    BY <1>0, <1>6, ClientTakes DEF HandleProtocols, ClientNext
  <2>3. Head(s2c).specs \in Seq(Protocols) /\ AsIn(Head(s2c).specs, sImpls)
    BY <2>2, MessageFields DEF VersionsFollow
  <2>4. AsIn(cSpecs', sImpls)
    BY <1>0, <2>1, <2>3, ConcatAsIn
  <2> QED
    BY <1>2, <2>1, <2>4
<1>7. CASE HandleNewObject \/ HandleFatal
  <2>1. /\ \E t \in {"new", "fatal"} : ClientNext(t)
        /\ s2c' = Tail(s2c) /\ c2s' = c2s /\ UNCHANGED <<cSpecs, sImpls, sRoots>>
    BY <1>7 DEF HandleNewObject, HandleFatal, Handled
  <2> QED
    BY <1>0, <1>2, <2>1
<1>8. CASE HandleHello
  <2>1. PICK versions \in Offers : s2c' = ToClient(BeginMsg(versions))
    BY <1>8 DEF HandleHello
  <2>2. BeginMsg(versions) \in ServerMessages /\ BeginMsg(versions).type # "protocols"
    BY MessageTypes DEF BeginMsg
  <2>3. ServerNext("hello") /\ UNCHANGED <<cSpecs, sImpls, sRoots>>
    BY <1>8 DEF HandleHello
  <2> QED
    BY <1>3, <2>1, <2>2, <2>3
<1>9. CASE HandleAck
  <2>1. /\ ServerNext("ack") /\ s2c' = ToClient(ProtocolsMsg(sImpls))
        /\ UNCHANGED <<cSpecs, sImpls, sRoots>>
    BY <1>9 DEF HandleAck
  <2>2. ProtocolsMsg(sImpls) \in ServerMessages /\ ProtocolsMsg(sImpls).specs = sImpls
    BY <1>0, MessageTypes DEF ProtocolsMsg
  <2>3. AsIn(sImpls, sImpls)
    BY DEF AsIn
  <2> QED
    BY <1>3, <2>1, <2>2, <2>3
<1>10. CASE HandleBind
  <2>1. /\ ServerNext("bind") /\ s2c' = ToClient(NewMsg)
        /\ sRoots' = Append(sRoots, [name |-> Head(c2s).name,
                                     version |-> Head(c2s).version])
        /\ UNCHANGED <<cSpecs, sImpls>>
    BY <1>10 DEF HandleBind
  <2>2. NewMsg \in ServerMessages /\ NewMsg.type # "protocols"
    BY MessageTypes DEF NewMsg
  <2> QED
    BY <1>3, <2>1, <2>2
<1>11. CASE HandleMalformedBind
  <2>1. /\ s2c' = ToClient(FatalMsg) /\ c2s' = <<>>
        /\ UNCHANGED <<cSpecs, sImpls, sRoots>>
    BY <1>11 DEF HandleMalformedBind, RemoveClient
  <2>2. FatalMsg \in ServerMessages /\ FatalMsg.type # "protocols"
    BY MessageTypes DEF FatalMsg
  <2>3. \A i \in 1..Len(s2c') :
          (\E j \in 1..Len(s2c) : s2c'[i] = s2c[j]) \/ s2c'[i].type # "protocols"
    BY <1>0, <2>1, <2>2, ToClientFacts
  <2>4. Old(c2s', c2s)
    BY <1>0, <2>1, NothingNew, Zenon
  <2> QED
    BY <1>0, <2>1, <2>3, <2>4, VersionsCarry DEF Old
<1>12. CASE AddImplementation
  <2>1. PICK p \in Protocols : sImpls' = Append(sImpls, p)
    BY <1>12 DEF AddImplementation
  <2>2. UNCHANGED <<cSpecs, sRoots, c2s, s2c>>
    BY <1>12 DEF AddImplementation
  <2> QED
    BY <1>0, <2>1, <2>2, RegisteredKeeps DEF VersionsFollow
<1>13. CASE \/ WaitForHandshake \/ ClientExits \/ Tick \/ ServerExits
            \/ WaitReturns \/ Dispatch \/ PollTimesOut \/ PollFindsNothing
            \/ ClientReads \/ ClientReadsEnd \/ DispatchReturns
            \/ Accept \/ ServerReads \/ ServerEndsBatch \/ ServerReadsEnd
            \/ UNCHANGED vars
  <2>1. /\ UNCHANGED <<cSpecs, sImpls, sRoots>>
        /\ c2s' = c2s \/ c2s' = <<>>
        /\ s2c' = s2c \/ s2c' = <<>>
    BY <1>13
    DEF WaitForHandshake, ClientExits, Tick, ServerExits, WaitReturns, Dispatch,
        PollTimesOut, PollFindsNothing, ClientReads, ClientReadsEnd, DispatchReturns,
        Accept, ServerReads, ServerEndsBatch, ServerReadsEnd, RemoveClient
  <2> QED
    BY <1>1, <2>1
<1> QED
  BY <1>4, <1>5, <1>6, <1>7, <1>8, <1>9, <1>10, <1>11, <1>12, <1>13
  DEF Next, ClientDispatch, ServerDispatch

\* A root object has a version that the server implements.
THEOREM VersionsSupported == Spec => []VersionSupported
<1>1. Init => VersionsFollow
  <2> SUFFICES ASSUME Init PROVE VersionsFollow
    OBVIOUS
  <2>1. c2s = <<HelloMsg>> /\ s2c = <<>> /\ sRoots = <<>> /\ cSpecs = <<>>
    BY DEF Init
  <2>2. AsIn(cSpecs, sImpls)
    BY <2>1 DEF AsIn, Places
  <2>3. \A i \in 1..Len(c2s) : c2s[i].type # "bind"
    BY <2>1 DEF HelloMsg
  <2> QED
    BY <2>1, <2>2, <2>3 DEF VersionsFollow
<1>2. IInv /\ VersionsFollow /\ [Next]_vars => VersionsFollow'
  BY VersionsStep
<1>3. IInv /\ VersionsFollow => VersionSupported
  <2> SUFFICES ASSUME IInv, VersionsFollow, NEW i \in DOMAIN sRoots
               PROVE  /\ Places(sImpls, sRoots[i].name) # {}
                      /\ sRoots[i].version <= VersionOf(sImpls, sRoots[i].name)
    BY DEF VersionSupported
  <2>1. i \in 1..Len(sRoots)
    BY DEF IInv, TypeOK, ServerTypeOK
  <2> QED
    BY <2>1 DEF VersionsFollow, Backed
<1> QED
  BY <1>1, <1>2, <1>3, Inductive, PTL DEF Spec
=============================================================================

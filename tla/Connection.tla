----------------------------- MODULE Connection -----------------------------
(***************************************************************************)
(* The objects of one established hyprwire connection: a client with one   *)
(* event queue on one side, the server's state for that client on the      *)
(* other, and the stream between them.                                     *)
(*                                                                         *)
(* The client names a new object by a sequence number of its own (seq); it *)
(* learns the server's number for it (id) from a NewObject message, and    *)
(* keeps the calls made on the object before that in a queue that          *)
(* dispatch_events flushes.  Dropping the last handle makes the client     *)
(* call the object's destructor.  The server destroys an object when it    *)
(* handles that call, when it sends a server-to-client destructor, and     *)
(* when the connection ends.                                               *)
(*                                                                         *)
(* Each message is one element of c2s or s2c.  One read takes some of the  *)
(* messages in the stream: the first cBatch (sBatch) elements of s2c (c2s) *)
(* are the ones read and not handled yet.  Protocol roots come from        *)
(* BindProtocol and have no destructor; the others are made by calls that  *)
(* return an object, and have a destructor without arguments, which the    *)
(* generated proxies do not expose: only Drop calls it.                    *)
(***************************************************************************)
EXTENDS Naturals, Sequences, Functions

CONSTANTS
  MaxSeq,         \* bound: objects the client asks for
  MaxCalls,       \* bound: calls without a result the client makes
  MaxEvents,      \* bound: events the server sends
  MaxGone,        \* bound: server-to-client destructors the server sends
  MaxTrips,       \* bound: roundtrips
  MaxRaised,      \* bound: protocol errors the server's handlers raise
  MayExit,        \* whether either process may exit
  HandlersDefer   \* whether handlers call methods of unresolved objects

ASSUME ConnectionAssumption ==
  /\ MaxSeq \in Nat /\ MaxCalls \in Nat /\ MaxEvents \in Nat
  /\ MaxGone \in Nat /\ MaxTrips \in Nat /\ MaxRaised \in Nat
  /\ MayExit \in BOOLEAN /\ HandlersDefer \in BOOLEAN

VARIABLES
  (* the client *)
  cSeq,        \* ClientSocket.seq: the last sequence number given out
  cId,         \* ClientObject.id by seq, 0 while unresolved
  cRoots,      \* the seqs that were bound, and so have no destructor
  cListed,     \* the seqs in ClientSocket.objects
  cHeld,       \* the seqs of which the application keeps a handle
  cDestroyed,  \* the seqs with ClientObject.destroyed set
  cQueue,      \* EventQueueInner.queue: the deferred calls
  cPending,    \* the deferred calls a flush has taken and not looked at yet
  cError,      \* ConnectionState.error
  cShut,       \* the client's end of the stream is shut down or closed
  cpc,         \* where the client's thread is
  cCur,        \* the seq of the object whose handler runs, 0 for none
  cCurLast,    \* the event being handled is a destructor
  cBatch,      \* messages read and not handled
  cWaitObj,    \* the root Client::bind waits for, 0 for none
  cWaitAck,    \* EventQueue::roundtrip is waiting
  cSent,       \* EventQueueInner.last_sent_roundtrip_seq
  cAckd,       \* EventQueueInner.last_ackd_roundtrip_seq
  cCalls,      \* calls made so far; numbers the calls made outside handlers
  (* the stream *)
  c2s, s2c,
  (* the server *)
  sObj,        \* the object made with each id: its seq, and its kind
  sListed,     \* the ids in ServerClientState.objects
  sDestroyed,  \* the ids with ServerObject.destroyed set
  sError,      \* ConnectionState.error
  sState,      \* "up"; "closing", "dropped" after an error; "closed": no stream
  sBusy,       \* dispatch_client is between its read and its end
  sBatch,      \* messages read and not handled
  sSlot,       \* scheduled_roundtrip_seq
  sSpent,      \* events, destructors and errors sent, for the bounds
  (* history *)
  sDtor,       \* ids whose destructor callback has run, in order
  sLast,       \* the last numbered call delivered to each object, by seq
  ahead        \* messages in c2s up to and with the last roundtrip request

cObjects == <<cId, cListed, cDestroyed>>
cAsked == <<cSeq, cRoots, cCalls>>
cDeferred == <<cQueue, cPending>>
cFailed == <<cError, cShut>>
cControl == <<cpc, cCur, cCurLast, cBatch>>
cWaits == <<cWaitObj, cWaitAck, cSent, cAckd>>
sObjects == <<sObj, sListed, sDestroyed>>
sControl == <<sError, sState, sBusy, sBatch, sSlot>>
sHistory == <<sSpent, sDtor, sLast>>
cvars == <<cHeld, cAsked, cObjects, cDeferred, cFailed, cControl, cWaits>>
svars == <<sObjects, sControl, sHistory>>
vars == <<cvars, svars, c2s, s2c, ahead>>

Seqs == 1..MaxSeq
Ids == DOMAIN sObj

-----------------------------------------------------------------------------
(* Messages.  obj is an id, 0 when the message names no existing object. *)

BindMsg(s) == [type |-> "bind", obj |-> 0, seq |-> s]
MakeMsg(o, s) == [type |-> "make", obj |-> o, seq |-> s]
CallMsg(o, n) == [type |-> "call", obj |-> o, seq |-> n]
DestroyMsg(o) == [type |-> "destroy", obj |-> o, seq |-> 0]
TripMsg(n) == [type |-> "trip", obj |-> 0, seq |-> n]

NewMsg(o, s) == [type |-> "new", obj |-> o, seq |-> s]
EventMsg(o) == [type |-> "event", obj |-> o, seq |-> 0]
GoneMsg(o) == [type |-> "gone", obj |-> o, seq |-> 0]
DoneMsg(n) == [type |-> "done", obj |-> 0, seq |-> n]
FatalMsg(o) == [type |-> "fatal", obj |-> o, seq |-> 0]

\* A deferred call is encoded with object id 0; depends_on_seq is beside it.
Deferred(s, m) == [dep |-> s, msg |-> m]

(* ConnectionState::send_message.  A write to a stream that is shut fails  *)
(* and the failure is ignored; what is written to a peer that no longer    *)
(* reads is not kept.                                                      *)
ToServer(ms) == IF cShut \/ sState # "up" THEN c2s ELSE c2s \o ms
ToClient(ms) == IF cShut THEN s2c ELSE s2c \o ms

-----------------------------------------------------------------------------
(* The client's application. *)

Waiting == cWaitObj # 0 \/ cWaitAck

\* The application runs between dispatches, or inside an event handler.
AppRuns == cpc = "handler" \/ (cpc = "app" /\ ~Waiting)

(* The objects whose methods it can call: the ones it holds, and the one   *)
(* whose handler runs.  The root Client::bind waits for is not returned    *)
(* yet.                                                                    *)
Usable ==
  IF cpc = "handler" THEN (cHeld \ {cWaitObj}) \cup {cCur} ELSE cHeld

\* [Mutated form] The deferred calls are kept newest first.
IssueNewestFirst(s, m) ==
  IF cId[s] # 0
  THEN /\ c2s' = ToServer(<<[m EXCEPT !.obj = cId[s]]>>)
       /\ UNCHANGED cQueue
  ELSE /\ cpc = "app"
       /\ cQueue' = <<Deferred(s, m)>> \o cQueue
       /\ UNCHANGED c2s

\* WireObject::call on a resolved object sends; on an unresolved one it defers.
Issue(s, m) ==
  IF cId[s] # 0
  THEN /\ c2s' = ToServer(<<[m EXCEPT !.obj = cId[s]]>>)
       /\ UNCHANGED cQueue
  ELSE /\ cpc = "app"
       /\ cQueue' = Append(cQueue, Deferred(s, m))
       /\ UNCHANGED c2s

\* [Mutated form] The test of the destroyed flag is inverted.
DropMsgsInverted(s) ==
  IF s \in cDestroyed /\ cId[s] # 0 /\ s \notin cRoots
  THEN <<DestroyMsg(cId[s])>> ELSE <<>>

\* Drop for ClientObject: what the last handle's end sends.
DropMsgs(s) ==
  IF s \notin cDestroyed /\ cId[s] # 0 /\ s \notin cRoots
  THEN <<DestroyMsg(cId[s])>> ELSE <<>>

\* Client::bind: bind_protocol; wait_for_object then dispatches until it is
\* resolved.
Bind ==
  /\ cpc = "app" /\ ~Waiting
  /\ cSeq < MaxSeq
  /\ cSeq' = cSeq + 1
  /\ cRoots' = cRoots \cup {cSeq'}
  /\ cListed' = cListed \cup {cSeq'}
  /\ cHeld' = cHeld \cup {cSeq'}
  /\ c2s' = ToServer(<<BindMsg(cSeq')>>)
  /\ cWaitObj' = cSeq'
  /\ UNCHANGED <<cDeferred, cFailed, cControl, cId, cDestroyed, cWaitAck,
                cSent, cAckd, cCalls, svars, s2c, ahead>>

\* A method without a result.  Calls made in handlers carry no number.
Call(s) ==
  /\ AppRuns /\ s \in Usable
  /\ cCalls < MaxCalls
  /\ cCalls' = cCalls + 1
  /\ Issue(s, CallMsg(0, IF cpc = "app" THEN cCalls' ELSE 0))
  /\ UNCHANGED <<cObjects, cFailed, cControl, cWaits, cSeq, cRoots, cHeld,
                cPending, svars, s2c, ahead>>

\* A method that returns an object: a new seq, the call, then make_object.
MakeObject(s) ==
  /\ AppRuns /\ s \in Usable
  /\ cSeq < MaxSeq
  /\ cSeq' = cSeq + 1
  /\ Issue(s, MakeMsg(0, cSeq'))
  /\ cListed' = cListed \cup {cSeq'}
  /\ cHeld' = cHeld \cup {cSeq'}
  /\ UNCHANGED <<cFailed, cControl, cWaits, cId, cRoots, cDestroyed, cPending,
                cCalls, svars, s2c, ahead>>

(* A handler's call on an unresolved object locks the queue's mutex, which *)
(* the dispatch that runs the handler holds: the thread waits for itself.  *)
HandlerBlocks ==
  /\ HandlersDefer
  /\ cpc = "handler"
  /\ \E s \in Usable : cId[s] = 0
  /\ cpc' = "stuck"
  /\ UNCHANGED <<cObjects, cAsked, cDeferred, cFailed, cWaits, cHeld, cCur,
                cCurLast, cBatch, svars, c2s, s2c, ahead>>

\* The application drops its handle; the list may still keep the object.
DropHandle(s) ==
  /\ AppRuns /\ s \in cHeld \ {cWaitObj}
  /\ cHeld' = cHeld \ {s}
  /\ c2s' = IF s \in cListed THEN c2s ELSE ToServer(DropMsgs(s))
  /\ UNCHANGED <<cObjects, cAsked, cDeferred, cFailed, cControl, cWaits,
                svars, s2c, ahead>>

\* A handler clones the proxy it is given and keeps it.
KeepProxy ==
  /\ cpc = "handler"
  /\ cHeld' = cHeld \cup {cCur}
  /\ UNCHANGED <<cObjects, cAsked, cDeferred, cFailed, cControl, cWaits,
                svars, c2s, s2c, ahead>>

\* [Mutated form] Every roundtrip has the number 1.
RoundtripSameNumber ==
  /\ cpc = "app" /\ ~Waiting /\ ~cError
  /\ cSent < MaxTrips
  /\ cSent' = 1
  /\ c2s' = ToServer(<<TripMsg(cSent')>>)
  /\ ahead' = Len(c2s')
  /\ cWaitAck' = TRUE
  /\ UNCHANGED <<cObjects, cAsked, cDeferred, cFailed, cControl, cHeld,
                cWaitObj, cAckd, svars, s2c>>

\* EventQueue::roundtrip, up to its wait.
Roundtrip ==
  /\ cpc = "app" /\ ~Waiting /\ ~cError
  /\ cSent < MaxTrips
  /\ cSent' = cSent + 1
  /\ c2s' = ToServer(<<TripMsg(cSent')>>)
  /\ ahead' = Len(c2s')
  /\ cWaitAck' = TRUE
  /\ UNCHANGED <<cObjects, cAsked, cDeferred, cFailed, cControl, cHeld,
                cWaitObj, cAckd, svars, s2c>>

WaitOver ==
  \/ cWaitObj # 0 /\ cId[cWaitObj] # 0
  \/ cWaitAck /\ cAckd >= cSent

\* wait_for_object or roundtrip sees what it waited for and returns Ok.
WaitReturns ==
  /\ cpc = "app" /\ ~cError /\ WaitOver
  /\ cWaitObj' = 0 /\ cWaitAck' = FALSE
  /\ UNCHANGED <<cObjects, cAsked, cDeferred, cFailed, cControl, cHeld, cSent,
                cAckd, svars, c2s, s2c, ahead>>

\* The handles left when a wait ends in an error: bind drops its proxy.
HeldAfterFailure == cHeld \ {cWaitObj}

\* [Mutated form] wait_for_object does not look at the error flag.
WaitFailsForRoundtrip ==
  /\ cpc = "app" /\ cError /\ cWaitAck
  /\ cHeld' = HeldAfterFailure
  /\ cWaitObj' = 0 /\ cWaitAck' = FALSE
  /\ UNCHANGED <<cObjects, cAsked, cDeferred, cFailed, cControl, cSent, cAckd,
                svars, c2s, s2c, ahead>>

\* The wait returns Err because the connection's error flag is set.
WaitFails ==
  /\ cpc = "app" /\ cError /\ Waiting
  /\ cHeld' = HeldAfterFailure
  /\ cWaitObj' = 0 /\ cWaitAck' = FALSE
  /\ UNCHANGED <<cObjects, cAsked, cDeferred, cFailed, cControl, cSent, cAckd,
                svars, c2s, s2c, ahead>>

-----------------------------------------------------------------------------
(* The client's dispatch_events. *)

\* [Mutated forms] The handles, or the missing id, are not looked at.
OrphansHeldToo == {s \in cListed : cId[s] # 0}
OrphansUnresolvedToo == {s \in cListed : s \notin cHeld}

\* The objects collect_orphaned_objects removes.
Orphans == {s \in cListed : cId[s] # 0 /\ s \notin cHeld}

Dispatch ==
  /\ cpc = "app" /\ ~cError /\ ~WaitOver
  /\ cpc' = "collect"
  /\ UNCHANGED <<cObjects, cAsked, cDeferred, cFailed, cWaits, cHeld, cCur,
                cCurLast, cBatch, svars, c2s, s2c, ahead>>

(* collect_orphaned_objects, one object of its retain loop: the list holds *)
(* the objects in the order of their seqs.                                 *)
CollectOne ==
  /\ cpc \in {"collect", "sweep"}
  /\ \E s \in Orphans :
       /\ \A t \in Orphans : s <= t
       /\ cListed' = cListed \ {s}
       /\ c2s' = ToServer(DropMsgs(s))
  /\ UNCHANGED <<cAsked, cDeferred, cFailed, cControl, cWaits, cId, cHeld,
                cDestroyed, svars, s2c, ahead>>

\* Nothing to collect: wait for traffic, or, at the end, return.
CollectDone ==
  /\ cpc \in {"collect", "sweep"}
  /\ Orphans = {}
  /\ cpc' = IF cpc = "collect" THEN "wait" ELSE "app"
  /\ UNCHANGED <<cObjects, cAsked, cDeferred, cFailed, cWaits, cHeld, cCur,
                cCurLast, cBatch, svars, c2s, s2c, ahead>>

\* A dispatch that does not block finds nothing to read.
NoTraffic ==
  /\ cpc = "wait" /\ ~Waiting /\ s2c = <<>>
  /\ cpc' = "app"
  /\ UNCHANGED <<cObjects, cAsked, cDeferred, cFailed, cWaits, cHeld, cCur,
                cCurLast, cBatch, svars, c2s, s2c, ahead>>

\* One read takes any number of the messages the stream holds.
ClientReads ==
  /\ cpc = "wait" /\ s2c # <<>>
  /\ cBatch' \in 1..Len(s2c)
  /\ cpc' = "batch"
  /\ UNCHANGED <<cObjects, cAsked, cDeferred, cFailed, cWaits, cHeld, cCur,
                cCurLast, svars, c2s, s2c, ahead>>

\* The read finds the end of the stream: ConnectionClosed, no flag is set.
ClientReadsEnd ==
  /\ cpc = "wait" /\ s2c = <<>> /\ sState = "closed"
  /\ cpc' = "app"
  /\ cHeld' = HeldAfterFailure
  /\ cWaitObj' = 0 /\ cWaitAck' = FALSE
  /\ UNCHANGED <<cObjects, cAsked, cDeferred, cFailed, cCur, cCurLast, cBatch,
                cSent, cAckd, svars, c2s, s2c, ahead>>

\* handle_message looks at the next message of the batch.
ClientNext(types) ==
  /\ cpc = "batch" /\ cBatch > 0
  /\ Head(s2c).type \in types
  /\ cBatch' = cBatch - 1

\* [Mutated form] The first object without an id gets it.
OnSeqFirst(s, o) ==
  LET open == {t \in cListed : cId[t] = 0}
  IN [t \in Seqs |-> IF t \in open /\ \A u \in open : t <= u THEN o ELSE cId[t]]

\* The listed object with that seq gets its id.
OnSeq(s, o) == IF s \in cListed THEN [cId EXCEPT ![s] = o] ELSE cId

HandleNewObject ==
  /\ ClientNext({"new"})
  /\ cId' = OnSeq(Head(s2c).seq, Head(s2c).obj)
  /\ s2c' = Tail(s2c)
  /\ UNCHANGED <<cAsked, cDeferred, cFailed, cWaits, cListed, cHeld,
                cDestroyed, cpc, cCur, cCurLast, svars, c2s, ahead>>

\* on_generic: the listed object with that id, whose handler is run.
HandleEvent ==
  /\ ClientNext({"event", "gone"})
  /\ \E s \in cListed :
       /\ cId[s] = Head(s2c).obj
       /\ cCur' = s
  /\ cCurLast' = (Head(s2c).type = "gone")
  /\ cpc' = "handler"
  /\ s2c' = Tail(s2c)
  /\ UNCHANGED <<cObjects, cAsked, cDeferred, cFailed, cWaits, cHeld, svars,
                c2s, ahead>>

\* on_generic, after the handler: a destructor ends the object here.
HandlerReturns ==
  /\ cpc = "handler"
  /\ cpc' = "batch"
  /\ cCur' = 0 /\ cCurLast' = FALSE
  /\ cDestroyed' = IF cCurLast THEN cDestroyed \cup {cCur} ELSE cDestroyed
  /\ cListed' = IF cCurLast THEN cListed \ {cCur} ELSE cListed
  /\ UNCHANGED <<cAsked, cDeferred, cFailed, cWaits, cId, cHeld, cBatch,
                svars, c2s, s2c, ahead>>

(* on_generic on an id no listed object has: disconnect_on_error.  The     *)
(* rest of the batch has been read and is still handled.                   *)
HandleUnknown ==
  /\ ClientNext({"event", "gone"})
  /\ \A s \in cListed : cId[s] # Head(s2c).obj
  /\ cError' = TRUE
  /\ cShut' = TRUE
  /\ s2c' = SubSeq(s2c, 2, cBatch)
  /\ UNCHANGED <<cObjects, cAsked, cDeferred, cWaits, cHeld, cpc, cCur,
                cCurLast, svars, c2s, ahead>>

HandleRoundtripDone ==
  /\ ClientNext({"done"})
  /\ cAckd' = Head(s2c).seq
  /\ s2c' = Tail(s2c)
  /\ UNCHANGED <<cObjects, cAsked, cDeferred, cFailed, cHeld, cpc, cCur,
                cCurLast, cWaitObj, cWaitAck, cSent, svars, c2s, ahead>>

\* A fatal error sets the flag; the rest of the batch is still handled.
HandleFatal ==
  /\ ClientNext({"fatal"})
  /\ cError' = TRUE
  /\ s2c' = Tail(s2c)
  /\ UNCHANGED <<cObjects, cAsked, cDeferred, cWaits, cHeld, cShut, cpc, cCur,
                cCurLast, svars, c2s, ahead>>

\* [Mutated form] The flush works on a copy and leaves the queue as it is.
TakeDeferredCopies ==
  /\ cpc = "batch" /\ cBatch = 0
  /\ cPending' = cQueue
  /\ cpc' = "flush"
  /\ UNCHANGED <<cObjects, cAsked, cFailed, cWaits, cHeld, cQueue, cCur,
                cCurLast, cBatch, svars, c2s, s2c, ahead>>

\* The batch is handled: dispatch_events takes the deferred calls.
TakeDeferred ==
  /\ cpc = "batch" /\ cBatch = 0
  /\ cPending' = cQueue
  /\ cQueue' = <<>>
  /\ cpc' = "flush"
  /\ UNCHANGED <<cObjects, cAsked, cFailed, cWaits, cHeld, cCur, cCurLast,
                cBatch, svars, c2s, s2c, ahead>>

(* One deferred call: dropped when its object left the list, kept while    *)
(* the object has no id, sent with the id otherwise.                       *)
FlushOne ==
  /\ cpc = "flush" /\ cPending # <<>>
  /\ cPending' = Tail(cPending)
  /\ LET d == Head(cPending)
     IN \/ /\ d.dep \notin cListed
           /\ UNCHANGED <<c2s, cQueue>>
        \/ /\ d.dep \in cListed /\ cId[d.dep] = 0
           /\ cQueue' = Append(cQueue, d)
           /\ UNCHANGED c2s
        \/ /\ d.dep \in cListed /\ cId[d.dep] # 0
           /\ c2s' = ToServer(<<[d.msg EXCEPT !.obj = cId[d.dep]]>>)
           /\ UNCHANGED cQueue
  /\ UNCHANGED <<cObjects, cAsked, cFailed, cControl, cWaits, cHeld, svars,
                s2c, ahead>>

FlushDone ==
  /\ cpc = "flush" /\ cPending = <<>>
  /\ cpc' = "sweep"
  /\ UNCHANGED <<cObjects, cAsked, cDeferred, cFailed, cWaits, cHeld, cCur,
                cCurLast, cBatch, svars, c2s, s2c, ahead>>

(* The client's process exits: the kernel closes its end.  What it sent    *)
(* stays readable.                                                         *)
ClientExits ==
  /\ MayExit /\ cpc # "exited"
  /\ cpc' = "exited"
  /\ cShut' = TRUE
  /\ s2c' = <<>> /\ cBatch' = 0
  /\ UNCHANGED <<cObjects, cAsked, cDeferred, cWaits, cHeld, cError, cCur,
                cCurLast, svars, c2s, ahead>>

-----------------------------------------------------------------------------
(* The server: dispatch_client for this client, and what its application   *)
(* does with the objects at any time.                                      *)

ServerReads ==
  /\ sState = "up" /\ ~sBusy /\ c2s # <<>>
  /\ sBusy' = TRUE
  /\ sBatch' \in 1..Len(c2s)
  /\ UNCHANGED <<cvars, sObjects, sHistory, sError, sState, sSlot, c2s, s2c,
                ahead>>

\* [Mutated form] The position in the batch is not advanced.
ServerNextNoAdvance(type) ==
  /\ sBusy /\ sBatch > 0
  /\ Head(c2s).type = type
  /\ UNCHANGED sBatch
  /\ c2s' = Tail(c2s)
  /\ ahead' = IF ahead > 0 THEN ahead - 1 ELSE 0

\* handle_message takes the next message of the batch.
ServerNext(type) ==
  /\ sBusy /\ sBatch > 0
  /\ Head(c2s).type = type
  /\ sBatch' = sBatch - 1
  /\ c2s' = Tail(c2s)
  /\ ahead' = IF ahead > 0 THEN ahead - 1 ELSE 0

\* ServerClientState::create_object: the next id, NewObject, then the list.
CreateObject(s, kind) ==
  /\ sObj' = Append(sObj, [seq |-> s, kind |-> kind])
  /\ s2c' = ToClient(<<NewMsg(Len(sObj'), s)>>)
  /\ sListed' = sListed \cup {Len(sObj')}

HandleBind ==
  /\ ServerNext("bind")
  /\ CreateObject(Head(c2s).seq, "root")
  /\ UNCHANGED <<cvars, sHistory, sDestroyed, sError, sState, sBusy, sSlot>>

(* on_generic on an id that is not listed: a fatal error to the client, and *)
(* the rest of the batch is still handled.                                 *)
UnknownObject(o) ==
  /\ s2c' = ToClient(<<FatalMsg(o)>>)
  /\ sError' = TRUE
  /\ UNCHANGED <<sObjects, sDtor, sLast>>

\* A call that returns an object creates it, unless its parent is destroyed.
HandleMake ==
  /\ ServerNext("make")
  /\ LET m == Head(c2s) IN
       IF m.obj \notin sListed THEN UnknownObject(m.obj)
       ELSE /\ IF m.obj \in sDestroyed THEN UNCHANGED <<sObj, sListed, s2c>>
               ELSE CreateObject(m.seq, "child")
            /\ UNCHANGED <<sDestroyed, sError, sDtor, sLast>>
  /\ UNCHANGED <<cvars, sState, sBusy, sSlot, sSpent>>

HandleCall ==
  /\ ServerNext("call")
  /\ LET m == Head(c2s) IN
       IF m.obj \notin sListed THEN UnknownObject(m.obj)
       ELSE /\ sLast' = IF m.seq = 0 THEN sLast
                        ELSE [sLast EXCEPT ![sObj[m.obj].seq] = m.seq]
            /\ UNCHANGED <<sObjects, sError, sDtor, s2c>>
  /\ UNCHANGED <<cvars, sState, sBusy, sSlot, sSpent>>

\* [Mutated form] What is done about destructor methods after it is left out.
HandleDestroyAsCall ==
  /\ ServerNext("destroy")
  /\ LET o == Head(c2s).obj IN
       IF o \notin sListed THEN UnknownObject(o)
       ELSE /\ sDtor' = Append(sDtor, o)
            /\ UNCHANGED <<sDestroyed, sListed, sObj, sError, sLast, s2c>>
  /\ UNCHANGED <<cvars, sState, sBusy, sSlot, sSpent>>

\* on_generic of a destructor: its callback, then the object leaves the list.
HandleDestroy ==
  /\ ServerNext("destroy")
  /\ LET o == Head(c2s).obj IN
       IF o \notin sListed THEN UnknownObject(o)
       ELSE /\ sDtor' = Append(sDtor, o)
            /\ sDestroyed' = sDestroyed \cup {o}
            /\ sListed' = sListed \ {o}
            /\ UNCHANGED <<sObj, sError, sLast, s2c>>
  /\ UNCHANGED <<cvars, sState, sBusy, sSlot, sSpent>>

HandleRoundtripRequest ==
  /\ ServerNext("trip")
  /\ sSlot' = Head(c2s).seq
  /\ UNCHANGED <<cvars, sObjects, sHistory, sError, sState, sBusy, s2c>>

(* A client with the error flag is removed from the server's clients:      *)
(* nothing reads its stream any more.                                      *)
RemoveClient ==
  /\ sState' = "closing"
  /\ c2s' = <<>> /\ sBatch' = 0 /\ ahead' = 0

\* The end of dispatch_client: acknowledge the last roundtrip request.
ServerEndsBatch ==
  /\ sState = "up" /\ sBusy /\ sBatch = 0
  /\ sBusy' = FALSE
  /\ s2c' = IF sSlot > 0 THEN ToClient(<<DoneMsg(sSlot)>>) ELSE s2c
  /\ sSlot' = 0
  /\ IF sError THEN RemoveClient ELSE UNCHANGED <<c2s, sState, sBatch, ahead>>
  /\ UNCHANGED <<cvars, sObjects, sHistory, sError>>

\* The read finds the end of the stream, with everything before it read.
ServerReadsEnd ==
  /\ sState = "up" /\ ~sBusy /\ c2s = <<>> /\ cShut
  /\ sError' = TRUE
  /\ RemoveClient
  /\ UNCHANGED <<cvars, sObjects, sHistory, sBusy, sSlot, s2c>>

\* The objects destroy_objects_for_disconnect still runs a destructor of.
Left == {o \in sListed : sObj[o].kind = "child" /\ o \notin sDestroyed}

\* Its loop goes through the list in reverse: the newest object first.
DestroyForDisconnect ==
  /\ sState = "closing"
  /\ \E o \in Left :
       /\ \A p \in Left : p <= o
       /\ sDtor' = Append(sDtor, o)
       /\ sDestroyed' = sDestroyed \cup {o}
  /\ UNCHANGED <<cvars, sControl, sObj, sListed, sSpent, sLast, c2s, s2c,
                ahead>>

ForgetObjects ==
  /\ sState = "closing" /\ Left = {}
  /\ sState' = "dropped"
  /\ sListed' = {}
  /\ UNCHANGED <<cvars, sHistory, sObj, sDestroyed, sError, sBusy, sBatch,
                sSlot, c2s, s2c, ahead>>

(* The objects of a dropped client keep its stream open as long as the       *)
(* server's application keeps one of them.                                 *)
ServerLetsGo ==
  /\ sState = "dropped"
  /\ sState' = "closed"
  /\ UNCHANGED <<cvars, sObjects, sHistory, sError, sBusy, sBatch, sSlot, c2s,
                s2c, ahead>>

\* ServerObject::call, ::error refuse a destroyed object.
Emits(o, what, bound) ==
  /\ sState # "closed"
  /\ o \notin sDestroyed
  /\ sSpent[what] < bound
  /\ sSpent' = [sSpent EXCEPT ![what] = @ + 1]

SendEvent(o) ==
  /\ Emits(o, "event", MaxEvents)
  /\ s2c' = ToClient(<<EventMsg(o)>>)
  /\ UNCHANGED <<cvars, sObjects, sControl, sDtor, sLast, c2s, ahead>>

\* A server-to-client destructor marks the object; it stays in the list.
SendGone(o) ==
  /\ Emits(o, "gone", MaxGone)
  /\ s2c' = ToClient(<<GoneMsg(o)>>)
  /\ sDestroyed' = sDestroyed \cup {o}
  /\ UNCHANGED <<cvars, sControl, sObj, sListed, sDtor, sLast, c2s, ahead>>

RaiseError(o) ==
  /\ Emits(o, "error", MaxRaised)
  /\ s2c' = ToClient(<<FatalMsg(o)>>)
  /\ sError' = TRUE
  /\ UNCHANGED <<cvars, sObjects, sState, sBusy, sBatch, sSlot, sDtor, sLast,
                c2s, ahead>>

\* The server's process exits; what it sent stays readable.
ServerExits ==
  /\ MayExit /\ sState # "closed"
  /\ sState' = "closed"
  /\ c2s' = <<>> /\ sBatch' = 0 /\ ahead' = 0 /\ sBusy' = FALSE
  /\ UNCHANGED <<cvars, sObjects, sHistory, sError, sSlot, s2c>>

-----------------------------------------------------------------------------
Init ==
  /\ cSeq = 0 /\ cId = [s \in Seqs |-> 0] /\ cRoots = {} /\ cListed = {}
  /\ cHeld = {} /\ cDestroyed = {} /\ cQueue = <<>> /\ cPending = <<>>
  /\ cError = FALSE /\ cShut = FALSE /\ cpc = "app" /\ cCur = 0
  /\ cCurLast = FALSE /\ cBatch = 0 /\ cWaitObj = 0 /\ cWaitAck = FALSE
  /\ cSent = 0 /\ cAckd = 0 /\ cCalls = 0
  /\ c2s = <<>> /\ s2c = <<>>
  /\ sObj = <<>> /\ sListed = {} /\ sDestroyed = {} /\ sError = FALSE
  /\ sState = "up" /\ sBusy = FALSE /\ sBatch = 0 /\ sSlot = 0
  /\ sSpent = [w \in {"event", "gone", "error"} |-> 0]
  /\ sDtor = <<>> /\ sLast = [s \in Seqs |-> 0] /\ ahead = 0

ClientApp ==
  \/ Bind \/ Roundtrip \/ HandlerBlocks \/ KeepProxy
  \/ \E s \in Seqs : Call(s) \/ MakeObject(s) \/ DropHandle(s)

ClientDispatch ==
  \/ WaitReturns \/ WaitFails
  \/ Dispatch \/ CollectOne \/ CollectDone
  \/ ClientReads \/ ClientReadsEnd
  \/ HandleNewObject \/ HandleEvent \/ HandleUnknown \/ HandlerReturns
  \/ HandleRoundtripDone \/ HandleFatal
  \/ TakeDeferred \/ FlushOne \/ FlushDone

ServerDispatch ==
  \/ ServerReads \/ HandleBind \/ HandleMake \/ HandleCall \/ HandleDestroy
  \/ HandleRoundtripRequest
  \/ ServerEndsBatch \/ ServerReadsEnd
  \/ DestroyForDisconnect \/ ForgetObjects

ServerApp == \E o \in Ids : SendEvent(o) \/ SendGone(o) \/ RaiseError(o)

Next ==
  \/ ClientApp \/ ClientDispatch \/ NoTraffic \/ ClientExits
  \/ ServerDispatch \/ ServerApp \/ ServerLetsGo \/ ServerExits

Spec == Init /\ [][Next]_vars

(* The application keeps dispatching, and both loops keep running: an event *)
(* loop calls dispatch_events whenever its descriptor is readable, and a    *)
(* server thread calls Server::dispatch_events in a loop.  What either      *)
(* application chooses to call carries no fairness.                         *)
FairSpec == Spec /\ WF_vars(ClientDispatch) /\ WF_vars(ServerDispatch)

-----------------------------------------------------------------------------
(* Properties. *)

ClientMessages ==
  [type : {"bind", "make", "call", "destroy", "trip"}, obj : Nat, seq : Nat]
ServerMessages ==
  [type : {"new", "event", "gone", "done", "fatal"}, obj : Nat, seq : Nat]
DeferredCalls == [dep : Seqs, msg : ClientMessages]

(* The type of the state, with the relations between fields the code keeps  *)
(* by construction: batches lie within the streams, what is listed exists.  *)
FlagsOK ==
  /\ cError \in BOOLEAN /\ cShut \in BOOLEAN /\ cCurLast \in BOOLEAN
  /\ cWaitAck \in BOOLEAN /\ sError \in BOOLEAN /\ sBusy \in BOOLEAN

ClientTypeOK ==
  /\ cSeq \in 0..MaxSeq /\ cId \in [Seqs -> Nat]
  /\ cRoots \subseteq 1..cSeq /\ cListed \subseteq 1..cSeq
  /\ cHeld \subseteq 1..cSeq /\ cDestroyed \subseteq 1..cSeq
  /\ cQueue \in Seq(DeferredCalls) /\ cPending \in Seq(DeferredCalls)
  /\ cpc \in {"app", "collect", "wait", "batch", "handler", "flush", "sweep",
              "stuck", "exited"}
  /\ cCur \in 0..cSeq /\ (cpc = "handler" => cCur \in cListed)
  /\ cWaitObj \in 0..cSeq /\ cBatch \in 0..Len(s2c)
  /\ cSent \in 0..MaxTrips /\ cAckd \in Nat /\ cCalls \in 0..MaxCalls

StreamTypeOK ==
  /\ c2s \in Seq(ClientMessages) /\ s2c \in Seq(ServerMessages)
  /\ ahead \in 0..Len(c2s)

ServerTypeOK ==
  /\ sObj \in Seq([seq : Seqs, kind : {"root", "child"}])
  /\ sListed \subseteq Ids /\ sDestroyed \subseteq Ids
  /\ sState \in {"up", "closing", "dropped", "closed"}
  /\ sBatch \in 0..Len(c2s) /\ sSlot \in Nat
  /\ sSpent \in [{"event", "gone", "error"} -> Nat]
  /\ sDtor \in Seq(Ids) /\ sLast \in [Seqs -> Nat]

TypeOK == FlagsOK /\ ClientTypeOK /\ StreamTypeOK /\ ServerTypeOK

(* A client that only uses the generated proxies never makes the server's   *)
(* on_generic answer with its fatal "unknown object" error: every object id *)
(* the server is about to look up is still in its list, however destructors *)
(* called by Drop, deferred calls and server-side destructors cross.        *)
NoUnknownObject ==
  sBatch > 0 /\ Head(c2s).obj # 0 => Head(c2s).obj \in sListed

(* on_seq gives an object the id of the server's object made for its seq,   *)
(* and of the same interface: the two sides never disagree on what an id    *)
(* means.                                                                   *)
IdAgreement ==
  \A s \in 1..cSeq : cId[s] # 0 =>
    /\ cId[s] \in Ids
    /\ sObj[cId[s]].seq = s
    /\ sObj[cId[s]].kind = IF s \in cRoots THEN "root" ELSE "child"

Asked(s) ==
  \/ \E i \in DOMAIN c2s : c2s[i].type \in {"bind", "make"} /\ c2s[i].seq = s
  \/ \E q \in {cQueue, cPending} : \E i \in DOMAIN q :
       q[i].msg.type = "make" /\ q[i].msg.seq = s
Answered(s) == \E i \in DOMAIN s2c : s2c[i].type = "new" /\ s2c[i].seq = s

(* An object without an id is always accounted for: its request is in the   *)
(* deferred queue or the stream, or the answer is on its way; once it has   *)
(* its id none of them is.  Server-side destructors may cancel a request,   *)
(* so the property is about connections where the server sent none.         *)
PendingAccounted ==
  sState = "up" /\ ~cShut /\ sSpent["gone"] = 0 =>
    \A s \in 1..cSeq : cId[s] = 0 <=> (Asked(s) \/ Answered(s))

(* The calls an application makes on an object outside event handlers reach *)
(* the server's handler in the order they were made, across the moment when *)
(* the object gets its id and deferral ends.                                *)
CallsInOrder == [][\A s \in Seqs : sLast'[s] >= sLast[s]]_vars

(* When roundtrip has its acknowledgment, the server has handled every      *)
(* message the client sent up to the request.                               *)
RoundtripIsBarrier == cSent > 0 /\ cAckd = cSent => ahead = 0

(* The server's application sees the destructor of an object at most once,  *)
(* called by the client or by the disconnect; after a disconnect every      *)
(* object that has one is marked destroyed.                                 *)
DestructorOnce ==
  /\ IsInjective(sDtor)
  /\ sState = "dropped" => \A o \in Ids : sObj[o].kind = "child" => o \in sDestroyed

\* The client has failed or is gone, or the server has let go of it.
Over == cError \/ cpc = "exited" \/ sState # "up"

(* An object the client asked for gets its id, unless the connection ends.  *)
ObjectResolves ==
  \A s \in Seqs : (s \in cListed /\ cId[s] = 0) ~> (cId[s] # 0 \/ Over)

(* An object whose handles are gone is destroyed at the server, also when   *)
(* they went before it had an id, unless a handler takes a handle again or  *)
(* the connection ends.                                                     *)
OrphanDestroyed ==
  \A s \in Seqs :
    (s \in cListed \ (cHeld \cup cRoots))
      ~> (s \in cHeld \/ Over \/ \E o \in sDestroyed : sObj[o].seq = s)

(* bind and roundtrip return: with what they wait for, or with an error when *)
(* the connection failed or the server went away.                           *)
WaitEnds == Waiting ~> (~Waiting \/ cpc \in {"stuck", "exited"})

(* The connection implements ObjectRegistry: each object asked for is made  *)
(* at most once, and the server ends it only after the client released it   *)
(* for good: it is neither listed nor held there any more.                  *)
Registry == INSTANCE ObjectRegistry WITH
  asked <- cSeq,
  made <- [o \in Ids |-> sObj[o].seq],
  released <- (1..cSeq) \ (cListed \cup cHeld),
  live <- IF sState = "up" THEN sListed ELSE {},
  open <- sState = "up"
ImplementsRegistry == Registry!Spec

(* "Returns an error if the connection closes, polling fails, or incoming   *)
(* protocol traffic is malformed" (dispatch_events): with a server that     *)
(* closes nothing and sends only events of its live objects, the client     *)
(* does not end the connection.  It does: see the README.                   *)
NoSelfDisconnect == cpc # "exited" => ~cShut

=============================================================================

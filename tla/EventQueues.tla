----------------------------- MODULE EventQueues -----------------------------
(***************************************************************************)
(* Several event queues of one connected client. Every queue has its mutex *)
(* and its roundtrip numbers; the poller, the stream and the objects are   *)
(* shared, and whichever queue is dispatched reads what is there.          *)
(*                                                                         *)
(* A queue here is a queue and the call on it. Calls on different queues   *)
(* may overlap: each may be in a thread of its own, and a call inside a    *)
(* handler of another is the case where that thread rests meanwhile.       *)
(* Connection is about what a single queue does with its deferred calls;   *)
(* none are made here.                                                     *)
(***************************************************************************)
EXTENDS Naturals, Sequences

CONSTANTS
  Queues,
  MaxTrips,   \* bound: roundtrips of each queue
  MaxObjects, \* bound: objects asked for
  MaxEvents,  \* bound: events of the server
  MayExit     \* whether the server may exit

ASSUME QueuesAssumption ==
  /\ MaxTrips \in Nat /\ MaxObjects \in Nat /\ MaxEvents \in Nat
  /\ MayExit \in BOOLEAN

VARIABLES
  (* the client: what its queues share *)
  error,     \* ConnectionState.error; the stream is shut down with it
  armed,     \* the poller's one-shot interest in the stream is armed
  waiter,    \* the queues, at most one, inside poller.wait
  known,     \* ids of the objects the client lists
  asked,     \* objects asked for
  (* the client: each queue *)
  pc,        \* "app", or where dispatch_events_inner is
  block,     \* its parameter block
  trip,      \* inside roundtrip
  last,      \* last_sent_roundtrip_seq
  ackd,      \* last_ackd_roundtrip_seq
  batch,     \* what it has read and not handled
  failed,    \* history: a call has returned an error
  handled,   \* history: the numbers of the messages handled
  overlapped, \* history: a call has begun while another was under way
  (* the stream, and the server *)
  c2s, s2c,
  sState,    \* "up", "exited"
  sBatch,    \* messages read and not handled
  sBusy, sSlot,
  served,    \* history: each queue's last roundtrip the server has handled
  made,      \* objects made
  events,    \* events sent
  sentNo     \* messages sent to the client

shared == <<error, armed, waiter, known, asked>>
trips == <<trip, last, ackd>>
calls == <<pc, block, failed, overlapped>>
server == <<sState, sBatch, sBusy, sSlot, served, made, events, sentNo>>
vars == <<shared, trips, calls, batch, handled, c2s, s2c, server>>

MayCall(q) == ~error /\ pc[q] = "app" /\ ~trip[q]

UnderWay(q) == trip[q] \/ pc[q] # "app"

Begin == overlapped' = (overlapped \/ \E q \in Queues : UnderWay(q))

Goto(q, place) == pc' = [pc EXCEPT ![q] = place]

-----------------------------------------------------------------------------
(* The client's calls. *)

Dispatch(q) ==
  /\ MayCall(q)
  /\ Begin
  /\ \E b \in BOOLEAN : block' = [block EXCEPT ![q] = b]
  /\ Goto(q, "poll")
  /\ UNCHANGED <<shared, trips, failed, batch, handled, c2s, s2c, server>>

\* The request is sent; then roundtrip dispatches until it is acknowledged.
Roundtrip(q) ==
  /\ MayCall(q) /\ last[q] < MaxTrips
  /\ Begin
  /\ trip' = [trip EXCEPT ![q] = TRUE]
  /\ last' = [last EXCEPT ![q] = @ + 1]
  /\ c2s' = Append(c2s, [type |-> "trip", queue |-> q, seq |-> last[q] + 1])
  /\ UNCHANGED <<shared, ackd, pc, block, failed, batch, handled, s2c, server>>

TripDispatches(q) ==
  /\ trip[q] /\ pc[q] = "app"
  /\ ackd[q] < last[q] /\ ~error
  /\ block' = [block EXCEPT ![q] = TRUE]
  /\ Goto(q, "poll")
  /\ UNCHANGED <<shared, trips, failed, overlapped, batch, handled,
                c2s, s2c, server>>

TripReturns(q) ==
  /\ trip[q] /\ pc[q] = "app"
  /\ ackd[q] >= last[q]
  /\ trip' = [trip EXCEPT ![q] = FALSE]
  /\ UNCHANGED <<shared, last, ackd, calls, batch, handled, c2s, s2c, server>>

\* A call that returns an object: its answer is handled by any queue.
MakeObject ==
  /\ ~error /\ asked < MaxObjects
  /\ asked' = asked + 1
  /\ c2s' = Append(c2s, [type |-> "make"])
  /\ UNCHANGED <<error, armed, waiter, known, trips, calls, batch, handled,
                s2c, server>>

\* dispatch_events_inner returns Ok, to roundtrip or to the application.
ReturnOk(q) ==
  /\ Goto(q, "app")
  /\ UNCHANGED <<trips, block, failed, overlapped>>

\* It returns an error, and so does roundtrip.
ReturnErr(q) ==
  /\ Goto(q, "app")
  /\ trip' = [trip EXCEPT ![q] = FALSE]
  /\ failed' = [failed EXCEPT ![q] = TRUE]
  /\ UNCHANGED <<block, overlapped, last, ackd>>

TripFails(q) ==
  /\ trip[q] /\ pc[q] = "app"
  /\ ackd[q] < last[q] /\ error
  /\ ReturnErr(q)
  /\ UNCHANGED <<shared, batch, handled, c2s, s2c, server>>

-----------------------------------------------------------------------------
(* The poller: level triggered, disarmed by each event it reports, and     *)
(* shared by the queues. wait returns at once, with no event, while        *)
(* another thread is inside it.                                            *)

Readable == s2c # <<>> \/ error \/ sState = "exited"

PollEnters(q) ==
  /\ pc[q] = "poll" /\ waiter = {}
  /\ waiter' = {q}
  /\ Goto(q, "wait")
  /\ UNCHANGED <<error, armed, known, asked, trips, block, failed, overlapped,
                batch, handled, c2s, s2c, server>>

\* No event: an error for a dispatch that blocks.
PollBusy(q) ==
  /\ pc[q] = "poll" /\ waiter # {}
  /\ IF block[q] THEN ReturnErr(q) ELSE ReturnOk(q)
  /\ UNCHANGED <<shared, batch, handled, c2s, s2c, server>>

\* A dispatch that does not block returns.
PollNothing(q) ==
  /\ pc[q] = "wait" /\ ~block[q]
  /\ ~(armed /\ Readable)
  /\ waiter' = {}
  /\ ReturnOk(q)
  /\ UNCHANGED <<error, armed, known, asked, batch, handled, c2s, s2c, server>>

PollWakes(q) ==
  /\ pc[q] = "wait" /\ armed /\ Readable
  /\ waiter' = {} /\ armed' = FALSE
  /\ Goto(q, "woken")
  /\ UNCHANGED <<error, known, asked, trips, block, failed, overlapped,
                batch, handled, c2s, s2c, server>>

\* [Mutated form] The interest is not armed again.
RearmForgotten(q) ==
  /\ pc[q] = "woken"
  /\ Goto(q, "read")
  /\ UNCHANGED <<shared, trips, block, failed, overlapped, batch,
                handled, c2s, s2c, server>>

\* poller.modify, before anything is read.
Rearm(q) ==
  /\ pc[q] = "woken"
  /\ armed' = TRUE
  /\ Goto(q, "read")
  /\ UNCHANGED <<error, waiter, known, asked, trips, block, failed, overlapped,
                batch, handled, c2s, s2c, server>>

-----------------------------------------------------------------------------
(* Reading and handling. *)

\* [Mutated form] What is read stays in the stream.
ReadPeeks(q) ==
  /\ pc[q] = "read" /\ s2c # <<>>
  /\ \E n \in DOMAIN s2c : batch' = [batch EXCEPT ![q] = SubSeq(s2c, 1, n)]
  /\ Goto(q, "batch")
  /\ UNCHANGED <<shared, trips, block, failed, overlapped, handled,
                c2s, s2c, server>>

Read(q) ==
  /\ pc[q] = "read" /\ s2c # <<>>
  /\ \E n \in DOMAIN s2c :
       /\ batch' = [batch EXCEPT ![q] = SubSeq(s2c, 1, n)]
       /\ s2c' = SubSeq(s2c, n + 1, Len(s2c))
  /\ Goto(q, "batch")
  /\ UNCHANGED <<shared, trips, block, failed, overlapped, handled,
                c2s, server>>

\* Another queue has read it all: EAGAIN, and disconnect_on_error.
ReadNothing(q) ==
  /\ pc[q] = "read"
  /\ s2c = <<>> /\ ~error /\ sState = "up"
  /\ error' = TRUE
  /\ ReturnErr(q)
  /\ UNCHANGED <<armed, waiter, known, asked, batch, handled, c2s, s2c,
                server>>

ReadEnd(q) ==
  /\ pc[q] = "read"
  /\ s2c = <<>> /\ (error \/ sState = "exited")
  /\ ReturnErr(q)
  /\ UNCHANGED <<shared, batch, handled, c2s, s2c, server>>

\* The next message of the batch, if it is of the type.
NextIs(q, type) ==
  /\ pc[q] = "batch" /\ batch[q] # <<>>
  /\ Head(batch[q]).type = type
  /\ batch' = [batch EXCEPT ![q] = Tail(@)]
  /\ handled' = [handled EXCEPT ![q] = @ \cup {Head(batch[q]).no}]

HandleNewObject(q) ==
  /\ NextIs(q, "new")
  /\ known' = known \cup {Head(batch[q]).arg}
  /\ UNCHANGED <<error, armed, waiter, asked, trips, calls, c2s, s2c, server>>

\* The acknowledgment goes to the queue whose dispatch read it.
HandleRoundtripDone(q) ==
  /\ NextIs(q, "done")
  /\ ackd' = [ackd EXCEPT ![q] = Head(batch[q]).arg]
  /\ UNCHANGED <<shared, trip, last, calls, c2s, s2c, server>>

HandleEvent(q) ==
  /\ NextIs(q, "event") /\ Head(batch[q]).arg \in known
  /\ Goto(q, "handler")
  /\ UNCHANGED <<shared, trips, block, failed, overlapped, c2s, s2c,
                server>>

\* An object that is not listed: disconnect_on_error; the batch goes on.
HandleUnknown(q) ==
  /\ NextIs(q, "event") /\ Head(batch[q]).arg \notin known
  /\ error' = TRUE
  /\ UNCHANGED <<armed, waiter, known, asked, trips, calls, c2s, s2c, server>>

HandlerReturns(q) ==
  /\ pc[q] = "handler"
  /\ Goto(q, "batch")
  /\ UNCHANGED <<shared, trips, block, failed, overlapped, batch,
                handled, c2s, s2c, server>>

DispatchReturns(q) ==
  /\ pc[q] = "batch" /\ batch[q] = <<>>
  /\ IF error THEN ReturnErr(q) ELSE ReturnOk(q)
  /\ UNCHANGED <<shared, batch, handled, c2s, s2c, server>>

-----------------------------------------------------------------------------
(* The server; nothing it writes arrives once the client has shut down. *)

ToClient(type, arg) ==
  /\ s2c' = Append(s2c, [no |-> sentNo + 1, type |-> type, arg |-> arg])
  /\ sentNo' = sentNo + 1

Serving == sState = "up" /\ ~error

client == <<shared, trips, calls, batch, handled>>

ServerReads ==
  /\ Serving /\ ~sBusy /\ c2s # <<>>
  /\ sBusy' = TRUE /\ sBatch' \in DOMAIN c2s
  /\ UNCHANGED <<client, c2s, s2c, sState, sSlot, served, made, events,
                sentNo>>

\* [Mutated form] The position in the batch is not advanced.
ServerNextNoAdvance(type) ==
  /\ Serving /\ sBatch > 0 /\ Head(c2s).type = type
  /\ c2s' = Tail(c2s) /\ UNCHANGED sBatch

ServerNext(type) ==
  /\ Serving /\ sBatch > 0 /\ Head(c2s).type = type
  /\ sBatch' = sBatch - 1 /\ c2s' = Tail(c2s)

HandleRoundtripRequest ==
  /\ ServerNext("trip")
  /\ sSlot' = Head(c2s).seq
  /\ served' = [served EXCEPT ![Head(c2s).queue] = Head(c2s).seq]
  /\ UNCHANGED <<client, s2c, sState, sBusy, made, events, sentNo>>

HandleMake ==
  /\ ServerNext("make")
  /\ made' = made + 1
  /\ ToClient("new", made + 1)
  /\ UNCHANGED <<client, sState, sBusy, sSlot, served, events>>

\* [Mutated form] The slot is not reset.
ServerEndsBatchKeepsSlot ==
  /\ Serving /\ sBusy /\ sBatch = 0
  /\ sBusy' = FALSE /\ UNCHANGED sSlot
  /\ IF sSlot > 0 THEN ToClient("done", sSlot) ELSE UNCHANGED <<s2c, sentNo>>
  /\ UNCHANGED <<client, c2s, sState, sBatch, served, made, events>>

\* The last request of the batch is acknowledged.
ServerEndsBatch ==
  /\ Serving /\ sBusy /\ sBatch = 0
  /\ sBusy' = FALSE /\ sSlot' = 0
  /\ IF sSlot > 0 THEN ToClient("done", sSlot) ELSE UNCHANGED <<s2c, sentNo>>
  /\ UNCHANGED <<client, c2s, sState, sBatch, served, made, events>>

SendEvent ==
  /\ Serving /\ events < MaxEvents
  /\ events' = events + 1
  /\ \E id \in 1..made : ToClient("event", id)
  /\ UNCHANGED <<client, c2s, sState, sBatch, sBusy, sSlot, served, made>>

ServerExits ==
  /\ MayExit /\ sState = "up"
  /\ sState' = "exited"
  /\ UNCHANGED <<client, c2s, s2c, sBatch, sBusy, sSlot, served, made, events,
                sentNo>>

-----------------------------------------------------------------------------
Init ==
  /\ error = FALSE /\ armed = TRUE /\ waiter = {} /\ known = {} /\ asked = 0
  /\ pc = [q \in Queues |-> "app"]
  /\ block = [q \in Queues |-> FALSE] /\ trip = [q \in Queues |-> FALSE]
  /\ last = [q \in Queues |-> 0] /\ ackd = [q \in Queues |-> 0]
  /\ batch = [q \in Queues |-> <<>>] /\ failed = [q \in Queues |-> FALSE]
  /\ handled = [q \in Queues |-> {}] /\ overlapped = FALSE
  /\ c2s = <<>> /\ s2c = <<>> /\ sState = "up" /\ sBatch = 0
  /\ sBusy = FALSE /\ sSlot = 0 /\ served = [q \in Queues |-> 0]
  /\ made = 0 /\ events = 0 /\ sentNo = 0

\* What a call under way does by itself.
GoesOn(q) ==
  \/ TripDispatches(q) \/ TripReturns(q) \/ TripFails(q)
  \/ PollEnters(q) \/ PollBusy(q) \/ PollNothing(q) \/ PollWakes(q) \/ Rearm(q)
  \/ Read(q) \/ ReadNothing(q) \/ ReadEnd(q)
  \/ HandleNewObject(q) \/ HandleRoundtripDone(q) \/ HandleEvent(q)
  \/ HandleUnknown(q) \/ HandlerReturns(q) \/ DispatchReturns(q)

ServerDispatch ==
  ServerReads \/ HandleRoundtripRequest \/ HandleMake \/ ServerEndsBatch

Next ==
  \/ \E q \in Queues : Dispatch(q) \/ Roundtrip(q) \/ GoesOn(q)
  \/ MakeObject \/ ServerDispatch \/ SendEvent \/ ServerExits

Spec == Init /\ [][Next]_vars

FairSpec ==
  /\ Spec
  /\ \A q \in Queues : WF_vars(GoesOn(q))
  /\ WF_vars(ServerDispatch)

-----------------------------------------------------------------------------
(* Properties. *)

Requests ==
  [type : {"trip"}, queue : Queues, seq : Nat] \cup [type : {"make"}]
Messages == [no : Nat, type : {"new", "done", "event"}, arg : Nat]

FlagsOK ==
  /\ error \in BOOLEAN /\ armed \in BOOLEAN /\ sBusy \in BOOLEAN
  /\ block \in [Queues -> BOOLEAN] /\ trip \in [Queues -> BOOLEAN]
  /\ failed \in [Queues -> BOOLEAN] /\ overlapped \in BOOLEAN

CallsOK ==
  /\ waiter \in SUBSET Queues /\ known \subseteq Nat /\ asked \in Nat
  /\ pc \in [Queues -> {"app", "poll", "wait", "woken", "read", "batch",
                        "handler"}]
  /\ last \in [Queues -> Nat] /\ ackd \in [Queues -> Nat]

TrafficOK ==
  /\ c2s \in Seq(Requests) /\ s2c \in Seq(Messages)
  /\ batch \in [Queues -> Seq(Messages)] /\ handled \in [Queues -> SUBSET Nat]
  /\ sentNo \in Nat

ServerOK ==
  /\ sState \in {"up", "exited"}
  /\ sBatch \in 0..Len(c2s) /\ sSlot \in Nat
  /\ served \in [Queues -> Nat] /\ made \in Nat /\ events \in Nat

\* The type of the state; the server's batch lies within the stream.
TypeOK == FlagsOK /\ CallsOK /\ TrafficOK /\ ServerOK

(* Whatever overlaps: no message is handled twice, and each queue handles  *)
(* its share in the order of the stream.                                   *)
HandledOnce ==
  \A q, r \in Queues :
    /\ q # r => handled[q] \cap handled[r] = {}
    /\ \A m \in handled[q] :
         /\ \A i \in DOMAIN batch[r] : batch[r][i].no # m
         /\ \A i \in DOMAIN batch[q] : batch[q][i].no > m
         /\ \A i \in DOMAIN s2c : s2c[i].no > m

(* The poller's one shot is never lost: while some call waits, traffic is  *)
(* reported, or another call has been woken for it and will arm it again.  *)
NoLostWakeup ==
  waiter # {} => armed \/ \E q \in Queues : pc[q] = "woken"

(* The documentation of roundtrip: it "blocks until the matching           *)
(* acknowledgment is received". When the last roundtrip of a queue has     *)
(* returned without an error, the server has handled its request.  The     *)
(* code does not keep this of calls that overlap, in threads or nested: a  *)
(* dispatch stores an acknowledgment of another queue as its own.          *)
RoundtripMatches ==
  ~overlapped =>
    \A q \in Queues : ~trip[q] /\ ~failed[q] => last[q] <= served[q]

(* The documentation of dispatch_events: it "Returns an error if the       *)
(* connection closes, polling fails, or incoming protocol traffic is       *)
(* malformed". The server here sends nothing malformed.                    *)
ErrorsAreReal == error \/ (\E q \in Queues : failed[q]) => sState = "exited"

(* The other half of that sentence: once the server has answered, a        *)
(* roundtrip returns, with its acknowledgment or with an error; of calls   *)
(* that overlap, one may wait for ever for what another has read.          *)
RoundtripReturns == \A q \in Queues : trip[q] ~> ~trip[q] \/ overlapped

=============================================================================

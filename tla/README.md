# hyprwire-rs: specifications, model checks and proofs

hyprwire-rs is a wire protocol over Unix stream sockets. A *server* offers
protocols; a *client* binds a protocol's root object and calls methods, some of
which return new objects; the server sends events. Code for both sides is
generated from an XML description. This directory holds TLA+ modules that model
the protocol as the Rust code implements it, TLC configurations that check them
on small instances, and TLAPS proofs of the main safety properties for every
instance.

Paths below are relative to `src/`.

## 1. Inventory

| part | source | state | operations |
|---|---|---|---|
| client objects | `hyprwire/src/client/{client_socket,client_object}.rs`, `implementation/wire_object.rs` | `ClientSocket.objects`, `.seq`; per object `id` (0 until resolved), `seq`, `destroyed`, its `Arc` count | `bind_protocol`, `call`, `make_object`, `Drop`, `on_seq`, `on_generic`, `destroy_object`, `collect_orphaned_objects` |
| event queue | `hyprwire/src/client/event_queue.rs` | a mutex; deferred calls; last sent and last acknowledged roundtrip | `dispatch_events`, `roundtrip`, `wait_for_handshake` |
| server's client state | `hyprwire/src/server/{server_client,server_object}.rs` | `objects`, `max_id`, `scheduled_roundtrip_seq`, the error flag; per object `destroyed` | `create_object`, `on_generic`, `destroy_objects_for_disconnect`, `call`, `error` |
| server loop | `hyprwire/src/server/server_socket.rs` | `clients`, `next_client_id`, poller registrations | `dispatch_events`, `accept_one`, `add_client`, `remove_client`, `dispatch_client` |
| message dispatch | `hyprwire/src/message.rs` | none of its own | one handler per message and side |
| handshake | `message.rs`, `event_queue.rs` 74-98 | `handshake_done`, `handshake_begin`, `server_specs`, `version` | Sup, HandshakeBegin, HandshakeAck, HandshakeProtocols; the timeout |
| stream | `hyprwire/src/lib.rs` 61-97, `socket/socket_helpers.rs` | the kernel's buffers | `send_message`, `read_from_socket` |
| wire format | `hyprwire-core/src/message` | none | encoding and parsing of messages, variable-length integers |
| scanner | `hyprwire-scanner/src` | what it has parsed | parse XML, close over returned types, generate specifications, stubs and dispatch |
| helpers, placeholder crate, examples, benches | `helpers.rs`, `error.rs`, `hyprwire-protocols`, `examples` | none of the protocol's | |

How they interact. An application thread calls methods of proxies (`call`),
which write to the stream, or, while the object has no id, push the encoded call
on its queue. `dispatch_events` takes the queue's mutex, collects orphans, waits
for the poller, reads everything one read gives, handles each message (running
the application's handlers with the mutex held), then takes the deferred calls
and sends those that can be sent, and collects orphans again. The server's loop
polls all clients, reads a batch from each that is readable, handles it and
acknowledges the last roundtrip request of the batch. Nothing is persisted: a
crash is the end of a stream.

What is hard:

- **Crossing messages.** Each side changes its list of objects before the other
  knows. Ids are learnt late, so calls, drops and collections happen on objects
  that have no id yet.
- **Two ways to send.** A deferred call and a direct call of the same object take
  different ways to the stream.
- **Batches.** A read ends anywhere. Handlers run in the middle of a batch; an
  error flag does not stop the rest of the batch; roundtrips are acknowledged per
  batch.
- **Ends.** Either process may exit, a server handler may raise an error, and
  destructors still owed have to run once and in order.
- **Re-entrance.** Handlers run with the queue's mutex held.
- **Several queues and threads** for one client share the object list, the
  stream and the poller.
- **Bytes.** Reads and writes are not message-aligned, and buffers have edges.

What makes each part right: the two object lists never contradict each other
(objects); calls arrive in order, waits end, a roundtrip is a barrier (queue);
destructors run exactly once, and a dead client is forgotten (server); a handshake ends in agreement or failure on both sides (handshake);
what is read is what was written (stream, wire format); every readable stream is
served and a live server keeps its path (loop); generated code of both sides
agrees on every table (scanner).

`PROJECT.json` lists the hazards at their lines, and for each the properties
about it or the reason there is none yet. Smaller ones are under "Not modelled and
known limits" at the end.

## 2. Modules

| module | models |
|---|---|
| `ObjectRegistry` | what a connection promises about objects: asked for, made at most once, released, ended only after release |
| `Connection` | the client's objects and its event queue, the server's state for that client, and the stream between them |
| `ConnectionProofs` | theorems about `Connection`: types, ids and lists; then the refinement of `ObjectRegistry`, destructors, roundtrips, the order of calls |
| `Handshake` | how a connection is set up, from the hello to the first binds, and how it is given up |
| `HandshakeProofs` | theorems about `Handshake` |
| `EventQueues` | several event queues of one client, which share poller, stream and objects |
| `EventQueuesProofs` | theorems about `EventQueues` |
| `Transport` | how messages cross a stream of bytes: pieces, short writes, reads buffer by buffer |
| `TransportProofs` | theorems about `Transport` |
| `ServerLoop` | the server's event loop: accepting, adding, serving and dropping clients |
| `ServerBind` | how servers come by a socket path |
| `Server` | composes the two: a server process from bind to its end, restarts, and others that want its path |
| `ServerProofs` | theorems about `ServerLoop`, `ServerBind` and `Server` |
| `LeastNumber` | lemmas: a set of natural numbers that is not empty has a least one; induction; what is defined step by step exists |
| `WireCodec` | the bytes of every message, as functions: constructors, parsers, the trace's reader |
| `Scanner` | `parse_protocol`, event by event |
| `Bindings` | composes `Scanner` and `WireCodec`: a document is parsed and generated from; a client and a server built from it talk, byte by byte |
| `ScannerProofs`, `BindingsProofs` | theorems about `Scanner` and `Bindings` |
| `MC...` | the specifications for TLC |

Apart from the two compositions and the refinement the modules do not import each
other: each takes one question out of the system and replaces the rest by what the
other modules show of it. `Connection` starts where `Handshake` ends, and both take
messages to arrive whole and in order, which is what `Transport` is about.
`Connection` has one queue with its deferred calls; `EventQueues` has several queues
without them. `ServerLoop` has many clients and knows of a message only whether it
can be handled, which `Connection` and `Handshake` decide for one client.
`Bindings` has every field of every message and reads one whole message at a time.

Operators whose comment begins with "[Mutated form]" are not part of a
specification. Each is a plausible bug in the definition that follows it, and
`PROJECT.json` names the property that excludes it.

### Connection

One established connection. Its client has one event queue, dispatched by one
thread; everything the application may do between dispatches and inside handlers
is an action.

| variables | code |
|---|---|
| `cSeq`, `cListed` | `ClientSocket.seq`, `.objects` |
| `cId`, `cDestroyed` | `ClientObject.id`, `.destroyed` |
| `cHeld` | `Arc::strong_count > 1` outside a dispatch of the object |
| `cQueue`, `cPending` | `EventQueueInner.queue`; the vector `mem::take` returns while it is gone through |
| `cSent`, `cAckd` | the roundtrip counters of the queue |
| `cError`, `cShut` | `ConnectionState.error`; the client's end is shut down or closed |
| `cpc`, `cCur`, `cCurLast`, `cBatch` | where `dispatch_events` is: collecting, waiting for traffic, in a batch, in a handler, flushing, collecting again |
| `cWaitObj`, `cWaitAck` | `Client::bind` or `EventQueue::roundtrip` is in its loop |
| `c2s`, `s2c` | the stream, one element per message |
| `sObj`, `sListed`, `sDestroyed` | objects in the order of their ids; `ServerClientState.objects`; `ServerObject.destroyed` |
| `sError`, `sState` | the flag; whether the client is in `ServerSocket.clients` ("up"), is being removed ("closing"), is gone while the application still keeps objects of it ("dropped"), or its stream is closed |
| `sBusy`, `sBatch`, `sSlot` | inside `dispatch_client`; what is left of the batch; `scheduled_roundtrip_seq` |

`sDtor`, `sLast` and `ahead` are history: destructor callbacks that ran, the last
call delivered per object, and how much of the stream precedes the last roundtrip
request. `sSpent` and the constants `Max...` bound the exploration.

Each handler of a message is one action (`HandleNewObject`, `HandleEvent`,
`HandleBind`, `HandleDestroy`, ...). `dispatch_events` is cut where another party
can act: before and after each message, each handler, each deferred call and each
collected object. `collect_orphaned_objects` is one action per object
(`CollectOne`) because each drop may send.

Abstractions. Protocol roots have no destructor; every other object has one that
takes no arguments, which the generated proxies do not expose, so that only
`Drop` sends it. Methods are a call without a result and a call that returns an
object. Payloads, file descriptors and versions are left out. A call made inside
a handler carries no number (see below, order of calls). An event handler can do
whatever the application can: call, make, drop, keep its proxy.

### ObjectRegistry

No messages and no queues: `Ask`, `Make`, `Release`, `End`, `Close`. The
refinement maps `released` to the seqs the client neither lists nor holds. It says
that the server ends an object only after the client has let go of it for good,
and makes no object twice.

### Handshake

| variables | code |
|---|---|
| `cDone`, `cSpecs`, `clock` | `handshake_done`, `server_specs`, the time since `handshake_begin` |
| `cError`, `cShut` | as in `Connection` |
| `cpc`, `cBlock`, `cBatch`, `cWait` | where `dispatch_events` is, its parameter, what it has read, and the call that loops on it (`wait_for_handshake`, `bind`) |
| `sState` | not yet accepted, in `ServerSocket.clients`, removed, or its process has exited |
| `sImpls`, `sVersion`, `sRoots` | the registered implementations, `ServerClientState.version`, the roots bound |

The four messages have one handler each (`HandleBegin`, `HandleAck`,
`HandleProtocols`, ...), binds and their errors too (`HandleBind` and
`HandleMalformedBind`). The server may accept the
connection late, register protocols between dispatches, and never dispatch at
all. Time passes by `Tick`, up to `Deadline`; only a blocking dispatch that finds
no traffic looks at it (`PollTimesOut`), as in the code. `Offers` holds the sets of
versions HandshakeBegin may list, one of which is chosen, so that servers which
share no version with the client are met too.

### EventQueues

| variables | code |
|---|---|
| `pc`, `block`, `trip` | of each queue: where `dispatch_events_inner` is, its parameter, whether `roundtrip` called it |
| `last`, `ackd` | of each queue: `last_sent_roundtrip_seq`, `last_ackd_roundtrip_seq` |
| `batch` | of each queue: what it has read and not handled |
| `armed`, `waiter` | the poller's one-shot interest in the stream; the call inside `poller.wait` |
| `known`, `error` | the shared list of objects; `ConnectionState.error` |
| `sSlot` | `scheduled_roundtrip_seq`, one for all queues of a client |

Calls on different queues may overlap, as those of threads do; a handler of one that
calls another is the case in which the outer call rests until the inner one returns.
A read takes any number of messages from the front of the stream; between its wait,
its re-arming, its read and each message, the others may act. The poller is external, modelled
as the `polling` crate the lock file names behaves: level triggered, one shot, and
`wait` returns at once, with no event, while another thread is inside it.
`failed`, `handled`, `served` and `overlapped` (a call began while another was under
way) are history. Calls are sent and listed in one step here, and a read is one step:
two threads that both find the stream readable read one after the other, although in
the code the loops over `recvmsg` of two reads larger than a buffer could interleave.

### Transport

Each end is one thread; what travels are numbered parts of messages.
`send_message` is a loop over `sendmsg`, one action per piece (`TakePiece`,
`ShortWrite`, `PeerGone`), `read_from_socket` one over `recvmsg` (`Recv`,
`RecvNothing`, `RecvEnd`), and `handle_message` one over what was read
(`WholeNext`, `CutNext`, garbage). A handler may send, and an error of the
server sends the fatal message before the stream is closed. The kernel is
external: it takes a piece (`Segment`) as a whole when it has any room (`Cap`);
the first piece of a `sendmsg` waits for room (EAGAIN), a later one makes the
write short; a process that exits with unread data may give its peer an error
instead of the end of the stream.

### ServerLoop, ServerBind, Server

| variables | code |
|---|---|
| `place`, `hung`, `shut`, `inbox`, `backlog` | external: where each connection is, which ends are closed, what is unread, the listener's queue |
| `clients`, `owner` | the ids in `ServerSocket.clients`; the connection of every id given out so far (`next_client_id`) |
| `err`, `polled`, `creds` | `ConnectionState.error`, `ServerClientState.first_poll_done` and `.creds` of an id |
| `regs`, `armed` | the keys added to the poller, and those whose one-shot interest is armed; key 0 is the listener |
| `pc`, `block`, `events`, `dead`, `leaving` | where `dispatch_events` is: polling, in a batch of events, removing those found dead; the client that has left the table and is still registered |
| `path`, `at` | what is at the socket path; where in `bind` each server is |

`dispatch_events` is cut where peers can act: at the poll, at each event, and
between the steps that remove a client (`ReapRemove` takes it out of the table and
destroys its objects, `ReapDelete` tells the poller and closes the stream). A batch is
what the poller had ready, in any order. `Accept`, `Settle` (arm again or note as
dead) and the actions that fail follow the code's `?`: an error returns at once and
leaves the rest of the batch, its keys disarmed and its dead clients in the table
(`Abandon`). Of messages the loop knows four kinds: a hello, one a handler sees, one
for an unknown object, one that is malformed. A first hello sets `first_poll_done` and then asks the
socket for the credentials of its peer, which may fail (`Learns`); they are not asked
for again. A peer of this library says hello first; one in `Rude` sends what it likes.
Between dispatches the application may add a client (`add_client`), remove one, or
raise an error; callbacks may raise one, too. A server crashes at any point and may
be started again, listening or detached.

`ServerBind` is the body of `bind` in five steps on a path that other processes use:
look, connect, remove, bind, listen. `path` is the server whose socket is there, or
"refuses" for what answers nobody, a dead server's socket or a regular file.
`Server` joins the two: a server is up when `bind` has returned, clients find it
only while the path is its own, and `Dies` ends both. Others act at any
time (`OnPath`), inside `bind` together with it or with each other.

`cleaned`, `known`, `excused`, `failed`, `refused` (the system gave no credentials) and
`raced` (the servers that were inside `bind` together with another when they last went
through it) are history, `trouble` is a bound.

### Scanner, WireCodec, Bindings

| variables | code |
|---|---|
| `said`, `form`, `damage`, `doc`, `pos` | the document, as events of the XML reader, and the next event |
| `where`, `passing` | which of the four loops of `parse.rs` reads; the element `read_to_end` passes |
| `out`, `obj`, `meth`, `enm` | the `Protocol` so far and what is being read of it |
| `search`, `bounds` | `visited`, `queue` and result of `collect_transitive_returns`; the bounds of each object's dispatch |
| `wire` | bytes and descriptors underway in each direction |
| `specs`, `mine`, `theirs`, `asked`, `errd` | `server_specs`; objects of either side; the roundtrip to answer; `ConnectionState.error` |

`told` and `heard` are history: what was said, as name and values, and what was
read. A document is written from a protocol (`Doc`) in several layouts, with
descriptions and elements the scanner does not know, or arguments with closing
tags; a damaged one is cut short or lacks an attribute. `form` is how elements that
hold nothing are written: as most of the repository's protocols do ("plain": values and
`returns` as empty elements, methods with a closing tag), methods without anything as
empty elements ("folded"), or values and `returns` with a closing tag ("unfolded"). A
method that is no destructor lacks the attribute or says "false". The XML reader is
external: it delivers events and refuses elements that do not nest. Text is a sequence
of bytes.

From what was parsed `Bindings` builds what the generator writes: the magics of the
specification (`MagicForArg`), the stubs and the arguments they pass
(`CallArgExpr`, `ClientStubs`), what the dispatch takes from a message (`TakeArg`).
`EncodeArgs` is the code of `WireObject::call`, `ReadGeneric` that of
`GenericProtocolMessage::from_bytes`, and `Formatted` the walk of `parse_data` over
the same bytes for the trace. Each message is written by its constructor and read
by its parser: hello, versions, acknowledgment, protocols, bind, NewObject, calls,
roundtrips, the fatal error. Limits are constants, scaled down (`MaxArray`).

## 3. Runs

For the runs of `Connection` the numbers are `MaxSeq`, `MaxCalls`, `MaxEvents`,
`MaxGone`, `MaxTrips`, `MaxRaised`.

| run | bounds | states | shows |
|---|---|---|---|
| `objects` | 3 2 0 1 2 1, exits, blocking handlers, `Corner` | 1 250 000 | `TypeOK`, `NoUnknownObject`, `IdAgreement`, `PendingAccounted`, `DestructorOnce`, `RoundtripIsBarrier`, `ImplementsRegistry`, `CallsInOrder` |
| `progress` | 2 0 1 0 1 1, exits, fair | 140 000 | `ObjectResolves`, `OrphanDestroyed`, `WaitEnds` |
| `self_disconnect` | 2 0 1 0 0 0 | | `NoSelfDisconnect` fails |

`Corner` (in `MCConnection`) is a state constraint: either three objects and the
error, without calls and roundtrips, or two objects with both calls and both
roundtrips, without the error. All at once does not fit into a run.

The others:

| run | bounds | states | shows |
|---|---|---|---|
| `handshake` | 2 names, versions up to 2, a server with and one without the client's, 2 registrations, 2 binds, exits, client fair | 63 000 | `TypeOK`, `Agreement`, `BindAfterAck`, `VersionSupported`, `NoLateSuccess`, `HandshakeEnds`, `GivenUpIsForgotten` |
| `queues` | 2 queues; apart, with 2 roundtrips each or 1 event, and exits; or in 2 threads, with 1 roundtrip each; fair | 369 000 | `TypeOK`, `HandledOnce`, `NoLostWakeup`, `RoundtripMatches`, `RoundtripReturns` |
| `queues_closed` | 2 queues, 1 roundtrip each, calls overlap freely | | `ErrorsAreReal` fails |
| `stream` | lengths 1, 2 and 4, read buffer 3, segment 2, kernel buffer 3, 2 messages each, exits, fair | 145 000 | `DeliveredInOrder`, `SendReturns`, `AllArrives` |
| `exact_buffer` | lengths 1 and 2, buffer 2 | | `OnlyMalformedEnds` fails |
| `server` | 2 connections, of 2 messages and, `Rude`, of 1; 1 trouble (failing call, removal, error or crash), 3 servers at the path, fair | 152 000 | `RegisteredIsOpen`, `ObjectsDestroyedOnce`, `WorkWakesLoop`, `HealthyStays`, `CredsAfterHello`, `KeepsItsPath`, `OnlyLiveServersRefuse`, `StreamsAreServed` |
| `bindings` | a protocol with every type of argument, whole and damaged, and 64 of three objects that return each other, in the plain form; 2 calls, 1 roundtrip | 233 000 | `ParsedAsWritten`, `BoundsSuffice`, `MessagesReadAsWritten`, `EndsForAReason`, `TraceReadsAlike` |
| `empty_method` | a protocol with an empty method, in all three forms | | `ReadInEveryForm` fails |
| `array_limit` | an array of exactly the limit | | `EndsForAReason` fails |

`MCEventQueues` has two modes: "apart" has no two calls under way at once and "threads"
has them overlap, with bounds of their own. `MCServer` has two worlds: in one the loop
serves and the others leave the path alone, in the other three servers meet inside
`bind` and the loop only starts and dies. The product of each pair does not fit into a
run; nothing of the one half depends on the other.

Why these bounds are enough. Three objects are a root, a child and a grandchild,
or a root and two children: the shapes that tell apart seq and id (a deferred
make is answered after a later one), parents from children at a disconnect, and a
deferred call of an object from one of another. One server-side destructor
crosses any one message. Two calls and two roundtrips are what an order needs.
Two names and two registrations are enough for an entry that shares its name with
another one, and for one that comes too late. Two queues with two roundtrips each
are enough for an acknowledgment to reach the wrong queue, or the right one with
a number of the other. A message shorter than, equal to and longer than a segment
and a read buffer covers the edges of `Transport`; the code's own numbers (8192
bytes) only scale them. Two connections are enough for one to fail, die or be
removed while the other waits in the same batch, and one trouble for every early
return; two in a row only end the process sooner. Three servers are enough for two to
race and a third to meet what is left. The values of `bindings` have
texts and arrays that are empty, and a text of 130 bytes, so that lengths take one
byte and two; numbers with bytes that look like magics (0, 33); every type of
argument and array, descriptors beside plain ones, negative numbers, and an array
of one element more than the limit; exactly at it is `array_limit`. The 64 protocols are all ways in which each of three objects returns
one of them or a type nobody has: chains, cycles, shared targets. Deadlock is not
checked: an application may stop calling, and a finished connection has no step.

The properties, by hazard:

- `NoUnknownObject`, `ImplementsRegistry`: destructors sent by `Drop`, deferred
  calls and server-side destructors may cross, but the server is never asked about
  an object it has forgotten.
- `IdAgreement`: the client's seq and the server's id always mean the same object.
- `PendingAccounted`, `ObjectResolves`: nothing between the deferred queue, the
  stream and the answer loses a request. With a server-side destructor the code
  does lose one: a make on a destroyed object gives `create_object` = `None`
  (`server_object.rs` 109), and the client's object stays pending. The properties
  are about connections without one, and say so.
- `CallsInOrder`: calls made outside handlers keep their order when deferral ends.
  A handler that runs in the dispatch that resolved the object may overtake calls deferred before
  it (`event_queue.rs` 144 comes after the handlers); such calls carry no number.
- `RoundtripIsBarrier`: an acknowledgment means everything up to the request has
  been handled. Deferred calls are not in the stream and are not covered by it.
- `DestructorOnce`: the server's application sees each destructor once, by the client's
  call or at the disconnect.
- `OrphanDestroyed`: dropping the last handle, also before the id is known, leads
  to the object's destruction at the server.
- `WaitEnds`: waits return, whatever the server does meanwhile.
- `Agreement`, `BindAfterAck`: the server's handlers do not look at the state of the
  handshake; that a bind never comes before the acknowledgment, and that both ends
  run one offered version, rests on the order of messages alone.
- `NoLateSuccess`, `HandshakeEnds`, `GivenUpIsForgotten`: the deadline races a late
  answer. A client that gave up stays given up, the wait ends whatever the server
  does, and the server forgets the client.
- `VersionSupported`: the version the client saw advertised and the entry the server
  finds later are of the same registration.
- `HandledOnce`, `NoLostWakeup`: two threads may both find the stream readable, since
  the interest is armed again before the read; still nothing is handled twice or
  out of a queue's order, and no thread sleeps on a readable stream.
- `RoundtripMatches`, `RoundtripReturns`: queues number their roundtrips alike and
  the server has one slot for all; acknowledgments reach the queue that asked, until
  calls on different queues overlap. From then on both fail, see section 6.
- `ErrorsAreReal` (fails): a dispatch fails only for a reason.
- `DeliveredInOrder`: pieces and read buffers divide messages anywhere. It is about
  streams on which no write was cut short, so that it does not cover what a short write
  does to the rest of a message. A message cut in two by a read is not kept for the
  next one: it ends the connection, and nothing is delivered out of order.
- `SendReturns`, `AllArrives`: a send that waits for room returns, and what is sent
  arrives, in every state but one: both ends are inside `send_message` and neither
  buffer has room (`BothWait`). The run reaches that state, and nothing else ends in a
  wait. No document limits what handlers send, so this is a hazard and not a finding.
- `OnlyMalformedEnds` (fails): traffic that is whole and in order ends nothing.
- `RegisteredIsOpen`: the contract of the unsafe `poller.add`. A client leaves the
  table before its handlers run, and the poller forgets it later, on each path.
- `ObjectsDestroyedOnce`, `HealthyStays`: a client can be found dead, be removed by
  the application, or have an error raised in a callback, and more than one of these;
  its objects are destroyed once, and nobody else's are.
- `WorkWakesLoop`, `StreamsAreServed`: interest is one-shot, so an event that is lost
  or a key that is not armed again silences a client for good. Both are about servers
  no dispatch of which has failed: after an error of `dispatch_events` the code leaves
  keys disarmed, and says nothing of calling it again.
- `CredsAfterHello`: when a callback shows a client its credentials are set, or the
  system refused them, or its peer did not begin with a hello. The comment at
  `server_client.rs` 47-51, on why `creds` may unwrap, knows neither exception.
- `KeepsItsPath`, `OnlyLiveServersRefuse`: a server that is up keeps its path, and the
  remains of a dead one keep nobody from starting. Both are about a server that had
  `bind` to itself, among others that race; of those that do race neither is true, see
  section 6.
- `ParsedAsWritten`: each loop of the parser takes the next closing tag for its own.
  Whole documents in the plain form are read as written; one that is cut is refused or
  gives a prefix.
- `ReadInEveryForm` (fails): what a document says does not depend on how it writes an
  element that holds nothing.
- `BoundsSuffice`: the closure of returned types ends, and holds what the generated
  code asks for, by comparison with reachability defined on its own.
- `MessagesReadAsWritten`, `TraceReadsAlike`: five tables written by two crates agree on
  where each field of each call begins. A make that the server drops, because its object
  is destroyed, counts as read; what becomes of it is `PendingAccounted`'s question.
- `EndsForAReason`: what is refused is refused for a limit the writer does not know, an
  array of more than the maximum or a bind of version 0. An array of exactly the maximum
  is refused too, so that the property fails in `array_limit`.

Fairness. For `Connection`, `WF` of the client's dispatch and of the server's dispatch: an event
loop calls `dispatch_events` when the descriptor is readable (the examples do),
`bind` and `roundtrip` loop on it themselves, and a server calls
`ServerSocket::dispatch_events` in a loop. Nothing is assumed of what the
applications choose to call, of exits, or of the server's application letting go
of the objects of a dropped client. A non-blocking dispatch that finds nothing
(`NoTraffic`) is not part of the fair action. `HandshakeEnds` assumes of the
client that its call goes on and that time passes, and nothing of the server;
`GivenUpIsForgotten` adds the server's loop. `EventQueues` assumes the same of
each queue's call and of the server. `Transport` assumes that a `send_message`
goes on and that an end with something to read reads, as long as it is not itself
inside a send. The `MCSpec` of `MCServer` assumes that a server which is up runs, and that its
application dispatches for ever, as the servers of the examples do; nothing of
peers, of other servers, or of who starts a server again.

### Findings

**A client ends its own connection.** `self_disconnect` checks what the documentation of `dispatch_events` says of its
errors (`event_queue.rs` 51-53): they come when the connection closes, polling
fails, or the traffic is malformed. In the run the client drops the last handle of
an object; `collect_orphaned_objects` removes it and `Drop` sends the destructor.
The server has not read it yet and sends an event of the object, which is
legitimate. The client finds no such object (`client_socket.rs` 292) and calls
`disconnect_on_error`: it shuts down a connection on which nobody did anything
wrong.

**Exactly one buffer of traffic ends the connection.** `exact_buffer` checks the same
sentence. `read_from_socket` reads again whenever the buffer was full
(`socket_helpers.rs` 54). If the stream held exactly one buffer, or a multiple, the
next `recvmsg` gives EAGAIN, which is treated as an error: what was read is
dropped and the client disconnects.

**A second thread is told that the connection is closed.** `queues_closed` checks the
sentence for two queues in two threads. The poller gives the second thread no
event, because the first one is inside it; `dispatch_events` takes no event for a
closed connection (`event_queue.rs` 110) although `block` promises to wait.

**The scanner drops a method.** `empty_method` checks that a document is read alike in
each form of XML. The integration tests' protocol writes a destructor as an empty element
(`hyprwire/tests/protocols/integration-test-protocol-v1.xml` 205-206), another method with
a closing tag (106). `parse_object` takes methods from `Event::Start` only
(`parse.rs` 251) and passes an empty element in silence (271): the method is gone, and
methods behind it have other numbers. In the same way a `returns` with a closing tag is
passed by (136), and the closing tag of a value ends its enum early (289, 301).

**An array of the maximum size is refused.** `array_limit` checks what the code says of
its limit: "array max size is 10000." (`message.rs` 103, 284), "exceeded the maximum
allowed element count" (`error.rs` 24 of `hyprwire-core`). `arr_len >= 10000`
(`generic_protocol_message.rs` 89) refuses an array of exactly that many, and the
connection ends.

## 4. Proofs

Every safety invariant and action property that a passing run checks is also
proved, for every value of the constants, except three of `bindings`. Nothing is
assumed but the `ASSUME`s of the modules (bounds are natural numbers, switches are
Booleans, sizes are not 0, protocols are what a document can say) and that the names
"nothing" and "refuses" are no servers.

`ConnectionProofs`:

| theorem | statement |
|---|---|
| `TypeCorrect` | `Spec => []TypeOK` |
| `NoUnknownObjectEver` | `Spec => []NoUnknownObject` |
| `IdsAgree` | `Spec => []IdAgreement` |
| `Inductive` | `Spec => []IInv`, from which the three follow |

`NoUnknownObject` is not inductive: that the next message names a listed object
depends on all the messages behind it and on what the client may still send. The
invariant `IInv` adds:

- `StreamLinks`. *Last word*: in `c2s` nothing about an object follows its
  destructor, and every object a message names is listed by the server
  (`LastWord`, `NamedAreListed`). A destructor is sent only when the client neither
  lists nor holds the object; so an object the client still lists, or holds, has no
  destructor in the stream and is listed by the server (`ClientsAreListed`).
- `QueueLinks`. Deferred calls are on objects that were asked for, and are of a
  kind that can be deferred (`DeferredOK`).
- `IdLinks`. A NewObject in flight, and an id the client has stored, agree with the
  server's object (`NewInFlight`, `Agreement`): a seq is given out once, and asked
  for once.

Each action has a lemma for each of the conjuncts it can disturb; actions that
leave the variables of a conjunct alone are handled together.

Its second part has a second invariant, `JInv`, which contains `IInv`:

| theorem | statement | rests on |
|---|---|---|
| `DestructorsRunOnce` | `Spec => []DestructorOnce` | `Ends` |
| `RoundtripsAreBarriers` | `Spec => []RoundtripIsBarrier` | `Trips` |
| `RequestsAccounted` | `Spec => []PendingAccounted` | `AskedOnce`, `AnsweredOnce`, `NothingGone`, `Accounted` |
| `CallsArriveInOrder` | `Spec => CallsInOrder` | `CallOrder` |
| `ImplementsObjectRegistry` | `Spec => ImplementsRegistry` | `Resolved`, `StreamOnce`, and `ClientsAreListed` of `IInv` |

- `Ends`: what was destroyed has left the list or belongs to a dropped client, so that
  the two ways to a destructor, a client's call and the disconnect, never meet.
- `Trips`: roundtrip numbers ascend from what the client has acknowledged, through
  the acknowledgments and the slot, to the requests in the stream.
- `AskedOnce`: the request for a seq is in one place only: in the stream, in the
  queue, among the calls the flush goes through, or handled.
- `CallOrder`: the numbers of calls on one object ascend from the last one
  delivered, through the stream, to the deferred ones. `NamedAreKnown` and
  `DeferredWait` are why a direct call cannot overtake a deferred one: when the first is
  made the object has its id, and outside the handling of a batch no deferred call
  is of an object that has one.

The refinement goes step by step: a step of the client asks, releases, or changes
nothing of the registry (`ClientRefines`); a step of the server makes an object that
was not made before, ends one the client has released, closes, or changes nothing
(`ServerRefines`).

`HandshakeProofs`, from `HandshakeAssumption` (bounds are natural numbers, the
client's version is not 0):

| theorem | statement |
|---|---|
| `TypeCorrect` | `Spec => []TypeOK` |
| `HandshakesAgree` | `Spec => []Agreement` |
| `BindsComeAfterAcks` | `Spec => []BindAfterAck` |
| `VersionsSupported` | `Spec => []VersionSupported` |
| `NoLateSuccessEver` | `Spec => NoLateSuccess` |

`Agreement` and `BindAfterAck` are about what one end believes of the other, and
the invariant follows that through the streams: an acknowledgment on its way
names an offered version (`AcksOffered`), the server stores nothing else
(`StoredIsAckd`), sends its protocols only then (`AnswersFollow`), the client knows
protocols only from that message (`KnownFollows`) and binds only what it knows
(`BindsFollow`). For `VersionSupported`, `VersionsFollow` compares every list of
protocols on that way with the server's: the first entry of each name has the same
version, and registering another one changes no first entry. For `NoLateSuccess`: a
dispatch that timed out has shut the stream down, and no later one reads.

`EventQueuesProofs`, for any set of queues and any way their calls overlap:

| theorem | statement |
|---|---|
| `TypeCorrect` | `Spec => []TypeOK` |
| `NoLostWakeupEver` | `Spec => []NoLostWakeup` |
| `HandledOnceEver` | `Spec => []HandledOnce` |
| `RoundtripsMatch` | `Spec => []RoundtripMatches` |

`NoLostWakeup` says nothing while no call waits, so `Shot` does: the interest is
armed, or some call has been woken and arms it in its next step. `HandledOnce` needs
`StreamOrder`: message numbers ascend along what a queue has handled, what it has
read, and the stream, and no two queues have seen the same one. It is kept by
cutting the stream in two at a read, by moving the first read message to the
handled ones, and by giving a new message a number above all (`ReadOrder`,
`TakeOrder`, `SendOrder`). `RoundtripMatches` speaks of the time before calls overlap. Its invariant `TripInv`
says that until then at most one call is under way (`Alone`) and that of its roundtrip
the request, the slot, or the acknowledgment is in one place (`InOnePlace`), with nothing
of an earlier one left anywhere, until an error ends all.

`TransportProofs`, for any sizes of buffers, pieces and messages:

| theorem | statement |
|---|---|
| `TypeCorrect` | `Spec => []TypeOK` |
| `MessagesKeepTheirOrder` | `Spec => []DeliveredInOrder` |

`Contiguous` says where every part is on its way to an end that still reads: what
was read and then what the kernel holds begins with the first part of the message
after the last one handled, each part is followed by the one that was put next, and
the last by the one to be put next. A piece taken adds consecutive parts, a read only
moves parts from one sequence to the other, and a message handled takes away all its
parts. That nothing else than a message can be parsed (`NoGarbage`) is an argument
about the first part that would be out of place. All this is about a sender none of
whose writes was cut short.

`ServerProofs`. The first group is about `ServerLoop`, for any set of connections:

| theorem | statement |
|---|---|
| `TypeCorrect` | `Spec => []TypeOK` |
| `PollerHoldsOpenStreams` | `Spec => []RegisteredIsOpen` |
| `ObjectsAreDestroyedOnce` | `Spec => []ObjectsDestroyedOnce` |
| `WorkAlwaysWakes` | `Spec => []WorkWakesLoop` |
| `HealthyConnectionsStay` | `Spec => []HealthyStays` |
| `CredsFollowHello` | `Spec => []CredsAfterHello` |

One invariant serves all five. No two ids are of one connection (`Owned`); the poller
has the keys of the table and of the client that is leaving it (`Table`); a batch names
each client once, has something to read from it, and finds it in the table, apart
from those found dead (`Batch`); a key is armed, in the batch or among the dead, as
long as no dispatch has failed (`Wakes`); what marks a connection as ended has a
reason (`Excuses`); a client without credentials was refused them, has a peer that is
`Rude`, or has the hello still before it (`Hellos`).

The second group is about `ServerBind` and the composition, for any set of servers that
race as they like:

| theorem | statement |
|---|---|
| `BindTypeCorrect` | `BindSpec => []BindTypeOK` |
| `PathsAreKept` | `BindSpec => []KeepsItsPath` |
| `OnlyTheLiveRefuse` | `BindSpec => OnlyLiveServersRefuse` |
| `ServerBinds`, `ServerLoops` | `ServerSpec => BindSpec` and `ServerSpec => Spec`: the composition implements its two parts |
| `ServersKeepTheirPaths`, `OnlyLiveLoopsRefuse` | the two promises of `bind` for the composition |
| `ServersServe` | the five invariants of the loop for the composition |

Each step of `bind` acts on what an earlier one saw, and in a race that may be so no
more. The properties speak of the servers that did not race when they last went through
`bind`, and the invariant says why the others do not harm them: while such a server is
inside nobody else is (`Alone`), so that what it saw of the path stays so (`Seen`); once
it is up, whoever comes asks it first and goes away with `AddrInUse` (`Asking`).

`BindingsProofs`, for any documents:

| theorem | statement |
|---|---|
| `BoundsAlwaysSuffice` | `Spec => []BoundsSuffice` |

`collect_transitive_returns` is a search with a queue; `BoundsSuffice` says what it is to
find by as many rounds as there are objects. `BindInv` connects the two: what the
parser has put together is a protocol (`ParsedOK`); a search has visited only what can be
reached, and what its queue holds no longer was looked at in full, so that its end is
closed (`Searching`, `Reach`, `Closed`); a bound once found is that of its object
(`BoundsRight`). `RoundByRound` counts: every round adds a name or is the last that could.
A loop over methods is a fold, which `Folding` opens (see below).

`ScannerProofs`, for any protocols, layouts and damage of documents in the plain form, from `ProtocolsAssumption`
(an argument has a known type and names an enum only if it is of type enum, a method
is of one of the two sides); `BindingsProofs` continues it for the composition:

| theorem | statement |
|---|---|
| `ParserReadsWhatIsSaid` | `ScanInit /\ [][ScanNext]_scanVars => []ParsedAsWritten` |
| `ParsedAlwaysAsWritten` | `Spec => []ParsedAsWritten` |

`ParsedAsWritten` speaks only of the end of parsing. The invariant `ReadInv` says of every
moment before it where the reader is and what it has read by then:

- `Spot`. A document is sequences of events put together, so each element's place
  follows from the lengths of those before it (`Offsets`, `DocLies`). A spot is such
  a place with the loop that can be there and what `out`, `obj`, `meth` and `enm` hold
  then: the first `i` objects, the first `j` methods sorted by side, the first `k`
  arguments. Every event leads from a spot to a spot (`SeenAnswers`, one lemma for each
  kind: `FromObject`, `FromArg`, ...).
- `Progress`. While `read_to_end` or `read_text_to_end` passes an element, the reader is
  between a spot and the end of that element, which is the next spot. An aside holds
  an element of its own name, and `read_to_end` counts it.
- `Hurt`. A damaged document is the written one up to the cut or the missing
  attribute, and the reader has not met the event that lacks it: it fails there. A
  cut document fails outside the protocol's loop, and in that loop has read objects
  and enums in full (`ReadIsPart`).

Every inductive invariant was first checked by TLC on the bounds of the run that
checks its property. (For that, `Offsets` of `ReadInv` was computed instead of
chosen.) Definitions that CHOOSE a first place (the entry of a name, the
first bad part) are reasoned about with `LeastOf`, which `LeastNumber` derives from the
well-founded order of finite sets.

Folds and recursive functions are CHOOSEn, and nothing follows about a choice until it
is known that there is something to choose. `LeastNumber` shows it: from the least number
of a set follows induction over a set of numbers, from that a function that is defined
step by step (`Recursion`), and from that what a fold computes with (`Folding`).

Only model-checked: all liveness properties (`ObjectResolves`, `OrphanDestroyed`,
`WaitEnds`, `HandshakeEnds`, `GivenUpIsForgotten`, `RoundtripReturns`, `SendReturns`,
`AllArrives`, `StreamsAreServed`), which are out of the prover's reach, and three
invariants of `Bindings`: `MessagesReadAsWritten`, `EndsForAReason` and
`TraceReadsAlike`. They rest on the codec, whose parsers and variable-length integers
are recursive functions: what they read back of every message is an induction over
bytes, with powers of 2 and remainders that no installed prover evaluates.

## 5. Plan

Modelled and checked: all of the modules above. What is left, in this order:

1. Proofs: a first-in first-out stream as the abstract specification of `Transport`,
   which is what `Connection` and `Handshake` take a stream to be; lemmas about the
   parts of the codec that need no induction.
2. `Connection`: destructors with arguments, which a stub sends and `Drop` does not,
   and `remove_client` on a connection with objects.
3. `EventQueues`: deferred calls with several queues, and calls as two steps (send,
   then list the object).
4. `Handshake`: messages sent by the wrong role, and repeated hellos.

## 6. Not modelled and known limits

Not modelled:

- The text the generator writes: documentation comments, attributes, formatting,
  and the Rust compiler's part. An enum argument is transmuted from its number
  (`generate.rs` 189); clients built by the scanner pass listed values only, and so
  do the models.
- Bytes that no encoder of the repository writes, `ObjectArray` arguments, which no
  document can declare, and descriptors that are cut from their message.
- Protocols without objects, which panic the generator (`generate.rs` 1118), and two
  documents of one name, which write one file (`compile.rs` 73).
- `since`: the scanner sets it to 0 for every method, so that the check of a call's
  version never refuses.
- Logging, time and error texts, which no protocol state depends on; the placeholder
  crate; the examples and benches, but for how they call the library.

What the models show of the code beyond what the runs check:

- Between `bind` and `listen` a socket refuses connections, like a dead one
  (`server_socket.rs` 60). A second server inside `bind` at the same time removes it, or
  what is by then live: both run, the first without a path. Without `raced` in
  `KeepsItsPath` and `OnlyLiveServersRefuse` TLC finds this. Whatever refuses a connection
  is removed, a regular file as well (56).
- Once calls on different queues overlap, in threads or because a handler of one calls
  `roundtrip` of another, a queue that reads another's acknowledgment stores it as its own
  (`message.rs` 157), though `roundtrip` says that it waits for the matching one
  (`event_queue.rs` 180-182). The queue that asked waits for ever, and the one that read it
  may take the number for one of its own and return before the server has seen its request.
  Without `overlapped` TLC finds both `RoundtripReturns` and `RoundtripMatches` violated.
- Two ends that both send more than the kernel's buffers hold wait for each other for
  ever: `poll` in `send_message` has no timeout (`lib.rs` 84).
- When `accept` fails for good the listener stays ready and is armed again at once,
  so that `dispatch_events` spins (`server_socket.rs` 159), and peers that never
  pause keep it from returning (267). The model bounds both.
- `error()` marks a client, which is dropped at its stream's next event: one that
  stays silent keeps its objects (`server_object.rs` 127).
- `creds()` panics (`server_client.rs` 52) for a client that never says hello, whose binds
  are handled all the same; for one whose credentials the system refused, since
  `first_poll_done` is set before they are asked for (107, 122); and for the handle that
  `add_client` returns before a dispatch.
- A client that is removed has its stream closed at once in `ServerLoop` (`ReapDelete`).
  In the code a `ServerObject` that the application still holds keeps it open; `Connection`
  has that case (`sState` "dropped").
- The generator makes a server stub for an s2c method that returns an object, and a
  call of it ends the client's connection (`wire_object.rs` 55; `ServerCalls`, with the
  reason "fatal").
- `Drop` calls the first destructor, if it takes no arguments and returns nothing
  (`client_object.rs` 32). Of an object with several, or one that returns an object,
  an argument-less destructor can be called by nobody: it has no stub
  (`generate.rs` 1254).

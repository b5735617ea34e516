---------------------------- MODULE ServerLoop ----------------------------
(***************************************************************************)
(* The event loop of a server: one thread that accepts connections from    *)
(* its listener, is given others by the application, reads from those that *)
(* are ready, and drops the ones that have ended.  Interest in a source is *)
(* one-shot: an event disarms its key until the loop arms it again.        *)
(*                                                                         *)
(* What a message does to objects is the subject of Connection; here a     *)
(* message is a hello, one a handler sees ("good"), one that names an      *)
(* unknown object ("stray") or one that cannot be handled ("bad").         *)
(***************************************************************************)
EXTENDS Naturals, Sequences, FiniteSets, SequencesExt

CONSTANTS
  Conns,       \* connections: each is made once
  Rude,        \* those whose peers are not of this library
  MaxSends,    \* bound: messages the peer of a connection sends
  MaxTrouble   \* bound: failing system calls, errors raised, removals, crashes

ASSUME LoopAssumption ==
  /\ IsFiniteSet(Conns) /\ Rude \subseteq Conns
  /\ MaxSends \in [Conns -> Nat] /\ MaxTrouble \in Nat

VARIABLES
  (* the connections *)
  place,     \* "away", "queued" at the listener, "held" by the server, "closed"
  hung,      \* those whose peer has closed its end
  shut,      \* those the server has shut down
  inbox,     \* what the peer has sent and the server has not read
  sent,      \* messages sent so far
  backlog,   \* the listener's queue
  (* the server *)
  clients,   \* ServerSocket.clients, as a set of ids
  owner,     \* the connection each id was given to, in the order of ids
  err,       \* ids with ConnectionState.error
  polled,    \* ids with first_poll_done
  creds,     \* ids whose credentials are set
  regs,      \* keys registered with the poller
  armed,     \* keys whose interest is armed
  (* dispatch_events *)
  pc, block, events, dead,
  leaving,   \* the id that is out of the table and still registered, or 0
  (* history *)
  cleaned,   \* how often the objects of an id were destroyed
  known,     \* ids whose handle a callback has shown to the application
  refused,   \* ids whose credentials the system would not tell
  excused,   \* connections the server has a reason to end
  failed,    \* a dispatch has returned an error
  trouble

conns == <<place, hung, shut, inbox, sent, backlog>>
table == <<clients, owner, err, polled, creds>>
poller == <<regs, armed>>
loop == <<pc, block, events, dead, leaving>>
ghosts == <<cleaned, known, refused, excused, failed, trouble>>
vars == <<conns, table, poller, loop, ghosts>>

Listener == 0
Kinds == {"hello", "good", "stray", "bad"}

-----------------------------------------------------------------------------
(* Streams end when they are closed, and what was not read is lost. *)

Close(cs) ==
  /\ place' = [c \in Conns |-> IF c \in cs THEN "closed" ELSE place[c]]
  /\ inbox' = [c \in Conns |-> IF c \in cs THEN <<>> ELSE inbox[c]]
  /\ hung' = hung \ cs /\ shut' = shut \ cs

-----------------------------------------------------------------------------
(* The peers. *)

\* A peer connects to the listening socket.
Connect(c) ==
  /\ pc # "down" /\ Listener \in regs
  /\ place[c] = "away"
  /\ place' = [place EXCEPT ![c] = "queued"]
  /\ backlog' = Append(backlog, c)
  /\ UNCHANGED <<hung, shut, inbox, sent, table, poller, loop, ghosts>>

(* A peer sends.  ClientSocket::new begins with a hello and says no other; *)
(* a peer that is not of this library need not.                            *)
Send(c, kind) ==
  /\ place[c] \in {"queued", "held"} /\ c \notin hung \cup shut
  /\ sent[c] < MaxSends[c]
  /\ c \in Rude \/ (kind = "hello" <=> sent[c] = 0)
  /\ sent' = [sent EXCEPT ![c] = @ + 1]
  /\ inbox' = [inbox EXCEPT ![c] = Append(@, kind)]
  /\ excused' = IF kind \in {"stray", "bad"} THEN excused \cup {c} ELSE excused
  /\ UNCHANGED <<place, hung, shut, backlog, table, poller, loop,
                 cleaned, known, refused, failed, trouble>>

\* A peer closes its end, or dies.
HangUp(c) ==
  /\ place[c] \in {"queued", "held"} /\ c \notin hung
  /\ hung' = hung \cup {c}
  /\ excused' = excused \cup {c}
  /\ UNCHANGED <<place, shut, inbox, sent, backlog, table, poller, loop,
                 cleaned, known, refused, failed, trouble>>

-----------------------------------------------------------------------------
(* The poller: keys with something to read, which one-shot events disarm. *)

\* A stream is readable when it has data, or its end is reached.
Readable(c) == inbox[c] # <<>> \/ c \in hung \cup shut

Ready ==
  {k \in armed : IF k = Listener THEN backlog # <<>> ELSE Readable(owner[k])}

Trouble == trouble < MaxTrouble /\ trouble' = trouble + 1

(* Each `?` of dispatch_pending: the call returns the error at once, with  *)
(* the rest of its events and the clients it has found dead.               *)
Abandon ==
  /\ Trouble
  /\ failed' = TRUE
  /\ pc' = "app" /\ events' = <<>> /\ dead' = <<>>

\* The application calls dispatch_events.
DispatchEvents(b) ==
  /\ pc = "app"
  /\ pc' = "wait" /\ block' = b
  /\ UNCHANGED <<conns, table, poller, events, dead, leaving, ghosts>>

\* [Mutated form] Only one of the events is delivered, but all are disarmed.
WaitDropsEvents ==
  /\ pc = "wait" /\ Ready # {}
  /\ \E k \in Ready : events' = <<k>>
  /\ armed' = armed \ Ready
  /\ pc' = "events" /\ dead' = <<>> /\ block' = FALSE
  /\ UNCHANGED <<conns, table, regs, leaving, ghosts>>

(* The poller delivers the ready keys in any order, and disarms them.  Only *)
(* the first round may block.                                              *)
Wait ==
  /\ pc = "wait" /\ Ready # {}
  /\ events' \in SetToSeqs(Ready)
  /\ armed' = armed \ Ready
  /\ pc' = "events" /\ dead' = <<>> /\ block' = FALSE
  /\ UNCHANGED <<conns, table, regs, leaving, ghosts>>

\* Nothing is ready: dispatch_events returns, unless its first round may block.
WaitFindsNothing ==
  /\ pc = "wait" /\ Ready = {} /\ ~block
  /\ pc' = "app"
  /\ UNCHANGED <<conns, table, poller, block, events, dead, leaving, ghosts>>

-----------------------------------------------------------------------------
(* The listener. *)

Id == Len(owner) + 1   \* next_client_id

\* A client of its own for the stream, registered and put into the table.
Admit(c) ==
  /\ clients' = clients \cup {Id}
  /\ owner' = Append(owner, c)
  /\ regs' = regs \cup {Id}
  /\ UNCHANGED <<err, polled, creds>>

AtListener == pc = "events" /\ events # <<>> /\ Head(events) = Listener

\* [Mutated form] The listener's interest is not armed again.
AcceptForgetsListener ==
  /\ AtListener /\ backlog # <<>>
  /\ LET c == Head(backlog)
     IN /\ Admit(c)
        /\ place' = [place EXCEPT ![c] = "held"]
        /\ armed' = armed \cup {Id}
  /\ backlog' = Tail(backlog)
  /\ events' = Tail(events)
  /\ UNCHANGED <<hung, shut, inbox, sent, pc, block, dead, leaving, ghosts>>

Accept ==
  /\ AtListener /\ backlog # <<>>
  /\ LET c == Head(backlog)
     IN /\ Admit(c)
        /\ place' = [place EXCEPT ![c] = "held"]
        /\ armed' = armed \cup {Listener, Id}
  /\ backlog' = Tail(backlog)
  /\ events' = Tail(events)
  /\ UNCHANGED <<hung, shut, inbox, sent, pc, block, dead, leaving, ghosts>>

(* accept fails (and the connection stays where it is), or the stream      *)
(* cannot be made non-blocking and is dropped; both are taken for no       *)
(* connection, and the listener is armed again.                            *)
AcceptFails ==
  /\ AtListener /\ backlog # <<>>
  /\ Trouble
  /\ \/ UNCHANGED <<place, hung, shut, inbox, backlog, excused>>
     \/ /\ Close({Head(backlog)})
        /\ excused' = excused \cup {Head(backlog)}
        /\ backlog' = Tail(backlog)
  /\ armed' = armed \cup {Listener}
  /\ events' = Tail(events)
  /\ UNCHANGED <<sent, table, regs, pc, block, dead, leaving,
                 cleaned, known, refused, failed>>

(* The poller cannot add the stream, which is dropped: accept_one's error  *)
(* is dispatch_pending's.  The listener stays disarmed.                    *)
AcceptCannotRegister ==
  /\ AtListener /\ backlog # <<>>
  /\ Abandon
  /\ Close({Head(backlog)})
  /\ excused' = excused \cup {Head(backlog)}
  /\ backlog' = Tail(backlog)
  /\ UNCHANGED <<sent, table, poller, block, leaving, cleaned, known, refused>>

\* The poller cannot arm the listener again, for more connections.
ListenerRearmFails ==
  /\ AtListener /\ backlog # <<>>
  /\ Abandon
  /\ Admit(Head(backlog))
  /\ place' = [place EXCEPT ![Head(backlog)] = "held"]
  /\ armed' = armed \cup {Id}
  /\ backlog' = Tail(backlog)
  /\ UNCHANGED <<hung, shut, inbox, sent, block, leaving,
                 cleaned, known, refused, excused>>

-----------------------------------------------------------------------------
(* A client that is ready. *)

\* The messages handle_message gets to: up to the first it cannot handle.
Handled(msgs) ==
  LET bad == {i \in DOMAIN msgs : msgs[i] = "bad"}
  IN IF bad = {} THEN msgs
     ELSE SubSeq(msgs, 1, CHOOSE i \in bad : \A j \in bad : i <= j)

AtClient == pc = "events" /\ events # <<>> /\ Head(events) # Listener

\* [Mutated form] The hello does not call dispatch_first_poll.
LearnsNoCreds(id, msgs) ==
  /\ known' = IF "good" \in ToSet(msgs) THEN known \cup {id} ELSE known
  /\ UNCHANGED <<polled, creds, refused>>

(* The handlers see the client's handle.  The first hello calls            *)
(* dispatch_first_poll, which asks for the credentials once: when          *)
(* socket_peercred fails they stay unset.                                  *)
Learns(id, msgs) ==
  /\ known' = IF "good" \in ToSet(msgs) THEN known \cup {id} ELSE known
  /\ IF "hello" \in ToSet(msgs) /\ id \notin polled
     THEN /\ polled' = polled \cup {id}
          /\ \/ creds' = creds \cup {id} /\ UNCHANGED refused
             \/ /\ trouble < MaxTrouble
                /\ refused' = refused \cup {id} /\ UNCHANGED creds
     ELSE UNCHANGED <<polled, creds, refused>>

(* dispatch_client of a readable stream.  An unknown object only sets the  *)
(* error flag; a message that cannot be handled, and the end of the stream *)
(* (nothing was read), shut the stream down as well.                       *)
DispatchClient(id) ==
  LET c == owner[id]
      msgs == Handled(inbox[c])
      ends == msgs = <<>> \/ Last(msgs) = "bad"
  IN /\ inbox' = [inbox EXCEPT ![c] = <<>>]
     /\ Learns(id, msgs)
     /\ err' = IF ends \/ "stray" \in ToSet(msgs) THEN err \cup {id} ELSE err
     /\ shut' = IF ends THEN shut \cup {c} ELSE shut

\* [Mutated form] A client is taken for dead when it has nothing to say.
SettleDropsQuiet(id) ==
  /\ IF id \in err' \/ Len(inbox[owner[id]]) = 1
     THEN dead' = Append(dead, id) /\ UNCHANGED armed
     ELSE armed' = armed \cup {id} /\ UNCHANGED dead
  /\ events' = Tail(events)

\* An errored client is to be dropped; any other is armed again.
Settle(id) ==
  /\ IF id \in err'
     THEN dead' = Append(dead, id) /\ UNCHANGED armed
     ELSE armed' = armed \cup {id} /\ UNCHANGED dead
  /\ events' = Tail(events)

ServeClient ==
  /\ AtClient
  /\ DispatchClient(Head(events))
  /\ Settle(Head(events))
  /\ trouble' = IF refused' = refused THEN trouble ELSE trouble + 1
  /\ UNCHANGED <<place, hung, sent, backlog, clients, owner, regs, pc, block,
                 leaving, cleaned, excused, failed>>

\* read_from_socket fails.
ReadFails ==
  /\ AtClient
  /\ Trouble
  /\ LET id == Head(events)
     IN /\ inbox' = [inbox EXCEPT ![owner[id]] = <<>>]
        /\ shut' = shut \cup {owner[id]}
        /\ excused' = excused \cup {owner[id]}
        /\ err' = err \cup {id}
        /\ Settle(id)
  /\ UNCHANGED <<place, hung, sent, backlog, clients, owner, polled, creds,
                 regs, pc, block, leaving, cleaned, known, refused, failed>>

\* The poller cannot arm the client again, and dispatch_pending returns.
RearmFails ==
  /\ AtClient
  /\ DispatchClient(Head(events)) /\ Head(events) \notin err'
  /\ Abandon
  /\ UNCHANGED <<place, hung, sent, backlog, clients, owner, poller, block,
                 leaving, cleaned, excused>>

-----------------------------------------------------------------------------
(* The dead clients of a batch, and the next round. *)

EventsDone ==
  /\ pc = "events" /\ events = <<>>
  /\ pc' = "reap"
  /\ UNCHANGED <<conns, table, poller, block, events, dead, leaving, ghosts>>

\* destroy_objects_for_disconnect.
Cleans(id) == cleaned' = [cleaned EXCEPT ![id] = @ + 1]

\* [Mutated form] The objects of a dead client are forgotten, not destroyed.
ReapOnlyRemoves ==
  /\ pc = "reap" /\ dead # <<>> /\ leaving = 0
  /\ leaving' = Head(dead)
  /\ clients' = clients \ {Head(dead)}
  /\ UNCHANGED <<conns, owner, err, polled, creds, poller, pc, block, events,
                 dead, ghosts>>

(* The client leaves the table and its objects are destroyed, whose        *)
(* handlers may still use it ...                                           *)
ReapRemove ==
  /\ pc = "reap" /\ dead # <<>> /\ leaving = 0
  /\ leaving' = Head(dead)
  /\ clients' = clients \ {Head(dead)}
  /\ Cleans(Head(dead))
  /\ UNCHANGED <<conns, owner, err, polled, creds, poller, pc, block, events,
                 dead, known, refused, excused, failed, trouble>>

\* [Mutated form] The stream is dropped while the poller has it.
ReapDeleteForgotten ==
  /\ leaving # 0
  /\ Close({owner[leaving]})
  /\ leaving' = 0 /\ dead' = Tail(dead)
  /\ UNCHANGED <<sent, backlog, table, poller, pc, block, events, ghosts>>

\* ... and only then the poller forgets the stream, which is closed.
ReapDelete ==
  /\ leaving # 0
  /\ regs' = regs \ {leaving} /\ armed' = armed \ {leaving}
  /\ Close({owner[leaving]})
  /\ leaving' = 0 /\ dead' = Tail(dead)
  /\ UNCHANGED <<sent, backlog, table, pc, block, events, ghosts>>

\* dispatch_pending returns true, and dispatch_events goes round.
NextRound ==
  /\ pc = "reap" /\ dead = <<>>
  /\ pc' = "wait"
  /\ UNCHANGED <<conns, table, poller, block, events, dead, leaving, ghosts>>

-----------------------------------------------------------------------------
(* The application. *)

\* An object's error(): the client is told, and its error flag set.
RaiseError(id) ==
  /\ pc # "down" /\ id \in clients \ err
  /\ Trouble
  /\ err' = err \cup {id}
  /\ excused' = excused \cup {owner[id]}
  /\ UNCHANGED <<conns, clients, owner, polled, creds, poller, loop,
                 cleaned, known, refused, failed>>

AddClient(c) ==
  /\ pc = "app" /\ place[c] = "away"
  /\ Admit(c)
  /\ place' = [place EXCEPT ![c] = "held"]
  /\ armed' = armed \cup {Id}
  /\ UNCHANGED <<hung, shut, inbox, sent, backlog, loop, ghosts>>

\* The poller cannot add the stream: add_client fails and drops it.
AddClientFails(c) ==
  /\ pc = "app" /\ place[c] = "away"
  /\ Trouble
  /\ Close({c})
  /\ excused' = excused \cup {c}
  /\ UNCHANGED <<sent, backlog, table, poller, loop,
                 cleaned, known, refused, failed>>

\* remove_client of a handle; one that has left the table is not found.
RemoveClient(id) ==
  /\ pc = "app" /\ id \in clients
  /\ Trouble
  /\ err' = err \cup {id}
  /\ Cleans(id)
  /\ regs' = regs \ {id} /\ armed' = armed \ {id}
  /\ clients' = clients \ {id}
  /\ Close({owner[id]})
  /\ excused' = excused \cup {owner[id]}
  /\ UNCHANGED <<sent, backlog, owner, polled, creds, loop,
                 known, refused, failed>>

-----------------------------------------------------------------------------
(* The life of the process. *)

Never == [i \in 1..Cardinality(Conns) |-> 0]

Init ==
  /\ place = [c \in Conns |-> "away"]
  /\ hung = {} /\ shut = {}
  /\ inbox = [c \in Conns |-> <<>>] /\ sent = [c \in Conns |-> 0]
  /\ backlog = <<>>
  /\ clients = {} /\ owner = <<>> /\ err = {} /\ polled = {} /\ creds = {}
  /\ regs = {} /\ armed = {}
  /\ pc = "down" /\ block = FALSE
  /\ events = <<>> /\ dead = <<>> /\ leaving = 0
  /\ cleaned = Never /\ known = {} /\ refused = {} /\ failed = FALSE
  /\ excused = {} /\ trouble = 0

(* ServerSocket::bind, with a listener registered, or ::detached, without. *)
(* How bind comes by its path is the subject of ServerBind.                *)
Start(listening) ==
  /\ pc = "down"
  /\ pc' = "app"
  /\ regs' = (IF listening THEN {Listener} ELSE {}) /\ armed' = regs'
  /\ UNCHANGED <<conns, table, block, events, dead, leaving, ghosts>>

\* The process dies, and with it every stream it had.
Crash ==
  /\ pc # "down"
  /\ Trouble
  /\ clients' = {} /\ owner' = <<>> /\ err' = {} /\ polled' = {} /\ creds' = {}
  /\ regs' = {} /\ armed' = {}
  /\ pc' = "down" /\ events' = <<>> /\ dead' = <<>> /\ leaving' = 0
  /\ cleaned' = Never /\ known' = {} /\ refused' = {} /\ failed' = FALSE
  /\ Close({c \in Conns : place[c] # "away"})
  /\ excused' = excused \cup {c \in Conns : place[c] # "away"}
  /\ backlog' = <<>>
  /\ UNCHANGED <<sent, block>>

Serve ==
  \/ Wait \/ WaitFindsNothing
  \/ Accept \/ AcceptFails \/ AcceptCannotRegister \/ ListenerRearmFails
  \/ ServeClient \/ ReadFails \/ RearmFails
  \/ EventsDone \/ ReapRemove \/ ReapDelete \/ NextRound

Application ==
  \/ \E b \in BOOLEAN : DispatchEvents(b)
  \/ \E id \in DOMAIN owner : RaiseError(id) \/ RemoveClient(id)
  \/ \E c \in Conns : AddClient(c) \/ AddClientFails(c)

Peers ==
  \E c \in Conns :
    Connect(c) \/ HangUp(c) \/ \E kind \in Kinds : Send(c, kind)

Next ==
  \/ \E listening \in BOOLEAN : Start(listening)
  \/ Crash \/ Serve \/ Application \/ Peers

Spec == Init /\ [][Next]_vars

-----------------------------------------------------------------------------
(* Properties. *)

Held == {owner[id] : id \in clients \cup ({leaving} \ {0})}

\* The type of the state: clients, keys and marks are of ids given out.
TypeOK ==
  /\ place \in [Conns -> {"away", "queued", "held", "closed"}]
  /\ hung \subseteq Conns /\ shut \subseteq Conns /\ excused \subseteq Conns
  /\ inbox \in [Conns -> Seq(Kinds)]
  /\ sent \in [Conns -> Nat] /\ \A c \in Conns : sent[c] <= MaxSends[c]
  /\ backlog \in Seq(Conns) /\ owner \in Seq(Conns)
  /\ clients \cup err \cup polled \cup creds \cup known \cup refused
       \subseteq DOMAIN owner
  /\ armed \subseteq regs /\ regs \subseteq {Listener} \cup DOMAIN owner
  /\ pc \in {"down", "app", "wait", "events", "reap"}
  /\ events \in Seq(Nat) /\ dead \in Seq(Nat)
  /\ leaving \in {0} \cup DOMAIN owner
  /\ block \in BOOLEAN /\ failed \in BOOLEAN
  /\ cleaned \in [1..Cardinality(Conns) -> Nat] /\ trouble \in 0..MaxTrouble

(* The contract of poller.add, which is unsafe: a registered stream is     *)
(* open.  The table, or the reaper while it is at the client, holds it.    *)
RegisteredIsOpen ==
  \A k \in regs \ {Listener} : place[owner[k]] = "held" /\ owner[k] \in Held

(* A client that has left the table has had its objects destroyed, once,   *)
(* whether it was found dead or removed by the application; no client in   *)
(* the table has.                                                          *)
ObjectsDestroyedOnce ==
  \A id \in DOMAIN owner : cleaned[id] = IF id \in clients THEN 0 ELSE 1

(* The descriptor of extract_loop_fd is readable when there is work: as    *)
(* long as no dispatch has failed, a connection in the backlog and a       *)
(* stream with something to read have their key armed between batches.     *)
WorkWakesLoop ==
  pc \in {"app", "wait"} /\ ~failed =>
    /\ backlog # <<>> => Listener \in Ready
    /\ \A id \in clients : Readable(owner[id]) => id \in Ready

(* A connection is only ended for a reason: its peer hung up or sent what  *)
(* cannot be handled, the application wanted it, or a system call failed.  *)
HealthyStays == \A c \in Conns : place[c] = "closed" => c \in excused

(* A client whose handle a callback has shown to the application has its   *)
(* credentials, unless the system did not tell them when it was asked, or  *)
(* its peer need not begin with a hello.  The comment of                   *)
(* ServerClient::creds says "always"; in the two cases named here they may *)
(* be unset, and then creds() panics.                                      *)
CredsAfterHello ==
  \A id \in known \ creds : id \in refused \/ owner[id] \in Rude

(* What a stream has to say, data or its end, is taken: it is read, and    *)
(* the connection goes when nothing more will come; unless a dispatch has  *)
(* failed, which may have left keys disarmed.                              *)
StreamsAreServed == \A c \in Conns : Readable(c) ~> ~Readable(c) \/ failed
=============================================================================

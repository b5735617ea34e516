----------------------------- MODULE Handshake -----------------------------
(***************************************************************************)
(* How a hyprwire connection is set up: the client says hello when it      *)
(* connects, the server offers protocol versions, the client acknowledges  *)
(* one, and the server answers with the protocols it implements.  From     *)
(* then on the client may bind them, at a version up to the advertised     *)
(* one.  A blocking dispatch gives the handshake up when its time is over. *)
(*                                                                         *)
(* The client is one thread with one event queue; the server may accept it *)
(* late, and may register protocols at any time between its dispatches.    *)
(* Objects appear only as the bound roots: Connection is about the others. *)
(***************************************************************************)
EXTENDS Naturals, Sequences

CONSTANTS
  Names,          \* protocol names
  MaxVersion,     \* bound: the versions of protocols
  ClientVersion,  \* the client's PROTOCOL_VERSION
  Offers,         \* what servers may put into HandshakeBegin: sets of versions
  Deadline,       \* HANDSHAKE_MAX_MS, in ticks of the clock
  MaxImpls,       \* bound: protocols the server registers
  MaxBinds,       \* bound: binds of the client
  MayExit         \* whether either process may exit

ASSUME HandshakeAssumption ==
  /\ MaxVersion \in Nat /\ Deadline \in Nat
  /\ ClientVersion \in Nat \ {0} /\ Offers \subseteq SUBSET Nat
  /\ MaxImpls \in Nat /\ MaxBinds \in Nat /\ MayExit \in BOOLEAN

VARIABLES
  (* the client *)
  cDone,       \* handshake_done
  cError,      \* ConnectionState.error
  cShut,       \* its end of the stream is shut down or closed
  cSpecs,      \* server_specs
  cpc,         \* where dispatch_events is
  cBlock,      \* its parameter block
  cBatch,      \* messages read and not handled
  cWait,       \* the call that loops on dispatches: "none" if there is none
  cBinds,      \* roots asked for
  cRoots,      \* roots that have their id
  cTimedOut,   \* history: a dispatch has returned HandshakeTimeout
  clock,       \* ticks since handshake_begin
  (* the stream *)
  c2s, s2c,
  (* the server *)
  sState,      \* "queued" by the listener, "up", "removed", "exited"
  sImpls,      \* impls, as the protocol's name and version
  sVersion,    \* ServerClientState.version
  sRoots,      \* the roots bound, with their versions
  sBusy,       \* dispatch_client is between its read and its end
  sBatch       \* messages read and not handled

cEnd == <<cError, cShut>>
cCall == <<cpc, cBlock, cBatch, cWait>>
cKnown == <<cDone, cSpecs, cBinds, cRoots, cTimedOut>>
cvars == <<cEnd, cCall, cKnown>>
sKnown == <<sImpls, sVersion, sRoots>>
svars == <<sState, sKnown, sBusy, sBatch>>
vars == <<cvars, svars, clock, c2s, s2c>>

Protocols == [name : Names, version : 1..MaxVersion]

-----------------------------------------------------------------------------
(* Messages. *)

HelloMsg == [type |-> "hello"]
AckMsg(v) == [type |-> "ack", version |-> v]
BindMsg(n, v) == [type |-> "bind", name |-> n, version |-> v]
BeginMsg(vs) == [type |-> "begin", versions |-> vs]
ProtocolsMsg(ps) == [type |-> "protocols", specs |-> ps]
NewMsg == [type |-> "new"]
FatalMsg == [type |-> "fatal"]

\* send_message; what is written to an end that is shut is lost.
ToServer(m) ==
  IF cShut \/ sState \notin {"queued", "up"} THEN c2s ELSE Append(c2s, m)
ToClient(m) == IF cShut THEN s2c ELSE Append(s2c, m)

(* The places at which a list of protocols has a name.  get_spec and       *)
(* create_object both take the first.                                      *)
Places(ps, n) == {i \in DOMAIN ps : ps[i].name = n}

VersionOf(ps, n) ==
  ps[CHOOSE i \in Places(ps, n) : \A j \in Places(ps, n) : i <= j].version

\* [Mutated form] get_spec takes the last of the entries with the name.
AdvertisedLast(n) ==
  cSpecs[CHOOSE i \in Places(cSpecs, n) :
           \A j \in Places(cSpecs, n) : j <= i].version

\* The version get_spec finds a protocol advertised with.
Advertised(n) == VersionOf(cSpecs, n)

-----------------------------------------------------------------------------
(* The client. *)

WaitForHandshake ==
  /\ cpc = "app" /\ cWait = "none"
  /\ cWait' = "handshake"
  /\ UNCHANGED <<cEnd, cKnown, cpc, cBlock, cBatch, svars, clock, c2s, s2c>>

(* Client::bind of an advertised protocol.  bind_protocol refuses versions *)
(* above the advertised one; it has no lower limit.                        *)
Bind(n) ==
  /\ cpc = "app" /\ cWait = "none"
  /\ cBinds < MaxBinds
  /\ Places(cSpecs, n) # {}
  /\ \E v \in 0..Advertised(n) : c2s' = ToServer(BindMsg(n, v))
  /\ cBinds' = cBinds + 1
  /\ cWait' = "bind"
  /\ UNCHANGED <<cEnd, cDone, cSpecs, cRoots, cTimedOut, cpc, cBlock, cBatch,
                svars, clock, s2c>>

\* The conditions of the loops of wait_for_handshake and wait_for_object.
WaitOver ==
  \/ cWait = "handshake" /\ (cDone \/ cError)
  \/ cWait = "bind" /\ (cRoots = cBinds \/ cError)

WaitReturns ==
  /\ cpc = "app" /\ WaitOver
  /\ cWait' = "none"
  /\ UNCHANGED <<cEnd, cKnown, cpc, cBlock, cBatch, svars, clock, c2s, s2c>>

\* A call that waits dispatches with block set; the application may do either.
Dispatch ==
  /\ cpc = "app" /\ ~cError /\ ~WaitOver
  /\ cBlock' \in IF cWait = "none" THEN BOOLEAN ELSE {TRUE}
  /\ cpc' = "poll"
  /\ UNCHANGED <<cEnd, cKnown, cBatch, cWait, svars, clock, c2s, s2c>>

Readable == s2c # <<>> \/ sState \in {"removed", "exited"}

\* dispatch_events returns an error, which ends every call that waits.
ReturnErr == cpc' = "app" /\ cWait' = "none"

\* [Mutated form] A dispatch that ran out of time returns Ok.
PollTimesOutQuietly ==
  /\ cpc = "poll" /\ ~cDone /\ cBlock
  /\ ~Readable /\ clock >= Deadline
  /\ cpc' = "app"
  /\ UNCHANGED <<cEnd, cKnown, cBlock, cBatch, cWait, svars, clock, c2s, s2c>>

\* [Mutated form] The timeout is returned, and the connection stays as it is.
PollTimesOutStaysOpen ==
  /\ cpc = "poll" /\ ~cDone /\ cBlock
  /\ ~Readable /\ clock >= Deadline
  /\ cTimedOut' = TRUE
  /\ ReturnErr
  /\ UNCHANGED <<cEnd, cDone, cSpecs, cBinds, cRoots, cBlock, cBatch, svars,
                clock, c2s, s2c>>

\* No traffic until the handshake's time is over: disconnect_on_error.
PollTimesOut ==
  /\ cpc = "poll" /\ ~cDone /\ cBlock
  /\ ~Readable /\ clock >= Deadline
  /\ cTimedOut' = TRUE
  /\ cError' = TRUE /\ cShut' = TRUE
  /\ ReturnErr
  /\ UNCHANGED <<cDone, cSpecs, cBinds, cRoots, cBlock, cBatch, svars, clock,
                c2s, s2c>>

\* A dispatch that does not block finds no traffic.
PollFindsNothing ==
  /\ cpc = "poll" /\ ~cBlock /\ ~Readable
  /\ cpc' = "app"
  /\ UNCHANGED <<cEnd, cKnown, cBlock, cBatch, cWait, svars, clock, c2s, s2c>>

ClientReads ==
  /\ cpc = "poll" /\ s2c # <<>>
  /\ cBatch' \in 1..Len(s2c)
  /\ cpc' = "batch"
  /\ UNCHANGED <<cEnd, cKnown, cBlock, cWait, svars, clock, c2s, s2c>>

\* The end of the stream sets no flag.
ClientReadsEnd ==
  /\ cpc = "poll" /\ s2c = <<>> /\ Readable
  /\ ReturnErr
  /\ UNCHANGED <<cEnd, cKnown, cBlock, cBatch, svars, clock, c2s, s2c>>

\* handle_message looks at the next message of the batch.
ClientNext(type) ==
  /\ cpc = "batch" /\ cBatch > 0
  /\ Head(s2c).type = type

Handled == cBatch' = cBatch - 1 /\ s2c' = Tail(s2c)

(* Without a common version handle_message fails: the rest of the batch is *)
(* not handled, and the connection is shut down.                           *)
HandleBegin ==
  /\ ClientNext("begin")
  /\ \/ /\ ClientVersion \in Head(s2c).versions
        /\ Handled
        /\ c2s' = ToServer(AckMsg(ClientVersion))
        /\ UNCHANGED <<cEnd, cpc, cWait>>
     \/ /\ ClientVersion \notin Head(s2c).versions
        /\ cError' = TRUE /\ cShut' = TRUE
        /\ cBatch' = 0 /\ s2c' = <<>>
        /\ ReturnErr
        /\ UNCHANGED c2s
  /\ UNCHANGED <<cKnown, cBlock, svars, clock>>

HandleProtocols ==
  /\ ClientNext("protocols") /\ Handled
  /\ cSpecs' = cSpecs \o Head(s2c).specs
  /\ cDone' = TRUE
  /\ UNCHANGED <<cEnd, cBinds, cRoots, cTimedOut, cpc, cBlock, cWait, svars,
                clock, c2s>>

HandleNewObject ==
  /\ ClientNext("new") /\ Handled
  /\ cRoots' = cRoots + 1
  /\ UNCHANGED <<cEnd, cDone, cSpecs, cBinds, cTimedOut, cpc, cBlock, cWait,
                svars, clock, c2s>>

\* A fatal error sets the flag; the rest of the batch is still handled.
HandleFatal ==
  /\ ClientNext("fatal") /\ Handled
  /\ cError' = TRUE
  /\ UNCHANGED <<cShut, cKnown, cpc, cBlock, cWait, svars, clock, c2s>>

\* The batch is handled: dispatch_events returns, with an error if there is one.
DispatchReturns ==
  /\ cpc = "batch" /\ cBatch = 0
  /\ cpc' = "app"
  /\ cWait' = IF cError THEN "none" ELSE cWait
  /\ UNCHANGED <<cEnd, cKnown, cBlock, cBatch, svars, clock, c2s, s2c>>

ClientExits ==
  /\ MayExit /\ cpc # "exited"
  /\ cpc' = "exited"
  /\ cShut' = TRUE
  /\ s2c' = <<>> /\ cBatch' = 0
  /\ UNCHANGED <<cError, cKnown, cBlock, cWait, svars, clock, c2s>>

Tick ==
  /\ clock < Deadline
  /\ clock' = clock + 1
  /\ UNCHANGED <<cvars, svars, c2s, s2c>>

-----------------------------------------------------------------------------
(* The server. *)

\* accept_one; add_client does the same with a stream it is given.
Accept ==
  /\ sState = "queued"
  /\ sState' = "up"
  /\ UNCHANGED <<cvars, sKnown, sBusy, sBatch, clock, c2s, s2c>>

\* add_implementation borrows the server, so no dispatch is under way.
AddImplementation ==
  /\ ~sBusy /\ sState # "exited" /\ Len(sImpls) < MaxImpls
  /\ \E p \in Protocols : sImpls' = Append(sImpls, p)
  /\ UNCHANGED <<cvars, sState, sVersion, sRoots, sBusy, sBatch, clock, c2s,
                s2c>>

ServerReads ==
  /\ sState = "up" /\ ~sBusy /\ c2s # <<>>
  /\ sBusy' = TRUE
  /\ sBatch' \in 1..Len(c2s)
  /\ UNCHANGED <<cvars, sState, sKnown, clock, c2s, s2c>>

\* [Mutated form] The position in the batch is not advanced.
ServerNextNoAdvance(type) ==
  /\ sBusy /\ sBatch > 0
  /\ Head(c2s).type = type
  /\ UNCHANGED sBatch
  /\ c2s' = Tail(c2s)

\* handle_message takes the next message of the batch.
ServerNext(type) ==
  /\ sBusy /\ sBatch > 0
  /\ Head(c2s).type = type
  /\ sBatch' = sBatch - 1
  /\ c2s' = Tail(c2s)

\* [Mutated form] The protocols are sent at once, before the versions.
HandleHelloSendsAll ==
  /\ ServerNext("hello")
  /\ s2c' = IF cShut THEN s2c
            ELSE s2c \o <<ProtocolsMsg(sImpls), BeginMsg(CHOOSE o \in Offers : TRUE)>>
  /\ UNCHANGED <<cvars, sState, sKnown, sBusy, clock>>

HandleHello ==
  /\ ServerNext("hello")
  /\ \E versions \in Offers : s2c' = ToClient(BeginMsg(versions))
  /\ UNCHANGED <<cvars, sState, sKnown, sBusy, clock>>

HandleAck ==
  /\ ServerNext("ack")
  /\ sVersion' = Head(c2s).version
  /\ s2c' = ToClient(ProtocolsMsg(sImpls))
  /\ UNCHANGED <<cvars, sState, sImpls, sRoots, sBusy, clock>>

(* create_object takes what it is told: neither the handshake nor the      *)
(* version is looked at.                                                   *)
HandleBind ==
  /\ ServerNext("bind")
  /\ Head(c2s).version > 0
  /\ sRoots' = Append(sRoots, [name |-> Head(c2s).name,
                               version |-> Head(c2s).version])
  /\ s2c' = ToClient(NewMsg)
  /\ UNCHANGED <<cvars, sState, sImpls, sVersion, sBusy, clock>>

\* The client is removed, and its stream shut down.
RemoveClient ==
  /\ sState' = "removed"
  /\ sBusy' = FALSE /\ sBatch' = 0 /\ c2s' = <<>>

\* BindProtocol::from_bytes rejects version 0, and the connection ends.
HandleMalformedBind ==
  /\ sBusy /\ sBatch > 0
  /\ Head(c2s).type = "bind" /\ Head(c2s).version = 0
  /\ s2c' = ToClient(FatalMsg)
  /\ RemoveClient
  /\ UNCHANGED <<cvars, sKnown, clock>>

ServerEndsBatch ==
  /\ sBusy /\ sBatch = 0
  /\ sBusy' = FALSE
  /\ UNCHANGED <<cvars, sState, sKnown, sBatch, clock, c2s, s2c>>

\* [Mutated form] The end of the stream is taken for a quiet client.
ServerReadsEndKeeps ==
  /\ sState = "up" /\ ~sBusy /\ c2s = <<>> /\ cShut
  /\ UNCHANGED vars

ServerReadsEnd ==
  /\ sState = "up" /\ ~sBusy /\ c2s = <<>> /\ cShut
  /\ RemoveClient
  /\ UNCHANGED <<cvars, sKnown, clock, s2c>>

ServerExits ==
  /\ MayExit /\ sState # "exited"
  /\ sState' = "exited"
  /\ sBusy' = FALSE /\ sBatch' = 0 /\ c2s' = <<>>
  /\ UNCHANGED <<cvars, sKnown, clock, s2c>>

-----------------------------------------------------------------------------
\* ClientSocket::new has sent its hello.
Init ==
  /\ cDone = FALSE /\ cError = FALSE /\ cShut = FALSE /\ cSpecs = <<>>
  /\ cpc = "app" /\ cBlock = FALSE /\ cBatch = 0 /\ cWait = "none"
  /\ cBinds = 0 /\ cRoots = 0 /\ cTimedOut = FALSE /\ clock = 0
  /\ c2s = <<HelloMsg>> /\ s2c = <<>>
  /\ sState = "queued" /\ sImpls = <<>> /\ sVersion = 0 /\ sRoots = <<>>
  /\ sBusy = FALSE /\ sBatch = 0

ClientDispatch ==
  \/ WaitReturns \/ Dispatch
  \/ PollTimesOut \/ PollFindsNothing \/ ClientReads \/ ClientReadsEnd
  \/ HandleBegin \/ HandleProtocols \/ HandleNewObject \/ HandleFatal
  \/ DispatchReturns

ServerDispatch ==
  \/ Accept \/ ServerReads
  \/ HandleHello \/ HandleAck \/ HandleBind \/ HandleMalformedBind
  \/ ServerEndsBatch \/ ServerReadsEnd

Next ==
  \/ WaitForHandshake \/ \E n \in Names : Bind(n)
  \/ ClientDispatch \/ ClientExits \/ Tick
  \/ ServerDispatch \/ AddImplementation \/ ServerExits

Spec == Init /\ [][Next]_vars

\* Time passes and the client's calls go on; nothing is assumed of the server.
ClientFairSpec == Spec /\ WF_vars(ClientDispatch) /\ WF_vars(Tick)

FairSpec == ClientFairSpec /\ WF_vars(ServerDispatch)

-----------------------------------------------------------------------------
(* Properties. *)

ClientMessages ==
  {HelloMsg} \cup [type : {"ack"}, version : Nat]
    \cup [type : {"bind"}, name : Names, version : Nat]
ServerMessages ==
  [type : {"begin"}, versions : Offers]
    \cup [type : {"protocols"}, specs : Seq(Protocols)]
    \cup {NewMsg, FatalMsg}

FlagsOK ==
  /\ cDone \in BOOLEAN /\ cError \in BOOLEAN /\ cShut \in BOOLEAN
  /\ cBlock \in BOOLEAN /\ cTimedOut \in BOOLEAN /\ sBusy \in BOOLEAN

ClientTypeOK ==
  /\ cSpecs \in Seq(Protocols)
  /\ cpc \in {"app", "poll", "batch", "exited"}
  /\ cWait \in {"none", "handshake", "bind"}
  /\ cBatch \in 0..Len(s2c)
  /\ cBinds \in Nat /\ cRoots \in Nat /\ clock \in 0..Deadline

StreamTypeOK == c2s \in Seq(ClientMessages) /\ s2c \in Seq(ServerMessages)

ServerTypeOK ==
  /\ sState \in {"queued", "up", "removed", "exited"}
  /\ sBatch \in 0..Len(c2s)
  /\ sImpls \in Seq(Protocols) /\ sVersion \in Nat
  /\ sRoots \in Seq([name : Names, version : Nat])

\* The type of the state; batches lie within the streams.
TypeOK == FlagsOK /\ ClientTypeOK /\ StreamTypeOK /\ ServerTypeOK

Offered == UNION Offers

(* A client whose handshake is done runs the version the server has stored *)
(* for it, and the server had offered that version.                        *)
Agreement == cDone => sVersion = ClientVersion /\ ClientVersion \in Offered

(* The server's handler of BindProtocol does not ask whether the handshake *)
(* is done; it never has to: every bind comes after the acknowledgment.    *)
BindAfterAck ==
  sBatch > 0 /\ Head(c2s).type = "bind" => sVersion # 0

(* A root object has a version the server implements, of the entry that    *)
(* create_object finds: it cannot have been advertised from another entry  *)
(* of the same name, and registrations after the handshake change nothing. *)
VersionSupported ==
  \A i \in DOMAIN sRoots :
    LET r == sRoots[i]
    IN Places(sImpls, r.name) # {} /\ r.version <= VersionOf(sImpls, r.name)

(* Once a dispatch has returned HandshakeTimeout the handshake never       *)
(* completes, although an answer of the server may be on its way.          *)
NoLateSuccess == [][cTimedOut => ~cDone']_vars

(* wait_for_handshake returns whatever the server does, also when it never *)
(* accepts the connection or never reads.                                  *)
HandshakeEnds == cWait = "handshake" ~> cWait = "none" \/ cpc = "exited"

(* A client that gave up, failed or exited, also because the server offers *)
(* no version of its, does not stay with a server that is dispatched.      *)
GivenUpIsForgotten ==
  WF_vars(ServerDispatch) => (cShut ~> sState \in {"removed", "exited"})

=============================================================================

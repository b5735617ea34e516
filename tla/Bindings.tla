------------------------------ MODULE Bindings ------------------------------
(***************************************************************************)
(* From the document of a protocol to its events: the scanner parses the   *)
(* document and generates a specification, stubs and dispatch for either   *)
(* side; a client and a server built from them talk, byte by byte.         *)
(*                                                                         *)
(* Reads of the socket, deferred calls and event queues have modules of    *)
(* their own: here a message is written whole, a call is made on an object *)
(* whose id is known, and one message is read at a time.                   *)
(***************************************************************************)
EXTENDS Scanner, WireCodec, FiniteSetsExt

CONSTANTS
  Values,     \* what may be passed for an argument of a type, but enums
  Beside,     \* the other protocols the server has, with their versions
  ErrorText,  \* what an error says
  MaxCalls,   \* bound: calls made by either side together
  MaxTrips    \* bound: roundtrips

VARIABLES
  stage,     \* "scan", "collect", "built", "live", "ended"
  search,    \* collect_transitive_returns: visited, queue, result
  bounds,    \* the types each object's generated code asks a handler for
  wire,      \* the bytes and descriptors that are underway in each direction
  told,      \* history: what each direction's messages say
  heard,     \* history: what was read of them
  specs,     \* the protocols the client knows the server has
  mine,      \* the client's objects, by sequence number
  theirs,    \* the server's objects, by id
  asked,     \* the roundtrip the server is to answer
  errd,      \* the server is done with the client
  reason     \* why a side ended the connection

bindVars == <<stage, search, bounds>>
talkVars == <<wire, told, heard, specs, mine, theirs, asked, errd, reason>>

Directions == {"c2s", "s2c"}

-----------------------------------------------------------------------------
(* The generator. *)

Objects == out.objects
ObjectNames == {Objects[i].name : i \in DOMAIN Objects}
ObjectOf(name) == Objects[SelectInSeq(Objects, LAMBDA o : o.name = name)]

\* [Mutated form] Only what the object's own methods return is found.
MeetNotQueued(s, returned) ==
  IF returned = "" \/ returned \in s.visited THEN s
  ELSE [s EXCEPT !.visited = @ \cup {returned}, !.result = Append(@, returned)]

(* A returned type that was not met before is a result, and is itself      *)
(* looked at later.  A type that no object has ends the search there.      *)
Meet(s, returned) ==
  IF returned = "" \/ returned \in s.visited THEN s
  ELSE [visited |-> s.visited \cup {returned}, queue |-> Append(s.queue, returned),
        result |-> Append(s.result, returned)]

MeetReturned(s, methods) ==
  FoldLeft(LAMBDA t, m : Meet(t, m.returns), s, methods)

NoSearch == [visited |-> {}, queue |-> <<>>, result |-> <<>>]

Compile ==
  /\ stage = "scan" /\ parse = "parsed" /\ damage = "none"
  /\ stage' = "collect"
  /\ doc' = <<>> /\ pos' = 1
  /\ UNCHANGED <<said, form, damage, where, passing, out, obj, meth, enm, parse,
                 search, bounds, talkVars>>

CollectBegins ==
  /\ stage = "collect" /\ search = NoSearch /\ Len(bounds) < Len(Objects)
  /\ LET name == Objects[Len(bounds) + 1].name
     IN search' = [visited |-> {name}, queue |-> <<name>>, result |-> <<>>]
  /\ UNCHANGED <<scanVars, stage, bounds, talkVars>>

CollectVisits ==
  /\ stage = "collect" /\ search.queue # <<>>
  /\ LET current == Head(search.queue)
         rest == [search EXCEPT !.queue = Tail(@)]
     IN search' = IF current \in ObjectNames
                  THEN MeetReturned(rest, ObjectOf(current).c2s)
                  ELSE rest
  /\ UNCHANGED <<scanVars, stage, bounds, talkVars>>

CollectEnds ==
  /\ stage = "collect" /\ search # NoSearch /\ search.queue = <<>>
  /\ bounds' = Append(bounds, search.result)
  /\ search' = NoSearch
  /\ UNCHANGED <<scanVars, stage, talkVars>>

\* collect_all_transitive_returns.
AllBounds == UNION {ToSet(bounds[i]) : i \in DOMAIN bounds}

Generate ==
  /\ stage = "collect" /\ Len(bounds) = Len(Objects)
  /\ stage' = "built"
  /\ UNCHANGED <<scanVars, search, bounds, talkVars>>

\* magic_for_arg, and the kind of CallArg that a stub passes.
IsArray(type) == Len(type) = 2
Of(type) == type[Len(type)]

MagicForArg(type) ==
  LET magic == [varchar |-> Magic.Varchar, fd |-> Magic.Fd, uint |-> Magic.Uint,
                enum |-> Magic.Uint, int |-> Magic.Int, f32 |-> Magic.F32]
  IN IF IsArray(type) THEN <<Magic.Array, magic[Of(type)]>> ELSE <<magic[Of(type)]>>

CallArgExpr(type, v) ==
  LET kind == [varchar |-> Magic.Varchar, fd |-> Magic.Fd, uint |-> Magic.Uint,
               enum |-> Magic.Uint, int |-> Magic.Int, f32 |-> Magic.F32]
  IN [array |-> IsArray(type), kind |-> kind[Of(type)], val |-> v]

\* The specification of an object: the tables that call consults.
MethodSpec(idx, m) ==
  [idx |-> idx, name |-> m.name, returns |-> m.returns, destructor |-> m.destructor,
   params |-> FlattenSeq([i \in DOMAIN m.args |-> MagicForArg(m.args[i].type)]),
   args |-> m.args]

MethodSpecs(methods) == [i \in DOMAIN methods |-> MethodSpec(i - 1, methods[i])]

(* A client has a stub for every method but destructors without arguments, *)
(* which are called when the object is dropped.                            *)
ClientStubs(o) ==
  {m \in ToSet(MethodSpecs(o.c2s)) : ~(m.destructor /\ m.args = <<>>)}

ServerStubs(o) == ToSet(MethodSpecs(o.s2c))

\* What Drop of a client object calls, if its first destructor can be called
\* without arguments and returns nothing.
DroppedWith(o) ==
  LET i == SelectInSeq(o.c2s, LAMBDA m : m.destructor)
  IN IF i # 0 /\ o.c2s[i].args = <<>> /\ o.c2s[i].returns = ""
     THEN {MethodSpec(i - 1, o.c2s[i])} ELSE {}

-----------------------------------------------------------------------------
(* The generated dispatch. *)

TakeOne(base, d, at) ==
  CASE base \in {"uint", "enum"} -> [val |-> ReadU32(d, at), next |-> at + 4]
    [] base = "int" -> [val |-> ReadI32(d, at), next |-> at + 4]
    [] base = "f32" -> [val |-> SubSeq(d, at, at + 3), next |-> at + 4]
    [] base = "varchar" -> [val |-> CountedText(d, at), next |-> CountedEnd(d, at)]

TakeNext(t, one) == [vals |-> Append(t.vals, one.val), next |-> one.next]

TakeMany(base, n, d, at) ==
  LET t[i \in 0..n] ==
        IF i = 0 THEN [vals |-> <<>>, next |-> at]
        ELSE TakeNext(t[i - 1], TakeOne(base, d, t[i - 1].next))
  IN t[n]

Took(t, val, at, taken) ==
  [vals |-> Append(t.vals, val), at |-> at, fds |-> t.fds + taken]

TookOne(t, one) == Took(t, one.val, one.next, 0)
TookMany(t, many) == Took(t, many.vals, many.next, 0)

TakeArray(t, base, d, fds, at, n) ==
  IF base = "fd" THEN Took(t, SubSeq(fds, t.fds + 1, t.fds + n), at, n)
  ELSE TookMany(t, TakeMany(base, n, d, at))

TakeCounted(t, base, d, fds, n) ==
  TakeArray(t, base, d, fds, t.at + 2 + n.len, n.value)

\* [Mutated form] A descriptor has no magic to skip.
TakeArgFdUnskipped(t, type, d, fds) ==
  CASE IsArray(type) -> TakeCounted(t, Of(type), d, fds, ParseVarInt(d, t.at + 2))
    [] type = <<"fd">> -> Took(t, fds[t.fds + 1], t.at, 1)
    [] OTHER -> TookOne(t, TakeOne(Of(type), d, t.at + 1))

(* The code that takes one argument out of the data: the magics are        *)
(* skipped, the method decides.                                            *)
TakeArg(t, type, d, fds) ==
  CASE IsArray(type) -> TakeCounted(t, Of(type), d, fds, ParseVarInt(d, t.at + 2))
    [] type = <<"fd">> -> Took(t, fds[t.fds + 1], t.at + 1, 1)
    [] OTHER -> TookOne(t, TakeOne(Of(type), d, t.at + 1))

\* Behind the sequence number of a method that returns an object.
TakeArgs(m, d, fds) ==
  FoldLeft(LAMBDA t, a : TakeArg(t, a.type, d, fds),
           [vals |-> <<>>, at |-> IF m.returns = "" THEN 1 ELSE 6, fds |-> 0],
           m.args).vals

\* The fields of an event, or the arguments of a call, by name.
Named(m, vals) ==
  [name \in {m.args[i].name : i \in DOMAIN m.args} |->
     vals[SelectInSeq(m.args, LAMBDA a : a.name = name)]]

-----------------------------------------------------------------------------
(* Messages on the wire. *)

Live == stage = "live"

Sends(dir, what, bytes, fds) ==
  /\ told' = [told EXCEPT ![dir] = Append(@, what)]
  /\ wire' = [wire EXCEPT ![dir] = [data |-> @.data \o bytes, fds |-> @.fds \o fds]]

Ends(why) == stage' = "ended" /\ reason' = why

Arrived(dir, code) ==
  /\ Live /\ wire[dir].data # <<>> /\ Head(wire[dir].data) = code

Other(dir) == IF dir = "c2s" THEN "s2c" ELSE "c2s"

(* What is left behind a message, of all that were read together: no       *)
(* descriptor may be.                                                      *)
Behind(dir, m, fds) ==
  [data |-> SubSeq(wire[dir].data, m.len + 1, Len(wire[dir].data)),
   fds |-> SubSeq(wire[dir].fds, fds + 1, Len(wire[dir].fds))]

FdsOf(dir, m) == SubSeq(wire[dir].fds, 1, m.fds)

\* A message is read, and answered.
Reply(what, bytes) == <<[what |-> what, bytes |-> bytes]>>

Handles(dir, m, fds, what, reply) ==
  /\ m.ok
  /\ heard' = [heard EXCEPT ![dir] = Append(@, what)]
  /\ told' = [told EXCEPT ![Other(dir)] = @ \o [i \in DOMAIN reply |-> reply[i].what]]
  /\ wire' = [wire EXCEPT ![dir] = Behind(dir, m, fds),
                          ![Other(dir)].data =
                             @ \o FlattenSeq([i \in DOMAIN reply |-> reply[i].bytes])]

Leftover(dir, m, fds) ==
  Behind(dir, m, fds).data = <<>> /\ Behind(dir, m, fds).fds # <<>>

\* A message that cannot be read ends the connection.
Refused(m) ==
  /\ ~m.ok
  /\ Ends("malformed")
  /\ UNCHANGED <<wire, told, heard, specs, mine, theirs, asked, errd>>

-----------------------------------------------------------------------------
(* The client. *)

\* What rustc refuses: a type that no object has.
Builds ==
  \A i \in DOMAIN Objects : \A side \in {Objects[i].c2s, Objects[i].s2c} :
    \A j \in DOMAIN side : side[j].returns \in ObjectNames \cup {""}

Connect ==
  /\ stage = "built" /\ Builds
  /\ stage' = "live"
  /\ Sends("c2s", <<"hello">>, NewHello, <<>>)
  /\ UNCHANGED <<scanVars, search, bounds, heard, specs, mine, theirs, asked, errd,
                 reason>>

\* Every version up to the advertised one is accepted, 0 as well.
BindProtocol ==
  /\ Live /\ mine = <<>>
  /\ \E s \in {s \in specs : s.name = out.name} : \E version \in 0..s.version :
       Sends("c2s", <<"bind", s.name, 1, version>>,
             NewBindProtocol(s.name, 1, version), <<>>)
  /\ mine' = <<[type |-> Objects[1].name, id |-> 0, gone |-> FALSE]>>
  /\ UNCHANGED <<scanVars, bindVars, heard, specs, theirs, asked, errd, reason>>

\* send_param_type: what a stub can be given.
Takes(a) ==
  IF a.type = <<"enum">>
  THEN LET e == out.enums[SelectInSeq(out.enums, LAMBDA x : x.name = a.enum)]
       IN ToSet(e.values)
  ELSE Values[a.type]

\* Every choice of arguments, one after the other.
ArgumentsOf(m) ==
  FoldLeft(LAMBDA lists, a : {Append(l, v) : l \in lists, v \in Takes(a)},
           {<<>>}, m.args)

\* WireObject::call, from the specification and the stub's arguments.
Calls(dir, id, m, seq, vals) ==
  LET marshalled == Marshal(m.params,
                            [i \in DOMAIN vals |-> CallArgExpr(m.args[i].type, vals[i])])
  IN Sends(dir, <<"call", id, m.name, seq, Named(m, vals)>>,
           GenericHead(id, m.idx) \o (IF m.returns = "" THEN <<>> ELSE SeqField(seq))
             \o marshalled.data \o <<Magic.End>>,
           marshalled.fds)

Count(kind, dir) == Len(SelectSeq(told[dir], LAMBDA what : what[1] = kind))
CallsMade == Count("call", "c2s") + Count("call", "s2c")

ClientCalls ==
  /\ Live /\ CallsMade < MaxCalls
  /\ \E q \in DOMAIN mine :
       /\ mine[q].id # 0 /\ ~mine[q].gone
       /\ \E m \in ClientStubs(ObjectOf(mine[q].type)) : \E vals \in ArgumentsOf(m) :
            /\ Calls("c2s", mine[q].id, m,
                     IF m.returns = "" THEN 0 ELSE Len(mine) + 1, vals)
            /\ LET marked == [mine EXCEPT ![q].gone = m.destructor]
               IN mine' = IF m.returns = "" THEN marked
                          ELSE Append(marked, [type |-> m.returns, id |-> 0,
                                               gone |-> FALSE])
  /\ UNCHANGED <<scanVars, bindVars, heard, specs, theirs, asked, errd, reason>>

\* The last handle of an object is dropped.
ClientDrops ==
  /\ Live /\ CallsMade < MaxCalls
  /\ \E q \in DOMAIN mine :
       /\ mine[q].id # 0 /\ ~mine[q].gone
       /\ \E m \in DroppedWith(ObjectOf(mine[q].type)) :
            Calls("c2s", mine[q].id, m, 0, <<>>)
       /\ mine' = [mine EXCEPT ![q].gone = TRUE]
  /\ UNCHANGED <<scanVars, bindVars, heard, specs, theirs, asked, errd, reason>>

Roundtrip ==
  /\ Live
  /\ LET seq == Count("roundtrip", "c2s") + 1
     IN /\ seq <= MaxTrips
        /\ Sends("c2s", <<"roundtrip", seq>>, NewRoundtripRequest(seq), <<>>)
  /\ UNCHANGED <<scanVars, bindVars, heard, specs, mine, theirs, asked, errd, reason>>

ClientReadsBegin ==
  /\ Arrived("s2c", Code.HandshakeBegin)
  /\ \E m \in {ReadHandshakeBegin(wire["s2c"].data, 1)} :
        \/ Refused(m)
        \/ /\ Handles("s2c", m, 0, <<"begin", m.vals[1]>>,
                      Reply(<<"ack", 1>>, NewHandshakeAck(1)))
           /\ 1 \in ToSet(m.vals[1])
           /\ UNCHANGED <<stage, specs, mine, theirs, asked, errd, reason>>
  /\ UNCHANGED <<scanVars, search, bounds>>

\* "name@version" is taken apart at the last @; a digit is the version.
At == 64
Advertised(name, version) == name \o <<At, 48 + version>>

SpecOf(text) ==
  LET at == SelectLastInSeq(text, LAMBDA c : c = At)
  IN [name |-> SubSeq(text, 1, at - 1), version |-> text[at + 1] - 48]

ClientReadsProtocols ==
  /\ Arrived("s2c", Code.HandshakeProtocols)
  /\ \E m \in {ReadHandshakeProtocols(wire["s2c"].data, 1)} :
        \/ Refused(m)
        \/ /\ Handles("s2c", m, 0, <<"protocols", m.vals[1]>>, <<>>)
           /\ specs' = {SpecOf(text) : text \in ToSet(m.vals[1])}
           /\ UNCHANGED <<stage, mine, theirs, asked, errd, reason>>
  /\ UNCHANGED <<scanVars, search, bounds>>

ClientReadsNew ==
  /\ Arrived("s2c", Code.NewObject)
  /\ \E m \in {ReadNewObject(wire["s2c"].data, 1)} :
        \/ Refused(m)
        \/ /\ Handles("s2c", m, 0, <<"new", m.vals[2], m.vals[1]>>, <<>>)
           /\ mine' = IF m.vals[2] \in DOMAIN mine
                      THEN [mine EXCEPT ![m.vals[2]].id = m.vals[1]] ELSE mine
           /\ UNCHANGED <<stage, specs, theirs, asked, errd, reason>>
  /\ UNCHANGED <<scanVars, search, bounds>>

(* A call becomes an event if the object is known; a destructor of the     *)
(* server takes the object with it.                                        *)
ClientHears(m, q, method) ==
  /\ Handles("s2c", m, m.fds,
             <<"call", m.object, method.name, 0,
               Named(method, TakeArgs(method, m.data, FdsOf("s2c", m)))>>, <<>>)
  /\ mine' = [mine EXCEPT ![q].gone = method.destructor]
  /\ IF Leftover("s2c", m, m.fds) THEN Ends("malformed") ELSE UNCHANGED <<stage, reason>>

Known(id) == {q \in DOMAIN mine : mine[q].id = id /\ ~mine[q].gone}

ClientReadsCall ==
  /\ Arrived("s2c", Code.Generic)
  /\ \E m \in {ReadGeneric(wire["s2c"].data, 1, wire["s2c"].fds)} :
        \/ Refused(m)
        \/ /\ m.ok /\ Known(m.object) = {}
           /\ Ends("unknown")
           /\ UNCHANGED <<wire, told, heard, mine>>
        \/ \E q \in Known(m.object) :
             /\ m.method + 1 \in DOMAIN ObjectOf(mine[q].type).s2c
             /\ ClientHears(m, q, ObjectOf(mine[q].type).s2c[m.method + 1])
  /\ UNCHANGED <<scanVars, search, bounds, specs, theirs, asked, errd>>

ClientReadsFatal ==
  /\ Arrived("s2c", Code.FatalProtocolError)
  /\ \E m \in {ReadFatal(wire["s2c"].data, 1)} :
        \/ Refused(m)
        \/ /\ Handles("s2c", m, 0, <<"fatal">> \o m.vals, <<>>)
           /\ Ends("fatal")
           /\ UNCHANGED <<specs, mine, theirs, asked, errd>>
  /\ UNCHANGED <<scanVars, search, bounds>>

ClientReadsDone ==
  /\ Arrived("s2c", Code.RoundtripDone)
  /\ \E m \in {ReadRoundtripDone(wire["s2c"].data, 1)} :
        \/ Refused(m)
        \/ /\ Handles("s2c", m, 0, <<"done">> \o m.vals, <<>>)
           /\ UNCHANGED <<stage, specs, mine, theirs, asked, errd, reason>>
  /\ UNCHANGED <<scanVars, search, bounds>>

-----------------------------------------------------------------------------
(* The server. *)

ServerReadsHello ==
  /\ Arrived("c2s", Code.Sup) /\ ~errd
  /\ \E m \in {ReadHello(wire["c2s"].data, 1)} :
        \/ Refused(m)
        \/ /\ Handles("c2s", m, 0, <<"hello">>,
                      Reply(<<"begin", <<1>>>>, NewHandshakeBegin(<<1>>)))
           /\ UNCHANGED <<stage, specs, mine, theirs, asked, errd, reason>>
  /\ UNCHANGED <<scanVars, search, bounds>>

ProtocolNames ==
  [i \in DOMAIN Beside |-> Advertised(Beside[i].name, Beside[i].version)]
    \o <<Advertised(out.name, out.version)>>

ServerReadsAck ==
  /\ Arrived("c2s", Code.HandshakeAck) /\ ~errd
  /\ \E m \in {ReadHandshakeAck(wire["c2s"].data, 1)} :
        \/ Refused(m)
        \/ /\ Handles("c2s", m, 0, <<"ack">> \o m.vals,
                      Reply(<<"protocols", ProtocolNames>>,
                            NewHandshakeProtocols(ProtocolNames)))
           /\ UNCHANGED <<stage, specs, mine, theirs, asked, errd, reason>>
  /\ UNCHANGED <<scanVars, search, bounds>>

\* create_object: the client is told its id.
Created(type) == Append(theirs, [type |-> type, destroyed |-> FALSE])
NewFor(seq) == Reply(<<"new", seq, Len(theirs) + 1>>, NewNewObject(seq, Len(theirs) + 1))

ServerReadsBind ==
  /\ Arrived("c2s", Code.BindProtocol) /\ ~errd
  /\ \E m \in {ReadBindProtocol(wire["c2s"].data, 1)} :
        \/ Refused(m)
        \/ /\ Handles("c2s", m, 0, <<"bind", m.vals[2], m.vals[1], m.vals[3]>>,
                      NewFor(m.vals[1]))
           /\ theirs' = Created(Objects[1].name)
           /\ UNCHANGED <<stage, specs, mine, asked, errd, reason>>
  /\ UNCHANGED <<scanVars, search, bounds>>

Destroying(method, id) ==
  IF method.destructor THEN [theirs EXCEPT ![id].destroyed = TRUE] ELSE theirs

(* The dispatch of a method that returns an object creates it first, and   *)
(* gives up on an object that the server has destroyed.  Behind a          *)
(* destructor the object is.                                               *)
ServerHears(m, method, seq) ==
  LET event == <<"call", m.object, method.name, seq,
                 Named(method, TakeArgs(method, m.data, FdsOf("c2s", m)))>>
  IN \/ /\ method.returns = ""
        /\ Handles("c2s", m, m.fds, event, <<>>)
        /\ theirs' = Destroying(method, m.object)
     \/ /\ method.returns # "" /\ theirs[m.object].destroyed
        /\ Handles("c2s", m, m.fds, <<"dropped">>, <<>>)
        /\ UNCHANGED theirs
     \/ /\ method.returns # "" /\ ~theirs[m.object].destroyed
        /\ Handles("c2s", m, m.fds, event, NewFor(seq))
        /\ theirs' = Append(Destroying(method, m.object),
                            [type |-> method.returns, destroyed |-> FALSE])

SeqIn(m, method) == IF method.returns = "" THEN 0 ELSE ReadU32(m.data, 2)

ServerReadsCall ==
  /\ Arrived("c2s", Code.Generic) /\ ~errd
  /\ \E m \in {ReadGeneric(wire["c2s"].data, 1, wire["c2s"].fds)} :
        \/ Refused(m)
        \/ /\ m.ok /\ m.object \in DOMAIN theirs
           /\ m.method + 1 \in DOMAIN ObjectOf(theirs[m.object].type).c2s
           /\ \E method \in {ObjectOf(theirs[m.object].type).c2s[m.method + 1]} :
                ServerHears(m, method, SeqIn(m, method))
           /\ IF Leftover("c2s", m, m.fds) THEN Ends("malformed")
              ELSE UNCHANGED <<stage, reason>>
           /\ UNCHANGED <<specs, mine, asked, errd>>
  /\ UNCHANGED <<scanVars, search, bounds>>

ServerReadsRoundtrip ==
  /\ Arrived("c2s", Code.RoundtripRequest) /\ ~errd
  /\ \E m \in {ReadRoundtripRequest(wire["c2s"].data, 1)} :
        \/ Refused(m)
        \/ /\ Handles("c2s", m, 0, <<"roundtrip">> \o m.vals, <<>>)
           /\ asked' = m.vals[1]
           /\ UNCHANGED <<stage, specs, mine, theirs, errd, reason>>
  /\ UNCHANGED <<scanVars, search, bounds>>

\* Behind all that was read.
AnswersRoundtrip ==
  /\ Live /\ ~errd /\ asked # 0 /\ wire["c2s"].data = <<>>
  /\ Sends("s2c", <<"done", asked>>, NewRoundtripDone(asked), <<>>)
  /\ asked' = 0
  /\ UNCHANGED <<scanVars, bindVars, heard, specs, mine, theirs, errd, reason>>

\* A fatal error, and the end of the client.
Error(id, error, text) ==
  /\ Sends("s2c", <<"fatal", id, error, text>>, NewFatal(id, error, text), <<>>)
  /\ errd' = TRUE

(* A method that returns an object is for clients to call: the stub of a   *)
(* server's is refused.                                                    *)
ServerCalls ==
  /\ Live /\ ~errd /\ CallsMade < MaxCalls
  /\ \E id \in DOMAIN theirs :
       /\ ~theirs[id].destroyed
       /\ \E m \in ServerStubs(ObjectOf(theirs[id].type)) : \E vals \in ArgumentsOf(m) :
            \/ /\ m.returns # ""
               /\ Error(id, id, ErrorText)
               /\ UNCHANGED theirs
            \/ /\ m.returns = ""
               /\ Calls("s2c", id, m, 0, vals)
               /\ theirs' = [theirs EXCEPT ![id].destroyed = m.destructor]
               /\ UNCHANGED errd
  /\ UNCHANGED <<scanVars, bindVars, heard, specs, mine, asked, reason>>

ServerErrors ==
  /\ Live /\ ~errd
  /\ \E id \in DOMAIN theirs : ~theirs[id].destroyed /\ Error(id, 7, ErrorText)
  /\ UNCHANGED <<scanVars, bindVars, heard, specs, mine, theirs, asked, reason>>

-----------------------------------------------------------------------------
(* The specification. *)

Init ==
  /\ ScanInit
  /\ stage = "scan" /\ search = NoSearch /\ bounds = <<>>
  /\ wire = [dir \in Directions |-> [data |-> <<>>, fds |-> <<>>]]
  /\ told = [dir \in Directions |-> <<>>]
  /\ heard = [dir \in Directions |-> <<>>]
  /\ specs = {} /\ mine = <<>> /\ theirs = <<>>
  /\ asked = 0 /\ errd = FALSE /\ reason = "none"

Scan == ScanNext /\ UNCHANGED <<bindVars, talkVars>>

Next ==
  \/ Scan
  \/ Compile \/ CollectBegins \/ CollectVisits \/ CollectEnds \/ Generate
  \/ Connect \/ BindProtocol \/ ClientCalls \/ ClientDrops \/ Roundtrip
  \/ ClientReadsBegin \/ ClientReadsProtocols \/ ClientReadsNew
  \/ ClientReadsCall \/ ClientReadsFatal \/ ClientReadsDone
  \/ ServerReadsHello \/ ServerReadsAck \/ ServerReadsBind
  \/ ServerReadsCall \/ ServerReadsRoundtrip
  \/ AnswersRoundtrip \/ ServerCalls \/ ServerErrors

Spec == Init /\ [][Next]_<<scanVars, bindVars, talkVars>>

-----------------------------------------------------------------------------
(* Properties. *)

(* What the generated server code asks of a handler is enough for rustc,   *)
(* and no more than events can bring: creating a returned object asks for  *)
(* all that its own code asks for, however the types return each other.    *)
BoundsSuffice ==
  stage \notin {"scan", "collect"} =>
    LET asks(name) == {name} \cup
          LET i == SelectInSeq(Objects, LAMBDA o : o.name = name)
          IN IF i = 0 THEN {} ELSE ToSet(bounds[i])
        returnsOf(name) ==
          IF name \in ObjectNames
          THEN {ObjectOf(name).c2s[j].returns : j \in DOMAIN ObjectOf(name).c2s} \ {""}
          ELSE {}
        reach[n \in 0..Len(Objects)] ==
          [name \in ObjectNames |->
             IF n = 0 THEN {name}
             ELSE LET near == reach[n - 1][name]
                  IN near \cup UNION {returnsOf(x) : x \in near}]
        root == Objects[1].name
    IN /\ \A name \in ObjectNames : \A r \in returnsOf(name) : asks(r) \subseteq asks(name)
       /\ asks(root) \subseteq {root} \cup AllBounds
       /\ \A name \in ObjectNames : asks(name) = reach[Len(Objects)][name]

(* What is read is what was said, message by message: the numbers, texts,  *)
(* arrays and descriptors of a call arrive at the method that was called,  *)
(* under their names, and nothing is left out.  Only a call that returns   *)
(* an object is not heard, on an object that the server has destroyed.     *)
MessagesReadAsWritten ==
  \A dir \in Directions :
    /\ \A i \in DOMAIN heard[dir] :
         /\ i \in DOMAIN told[dir]
         /\ \/ heard[dir][i] = told[dir][i]
            \/ /\ heard[dir][i] = <<"dropped">>
               /\ told[dir][i][1] = "call" /\ theirs[told[dir][i][2]].destroyed
    /\ Live /\ wire[dir].data = <<>> => Len(heard[dir]) = Len(told[dir])

TooLong(dir, call) ==
  LET o == ObjectOf(theirs[call[2]].type)
      m == IF dir = "c2s" THEN o.c2s ELSE o.s2c
  IN \E i \in DOMAIN m : \E a \in ToSet(m[i].args) :
       m[i].name = call[3] /\ IsArray(a.type) /\ Len(call[5][a.name]) > MaxArray

(* A side refuses what the other wrote only for a limit that the writer    *)
(* does not know: an array with more elements than the maximum, or version *)
(* 0.  An object that is not known was given up.  The code does not keep   *)
(* this for an array of exactly the maximum, which ReadGeneric refuses     *)
(* too.                                                                    *)
EndsForAReason ==
  /\ reason = "malformed" =>
       \E dir \in Directions : \E i \in DOMAIN told[dir] :
         \/ told[dir][i][1] = "bind" /\ told[dir][i][4] = 0
         \/ told[dir][i][1] = "call" /\ TooLong(dir, told[dir][i])
  /\ reason = "unknown" => \E q \in DOMAIN mine : mine[q].gone
  /\ reason = "fatal" => errd

(* Two readers of the bytes of a call agree where its fields begin: the    *)
(* one that finds its end, and the one that writes a trace of it.          *)
TraceReadsAlike ==
  \A dir \in Directions :
    \A m \in {ReadGeneric(wire[dir].data, 1, wire[dir].fds)} :
      m.ok => Formatted(SubSeq(wire[dir].data, 1, m.len))
                = {2, 7, m.len + 1} \cup
                    {Walk(wire[dir].data, 1)[i].at : i \in 0..MaxFields}
=============================================================================

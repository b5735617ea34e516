----------------------------- MODULE WireCodec -----------------------------
(***************************************************************************)
(* The bytes of messages: what the constructors and WireObject::call write *)
(* and what the from_bytes functions and the generated dispatch read.      *)
(* Data is a sequence of bytes; a position is the index of a byte, one     *)
(* more than the offset of the code.                                       *)
(***************************************************************************)
EXTENDS Integers, Sequences, SequencesExt

CONSTANTS
  MaxArray,      \* 10000: the length from which an array is refused
  MaxVersions,   \* 256, of HandshakeBegin
  MaxProtocols   \* 2048, of HandshakeProtocols

ASSUME LimitsAssumption ==
  MaxArray \in Nat /\ MaxVersions \in Nat /\ MaxProtocols \in Nat

\* MessageType.
Code ==
  [Sup |-> 1, HandshakeBegin |-> 2, HandshakeAck |-> 3, HandshakeProtocols |-> 4,
   BindProtocol |-> 10, NewObject |-> 11, FatalProtocolError |-> 12,
   RoundtripRequest |-> 13, RoundtripDone |-> 14, Generic |-> 100]

\* MessageMagic.
Magic ==
  [End |-> 0, Uint |-> 16, Int |-> 17, F32 |-> 18, Seq |-> 19, ObjectId |-> 20,
   Varchar |-> 32, Array |-> 33, Object |-> 34, Fd |-> 64]

\* The bits of a 32-bit number, the lowest byte first.
Bytes4(v) == [i \in 1..4 |-> (v \div 256 ^ (i - 1)) % 256]

\* A negative number is the complement of one that is not.
BytesOfInt(v) ==
  IF v >= 0 THEN Bytes4(v) ELSE [i \in 1..4 |-> 255 - Bytes4(-v - 1)[i]]

Within(d, p) == p \in DOMAIN d

ReadU32(d, p) ==
  d[p] + 256 * d[p + 1] + 65536 * d[p + 2] + 16777216 * d[p + 3]

ReadI32(d, p) ==
  IF d[p + 3] < 128 THEN ReadU32(d, p)
  ELSE -ReadU32([i \in p..(p + 3) |-> 255 - d[i]], p) - 1

-----------------------------------------------------------------------------
(* Lengths: seven bits to a byte, the lowest first; the high bit says that *)
(* more follow.                                                            *)

\* [Mutated form] The highest group comes first.
EncodeVarIntHighFirst(n) ==
  LET groups == CHOOSE k \in 1..4 :
                  n < 128 ^ k /\ \A j \in 1..4 : n < 128 ^ j => k <= j
  IN [i \in 1..groups |->
        ((n \div 128 ^ (groups - i)) % 128) + (IF i < groups THEN 128 ELSE 0)]

EncodeVarInt(n) ==
  LET groups == CHOOSE k \in 1..4 :
                  n < 128 ^ k /\ \A j \in 1..4 : n < 128 ^ j => k <= j
  IN [i \in 1..groups |->
        ((n \div 128 ^ (i - 1)) % 128) + (IF i < groups THEN 128 ELSE 0)]

(* The value at p and the bytes it takes, none behind the end.  A number   *)
(* that is cut takes what is left.                                         *)
VarIntEnd(d, p) ==
  LET i == SelectInSubSeq(d, p, Len(d), LAMBDA byte : byte < 128)
  IN IF i = 0 THEN Len(d) ELSE i

VarIntTo(d, p, end) ==
  [value |-> FoldLeft(LAMBDA sum, q : sum + (d[q] % 128) * 128 ^ (q - p), 0,
                      [i \in 1..(end - p + 1) |-> p + i - 1]),
   len |-> end - p + 1]

ParseVarInt(d, p) ==
  IF Within(d, p) THEN VarIntTo(d, p, VarIntEnd(d, p)) ELSE [value |-> 0, len |-> 0]

\* A string with its length, and where it ends.
Counted(s) == EncodeVarInt(Len(s)) \o s

PastLen(p, v) == p + v.len
CountedBy(p, v) == p + v.len + v.value
CountedEnd(d, p) == CountedBy(p, ParseVarInt(d, p))
CountedText(d, p) == SubSeq(d, PastLen(p, ParseVarInt(d, p)), CountedEnd(d, p) - 1)

\* The ends of n strings, one behind the other.
CountedEnds(d, p, n) ==
  LET ends[i \in 0..n] == IF i = 0 THEN p ELSE CountedEnd(d, ends[i - 1])
  IN ends

-----------------------------------------------------------------------------
(* Fields, behind their magic: encoded, their size, their value.           *)

Encoded(type, v) ==
  CASE type = "uint" -> <<Magic.Uint>> \o Bytes4(v)
    [] type = "varchar" -> <<Magic.Varchar>> \o Counted(v)
    [] type = "uints" ->
         <<Magic.Array, Magic.Uint>> \o EncodeVarInt(Len(v))
           \o FlattenSeq([i \in DOMAIN v |-> Bytes4(v[i])])
    [] type = "varchars" ->
         <<Magic.Array, Magic.Varchar>> \o EncodeVarInt(Len(v))
           \o FlattenSeq([i \in DOMAIN v |-> Counted(v[i])])

NewMessage(code, types, vals) ==
  <<code>> \o FlattenSeq([i \in DOMAIN types |-> Encoded(types[i], vals[i])])
    \o <<Magic.End>>

(* What the parsers of the core messages have in common: the field at p,   *)
(* if it has the right magic and ends within the data; else an error.      *)
NoField == [ok |-> FALSE, next |-> 0, val |-> 0]

Field(d, next, val) ==
  IF next - 1 <= Len(d) THEN [ok |-> TRUE, next |-> next, val |-> val] ELSE NoField

ReadUint(d, p) ==
  IF p + 3 <= Len(d) THEN Field(d, p + 4, ReadU32(d, p)) ELSE NoField

ReadVarchar(d, p, end) ==
  IF end - 1 <= Len(d) THEN Field(d, end, CountedText(d, p)) ELSE NoField

ReadUints(d, first, n) ==
  IF n < MaxVersions /\ first + 4 * n - 1 <= Len(d)
  THEN Field(d, first + 4 * n, [i \in 1..n |-> ReadU32(d, first + 4 * (i - 1))])
  ELSE NoField

ReadVarchars(d, n, ends) ==
  IF n < MaxProtocols
  THEN Field(d, ends[n], [i \in 1..n |-> CountedText(d, ends[i - 1])])
  ELSE NoField

ReadArray(d, p, n, type) ==
  IF type = "uints" THEN ReadUints(d, PastLen(p, n), n.value)
  ELSE ReadVarchars(d, n.value, CountedEnds(d, PastLen(p, n), n.value))

MagicsOf ==
  [uint |-> <<Magic.Uint>>, varchar |-> <<Magic.Varchar>>,
   uints |-> <<Magic.Array, Magic.Uint>>, varchars |-> <<Magic.Array, Magic.Varchar>>]

ReadField(d, p, type) ==
  CASE ~IsPrefix(MagicsOf[type], SubSeq(d, p, Len(d))) -> NoField
    [] OTHER ->
         CASE type = "uint" -> ReadUint(d, p + 1)
           [] type = "varchar" -> ReadVarchar(d, p + 1, CountedEnd(d, p + 1))
           [] OTHER -> ReadArray(d, p + 2, ParseVarInt(d, p + 2), type)

NoMessage == [ok |-> FALSE, len |-> 0, vals |-> <<>>]

\* The fields of a message, one behind the other, and the end marker.
ReadNext(d, before, type) ==
  IF before.ok THEN ReadField(d, before.next, type) ELSE NoField

ReadFields(d, p, code, types) ==
  LET f[i \in 0..Len(types)] ==
        IF i = 0 THEN [ok |-> Within(d, p) /\ d[p] = code, next |-> p + 1, val |-> 0]
        ELSE ReadNext(d, f[i - 1], types[i])
  IN f

Whole(d, p, f, n) ==
  IF f[n].ok /\ Within(d, f[n].next) /\ d[f[n].next] = Magic.End
  THEN [ok |-> TRUE, len |-> f[n].next + 1 - p, vals |-> [i \in 1..n |-> f[i].val]]
  ELSE NoMessage

ReadMessage(d, p, code, types) == Whole(d, p, ReadFields(d, p, code, types), Len(types))

-----------------------------------------------------------------------------
(* The core messages: what their constructors write, and what from_bytes   *)
(* expects.                                                                *)

Provided(m, Holds(_)) == IF m.ok /\ Holds(m.vals) THEN m ELSE NoMessage

NewHello == NewMessage(Code.Sup, <<"varchar">>, <<<<86, 65, 88>>>>)
ReadHello(d, p) ==
  Provided(ReadMessage(d, p, Code.Sup, <<"varchar">>),
           LAMBDA vals : vals[1] = <<86, 65, 88>>)

NewHandshakeBegin(versions) ==
  NewMessage(Code.HandshakeBegin, <<"uints">>, <<versions>>)
ReadHandshakeBegin(d, p) == ReadMessage(d, p, Code.HandshakeBegin, <<"uints">>)

NewHandshakeAck(version) == NewMessage(Code.HandshakeAck, <<"uint">>, <<version>>)
ReadHandshakeAck(d, p) == ReadMessage(d, p, Code.HandshakeAck, <<"uint">>)

NewHandshakeProtocols(names) ==
  NewMessage(Code.HandshakeProtocols, <<"varchars">>, <<names>>)
ReadHandshakeProtocols(d, p) ==
  ReadMessage(d, p, Code.HandshakeProtocols, <<"varchars">>)

NewBindProtocol(name, seq, version) ==
  NewMessage(Code.BindProtocol, <<"uint", "varchar", "uint">>, <<seq, name, version>>)

\* Version 0 is malformed.
ReadBindProtocol(d, p) ==
  Provided(ReadMessage(d, p, Code.BindProtocol, <<"uint", "varchar", "uint">>),
           LAMBDA vals : vals[3] # 0)

NewNewObject(seq, id) == NewMessage(Code.NewObject, <<"uint", "uint">>, <<id, seq>>)
ReadNewObject(d, p) == ReadMessage(d, p, Code.NewObject, <<"uint", "uint">>)

NewFatal(object, error, text) ==
  NewMessage(Code.FatalProtocolError, <<"uint", "uint", "varchar">>,
             <<object, error, text>>)
ReadFatal(d, p) ==
  ReadMessage(d, p, Code.FatalProtocolError, <<"uint", "uint", "varchar">>)

NewRoundtripRequest(seq) == NewMessage(Code.RoundtripRequest, <<"uint">>, <<seq>>)
ReadRoundtripRequest(d, p) == ReadMessage(d, p, Code.RoundtripRequest, <<"uint">>)

NewRoundtripDone(seq) == NewMessage(Code.RoundtripDone, <<"uint">>, <<seq>>)
ReadRoundtripDone(d, p) == ReadMessage(d, p, Code.RoundtripDone, <<"uint">>)

-----------------------------------------------------------------------------
(* The generic message: WireObject::call writes it by the parameters of    *)
(* the method's specification, a sequence of magics.                       *)

Numbers == {Magic.Uint, Magic.Int, Magic.F32}

\* An f32 is its four bytes.
Number(kind, v) ==
  CASE kind = Magic.Uint -> Bytes4(v)
    [] kind = Magic.Int -> BytesOfInt(v)
    [] kind = Magic.F32 -> v

(* What is appended for one argument: the parameter's magic, and what the  *)
(* CallArg holds if it is of the kind the parameter asks for.              *)
CallBytes(param, arg) ==
  IF arg.array \/ arg.kind # param \/ param = Magic.Fd THEN <<param>>
  ELSE <<param>> \o (IF param = Magic.Varchar THEN Counted(arg.val)
                     ELSE Number(param, arg.val))

\* An array is written by the CallArg's kind, behind the specified magic.
CallArrayBytes(param, arg) ==
  <<Magic.Array, param>> \o EncodeVarInt(Len(arg.val))
    \o FlattenSeq([i \in DOMAIN arg.val |->
         CASE arg.kind \in Numbers -> Number(arg.kind, arg.val[i])
           [] arg.kind = Magic.Varchar -> Counted(arg.val[i])
           [] arg.kind = Magic.Fd -> <<>>])

\* The descriptors of an argument are pushed to the message's list.
CallFds(arg) ==
  IF arg.kind # Magic.Fd THEN <<>> ELSE IF arg.array THEN arg.val ELSE <<arg.val>>

(* The loop over the parameters: an array takes two of them and, as the    *)
(* others, one argument.                                                   *)
Marshal(params, args) ==
  FoldLeft(LAMBDA m, p :
             IF p = Magic.Array /\ ~m.array THEN [m EXCEPT !.array = TRUE]
             ELSE [data |-> m.data \o (IF m.array THEN CallArrayBytes(p, args[m.arg])
                                       ELSE CallBytes(p, args[m.arg])),
                   fds |-> m.fds \o CallFds(args[m.arg]),
                   arg |-> m.arg + 1, array |-> FALSE],
           [data |-> <<>>, fds |-> <<>>, arg |-> 1, array |-> FALSE], params)

GenericHead(object, method) ==
  <<Code.Generic, Magic.Object>> \o Bytes4(object) \o <<Magic.Uint>> \o Bytes4(method)

SeqField(seq) == <<Magic.Seq>> \o Bytes4(seq)

(* GenericProtocolMessage::from_bytes finds the end of a message by the    *)
(* magics alone: the size of the field at p, and its descriptors.          *)
FourBytes == {Magic.Uint, Magic.F32, Magic.Int, Magic.Object, Magic.Seq}
BadField == [ok |-> FALSE, size |-> 0, fds |-> 0]

ArrayField(d, first, type, n) ==
  LET Sized(size, fds) == [ok |-> TRUE, size |-> size, fds |-> fds]
  IN CASE n >= MaxArray -> BadField
       [] n < MaxArray /\ type \in FourBytes -> Sized(4 * n, 0)
       [] n < MaxArray /\ type = Magic.Varchar ->
            Sized(CountedEnds(d, first, n)[n] - first, 0)
       [] n < MaxArray /\ type = Magic.Fd -> Sized(0, n)
       [] OTHER -> BadField

\* With the two magics and the length in front.
ArrayAt(d, p, n) ==
  IF ~Within(d, p + 1) THEN BadField
  ELSE [ArrayField(d, p + 2 + n.len, d[p + 1], n.value) EXCEPT !.size = @ + 2 + n.len]

SkipField(d, p) ==
  CASE d[p] \in FourBytes -> [ok |-> TRUE, size |-> 5, fds |-> 0]
    [] d[p] = Magic.Varchar ->
         [ok |-> TRUE, size |-> CountedEnd(d, p + 1) - p, fds |-> 0]
    [] d[p] = Magic.Array -> ArrayAt(d, p, ParseVarInt(d, p + 2))
    [] d[p] = Magic.Fd -> [ok |-> TRUE, size |-> 1, fds |-> 1]
    [] OTHER -> BadField

(* The positions of the fields behind the head, the end marker's last; the *)
(* descriptors up to each.                                                 *)
MaxFields == 4   \* bound: a sequence number and the arguments of a call

Past(b, f) == [ok |-> f.ok, at |-> b.at + f.size, fds |-> b.fds + f.fds]

WalkOn(d, b) ==
  IF ~b.ok \/ ~Within(d, b.at) THEN [b EXCEPT !.ok = FALSE]
  ELSE IF d[b.at] = Magic.End THEN b ELSE Past(b, SkipField(d, b.at))

Walk(d, p) ==
  LET w[i \in 0..MaxFields] ==
        IF i = 0 THEN [ok |-> TRUE, at |-> p + 11, fds |-> 0] ELSE WalkOn(d, w[i - 1])
  IN w

(* The message at p, of a read with the descriptors fds: its object, its   *)
(* method, its data and the descriptors it takes.                          *)
NoGeneric == [ok |-> FALSE, len |-> 0, object |-> 0, method |-> 0,
              data |-> <<>>, fds |-> 0]

Generic(d, p, fds, end) ==
  IF end.ok /\ Within(d, end.at) /\ end.fds <= Len(fds)
  THEN [ok |-> TRUE, len |-> end.at + 1 - p,
        object |-> ReadU32(d, p + 2), method |-> ReadU32(d, p + 7),
        data |-> SubSeq(d, p + 11, end.at), fds |-> end.fds]
  ELSE NoGeneric

ReadGeneric(d, p, fds) ==
  IF /\ p + 10 <= Len(d)
     /\ d[p] = Code.Generic /\ d[p + 1] = Magic.Object /\ d[p + 6] = Magic.Uint
  THEN Generic(d, p, fds, Walk(d, p)[MaxFields])
  ELSE NoGeneric

-----------------------------------------------------------------------------
(* The trace of a message, Message::parse_data: the third reader of the    *)
(* same bytes.  An empty string is written without looking at the data.    *)

FormatElement(d, p, type) ==
  CASE type \in {Magic.Uint, Magic.Int, Magic.F32, Magic.Object} -> 4
    [] type = Magic.Fd -> 0
    [] type = Magic.Varchar -> CountedEnd(d, p) - p
    [] OTHER -> 0

FormatElements(d, first, type, n) ==
  LET at[i \in 0..n] ==
        IF i = 0 THEN first
        ELSE LET b == at[i - 1] IN b + FormatElement(d, b, type)
  IN at[n]

FormatLengths(d, p, type, n) == FormatElements(d, PastLen(p, n), type, n.value)
FormatArray(d, p) == FormatLengths(d, p + 2, d[p + 1], ParseVarInt(d, p + 2))

\* [Mutated form] The magic of an array's elements is not skipped.
FormatFieldShort(d, p) ==
  CASE d[p] \in FourBytes -> p + 5
    [] d[p] = Magic.Varchar -> CountedEnd(d, p + 1)
    [] d[p] = Magic.Array -> FormatArray(d, p) - 1
    [] OTHER -> p + 1

\* Where the trace goes on behind the field at p.
FormatField(d, p) ==
  CASE d[p] \in FourBytes -> p + 5
    [] d[p] = Magic.Varchar -> CountedEnd(d, p + 1)
    [] d[p] = Magic.Array -> FormatArray(d, p)
    [] OTHER -> p + 1

\* The trace of a whole message looks at these positions ...
Formatted(m) ==
  LET at[i \in 0..(MaxFields + 3)] ==
        IF i = 0 THEN 2
        ELSE LET b == at[i - 1] IN IF b > Len(m) THEN b ELSE FormatField(m, b)
  IN {at[i] : i \in 0..(MaxFields + 3)}
=============================================================================

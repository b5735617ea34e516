------------------------------ MODULE Transport ------------------------------
(***************************************************************************)
(* How messages cross a stream that knows only bytes: send_message, which  *)
(* waits while the kernel's buffer is full; read_from_socket, which reads  *)
(* buffer by buffer; and the loop of handle_message over what was read.    *)
(*                                                                         *)
(* What messages say is left out (see Connection): a message is its number *)
(* and its length, and what travels are its parts, in units of bytes.      *)
(* Each end is one thread, which sends between its dispatches or from the  *)
(* handlers that run inside them.                                          *)
(***************************************************************************)
EXTENDS Naturals, Sequences

CONSTANTS
  Buffer,   \* BUFFER_SIZE, in units
  Segment,  \* what the kernel takes in one piece
  Cap,      \* units in the kernel's buffer at which it takes no more
  Lengths,  \* bound: lengths of messages
  Budget,   \* bound: messages of each end
  MayExit   \* whether either process may exit

Ends == {"client", "server"}
Other(e) == IF e = "client" THEN "server" ELSE "client"

ASSUME TransportAssumption ==
  /\ Buffer \in Nat \ {0} /\ Segment \in Nat \ {0} /\ Cap \in Nat \ {0}
  /\ Lengths \subseteq Nat \ {0}
  /\ Budget \in [Ends -> Nat] /\ MayExit \in BOOLEAN

VARIABLES
  life,       \* "open", "error" (disconnected on an error), "end" (has read
              \* the end of the stream), "exited"
  pc,         \* "idle", in "recv", in a "batch", in a "handler", or sending
              \* its last message, the "fatal" error
  sent,       \* the lengths of the messages send_message was called with
  sending,    \* the last of them is inside send_message
  put,        \* units of it that the kernel has taken
  wire,       \* what the kernel holds of this end's parts
  batch,      \* what this end has read and not handled
  delivered,  \* the numbers of the messages it has handled, 0 for garbage
  cut         \* history: send_message returned with a part of a message

outs == <<sent, sending, put, cut>>
vars == <<life, pc, outs, wire, batch, delivered>>

\* A message as the sequence of its parts.
Parts(e, m) == [i \in 1..sent[e][m] |-> <<m, i>>]

Least(a, b) == IF a <= b THEN a ELSE b

Dead(e) == life[e] \in {"error", "exited"}

-----------------------------------------------------------------------------
(* Sending. *)

Begin(e, n) ==
  /\ sent' = [sent EXCEPT ![e] = Append(@, n)]
  /\ sending' = [sending EXCEPT ![e] = TRUE]
  /\ put' = [put EXCEPT ![e] = 0]

\* The application, or one of its handlers, calls send_message.
Send(e) ==
  /\ life[e] = "open" /\ ~sending[e] /\ pc[e] \in {"idle", "handler"}
  /\ Len(sent[e]) < Budget[e]
  /\ \E n \in Lengths : Begin(e, n)
  /\ UNCHANGED <<life, pc, wire, batch, delivered, cut>>

Length(e) == sent[e][Len(sent[e])]

(* The kernel takes the next piece. It takes a piece whole when it has any *)
(* room; without room for the first, sendmsg fails with EAGAIN and the     *)
(* thread waits in poll.                                                   *)
TakePiece(e) ==
  /\ sending[e] /\ ~Dead(Other(e))
  /\ Len(wire[e]) < Cap
  /\ LET n == Least(Segment, Length(e) - put[e])
     IN /\ wire' = [wire EXCEPT ![e] =
                      @ \o [i \in 1..n |-> <<Len(sent[e]), put[e] + i>>]]
        /\ put' = [put EXCEPT ![e] = @ + n]
        /\ sending' = [sending EXCEPT ![e] = put[e] + n < Length(e)]
  /\ UNCHANGED <<life, pc, sent, batch, delivered, cut>>

(* Without room for a later piece, sendmsg returns what it has sent so     *)
(* far; send_message takes that for success.                               *)
ShortWrite(e) ==
  /\ sending[e] /\ put[e] > 0 /\ Len(wire[e]) >= Cap
  /\ sending' = [sending EXCEPT ![e] = FALSE]
  /\ cut' = [cut EXCEPT ![e] = TRUE]
  /\ UNCHANGED <<life, pc, sent, put, wire, batch, delivered>>

\* [Mutated form] An error of sendmsg is taken for a full buffer.
PeerGoneWaits(e) == sending[e] /\ Dead(Other(e)) /\ UNCHANGED vars

\* The other end is shut down: sendmsg fails, and the message is dropped.
PeerGone(e) ==
  /\ sending[e] /\ Dead(Other(e))
  /\ sending' = [sending EXCEPT ![e] = FALSE]
  /\ UNCHANGED <<life, pc, sent, put, cut, wire, batch, delivered>>

-----------------------------------------------------------------------------
(* Reading. *)

(* disconnect_on_error at the client; the server first sends a fatal error *)
(* to the client.                                                          *)
Fail(e) ==
  /\ batch' = [batch EXCEPT ![e] = <<>>]
  /\ IF e = "client"
     THEN /\ life' = [life EXCEPT ![e] = "error"]
          /\ pc' = [pc EXCEPT ![e] = "idle"]
          /\ UNCHANGED outs
     ELSE /\ pc' = [pc EXCEPT ![e] = "fatal"]
          /\ Begin(e, 1)
          /\ UNCHANGED <<life, cut>>

FatalSent(e) ==
  /\ pc[e] = "fatal" /\ ~sending[e]
  /\ life' = [life EXCEPT ![e] = "error"]
  /\ pc' = [pc EXCEPT ![e] = "idle"]
  /\ UNCHANGED <<outs, wire, batch, delivered>>

Reads(e) == life[e] = "open" /\ ~sending[e] /\ pc[e] \in {"idle", "recv"}

\* [Mutated form] The next buffer replaces what was read before it.
RecvReplaces(e) ==
  /\ Reads(e) /\ wire[Other(e)] # <<>>
  /\ LET w == wire[Other(e)]
         n == Least(Buffer, Len(w))
     IN /\ batch' = [batch EXCEPT ![e] = SubSeq(w, 1, n)]
        /\ wire' = [wire EXCEPT ![Other(e)] = SubSeq(w, n + 1, Len(w))]
        /\ pc' = [pc EXCEPT ![e] = IF n = Buffer THEN "recv" ELSE "batch"]
  /\ UNCHANGED <<life, outs, delivered>>

\* recvmsg; a full buffer may not be all there is.
Recv(e) ==
  /\ Reads(e) /\ wire[Other(e)] # <<>>
  /\ LET w == wire[Other(e)]
         n == Least(Buffer, Len(w))
     IN /\ batch' = [batch EXCEPT ![e] = @ \o SubSeq(w, 1, n)]
        /\ wire' = [wire EXCEPT ![Other(e)] = SubSeq(w, n + 1, Len(w))]
        /\ pc' = [pc EXCEPT ![e] = IF n = Buffer THEN "recv" ELSE "batch"]
  /\ UNCHANGED <<life, outs, delivered>>

(* After a full buffer there is nothing: recvmsg fails with EAGAIN, and    *)
(* read_from_socket with it. What was read is lost.                        *)
RecvNothing(e) ==
  /\ Reads(e) /\ pc[e] = "recv"
  /\ wire[Other(e)] = <<>> /\ ~Dead(Other(e))
  /\ Fail(e)
  /\ UNCHANGED <<wire, delivered>>

(* The end of the stream; or an error, when the other process died with    *)
(* data it had not read.                                                   *)
RecvEnd(e) ==
  /\ Reads(e) /\ wire[Other(e)] = <<>> /\ Dead(Other(e))
  /\ \/ /\ pc[e] = "recv"
        /\ pc' = [pc EXCEPT ![e] = "batch"]
        /\ UNCHANGED <<life, outs, batch>>
     \/ /\ pc[e] = "idle"
        /\ life' = [life EXCEPT ![e] = IF e = "client" THEN "end" ELSE "error"]
        /\ UNCHANGED <<pc, outs, batch>>
     \/ wire[e] # <<>> /\ Fail(e)
  /\ UNCHANGED <<wire, delivered>>

-----------------------------------------------------------------------------
(* Handling. *)

InBatch(e) ==
  life[e] = "open" /\ ~sending[e] /\ pc[e] \in {"batch", "handler"}

\* The batch goes on with a message that is all there.
WholeNext(e) ==
  /\ batch[e] # <<>>
  /\ LET m == Head(batch[e])[1]
         n == sent[Other(e)][m]
     IN n <= Len(batch[e]) /\ SubSeq(batch[e], 1, n) = Parts(Other(e), m)

\* It goes on with the first parts of a message, and ends within it.
CutNext(e) ==
  /\ batch[e] # <<>> /\ ~WholeNext(e)
  /\ LET m == Head(batch[e])[1]
     IN \A i \in DOMAIN batch[e] : batch[e][i] = <<m, i>>

\* [Mutated form] The position is not advanced past the message.
HandleTwice(e) ==
  /\ InBatch(e) /\ WholeNext(e)
  /\ delivered' = [delivered EXCEPT ![e] = Append(@, Head(batch[e])[1])]
  /\ pc' = [pc EXCEPT ![e] = "handler"]
  /\ UNCHANGED <<life, outs, wire, batch>>

\* One message is parsed and handled; the position is advanced by its length.
Handle(e) ==
  /\ InBatch(e) /\ WholeNext(e)
  /\ LET m == Head(batch[e])[1]
     IN /\ delivered' = [delivered EXCEPT ![e] = Append(@, m)]
        /\ batch' = [batch EXCEPT ![e] =
                       SubSeq(@, sent[Other(e)][m] + 1, Len(@))]
  /\ pc' = [pc EXCEPT ![e] = "handler"]
  /\ UNCHANGED <<life, outs, wire>>

\* Nothing is kept for the next read: a message that is not all there fails.
HandleCut(e) ==
  /\ InBatch(e) /\ CutNext(e)
  /\ Fail(e)
  /\ UNCHANGED <<wire, delivered>>

(* Parts of other messages follow, or the batch begins within a message:   *)
(* that is malformed, or happens to parse.                                 *)
HandleGarbage(e) ==
  /\ InBatch(e) /\ batch[e] # <<>> /\ ~WholeNext(e) /\ ~CutNext(e)
  /\ \/ Fail(e) /\ UNCHANGED delivered
     \/ /\ \E n \in DOMAIN batch[e] :
             batch' = [batch EXCEPT ![e] = SubSeq(@, n + 1, Len(@))]
        /\ delivered' = [delivered EXCEPT ![e] = Append(@, 0)]
        /\ pc' = [pc EXCEPT ![e] = "handler"]
        /\ UNCHANGED <<life, outs>>
  /\ UNCHANGED wire

BatchEnds(e) ==
  /\ InBatch(e) /\ batch[e] = <<>>
  /\ pc' = [pc EXCEPT ![e] = "idle"]
  /\ UNCHANGED <<life, outs, wire, batch, delivered>>

\* The process exits, wherever it is; its stream closes.
Exit(e) ==
  /\ MayExit /\ life[e] # "exited"
  /\ life' = [life EXCEPT ![e] = "exited"]
  /\ sending' = [sending EXCEPT ![e] = FALSE]
  /\ batch' = [batch EXCEPT ![e] = <<>>]
  /\ pc' = [pc EXCEPT ![e] = "idle"]
  /\ UNCHANGED <<sent, put, cut, wire, delivered>>

-----------------------------------------------------------------------------
Init ==
  /\ life = [e \in Ends |-> "open"] /\ pc = [e \in Ends |-> "idle"]
  /\ sent = [e \in Ends |-> <<>>] /\ put = [e \in Ends |-> 0]
  /\ sending = [e \in Ends |-> FALSE] /\ cut = [e \in Ends |-> FALSE]
  /\ wire = [e \in Ends |-> <<>>] /\ batch = [e \in Ends |-> <<>>]
  /\ delivered = [e \in Ends |-> <<>>]

\* What send_message does until it returns.
SendGoesOn(e) == TakePiece(e) \/ ShortWrite(e) \/ PeerGone(e) \/ FatalSent(e)

\* What dispatch_events does from a readable stream to its return.
Reading(e) ==
  \/ Recv(e) \/ RecvNothing(e) \/ RecvEnd(e)
  \/ Handle(e) \/ HandleCut(e) \/ HandleGarbage(e) \/ BatchEnds(e)

Next == \E e \in Ends : Send(e) \/ SendGoesOn(e) \/ Reading(e) \/ Exit(e)

Spec == Init /\ [][Next]_vars

FairSpec ==
  Spec /\ \A e \in Ends : WF_vars(SendGoesOn(e)) /\ WF_vars(Reading(e))

-----------------------------------------------------------------------------
(* Properties. *)

\* The type of the variables: what either end is doing, and what it holds.
TypeOK ==
  /\ life \in [Ends -> {"open", "error", "end", "exited"}]
  /\ pc \in [Ends -> {"idle", "recv", "batch", "handler", "fatal"}]
  /\ sent \in [Ends -> Seq(Nat \ {0})] /\ put \in [Ends -> Nat]
  /\ sending \in [Ends -> BOOLEAN] /\ cut \in [Ends -> BOOLEAN]
  /\ wire \in [Ends -> Seq(Nat \X Nat)] /\ batch \in [Ends -> Seq(Nat \X Nat)]
  /\ delivered \in [Ends -> Seq(Nat)]

(* Unless a write was cut short, the messages handled are those sent, each *)
(* once and in their order, however writes and reads divide them.          *)
DeliveredInOrder ==
  \A e \in Ends : ~cut[Other(e)] =>
    /\ Len(delivered[e]) <= Len(sent[Other(e)])
    /\ \A i \in DOMAIN delivered[e] : delivered[e][i] = i

\* Both ends are inside send_message, and neither kernel buffer has room.
BothWait == \A e \in Ends : sending[e] /\ Len(wire[e]) >= Cap

(* A send returns, from whatever handler or for whatever fatal error it is *)
(* called, unless both ends come to wait for each other: poll in           *)
(* send_message has no timeout, and nobody reads meanwhile.  No other      *)
(* state of the two ends, their buffers and batches keeps a send.          *)
SendReturns == \A e \in Ends : <>[]sending[e] => <>[]BothWait

(* What is sent is handled, unless one of the ends stops being open, a     *)
(* write was cut short, or both ends wait for each other.                  *)
AllArrives ==
  \A e \in Ends : \A n \in 1..Budget[e] :
    Len(sent[e]) >= n ~> \/ Len(delivered[Other(e)]) >= n
                         \/ cut[e] \/ \E x \in Ends : life[x] # "open"
                         \/ []BothWait

(* dispatch_events of the client, on its errors: "Returns an error if the  *)
(* connection closes, polling fails, or incoming protocol traffic is       *)
(* malformed." What a server sends whole and in order is not malformed.    *)
OnlyMalformedEnds ==
  life["client"] = "error" => Dead("server") \/ pc["server"] = "fatal"
                              \/ cut["server"]
=============================================================================

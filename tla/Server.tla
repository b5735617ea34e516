------------------------------- MODULE Server -------------------------------
(***************************************************************************)
(* A server process: ServerSocket::bind or ::detached, then the loop, then *)
(* its end, after which it may be started again, while others want its     *)
(* path.                                                                   *)
(***************************************************************************)
EXTENDS ServerLoop

CONSTANTS
  Servers,   \* as in ServerBind
  us         \* the process whose loop this is

VARIABLES path, at, raced

Bind == INSTANCE ServerBind

bind == <<path, at, raced>>

ServerInit == Init /\ Bind!BindInit

\* bind has returned the listening socket.
StartsListening == Start(TRUE) /\ Bind!Listen(us)

\* The path is no matter of a detached server: one starts before any bind.
StartsDetached == Start(FALSE) /\ Bind!BindInit /\ UNCHANGED bind

Dies ==
  /\ Crash
  /\ IF Listener \in regs THEN Bind!Stop(us) ELSE UNCHANGED bind

\* A client finds the server by its path.
Finds(c) == path = us /\ Connect(c) /\ UNCHANGED bind

\* This process inside bind.
Binds ==
  /\ pc = "down" /\ UNCHANGED vars
  /\ \/ Bind!Begin(us)
     \/ Bind!CheckExists(us) \/ Bind!TryConnect(us) \/ Bind!RemoveFile(us)
     \/ Bind!BindPath(us)
     \/ Bind!Stop(us)

\* Another process, at any time.
OnPath(s) ==
  /\ UNCHANGED vars
  /\ Bind!Begin(s) \/ Bind!BindStep(s) \/ Bind!Stop(s)

ServerNext ==
  \/ StartsListening \/ StartsDetached \/ Dies
  \/ \E c \in Conns : Finds(c)
  \/ Binds
  \/ \E s \in Servers \ {us} : OnPath(s)
  \/ /\ UNCHANGED bind
     /\ \/ Serve \/ Application
        \/ \E c \in Conns : HangUp(c) \/ \E kind \in Kinds : Send(c, kind)

ServerSpec == ServerInit /\ [][ServerNext]_<<vars, bind>>

-----------------------------------------------------------------------------
(* Properties. *)

KeepsItsPath == Bind!KeepsItsPath
OnlyLiveServersRefuse == Bind!OnlyLiveServersRefuse
=============================================================================

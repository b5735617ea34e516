----------------------------- MODULE ServerBind -----------------------------
(***************************************************************************)
(* How servers come by a socket path.  bind looks whether the path exists, *)
(* tries to connect to it, removes it when nobody answers, and only then   *)
(* binds: five steps on a file system that other servers use as well.      *)
(***************************************************************************)
EXTENDS Naturals

CONSTANTS
  Servers    \* processes that bind the same path

VARIABLES
  path,      \* "nothing"; the server whose socket is there; or "refuses",
             \* what has nobody to answer: a dead server's socket, a file
  at,        \* where each server is: "down", inside bind, "up", or where
             \* an error of bind has left it
  raced      \* history: servers that were inside bind together with another
             \* when they last bound

bindVars == <<path, at, raced>>

Errors == {"NotFound", "AddrInUse"}
Inside == {"exists", "connect", "remove", "bind", "listen"}

Goto(s, place) == at' = [at EXCEPT ![s] = place]

-----------------------------------------------------------------------------
Begin(s) ==
  /\ at[s] \in {"down"} \cup Errors
  /\ Goto(s, "exists")
  /\ LET others == {t \in Servers : at[t] \in Inside}
     IN raced' = IF others = {} THEN raced \ {s} ELSE raced \cup others \cup {s}
  /\ UNCHANGED path

CheckExists(s) ==
  /\ at[s] = "exists"
  /\ Goto(s, IF path = "nothing" THEN "bind" ELSE "connect")
  /\ UNCHANGED <<path, raced>>

\* [Mutated form] A path that is there is removed unasked.
TryConnectNever(s) ==
  /\ at[s] = "connect"
  /\ Goto(s, "remove")
  /\ UNCHANGED <<path, raced>>

(* A server that listens answers, and the address is in use.  A socket     *)
(* that is bound and does not listen yet refuses, like a dead one.  A path *)
(* that has gone meanwhile is an error.                                    *)
TryConnect(s) ==
  /\ at[s] = "connect"
  /\ Goto(s, CASE path = "nothing" -> "NotFound"
                [] path \in Servers /\ at[path] = "up" -> "AddrInUse"
                [] OTHER -> "remove")
  /\ UNCHANGED <<path, raced>>

\* [Mutated form] What refused is left where it is.
RemoveFileForgotten(s) ==
  /\ at[s] = "remove"
  /\ Goto(s, "bind")
  /\ UNCHANGED <<path, raced>>

\* Whatever is at the path by now.
RemoveFile(s) ==
  /\ at[s] = "remove"
  /\ Goto(s, IF path = "nothing" THEN "NotFound" ELSE "bind")
  /\ path' = "nothing" /\ UNCHANGED raced

BindPath(s) ==
  /\ at[s] = "bind"
  /\ Goto(s, IF path = "nothing" THEN "listen" ELSE "AddrInUse")
  /\ path' = IF path = "nothing" THEN s ELSE path
  /\ UNCHANGED raced

Listen(s) ==
  /\ at[s] = "listen"
  /\ Goto(s, "up")
  /\ UNCHANGED <<path, raced>>

\* A server goes, wherever it is, and nothing removes its socket.
Stop(s) ==
  /\ at[s] \in Inside \cup {"up"}
  /\ Goto(s, "down")
  /\ path' = IF path = s THEN "refuses" ELSE path
  /\ UNCHANGED raced

-----------------------------------------------------------------------------
BindInit ==
  /\ path \in {"nothing", "refuses"}
  /\ at = [s \in Servers |-> "down"]
  /\ raced = {}

BindStep(s) ==
  CheckExists(s) \/ TryConnect(s) \/ RemoveFile(s) \/ BindPath(s) \/ Listen(s)

BindNext == \E s \in Servers : Begin(s) \/ BindStep(s) \/ Stop(s)

BindSpec == BindInit /\ [][BindNext]_bindVars

-----------------------------------------------------------------------------
(* Properties. *)

\* The type of the state.
BindTypeOK ==
  /\ path \in {"nothing", "refuses"} \cup Servers
  /\ at \in [Servers -> {"down", "up"} \cup Inside \cup Errors]
  /\ raced \subseteq Servers

(* A server that has bound the path is what clients find there: nobody     *)
(* has removed its socket or put another in its place, whatever other      *)
(* servers do to each other.  Of servers inside bind together this is not  *)
(* so: one that is bound and does not listen yet refuses the other, which  *)
(* removes its socket.                                                     *)
KeepsItsPath ==
  \A s \in Servers \ raced : at[s] \in {"listen", "up"} => path = s

(* The documentation of bind: it fails when "an existing live server is    *)
(* already listening on the requested path".  For a server that has bind   *)
(* to itself that is the only reason: a path left by a server that died    *)
(* does not keep it from starting.                                         *)
OnlyLiveServersRefuse ==
  [][\A s \in Servers \ raced :
       at[s] \in Inside /\ at'[s] \in Errors =>
         \E t \in Servers \ {s} : at[t] = "up"]_bindVars
=============================================================================

------------------------------ MODULE MCServer ------------------------------
(* Server for TLC, in two worlds: in one the others leave the path alone   *)
(* and no bind is cut short, in the other the loop only starts and dies.   *)
EXTENDS Server, TLC

VARIABLE world

mcVars == <<vars, bind, world>>

\* One message of a peer that is not of this library will do.
MCSends == [c \in Conns |-> IF c \in Rude THEN 1 ELSE 2]

MCInit ==
  /\ ServerInit
  /\ \/ world = "loop" /\ path = "nothing"
     \/ world = "path"

LoopStep ==
  /\ world = "loop" /\ UNCHANGED world
  /\ ServerNext
  /\ \A s \in Servers \ {us} : at'[s] = at[s]
  /\ pc = "down" /\ pc' = "down" => at'[us] # "down"

PathStep ==
  /\ world = "path" /\ UNCHANGED world
  /\ StartsListening \/ Dies \/ Binds \/ \E s \in Servers \ {us} : OnPath(s)

MCNext == LoopStep \/ PathStep

(* A process that is up runs, and its application dispatches for ever, as  *)
(* the servers of the examples do.                                         *)
Still == world = "loop" /\ UNCHANGED <<bind, world>>

MCSpec ==
  /\ MCInit /\ [][MCNext]_mcVars
  /\ WF_mcVars(Still /\ Serve)
  /\ WF_mcVars(Still /\ \E b \in BOOLEAN : DispatchEvents(b))
=============================================================================

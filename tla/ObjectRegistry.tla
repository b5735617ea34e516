--------------------------- MODULE ObjectRegistry ---------------------------
(***************************************************************************)
(* What a hyprwire connection promises about objects, with no messages and *)
(* no queues.  The client asks for objects, which it numbers 1, 2, ...;    *)
(* the server makes each at most once and numbers what it makes; the       *)
(* client releases an object only after it was made, and only then may the *)
(* server end it; a released object is never used again.                   *)
(***************************************************************************)
EXTENDS Naturals, Sequences, Functions

CONSTANT MaxSeq     \* bound: objects the client asks for

VARIABLES asked,    \* the number of objects asked for
          made,     \* for each object made, in order, the number it was asked by
          released, \* the objects the client has released
          live,     \* the made objects, by their place in made, not ended
          open      \* the server still serves the connection

rvars == <<asked, made, released, live, open>>

Init == asked = 0 /\ made = <<>> /\ released = {} /\ live = {} /\ open = TRUE

Ask ==
  /\ asked < MaxSeq
  /\ asked' = asked + 1
  /\ UNCHANGED <<made, released, live, open>>

\* The server makes an object the client asked for.
Make(s) ==
  /\ open
  /\ s \in 1..asked /\ s \notin Range(made)
  /\ made' = Append(made, s)
  /\ live' = live \cup {Len(made')}
  /\ UNCHANGED <<asked, released, open>>

Release(s) ==
  /\ s \in Range(made) \ released
  /\ released' = released \cup {s}
  /\ UNCHANGED <<asked, made, live, open>>

\* The server ends an object the client has released.
End(o) ==
  /\ made[o] \in released
  /\ live' = live \ {o}
  /\ UNCHANGED <<asked, made, released, open>>

\* The connection fails: every object is ended.
Close ==
  /\ open /\ open' = FALSE
  /\ live' = {}
  /\ UNCHANGED <<asked, made, released>>

Next ==
  \/ Ask \/ Close
  \/ \E s \in 1..MaxSeq : Make(s) \/ Release(s)
  \/ \E o \in live : End(o)

Spec == Init /\ [][Next]_rvars
=============================================================================

---------------------------- MODULE MCEventQueues ----------------------------
(* EventQueues for TLC: two queues, and two modes of their calls.          *)
EXTENDS EventQueues

CONSTANTS a, b

TwoQueues == {a, b}

VARIABLE mode \* "apart" or "threads"; it does not change

mcVars == <<mode, vars>>

MCInit == Init /\ mode \in {"apart", "threads"}

OneTrip == \A q \in Queues : last'[q] <= 1

\* No call begins while another is under way. There is an event or a queue's
\* second roundtrip, not both.
ApartNext ==
  /\ mode = "apart" /\ UNCHANGED mode
  /\ Next
  /\ ~overlapped'
  /\ events' = 0 \/ OneTrip

\* Each queue has a thread of its own; one roundtrip of each, no event, and
\* the server stays up.
ThreadsNext ==
  /\ mode = "threads" /\ UNCHANGED mode
  /\ Next
  /\ sState' = "up" /\ events' = 0 /\ OneTrip

MCNext == ApartNext \/ ThreadsNext

\* The fairness of FairSpec.
MCSpec ==
  /\ MCInit /\ [][MCNext]_mcVars
  /\ \A q \in Queues : WF_mcVars(GoesOn(q) /\ UNCHANGED mode)
  /\ WF_mcVars(ServerDispatch /\ UNCHANGED mode)
=============================================================================

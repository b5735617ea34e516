---------------------------- MODULE MCConnection ----------------------------
(* Connection, model-checked on the small instances the .cfg files give.   *)
EXTENDS Connection

(* A state constraint: either all the objects and errors the bounds allow,
   without calls and roundtrips, or all the calls and roundtrips, on two
   objects and without errors. Both in full would not fit into one run.    *)
Corner ==
  \/ cCalls = 0 /\ cSent = 0
  \/ cSeq <= 2 /\ sSpent["error"] = 0
=============================================================================

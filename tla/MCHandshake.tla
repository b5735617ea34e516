---------------------------- MODULE MCHandshake ----------------------------
(* Handshake, model-checked on the small instances the .cfg files give.    *)
EXTENDS Handshake
=============================================================================

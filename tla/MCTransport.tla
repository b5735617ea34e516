----------------------------- MODULE MCTransport -----------------------------
(* Transport for TLC: how many messages each end sends. *)
EXTENDS Transport, TLC

TwoEach == ("client" :> 2) @@ ("server" :> 2)
ServerOne == ("client" :> 0) @@ ("server" :> 1)
=============================================================================

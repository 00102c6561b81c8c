---------------------------- MODULE MCClientCalls ----------------------------
(* Every method of the client, and batches of up to MaxItems items. *)
EXTENDS ClientCalls

=============================================================================

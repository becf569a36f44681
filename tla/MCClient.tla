------------------------------ MODULE MCClient ------------------------------
(***************************************************************************)
(* What the application does in TLC's runs of the client: how often it     *)
(* calls each operation, and which calls it makes from its callback.       *)
(***************************************************************************)
EXTENDS ClientInvariant

ConnectTwice == [connect |-> 2, send |-> 0, close |-> 0, destroy |-> 0]
ConnectSend == [connect |-> 1, send |-> 1, close |-> 0, destroy |-> 0]
ConnectClose == [connect |-> 1, send |-> 0, close |-> 1, destroy |-> 0]
ReconnectDestroy == [connect |-> 2, send |-> 0, close |-> 0, destroy |-> 1]

Echo == {<<"open", "send">>, <<"message", "send">>}

=============================================================================

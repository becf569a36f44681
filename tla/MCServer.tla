------------------------------ MODULE MCServer ------------------------------
(***************************************************************************)
(* What the application does in TLC's runs of the server: how often it     *)
(* calls each operation, and which calls it makes from its callback.       *)
(***************************************************************************)
EXTENDS ServerInvariant

NoCalls == [op \in Calls |-> 0]
StartStop == [NoCalls EXCEPT !["start"] = 1, !["stop"] = 1]
StartOnly == [NoCalls EXCEPT !["start"] = 1]
StartSend == [NoCalls EXCEPT !["start"] = 1, !["send"] = 1]
StartSendClose == [StartSend EXCEPT !["close"] = 1]

Silent == {}
Reply == {<<"close", "send">>}
Echo == {<<"message", "send">>, <<"message", "close">>}

=============================================================================

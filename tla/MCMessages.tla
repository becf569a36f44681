----------------------------- MODULE MCMessages -----------------------------
(***************************************************************************)
(* What the applications send in TLC's runs of the data path.              *)
(***************************************************************************)
EXTENDS MessagesProperties

\* The overloads that send what they are given, and as the same kind.
Faithful ==
    [native |-> {"buffer", "string"}, browser |-> {"buffer", "bytes"}, server |-> {"buffer"}]

\* The client fills the buffer on its own thread, the server in its callback.
OneUser == [client |-> {"app"}, server |-> {"loop"}]

=============================================================================

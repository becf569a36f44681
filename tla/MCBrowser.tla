----------------------------- MODULE MCBrowser -----------------------------
(***************************************************************************)
(* What the application does in TLC's runs of the browser's client.        *)
(***************************************************************************)
EXTENDS BrowserProperties

ThreeConnects == [connect |-> 3, close |-> 2, send |-> 1]

\* It connects again, and closes, from its callback.
Reconnects ==
    { <<"closing", "connect">>, <<"error", "connect">>, <<"close", "connect">>,
      <<"connecting", "close">>, <<"connecting", "send">>, <<"message", "close">> }

=============================================================================

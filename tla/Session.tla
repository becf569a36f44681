------------------------------ MODULE Session ------------------------------
(***************************************************************************)
(* What an application may see of its clients, whatever carries them: a    *)
(* connection is asked for, opens once, brings messages while it is open,  *)
(* fails or closes, and after a stop or a new start nothing of the one     *)
(* before is heard.  Each client is on its own.                            *)
(***************************************************************************)
CONSTANT Clients

VARIABLES
    phase, \* phase[c]: the state of the connection of c
    heard  \* heard[c]: the last event of it the application was given

vars == <<phase, heard>>

Becomes(c, state, event) ==
    /\ phase' = [phase EXCEPT ![c] = state]
    /\ heard' = [heard EXCEPT ![c] = event]

Init ==
    /\ phase = [c \in Clients |-> "idle"]
    /\ heard = [c \in Clients |-> "nothing"]

\* A start replaces what was there; the carrier may refuse.
Start(c) == \E state \in {"connecting", "idle"} : Becomes(c, state, "nothing")

Stop(c) == Becomes(c, "idle", "nothing")

Open(c) ==
    /\ phase[c] = "connecting" /\ heard[c] = "nothing"
    /\ Becomes(c, "open", "open")

Message(c) ==
    /\ phase[c] = "open" /\ heard[c] \in {"open", "message"}
    /\ Becomes(c, "open", "message")

\* The closing handshake begins; the application is not told.
Closing(c) ==
    /\ phase[c] = "open"
    /\ Becomes(c, "closing", heard[c])

\* An error ends the connection, before it was open or after.
Fail(c) ==
    /\ phase[c] \in {"connecting", "open", "closing"}
    /\ heard[c] \notin {"error", "close"}
    /\ Becomes(c, "closed", "error")

\* The close event comes last, and once.
Close(c) ==
    /\ \/ phase[c] \in {"open", "closing"} /\ heard[c] \in {"open", "message"}
       \/ phase[c] = "closed" /\ heard[c] = "error"
    /\ Becomes(c, "closed", "close")

Next ==
    \E c \in Clients :
        Start(c) \/ Stop(c) \/ Open(c) \/ Message(c) \/ Closing(c) \/ Fail(c) \/ Close(c)

Spec == Init /\ [][Next]_vars

=============================================================================

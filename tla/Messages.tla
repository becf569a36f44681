------------------------------ MODULE Messages ------------------------------
(***************************************************************************)
(* What the application's data goes through: the overloads of send() and   *)
(* the output buffer of a DWebSocket, the connection, and the handlers of  *)
(* the other side, which fill its input buffer and call its application.   *)
(* The client is native or runs in the browser; the server is native.      *)
(* The bytes an application gives to one side are numbered, those of the   *)
(* output buffer and the others apart: a payload is an interval of them.   *)
(***************************************************************************)
EXTENDS Integers, Sequences

CONSTANTS
    Platforms,   \* what the client may be
    Overloads,   \* the overloads of send() used, by platform of the sender
    Chunks,      \* the lengths that are pushed to an output buffer
    Sizes,       \* the lengths that are sent without it
    MaxSize,     \* the application sends no more bytes at once
    BufferUsers, \* BufferUsers[s]: the threads of s that use its output buffer
    Budget,      \* bound: the calls of both sides
    Connections  \* bound: the connections, one after the other

Sides == {"client", "server"}
Threads == {"app", "loop"}
Direct == {"string", "vector", "chars", "bytes"}

ASSUME MessagesAssumption ==
    /\ Platforms \subseteq {"native", "browser"}
    /\ Overloads \in [{"native", "browser", "server"} -> SUBSET (Direct \cup {"buffer"})]
    /\ Chunks \subseteq Nat /\ Sizes \subseteq Nat \ {0}
    /\ MaxSize \in Nat
    /\ BufferUsers \in [Sides -> SUBSET Threads]
    /\ Budget \in Nat /\ Connections \in Nat

VARIABLES
    platform, \* of the client
    state,    \* state[s]: the ready state
    pc,       \* pc[s][t]: where the thread is
    job,      \* job[s][t]: what it is sending: meant, and given to the socket
    out,      \* out[s]: the interval in the output buffer
    given,    \* given[s]: the bytes sent without it
    wire,     \* wire[s]: the messages of s its peer has not read
    sent,     \* sent[s]: those of this connection whose send returns true
    got,      \* got[s]: what the handlers of s gave to its application
    seen,     \* seen[s]: the last byte of s's buffer the peer's was given
    left      \* calls and connections that may still be made

vars == <<platform, state, pc, job, out, given, wire, sent, got, seen, left>>

Peer(s) == IF s = "client" THEN "server" ELSE "client"
Browser(s) == s = "client" /\ platform = "browser"
Allowed(s) == Overloads[IF s = "server" THEN s ELSE platform]

\* The thread is in the application's code: its own, or its callback.
Free(t) == IF t = "loop" THEN "callback" ELSE "idle"

\* The browser has one thread, which runs each turn to its end.
Runs(s, t) ==
    /\ pc[s][t] = Free(t)
    /\ Browser(s) /\ t = "app" => pc[s]["loop"] = "idle"

Goes(s, t, label) == pc' = [pc EXCEPT ![s][t] = label]

Done(s, t) == job' = [job EXCEPT ![s][t] = <<>>]

Spend(what) == left[what] > 0 /\ left' = [left EXCEPT ![what] = @ - 1]

-----------------------------------------------------------------------------
(* Sending.                                                                *)

Push(s, t, n) ==
    /\ Runs(s, t)
    /\ t \in BufferUsers[s]
    /\ out[s].len + n <= MaxSize
    /\ Spend("calls")
    /\ out' = [out EXCEPT ![s].len = @ + n]
    /\ UNCHANGED <<platform, state, pc, job, given, wire, sent, got, seen>>

Meant(s, o, n) ==
    IF o = "buffer"
    THEN [buffer |-> TRUE, first |-> out[s].first, len |-> out[s].len, text |-> FALSE]
    ELSE [buffer |-> FALSE, first |-> given[s] + 1, len |-> n, text |-> o = "string"]

\* Mutant: every native overload leaves out the last byte.
ShortPayload(o, m) == IF m.len > 0 THEN [m EXCEPT !.len = @ - 1] ELSE m

\* The native bytes overload copies up to the last byte, which it leaves out;
\* only the string overload of the native side sends text.
NativePayload(o, m) == IF o = "bytes" THEN [m EXCEPT !.len = @ - 1] ELSE m

\* size() of the output buffer has 8 bits; every overload sends binary data.
BrowserPayload(o, m) ==
    [m EXCEPT !.len = IF o = "buffer" THEN @ % 256 ELSE @, !.text = FALSE]

\* What a call uses up: bytes of the application that are not in the buffer.
Gives(s, o, n) == given' = IF o = "buffer" THEN given ELSE [given EXCEPT ![s] = @ + n]

Cleared(s) == [out EXCEPT ![s] = [first |-> out[s].first + out[s].len, len |-> 0]]

\* send(), up to the check of WebSocket::sendMessage; DWebSocket has seen that
\* the socket is not open, and gone on.
Send(s, t, o, n) ==
    /\ ~Browser(s)
    /\ Runs(s, t)
    /\ o \in Allowed(s)
    /\ IF o = "buffer" THEN t \in BufferUsers[s] ELSE n <= MaxSize
    /\ Spend("calls")
    /\ Gives(s, o, n)
    /\ IF state[s] = "open"
       THEN /\ Goes(s, t, "append")
            /\ job' = [job EXCEPT ![s][t] =
                          [meant |-> Meant(s, o, n), sends |-> NativePayload(o, Meant(s, o, n))]]
       ELSE UNCHANGED <<pc, job>>
    /\ UNCHANGED <<platform, state, out, wire, sent, got, seen>>

\* sendData takes it while the socket is open or closing, and fails otherwise.
AppendFrame(s, t) ==
    /\ pc[s][t] = "append"
    /\ IF state[s] = "closed"
       THEN Goes(s, t, Free(t)) /\ UNCHANGED <<wire, sent>>
       ELSE /\ wire' = [wire EXCEPT ![s] = Append(@, job[s][t].sends)]
            /\ sent' = [sent EXCEPT ![s] = Append(@, job[s][t].meant)]
            /\ Goes(s, t, IF job[s][t].meant.buffer THEN "clear" ELSE Free(t))
    /\ Done(s, t)
    /\ UNCHANGED <<platform, state, out, given, got, seen, left>>

\* Mutant: the write is tried again.
AppendRetries(s, t) ==
    /\ pc[s][t] = "append"
    /\ state' = [state EXCEPT ![s] = "closed"]
    /\ Done(s, t)
    /\ UNCHANGED <<platform, pc, out, given, wire, sent, got, seen, left>>

\* The write fails: the socket is closed, and the peer has no whole frame.
AppendFails(s, t) ==
    /\ pc[s][t] = "append"
    /\ state' = [state EXCEPT ![s] = "closed"]
    /\ Goes(s, t, Free(t))
    /\ Done(s, t)
    /\ UNCHANGED <<platform, out, given, wire, sent, got, seen, left>>

\* Mutant: the buffer is not cleared on success.
ClearForgotten(s, t) ==
    /\ pc[s][t] = "clear"
    /\ Goes(s, t, Free(t))
    /\ UNCHANGED <<platform, state, job, out, given, wire, sent, got, seen, left>>

\* The output buffer is cleared on success.
Clear(s, t) ==
    /\ pc[s][t] = "clear"
    /\ out' = Cleared(s)
    /\ Goes(s, t, Free(t))
    /\ UNCHANGED <<platform, state, job, given, wire, sent, got, seen, left>>

\* The browser throws while it connects; a socket that is closing or closed
\* takes the data for nothing, and one that was deleted does not.
BrowserSend(t, o, n) == LET s == "client" IN
    /\ Browser(s)
    /\ Runs(s, t)
    /\ o \in Allowed(s)
    /\ IF o = "buffer" THEN t \in BufferUsers[s] ELSE n <= MaxSize
    /\ Spend("calls")
    /\ Gives(s, o, n)
    /\ \/ /\ state[s] # "connecting"
          /\ out' = IF o = "buffer" THEN Cleared(s) ELSE out
          /\ sent' = [sent EXCEPT ![s] = Append(@, Meant(s, o, n))]
          /\ wire' = IF state[s] = "open"
                     THEN [wire EXCEPT ![s] = Append(@, BrowserPayload(o, Meant(s, o, n)))]
                     ELSE wire
       \/ state[s] \in {"connecting", "closed"} /\ UNCHANGED <<out, sent, wire>>
    /\ UNCHANGED <<platform, state, pc, job, got, seen>>

-----------------------------------------------------------------------------
(* Receiving: DWebSocket::OnMessage, WebSocketMessage of the browser, and  *)
(* DWebSocketServer::OnMessage.                                            *)

\* A text the browser gives has a byte 0 at its end.
Arrives(s, m) == IF Browser(s) /\ m.text THEN m.len + 1 ELSE m.len

\* setBuffer: the length has 16 bits ...
Set(n) == n % 65536

\* Mutant: the index is compared with one less.
SetEndsEarly(n) == Set(n) <= 254

\* ... and the index of its loop has 8.
SetEnds(n) == Set(n) <= 255

Listens(s) == IF Browser(s) THEN {"open"} ELSE {"open", "closing"}

Take(s) == LET m == Head(wire[Peer(s)]) IN
    /\ pc[s]["loop"] = "idle"
    /\ state[s] \in Listens(s)
    /\ wire[Peer(s)] # <<>>
    /\ wire' = [wire EXCEPT ![Peer(s)] = Tail(@)]
    /\ IF SetEnds(Arrives(s, m))
       THEN /\ got' = [got EXCEPT ![s] = Append(@, [m EXCEPT !.len = Set(Arrives(s, m))])]
            /\ seen' = IF m.buffer THEN [seen EXCEPT ![Peer(s)] = m.first + m.len - 1] ELSE seen
            /\ Goes(s, "loop", "callback")
       ELSE Goes(s, "loop", "stuck") /\ UNCHANGED <<got, seen>>
    /\ UNCHANGED <<platform, state, job, out, given, sent, left>>

Return(s) ==
    /\ pc[s]["loop"] = "callback"
    /\ Goes(s, "loop", "idle")
    /\ UNCHANGED <<platform, state, job, out, given, wire, sent, got, seen, left>>

-----------------------------------------------------------------------------
(* The connection.                                                         *)

Rests == \A s \in Sides : pc[s] = [t \in Threads |-> "idle"]

\* A new one, when both sides have ended the last: the client keeps its
\* buffer, and the server makes an endpoint.
Start ==
    /\ state = [s \in Sides |-> "closed"]
    /\ Rests
    /\ Spend("connections")
    /\ state' = [s \in Sides |-> "connecting"]
    /\ out' = Cleared("server")
    /\ wire' = [s \in Sides |-> <<>>]
    /\ sent' = [s \in Sides |-> <<>>]
    /\ got' = [s \in Sides |-> <<>>]
    /\ UNCHANGED <<platform, pc, job, given, seen>>

\* The callback of the event may send.
Open(s) ==
    /\ state[s] = "connecting"
    /\ pc[s]["loop"] = "idle"
    /\ state' = [state EXCEPT ![s] = "open"]
    /\ Goes(s, "loop", "callback")
    /\ UNCHANGED <<platform, job, out, given, wire, sent, got, seen, left>>

Closing(s) ==
    /\ state[s] = "open"
    /\ state' = [state EXCEPT ![s] = "closing"]
    /\ UNCHANGED <<platform, pc, job, out, given, wire, sent, got, seen, left>>

Closed(s) ==
    /\ state[s] # "closed"
    /\ state' = [state EXCEPT ![s] = "closed"]
    /\ UNCHANGED <<platform, pc, job, out, given, wire, sent, got, seen, left>>

-----------------------------------------------------------------------------

Init ==
    /\ platform \in Platforms
    /\ state = [s \in Sides |-> "closed"]
    /\ pc = [s \in Sides |-> [t \in Threads |-> "idle"]]
    /\ job = [s \in Sides |-> [t \in Threads |-> <<>>]]
    /\ out = [s \in Sides |-> [first |-> 1, len |-> 0]]
    /\ given = [s \in Sides |-> 0]
    /\ wire = [s \in Sides |-> <<>>]
    /\ sent = [s \in Sides |-> <<>>]
    /\ got = [s \in Sides |-> <<>>]
    /\ seen = [s \in Sides |-> 0]
    /\ left = [calls |-> Budget, connections |-> Connections]

Application(s) ==
    \E t \in Threads :
        \/ \E n \in Chunks : Push(s, t, n)
        \/ \E o \in Direct, n \in Sizes : Send(s, t, o, n)
        \/ Send(s, t, "buffer", 0)

BrowserApplication ==
    \E t \in Threads :
        \/ \E o \in Direct, n \in Sizes : BrowserSend(t, o, n)
        \/ BrowserSend(t, "buffer", 0)

Sending(s) == \E t \in Threads : AppendFrame(s, t) \/ AppendFails(s, t) \/ Clear(s, t)

Network == Start \/ \E s \in Sides : Open(s) \/ Closing(s) \/ Closed(s)

\* Everyone may wait for the network, for ever.
Idle == (\A s \in Sides : pc[s]["loop"] \in {"idle", "stuck"}) /\ UNCHANGED vars

Next ==
    \/ \E s \in Sides : Application(s) \/ Sending(s) \/ Take(s) \/ Return(s)
    \/ BrowserApplication
    \/ Network
    \/ Idle

Spec == Init /\ [][Next]_vars

\* The threads of both sides run, and callbacks return; a handshake, opening
\* or closing, ends or times out.
FairSpec ==
    /\ Spec
    /\ \A s \in Sides :
          /\ WF_vars(Take(s)) /\ WF_vars(Return(s)) /\ WF_vars(Sending(s))
          /\ WF_vars(state[s] \in {"connecting", "closing"} /\ (Open(s) \/ Closed(s)))

=============================================================================

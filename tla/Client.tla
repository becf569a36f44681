------------------------------- MODULE Client -------------------------------
(***************************************************************************)
(* DWebSocketClient over DWebSocket over one ix::WebSocket: the application *)
(* thread connects, sends and closes while the connection's own thread     *)
(* handshakes, polls and calls back.                                       *)
(***************************************************************************)
EXTENDS WebSocket

CONSTANTS
    Budget,       \* bound: how many times the application calls each operation
    CallbackCalls \* the pairs <<event, operation>> its callback may make

Calls == {"connect", "send", "close", "destroy"}

\* The events DWebSocket forwards, and those of the client itself.
ClientEvents == {"open", "message", "error", "close", "closing", "connecting"}

ASSUME ClientAssumption ==
    /\ Budget \in [Calls -> Nat]
    /\ CallbackCalls \subseteq ClientEvents \X (Calls \ {"destroy"})

VARIABLES
    made,  \* made[c]: DWebSocket::ixWebsocket is not null
    calls  \* calls[op]: how many calls the application can still make

vars == <<ws, net, stk, log, made, calls>>

Entry(op) == CASE op = "connect" -> "clientConnect"
               [] op = "close"   -> "clientClose"
               [] op = "send"    -> "send"
               [] op = "destroy" -> "clientDestroy"

\* The destructor has not been called.
Alive == calls["destroy"] = Budget["destroy"]

-----------------------------------------------------------------------------
(* The application calls from a thread of its own, or from the callback.   *)
(* It does not send before it has connected or while the websocket is      *)
(* replaced: ixWebsocket would be null.  It destroys the client once, with *)
(* no other call under way.                                                *)

AppCall(t, c, op) ==
    /\ stk[t] = <<>>
    /\ calls[op] > 0
    /\ Alive
    /\ op = "send" => made[c]
    /\ op = "destroy" => \A u \in Apps : stk[u] = <<>>
    /\ calls' = [calls EXCEPT ![op] = @ - 1]
    /\ stk' = [stk EXCEPT ![t] = <<Frame(Entry(op), c, "data")>>]
    /\ UNCHANGED <<ws, net, log, made>>

Callback(t) ==
    /\ At(t, "callback")
    /\ \/ Return(t) /\ UNCHANGED calls
       \/ \E op \in Calls :
             /\ <<Top(t).arg, op>> \in CallbackCalls
             /\ calls[op] > 0
             /\ IF op = "send" THEN made[Top(t).c] ELSE Alive
             /\ calls' = [calls EXCEPT ![op] = @ - 1]
             /\ JumpWith(t, Entry(op), "data")
    /\ UNCHANGED <<ws, net, log, made>>

-----------------------------------------------------------------------------
(* DWebSocketClient                                                        *)

\* close() stops the socket only if it is open.
ClientClose(t) ==
    /\ At(t, "clientClose")
    /\ IF ws[Top(t).c].st = "OPEN"
       THEN Emit(t, "clientStop", "closing")
       ELSE Jump(t, "clientClosed") /\ UNCHANGED log
    /\ UNCHANGED <<ws, net, made, calls>>

ClientStop(t) ==
    /\ At(t, "clientStop")
    /\ Call(t, "clientClosed", "wsStop", "")
    /\ UNCHANGED <<ws, net, log, made, calls>>

ClientClosed(t) ==
    /\ At(t, "clientClosed")
    /\ Return(t)
    /\ UNCHANGED <<ws, net, log, made, calls>>

ClientConnect(t) ==
    /\ At(t, "clientConnect")
    /\ Emit(t, "clientRestart", "connecting")
    /\ UNCHANGED <<ws, net, made, calls>>

ClientRestart(t) ==
    /\ At(t, "clientRestart")
    /\ IF ws[Top(t).c].st = "OPEN" THEN Call(t, "wsStart", "wsStop", "")
                                   ELSE Jump(t, "wsStart")
    /\ UNCHANGED <<ws, net, log, made, calls>>

\* The destructor closes first.
ClientDestroy(t) ==
    /\ At(t, "clientDestroy")
    /\ Call(t, "clientReset", "clientClose", "")
    /\ UNCHANGED <<ws, net, log, made, calls>>

\* webSocket.reset(): the destructor of DWebSocket stops.
ClientReset(t) ==
    /\ At(t, "clientReset")
    /\ made' = [made EXCEPT ![Top(t).c] = FALSE]
    /\ IF made[Top(t).c] THEN Call(t, "wsRelease", "wsStop", "") ELSE Jump(t, "destroyed")
    /\ UNCHANGED <<ws, net, log, calls>>

Destroyed(t) ==
    /\ At(t, "destroyed")
    /\ Return(t)
    /\ UNCHANGED <<ws, net, log, made, calls>>

-----------------------------------------------------------------------------
(* DWebSocket                                                              *)

\* Mutant: the websocket is dropped without being stopped.
WsReleaseOnly(t) ==
    /\ At(t, "wsRelease")
    /\ Jump(t, "destroyed")
    /\ UNCHANGED <<ws, net, log, made, calls>>

\* The last reference to ixWebsocket goes: ix::WebSocket is stopped, in
\* whatever state it is.
WsRelease(t) ==
    /\ At(t, "wsRelease")
    /\ Call(t, "destroyed", "stop", "")
    /\ UNCHANGED <<ws, net, log, made, calls>>

WsStop(t) ==
    /\ At(t, "wsStop")
    /\ IF ws[Top(t).c].st = "OPEN" THEN Jump(t, "stop") ELSE Return(t)
    /\ UNCHANGED <<ws, net, log, made, calls>>

WsStart(t) ==
    /\ At(t, "wsStart")
    /\ IF ws[Top(t).c].st = "OPEN" THEN Call(t, "wsReset", "stop", "")
                                   ELSE Jump(t, "wsReset")
    /\ UNCHANGED <<ws, net, log, made, calls>>

\* ixWebsocket.reset(): null at once, then the destructor of ix::WebSocket
\* stops it.
WsReset(t) ==
    /\ At(t, "wsReset")
    /\ made' = [made EXCEPT ![Top(t).c] = FALSE]
    /\ IF made[Top(t).c] THEN Call(t, "wsNew", "stop", "") ELSE Jump(t, "wsNew")
    /\ UNCHANGED <<ws, net, log, calls>>

\* A new ix::WebSocket, which is closed and then started.
WsNew(t) == LET c == Top(t).c IN
    /\ At(t, "wsNew")
    /\ made' = [made EXCEPT ![c] = TRUE]
    /\ ws' = [ws EXCEPT ![c] = Fresh]
    /\ net' = [net EXCEPT ![c] = NoPeer]
    /\ log' = [log EXCEPT ![c] = <<>>]
    /\ Call(t, "start", "close", "")
    /\ UNCHANGED calls

-----------------------------------------------------------------------------

Init ==
    /\ ws = [c \in Conns |-> Fresh]
    /\ net = [c \in Conns |-> NoPeer]
    /\ stk = [t \in Threads |-> <<>>]
    /\ log = [c \in Conns |-> <<>>]
    /\ made = [c \in Conns |-> FALSE]
    /\ calls = Budget

ThreadStep(t) ==
    \/ WebSocketStep(t) /\ UNCHANGED <<made, calls>>
    \/ Callback(t)
    \/ ClientClose(t) \/ ClientStop(t) \/ ClientClosed(t)
    \/ ClientConnect(t) \/ ClientRestart(t)
    \/ ClientDestroy(t) \/ ClientReset(t) \/ Destroyed(t) \/ WsRelease(t)
    \/ WsStop(t) \/ WsStart(t) \/ WsReset(t) \/ WsNew(t)

\* Every call has returned and the connections' threads have ended.
Finished ==
    /\ \A t \in Threads : stk[t] = <<>>
    /\ UNCHANGED vars

Next ==
    \/ \E t \in Apps, c \in Conns, op \in Calls : AppCall(t, c, op)
    \/ \E t \in Threads : ThreadStep(t)
    \/ \E c \in Conns : Environment(c) /\ UNCHANGED <<made, calls>>
    \/ Finished

Spec == Init /\ [][Next]_vars

(***************************************************************************)
(* The threads run, and the closing delay passes.  Nothing is asked of the *)
(* peer or the network, and the ping interval may never pass.  A step that *)
(* spins without changing anything is no progress.                         *)
(***************************************************************************)
FairSpec ==
    /\ Spec
    /\ \A t \in Threads : WF_vars(ThreadStep(t))
    /\ \A c \in Conns : WF_vars(ClosingDelay(c) /\ UNCHANGED <<made, calls>>)

=============================================================================

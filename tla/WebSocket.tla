----------------------------- MODULE WebSocket -----------------------------
(***************************************************************************)
(* ix::WebSocket: the loop a connection's thread runs on top of its        *)
(* transport, the handshake that opens the connection, and start()/stop(). *)
(* Automatic reconnection is off, as DWebSocket and the server turn it off.*)
(***************************************************************************)
EXTENDS Transport

CONSTANT HasUrl \* the object connects by itself: FALSE on the server side

ASSUME WebSocketAssumption == HasUrl \in BOOLEAN

-----------------------------------------------------------------------------
(* checkConnection and connect: the first pass connects, the later ones    *)
(* return at once.                                                         *)

\* Mutant: automatic reconnection is left on.
CheckReconnects(t) == LET c == Top(t).c IN
    /\ At(t, "check")
    /\ IF ws[c].st \in {"OPEN", "CLOSING"} \/ ws[c].stop
       THEN JumpWith(t, "loop", "") /\ UNCHANGED ws
       ELSE /\ JumpWith(t, "connect", "")
            /\ ws' = [ws EXCEPT ![c].first = FALSE]
    /\ UNCHANGED <<net, log>>

Check(t) == LET c == Top(t).c IN
    /\ At(t, "check")
    /\ JumpWith(t, IF ws[c].st \in {"OPEN", "CLOSING"} \/ ws[c].stop \/ ~ws[c].first
                   THEN "loop" ELSE "connect", "")
    /\ ws' = [ws EXCEPT ![c].first = FALSE]
    /\ UNCHANGED <<net, log>>

\* connectToUrl: with _socketMutex held to its end, make a socket.  Without a
\* url there is nothing to connect to.
Connect(t) == LET c == Top(t).c IN
    /\ At(t, "connect")
    /\ ws[c].sk = Nobody
    /\ IF ws[c].stop
       THEN Jump(t, "loop") /\ UNCHANGED <<ws, net, log>>
       ELSE IF HasUrl
       THEN /\ ws' = [ws EXCEPT ![c].sk = t, ![c].fd = "shut", ![c].pipe = <<>>]
            /\ net' = [net EXCEPT ![c] = NoPeer]
            /\ Jump(t, "handshake")
            /\ UNCHANGED log
       ELSE /\ Emit(t, "check", "error")
            /\ UNCHANGED <<ws, net>>

\* clientHandshake forgets a cancellation that came before it.
Handshake(t) == LET c == Top(t).c IN
    /\ At(t, "handshake")
    /\ ws' = [ws EXCEPT ![c].cancel = FALSE]
    /\ Jump(t, "upgrade")
    /\ UNCHANGED <<net, log>>

\* The last check for a cancellation passes ...
Upgrade(t) == LET c == Top(t).c IN
    /\ At(t, "upgrade")
    /\ ~ws[c].cancel
    /\ ws' = [ws EXCEPT ![c].fd = "open"]
    /\ net' = [net EXCEPT ![c].up = TRUE]
    /\ Jump(t, "upgraded")
    /\ UNCHANGED log

\* Mutant: the error is reported before _socketMutex is released.
UpgradeFailsLocked(t) == LET c == Top(t).c IN
    /\ At(t, "upgrade")
    /\ \E s \in {"open", "shut"} : ws' = [ws EXCEPT ![c].fd = s]
    /\ Emit(t, "check", "error")
    /\ UNCHANGED net

\* ... or the handshake fails: refused, timed out or cancelled.
UpgradeFails(t) == LET c == Top(t).c IN
    /\ At(t, "upgrade")
    /\ \E s \in {"open", "shut"} :
          ws' = [ws EXCEPT ![c].fd = s, ![c].sk = Nobody]
    /\ Emit(t, "check", "error")
    /\ UNCHANGED net

\* setReadyState(OPEN), and only then the event.
Upgraded(t) == LET c == Top(t).c IN
    /\ At(t, "upgraded")
    /\ ws' = [ws EXCEPT ![c].st = "OPEN", ![c].sk = Nobody,
                        ![c].pong = FALSE, ![c].pingDue = FALSE]
    /\ Jump(t, "open")
    /\ UNCHANGED <<net, log>>

Open(t) ==
    /\ At(t, "open")
    /\ Emit(t, "opened", "open")
    /\ UNCHANGED <<ws, net>>

\* A heartbeat right away.
Opened(t) == LET c == Top(t).c IN
    /\ At(t, "opened")
    /\ IF Ping
       THEN /\ ws' = [ws EXCEPT ![c].pong = FALSE]
            /\ Call(t, "firstPinged", "send", "ping")
       ELSE /\ Jump(t, "check")
            /\ UNCHANGED ws
    /\ UNCHANGED <<net, log>>

FirstPinged(t) ==
    /\ At(t, "firstPinged")
    /\ ws' = [ws EXCEPT ![Top(t).c].pingDue = FALSE]
    /\ Jump(t, "check")
    /\ UNCHANGED <<net, log>>

-----------------------------------------------------------------------------
(* run()                                                                   *)

\* Mutant: the loop goes on when the connection is closed.
LoopForever(t) ==
    /\ At(t, "loop")
    /\ Jump(t, "loopStop")
    /\ UNCHANGED <<ws, net, log>>

Loop(t) ==
    /\ At(t, "loop")
    /\ IF ws[Top(t).c].st = "CLOSED" THEN Return(t) ELSE Jump(t, "loopStop")
    /\ UNCHANGED <<ws, net, log>>

LoopStop(t) == LET c == Top(t).c IN
    /\ At(t, "loopStop")
    /\ IF ws[c].stop /\ ws[c].st # "CLOSING" THEN Return(t) ELSE Jump(t, "poll")
    /\ UNCHANGED <<ws, net, log>>

-----------------------------------------------------------------------------
(* start() and stop()                                                      *)

Start(t) == LET c == Top(t).c IN
    /\ At(t, "start")
    /\ IF ws[c].joinable
       THEN Return(t) /\ UNCHANGED ws
       ELSE /\ ws' = [ws EXCEPT ![c].joinable = TRUE, ![c].first = TRUE]
            /\ stk' = [stk EXCEPT ![t] = Pop(@), ![c] = <<Frame("check", c, "")>>]
    /\ UNCHANGED <<net, log>>

Stop(t) ==
    /\ At(t, "stop")
    /\ Call(t, "stopThread", "close", "")
    /\ UNCHANGED <<ws, net, log>>

StopThread(t) == LET c == Top(t).c IN
    /\ At(t, "stopThread")
    /\ IF ws[c].joinable
       THEN /\ ws' = [ws EXCEPT ![c].stop = TRUE]
            /\ Jump(t, "join")
       ELSE Jump(t, "stopped") /\ UNCHANGED ws
    /\ UNCHANGED <<net, log>>

\* Mutant: the thread is detached, not joined.
JoinDetaches(t) == LET c == Top(t).c IN
    /\ At(t, "join")
    /\ ws' = [ws EXCEPT ![c].stop = FALSE, ![c].joinable = FALSE]
    /\ Jump(t, "stopped")
    /\ UNCHANGED <<net, log>>

Join(t) == LET c == Top(t).c IN
    /\ At(t, "join")
    /\ stk[c] = <<>>
    /\ ws' = [ws EXCEPT ![c].stop = FALSE, ![c].joinable = FALSE]
    /\ Jump(t, "stopped")
    /\ UNCHANGED <<net, log>>

Stopped(t) ==
    /\ At(t, "stopped")
    /\ Return(t)
    /\ UNCHANGED <<ws, net, log>>

\* A thread's step in a method that runs on a connection.
WebSocketStep(t) ==
    /\ stk[t] # <<>> /\ Top(t).c \in Conns
    /\ \/ TransportStep(t)
       \/ Check(t) \/ Connect(t) \/ Handshake(t) \/ Upgrade(t) \/ UpgradeFails(t)
       \/ Upgraded(t) \/ Open(t) \/ Opened(t) \/ FirstPinged(t)
       \/ Loop(t) \/ LoopStop(t)
       \/ Start(t) \/ Stop(t) \/ StopThread(t) \/ Join(t) \/ Stopped(t)

=============================================================================

------------------------ MODULE TransportProperties ------------------------
(***************************************************************************)
(* The types of the transport's state, and who may be where: what the      *)
(* client and the server have in common.                                   *)
(***************************************************************************)
EXTENDS WebSocket

\* The points of WebSocket::run and of what only it calls ...
LoopLabels ==
    { "check", "connect", "handshake", "upgrade", "upgraded", "open", "opened",
      "firstPinged", "loop", "loopStop", "poll", "pinged", "select", "wait",
      "polled", "dispatch", "ponged", "unordered", "echoed", "switch", "switched" }

\* ... those of the server's code around it ...
ServeLabels ==
    { "serve", "served", "connectToSocket", "serverHandshake", "serverUpgrade",
      "unlist", "terminate", "wakeCollector" }

\* ... and those of the server's methods that run on no connection.
ServerLabels ==
    { "accept", "acceptPoll", "collect", "collectNext", "collectWait",
      "srvStart", "srvStop", "srvClose", "joinAcceptor", "stopCollector",
      "joinCollector", "srvStopped" }

\* What any thread may be in: the transport's methods, start and stop ...
MethodLabels ==
    { "send", "append", "push", "pushFailed", "sent", "flush", "setClosed", "nowClosed",
      "close", "closeIf", "closeWake", "closing", "closeSent", "callback",
      "start", "stop", "stopThread", "join", "stopped" }

\* ... and those of the object that owns the connection.
OwnerLabels ==
    { "clientConnect", "clientRestart", "clientClose", "clientStop", "clientClosed",
      "clientDestroy", "clientReset", "destroyed", "wsRelease", "wsStop", "wsStart",
      "wsReset", "wsNew", "accepted", "event", "openDone", "erase", "release" }

Labels == LoopLabels \cup ServeLabels \cup ServerLabels \cup MethodLabels \cup OwnerLabels

\* The points from which a send or a close can find the connection lost ...
SendPath ==
    { "append", "push", "pushFailed", "sent", "flush", "setClosed", "nowClosed",
      "closing", "closeSent" }

\* ... those that report its end, those with _txbufMutex held, close() ...
Closers == {"setClosed", "nowClosed"}
Pushers == {"push", "pushFailed"}
CloseLabels == {"close", "closeIf", "closing", "closeWake"}

\* ... and those before it is open.
Opening == {"connect", "handshake", "upgrade", "upgraded"}

StopLabels == {"stop", "stopThread", "join", "stopped"}

RunLabels == LoopLabels \ {"switch", "switched"}

\* A frame of WebSocket::run, or of the flush that its poll turns into.
Running(f) ==
    \/ f.at \in RunLabels
    \/ f.at \in {"flush", "push", "pushFailed"} /\ f.arg = "poll"

\* The points at which a method of the transport waits for one that it called.
Suspended ==
    { "pushFailed", "nowClosed", "switched", "closeSent", "select", "pinged", "dispatch",
      "ponged", "unordered", "check", "echoed", "opened", "firstPinged" }

\* The events of a connection that its own loop reports, and all of them.
LoopEvents == {"open", "message", "error", "ping", "pong"}
Events     == LoopEvents \cup {"close", "closing", "connecting"}

Args == Kinds \cup Events \cup {"", "inline", "poll", "finite", "forever", "failed"}

FrameType == [at : Labels, c : Conns \cup {Nobody}, arg : Args]

\* What a frame's argument may be, and that the loop runs in its own thread.
FrameOK(t, f) ==
    /\ f.at \notin ServerLabels => f.c \in Conns
    /\ f.at \in {"send", "append"} => f.arg \in Kinds
    /\ f.at \in {"push", "pushFailed"} => f.arg \in Kinds \cup {"inline", "poll"}
    /\ f.at = "flush" => f.arg \in {"inline", "poll"}
    /\ f.at = "callback" => f.arg \in Events
    /\ f.at \in LoopLabels \cup ServeLabels => f.c = t
    /\ f.at = "callback" /\ f.arg \in LoopEvents => f.c = t
    /\ f.at \in {"push", "pushFailed", "flush"} /\ f.arg = "poll" => f.c = t

SocketType ==
    [ st : ReadyState, cancel : BOOLEAN, fd : {"none", "open", "shut"},
      tx : Threads \cup {Nobody}, sk : Threads \cup {Nobody},
      txbuf : Seq(Kinds), rxbuf : Seq(Received), pipe : Seq({"send", "close"}),
      pong : BOOLEAN, pingDue : BOOLEAN, late : BOOLEAN, stop : BOOLEAN,
      first : BOOLEAN, joinable : BOOLEAN ]

PeerType ==
    [ up : BOOLEAN, rx : Seq(Received), sent : Nat, pinged : BOOLEAN,
      peer : {"idle", "asked", "done"}, fault : BOOLEAN ]

SocketsOK == ws \in [Conns -> SocketType]

PeersOK == net \in [Conns -> PeerType]

StacksOK ==
    /\ stk \in [Threads -> Seq(FrameType)]
    /\ \A t \in Threads : \A i \in 1 .. Len(stk[t]) : FrameOK(t, stk[t][i])

LogsOK == log \in [Conns -> Seq(Events)]

(***************************************************************************)
(* The buffers hold frames and the pipe wake-up codes, and a method is     *)
(* called with what it expects; the methods that touch _rxbuf, the         *)
(* handshake and `firstConnectionAttempt' without a lock run on the        *)
(* connection's own thread only.                                           *)
(***************************************************************************)
TransportOK == SocketsOK /\ PeersOK /\ StacksOK /\ LogsOK

=============================================================================

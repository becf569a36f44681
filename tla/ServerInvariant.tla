-------------------------- MODULE ServerInvariant --------------------------
(***************************************************************************)
(* The invariant behind the server's safety properties: which thread may   *)
(* be where, which connections the acceptor, the collector and stop()      *)
(* account for, and what each of these threads has left to do.             *)
(***************************************************************************)
EXTENDS ServerProperties

-----------------------------------------------------------------------------
(* Who may be where.                                                       *)

\* What a thread of its role runs first ...
Role(t) ==
    IF t \in Conns THEN {"serve", "served", "unlist", "terminate", "wakeCollector"}
    ELSE IF t = Acceptor THEN {"accept", "acceptPoll", "accepted"}
    ELSE IF t = Collector THEN {"collect", "collectNext", "collectWait"}
    ELSE { "srvStart", "srvStop", "srvClose", "joinAcceptor", "stopCollector",
           "joinCollector", "srvStopped" }

\* ... and what the connection's thread and stop() call.
Inner ==
    (LoopLabels \cup MethodLabels \cup
     { "connectToSocket", "serverHandshake", "serverUpgrade",
       "event", "openDone", "erase", "release" }) \ {"start"}

\* A connection's thread works for its connection.
Placed ==
    \A t \in Threads : stk[t] # <<>> =>
        /\ stk[t][1].at \in Role(t)
        /\ Len(stk[t]) > 1 => stk[t][1].at \in {"served", "srvClose"}
        /\ \A i \in 2 .. Len(stk[t]) : stk[t][i].at \in Inner
        /\ t \in Conns => \A i \in 1 .. Len(stk[t]) : stk[t][i].c = t

\* How far a thread has come in what it runs first.
Stage(t) == IF stk[t] = <<>> THEN "none" ELSE stk[t][1].at

-----------------------------------------------------------------------------
(* The connections.                                                        *)

\* The connections that the acceptor has taken from the port.
Taken == srv.came \ srv.queue

\* A thread that runs is in _connectionsThreads, and the connection accepted
\* last is new.
Accounted ==
    /\ srv.threads \cup srv.bound \cup srv.ended \subseteq Taken
    /\ \A c \in Conns : Stage(c) # "none" => c \in srv.threads
    /\ Stage(Acceptor) = "accepted" =>
           stk[Acceptor][1].c \in Taken \ (srv.threads \cup srv.ended)

\* A client is listed, and its callback set, while its connection is served.
ListedServed ==
    \A c \in Conns :
        /\ c \in srv.clients => Stage(c) \in {"served", "unlist"}
        /\ Stage(c) = "served" => c \in srv.bound

\* A thread is terminated when it is about to wake the collector and end.
EndedTerminated ==
    \A c \in srv.threads : c \in srv.ended <=> Stage(c) \in {"none", "wakeCollector"}

\* The collector has been told of a thread that has ended, or comes to it.
EndNoticed ==
    \A c \in srv.threads : Stage(c) = "none" =>
        \/ srv.canGc
        \/ Stage(Collector) \in {"none", "collect"}
        \/ Stage(Collector) = "collectNext" /\ c \in srv.pass

Lists == Accounted /\ ListedServed /\ EndedTerminated /\ EndNoticed

-----------------------------------------------------------------------------
(* The acceptor, the collector and stop().                                 *)

\* Neither thread has been joined while it runs.
NotJoined ==
    /\ Stage(Acceptor) # "none" => srv.accept
    /\ Stage(Collector) # "none" => srv.collect

\* Any number of threads may call start() and stop().
ServerInv == Placed /\ Lists /\ NotJoined

(***************************************************************************)
(* One thread starts and stops the server: SocketServer reads and writes   *)
(* _thread and _gcThread in start() and stop() without a mutex.            *)
(***************************************************************************)
OneUser == \A t, u \in Users : t = u

\* The user's thread is at one of the points S.
UserAt(S) == \E u \in Users : Stage(u) \in S

\* The collector ends when it is told to, after the acceptor and all threads.
CollectorLast ==
    /\ Stage(Acceptor) # "none" => Stage(Collector) # "none"
    /\ Stage(Collector) = "none" => srv.threads = {}
    /\ srv.collect /\ Stage(Collector) = "none" => UserAt({"joinCollector"})
    /\ srv.stopGc => UserAt({"joinCollector"})

\* stop() joins the acceptor, then the collector.
StopOrder ==
    /\ UserAt({"srvStart", "stopCollector", "joinCollector", "srvStopped"}) => ~srv.accept
    /\ UserAt({"srvStopped"}) => Stage(Collector) = "none"

StopInv == CollectorLast /\ StopOrder

-----------------------------------------------------------------------------
(* The map of the endpoints, as long as stop() has not been called: it     *)
(* closes the clients from its own thread, whose callbacks may come after  *)
(* those of the connection's.                                              *)

Unstopped == calls["stop"] = Budget["stop"]

Handshaking == {"connectToSocket", "serverHandshake", "serverUpgrade"}

\* A frame before the connection is open.
Starting(f) == f.at \in Handshaking \cup Opening \cup {"open"}

\* The frame of the callback that is told the connection is open.
Announcing(f) == f.at = "callback" /\ f.arg = "open"

\* handleConnection calls the handshake and then the loop.  The Open event
\* comes from there and from nowhere else.
Layered(c) ==
    \A i \in 1 .. Len(stk[c]) :
        /\ (i = 2) <=> (Running(stk[c][i]) \/ stk[c][i].at \in Handshaking)
        /\ Starting(stk[c][i]) => i = Len(stk[c])
        /\ Announcing(stk[c][i]) => i = 3 /\ i = Len(stk[c]) /\ stk[c][2].at = "opened"

\* A thread about to close its connection has told the callback so, which has
\* still to erase the endpoint, or is about to be told.
Reported(c) ==
    \A i \in 1 .. Len(stk[c]) : stk[c][i].at = "nowClosed" =>
        /\ i < Len(stk[c])
        /\ \/ stk[c][i + 1].at = "erase"
           \/ /\ i + 1 = Len(stk[c])
              /\ stk[c][i + 1].at = "callback" /\ stk[c][i + 1].arg = "close"

\* An endpoint is in the map after the handshake, and while it is not CLOSED.
ListedOpen(c) ==
    c \in eps.of =>
        /\ Stage(c) = "served" /\ Len(stk[c]) > 1 /\ ~Starting(stk[c][2])
        /\ ws[c].st # "CLOSED" /\ Reported(c)

\* The connection is OPEN when the callback is about to be told so.
OpensOpen(c) ==
    stk[c] # <<>> /\ (Top(c).at = "open" \/ Announcing(Top(c))) => ws[c].st # "CLOSED"

\* The server runs the loop itself: no websocket of its own has a thread.
NeverStarted == \A c \in Conns : ~ws[c].joinable /\ ~ws[c].stop

\* No thread of the application is in stop().
NoneStops == \A u \in Users : Stage(u) \in {"none", "srvStart"}

(***************************************************************************)
(* Until stop() is called, an endpoint in the map belongs to a connection  *)
(* that its thread serves and that is not CLOSED, and a thread about to    *)
(* close erases its endpoint first.  The calls of that thread nest as      *)
(* handleConnection, the handshake or the loop, and the callback.          *)
(***************************************************************************)
EndpointInv ==
    /\ calls["stop"] <= Budget["stop"]
    /\ NeverStarted
    /\ \A c \in Conns : Layered(c)
    /\ Unstopped => NoneStops /\ \A c \in Conns : ListedOpen(c) /\ OpensOpen(c)

=============================================================================

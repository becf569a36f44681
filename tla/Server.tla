------------------------------- MODULE Server -------------------------------
(***************************************************************************)
(* DWebSocketServer over ix::WebSocketServer and ix::SocketServer.  A      *)
(* thread accepts connections and gives each one a thread of its own; a    *)
(* collector joins the threads that have ended; stop() closes what it sees *)
(* and joins them all.  The callback of every connection is                *)
(* DWebSocketServer::OnMessage, which keeps the map of the endpoints.      *)
(***************************************************************************)
EXTENDS WebSocket, FiniteSets

CONSTANTS
    Acceptor,       \* SocketServer::_thread
    Collector,      \* SocketServer::_gcThread
    MaxConnections, \* _maxConnections
    Budget,         \* bound: how many times each operation is called
    CallbackCalls   \* the pairs <<event, operation>> the callback may make

Users == Apps \ {Acceptor, Collector}

Calls == {"start", "stop", "send", "close"}

ServerEvents == {"open", "message", "ping", "pong", "error", "close"}

ASSUME ServerAssumption ==
    /\ {Acceptor, Collector} \subseteq Apps /\ Acceptor # Collector
    /\ MaxConnections \in Nat
    /\ Budget \in [Calls -> Nat]
    /\ CallbackCalls \subseteq ServerEvents \X {"send", "close"}

VARIABLES
    srv,   \* the fields of the SocketServer and the WebSocketServer
    eps,   \* DWebSocketServer::endpoints, and the owner of epMutex
    calls  \* calls[op]: how many calls can still be made

vars == <<ws, net, stk, log, srv, eps, calls>>

NewServer ==
    [ stop     |-> FALSE,  \* _stop
      wake     |-> 0,      \* the codes in the acceptor's SelectInterrupt
      accept   |-> FALSE,  \* _thread.joinable()
      collect  |-> FALSE,  \* _gcThread.joinable()
      stopGc   |-> FALSE,  \* _stopGc
      canGc    |-> FALSE,  \* _canContinueGC
      came     |-> {},     \* the connections that have reached the port
      queue    |-> {},     \* those that wait to be accepted
      threads  |-> {},     \* _connectionsThreads
      pass     |-> {},     \* what closeTerminatedThreads has still to visit
      ended    |-> {},     \* ConnectionState::_terminated
      clients  |-> {},     \* _clients
      bound    |-> {},     \* _onMessageCallback is set
      todo     |-> {} ]    \* the clients stop() has still to close

ServerFrame(label) == Frame(label, Nobody, "")

-----------------------------------------------------------------------------
(* SocketServer::run, the thread that accepts.                             *)

Accept(t) ==
    /\ At(t, "accept")
    /\ IF srv.stop THEN Return(t) ELSE Jump(t, "acceptPoll")
    /\ UNCHANGED <<ws, net, log, srv, eps, calls>>

AcceptWoken(t) ==
    /\ At(t, "acceptPoll")
    /\ srv.wake > 0
    /\ srv' = [srv EXCEPT !.wake = @ - 1]
    /\ Jump(t, "accept")
    /\ UNCHANGED <<ws, net, log, eps, calls>>

\* Not accepted if _clients is full.
AcceptPoll(t) ==
    /\ At(t, "acceptPoll")
    /\ srv.wake = 0
    /\ \E c \in srv.queue :
          /\ srv' = [srv EXCEPT !.queue = @ \ {c}]
          /\ stk' = [stk EXCEPT ![t] =
                        SetTop(@, IF Cardinality(srv.clients) >= MaxConnections
                                  THEN ServerFrame("accept") ELSE Frame("accepted", c, ""))]
    /\ UNCHANGED <<ws, net, log, eps, calls>>

\* Mutant: the thread is not put into _connectionsThreads.
AcceptedDetached(t) == LET c == Top(t).c IN
    /\ At(t, "accepted")
    /\ ~At(Collector, "collectNext")
    /\ stk' = [stk EXCEPT ![t] = SetTop(@, ServerFrame("accept")),
                          ![c] = <<Frame("serve", c, "")>>]
    /\ UNCHANGED <<ws, net, log, srv, eps, calls>>

\* A stop that comes now leaves the accepted socket behind.
Accepted(t) == LET c == Top(t).c IN
    /\ At(t, "accepted")
    /\ IF srv.stop
       THEN Return(t) /\ UNCHANGED srv
       ELSE /\ ~At(Collector, "collectNext")
            /\ srv' = [srv EXCEPT !.threads = @ \cup {c}]
            /\ stk' = [stk EXCEPT ![t] = SetTop(@, ServerFrame("accept")),
                                  ![c] = <<Frame("serve", c, "")>>]
    /\ UNCHANGED <<ws, net, log, eps, calls>>

-----------------------------------------------------------------------------
(* WebSocketServer::handleConnection, the thread of a connection.          *)

\* The callback is registered, and the client listed.
Serve(t) == LET c == Top(t).c IN
    /\ At(t, "serve")
    /\ srv' = [srv EXCEPT !.bound = @ \cup {c}, !.clients = @ \cup {c}]
    /\ Call(t, "served", "connectToSocket", "")
    /\ UNCHANGED <<ws, net, log, eps, calls>>

\* With _socketMutex held until the handshake has ended.
ConnectToSocket(t) == LET c == Top(t).c IN
    /\ At(t, "connectToSocket")
    /\ ws[c].sk = Nobody
    /\ ws' = [ws EXCEPT ![c].sk = t, ![c].fd = "open"]
    /\ Jump(t, "serverHandshake")
    /\ UNCHANGED <<net, log, srv, eps, calls>>

\* serverHandshake forgets a cancellation that came before it.
ServerHandshake(t) == LET c == Top(t).c IN
    /\ At(t, "serverHandshake")
    /\ ws' = [ws EXCEPT ![c].cancel = FALSE]
    /\ Jump(t, "serverUpgrade")
    /\ UNCHANGED <<net, log, srv, eps, calls>>

\* The peer's frames count from here; the events are those of a client.
ServerUpgrade(t) == LET c == Top(t).c IN
    /\ At(t, "serverUpgrade")
    /\ ~ws[c].cancel
    /\ net' = [net EXCEPT ![c].up = TRUE]
    /\ Jump(t, "upgraded")
    /\ UNCHANGED <<ws, log, srv, eps, calls>>

\* Mutant: handleUpgrade returns as soon as the handshake has failed.
UpgradeFailsReturns(t) == LET c == Top(t).c IN
    /\ At(t, "serverUpgrade")
    /\ ws' = [ws EXCEPT ![c].sk = Nobody]
    /\ stk' = [stk EXCEPT ![t] = SetTop(Pop(@), Frame("terminate", c, ""))]
    /\ UNCHANGED <<net, log, srv, eps, calls>>

\* Not a WebSocket request, broken, timed out or cancelled: no event.
ServerUpgradeFails(t) == LET c == Top(t).c IN
    /\ At(t, "serverUpgrade")
    /\ ws' = [ws EXCEPT ![c].sk = Nobody]
    /\ Return(t)
    /\ UNCHANGED <<net, log, srv, eps, calls>>

Served(t) == LET c == Top(t).c IN
    /\ At(t, "served")
    /\ srv' = [srv EXCEPT !.bound = @ \ {c}]
    /\ Jump(t, "unlist")
    /\ UNCHANGED <<ws, net, log, eps, calls>>

\* The websocket goes when nobody lists it, and takes its socket along.
Unlist(t) == LET c == Top(t).c IN
    /\ At(t, "unlist")
    /\ srv' = [srv EXCEPT !.clients = @ \ {c}]
    /\ ws' = [ws EXCEPT ![c].fd = "shut"]
    /\ Jump(t, "terminate")
    /\ UNCHANGED <<net, log, eps, calls>>

SetTerminated(t) == LET c == Top(t).c IN
    /\ At(t, "terminate")
    /\ srv' = [srv EXCEPT !.ended = @ \cup {c}]
    /\ Jump(t, "wakeCollector")
    /\ UNCHANGED <<ws, net, log, eps, calls>>

OnSetTerminated(t) ==
    /\ At(t, "wakeCollector")
    /\ srv' = [srv EXCEPT !.canGc = TRUE]
    /\ Return(t)
    /\ UNCHANGED <<ws, net, log, eps, calls>>

-----------------------------------------------------------------------------
(* SocketServer::runGC, the thread that joins.  closeTerminatedThreads     *)
(* holds _connectionsThreadsMutex from "collectNext" to its end.           *)

Collect(t) ==
    /\ At(t, "collect")
    /\ srv' = [srv EXCEPT !.pass = srv.threads]
    /\ Jump(t, "collectNext")
    /\ UNCHANGED <<ws, net, log, eps, calls>>

\* Mutant: the iterator stays at the thread that has been erased.
CollectStays(t) ==
    /\ At(t, "collectNext")
    /\ \E c \in srv.pass :
          IF c \notin srv.ended
          THEN srv' = [srv EXCEPT !.pass = @ \ {c}]
          ELSE /\ stk[c] = <<>>
               /\ srv' = [srv EXCEPT !.threads = @ \ {c}]
    /\ UNCHANGED <<ws, net, stk, log, eps, calls>>

CollectNext(t) ==
    /\ At(t, "collectNext")
    /\ \E c \in srv.pass :
          IF c \notin srv.ended
          THEN srv' = [srv EXCEPT !.pass = @ \ {c}]
          ELSE /\ stk[c] = <<>>
               /\ srv' = [srv EXCEPT !.pass = @ \ {c}, !.threads = @ \ {c}]
    /\ UNCHANGED <<ws, net, stk, log, eps, calls>>

\* Mutant: the collector ends when it is told to, without looking whether
\* threads are left.
CollectQuits(t) ==
    /\ At(t, "collectNext")
    /\ srv.pass = {}
    /\ IF srv.stopGc THEN Return(t) ELSE Jump(t, "collectWait")
    /\ UNCHANGED <<ws, net, log, srv, eps, calls>>

\* Mutant: the notification is cleared before the wait and not after it.
CollectForgets(t) ==
    /\ At(t, "collectNext")
    /\ srv.pass = {}
    /\ CASE srv.stopGc /\ srv.threads = {} -> Return(t)
         [] srv.stopGc /\ srv.threads # {} -> Jump(t, "collect")
         [] ~srv.stopGc                    -> Jump(t, "collectWait")
    /\ srv' = [srv EXCEPT !.canGc = FALSE]
    /\ UNCHANGED <<ws, net, log, eps, calls>>

Collected(t) ==
    /\ At(t, "collectNext")
    /\ srv.pass = {}
    /\ CASE srv.stopGc /\ srv.threads = {} -> Return(t)
         [] srv.stopGc /\ srv.threads # {} -> Jump(t, "collect")
         [] ~srv.stopGc                    -> Jump(t, "collectWait")
    /\ UNCHANGED <<ws, net, log, srv, eps, calls>>

CollectWait(t) ==
    /\ At(t, "collectWait")
    /\ srv.canGc
    /\ srv' = [srv EXCEPT !.canGc = FALSE]
    /\ Jump(t, "collect")
    /\ UNCHANGED <<ws, net, log, eps, calls>>

-----------------------------------------------------------------------------
(* The application's calls: start() and stop().                            *)

Entry(op) == CASE op = "start" -> "srvStart"
               [] op = "stop"  -> "srvStop"

\* It does not start a server that runs.
UserCall(t, op) ==
    /\ stk[t] = <<>>
    /\ calls[op] > 0
    /\ op = "start" => ~srv.accept
    /\ calls' = [calls EXCEPT ![op] = @ - 1]
    /\ stk' = [stk EXCEPT ![t] = <<ServerFrame(Entry(op))>>]
    /\ UNCHANGED <<ws, net, log, srv, eps>>

\* listen() makes a new port and a new pipe.
SrvStart(t) ==
    /\ At(t, "srvStart")
    /\ srv' = [srv EXCEPT !.stop = FALSE, !.wake = 0, !.accept = TRUE, !.collect = TRUE]
    /\ stk' = [stk EXCEPT ![t] = Pop(@),
                          ![Acceptor] = IF srv.accept THEN @ ELSE <<ServerFrame("accept")>>,
                          ![Collector] = IF srv.collect THEN @ ELSE <<ServerFrame("collect")>>]
    /\ UNCHANGED <<ws, net, log, eps, calls>>

\* WebSocketServer::stop closes the clients it sees at this moment ...
SrvStop(t) ==
    /\ At(t, "srvStop")
    /\ srv' = [srv EXCEPT !.stop = TRUE, !.todo = srv.clients]
    /\ Jump(t, "srvClose")
    /\ UNCHANGED <<ws, net, log, eps, calls>>

SrvClose(t) ==
    /\ At(t, "srvClose")
    /\ \E c \in srv.todo :
          /\ srv' = [srv EXCEPT !.todo = @ \ {c}]
          /\ stk' = [stk EXCEPT ![t] = Append(@, Frame("close", c, ""))]
    /\ UNCHANGED <<ws, net, log, eps, calls>>

\* ... then SocketServer::stop ends the acceptor ...
StopAcceptor(t) ==
    /\ At(t, "srvClose")
    /\ srv.todo = {}
    /\ IF srv.accept
       THEN /\ srv' = [srv EXCEPT !.stop = TRUE, !.wake = @ + 1]
            /\ Jump(t, "joinAcceptor")
       ELSE Jump(t, "stopCollector") /\ UNCHANGED srv
    /\ UNCHANGED <<ws, net, log, eps, calls>>

\* Mutant: the acceptor is detached.
AcceptorDetached(t) ==
    /\ At(t, "joinAcceptor")
    /\ srv' = [srv EXCEPT !.accept = FALSE, !.stop = FALSE]
    /\ Jump(t, "stopCollector")
    /\ UNCHANGED <<ws, net, log, eps, calls>>

JoinAcceptor(t) ==
    /\ At(t, "joinAcceptor")
    /\ stk[Acceptor] = <<>>
    /\ srv' = [srv EXCEPT !.accept = FALSE, !.stop = FALSE]
    /\ Jump(t, "stopCollector")
    /\ UNCHANGED <<ws, net, log, eps, calls>>

\* ... and the collector, when it has joined all threads.
StopCollector(t) ==
    /\ At(t, "stopCollector")
    /\ IF srv.collect
       THEN /\ srv' = [srv EXCEPT !.stopGc = TRUE, !.canGc = TRUE]
            /\ Jump(t, "joinCollector")
       ELSE Jump(t, "srvStopped") /\ UNCHANGED srv
    /\ UNCHANGED <<ws, net, log, eps, calls>>

JoinCollector(t) ==
    /\ At(t, "joinCollector")
    /\ stk[Collector] = <<>>
    /\ srv' = [srv EXCEPT !.collect = FALSE, !.stopGc = FALSE]
    /\ Jump(t, "srvStopped")
    /\ UNCHANGED <<ws, net, log, eps, calls>>

\* The port is closed.
SrvStopped(t) ==
    /\ At(t, "srvStopped")
    /\ srv' = [srv EXCEPT !.queue = {}]
    /\ Return(t)
    /\ UNCHANGED <<ws, net, log, eps, calls>>

-----------------------------------------------------------------------------
(* DWebSocketServer::OnMessage, the callback of every connection.  It      *)
(* reads the map without epMutex, and writes it with.                      *)

\* The callback has been reset: std::function throws, and the caller's locks
\* are released on the way out.
Thrown(t) == LET c == Top(t).c IN
    /\ At(t, "callback")
    /\ c \notin srv.bound
    /\ ws' = [ws EXCEPT ![c].tx = IF @ = t THEN Nobody ELSE @]
    /\ stk' = [stk EXCEPT ![t] = <<>>]
    /\ UNCHANGED <<net, log, srv, eps, calls>>

\* The application is told with epMutex held.
OnOpen(t) == LET c == Top(t).c IN
    /\ At(t, "callback")
    /\ c \in srv.bound /\ Top(t).arg = "open"
    /\ eps.mutex = Nobody
    /\ eps' = [of |-> eps.of \cup {c}, mutex |-> t]
    /\ Call(t, "openDone", "event", "open")
    /\ UNCHANGED <<ws, net, log, srv, calls>>

OpenDone(t) ==
    /\ At(t, "openDone")
    /\ eps' = [eps EXCEPT !.mutex = Nobody]
    /\ Return(t)
    /\ UNCHANGED <<ws, net, log, srv, calls>>

\* Every other event is for an endpoint that is in the map.
OnMessage(t) == LET c == Top(t).c IN
    /\ At(t, "callback")
    /\ c \in srv.bound /\ Top(t).arg # "open"
    /\ IF c \in eps.of
       THEN Call(t, IF Top(t).arg = "close" THEN "erase" ELSE "release", "event", Top(t).arg)
       ELSE Return(t)
    /\ UNCHANGED <<ws, net, log, srv, eps, calls>>

\* Mutant: the endpoint stays in the map.
EraseKeeps(t) ==
    /\ At(t, "erase")
    /\ eps.mutex = Nobody
    /\ Jump(t, "release")
    /\ UNCHANGED <<ws, net, log, srv, eps, calls>>

Erase(t) == LET c == Top(t).c IN
    /\ At(t, "erase")
    /\ eps.mutex = Nobody
    /\ eps' = [eps EXCEPT !.of = @ \ {c}]
    /\ Jump(t, "release")
    /\ UNCHANGED <<ws, net, log, srv, calls>>

\* The frames that own a reference to the endpoint of c.
Owners(c) ==
    UNION { {t} \X {i \in DOMAIN stk[t] :
                       stk[t][i].c = c /\ stk[t][i].at \in {"erase", "release"}} :
            t \in Threads }

\* The last owner destroys the endpoint and its DWebSocket, which stops.
Release(t) == LET c == Top(t).c IN
    /\ At(t, "release")
    /\ IF c \notin eps.of /\ Cardinality(Owners(c)) = 1 /\ ws[c].st = "OPEN"
       THEN Jump(t, "stop")
       ELSE Return(t)
    /\ UNCHANGED <<ws, net, log, srv, eps, calls>>

\* The application's callback, which may send on the endpoint or close it.
Event(t) ==
    /\ At(t, "event")
    /\ \/ Return(t) /\ UNCHANGED calls
       \/ \E op \in {"send", "close"} :
             /\ <<Top(t).arg, op>> \in CallbackCalls
             /\ calls[op] > 0
             /\ calls' = [calls EXCEPT ![op] = @ - 1]
             /\ JumpWith(t, op, "data")
    /\ UNCHANGED <<ws, net, log, srv, eps>>

-----------------------------------------------------------------------------

Init ==
    /\ ws = [c \in Conns |-> Fresh]
    /\ net = [c \in Conns |-> NoPeer]
    /\ stk = [t \in Threads |-> <<>>]
    /\ log = [c \in Conns |-> <<>>]
    /\ srv = NewServer
    /\ eps = [of |-> {}, mutex |-> Nobody]
    /\ calls = Budget

\* Each connection comes once, while the port is open.
Arrive(c) ==
    /\ srv.accept
    /\ c \notin srv.came
    /\ srv' = [srv EXCEPT !.came = @ \cup {c}, !.queue = @ \cup {c}]
    /\ UNCHANGED <<ws, net, stk, log, eps, calls>>

ServerStep(t) ==
    \/ Accept(t) \/ AcceptWoken(t) \/ AcceptPoll(t) \/ Accepted(t)
    \/ Serve(t) \/ ConnectToSocket(t) \/ ServerHandshake(t)
    \/ ServerUpgrade(t) \/ ServerUpgradeFails(t)
    \/ Served(t) \/ Unlist(t) \/ SetTerminated(t) \/ OnSetTerminated(t)
    \/ Collect(t) \/ CollectNext(t) \/ Collected(t) \/ CollectWait(t)
    \/ SrvStart(t) \/ SrvStop(t) \/ SrvClose(t) \/ StopAcceptor(t) \/ JoinAcceptor(t)
    \/ StopCollector(t) \/ JoinCollector(t) \/ SrvStopped(t)
    \/ Thrown(t) \/ OnOpen(t) \/ OpenDone(t) \/ OnMessage(t) \/ Erase(t) \/ Release(t)
    \/ Event(t)

ThreadStep(t) ==
    \/ WebSocketStep(t) /\ UNCHANGED <<srv, eps, calls>>
    \/ ServerStep(t)

\* Nothing is under way: every thread has ended or waits for what only a peer,
\* a call or a clock can bring.
Quiet ==
    /\ \A t \in Threads :
          stk[t] # <<>> => Top(t).at \in {"acceptPoll", "collectWait", "wait"}
    /\ UNCHANGED vars

Next ==
    \/ \E t \in Users, op \in {"start", "stop"} : UserCall(t, op)
    \/ \E t \in Threads : ThreadStep(t)
    \/ \E c \in Conns : Arrive(c)
    \/ \E c \in Conns : Environment(c) /\ UNCHANGED <<srv, eps, calls>>
    \/ Quiet

Spec == Init /\ [][Next]_vars

\* As in the client: the threads run, and the closing delay passes.
FairSpec ==
    /\ Spec
    /\ \A t \in Threads : WF_vars(ThreadStep(t))
    /\ \A c \in Conns : WF_vars(ClosingDelay(c) /\ UNCHANGED <<srv, eps, calls>>)

=============================================================================

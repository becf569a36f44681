--------------------------- MODULE ClientInvariant ---------------------------
(***************************************************************************)
(* The invariant behind the client's safety properties: which method may   *)
(* be waiting for which, when the connection's thread is known to have     *)
(* ended, and what is known of a connection before it opens and after it   *)
(* has closed.                                                             *)
(***************************************************************************)
EXTENDS ClientProperties

-----------------------------------------------------------------------------
(* How the application uses the client.                                    *)

(***************************************************************************)
(* The application has one thread beside the connection's, for connect(),  *)
(* close(), send() and the destructor, and connect() is not called from    *)
(* the callback: DWebSocketClient has no mutex, and a connect() joins the  *)
(* thread that calls back.  The callback may call close() and send().      *)
(***************************************************************************)
Usage ==
    /\ \A t, u \in Apps : t = u
    /\ \A e \in ClientEvents : <<e, "connect">> \notin CallbackCalls

\* The callback of the Close event does nothing with the client.
QuietClose == \A op \in Calls : <<"close", op>> \notin CallbackCalls

-----------------------------------------------------------------------------
(* Who may be where.                                                       *)

\* What the application's thread alone runs: connect() and the destructor.
MainLabels ==
    { "clientConnect", "clientRestart", "wsStart", "wsReset", "wsNew", "start",
      "clientDestroy", "clientReset", "wsRelease", "destroyed" }

\* The frames that nothing calls: the first of their threads.
Bottom(f) == Running(f) \/ f.at \in MainLabels

ClientSuspended ==
    Suspended \cup
    { "stopThread", "clientStop", "clientClosed", "clientRestart", "wsStart",
      "clientReset", "wsRelease", "destroyed", "wsReset", "wsNew", "start" }

\* A method at f may be waiting for one at g.
Calling(f, g) ==
    /\ f.at \in ClientSuspended /\ ~Bottom(g)
    /\ f.at \in {"wsNew", "destroyed"} => g.at \in StopLabels
    /\ f.at = "pushFailed" => g.at \in Closers
    /\ f.at = "nowClosed" /\ QuietClose => g.at = "callback" /\ g.arg = "close"

\* A thread works for one connection, and the loop's thread for its own.
Placed ==
    \A t \in Threads :
        /\ \A i \in 1 .. Len(stk[t]) : stk[t][i].c = stk[t][1].c
        /\ \A i \in 1 .. Len(stk[t]) - 1 : Calling(stk[t][i], stk[t][i + 1])
        /\ t \in Conns /\ stk[t] # <<>> => stk[t][1].c = t /\ stk[t][1].at \notin MainLabels

\* The first frame of t is on connection c, at one of the points S.
First(t, c, S) == stk[t] # <<>> /\ stk[t][1].c = c /\ stk[t][1].at \in S

-----------------------------------------------------------------------------
(* When the connection's thread has ended.                                 *)

\* A thread that has not been joined is joinable.
RunsJoinable == \A c \in Conns : stk[c] # <<>> => ws[c].joinable

\* Without a websocket there is no thread, but while it is being stopped.
UnmadeEnded ==
    \A c \in Conns :
        ~made[c] => \/ stk[c] = <<>>
                    \/ \E t \in Apps : First(t, c, {"wsNew", "wsRelease", "destroyed"})

\* What is started has not been started before.
StartsNew ==
    \A t \in Apps, c \in Conns :
        First(t, c, {"start"}) => stk[c] = <<>> /\ made[c] /\ ws[c].first

\* stop() has joined the thread when it is about to return.
StoppedEnded ==
    \A t \in Apps, c \in Conns :
        /\ First(t, c, {"wsNew", "destroyed"})
        /\ Len(stk[t]) = 1 \/ stk[t][2].at = "stopped"
        => stk[c] = <<>>

-----------------------------------------------------------------------------
(* A connection before it opens, and after it has closed.                  *)

\* It has not been opened yet.
Unopened(c) == ws[c].first \/ First(c, c, Opening)

Logged(c, e) == \E i \in 1 .. Len(log[c]) : log[c][i] = e

\* No thread is at one of the points S on c.
Nowhere(c, S) ==
    \A t \in Threads : \A i \in 1 .. Len(stk[t]) : stk[t][i].c = c => stk[t][i].at \notin S

\* Only the handshake keeps _socketMutex.
HandshakeLock(c) ==
    \/ ws[c].sk = Nobody
    \/ ws[c].sk = c /\ First(c, c, {"handshake", "upgrade", "upgraded"})

\* Before the first attempt the loop has done nothing.
FirstAttempt(c) ==
    ws[c].first /\ stk[c] # <<>> => Len(stk[c]) = 1 /\ stk[c][1].at = "check"

\* A connection that has not been opened is CLOSED, and nobody sends on it.
UnopenedClosed(c) ==
    Unopened(c) => ws[c].st = "CLOSED" /\ ~Logged(c, "close") /\ Nowhere(c, SendPath)

\* It has no outcome yet.
NoOutcomeYet(c) ==
    Unopened(c) \/ First(c, c, {"open"}) => ~Logged(c, "open") /\ ~Logged(c, "error")

\* Who reports the end of a connection has closed its socket first.
EndShut(c) == Logged(c, "close") \/ ~Nowhere(c, Closers) => ws[c].fd # "open"

\* Who has locked _txbufMutex is sending on the connection.
SendLock(c) ==
    ws[c].tx # Nobody =>
        \E i \in 1 .. Len(stk[ws[c].tx]) :
            stk[ws[c].tx][i].c = c /\ stk[ws[c].tx][i].at \in Pushers

-----------------------------------------------------------------------------

ThreadLife == RunsJoinable /\ UnmadeEnded /\ StartsNew /\ StoppedEnded

ConnectionOK(c) ==
    /\ HandshakeLock(c) /\ FirstAttempt(c)
    /\ UnopenedClosed(c) /\ NoOutcomeYet(c) /\ EndShut(c) /\ SendLock(c)

ConnectionLife == \A c \in Conns : ConnectionOK(c)

(***************************************************************************)
(* What connect(), close(), the destructor and the connection's own thread *)
(* rely on, interleaved at any point: the thread that stop() waits for is  *)
(* the one that was started, a websocket is replaced when its thread has   *)
(* ended, nothing is sent on a connection before it opens, its socket is   *)
(* closed before its end is reported, and each mutex has its one holder.   *)
(***************************************************************************)
ClientInv == Placed /\ ThreadLife /\ ConnectionLife

-----------------------------------------------------------------------------
(* A connection that is lost.                                              *)

\* A wake-up that asks the poll to give up.
Pending(p) == \E i \in 1 .. Len(p) : p[i] = "close"

\* A thread of the application waits for the thread of c, or will.
Stopping(c) ==
    \E t \in Apps : \E i \in 1 .. Len(stk[t]) :
        stk[t][i].c = c /\ stk[t][i].at \in {"stopThread", "join"}

\* Who calls close() on the transport.
CloseCalled(t) ==
    \A i \in 1 .. Len(stk[t]) : stk[t][i].at \in CloseLabels =>
        /\ i > 1
        /\ stk[t][i - 1].at \in
               {"stopThread", "start", "select", "unordered", "dispatch", "check"}

\* A thread is about to end the connection.
Ending(c) ==
    \/ ~Nowhere(c, Closers)
    \/ First(c, c, {"dispatch", "ponged", "unordered"}) /\ stk[c][1].arg = "failed"
    \/ /\ First(c, c, {"check"}) /\ Len(stk[c]) > 1
       /\ stk[c][2].at \in {"close", "closeIf", "closing", "switch"}

\* The socket is being made, then the connection is OPEN.
Dialling == {"handshake", "upgrade", "upgraded"}

\* Of a connection whose thread runs, and that nobody is stopping.
Attended(c) ==
    stk[c] # <<>> /\ ~ws[c].first /\ ~Stopping(c) =>
        /\ ws[c].st = "OPEN" /\ ws[c].fd = "shut" => Ending(c) \/ net[c].fault \/ Cut(c)
        /\ ws[c].st = "OPEN" \/ First(c, c, Dialling) => ~Pending(ws[c].pipe)
        /\ First(c, c, {"upgraded"}) => ws[c].fd = "open"
        /\ \A i \in 1 .. Len(stk[c]) :
               stk[c][i].at \in {"closeWake", "echoed"} => ws[c].st # "OPEN"

(***************************************************************************)
(* Why a lost connection is not left OPEN, interleaved at any point: who   *)
(* closes the socket of an OPEN connection goes on to its end, or has left *)
(* the poll's "failed" behind for the thread that will, or the poll has    *)
(* failed or a frame is cut; close() does not wake the poll of an OPEN     *)
(* connection, nor does a wake-up of an earlier connection reach the next  *)
(* one's.                                                                  *)
(***************************************************************************)
LostInv ==
    /\ \A c \in Conns : Attended(c)
    /\ \A t \in Threads : CloseCalled(t)

=============================================================================

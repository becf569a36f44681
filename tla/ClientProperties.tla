-------------------------- MODULE ClientProperties --------------------------
(***************************************************************************)
(* What the client promises, and what its documentation promises for it.   *)
(***************************************************************************)
EXTENDS Client, TransportProperties, FiniteSets

-----------------------------------------------------------------------------
(* Types.                                                                  *)

(***************************************************************************)
(* Type correctness, with the frames a thread may have.  The buffers hold  *)
(* frames and the pipe wake-up codes; the methods that touch _rxbuf, the   *)
(* handshake and `firstConnectionAttempt' without a lock run on the        *)
(* connection's own thread only.                                           *)
(***************************************************************************)
TypeOK ==
    /\ TransportOK
    /\ made \in [Conns -> BOOLEAN]
    /\ calls \in [Calls -> Nat]

-----------------------------------------------------------------------------
(* Threads.                                                                *)

(***************************************************************************)
(* The Open, Message, Error, Ping and Pong events of a connection are      *)
(* given to the application by the connection's own thread, whoever sends, *)
(* closes or stops at the same time: DWebSocket::OnMessage fills its       *)
(* inputBuffer without a lock.  (Only the Close event may come from        *)
(* another thread, through a send that fails.)                             *)
(***************************************************************************)
EventsOnOwnThread ==
    \A t \in Threads :
        At(t, "callback") /\ Top(t).arg \in LoopEvents => t = Top(t).c

(***************************************************************************)
(* DWebSocket::start replaces the ix::WebSocket only when the old one's    *)
(* thread has ended, whatever state the old connection was left in by      *)
(* closes, failed sends and handshakes.                                    *)
(***************************************************************************)
ReplacedWhenEnded ==
    \A t \in Threads : At(t, "wsNew") => stk[Top(t).c] = <<>>

(***************************************************************************)
(* When the destructor of DWebSocketClient returns, the connection's       *)
(* thread has ended and calls back no more, whatever state it was in, a    *)
(* handshake that opened after the destructor saw it closed included.      *)
(***************************************************************************)
DestroyJoins == \A t \in Apps : At(t, "destroyed") => stk[Top(t).c] = <<>>

(***************************************************************************)
(* No thread asks for a mutex it holds: the callback runs inside           *)
(* sendOnSocket with _txbufMutex locked, close() sends and wakes the poll, *)
(* the poll sends, and neither mutex is recursive.                         *)
(***************************************************************************)
NoSelfLock ==
    \A t \in Threads : stk[t] # <<>> =>
        /\ Top(t).at \in {"append", "sent", "flush"} => ws[Top(t).c].tx # t
        /\ Top(t).at \in {"push", "sent", "flush", "switch", "closeWake", "closeSent",
                          "wait", "polled", "echoed", "dispatch", "connect"} =>
               ws[Top(t).c].sk # t

(***************************************************************************)
(* The application is never called with _socketMutex held, so that it may  *)
(* wake, close or send from any callback, the ones after a handshake that  *)
(* failed included.                                                        *)
(***************************************************************************)
CallbackWithoutSocketLock ==
    \A t \in Threads : At(t, "callback") => \A c \in Conns : ws[c].sk # t

-----------------------------------------------------------------------------
(* Events.                                                                 *)

Count(c, e) == Cardinality({i \in DOMAIN log[c] : log[c][i] = e})

(***************************************************************************)
(* One start() makes one attempt to connect: the loop that finds the       *)
(* connection closed, again and again, reports one Open or one Error.      *)
(***************************************************************************)
OneOutcome == \A c \in Conns : Count(c, "open") + Count(c, "error") <= 1

(***************************************************************************)
(* A connection that has been open and is CLOSED has closed its file       *)
(* descriptor, on each of the paths to CLOSED: the peer's CLOSE, the       *)
(* answer to ours, an end of stream, a failed send or flush, a peer that   *)
(* does not answer in time.                                                *)
(***************************************************************************)
ClosedMeansShut ==
    \A c \in Conns :
        ws[c].st = "CLOSED" /\ Count(c, "close") > 0 => ws[c].fd # "open"

\* Of the bytes received, a frame is cut: its rest has not come.
Cut(c) == \E i \in 1 .. Len(ws[c].rxbuf) : ws[c].rxbuf[i] = "part"

(***************************************************************************)
(* A connection that is lost while it is OPEN does not stay so: the thread *)
(* does not begin another pass with its socket closed and the connection   *)
(* OPEN, unless a call of the application is at work on it, whether the    *)
(* peer closed, the network broke, a send or a flush failed, a pong was    *)
(* missing, a wake-up was read or a frame was wrong.  The two ways in      *)
(* which it does stay OPEN, its thread spinning, are the ones named: the   *)
(* system's poll failed, after which poll() reports success                *)
(* (IXWebSocketTransport.cpp:375), or bytes of a cut frame make dispatch   *)
(* return before it looks at what poll() reported (line 542).              *)
(***************************************************************************)
LostIsNotOpen ==
    \A c \in Conns :
        At(c, "loop") /\ ws[c].fd = "shut" /\ (\A t \in Apps : stk[t] = <<>>)
            => ws[c].st # "OPEN" \/ net[c].fault \/ Cut(c)

(***************************************************************************)
(* "If an abnormal closure was raised in poll, and nothing else triggered  *)
(* a CLOSED state in the received and processed data then close the        *)
(* connection" (IXWebSocketTransport.cpp:736): when dispatch returns from  *)
(* a poll that did not succeed, the connection is not OPEN.                *)
(***************************************************************************)
AbnormalCloses ==
    \A c \in Conns : At(c, "check") /\ Top(c).arg = "failed" => ws[c].st # "OPEN"

-----------------------------------------------------------------------------
(* stop().                                                                 *)

(***************************************************************************)
(* "`websocket.stop()` disconnect from the remote server and closes the    *)
(* background thread" (usage.md:168): when stop() returns, the state is    *)
(* not OPEN.                                                               *)
(***************************************************************************)
StopDisconnects ==
    \A t \in Threads : At(t, "stopped") => ws[Top(t).c].st # "OPEN"

-----------------------------------------------------------------------------
(* Liveness, under FairSpec.                                               *)


(***************************************************************************)
(* A connection that has been opened and is CLOSED ends its thread.        *)
(***************************************************************************)
ClosedThreadEnds ==
    \A c \in Conns : (ws[c].st = "CLOSED" /\ Count(c, "close") > 0) ~> stk[c] = <<>>

(***************************************************************************)
(* A frame the protocol does not allow ends the connection and its thread, *)
(* the one that dispatch leaves in _rxbuf, before the peer's answer to our *)
(* CLOSE, included.                                                        *)
(***************************************************************************)
FaultEnds ==
    \A c \in Conns :
        (\E i \in DOMAIN ws[c].rxbuf : ws[c].rxbuf[i] \in Faulty \ {"part"})
            ~> stk[c] = <<>>

=============================================================================

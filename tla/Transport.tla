----------------------------- MODULE Transport -----------------------------
(***************************************************************************)
(* ix::WebSocketTransport: one WebSocket connection as several threads     *)
(* see it.  Each connection c has a thread of its own, also called c, that *)
(* polls the socket; the threads in Apps call send() and close().          *)
(*                                                                         *)
(* A thread is a stack of frames [at, c, arg]: `at' is the program point   *)
(* of a method running on connection c, `arg' what it was called with, and *)
(* the last frame is the one that executes.  A step is what happens        *)
(* between two accesses to shared state that another thread can observe.   *)
(* The application's callback is a frame of its own, because the code      *)
(* invokes it in the middle of its methods, under the locks they hold.     *)
(***************************************************************************)
EXTENDS Integers, Sequences

CONSTANTS
    Conns,      \* the connections, and the threads that run them
    Apps,       \* the threads that call the connections' methods
    Nobody,     \* the owner of a free mutex
    Blocking,   \* _blockingSend: TRUE on the server side
    Ping,       \* _pingIntervalSecs > 0
    PipeSize,   \* the wake-up codes that the pipe of the SelectInterrupt holds
    PeerFrames, \* the frames the peer may send on its own
    MaxSent     \* bound: the frames the peer sends on its own

Threads == Conns \cup Apps

(***************************************************************************)
(* Frames.  A "close" opens the closing handshake, an "ack" answers it.    *)
(* The ones a peer should not send: a data frame out of sequence, a frame  *)
(* of an unknown type, and one that dispatch refuses to look into (bits    *)
(* reserved, a control frame in pieces or too large).  "part" is the start *)
(* of a frame whose rest never arrives.                                    *)
(***************************************************************************)
Kinds == {"data", "ping", "pong", "close", "ack"}

Faulty == {"unordered", "unknown", "refused", "part"}

Received == Kinds \cup Faulty

ASSUME TransportAssumption ==
    /\ Conns \cap Apps = {}
    /\ Nobody \notin Threads
    /\ Blocking \in BOOLEAN
    /\ Ping \in BOOLEAN
    /\ PeerFrames \subseteq {"data", "ping", "close"} \cup Faulty
    /\ PipeSize \in Nat
    /\ MaxSent \in Nat

VARIABLES
    ws,   \* ws[c]: the fields of the WebSocketTransport and its WebSocket
    net,  \* net[c]: the TCP connection and the peer
    stk,  \* stk[t]: the call stack of thread t
    log   \* log[c]: the events given to the callback of c, pings left out

tvars == <<ws, net, stk, log>>

-----------------------------------------------------------------------------
(* The data.                                                               *)

ReadyState == {"OPEN", "CLOSING", "CLOSED"}

Fresh ==
    [ st       |-> "CLOSED",  \* _readyState
      cancel   |-> FALSE,     \* _requestInitCancellation
      fd       |-> "none",    \* _socket: null, with an open fd, or with fd -1
      tx       |-> Nobody,    \* owner of _txbufMutex
      sk       |-> Nobody,    \* owner of _socketMutex, kept by a handshake
      txbuf    |-> <<>>,      \* _txbuf, in frames
      rxbuf    |-> <<>>,      \* _rxbuf, in frames
      pipe     |-> <<>>,      \* the wake-up codes in the SelectInterrupt
      pong     |-> FALSE,     \* _pongReceived
      pingDue  |-> FALSE,     \* pingIntervalExceeded()
      late     |-> FALSE,     \* closingDelayExceeded()
      stop     |-> FALSE,     \* WebSocket::_stop
      first    |-> TRUE,      \* firstConnectionAttempt of WebSocket::run
      joinable |-> FALSE ]    \* WebSocket::_thread.joinable()

\* The TCP connection is up or not; rx holds what the peer has sent and the
\* poll has not read, `sent' counts what it sent on its own; the peer has a
\* PING to answer; it has our CLOSE frame ("asked") or has sent its last frame
\* ("done").  `fault' is history, which no action reads: the wait of poll() has
\* failed while the connection was OPEN.
NoPeer ==
    [ up |-> FALSE, rx |-> <<>>, sent |-> 0, pinged |-> FALSE, peer |-> "idle",
      fault |-> FALSE ]

-----------------------------------------------------------------------------
(* The wake-up pipe does not block: a code that finds it full is lost.     *)

Notify(pipe, code) == IF Len(pipe) < PipeSize THEN Append(pipe, code) ELSE pipe

-----------------------------------------------------------------------------
(* Calls inside a thread.                                                  *)

Top(t) == stk[t][Len(stk[t])]

At(t, label) == stk[t] # <<>> /\ Top(t).at = label

Frame(label, c, x) == [at |-> label, c |-> c, arg |-> x]

SetTop(s, f) == [s EXCEPT ![Len(s)] = f]

Pop(s) == SubSeq(s, 1, Len(s) - 1)

JumpWith(t, label, x) ==
    stk' = [stk EXCEPT ![t] = SetTop(@, Frame(label, Top(t).c, x))]

Jump(t, label) == JumpWith(t, label, Top(t).arg)

Return(t) == stk' = [stk EXCEPT ![t] = Pop(@)]

\* Run `callee' on x, then continue at `label' with y.
CallFrom(t, label, y, callee, x) ==
    stk' = [stk EXCEPT ![t] = Append(SetTop(@, Frame(label, Top(t).c, y)),
                                     Frame(callee, Top(t).c, x))]

Call(t, label, callee, x) == CallFrom(t, label, Top(t).arg, callee, x)

\* Give event e to the callback, then continue at `label'.
Emit(t, label, e) ==
    /\ log' = IF e \in {"ping", "pong"} THEN log
              ELSE [log EXCEPT ![Top(t).c] = Append(@, e)]
    /\ Call(t, label, "callback", e)

-----------------------------------------------------------------------------
(* sendData, sendFragment and sendOnSocket for one frame, of kind arg.     *)

\* Mutant: a send on a closed connection reports an error from the sender.
SendReportsError(t) ==
    /\ At(t, "send")
    /\ IF ws[Top(t).c].st \in {"OPEN", "CLOSING"} THEN Jump(t, "append") /\ UNCHANGED log
                                                  ELSE Emit(t, "nowClosed", "error")
    /\ UNCHANGED <<ws, net>>

Send(t) ==
    /\ At(t, "send")
    /\ IF ws[Top(t).c].st \in {"OPEN", "CLOSING"} THEN Jump(t, "append") ELSE Return(t)
    /\ UNCHANGED <<ws, net, log>>

AppendToSendBuffer(t) == LET c == Top(t).c IN
    /\ At(t, "append")
    /\ ws[c].tx = Nobody
    /\ ws' = [ws EXCEPT ![c].tx = t, ![c].txbuf = Append(@, Top(t).arg)]
    /\ Jump(t, "push")
    /\ UNCHANGED <<net, log>>

\* Mutant: sendData keeps _txbufMutex to its end.
PushDoneLocked(t) == LET c == Top(t).c IN
    /\ At(t, "push")
    /\ ws[c].txbuf = <<>> \/ (ws[c].fd = "open" /\ net[c].up)
    /\ Jump(t, IF Top(t).arg \in Kinds THEN "sent" ELSE "flush")
    /\ UNCHANGED <<ws, net, log>>

\* The loop of sendOnSocket ends: nothing is left, or the send would block.
\* A flush is recognised by its argument.
PushDone(t) == LET c == Top(t).c IN
    /\ At(t, "push")
    /\ ws[c].txbuf = <<>> \/ (ws[c].fd = "open" /\ net[c].up)
    /\ ws' = [ws EXCEPT ![c].tx = Nobody]
    /\ Jump(t, IF Top(t).arg \in Kinds THEN "sent" ELSE "flush")
    /\ UNCHANGED <<net, log>>

PushFrame(t) == LET c == Top(t).c IN
    /\ At(t, "push")
    /\ ws[c].sk = Nobody
    /\ ws[c].txbuf # <<>> /\ ws[c].fd = "open" /\ net[c].up
    /\ ws' = [ws EXCEPT ![c].txbuf = Tail(@)]
    /\ net' = [net EXCEPT ![c].pinged = @ \/ Head(ws[c].txbuf) = "ping",
                          ![c].peer = IF Head(ws[c].txbuf) = "close" /\ @ = "idle"
                                      THEN "asked" ELSE @]
    /\ UNCHANGED <<stk, log>>

\* send() failed: close the socket and, with _txbufMutex held, leave OPEN.
PushError(t) == LET c == Top(t).c IN
    /\ At(t, "push")
    /\ ws[c].sk = Nobody
    /\ ws[c].txbuf # <<>> /\ ~(ws[c].fd = "open" /\ net[c].up)
    /\ ws' = [ws EXCEPT ![c].fd = "shut"]
    /\ IF ws[c].st = "CLOSING" THEN Jump(t, "pushFailed")
                               ELSE Call(t, "pushFailed", "setClosed", "")
    /\ UNCHANGED <<net, log>>

PushFailed(t) == LET c == Top(t).c IN
    /\ At(t, "pushFailed")
    /\ ws' = [ws EXCEPT ![c].tx = Nobody]
    /\ CASE Top(t).arg \in Kinds  -> Jump(t, "sent")
         [] Top(t).arg = "inline" -> Return(t)
         [] Top(t).arg = "poll"   -> JumpWith(t, "dispatch", "failed")
    /\ UNCHANGED <<net, log>>

\* The end of sendData: wake the poll if something is left to send, and on
\* the server send it from here.
Sent(t) == LET c == Top(t).c IN
    /\ At(t, "sent")
    /\ ws[c].tx = Nobody
    /\ IF ws[c].txbuf = <<>>
       THEN Return(t) /\ UNCHANGED ws
       ELSE /\ ws[c].sk = Nobody
            /\ ws' = [ws EXCEPT ![c].pipe = Notify(@, "send")]
            /\ IF Blocking THEN JumpWith(t, "flush", "inline") ELSE Return(t)
    /\ UNCHANGED <<net, log>>

-----------------------------------------------------------------------------
(* flushSendBuffer, called by sendData ("inline") or by the poll ("poll"), *)
(* which goes on to dispatch at once when the flush fails.                 *)

\* isReadyToWrite looks at the wake-up pipe first, and takes a code from it;
\* with an fd of -1, or when the system's poll fails, the connection is closed.
FlushWait(t, c) ==
    \/ /\ ws[c].fd = "open" /\ ws[c].pipe # <<>>
       /\ ws' = [ws EXCEPT ![c].pipe = Tail(@)]
       /\ UNCHANGED stk
    \/ /\ ws[c].fd = "open" /\ ws[c].pipe = <<>>
       /\ ws' = [ws EXCEPT ![c].tx = t]
       /\ Jump(t, "push")
    \/ /\ ws[c].sk = Nobody
       /\ ws' = [ws EXCEPT ![c].fd = "shut"]
       /\ IF Top(t).arg = "poll" THEN CallFrom(t, "dispatch", "failed", "setClosed", "")
                                 ELSE JumpWith(t, "setClosed", "")

Flush(t) == LET c == Top(t).c IN
    /\ At(t, "flush")
    /\ ws[c].tx = Nobody
    /\ IF ws[c].txbuf = <<>> \/ ws[c].cancel
       THEN /\ IF Top(t).arg = "poll" THEN Jump(t, "polled") ELSE Return(t)
            /\ UNCHANGED ws
       ELSE FlushWait(t, c)
    /\ UNCHANGED <<net, log>>

-----------------------------------------------------------------------------
(* setReadyState(CLOSED): the callback runs before the state changes.      *)

\* Mutant: the state changes before the callback runs.
SetClosedFirst(t) ==
    /\ At(t, "setClosed")
    /\ IF ws[Top(t).c].st = "CLOSED"
       THEN Return(t) /\ UNCHANGED <<ws, log>>
       ELSE /\ ws' = [ws EXCEPT ![Top(t).c].st = "CLOSED"]
            /\ Emit(t, "nowClosed", "close")
    /\ UNCHANGED net

SetClosed(t) ==
    /\ At(t, "setClosed")
    /\ IF ws[Top(t).c].st = "CLOSED"
       THEN Return(t) /\ UNCHANGED log
       ELSE Emit(t, "nowClosed", "close")
    /\ UNCHANGED <<ws, net>>

NowClosed(t) ==
    /\ At(t, "nowClosed")
    /\ ws' = [ws EXCEPT ![Top(t).c].st = "CLOSED"]
    /\ Return(t)
    /\ UNCHANGED <<net, log>>

\* closeSocketAndSwitchToClosedState
Switch(t) == LET c == Top(t).c IN
    /\ At(t, "switch")
    /\ ws[c].sk = Nobody
    /\ ws' = [ws EXCEPT ![c].fd = "shut"]
    /\ Call(t, "switched", "setClosed", "")
    /\ UNCHANGED <<net, log>>

Switched(t) ==
    /\ At(t, "switched")
    /\ ws' = [ws EXCEPT ![Top(t).c].cancel = FALSE]
    /\ Return(t)
    /\ UNCHANGED <<net, log>>

-----------------------------------------------------------------------------
(* close()                                                                 *)

Close(t) ==
    /\ At(t, "close")
    /\ ws' = [ws EXCEPT ![Top(t).c].cancel = TRUE]
    /\ Jump(t, "closeIf")
    /\ UNCHANGED <<net, log>>

CloseIf(t) ==
    /\ At(t, "closeIf")
    /\ Jump(t, IF ws[Top(t).c].st = "OPEN" THEN "closing" ELSE "closeWake")
    /\ UNCHANGED <<ws, net, log>>

\* Mutant: close() closes the socket itself instead of waking the poll.
CloseHere(t) ==
    /\ At(t, "closeWake")
    /\ Jump(t, "switch")
    /\ UNCHANGED <<ws, net, log>>

\* Already closing or closed: only wake the poll, once _socketMutex is free.
CloseWake(t) == LET c == Top(t).c IN
    /\ At(t, "closeWake")
    /\ ws[c].sk = Nobody
    /\ ws' = [ws EXCEPT ![c].pipe = IF ws[c].fd = "none" THEN @ ELSE Notify(@, "close")]
    /\ Return(t)
    /\ UNCHANGED <<net, log>>

Closing(t) == LET c == Top(t).c IN
    /\ At(t, "closing")
    /\ ws' = [ws EXCEPT ![c].st = "CLOSING", ![c].late = FALSE]
    /\ Call(t, "closeSent", "send", "close")
    /\ UNCHANGED <<net, log>>

CloseSent(t) == LET c == Top(t).c IN
    /\ At(t, "closeSent")
    /\ ws[c].sk = Nobody
    /\ ws' = [ws EXCEPT ![c].pipe = Notify(@, "send")]
    /\ Return(t)
    /\ UNCHANGED <<net, log>>

-----------------------------------------------------------------------------
(* poll(): the heartbeat, the wait, and what the wait returns.             *)

Poll(t) == LET c == Top(t).c IN
    /\ At(t, "poll")
    /\ CASE ~(ws[c].st = "OPEN" /\ Ping /\ ws[c].pingDue) ->
              Jump(t, "select") /\ UNCHANGED ws
         [] ws[c].st = "OPEN" /\ Ping /\ ws[c].pingDue /\ ~ws[c].pong ->
              Call(t, "select", "close", "") /\ UNCHANGED ws
         [] OTHER ->
              /\ ws' = [ws EXCEPT ![c].pong = FALSE]
              /\ Call(t, "pinged", "send", "ping")
    /\ UNCHANGED <<net, log>>

\* The clock restarts when sendPing succeeds; when it fails the connection is
\* not OPEN any more and nobody looks at it.
Pinged(t) ==
    /\ At(t, "pinged")
    /\ ws' = [ws EXCEPT ![Top(t).c].pingDue = FALSE]
    /\ Jump(t, "select")
    /\ UNCHANGED <<net, log>>

\* The wait has no timeout while OPEN without pings, and when the time left
\* to the next ping, computed from a second reading of the clock, is negative.
\* A cancellation gives it one.  A socket whose fd is -1 is an error at once.
Select(t) == LET c == Top(t).c
                 left == IF Ping THEN ~ws[c].pingDue ELSE ws[c].st # "OPEN" IN
    /\ At(t, "select")
    /\ IF ws[c].fd # "open"
       THEN Jump(t, "polled")
       ELSE JumpWith(t, "wait", IF ws[c].cancel \/ left THEN "finite" ELSE "forever")
    /\ UNCHANGED <<ws, net, log>>

WaitWoken(t) == LET c == Top(t).c IN
    /\ At(t, "wait")
    /\ ws[c].pipe # <<>>
    /\ IF Head(ws[c].pipe) = "send"
       THEN /\ ws' = [ws EXCEPT ![c].pipe = Tail(@)]
            /\ JumpWith(t, "flush", "poll")
       ELSE /\ ws[c].sk = Nobody
            /\ ws' = [ws EXCEPT ![c].pipe = Tail(@), ![c].fd = "shut"]
            /\ Jump(t, "polled")
    /\ UNCHANGED <<net, log>>

\* receiveFromSocket reads all there is, and fails at the end of the stream.
WaitRead(t) == LET c == Top(t).c
                   dead == ~(ws[c].fd = "open" /\ net[c].up) IN
    /\ At(t, "wait")
    /\ ws[c].pipe = <<>>
    /\ ~net[c].up \/ net[c].rx # <<>>
    /\ dead => ws[c].sk = Nobody
    /\ ws' = [ws EXCEPT ![c].rxbuf = IF ws[c].fd = "open" THEN @ \o net[c].rx ELSE @,
                        ![c].fd = IF dead THEN "shut" ELSE @]
    /\ net' = [net EXCEPT ![c].rx = <<>>]
    /\ IF dead THEN JumpWith(t, "dispatch", "failed") ELSE Jump(t, "polled")
    /\ UNCHANGED log

WaitTimeout(t) == LET c == Top(t).c IN
    /\ At(t, "wait")
    /\ Top(t).arg = "finite"
    /\ ws[c].pipe = <<>> /\ net[c].rx = <<>> /\ net[c].up
    /\ Jump(t, "polled")
    /\ UNCHANGED <<ws, net, log>>

\* The system's poll fails, as when a signal interrupts it, or finds the socket
\* in error with nothing to read: the socket is closed, and poll() succeeds.
WaitError(t) == LET c == Top(t).c IN
    /\ At(t, "wait")
    /\ ws[c].sk = Nobody
    /\ ws' = [ws EXCEPT ![c].fd = "shut"]
    /\ net' = [net EXCEPT ![c].fault = ws[c].st = "OPEN"]
    /\ Jump(t, "polled")
    /\ UNCHANGED log

\* Mutant: a peer that does not answer in time is given up, its socket is not
\* closed.
PolledLeaks(t) == LET c == Top(t).c IN
    /\ At(t, "polled")
    /\ IF ws[c].st = "CLOSING" /\ ws[c].late
       THEN /\ ws' = [ws EXCEPT ![c].rxbuf = <<>>]
            /\ Call(t, "dispatch", "setClosed", "")
       ELSE Jump(t, "dispatch") /\ UNCHANGED ws
    /\ UNCHANGED <<net, log>>


\* The end of poll(): give up on a peer that does not answer our CLOSE.
Polled(t) == LET c == Top(t).c IN
    /\ At(t, "polled")
    /\ IF ws[c].st = "CLOSING" /\ ws[c].late
       THEN /\ ws[c].sk = Nobody
            /\ ws' = [ws EXCEPT ![c].rxbuf = <<>>, ![c].fd = "shut"]
            /\ Call(t, "dispatch", "setClosed", "")
       ELSE Jump(t, "dispatch") /\ UNCHANGED ws
    /\ UNCHANGED <<net, log>>

-----------------------------------------------------------------------------
(* dispatch(), on each frame of _rxbuf, with the result of poll() as arg.  *)

DispatchData(t) == LET c == Top(t).c IN
    /\ At(t, "dispatch")
    /\ ws[c].rxbuf # <<>> /\ Head(ws[c].rxbuf) = "data"
    /\ ws' = [ws EXCEPT ![c].rxbuf = Tail(@)]
    /\ Emit(t, "dispatch", "message")
    /\ UNCHANGED net

\* Reply right away, then tell the callback.
DispatchPing(t) == LET c == Top(t).c IN
    /\ At(t, "dispatch")
    /\ ws[c].rxbuf # <<>> /\ Head(ws[c].rxbuf) = "ping"
    /\ ws' = [ws EXCEPT ![c].rxbuf = Tail(@)]
    /\ Call(t, "ponged", "send", "pong")
    /\ UNCHANGED <<net, log>>

Ponged(t) ==
    /\ At(t, "ponged")
    /\ Emit(t, "dispatch", "ping")
    /\ UNCHANGED <<ws, net>>

DispatchPong(t) == LET c == Top(t).c IN
    /\ At(t, "dispatch")
    /\ ws[c].rxbuf # <<>> /\ Head(ws[c].rxbuf) = "pong"
    /\ ws' = [ws EXCEPT ![c].rxbuf = Tail(@), ![c].pong = TRUE]
    /\ Emit(t, "dispatch", "pong")
    /\ UNCHANGED net

\* A frame out of sequence or of an unknown type closes the connection, and
\* the first is a message all the same.
DispatchUnexpected(t) == LET c == Top(t).c IN
    /\ At(t, "dispatch")
    /\ ws[c].rxbuf # <<>> /\ Head(ws[c].rxbuf) \in {"unordered", "unknown"}
    /\ ws' = [ws EXCEPT ![c].rxbuf = Tail(@)]
    /\ Call(t, IF Head(ws[c].rxbuf) = "unordered" THEN "unordered" ELSE "dispatch", "close", "")
    /\ UNCHANGED <<net, log>>

Unordered(t) ==
    /\ At(t, "unordered")
    /\ Emit(t, "dispatch", "message")
    /\ UNCHANGED <<ws, net>>

\* Mutant: a frame that is refused is dropped.
RefusedDropped(t) == LET c == Top(t).c IN
    /\ At(t, "dispatch")
    /\ ws[c].rxbuf # <<>> /\ Head(ws[c].rxbuf) = "refused"
    /\ ws' = [ws EXCEPT ![c].rxbuf = Tail(@)]
    /\ UNCHANGED <<net, stk, log>>

\* A frame that is refused stays in _rxbuf, and dispatch returns at once ...
DispatchRefused(t) == LET c == Top(t).c IN
    /\ At(t, "dispatch")
    /\ ws[c].rxbuf # <<>> /\ Head(ws[c].rxbuf) = "refused"
    /\ Call(t, "check", "close", "")
    /\ UNCHANGED <<ws, net, log>>

\* ... as it does, whatever poll() returned, when a frame is not complete.
DispatchPart(t) == LET c == Top(t).c IN
    /\ At(t, "dispatch")
    /\ ws[c].rxbuf # <<>> /\ Head(ws[c].rxbuf) = "part"
    /\ Jump(t, "check")
    /\ UNCHANGED <<ws, net, log>>

\* A CLOSE frame from a peer that closes first is answered; one that comes
\* while we are closing ends the connection if code and reason are the same.
DispatchClose(t) == LET c == Top(t).c IN
    /\ At(t, "dispatch")
    /\ ws[c].rxbuf # <<>> /\ Head(ws[c].rxbuf) \in {"close", "ack"}
    /\ IF ws[c].st # "CLOSING"
       THEN /\ ws' = [ws EXCEPT ![c].rxbuf = Tail(@), ![c].st = "CLOSING"]
            /\ Call(t, "echoed", "send", "ack")
       ELSE /\ ws' = [ws EXCEPT ![c].rxbuf = Tail(@)]
            /\ \/ Call(t, "dispatch", "switch", "")
               \/ UNCHANGED stk
    /\ UNCHANGED <<net, log>>

Echoed(t) == LET c == Top(t).c IN
    /\ At(t, "echoed")
    /\ ws[c].sk = Nobody
    /\ ws' = [ws EXCEPT ![c].pipe = Notify(@, "close")]
    /\ Call(t, "dispatch", "switch", "")
    /\ UNCHANGED <<net, log>>

\* Mutant: a failed poll ends the connection only if it was closing.
DispatchEndClosing(t) == LET c == Top(t).c IN
    /\ At(t, "dispatch")
    /\ ws[c].rxbuf = <<>>
    /\ IF Top(t).arg = "failed" /\ ws[c].st = "CLOSING"
       THEN /\ ws[c].sk = Nobody
            /\ ws' = [ws EXCEPT ![c].fd = "shut"]
            /\ Call(t, "check", "setClosed", "")
       ELSE Jump(t, "check") /\ UNCHANGED ws
    /\ UNCHANGED <<net, log>>

\* After the frames, a failed poll closes the connection unless a frame did.
DispatchEnd(t) == LET c == Top(t).c IN
    /\ At(t, "dispatch")
    /\ ws[c].rxbuf = <<>>
    /\ IF Top(t).arg = "failed" /\ ws[c].st = "CLOSING"
       THEN /\ ws[c].sk = Nobody
            /\ ws' = [ws EXCEPT ![c].fd = "shut"]
            /\ Call(t, "check", "setClosed", "")
       ELSE /\ UNCHANGED ws
            /\ IF Top(t).arg = "failed" /\ ws[c].st = "OPEN"
               THEN Call(t, "check", "switch", "")
               ELSE Jump(t, "check")
    /\ UNCHANGED <<net, log>>

-----------------------------------------------------------------------------
(* One step of thread t inside the transport.                              *)

\* What the wait of poll() comes back with.
WaitStep(t) ==
    /\ At(t, "wait")
    /\ WaitWoken(t) \/ WaitRead(t) \/ WaitTimeout(t) \/ WaitError(t)

\* What dispatch does with the frame at the head of _rxbuf, or without one.
DispatchStep(t) ==
    /\ At(t, "dispatch")
    /\ \/ DispatchData(t) \/ DispatchPing(t) \/ DispatchPong(t) \/ DispatchUnexpected(t)
       \/ DispatchRefused(t) \/ DispatchPart(t) \/ DispatchClose(t) \/ DispatchEnd(t)

TransportStep(t) ==
    \/ Send(t) \/ AppendToSendBuffer(t)
    \/ PushDone(t) \/ PushFrame(t) \/ PushError(t) \/ PushFailed(t) \/ Sent(t)
    \/ Flush(t)
    \/ SetClosed(t) \/ NowClosed(t) \/ Switch(t) \/ Switched(t)
    \/ Close(t) \/ CloseIf(t) \/ CloseWake(t) \/ Closing(t) \/ CloseSent(t)
    \/ Poll(t) \/ Pinged(t) \/ Select(t) \/ WaitStep(t) \/ Polled(t)
    \/ DispatchStep(t) \/ Ponged(t) \/ Unordered(t) \/ Echoed(t)

(***************************************************************************)
(* The peer, the network and the clock.  A connection may break at any     *)
(* time; a peer that closes it after its CLOSE frame is the same step.     *)
(* What happens to it when its socket is closed is seen by a thread that   *)
(* waits on that socket, and by nobody else.                               *)
(***************************************************************************)
Seen(c) == net[c].up /\ (ws[c].fd = "open" \/ At(c, "wait"))

PeerSend(c, k) ==
    /\ Seen(c) /\ net[c].peer # "done" /\ net[c].sent < MaxSent
    /\ net' = [net EXCEPT ![c].rx = Append(@, k), ![c].sent = @ + 1,
                          ![c].peer = IF k \in {"close", "part"} THEN "done" ELSE @]
    /\ UNCHANGED <<ws, stk, log>>

PeerAnswer(c) ==
    /\ Seen(c) /\ net[c].peer = "asked"
    /\ net' = [net EXCEPT ![c].rx = Append(@, "ack"), ![c].peer = "done"]
    /\ UNCHANGED <<ws, stk, log>>

PeerPong(c) ==
    /\ Seen(c) /\ net[c].peer # "done" /\ net[c].pinged
    /\ net' = [net EXCEPT ![c].rx = Append(@, "pong"), ![c].pinged = FALSE]
    /\ UNCHANGED <<ws, stk, log>>

Break(c) ==
    /\ Seen(c)
    /\ net' = [net EXCEPT ![c].up = FALSE]
    /\ UNCHANGED <<ws, stk, log>>

\* kClosingMaximumWaitingDelayInMs have passed since close().
ClosingDelay(c) ==
    /\ ws[c].st = "CLOSING" /\ ~ws[c].late
    /\ ws' = [ws EXCEPT ![c].late = TRUE]
    /\ UNCHANGED <<net, stk, log>>

PingInterval(c) ==
    /\ Ping /\ ws[c].st = "OPEN" /\ ~ws[c].pingDue
    /\ ws' = [ws EXCEPT ![c].pingDue = TRUE]
    /\ UNCHANGED <<net, stk, log>>

Environment(c) ==
    \/ \E k \in PeerFrames : PeerSend(c, k)
    \/ PeerAnswer(c) \/ PeerPong(c) \/ Break(c)
    \/ ClosingDelay(c) \/ PingInterval(c)

=============================================================================

--------------------------- MODULE TransportProofs ---------------------------
(***************************************************************************)
(* The steps of the transport and of WebSocket::run, start and stop keep   *)
(* their types, whoever owns the connection: the client's and the server's *)
(* proofs share these lemmas.                                              *)
(***************************************************************************)
EXTENDS TransportProperties, SequenceTheorems, TLAPS

-----------------------------------------------------------------------------
(* Stacks: a frame that t may have keeps the stack of t well formed.       *)

StackOK(t, s) ==
    /\ s \in Seq(FrameType)
    /\ \A i \in 1 .. Len(s) : FrameOK(t, s[i])

GoodFrame(t, f) == f \in FrameType /\ FrameOK(t, f)

\* The stack is the last frame and what is below it.
LEMMA TopGood ==
    ASSUME NEW t \in Threads, StacksOK, stk[t] # <<>>
    PROVE  GoodFrame(t, Top(t))
  <1>1. stk[t] \in Seq(FrameType) /\ Len(stk[t]) \in 1 .. Len(stk[t])
    BY DEF StacksOK
  <1>2. QED
    BY <1>1 DEF StacksOK, Top, GoodFrame

\* Returning from a method leaves the frames below it.
LEMMA PopOK ==
    ASSUME NEW t, NEW s, StackOK(t, s), s # <<>>
    PROVE  StackOK(t, Pop(s))
  <1>1. s \in Seq(FrameType) /\ Len(s) \in Nat /\ Len(s) >= 1
    BY DEF StackOK
  <1>2. Pop(s) \in Seq(FrameType) /\ Len(Pop(s)) = Len(s) - 1
    <2> DEFINE n == Len(s) - 1
    <2>1. n \in Nat /\ \A i \in 1 .. n : s[i] \in FrameType
      BY <1>1
    <2>2. /\ SubSeq(s, 1, n) \in Seq(FrameType)
          /\ Len(SubSeq(s, 1, n)) = IF 1 <= n THEN n - 1 + 1 ELSE 0
      BY <2>1, SubSeqProperties
    <2>3. Len(SubSeq(s, 1, n)) = n
      <3>1. n \in Nat
        BY <2>1
      <3> HIDE DEF n
      <3>2. QED
        BY <2>2, <3>1
    <2>4. QED
      BY <2>2, <2>3 DEF Pop
  <1>3. \A i \in 1 .. Len(s) - 1 : Pop(s)[i] = s[i]
    BY <1>1 DEF Pop
  <1>4. QED
    BY <1>1, <1>2, <1>3 DEF StackOK

\* A jump replaces the last frame.
LEMMA SetTopOK ==
    ASSUME NEW t, NEW s, NEW f, StackOK(t, s), s # <<>>, GoodFrame(t, f)
    PROVE  StackOK(t, SetTop(s, f)) /\ SetTop(s, f) # <<>>
  BY DEF StackOK, GoodFrame, SetTop

\* A call adds one.
LEMMA PushOK ==
    ASSUME NEW t, NEW s, NEW f, StackOK(t, s), GoodFrame(t, f)
    PROVE  StackOK(t, Append(s, f))
  BY DEF StackOK, GoodFrame

\* A step that changes the stack of one thread.
LEMMA StackStep ==
    ASSUME NEW t \in Threads, NEW s, StacksOK, StackOK(t, s),
           stk' = [stk EXCEPT ![t] = s]
    PROVE  StacksOK'
  BY DEF StacksOK, StackOK

LEMMA StacksGood ==
    ASSUME NEW t \in Threads, StacksOK
    PROVE  StackOK(t, stk[t])
  BY DEF StacksOK, StackOK

LEMMA JumpOK ==
    ASSUME NEW t \in Threads, NEW label, NEW x, StacksOK, stk[t] # <<>>,
           GoodFrame(t, Frame(label, Top(t).c, x)), JumpWith(t, label, x)
    PROVE  StacksOK'
  BY StacksGood, SetTopOK, StackStep DEF JumpWith

LEMMA ReturnOK ==
    ASSUME NEW t \in Threads, StacksOK, stk[t] # <<>>, Return(t)
    PROVE  StacksOK'
  BY StacksGood, PopOK, StackStep DEF Return

LEMMA CallOK ==
    ASSUME NEW t \in Threads, NEW label, NEW y, NEW callee, NEW x,
           StacksOK, stk[t] # <<>>,
           GoodFrame(t, Frame(label, Top(t).c, y)),
           GoodFrame(t, Frame(callee, Top(t).c, x)),
           CallFrom(t, label, y, callee, x)
    PROVE  StacksOK'
  <1> DEFINE below == SetTop(stk[t], Frame(label, Top(t).c, y))
             s     == Append(below, Frame(callee, Top(t).c, x))
  <1>1. StackOK(t, below)
    BY StacksGood, SetTopOK
  <1>2. StackOK(t, s)
    BY <1>1, PushOK
  <1>3. stk' = [stk EXCEPT ![t] = s]
    BY DEF CallFrom
  <1>4. QED
    BY <1>2, <1>3, StackStep

LEMMA EmitOK ==
    ASSUME NEW t \in Threads, NEW label, NEW e \in Events,
           StacksOK, LogsOK, stk[t] # <<>>,
           GoodFrame(t, Frame(label, Top(t).c, Top(t).arg)),
           GoodFrame(t, Frame("callback", Top(t).c, e)),
           Emit(t, label, e)
    PROVE  StacksOK' /\ LogsOK'
  <1>1. StacksOK'
    BY CallOK DEF Emit, Call
  <1>2. Top(t).c \in Conns
    BY DEF GoodFrame, FrameOK, Frame, ServerLabels
  <1>3. LogsOK'
    BY <1>2 DEF Emit, LogsOK
  <1>4. QED
    BY <1>1, <1>3

-----------------------------------------------------------------------------
(* Frames a thread may have.                                               *)

SendLabels == {"send", "append", "push", "pushFailed", "flush"}

\* The points whose frames have no condition on their argument or their thread.
PlainLabels == Labels \ (SendLabels \cup {"callback"} \cup LoopLabels \cup ServeLabels)

LEMMA MethodsPlain ==
    { "sent", "setClosed", "nowClosed", "close", "closeIf", "closeWake", "closing",
      "closeSent", "start", "stop", "stopThread", "join", "stopped" } \subseteq PlainLabels
  BY DEF PlainLabels, SendLabels, Labels, MethodLabels, LoopLabels, ServeLabels

\* A method whose argument does not matter.
LEMMA PlainFrame ==
    ASSUME NEW t, NEW c \in Conns, NEW x \in Args, NEW label \in PlainLabels
    PROVE  GoodFrame(t, Frame(label, c, x))
  BY DEF GoodFrame, FrameOK, FrameType, Frame, PlainLabels, SendLabels

\* A send has something to send.
LEMMA SendFrame ==
    ASSUME NEW t, NEW c \in Conns, NEW x \in Kinds, NEW label \in SendLabels \ {"flush"}
    PROVE  GoodFrame(t, Frame(label, c, x))
  BY DEF GoodFrame, FrameOK, FrameType, Frame, Labels, LoopLabels, ServeLabels,
         ServerLabels, MethodLabels, OwnerLabels, SendLabels,
         Args, Kinds

\* The loop runs in the connection's own thread.
LEMMA LoopFrame ==
    ASSUME NEW c \in Conns, NEW x \in Args, NEW label \in LoopLabels
    PROVE  GoodFrame(c, Frame(label, c, x))
  BY DEF GoodFrame, FrameOK, FrameType, Frame, Labels, LoopLabels, ServeLabels,
         ServerLabels, MethodLabels, OwnerLabels

LEMMA CallbackFrame ==
    ASSUME NEW t, NEW c \in Conns, NEW e \in Events, e \in LoopEvents => t = c
    PROVE  GoodFrame(t, Frame("callback", c, e))
  BY DEF GoodFrame, FrameOK, FrameType, Frame, Labels, LoopLabels, ServeLabels,
         ServerLabels, MethodLabels, OwnerLabels, Args

\* A send and a flush go on with what they were called with, and only the
\* connection's own thread flushes for the poll.
LEMMA FlushFrame ==
    ASSUME NEW t, NEW c \in Conns, NEW x \in {"inline", "poll"}, x = "poll" => c = t,
           NEW label \in {"push", "pushFailed", "flush"}
    PROVE  GoodFrame(t, Frame(label, c, x))
  BY DEF GoodFrame, FrameOK, FrameType, Frame, Labels, LoopLabels, ServeLabels,
         ServerLabels, MethodLabels, OwnerLabels, Args, Kinds

-----------------------------------------------------------------------------
(* Sockets, peers and logs.                                                *)

LEMMA SocketStep ==
    ASSUME NEW c \in Conns, NEW r \in SocketType, SocketsOK, ws' = [ws EXCEPT ![c] = r]
    PROVE  SocketsOK'
  BY DEF SocketsOK

LEMMA SocketAt ==
    ASSUME NEW c \in Conns, SocketsOK
    PROVE  /\ ws[c] \in SocketType
           /\ ws[c].txbuf \in Seq(Kinds) /\ ws[c].rxbuf \in Seq(Received)
           /\ ws[c].pipe \in Seq({"send", "close"})
  BY DEF SocketsOK, SocketType

LEMMA NoFrames == <<>> \in Seq(Kinds) /\ <<>> \in Seq(Received)
  OBVIOUS

LEMMA NotifyOK ==
    ASSUME NEW p \in Seq({"send", "close"}), NEW code \in {"send", "close"}
    PROVE  Notify(p, code) \in Seq({"send", "close"})
  BY DEF Notify

LEMMA PeerStep ==
    ASSUME NEW c \in Conns, NEW r \in PeerType, PeersOK, net' = [net EXCEPT ![c] = r]
    PROVE  PeersOK'
  BY DEF PeersOK

LEMMA PeerAt ==
    ASSUME NEW c \in Conns, PeersOK
    PROVE  net[c] \in PeerType /\ net[c].rx \in Seq(Received)
  BY DEF PeersOK, PeerType

\* Where a thread that is at `label' may be, and on which connection.
LEMMA AtFrame ==
    ASSUME NEW t \in Threads, NEW label, label \notin ServerLabels,
           TransportOK, At(t, label)
    PROVE  /\ stk[t] # <<>>
           /\ Top(t).c \in Conns /\ Top(t).arg \in Args
           /\ GoodFrame(t, Top(t)) /\ Top(t).at = label
           /\ label \in LoopLabels \cup ServeLabels => t = Top(t).c
           /\ ws[Top(t).c] \in SocketType /\ net[Top(t).c] \in PeerType
  <1>1. stk[t] # <<>> /\ GoodFrame(t, Top(t)) /\ Top(t).at = label
    BY TopGood DEF At, TransportOK
  <1>2. Top(t).c \in Conns /\ Top(t).arg \in Args /\ (label \in LoopLabels \cup ServeLabels => t = Top(t).c)
    BY <1>1 DEF GoodFrame, FrameOK, FrameType
  <1>3. QED
    BY <1>1, <1>2 DEF TransportOK, SocketsOK, PeersOK

LEMMA FlushArg ==
    ASSUME NEW t \in Threads, NEW label \in {"push", "pushFailed", "flush"},
           TransportOK, At(t, label)
    PROVE  /\ Top(t).arg \in Kinds \cup {"inline", "poll"}
           /\ label = "flush" => Top(t).arg \in {"inline", "poll"}
           /\ Top(t).arg = "poll" => Top(t).c = t
           /\ Top(t).arg \in {"inline", "poll"} => Top(t).arg \notin Kinds
  BY AtFrame DEF GoodFrame, FrameOK, Kinds, ServerLabels

-----------------------------------------------------------------------------
(* The steps of the transport.                                             *)

LEMMA SendTypes ==
    ASSUME NEW t \in Threads, TransportOK,
           \/ Send(t) \/ AppendToSendBuffer(t)
           \/ PushDone(t) \/ PushFrame(t) \/ PushError(t) \/ PushFailed(t)
           \/ Sent(t) \/ Flush(t)
    PROVE  TransportOK'
  <1> USE DEF TransportOK, ServerLabels
  <1> DEFINE c == Top(t).c
             x == Top(t).arg
  <1>1. CASE Send(t)
    <2>1. At(t, "send") /\ x \in Kinds
      BY <1>1, AtFrame DEF Send, GoodFrame, FrameOK
    <2>2. GoodFrame(t, Frame("append", c, x))
      BY <2>1, AtFrame, SendFrame DEF SendLabels
    <2>3. StacksOK'
      BY <1>1, <2>1, <2>2, AtFrame, JumpOK, ReturnOK DEF Send, Jump
    <2>4. QED
      BY <1>1, <2>3 DEF Send, SocketsOK, PeersOK, LogsOK
  <1>2. CASE AppendToSendBuffer(t)
    <2>1. At(t, "append") /\ c \in Conns /\ ws[c] \in SocketType /\ x \in Kinds
      BY <1>2, AtFrame DEF AppendToSendBuffer, GoodFrame, FrameOK
    <2>2. GoodFrame(t, Frame("push", c, x))
      BY <2>1, SendFrame DEF SendLabels
    <2>3. StacksOK'
      BY <1>2, <2>1, <2>2, AtFrame, JumpOK DEF AppendToSendBuffer, Jump
    <2>4. ws[c] \in SocketType /\ Append(ws[c].txbuf, x) \in Seq(Kinds)
      BY <2>1, SocketAt
    <2>5. [ws[c] EXCEPT !.tx = t, !.txbuf = Append(@, x)] \in SocketType
      BY <2>4 DEF SocketType
    <2>6. SocketsOK'
      BY <1>2, <2>1, <2>5, SocketStep DEF AppendToSendBuffer
    <2>7. QED
      BY <1>2, <2>3, <2>6 DEF AppendToSendBuffer, PeersOK, LogsOK
  <1>3. CASE PushDone(t)
    <2>1. At(t, "push") /\ c \in Conns /\ ws[c] \in SocketType
      BY <1>3, AtFrame DEF PushDone
    <2>2. x \in Kinds => GoodFrame(t, Frame("sent", c, x))
      BY <2>1, AtFrame, PlainFrame, MethodsPlain
    <2>3. x \notin Kinds => GoodFrame(t, Frame("flush", c, x))
      BY <2>1, AtFrame, FlushArg, FlushFrame
    <2>4. StacksOK'
      BY <1>3, <2>1, <2>2, <2>3, AtFrame, JumpOK DEF PushDone, Jump
    <2>5. [ws[c] EXCEPT !.tx = Nobody] \in SocketType
      BY <2>1 DEF SocketType
    <2>6. SocketsOK'
      BY <1>3, <2>1, <2>5, SocketStep DEF PushDone
    <2>7. QED
      BY <1>3, <2>4, <2>6 DEF PushDone, PeersOK, LogsOK
  <1>4. CASE PushFrame(t)
    <2>1. c \in Conns /\ ws[c] \in SocketType /\ net[c] \in PeerType /\ ws[c].txbuf # <<>>
      BY <1>4, AtFrame DEF PushFrame
    <2>2. ws[c] \in SocketType /\ Tail(ws[c].txbuf) \in Seq(Kinds)
      BY <2>1, SocketAt
    <2>3. [ws[c] EXCEPT !.txbuf = Tail(@)] \in SocketType
      BY <2>2 DEF SocketType
    <2>4. SocketsOK'
      BY <1>4, <2>1, <2>3, SocketStep DEF PushFrame
    <2> DEFINE p == IF Head(ws[c].txbuf) = "close" /\ net[c].peer = "idle"
                    THEN "asked" ELSE net[c].peer
               q == net[c].pinged \/ Head(ws[c].txbuf) = "ping"
    <2>5. [net[c] EXCEPT !.pinged = q, !.peer = p] \in PeerType
      BY <2>1 DEF PeerType
    <2>6. net' = [net EXCEPT ![c] = [net[c] EXCEPT !.pinged = q, !.peer = p]]
      BY <1>4, <2>1 DEF PushFrame, PeersOK
    <2> HIDE DEF p, q
    <2>7. PeersOK'
      BY <2>1, <2>5, <2>6, PeerStep
    <2>8. QED
      BY <1>4, <2>4, <2>7 DEF PushFrame, StacksOK, LogsOK
  <1>5. CASE PushError(t)
    <2>1. At(t, "push") /\ c \in Conns /\ ws[c] \in SocketType
      BY <1>5, AtFrame DEF PushError
    <2>2. GoodFrame(t, Frame("pushFailed", c, x))
      BY <2>1, AtFrame, FlushArg, FlushFrame, SendFrame DEF SendLabels
    <2>3. GoodFrame(t, Frame("setClosed", c, ""))
      BY <2>1, AtFrame, PlainFrame, MethodsPlain DEF Args
    <2>4. StacksOK'
      BY <1>5, <2>1, <2>2, <2>3, AtFrame, JumpOK, CallOK DEF PushError, Jump, Call
    <2>5. [ws[c] EXCEPT !.fd = "shut"] \in SocketType
      BY <2>1 DEF SocketType
    <2>6. SocketsOK'
      BY <1>5, <2>1, <2>5, SocketStep DEF PushError
    <2>7. QED
      BY <1>5, <2>4, <2>6 DEF PushError, PeersOK, LogsOK
  <1>6. CASE PushFailed(t)
    <2>1. At(t, "pushFailed") /\ c \in Conns /\ ws[c] \in SocketType
      BY <1>6, AtFrame DEF PushFailed
    <2>2. GoodFrame(t, Frame("sent", c, x))
      BY <2>1, AtFrame, PlainFrame, MethodsPlain
    <2>3. x = "poll" => t \in Conns /\ c = t
      BY <2>1, FlushArg
    <2>4. x = "poll" => GoodFrame(t, Frame("dispatch", c, "failed"))
      BY <2>3, LoopFrame DEF LoopLabels, Args
    <2>5. StacksOK'
      BY <1>6, <2>1, <2>2, <2>4, AtFrame, FlushArg, JumpOK, ReturnOK DEF PushFailed, Jump
    <2>6. [ws[c] EXCEPT !.tx = Nobody] \in SocketType
      BY <2>1 DEF SocketType
    <2>7. SocketsOK'
      BY <1>6, <2>1, <2>6, SocketStep DEF PushFailed
    <2>8. QED
      BY <1>6, <2>5, <2>7 DEF PushFailed, PeersOK, LogsOK
  <1>7. CASE Sent(t)
    <2>1. At(t, "sent") /\ c \in Conns /\ ws[c] \in SocketType
      BY <1>7, AtFrame DEF Sent
    <2>2. GoodFrame(t, Frame("flush", c, "inline"))
      BY <2>1, FlushFrame
    <2>3. StacksOK'
      BY <1>7, <2>1, <2>2, AtFrame, JumpOK, ReturnOK DEF Sent
    <2>4. ws[c] \in SocketType /\ Notify(ws[c].pipe, "send") \in Seq({"send", "close"})
      BY <2>1, SocketAt, NotifyOK
    <2>5. [ws[c] EXCEPT !.pipe = Notify(@, "send")] \in SocketType
      BY <2>4 DEF SocketType
    <2>6. SocketsOK'
      BY <1>7, <2>1, <2>5, SocketStep DEF Sent, SocketsOK
    <2>7. QED
      BY <1>7, <2>3, <2>6 DEF Sent, PeersOK, LogsOK
  <1>8. CASE Flush(t)
    <2>1. At(t, "flush") /\ c \in Conns /\ ws[c] \in SocketType
      BY <1>8, AtFrame DEF Flush
    <2>2. x = "poll" => t \in Conns /\ c = t
      BY <2>1, FlushArg
    <2>3. x = "poll" => /\ GoodFrame(t, Frame("polled", c, x))
                        /\ GoodFrame(t, Frame("dispatch", c, "failed"))
      BY <2>2, LoopFrame DEF LoopLabels, Args
    <2>4. GoodFrame(t, Frame("push", c, x))
      BY <2>1, AtFrame, FlushArg, FlushFrame
    <2>5. GoodFrame(t, Frame("setClosed", c, ""))
      BY <2>1, AtFrame, PlainFrame, MethodsPlain DEF Args
    <2>6. StacksOK'
      BY <1>8, <2>1, <2>3, <2>4, <2>5, AtFrame, JumpOK, ReturnOK, CallOK
         DEF Flush, FlushWait, Jump, StacksOK
    <2>7. /\ ws[c].pipe # <<>> => [ws[c] EXCEPT !.pipe = Tail(@)] \in SocketType
          /\ [ws[c] EXCEPT !.tx = t] \in SocketType
          /\ [ws[c] EXCEPT !.fd = "shut"] \in SocketType
      <3>1. ws[c].pipe # <<>> => Tail(ws[c].pipe) \in Seq({"send", "close"})
        BY <2>1, SocketAt
      <3>2. QED
        BY <2>1, <3>1 DEF SocketType
    <2>8. SocketsOK'
      BY <1>8, <2>1, <2>7, SocketStep DEF Flush, FlushWait, SocketsOK
    <2>9. QED
      BY <1>8, <2>6, <2>8 DEF Flush, PeersOK, LogsOK
  <1>9. QED
    BY <1>1, <1>2, <1>3, <1>4, <1>5, <1>6, <1>7, <1>8

LEMMA CloseTypes ==
    ASSUME NEW t \in Threads, TransportOK,
           \/ SetClosed(t) \/ NowClosed(t) \/ Switch(t) \/ Switched(t)
           \/ Close(t) \/ CloseIf(t) \/ CloseWake(t) \/ Closing(t) \/ CloseSent(t)
    PROVE  TransportOK'
  <1> USE DEF TransportOK, ServerLabels
  <1> DEFINE c == Top(t).c
             x == Top(t).arg
  <1>1. CASE SetClosed(t)
    <2>1. At(t, "setClosed") /\ c \in Conns /\ x \in Args
      BY <1>1, AtFrame DEF SetClosed
    <2>2. GoodFrame(t, Frame("nowClosed", c, x))
      BY <2>1, PlainFrame, MethodsPlain
    <2>3. GoodFrame(t, Frame("callback", c, "close")) /\ "close" \in Events
      BY <2>1, CallbackFrame DEF LoopEvents, Events
    <2>4. StacksOK' /\ LogsOK'
      BY <1>1, <2>1, <2>2, <2>3, AtFrame, ReturnOK, EmitOK DEF SetClosed, LogsOK
    <2>5. QED
      BY <1>1, <2>4 DEF SetClosed, SocketsOK, PeersOK
  <1>2. CASE NowClosed(t)
    <2>1. At(t, "nowClosed") /\ c \in Conns /\ ws[c] \in SocketType
      BY <1>2, AtFrame DEF NowClosed
    <2>2. StacksOK'
      BY <1>2, <2>1, AtFrame, ReturnOK DEF NowClosed
    <2>3. [ws[c] EXCEPT !.st = "CLOSED"] \in SocketType
      BY <2>1 DEF SocketType, ReadyState
    <2>4. SocketsOK'
      BY <1>2, <2>1, <2>3, SocketStep DEF NowClosed
    <2>5. QED
      BY <1>2, <2>2, <2>4 DEF NowClosed, PeersOK, LogsOK
  <1>3. CASE Switch(t)
    <2>1. At(t, "switch") /\ c \in Conns /\ t = c /\ x \in Args /\ ws[c] \in SocketType
      BY <1>3, AtFrame DEF Switch, LoopLabels
    <2>2. GoodFrame(t, Frame("switched", c, x))
      BY <2>1, LoopFrame DEF LoopLabels
    <2>3. GoodFrame(t, Frame("setClosed", c, ""))
      BY <2>1, PlainFrame, MethodsPlain DEF Args
    <2>4. StacksOK'
      BY <1>3, <2>1, <2>2, <2>3, AtFrame, CallOK DEF Switch, Call
    <2>5. [ws[c] EXCEPT !.fd = "shut"] \in SocketType
      BY <2>1 DEF SocketType
    <2>6. SocketsOK'
      BY <1>3, <2>1, <2>5, SocketStep DEF Switch
    <2>7. QED
      BY <1>3, <2>4, <2>6 DEF Switch, PeersOK, LogsOK
  <1>4. CASE Switched(t)
    <2>1. At(t, "switched") /\ c \in Conns /\ ws[c] \in SocketType
      BY <1>4, AtFrame DEF Switched
    <2>2. StacksOK'
      BY <1>4, <2>1, AtFrame, ReturnOK DEF Switched
    <2>3. [ws[c] EXCEPT !.cancel = FALSE] \in SocketType
      BY <2>1 DEF SocketType
    <2>4. SocketsOK'
      BY <1>4, <2>1, <2>3, SocketStep DEF Switched
    <2>5. QED
      BY <1>4, <2>2, <2>4 DEF Switched, PeersOK, LogsOK
  <1>5. CASE Close(t)
    <2>1. At(t, "close") /\ c \in Conns /\ x \in Args /\ ws[c] \in SocketType
      BY <1>5, AtFrame DEF Close
    <2>2. GoodFrame(t, Frame("closeIf", c, x))
      BY <2>1, PlainFrame, MethodsPlain
    <2>3. StacksOK'
      BY <1>5, <2>1, <2>2, AtFrame, JumpOK DEF Close, Jump
    <2>4. [ws[c] EXCEPT !.cancel = TRUE] \in SocketType
      BY <2>1 DEF SocketType
    <2>5. SocketsOK'
      BY <1>5, <2>1, <2>4, SocketStep DEF Close
    <2>6. QED
      BY <1>5, <2>3, <2>5 DEF Close, PeersOK, LogsOK
  <1>6. CASE CloseIf(t)
    <2>1. At(t, "closeIf") /\ c \in Conns /\ x \in Args
      BY <1>6, AtFrame DEF CloseIf
    <2>2. /\ GoodFrame(t, Frame("closing", c, x))
          /\ GoodFrame(t, Frame("closeWake", c, x))
      BY <2>1, PlainFrame, MethodsPlain
    <2>3. StacksOK'
      BY <1>6, <2>1, <2>2, AtFrame, JumpOK DEF CloseIf, Jump
    <2>4. QED
      BY <1>6, <2>3 DEF CloseIf, SocketsOK, PeersOK, LogsOK
  <1>7. CASE CloseWake(t)
    <2>1. At(t, "closeWake") /\ c \in Conns /\ ws[c] \in SocketType
      BY <1>7, AtFrame DEF CloseWake
    <2>2. StacksOK'
      BY <1>7, <2>1, AtFrame, ReturnOK DEF CloseWake
    <2>3. Notify(ws[c].pipe, "close") \in Seq({"send", "close"})
      BY <2>1, SocketAt, NotifyOK
    <2>4. [ws[c] EXCEPT !.pipe = IF ws[c].fd = "none" THEN @ ELSE Notify(@, "close")]
              \in SocketType
      BY <2>1, <2>3 DEF SocketType
    <2>5. SocketsOK'
      BY <1>7, <2>1, <2>4, SocketStep DEF CloseWake
    <2>6. QED
      BY <1>7, <2>2, <2>5 DEF CloseWake, PeersOK, LogsOK
  <1>8. CASE Closing(t)
    <2>1. At(t, "closing") /\ c \in Conns /\ x \in Args /\ ws[c] \in SocketType
      BY <1>8, AtFrame DEF Closing
    <2>2. GoodFrame(t, Frame("closeSent", c, x))
      BY <2>1, PlainFrame, MethodsPlain
    <2>3. GoodFrame(t, Frame("send", c, "close"))
      BY <2>1, SendFrame DEF Kinds, SendLabels
    <2>4. StacksOK'
      BY <1>8, <2>1, <2>2, <2>3, AtFrame, CallOK DEF Closing, Call
    <2>5. [ws[c] EXCEPT !.st = "CLOSING", !.late = FALSE] \in SocketType
      BY <2>1 DEF SocketType, ReadyState
    <2>6. SocketsOK'
      BY <1>8, <2>1, <2>5, SocketStep DEF Closing
    <2>7. QED
      BY <1>8, <2>4, <2>6 DEF Closing, PeersOK, LogsOK
  <1>9. CASE CloseSent(t)
    <2>1. At(t, "closeSent") /\ c \in Conns /\ ws[c] \in SocketType
      BY <1>9, AtFrame DEF CloseSent
    <2>2. StacksOK'
      BY <1>9, <2>1, AtFrame, ReturnOK DEF CloseSent
    <2>3. Notify(ws[c].pipe, "send") \in Seq({"send", "close"})
      BY <2>1, SocketAt, NotifyOK
    <2>4. [ws[c] EXCEPT !.pipe = Notify(@, "send")] \in SocketType
      BY <2>1, <2>3 DEF SocketType
    <2>5. SocketsOK'
      BY <1>9, <2>1, <2>4, SocketStep DEF CloseSent
    <2>6. QED
      BY <1>9, <2>2, <2>5 DEF CloseSent, PeersOK, LogsOK
  <1>10. QED
    BY <1>1, <1>2, <1>3, <1>4, <1>5, <1>6, <1>7, <1>8, <1>9

LEMMA PollTypes ==
    ASSUME NEW t \in Threads, TransportOK,
           \/ Poll(t) \/ Pinged(t) \/ Select(t)
           \/ WaitWoken(t) \/ WaitRead(t) \/ WaitTimeout(t) \/ WaitError(t) \/ Polled(t)
    PROVE  TransportOK'
  <1> USE DEF TransportOK, ServerLabels
  <1> DEFINE c == Top(t).c
             x == Top(t).arg
  <1>1. CASE Poll(t)
    <2>1. At(t, "poll") /\ c \in Conns /\ t = c /\ x \in Args /\ ws[c] \in SocketType
      BY <1>1, AtFrame DEF Poll, LoopLabels
    <2>2. /\ GoodFrame(t, Frame("select", c, x))
          /\ GoodFrame(t, Frame("pinged", c, x))
      BY <2>1, LoopFrame DEF LoopLabels
    <2>3. /\ GoodFrame(t, Frame("close", c, ""))
          /\ GoodFrame(t, Frame("send", c, "ping"))
      BY <2>1, PlainFrame, SendFrame, MethodsPlain DEF Args, Kinds, SendLabels
    <2>4. StacksOK'
      BY <1>1, <2>1, <2>2, <2>3, AtFrame, JumpOK, CallOK DEF Poll, Call, Jump
    <2>5. [ws[c] EXCEPT !.pong = FALSE] \in SocketType
      BY <2>1 DEF SocketType
    <2>6. SocketsOK'
      BY <1>1, <2>1, <2>5, SocketStep DEF Poll, SocketsOK
    <2>7. QED
      BY <1>1, <2>4, <2>6 DEF Poll, PeersOK, LogsOK
  <1>2. CASE Pinged(t)
    <2>1. At(t, "pinged") /\ c \in Conns /\ t = c /\ x \in Args /\ ws[c] \in SocketType
      BY <1>2, AtFrame DEF Pinged, LoopLabels
    <2>2. GoodFrame(t, Frame("select", c, x))
      BY <2>1, LoopFrame DEF LoopLabels
    <2>3. StacksOK'
      BY <1>2, <2>1, <2>2, AtFrame, JumpOK DEF Pinged, Jump
    <2>4. [ws[c] EXCEPT !.pingDue = FALSE] \in SocketType
      BY <2>1 DEF SocketType
    <2>5. SocketsOK'
      BY <1>2, <2>1, <2>4, SocketStep DEF Pinged
    <2>6. QED
      BY <1>2, <2>3, <2>5 DEF Pinged, PeersOK, LogsOK
  <1>3. CASE Select(t)
    <2>1. At(t, "select") /\ c \in Conns /\ t = c /\ x \in Args
      BY <1>3, AtFrame DEF Select, LoopLabels
    <2>2. /\ GoodFrame(t, Frame("polled", c, x))
          /\ GoodFrame(t, Frame("wait", c, "finite"))
          /\ GoodFrame(t, Frame("wait", c, "forever"))
      BY <2>1, LoopFrame DEF LoopLabels, Args
    <2>3. StacksOK'
      BY <1>3, <2>1, <2>2, AtFrame, JumpOK DEF Select, Jump
    <2>4. QED
      BY <1>3, <2>3 DEF Select, SocketsOK, PeersOK, LogsOK
  <1>4. CASE WaitWoken(t)
    <2>1. /\ At(t, "wait") /\ c \in Conns /\ t = c /\ x \in Args
          /\ ws[c] \in SocketType /\ ws[c].pipe # <<>>
      BY <1>4, AtFrame DEF WaitWoken, LoopLabels
    <2>2. GoodFrame(t, Frame("flush", c, "poll"))
      BY <2>1, FlushFrame
    <2>3. GoodFrame(t, Frame("polled", c, x))
      BY <2>1, LoopFrame DEF LoopLabels
    <2>4. StacksOK'
      BY <1>4, <2>1, <2>2, <2>3, AtFrame, JumpOK DEF WaitWoken, Jump
    <2>5. Tail(ws[c].pipe) \in Seq({"send", "close"})
      BY <2>1, SocketAt
    <2>6. /\ [ws[c] EXCEPT !.pipe = Tail(@)] \in SocketType
          /\ [ws[c] EXCEPT !.pipe = Tail(@), !.fd = "shut"] \in SocketType
      BY <2>1, <2>5 DEF SocketType
    <2>7. SocketsOK'
      BY <1>4, <2>1, <2>6, SocketStep DEF WaitWoken
    <2>8. QED
      BY <1>4, <2>4, <2>7 DEF WaitWoken, PeersOK, LogsOK
  <1>5. CASE WaitRead(t)
    <2>1. /\ At(t, "wait") /\ c \in Conns /\ t = c /\ x \in Args
          /\ ws[c] \in SocketType /\ net[c] \in PeerType
      BY <1>5, AtFrame DEF WaitRead, LoopLabels
    <2>2. /\ GoodFrame(t, Frame("dispatch", c, "failed"))
          /\ GoodFrame(t, Frame("polled", c, x))
      BY <2>1, LoopFrame DEF LoopLabels, Args
    <2>3. StacksOK'
      BY <1>5, <2>1, <2>2, AtFrame, JumpOK DEF WaitRead, Jump
    <2> DEFINE r == IF ws[c].fd = "open" THEN ws[c].rxbuf \o net[c].rx ELSE ws[c].rxbuf
               d == IF ~(ws[c].fd = "open" /\ net[c].up) THEN "shut" ELSE ws[c].fd
    <2>4. r \in Seq(Received)
      BY <2>1, SocketAt, PeerAt
    <2>5. d \in {"none", "open", "shut"}
      BY <2>1 DEF SocketType
    <2>6. ws' = [ws EXCEPT ![c] = [ws[c] EXCEPT !.rxbuf = r, !.fd = d]]
      BY <1>5, <2>1 DEF WaitRead, SocketsOK
    <2> HIDE DEF r, d
    <2>7. [ws[c] EXCEPT !.rxbuf = r, !.fd = d] \in SocketType
      BY <2>1, <2>4, <2>5 DEF SocketType
    <2>8. SocketsOK'
      BY <2>1, <2>6, <2>7, SocketStep
    <2>9. [net[c] EXCEPT !.rx = <<>>] \in PeerType
      BY <2>1, NoFrames DEF PeerType
    <2>10. PeersOK'
      BY <1>5, <2>1, <2>9, PeerStep DEF WaitRead
    <2>11. QED
      BY <1>5, <2>3, <2>8, <2>10 DEF WaitRead, LogsOK
  <1>6. CASE WaitTimeout(t)
    <2>1. At(t, "wait") /\ c \in Conns /\ t = c /\ x \in Args
      BY <1>6, AtFrame DEF WaitTimeout, LoopLabels
    <2>2. GoodFrame(t, Frame("polled", c, x))
      BY <2>1, LoopFrame DEF LoopLabels
    <2>3. StacksOK'
      BY <1>6, <2>1, <2>2, AtFrame, JumpOK DEF WaitTimeout, Jump
    <2>4. QED
      BY <1>6, <2>3 DEF WaitTimeout, SocketsOK, PeersOK, LogsOK
  <1>7. CASE Polled(t)
    <2>1. At(t, "polled") /\ c \in Conns /\ t = c /\ x \in Args /\ ws[c] \in SocketType
      BY <1>7, AtFrame DEF Polled, LoopLabels
    <2>2. GoodFrame(t, Frame("dispatch", c, x))
      BY <2>1, LoopFrame DEF LoopLabels
    <2>3. GoodFrame(t, Frame("setClosed", c, ""))
      BY <2>1, PlainFrame, MethodsPlain DEF Args
    <2>4. StacksOK'
      BY <1>7, <2>1, <2>2, <2>3, AtFrame, JumpOK, CallOK DEF Polled, Call, Jump
    <2>5. [ws[c] EXCEPT !.rxbuf = <<>>, !.fd = "shut"] \in SocketType
      BY <2>1, NoFrames DEF SocketType
    <2>6. SocketsOK'
      BY <1>7, <2>1, <2>5, SocketStep DEF Polled, SocketsOK
    <2>7. QED
      BY <1>7, <2>4, <2>6 DEF Polled, PeersOK, LogsOK
  <1>8. CASE WaitError(t)
    <2>1. /\ At(t, "wait") /\ c \in Conns /\ t = c /\ x \in Args
          /\ ws[c] \in SocketType /\ net[c] \in PeerType
      BY <1>8, AtFrame DEF WaitError, LoopLabels
    <2>2. GoodFrame(t, Frame("polled", c, x))
      BY <2>1, LoopFrame DEF LoopLabels
    <2>3. StacksOK'
      BY <1>8, <2>1, <2>2, AtFrame, JumpOK DEF WaitError, Jump
    <2>4. [ws[c] EXCEPT !.fd = "shut"] \in SocketType
      BY <2>1 DEF SocketType
    <2>5. SocketsOK'
      BY <1>8, <2>1, <2>4, SocketStep DEF WaitError
    <2>6. [net[c] EXCEPT !.fault = (ws[c].st = "OPEN")] \in PeerType
      <3> DEFINE open == ws[c].st = "OPEN"
      <3>1. open \in BOOLEAN
        OBVIOUS
      <3> HIDE DEF open
      <3>2. [net[c] EXCEPT !.fault = open] \in PeerType
        BY <2>1, <3>1 DEF PeerType
      <3>3. QED
        BY <3>2 DEF open
    <2>7. PeersOK'
      BY <1>8, <2>1, <2>6, PeerStep DEF WaitError
    <2>8. QED
      BY <1>8, <2>3, <2>5, <2>7 DEF WaitError, LogsOK
  <1>9. QED
    BY <1>1, <1>2, <1>3, <1>4, <1>5, <1>6, <1>7, <1>8

LEMMA DispatchTypes ==
    ASSUME NEW t \in Threads, TransportOK,
           \/ DispatchData(t) \/ DispatchPing(t) \/ Ponged(t) \/ DispatchPong(t)
           \/ DispatchUnexpected(t) \/ Unordered(t) \/ DispatchRefused(t) \/ DispatchPart(t)
           \/ DispatchClose(t) \/ Echoed(t) \/ DispatchEnd(t)
    PROVE  TransportOK'
  <1> USE DEF TransportOK, ServerLabels
  <1> DEFINE c == Top(t).c
             x == Top(t).arg
  <1>1. ASSUME NEW e \in Events, t \in Conns
        PROVE  GoodFrame(t, Frame("callback", t, e))
    BY <1>1, CallbackFrame
  <1>2. ASSUME NEW label \in {"dispatch", "ponged", "unordered", "echoed", "switch", "check"},
               NEW y \in Args, t \in Conns
        PROVE  GoodFrame(t, Frame(label, t, y))
    BY <1>2, LoopFrame DEF LoopLabels
  <1>3. At(t, "dispatch") => /\ c \in Conns /\ t = c /\ x \in Args
                             /\ stk[t] # <<>> /\ ws[c] \in SocketType
                             /\ ws[c].rxbuf \in Seq(Received)
    BY AtFrame, SocketAt DEF LoopLabels
  <1>4. CASE DispatchData(t)
    <2>1. At(t, "dispatch")
      BY <1>4 DEF DispatchData
    <2>2. StacksOK' /\ LogsOK'
      BY <1>1, <1>2, <1>3, <1>4, <2>1, EmitOK DEF DispatchData, Events, LoopEvents
    <2>3. Tail(ws[c].rxbuf) \in Seq(Received)
      BY <1>3, <1>4, <2>1 DEF DispatchData
    <2>4. [ws[c] EXCEPT !.rxbuf = Tail(@)] \in SocketType
      BY <1>3, <2>1, <2>3 DEF SocketType
    <2>5. SocketsOK'
      BY <1>3, <1>4, <2>1, <2>4, SocketStep DEF DispatchData
    <2>6. QED
      BY <1>4, <2>2, <2>5 DEF DispatchData, PeersOK
  <1>5. CASE DispatchPing(t)
    <2>1. At(t, "dispatch")
      BY <1>5 DEF DispatchPing
    <2>2. GoodFrame(t, Frame("send", c, "pong"))
      BY <1>3, <2>1, SendFrame DEF Kinds, SendLabels
    <2>3. StacksOK'
      BY <1>2, <1>3, <1>5, <2>1, <2>2, CallOK DEF DispatchPing, Call
    <2>4. Tail(ws[c].rxbuf) \in Seq(Received)
      BY <1>3, <1>5, <2>1 DEF DispatchPing
    <2>5. [ws[c] EXCEPT !.rxbuf = Tail(@)] \in SocketType
      BY <1>3, <2>1, <2>4 DEF SocketType
    <2>6. SocketsOK'
      BY <1>3, <1>5, <2>1, <2>5, SocketStep DEF DispatchPing
    <2>7. QED
      BY <1>5, <2>3, <2>6 DEF DispatchPing, PeersOK, LogsOK
  <1>6. CASE Ponged(t)
    <2>1. c \in Conns /\ t = c /\ x \in Args /\ stk[t] # <<>>
      BY <1>6, AtFrame DEF Ponged, LoopLabels
    <2>2. StacksOK' /\ LogsOK'
      BY <1>1, <1>2, <1>6, <2>1, EmitOK DEF Ponged, Events, LoopEvents
    <2>3. QED
      BY <1>6, <2>2 DEF Ponged, SocketsOK, PeersOK
  <1>7. CASE DispatchPong(t)
    <2>1. At(t, "dispatch")
      BY <1>7 DEF DispatchPong
    <2>2. StacksOK' /\ LogsOK'
      BY <1>1, <1>2, <1>3, <1>7, <2>1, EmitOK DEF DispatchPong, Events, LoopEvents
    <2>3. Tail(ws[c].rxbuf) \in Seq(Received)
      BY <1>3, <1>7, <2>1 DEF DispatchPong
    <2>4. [ws[c] EXCEPT !.rxbuf = Tail(@), !.pong = TRUE] \in SocketType
      BY <1>3, <2>1, <2>3 DEF SocketType
    <2>5. SocketsOK'
      BY <1>3, <1>7, <2>1, <2>4, SocketStep DEF DispatchPong
    <2>6. QED
      BY <1>7, <2>2, <2>5 DEF DispatchPong, PeersOK
  <1>8. CASE DispatchClose(t)
    <2>1. At(t, "dispatch")
      BY <1>8 DEF DispatchClose
    <2>2. GoodFrame(t, Frame("send", c, "ack"))
      BY <1>3, <2>1, SendFrame DEF Kinds, SendLabels
    <2>3. "" \in Args
      BY DEF Args
    <2>4. StacksOK'
      BY <1>2, <1>3, <1>8, <2>1, <2>2, <2>3, CallOK DEF DispatchClose, Call, StacksOK
    <2>5. Tail(ws[c].rxbuf) \in Seq(Received)
      <3>1. ws[c].rxbuf # <<>>
        BY <1>8 DEF DispatchClose
      <3>2. QED
        BY <1>3, <2>1, <3>1
    <2>6. /\ [ws[c] EXCEPT !.rxbuf = Tail(@)] \in SocketType
          /\ [ws[c] EXCEPT !.rxbuf = Tail(@), !.st = "CLOSING"] \in SocketType
      BY <1>3, <2>1, <2>5 DEF SocketType, ReadyState
    <2>7. SocketsOK'
      <3>1. \/ ws' = [ws EXCEPT ![c] = [ws[c] EXCEPT !.rxbuf = Tail(@)]]
            \/ ws' = [ws EXCEPT ![c] = [ws[c] EXCEPT !.rxbuf = Tail(@), !.st = "CLOSING"]]
        BY <1>8 DEF DispatchClose
      <3>2. QED
        BY <1>3, <2>1, <2>6, <3>1, SocketStep
    <2>8. QED
      BY <1>8, <2>4, <2>7 DEF DispatchClose, PeersOK, LogsOK
  <1>9. CASE Echoed(t)
    <2>1. /\ At(t, "echoed") /\ c \in Conns /\ t = c /\ x \in Args /\ stk[t] # <<>>
          /\ ws[c] \in SocketType
      BY <1>9, AtFrame DEF Echoed, LoopLabels
    <2>2. "" \in Args
      BY DEF Args
    <2>3. StacksOK'
      BY <1>2, <1>9, <2>1, <2>2, CallOK DEF Echoed, Call
    <2>4. Notify(ws[c].pipe, "close") \in Seq({"send", "close"})
      BY <2>1, SocketAt, NotifyOK
    <2>5. [ws[c] EXCEPT !.pipe = Notify(@, "close")] \in SocketType
      BY <2>1, <2>4 DEF SocketType
    <2>6. SocketsOK'
      BY <1>9, <2>1, <2>5, SocketStep DEF Echoed
    <2>7. QED
      BY <1>9, <2>3, <2>6 DEF Echoed, PeersOK, LogsOK
  <1>10. CASE DispatchEnd(t)
    <2>1. At(t, "dispatch")
      BY <1>10 DEF DispatchEnd
    <2>2. "" \in Args
      BY DEF Args
    <2>3. GoodFrame(t, Frame("setClosed", c, ""))
      BY <1>3, <2>1, <2>2, PlainFrame, MethodsPlain
    <2>4. StacksOK'
      BY <1>2, <1>3, <1>10, <2>1, <2>2, <2>3, JumpOK, CallOK DEF DispatchEnd, Call, Jump
    <2>5. [ws[c] EXCEPT !.fd = "shut"] \in SocketType
      BY <1>3, <2>1 DEF SocketType
    <2>6. SocketsOK'
      BY <1>3, <1>10, <2>1, <2>5, SocketStep DEF DispatchEnd, SocketsOK
    <2>7. QED
      BY <1>10, <2>4, <2>6 DEF DispatchEnd, PeersOK, LogsOK
  <1>11. CASE DispatchUnexpected(t)
    <2>1. At(t, "dispatch") /\ ws[c].rxbuf # <<>>
      BY <1>11 DEF DispatchUnexpected
    <2>2. GoodFrame(t, Frame("close", c, ""))
      BY <1>3, <2>1, PlainFrame, MethodsPlain DEF Args
    <2>3. StacksOK'
      BY <1>2, <1>3, <1>11, <2>1, <2>2, CallOK DEF DispatchUnexpected, Call
    <2>4. Tail(ws[c].rxbuf) \in Seq(Received)
      BY <1>3, <2>1
    <2>5. [ws[c] EXCEPT !.rxbuf = Tail(@)] \in SocketType
      BY <1>3, <2>1, <2>4 DEF SocketType
    <2>6. SocketsOK'
      BY <1>3, <1>11, <2>1, <2>5, SocketStep DEF DispatchUnexpected
    <2>7. QED
      BY <1>11, <2>3, <2>6 DEF DispatchUnexpected, PeersOK, LogsOK
  <1>12. CASE Unordered(t)
    <2>1. c \in Conns /\ t = c /\ x \in Args /\ stk[t] # <<>>
      BY <1>12, AtFrame DEF Unordered, LoopLabels
    <2>2. StacksOK' /\ LogsOK'
      BY <1>1, <1>2, <1>12, <2>1, EmitOK DEF Unordered, Events, LoopEvents
    <2>3. QED
      BY <1>12, <2>2 DEF Unordered, SocketsOK, PeersOK
  <1>13. CASE DispatchRefused(t)
    <2>1. At(t, "dispatch")
      BY <1>13 DEF DispatchRefused
    <2>2. GoodFrame(t, Frame("close", c, ""))
      BY <1>3, <2>1, PlainFrame, MethodsPlain DEF Args
    <2>3. StacksOK'
      BY <1>2, <1>3, <1>13, <2>1, <2>2, CallOK DEF DispatchRefused, Call
    <2>4. QED
      BY <1>13, <2>3 DEF DispatchRefused, SocketsOK, PeersOK, LogsOK
  <1>14. CASE DispatchPart(t)
    <2>1. At(t, "dispatch")
      BY <1>14 DEF DispatchPart
    <2>2. StacksOK'
      BY <1>2, <1>3, <1>14, <2>1, JumpOK DEF DispatchPart, Jump
    <2>3. QED
      BY <1>14, <2>2 DEF DispatchPart, SocketsOK, PeersOK, LogsOK
  <1>15. QED
    BY <1>4, <1>5, <1>6, <1>7, <1>8, <1>9, <1>10, <1>11, <1>12, <1>13, <1>14

-----------------------------------------------------------------------------
(* The peer, the network and the clock.                                    *)

LEMMA EnvironmentTypes ==
    ASSUME NEW c \in Conns, TransportOK, Environment(c)
    PROVE  TransportOK'
  <1> USE DEF TransportOK, ServerLabels
  <1>1. /\ ws[c] \in SocketType /\ net[c] \in PeerType
        /\ net[c].rx \in Seq(Received) /\ net[c].sent \in Nat
    BY SocketAt, PeerAt DEF PeerType
  <1>2. ASSUME NEW k \in PeerFrames, PeerSend(c, k)
        PROVE  TransportOK'
    <2> DEFINE p == IF k \in {"close", "part"} THEN "done" ELSE net[c].peer
    <2>1. Append(net[c].rx, k) \in Seq(Received)
      BY <1>1, TransportAssumption DEF Received, Kinds
    <2>2. p \in {"idle", "asked", "done"}
      BY <1>1 DEF PeerType
    <2>3. net' = [net EXCEPT ![c] = [net[c] EXCEPT
                     !.rx = Append(@, k), !.sent = @ + 1, !.peer = p]]
      BY <1>2 DEF PeerSend, PeersOK
    <2> HIDE DEF p
    <2>4. [net[c] EXCEPT !.rx = Append(@, k), !.sent = @ + 1, !.peer = p] \in PeerType
      <3>1. net[c].sent + 1 \in Nat
        BY <1>1
      <3>2. QED
        BY <1>1, <2>1, <2>2, <3>1 DEF PeerType
    <2>5. PeersOK'
      BY <2>3, <2>4, PeerStep
    <2>6. QED
      BY <1>2, <2>5 DEF PeerSend, SocketsOK, StacksOK, LogsOK
  <1>3. CASE PeerAnswer(c)
    <2>1. Append(net[c].rx, "ack") \in Seq(Received)
      BY <1>1 DEF Received, Kinds
    <2>2. [net[c] EXCEPT !.rx = Append(@, "ack"), !.peer = "done"] \in PeerType
      BY <1>1, <2>1 DEF PeerType
    <2>3. PeersOK'
      BY <1>3, <2>2, PeerStep DEF PeerAnswer
    <2>4. QED
      BY <1>3, <2>3 DEF PeerAnswer, SocketsOK, StacksOK, LogsOK
  <1>4. CASE PeerPong(c)
    <2>1. Append(net[c].rx, "pong") \in Seq(Received)
      BY <1>1 DEF Received, Kinds
    <2>2. [net[c] EXCEPT !.rx = Append(@, "pong"), !.pinged = FALSE] \in PeerType
      BY <1>1, <2>1 DEF PeerType
    <2>3. PeersOK'
      BY <1>4, <2>2, PeerStep DEF PeerPong
    <2>4. QED
      BY <1>4, <2>3 DEF PeerPong, SocketsOK, StacksOK, LogsOK
  <1>5. CASE Break(c)
    <2>1. [net[c] EXCEPT !.up = FALSE] \in PeerType
      BY <1>1 DEF PeerType
    <2>2. PeersOK'
      BY <1>5, <2>1, PeerStep DEF Break
    <2>3. QED
      BY <1>5, <2>2 DEF Break, SocketsOK, StacksOK, LogsOK
  <1>6. CASE ClosingDelay(c)
    <2>1. [ws[c] EXCEPT !.late = TRUE] \in SocketType
      BY <1>1 DEF SocketType
    <2>2. SocketsOK'
      BY <1>6, <2>1, SocketStep DEF ClosingDelay
    <2>3. QED
      BY <1>6, <2>2 DEF ClosingDelay, PeersOK, StacksOK, LogsOK
  <1>7. CASE PingInterval(c)
    <2>1. [ws[c] EXCEPT !.pingDue = TRUE] \in SocketType
      BY <1>1 DEF SocketType
    <2>2. SocketsOK'
      BY <1>7, <2>1, SocketStep DEF PingInterval
    <2>3. QED
      BY <1>7, <2>2 DEF PingInterval, PeersOK, StacksOK, LogsOK
  <1>8. QED
    BY <1>2, <1>3, <1>4, <1>5, <1>6, <1>7 DEF Environment

-----------------------------------------------------------------------------
(* The steps of WebSocket::run, start and stop.                            *)

LEMMA FreshOK == Fresh \in SocketType /\ NoPeer \in PeerType
  <1>1. <<>> \in Seq({"send", "close"})
    OBVIOUS
  <1>2. QED
    BY <1>1, NoFrames DEF Fresh, SocketType, ReadyState, NoPeer, PeerType

LEMMA ConnectTypes ==
    ASSUME NEW t \in Threads, TransportOK,
           \/ Check(t) \/ Connect(t) \/ Handshake(t) \/ Upgrade(t) \/ UpgradeFails(t)
           \/ Upgraded(t) \/ Open(t) \/ Opened(t) \/ FirstPinged(t)
           \/ Loop(t) \/ LoopStop(t)
    PROVE  TransportOK'
  <1> USE DEF TransportOK, ServerLabels
  <1> DEFINE c == Top(t).c
             x == Top(t).arg
  <1> DEFINE here == /\ c \in Conns /\ t = c /\ x \in Args /\ stk[t] # <<>>
                     /\ ws[c] \in SocketType /\ net[c] \in PeerType
  <1>1. ASSUME NEW label \in {"check", "connect", "handshake", "upgrade", "upgraded",
                              "open", "opened", "firstPinged", "loop", "loopStop"},
               At(t, label)
        PROVE  here
    BY <1>1, AtFrame DEF LoopLabels
  <1>2. ASSUME NEW label \in LoopLabels, NEW y \in Args, t \in Conns
        PROVE  GoodFrame(t, Frame(label, t, y))
    BY <1>2, LoopFrame
  <1>3. "" \in Args /\ {"error", "open"} \subseteq Events
    BY DEF Args, Events, LoopEvents
  <1>4. CASE Check(t)
    <2>1. here
      BY <1>1, <1>4 DEF Check
    <2>2. StacksOK'
      BY <1>2, <1>3, <1>4, <2>1, JumpOK DEF Check, LoopLabels
    <2>3. [ws[c] EXCEPT !.first = FALSE] \in SocketType
      BY <2>1 DEF SocketType
    <2>4. SocketsOK'
      BY <1>4, <2>1, <2>3, SocketStep DEF Check, SocketsOK
    <2>5. QED
      BY <1>4, <2>2, <2>4 DEF Check, PeersOK, LogsOK
  <1>5. CASE Connect(t)
    <2>1. here
      BY <1>1, <1>5 DEF Connect
    <2>2. GoodFrame(t, Frame("callback", c, "error"))
      BY <1>3, <2>1, CallbackFrame
    <2>3. StacksOK' /\ LogsOK'
      BY <1>2, <1>3, <1>5, <2>1, <2>2, JumpOK, EmitOK DEF Connect, Jump, LogsOK, LoopLabels
    <2>4. <<>> \in Seq({"send", "close"})
      OBVIOUS
    <2>5. [ws[c] EXCEPT !.sk = t, !.fd = "shut", !.pipe = <<>>] \in SocketType
      BY <2>1, <2>4 DEF SocketType
    <2>6. SocketsOK'
      BY <1>5, <2>1, <2>5, SocketStep DEF Connect, SocketsOK
    <2>7. PeersOK'
      BY <1>5, <2>1, FreshOK, PeerStep DEF Connect, PeersOK
    <2>8. QED
      BY <1>5, <2>3, <2>6, <2>7 DEF Connect
  <1>6. CASE Handshake(t)
    <2>1. here
      BY <1>1, <1>6 DEF Handshake
    <2>2. StacksOK'
      BY <1>2, <1>6, <2>1, JumpOK DEF Handshake, Jump, LoopLabels
    <2>3. [ws[c] EXCEPT !.cancel = FALSE] \in SocketType
      BY <2>1 DEF SocketType
    <2>4. SocketsOK'
      BY <1>6, <2>1, <2>3, SocketStep DEF Handshake
    <2>5. QED
      BY <1>6, <2>2, <2>4 DEF Handshake, PeersOK, LogsOK
  <1>7. CASE Upgrade(t)
    <2>1. here
      BY <1>1, <1>7 DEF Upgrade
    <2>2. StacksOK'
      BY <1>2, <1>7, <2>1, JumpOK DEF Upgrade, Jump, LoopLabels
    <2>3. /\ [ws[c] EXCEPT !.fd = "open"] \in SocketType
          /\ [net[c] EXCEPT !.up = TRUE] \in PeerType
      BY <2>1 DEF SocketType, PeerType
    <2>4. SocketsOK' /\ PeersOK'
      BY <1>7, <2>1, <2>3, SocketStep, PeerStep DEF Upgrade
    <2>5. QED
      BY <1>7, <2>2, <2>4 DEF Upgrade, LogsOK
  <1>8. CASE UpgradeFails(t)
    <2>1. here
      BY <1>1, <1>8 DEF UpgradeFails
    <2>2. GoodFrame(t, Frame("callback", c, "error"))
      BY <1>3, <2>1, CallbackFrame
    <2>3. StacksOK' /\ LogsOK'
      BY <1>2, <1>3, <1>8, <2>1, <2>2, EmitOK DEF UpgradeFails, LoopLabels
    <2>4. PICK f \in {"open", "shut"} : ws' = [ws EXCEPT ![c].fd = f, ![c].sk = Nobody]
      BY <1>8 DEF UpgradeFails
    <2>5. [ws[c] EXCEPT !.fd = f, !.sk = Nobody] \in SocketType
      BY <2>1 DEF SocketType
    <2>6. SocketsOK'
      BY <2>1, <2>4, <2>5, SocketStep
    <2>7. QED
      BY <1>8, <2>3, <2>6 DEF UpgradeFails, PeersOK
  <1>9. CASE Upgraded(t)
    <2>1. here
      BY <1>1, <1>9 DEF Upgraded
    <2>2. StacksOK'
      BY <1>2, <1>9, <2>1, JumpOK DEF Upgraded, Jump, LoopLabels
    <2>3. [ws[c] EXCEPT !.st = "OPEN", !.sk = Nobody, !.pong = FALSE, !.pingDue = FALSE]
              \in SocketType
      BY <2>1 DEF SocketType, ReadyState
    <2>4. SocketsOK'
      <3>1. ws' = [ws EXCEPT ![c] = [ws[c] EXCEPT
                      !.st = "OPEN", !.sk = Nobody, !.pong = FALSE, !.pingDue = FALSE]]
        BY <1>9 DEF Upgraded
      <3>2. QED
        BY <2>1, <2>3, <3>1, SocketStep
    <2>5. QED
      BY <1>9, <2>2, <2>4 DEF Upgraded, PeersOK, LogsOK
  <1>10. CASE Open(t)
    <2>1. here
      BY <1>1, <1>10 DEF Open
    <2>2. GoodFrame(t, Frame("callback", c, "open"))
      BY <1>3, <2>1, CallbackFrame
    <2>3. StacksOK' /\ LogsOK'
      BY <1>2, <1>3, <1>10, <2>1, <2>2, EmitOK DEF Open, LoopLabels
    <2>4. QED
      BY <1>10, <2>3 DEF Open, SocketsOK, PeersOK
  <1>11. CASE Opened(t)
    <2>1. here
      BY <1>1, <1>11 DEF Opened
    <2>2. GoodFrame(t, Frame("send", c, "ping"))
      BY <2>1, SendFrame DEF Kinds, SendLabels
    <2>3. StacksOK'
      BY <1>2, <1>11, <2>1, <2>2, JumpOK, CallOK DEF Opened, Call, Jump, LoopLabels
    <2>4. [ws[c] EXCEPT !.pong = FALSE] \in SocketType
      BY <2>1 DEF SocketType
    <2>5. SocketsOK'
      BY <1>11, <2>1, <2>4, SocketStep DEF Opened, SocketsOK
    <2>6. QED
      BY <1>11, <2>3, <2>5 DEF Opened, PeersOK, LogsOK
  <1>12. CASE FirstPinged(t)
    <2>1. here
      BY <1>1, <1>12 DEF FirstPinged
    <2>2. StacksOK'
      BY <1>2, <1>12, <2>1, JumpOK DEF FirstPinged, Jump, LoopLabels
    <2>3. [ws[c] EXCEPT !.pingDue = FALSE] \in SocketType
      BY <2>1 DEF SocketType
    <2>4. SocketsOK'
      BY <1>12, <2>1, <2>3, SocketStep DEF FirstPinged
    <2>5. QED
      BY <1>12, <2>2, <2>4 DEF FirstPinged, PeersOK, LogsOK
  <1>13. CASE Loop(t)
    <2>1. here
      BY <1>1, <1>13 DEF Loop
    <2>2. StacksOK'
      BY <1>2, <1>13, <2>1, JumpOK, ReturnOK DEF Loop, Jump, LoopLabels
    <2>3. QED
      BY <1>13, <2>2 DEF Loop, SocketsOK, PeersOK, LogsOK
  <1>14. CASE LoopStop(t)
    <2>1. here
      BY <1>1, <1>14 DEF LoopStop
    <2>2. StacksOK'
      BY <1>2, <1>14, <2>1, JumpOK, ReturnOK DEF LoopStop, Jump, LoopLabels
    <2>3. QED
      BY <1>14, <2>2 DEF LoopStop, SocketsOK, PeersOK, LogsOK
  <1>15. QED
    BY <1>4, <1>5, <1>6, <1>7, <1>8, <1>9, <1>10, <1>11, <1>12, <1>13, <1>14

LEMMA NewStackOK ==
    ASSUME NEW t, NEW f, GoodFrame(t, f)
    PROVE  StackOK(t, <<f>>)
  <1>1. <<f>> \in Seq(FrameType) /\ Len(<<f>>) = 1 /\ <<f>>[1] = f
    BY DEF GoodFrame
  <1>2. QED
    BY <1>1 DEF StackOK, GoodFrame

LEMMA StopTypes ==
    ASSUME NEW t \in Threads, TransportOK,
           \/ Start(t) \/ Stop(t) \/ StopThread(t) \/ Join(t) \/ Stopped(t)
    PROVE  TransportOK'
  <1> USE DEF TransportOK, ServerLabels
  <1> DEFINE c == Top(t).c
             x == Top(t).arg
  <1>1. CASE Start(t)
    <2>1. At(t, "start") /\ c \in Conns /\ stk[t] # <<>> /\ ws[c] \in SocketType
      BY <1>1, AtFrame DEF Start
    <2>2. StackOK(c, <<Frame("check", c, "")>>)
      BY <2>1, LoopFrame, NewStackOK DEF LoopLabels, Args
    <2>3. StackOK(t, Pop(stk[t]))
      BY <2>1, StacksGood, PopOK
    <2>4. CASE ws[c].joinable
      BY <1>1, <2>1, <2>4, ReturnOK DEF Start, SocketsOK, PeersOK, LogsOK
    <2>5. CASE ~ws[c].joinable
      <3>1. StacksOK'
        BY <1>1, <2>1, <2>2, <2>3, <2>5 DEF Start, StacksOK, StackOK, Threads
      <3>2. [ws[c] EXCEPT !.joinable = TRUE, !.first = TRUE] \in SocketType
        BY <2>1 DEF SocketType
      <3>3. ws' = [ws EXCEPT ![c] = [ws[c] EXCEPT !.joinable = TRUE, !.first = TRUE]]
        BY <1>1, <2>5 DEF Start
      <3>4. SocketsOK'
        BY <2>1, <3>2, <3>3, SocketStep
      <3>5. QED
        BY <1>1, <2>5, <3>1, <3>4 DEF Start, PeersOK, LogsOK
    <2>6. QED
      BY <2>4, <2>5
  <1>2. CASE Stop(t)
    <2>1. At(t, "stop") /\ c \in Conns /\ x \in Args /\ stk[t] # <<>>
      BY <1>2, AtFrame DEF Stop
    <2>2. /\ GoodFrame(t, Frame("stopThread", c, x))
          /\ GoodFrame(t, Frame("close", c, ""))
      BY <2>1, PlainFrame, MethodsPlain DEF Args
    <2>3. StacksOK'
      BY <1>2, <2>1, <2>2, CallOK DEF Stop, Call
    <2>4. QED
      BY <1>2, <2>3 DEF Stop, SocketsOK, PeersOK, LogsOK
  <1>3. CASE StopThread(t)
    <2>1. /\ At(t, "stopThread") /\ c \in Conns /\ x \in Args /\ stk[t] # <<>>
          /\ ws[c] \in SocketType
      BY <1>3, AtFrame DEF StopThread
    <2>2. /\ GoodFrame(t, Frame("join", c, x))
          /\ GoodFrame(t, Frame("stopped", c, x))
      BY <2>1, PlainFrame, MethodsPlain
    <2>3. StacksOK'
      BY <1>3, <2>1, <2>2, JumpOK DEF StopThread, Jump
    <2>4. [ws[c] EXCEPT !.stop = TRUE] \in SocketType
      BY <2>1 DEF SocketType
    <2>5. SocketsOK'
      BY <1>3, <2>1, <2>4, SocketStep DEF StopThread, SocketsOK
    <2>6. QED
      BY <1>3, <2>3, <2>5 DEF StopThread, PeersOK, LogsOK
  <1>4. CASE Join(t)
    <2>1. /\ At(t, "join") /\ c \in Conns /\ x \in Args /\ stk[t] # <<>>
          /\ ws[c] \in SocketType
      BY <1>4, AtFrame DEF Join
    <2>2. GoodFrame(t, Frame("stopped", c, x))
      BY <2>1, PlainFrame, MethodsPlain
    <2>3. StacksOK'
      BY <1>4, <2>1, <2>2, JumpOK DEF Join, Jump
    <2>4. [ws[c] EXCEPT !.stop = FALSE, !.joinable = FALSE] \in SocketType
      BY <2>1 DEF SocketType
    <2>5. SocketsOK'
      BY <1>4, <2>1, <2>4, SocketStep DEF Join
    <2>6. QED
      BY <1>4, <2>3, <2>5 DEF Join, PeersOK, LogsOK
  <1>5. CASE Stopped(t)
    BY <1>5, AtFrame, ReturnOK DEF Stopped, SocketsOK, PeersOK, LogsOK
  <1>6. QED
    BY <1>1, <1>2, <1>3, <1>4, <1>5

LEMMA WebSocketTypes ==
    ASSUME NEW t \in Threads, TransportOK, WebSocketStep(t)
    PROVE  TransportOK'
  BY SendTypes, CloseTypes, PollTypes, DispatchTypes, ConnectTypes, StopTypes
     DEF WebSocketStep, TransportStep, WaitStep, DispatchStep

=============================================================================

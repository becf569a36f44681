--------------------------- MODULE ClientTheorems ---------------------------
(***************************************************************************)
(* What the client promises, from the invariant of ClientSafety, and the   *)
(* one behind a lost connection.                                           *)
(***************************************************************************)
EXTENDS ClientSafety

-----------------------------------------------------------------------------
(* Threads.                                                                *)

(***************************************************************************)
(* start() replaces the ix::WebSocket only when the thread of the old one  *)
(* has ended, however the application's calls, its callback, the peer and  *)
(* the network left the old connection.                                    *)
(***************************************************************************)
THEOREM ReplacesEnded == ASSUME Usage PROVE Spec => []ReplacedWhenEnded
  <1>1. ASSUME TypeOK, ClientInv PROVE ReplacedWhenEnded
    <2> SUFFICES ASSUME NEW t \in Threads, At(t, "wsNew")
                 PROVE  stk[Top(t).c] = <<>>
      BY DEF ReplacedWhenEnded
    <2>1. Ready(t) /\ Top(t).at = "wsNew" /\ Placed /\ ThreadLife
      BY <1>1, ReadyAt DEF ServerLabels, TypeOK, ClientInv
    <2>2. t \in Apps /\ Len(stk[t]) = 1 /\ stk[t][1] = Top(t)
      BY <2>1, MainTop DEF Ready, MainLabels
    <2>3. QED
      BY <2>1, <2>2 DEF ThreadLife, StoppedEnded, First, Ready
  <1>2. QED
    BY <1>1, InvariantHolds, TypeCorrect, PTL

(***************************************************************************)
(* When the destructor of DWebSocketClient returns, the connection's       *)
(* thread has ended, for every state it may have been in when the          *)
(* destructor stopped it.                                                  *)
(***************************************************************************)
THEOREM DestructorJoins == ASSUME Usage PROVE Spec => []DestroyJoins
  <1>1. ASSUME TypeOK, ClientInv PROVE DestroyJoins
    <2> SUFFICES ASSUME NEW t \in Apps, At(t, "destroyed")
                 PROVE  stk[Top(t).c] = <<>>
      BY DEF DestroyJoins
    <2>1. t \in Threads
      BY DEF Threads
    <2>2. Ready(t) /\ Top(t).at = "destroyed" /\ Placed /\ ThreadLife
      BY <1>1, <2>1, ReadyAt DEF ServerLabels, TypeOK, ClientInv
    <2>3. Len(stk[t]) = 1 /\ stk[t][1] = Top(t)
      BY <2>1, <2>2, MainTop DEF Ready, MainLabels
    <2>4. QED
      BY <2>2, <2>3 DEF ThreadLife, StoppedEnded, First, Ready
  <1>2. QED
    BY <1>1, InvariantHolds, TypeCorrect, PTL

-----------------------------------------------------------------------------
(* Mutexes.                                                                *)

\* While its thread holds _socketMutex it is in the handshake, and nowhere else.
LEMMA HoldsSocket ==
    ASSUME NEW t \in Threads, NEW c \in Conns, StacksOK, Placed, HandshakeLock(c),
           ws[c].sk = t, stk[t] # <<>>
    PROVE  /\ t = c /\ Top(t) = stk[t][1]
           /\ Top(t).at \in {"handshake", "upgrade", "upgraded"}
  <1>1. t = c /\ First(c, c, {"handshake", "upgrade", "upgraded"})
    BY TransportAssumption DEF HandshakeLock
  <1>2. stk[t][1].at \notin ClientSuspended
    BY <1>1 DEF First, ClientSuspended, Suspended
  <1>3. ~(1 \in 1 .. Len(stk[t]) - 1)
    BY <1>2 DEF Placed, Calling
  <1>4. Len(stk[t]) = 1
    <2> DEFINE n == Len(stk[t])
    <2>1. n \in Nat /\ n >= 1
      BY LastFrame
    <2> HIDE DEF n
    <2>2. ~(1 \in 1 .. n - 1)
      BY <1>3 DEF n
    <2>3. n = 1
      BY <2>1, <2>2
    <2>4. QED
      BY <2>3 DEF n
  <1>5. Top(t) = stk[t][1]
    BY <1>4, LastFrame
  <1>6. QED
    BY <1>1, <1>5 DEF First

(***************************************************************************)
(* The application is called without _socketMutex: the handshake has       *)
(* released it before an Error is reported, and no other method keeps it   *)
(* while it calls back.                                                    *)
(***************************************************************************)
THEOREM CallsBackUnlocked == ASSUME Usage PROVE Spec => []CallbackWithoutSocketLock
  <1>1. ASSUME TypeOK, ClientInv PROVE CallbackWithoutSocketLock
    <2> SUFFICES ASSUME NEW t \in Threads, At(t, "callback"), NEW c \in Conns, ws[c].sk = t
                 PROVE  FALSE
      BY DEF CallbackWithoutSocketLock
    <2>1. StacksOK /\ Placed /\ HandshakeLock(c)
      BY <1>1 DEF TypeOK, TransportOK, ClientInv, ConnectionLife, ConnectionOK
    <2>2. QED
      BY <2>1, HoldsSocket DEF At
  <1>2. QED
    BY <1>1, InvariantHolds, TypeCorrect, PTL

\* What asks for _txbufMutex, and what for _socketMutex.
LEMMA HoldsSend ==
    ASSUME NEW t \in Threads, NEW c \in Conns, StacksOK, Placed, SendLock(c), QuietClose,
           ws[c].tx = t, stk[t] # <<>>
    PROVE  Top(t).at \in Pushers \cup Closers \cup {"callback"}
  <1> DEFINE n == Len(stk[t])
  <1>1. n \in Nat /\ n >= 1 /\ Top(t) = stk[t][n]
    BY LastFrame
  <1>2. PICK i \in 1 .. n : stk[t][i].at \in Pushers
    BY TransportAssumption DEF SendLock
  <1>3. ASSUME NEW j \in 1 .. n - 1
        PROVE  Calling(stk[t][j], stk[t][j + 1])
    BY DEF Placed
  <1> HIDE DEF n
  <1>4. CASE i = n
    BY <1>1, <1>2, <1>4
  <1>5. CASE i < n
    <2>1. i \in 1 .. n - 1 /\ i + 1 \in 1 .. n
      BY <1>1, <1>5
    <2>2. stk[t][i + 1].at \in Closers
      BY <1>2, <1>3, <2>1 DEF Calling, Pushers, ClientSuspended, Suspended
    <2>3. CASE i + 1 = n
      BY <1>1, <2>2, <2>3
    <2>4. CASE i + 1 < n
      <3>1. i + 1 \in 1 .. n - 1 /\ i + 1 + 1 \in 1 .. n
        BY <1>1, <2>4
      <3>2. stk[t][i + 1 + 1].at = "callback"
        BY <1>3, <2>2, <3>1 DEF Calling, Closers, ClientSuspended, Suspended
      <3>3. CASE i + 1 + 1 = n
        BY <1>1, <3>2, <3>3
      <3>4. CASE i + 1 + 1 < n
        <4>1. i + 1 + 1 \in 1 .. n - 1
          BY <1>1, <3>4
        <4>2. QED
          BY <1>3, <3>2, <4>1 DEF Calling, ClientSuspended, Suspended
      <3>5. QED
        BY <1>1, <3>1, <3>3, <3>4
    <2>5. QED
      BY <1>1, <2>1, <2>3, <2>4
  <1>6. QED
    BY <1>1, <1>4, <1>5

(***************************************************************************)
(* No thread of the client waits for a mutex it holds, if the callback     *)
(* does nothing on a Close: that one may come in the middle of a send,     *)
(* with _txbufMutex locked.                                                *)
(***************************************************************************)
THEOREM NeverSelfLocks == ASSUME Usage, QuietClose PROVE Spec => []NoSelfLock
  <1>1. ASSUME TypeOK, ClientInv PROVE NoSelfLock
    <2> SUFFICES ASSUME NEW t \in Threads, stk[t] # <<>>
                 PROVE  /\ Top(t).at \in {"append", "sent", "flush"} => ws[Top(t).c].tx # t
                        /\ Top(t).at \in {"push", "sent", "flush", "switch", "closeWake",
                                          "closeSent", "wait", "polled", "echoed",
                                          "dispatch", "connect"} => ws[Top(t).c].sk # t
      BY DEF NoSelfLock
    <2> DEFINE c == Top(t).c
    <2>1. TransportOK /\ StacksOK /\ Placed
      BY <1>1 DEF TypeOK, TransportOK, ClientInv
    <2>2. CASE c \in Conns
      <3>1. HandshakeLock(c) /\ SendLock(c)
        BY <1>1, <2>2 DEF ClientInv, ConnectionLife, ConnectionOK
      <3>2. Top(t).at \in {"append", "sent", "flush"} => ws[c].tx # t
        BY <2>1, <2>2, <3>1, HoldsSend DEF Pushers, Closers
      <3>3. ws[c].sk = t => Top(t).at \in {"handshake", "upgrade", "upgraded"}
        BY <2>1, <2>2, <3>1, HoldsSocket
      <3>4. QED
        BY <3>2, <3>3
    <2>3. CASE c \notin Conns
      BY <2>1, <2>3, ReadyAt DEF Ready, At, ServerLabels
    <2>4. QED
      BY <2>2, <2>3
  <1>2. QED
    BY <1>1, InvariantHolds, TypeCorrect, PTL

-----------------------------------------------------------------------------
(* Events.                                                                 *)

LEMMA CountNone ==
    ASSUME NEW c \in Conns, LogsOK, NEW e, ~Logged(c, e)
    PROVE  Count(c, e) = 0
  <1>1. {i \in DOMAIN log[c] : log[c][i] = e} = {}
    BY DEF Logged, LogsOK
  <1>2. QED
    BY <1>1, FS_EmptySet DEF Count

\* Another event does not change the count, and the first one makes it 1.
LEMMA CountAfter ==
    ASSUME NEW c \in Conns, LogsOK, NEW e, NEW x, log'[c] = Append(log[c], x)
    PROVE  /\ e # x => Count(c, e)' = Count(c, e)
           /\ e = x /\ ~Logged(c, e) => Count(c, e)' = 1
  <1> DEFINE n == Len(log[c])
             old == {i \in DOMAIN log[c] : log[c][i] = e}
             new == {i \in DOMAIN log'[c] : log'[c][i] = e}
  <1>1. log[c] \in Seq(Events) /\ n \in Nat
    BY DEF LogsOK
  <1>2. /\ DOMAIN log[c] = 1 .. n /\ DOMAIN log'[c] = 1 .. n + 1
        /\ \A i \in 1 .. n : log'[c][i] = log[c][i]
        /\ log'[c][n + 1] = x
    BY <1>1
  <1>3. Count(c, e)' = Cardinality(new) /\ Count(c, e) = Cardinality(old)
    BY DEF Count
  <1> HIDE DEF n
  <1>4. e # x => new = old
    <2> SUFFICES ASSUME e # x, NEW i PROVE i \in new <=> i \in old
      OBVIOUS
    <2>1. i \in 1 .. n + 1 <=> i \in 1 .. n \/ i = n + 1
      BY <1>1 DEF n
    <2>2. QED
      BY <1>2, <2>1
  <1>5. e = x /\ ~Logged(c, e) => new = {n + 1}
    <2> SUFFICES ASSUME e = x, ~Logged(c, e), NEW i PROVE i \in new <=> i = n + 1
      OBVIOUS
    <2>1. i \in 1 .. n + 1 <=> i \in 1 .. n \/ i = n + 1
      BY <1>1 DEF n
    <2>2. QED
      BY <1>2, <2>1 DEF Logged, n
  <1> HIDE DEF new, old
  <1>6. QED
    BY <1>3, <1>4, <1>5, FS_Singleton

(***************************************************************************)
(* What the application hears in a step: nothing, an event that is neither *)
(* an Open nor an Error, the one outcome of the attempt, or, of a new      *)
(* websocket, nothing yet.                                                 *)
(***************************************************************************)
Reports(c) ==
    \/ log'[c] = log[c]
    \/ log'[c] = <<>>
    \/ \E e \in Events \ {"open", "error"} : log'[c] = Append(log[c], e)
    \/ /\ ~Logged(c, "open") /\ ~Logged(c, "error")
       /\ \E e \in {"open", "error"} : log'[c] = Append(log[c], e)

LEMMA ThreadReports ==
    ASSUME Usage, NEW t \in Threads, TypeOK, ClientInv, ThreadStep(t), NEW c \in Conns
    PROVE  Reports(c)
  <1>1. StacksOK /\ Placed /\ ConnectionOK(c) /\ DOMAIN log = Conns
    BY DEF TypeOK, TransportOK, LogsOK, ClientInv, ConnectionLife
  <1>2. ASSUME NEW m, NEW g, NEW h, Moves(t, m, g, h), KeepAs(t, m, g, h)
        PROVE  Reports(c)
    <2>1. CASE c = Top(t).c
      BY <1>2, <2>1 DEF KeepAs, Reports
    <2>2. CASE c # Top(t).c
      BY <1>2, <2>2 DEF KeepAs, Untouched, Reports
    <2>3. QED
      BY <2>1, <2>2
  <1>3. CASE OpeningStep(t)
    <2>1. PICK m, g, h : Moves(t, m, g, h) /\ OpenAs(t, m, g, h)
      BY <1>3 DEF OpeningStep
    <2>2. CASE c # Top(t).c
      BY <2>1, <2>2 DEF OpenAs, Untouched, Reports
    <2>3. CASE c = Top(t).c /\ Top(t).at \in Opening \cup {"open"}
      <3>1. t = c /\ stk[t][1] = Top(t) /\ stk[t] # <<>>
        BY <1>1, <2>1, <2>3, LoopTop DEF Moves, RunLabels, LoopLabels, Opening
      <3>2. Unopened(c) \/ First(c, c, {"open"})
        BY <2>3, <3>1 DEF Unopened, First
      <3>3. ~Logged(c, "open") /\ ~Logged(c, "error")
        BY <1>1, <3>2 DEF ConnectionOK, NoOutcomeYet
      <3>4. QED
        BY <2>1, <2>3, <3>3 DEF OpenAs, Reports
    <2>4. QED
      BY <2>1, <2>2, <2>3 DEF OpenAs, Reports
  <1>4. CASE SteadyStep(t) \/ ResetStep(t)
    BY <1>2, <1>4 DEF SteadyStep, ResetStep
  <1>5. CASE WsNew(t)
    BY <1>1, <1>5 DEF WsNew, Reports
  <1>6. CASE Start(t)
    BY <1>6 DEF Start, Reports
  <1>7. QED
    BY <1>3, <1>4, <1>5, <1>6, ThreadKinds

\* Another event, or the first outcome, leaves one outcome at most.
LEMMA OutcomeStep ==
    ASSUME NEW c \in Conns, LogsOK, LogsOK', Reports(c), Count(c, "open") + Count(c, "error") <= 1
    PROVE  (Count(c, "open") + Count(c, "error") <= 1)'
  <1>1. CASE log'[c] = log[c]
    BY <1>1 DEF Count
  <1>2. CASE log'[c] = <<>>
    <2>1. ~Logged(c, "open")' /\ ~Logged(c, "error")'
      BY <1>2 DEF Logged
    <2>2. Count(c, "open")' = 0 /\ Count(c, "error")' = 0
      <3>1. \A e : {i \in DOMAIN log'[c] : log'[c][i] = e} = {}
        BY <1>2
      <3>2. QED
        BY <3>1, FS_EmptySet DEF Count
    <2>3. QED
      BY <2>2
  <1>3. CASE \E e \in Events \ {"open", "error"} : log'[c] = Append(log[c], e)
    <2>1. Count(c, "open")' = Count(c, "open") /\ Count(c, "error")' = Count(c, "error")
      BY <1>3, CountAfter
    <2>2. QED
      BY <2>1
  <1>4. CASE /\ ~Logged(c, "open") /\ ~Logged(c, "error")
             /\ \E e \in {"open", "error"} : log'[c] = Append(log[c], e)
    <2>1. Count(c, "open") = 0 /\ Count(c, "error") = 0
      BY <1>4, CountNone
    <2>2. PICK e \in {"open", "error"} : log'[c] = Append(log[c], e)
      BY <1>4
    <2>3. CASE e = "open"
      <3>1. Count(c, "open")' = 1 /\ Count(c, "error")' = 0
        BY <1>4, <2>1, <2>2, <2>3, CountAfter
      <3>2. QED
        BY <3>1
    <2>4. CASE e = "error"
      <3>1. Count(c, "open")' = 0 /\ Count(c, "error")' = 1
        BY <1>4, <2>1, <2>2, <2>4, CountAfter
      <3>2. QED
        BY <3>1
    <2>5. QED
      BY <2>2, <2>3, <2>4
  <1>5. QED
    BY <1>1, <1>2, <1>3, <1>4 DEF Reports

LEMMA NextOutcome ==
    ASSUME Usage, TypeOK, TypeOK', ClientInv, OneOutcome, [Next]_vars
    PROVE  OneOutcome'
  <1> SUFFICES ASSUME NEW c \in Conns
               PROVE  (Count(c, "open") + Count(c, "error") <= 1)'
    BY DEF OneOutcome
  <1>1. ASSUME NEW t \in Threads, ThreadStep(t) PROVE Reports(c)
    BY <1>1, ThreadReports
  <1>2. UNCHANGED log => Reports(c)
    BY DEF Reports
  <1>3. ASSUME NEW t \in Apps, NEW d \in Conns, NEW op \in Calls, AppCall(t, d, op)
        PROVE  Reports(c)
    BY <1>2, <1>3 DEF AppCall
  <1>4. ASSUME NEW d \in Conns, Environment(d)
        PROVE  Reports(c)
    <2>1. UNCHANGED log
      BY <1>4 DEF Environment, PeerSend, PeerAnswer, PeerPong, Break, ClosingDelay, PingInterval
    <2>2. QED
      BY <1>2, <2>1
  <1>5. UNCHANGED vars => Reports(c)
    BY <1>2 DEF vars
  <1>6. Reports(c)
    BY <1>1, <1>3, <1>4, <1>5 DEF Next, Finished
  <1>7. LogsOK /\ LogsOK' /\ Count(c, "open") + Count(c, "error") <= 1
    BY DEF TypeOK, TransportOK, OneOutcome
  <1>8. QED
    BY <1>6, <1>7, OutcomeStep

(***************************************************************************)
(* One start() reports one Open or one Error, whatever closes, stops and   *)
(* lost connections the loop meets on its passes.                          *)
(***************************************************************************)
THEOREM OneOutcomePerStart == ASSUME Usage PROVE Spec => []OneOutcome
  <1>1. Init => OneOutcome
    <2> SUFFICES ASSUME Init, NEW c \in Conns
                 PROVE  Count(c, "open") + Count(c, "error") <= 1
      BY DEF OneOutcome
    <2>1. ~Logged(c, "open") /\ ~Logged(c, "error") /\ LogsOK
      BY InitTypes DEF Init, Logged, TypeOK, TransportOK
    <2>2. Count(c, "open") = 0 /\ Count(c, "error") = 0
      BY <2>1, CountNone
    <2>3. QED
      BY <2>2
  <1>2. TypeOK /\ TypeOK' /\ ClientInv /\ OneOutcome /\ [Next]_vars => OneOutcome'
    BY NextOutcome
  <1>3. QED
    BY <1>1, <1>2, InvariantHolds, TypeCorrect, PTL DEF Spec

(***************************************************************************)
(* A connection that has reported its end and is CLOSED has closed its     *)
(* socket, whichever of the paths to CLOSED it took and whoever took it.   *)
(***************************************************************************)
THEOREM ShutWhenClosed == ASSUME Usage PROVE Spec => []ClosedMeansShut
  <1>1. ASSUME TypeOK, ClientInv PROVE ClosedMeansShut
    <2> SUFFICES ASSUME NEW c \in Conns, Count(c, "close") > 0
                 PROVE  ws[c].fd # "open"
      BY DEF ClosedMeansShut
    <2>1. Logged(c, "close")
      BY <1>1, CountNone DEF TypeOK, TransportOK
    <2>2. QED
      BY <1>1, <2>1 DEF ClientInv, ConnectionLife, ConnectionOK, EndShut
  <1>2. QED
    BY <1>1, InvariantHolds, TypeCorrect, PTL

-----------------------------------------------------------------------------
(* A connection that is lost: the buffers and the pipe.                    *)

\* What leaves a connection OPEN without its socket: its poll has failed, or a
\* frame is cut.
Excused(c) == net[c].fault \/ Cut(c)

\* A frame that is cut stays when frames before it are taken away, and when
\* others come.
LEMMA CutTail ==
    ASSUME NEW s \in Seq(Received), s # <<>>, Head(s) # "part",
           NEW i \in 1 .. Len(s), s[i] = "part"
    PROVE  \E j \in 1 .. Len(Tail(s)) : Tail(s)[j] = "part"
  <1>1. Len(Tail(s)) = Len(s) - 1 /\ \A j \in 1 .. Len(s) - 1 : Tail(s)[j] = s[j + 1]
    OBVIOUS
  <1>2. i # 1
    OBVIOUS
  <1>3. i - 1 \in 1 .. Len(s) - 1 /\ s[i - 1 + 1] = "part"
    BY <1>2
  <1>4. QED
    BY <1>1, <1>3

LEMMA CutCat ==
    ASSUME NEW s \in Seq(Received), NEW r \in Seq(Received),
           NEW i \in 1 .. Len(s), s[i] = "part"
    PROVE  \E j \in 1 .. Len(s \o r) : (s \o r)[j] = "part"
  <1>1. i \in 1 .. Len(s \o r) /\ (s \o r)[i] = s[i]
    OBVIOUS
  <1>2. QED
    BY <1>1

LEMMA NonePending == ~Pending(<<>>)
  BY DEF Pending

\* What is pending in the pipe after a code is read, and after one is added.
LEMMA PendingTail ==
    ASSUME NEW p \in Seq({"send", "close"}), p # <<>>, Pending(Tail(p))
    PROVE  Pending(p)
  <1>1. Len(Tail(p)) = Len(p) - 1 /\ \A i \in 1 .. Len(p) - 1 : Tail(p)[i] = p[i + 1]
    OBVIOUS
  <1>2. PICK i \in 1 .. Len(p) - 1 : p[i + 1] = "close"
    BY <1>1 DEF Pending
  <1>3. i + 1 \in 1 .. Len(p)
    OBVIOUS
  <1>4. QED
    BY <1>2, <1>3 DEF Pending

LEMMA PendingHead ==
    ASSUME NEW p \in Seq({"send", "close"}), p # <<>>, Head(p) = "close"
    PROVE  Pending(p)
  <1>1. 1 \in 1 .. Len(p) /\ p[1] = "close"
    OBVIOUS
  <1>2. QED
    BY <1>1 DEF Pending

LEMMA PendingNotify ==
    ASSUME NEW p \in Seq({"send", "close"}), Pending(Notify(p, "send"))
    PROVE  Pending(p)
  <1>1. CASE Notify(p, "send") = p
    BY <1>1
  <1>2. CASE Notify(p, "send") = Append(p, "send")
    <2>1. PICK i \in 1 .. Len(p) + 1 : Append(p, "send")[i] = "close"
      BY <1>2 DEF Pending
    <2>2. i \in 1 .. Len(p) /\ p[i] = "close"
      BY <2>1
    <2>3. QED
      BY <2>2 DEF Pending
  <1>3. QED
    BY <1>1, <1>2 DEF Notify

(***************************************************************************)
(* A frame that is cut, or a poll that has failed, stays with the          *)
(* connection while it is OPEN, and only close() and the answer to the     *)
(* peer's CLOSE ask the poll to give up.                                   *)
(***************************************************************************)
DataAs(t) ==
    \A c \in Conns :
        /\ Excused(c) /\ ws'[c].st = "OPEN" =>
              Excused(c)' \/ (Top(t).c = c /\ Top(t).at = "connect")
        /\ Pending(ws'[c].pipe) =>
              Pending(ws[c].pipe) \/ (Top(t).c = c /\ Top(t).at \in {"closeWake", "echoed"})

\* The step leaves them alone.
DataKept ==
    \A c \in Conns :
        /\ ws'[c].rxbuf = ws[c].rxbuf /\ ws'[c].pipe = ws[c].pipe
        /\ net'[c].fault = net[c].fault

LEMMA KeptData ==
    ASSUME NEW t, DataKept
    PROVE  DataAs(t)
  BY DEF DataAs, DataKept, Excused, Cut

\* The buffers in their types.
LEMMA BufferTypes ==
    ASSUME TransportOK, NEW c \in Conns
    PROVE  /\ ws[c].rxbuf \in Seq(Received) /\ net[c].rx \in Seq(Received)
           /\ ws[c].pipe \in Seq({"send", "close"})
  BY DEF TransportOK, SocketsOK, PeersOK, SocketType, PeerType

\* The step takes whole frames off _rxbuf.
LEMMA TakenData ==
    ASSUME NEW t, TransportOK,
           \A d \in Conns :
               /\ ws'[d].pipe = ws[d].pipe /\ net'[d].fault = net[d].fault
               /\ \/ ws'[d].rxbuf = ws[d].rxbuf
                  \/ /\ ws[d].rxbuf # <<>> /\ Head(ws[d].rxbuf) # "part"
                     /\ ws'[d].rxbuf = Tail(ws[d].rxbuf)
    PROVE  DataAs(t)
  <1>1. ASSUME NEW d \in Conns, Cut(d)
        PROVE  Cut(d)'
    <2>1. PICK i \in 1 .. Len(ws[d].rxbuf) : ws[d].rxbuf[i] = "part"
      BY <1>1 DEF Cut
    <2>2. CASE ws'[d].rxbuf = ws[d].rxbuf
      BY <2>1, <2>2 DEF Cut
    <2>3. CASE /\ ws[d].rxbuf # <<>> /\ Head(ws[d].rxbuf) # "part"
               /\ ws'[d].rxbuf = Tail(ws[d].rxbuf)
      BY <2>1, <2>3, BufferTypes, CutTail DEF Cut
    <2>4. QED
      BY <2>2, <2>3
  <1>2. QED
    BY <1>1 DEF DataAs, Excused

\* The sends bring no frame and ask nothing of the poll.
LEMMA SendData ==
    ASSUME NEW t \in Threads, TransportOK,
           \/ Send(t) \/ AppendToSendBuffer(t) \/ PushDone(t) \/ PushFrame(t)
           \/ PushError(t) \/ PushFailed(t) \/ Sent(t) \/ Flush(t)
    PROVE  DataAs(t)
  <1> DEFINE c == Top(t).c
  <1>0. SocketsOK /\ PeersOK
    BY DEF TransportOK
  <1>1. CASE Send(t)
    BY <1>1, KeptData DEF Send, DataKept
  <1>2. CASE AppendToSendBuffer(t)
    <2>1. DataKept
      BY <1>2, <1>0 DEF AppendToSendBuffer, DataKept, SocketsOK, SocketType
    <2>2. QED
      BY <2>1, KeptData
  <1>3. CASE PushDone(t)
    <2>1. DataKept
      BY <1>3, <1>0 DEF PushDone, DataKept, SocketsOK, SocketType
    <2>2. QED
      BY <2>1, KeptData
  <1>4. CASE PushFrame(t)
    <2>1. DataKept
      BY <1>4, <1>0 DEF PushFrame, DataKept, SocketsOK, SocketType, PeersOK, PeerType
    <2>2. QED
      BY <2>1, KeptData
  <1>5. CASE PushError(t)
    <2>1. DataKept
      BY <1>5, <1>0 DEF PushError, DataKept, SocketsOK, SocketType
    <2>2. QED
      BY <2>1, KeptData
  <1>6. CASE PushFailed(t)
    <2>1. DataKept
      BY <1>6, <1>0 DEF PushFailed, DataKept, SocketsOK, SocketType
    <2>2. QED
      BY <2>1, KeptData
  <1>7. CASE Sent(t)
    <2>1. CASE UNCHANGED ws
      BY <1>7, <2>1, KeptData DEF Sent, DataKept
    <2>2. CASE ws' = [ws EXCEPT ![c].pipe = Notify(@, "send")]
      BY <1>7, <2>2, <1>0, BufferTypes, PendingNotify
         DEF Sent, DataAs, Excused, Cut, SocketsOK, SocketType
    <2>3. QED
      BY <1>7, <2>1, <2>2 DEF Sent
  <1>8. CASE Flush(t)
    <2>1. CASE UNCHANGED ws
      BY <1>8, <2>1, KeptData DEF Flush, DataKept
    <2>2. CASE FlushWait(t, c)
      <3>1. CASE ws[c].pipe # <<>> /\ ws' = [ws EXCEPT ![c].pipe = Tail(@)]
        BY <1>8, <3>1, <1>0, BufferTypes, PendingTail
           DEF Flush, DataAs, Excused, Cut, SocketsOK, SocketType
      <3>2. CASE ws' = [ws EXCEPT ![c].tx = t]
        <4>1. DataKept
          BY <1>8, <3>2, <1>0 DEF Flush, DataKept, SocketsOK, SocketType
        <4>2. QED
          BY <4>1, KeptData
      <3>3. CASE ws' = [ws EXCEPT ![c].fd = "shut"]
        <4>1. DataKept
          BY <1>8, <3>3, <1>0 DEF Flush, DataKept, SocketsOK, SocketType
        <4>2. QED
          BY <4>1, KeptData
      <3>4. QED
        BY <2>2, <3>1, <3>2, <3>3 DEF FlushWait
    <2>3. QED
      BY <1>8, <2>1, <2>2 DEF Flush
  <1>9. QED
    BY <1>1, <1>2, <1>3, <1>4, <1>5, <1>6, <1>7, <1>8

\* Only close() asks the poll to give up.
LEMMA CloseData ==
    ASSUME NEW t \in Threads, TransportOK,
           \/ SetClosed(t) \/ NowClosed(t) \/ Switch(t) \/ Switched(t) \/ Close(t)
           \/ CloseIf(t) \/ CloseWake(t) \/ Closing(t) \/ CloseSent(t)
    PROVE  DataAs(t)
  <1> DEFINE c == Top(t).c
  <1>0. SocketsOK /\ PeersOK
    BY DEF TransportOK
  <1>1. CASE SetClosed(t)
    BY <1>1, KeptData DEF SetClosed, DataKept
  <1>2. CASE NowClosed(t)
    <2>1. DataKept
      BY <1>2, <1>0 DEF NowClosed, DataKept, SocketsOK, SocketType
    <2>2. QED
      BY <2>1, KeptData
  <1>3. CASE Switch(t)
    <2>1. DataKept
      BY <1>3, <1>0 DEF Switch, DataKept, SocketsOK, SocketType
    <2>2. QED
      BY <2>1, KeptData
  <1>4. CASE Switched(t)
    <2>1. DataKept
      BY <1>4, <1>0 DEF Switched, DataKept, SocketsOK, SocketType
    <2>2. QED
      BY <2>1, KeptData
  <1>5. CASE Close(t)
    <2>1. DataKept
      BY <1>5, <1>0 DEF Close, DataKept, SocketsOK, SocketType
    <2>2. QED
      BY <2>1, KeptData
  <1>6. CASE CloseIf(t)
    BY <1>6, KeptData DEF CloseIf, DataKept
  <1>7. CASE CloseWake(t)
    BY <1>7, <1>0 DEF CloseWake, At, DataAs, Excused, Cut, SocketsOK, SocketType
  <1>8. CASE Closing(t)
    <2>1. DataKept
      BY <1>8, <1>0 DEF Closing, DataKept, SocketsOK, SocketType
    <2>2. QED
      BY <2>1, KeptData
  <1>9. CASE CloseSent(t)
    BY <1>9, <1>0, BufferTypes, PendingNotify
       DEF CloseSent, DataAs, Excused, Cut, SocketsOK, SocketType
  <1>10. QED
    BY <1>1, <1>2, <1>3, <1>4, <1>5, <1>6, <1>7, <1>8, <1>9

\* The poll adds frames to _rxbuf, and drops them when the connection has ended.
LEMMA PollData ==
    ASSUME NEW t \in Threads, TransportOK,
           \/ Poll(t) \/ Pinged(t) \/ Select(t) \/ WaitWoken(t) \/ WaitRead(t)
           \/ WaitTimeout(t) \/ WaitError(t) \/ Polled(t)
    PROVE  DataAs(t)
  <1> DEFINE c == Top(t).c
  <1>0. SocketsOK /\ PeersOK
    BY DEF TransportOK
  <1>1. CASE Poll(t)
    <2>1. CASE UNCHANGED ws
      BY <1>1, <2>1, KeptData DEF Poll, DataKept
    <2>2. CASE ws' = [ws EXCEPT ![c].pong = FALSE]
      <3>1. DataKept
        BY <1>1, <2>2, <1>0 DEF Poll, DataKept, SocketsOK, SocketType
      <3>2. QED
        BY <3>1, KeptData
    <2>3. QED
      BY <1>1, <2>1, <2>2 DEF Poll
  <1>2. CASE Pinged(t)
    <2>1. DataKept
      BY <1>2, <1>0 DEF Pinged, DataKept, SocketsOK, SocketType
    <2>2. QED
      BY <2>1, KeptData
  <1>3. CASE Select(t)
    BY <1>3, KeptData DEF Select, DataKept
  <1>4. CASE WaitWoken(t)
    <2>1. UNCHANGED net
      BY <1>4 DEF WaitWoken
    <2>2. CASE ws' = [ws EXCEPT ![c].pipe = Tail(@)] /\ ws[c].pipe # <<>>
      <3>1. /\ \A d \in Conns : ws'[d].rxbuf = ws[d].rxbuf /\ net'[d].fault = net[d].fault
            /\ \A d \in Conns : \/ ws'[d].pipe = ws[d].pipe
                                \/ ws[d].pipe # <<>> /\ ws'[d].pipe = Tail(ws[d].pipe)
        BY <2>1, <2>2, <1>0 DEF SocketsOK, SocketType
      <3>2. QED
        BY <3>1, BufferTypes, PendingTail DEF DataAs, Excused, Cut
    <2>3. CASE ws' = [ws EXCEPT ![c].pipe = Tail(@), ![c].fd = "shut"] /\ ws[c].pipe # <<>>
      <3>1. /\ \A d \in Conns : ws'[d].rxbuf = ws[d].rxbuf /\ net'[d].fault = net[d].fault
            /\ \A d \in Conns : \/ ws'[d].pipe = ws[d].pipe
                                \/ ws[d].pipe # <<>> /\ ws'[d].pipe = Tail(ws[d].pipe)
        BY <2>1, <2>3, <1>0 DEF SocketsOK, SocketType
      <3>2. QED
        BY <3>1, BufferTypes, PendingTail DEF DataAs, Excused, Cut
    <2>4. QED
      BY <1>4, <2>2, <2>3 DEF WaitWoken
  <1>5. CASE WaitRead(t)
    <2> DEFINE dead == ~(ws[c].fd = "open" /\ net[c].up)
               r == IF ws[c].fd = "open" THEN ws[c].rxbuf \o net[c].rx ELSE ws[c].rxbuf
    <2>1. c \in Conns
      BY <1>5, ReadyAt DEF WaitRead, ServerLabels, Ready
    <2>2. ws' = [ws EXCEPT ![c].rxbuf = r, ![c].fd = IF dead THEN "shut" ELSE @]
      BY <1>5, <2>1, <1>0 DEF WaitRead, SocketsOK
    <2>3. net' = [net EXCEPT ![c].rx = <<>>]
      BY <1>5 DEF WaitRead
    <2> HIDE DEF dead, r
    <2>4. \A d \in Conns : ws'[d].pipe = ws[d].pipe
      BY <2>2, <1>0 DEF SocketsOK, SocketType
    <2>5. /\ \A d \in Conns \ {c} : ws'[d].rxbuf = ws[d].rxbuf
          /\ \A d \in Conns : net'[d].fault = net[d].fault
      BY <2>2, <2>3, <1>0 DEF SocketsOK, SocketType, PeersOK, PeerType
    <2>6. ws'[c].rxbuf = r
      BY <2>1, <2>2, <1>0 DEF SocketsOK, SocketType
    <2>7. ASSUME NEW d \in Conns, Cut(d)
          PROVE  Cut(d)'
      <3>1. PICK i \in 1 .. Len(ws[d].rxbuf) : ws[d].rxbuf[i] = "part"
        BY <2>7 DEF Cut
      <3>2. CASE ws'[d].rxbuf = ws[d].rxbuf
        BY <3>1, <3>2 DEF Cut
      <3>3. CASE ws'[d].rxbuf = ws[d].rxbuf \o net[d].rx
        <4>1. ws[d].rxbuf \in Seq(Received) /\ net[d].rx \in Seq(Received)
          BY BufferTypes
        <4>2. \E j \in 1 .. Len(ws[d].rxbuf \o net[d].rx) :
                 (ws[d].rxbuf \o net[d].rx)[j] = "part"
          BY <3>1, <4>1, CutCat
        <4>3. QED
          BY <3>3, <4>2 DEF Cut
      <3>4. QED
        BY <2>5, <2>6, <3>2, <3>3 DEF r
    <2>8. \A d \in Conns : Excused(d) => Excused(d)'
      BY <2>5, <2>7 DEF Excused
    <2>9. QED
      BY <2>4, <2>8 DEF DataAs
  <1>6. CASE WaitTimeout(t)
    BY <1>6, KeptData DEF WaitTimeout, DataKept
  <1>7. CASE Polled(t)
    <2>1. CASE UNCHANGED ws
      BY <1>7, <2>1, KeptData DEF Polled, DataKept
    <2>2. CASE /\ ws[c].st = "CLOSING"
               /\ ws' = [ws EXCEPT ![c].rxbuf = <<>>, ![c].fd = "shut"]
      <3>1. /\ \A d \in Conns : ws'[d].pipe = ws[d].pipe /\ net'[d].fault = net[d].fault
            /\ \A d \in Conns \ {c} : ws'[d].rxbuf = ws[d].rxbuf
            /\ c \in Conns => ws'[c].st = "CLOSING"
        BY <1>7, <2>2, <1>0 DEF Polled, SocketsOK, SocketType
      <3>2. QED
        BY <3>1 DEF DataAs, Excused, Cut
    <2>3. QED
      BY <1>7, <2>1, <2>2 DEF Polled
  <1>8. CASE WaitError(t)
    <2>1. \A d \in Conns : /\ ws'[d].rxbuf = ws[d].rxbuf /\ ws'[d].pipe = ws[d].pipe
                          /\ ws'[d].st = ws[d].st
      BY <1>8, <1>0 DEF WaitError, SocketsOK, SocketType
    <2>2. \A d \in Conns \ {c} : net'[d] = net[d]
      BY <1>8, <1>0 DEF WaitError, PeersOK
    <2>3. c \in Conns => net'[c].fault = (ws[c].st = "OPEN")
      BY <1>8, <1>0 DEF WaitError, PeersOK, PeerType
    <2>4. \A d \in Conns : Excused(d) /\ ws'[d].st = "OPEN" => Excused(d)'
      BY <2>1, <2>2, <2>3 DEF Excused, Cut
    <2>5. QED
      BY <2>1, <2>4 DEF DataAs
  <1>9. QED
    BY <1>1, <1>2, <1>3, <1>4, <1>5, <1>6, <1>7, <1>8

\* dispatch takes whole frames away, and answers the peer's CLOSE.
LEMMA DispatchedData ==
    ASSUME NEW t \in Threads, TransportOK,
           \/ DispatchData(t) \/ DispatchPing(t) \/ Ponged(t) \/ DispatchPong(t)
           \/ DispatchUnexpected(t) \/ Unordered(t) \/ DispatchRefused(t)
           \/ DispatchPart(t) \/ DispatchClose(t) \/ Echoed(t) \/ DispatchEnd(t)
    PROVE  DataAs(t)
  <1> DEFINE c == Top(t).c
  <1>0. SocketsOK /\ PeersOK
    BY DEF TransportOK
  <1>1. CASE DispatchData(t)
    <2>1. \A d \in Conns :
             /\ ws'[d].pipe = ws[d].pipe /\ net'[d].fault = net[d].fault
             /\ ws'[d].rxbuf # ws[d].rxbuf =>
                   /\ ws[d].rxbuf # <<>> /\ Head(ws[d].rxbuf) # "part"
                   /\ ws'[d].rxbuf = Tail(ws[d].rxbuf)
      BY <1>1, <1>0 DEF DispatchData, SocketsOK, SocketType
    <2>2. QED
      BY <2>1, TakenData
  <1>2. CASE DispatchPing(t)
    <2>1. \A d \in Conns :
             /\ ws'[d].pipe = ws[d].pipe /\ net'[d].fault = net[d].fault
             /\ ws'[d].rxbuf # ws[d].rxbuf =>
                   /\ ws[d].rxbuf # <<>> /\ Head(ws[d].rxbuf) # "part"
                   /\ ws'[d].rxbuf = Tail(ws[d].rxbuf)
      BY <1>2, <1>0 DEF DispatchPing, SocketsOK, SocketType
    <2>2. QED
      BY <2>1, TakenData
  <1>3. CASE Ponged(t)
    BY <1>3, KeptData DEF Ponged, DataKept
  <1>4. CASE DispatchPong(t)
    <2>1. \A d \in Conns :
             /\ ws'[d].pipe = ws[d].pipe /\ net'[d].fault = net[d].fault
             /\ ws'[d].rxbuf # ws[d].rxbuf =>
                   /\ ws[d].rxbuf # <<>> /\ Head(ws[d].rxbuf) # "part"
                   /\ ws'[d].rxbuf = Tail(ws[d].rxbuf)
      BY <1>4, <1>0 DEF DispatchPong, SocketsOK, SocketType
    <2>2. QED
      BY <2>1, TakenData
  <1>5. CASE DispatchUnexpected(t)
    <2>1. \A d \in Conns :
             /\ ws'[d].pipe = ws[d].pipe /\ net'[d].fault = net[d].fault
             /\ ws'[d].rxbuf # ws[d].rxbuf =>
                   /\ ws[d].rxbuf # <<>> /\ Head(ws[d].rxbuf) # "part"
                   /\ ws'[d].rxbuf = Tail(ws[d].rxbuf)
      BY <1>5, <1>0 DEF DispatchUnexpected, SocketsOK, SocketType
    <2>2. QED
      BY <2>1, TakenData
  <1>6. CASE Unordered(t)
    BY <1>6, KeptData DEF Unordered, DataKept
  <1>7. CASE DispatchRefused(t)
    BY <1>7, KeptData DEF DispatchRefused, DataKept
  <1>8. CASE DispatchPart(t)
    BY <1>8, KeptData DEF DispatchPart, DataKept
  <1>9. CASE DispatchClose(t)
    <2>1. UNCHANGED net
      BY <1>9 DEF DispatchClose
    <2>2. ws[c].rxbuf # <<>> /\ Head(ws[c].rxbuf) # "part"
      BY <1>9 DEF DispatchClose
    <2>3. \/ ws' = [ws EXCEPT ![c].rxbuf = Tail(@), ![c].st = "CLOSING"]
          \/ ws' = [ws EXCEPT ![c].rxbuf = Tail(@)]
      BY <1>9 DEF DispatchClose
    <2>4. \A d \in Conns :
             /\ ws'[d].pipe = ws[d].pipe
             /\ \/ ws'[d].rxbuf = ws[d].rxbuf
                \/ d = c /\ ws'[d].rxbuf = Tail(ws[d].rxbuf)
      <3>1. CASE ws' = [ws EXCEPT ![c].rxbuf = Tail(@), ![c].st = "CLOSING"]
        BY <3>1, <1>0 DEF SocketsOK, SocketType
      <3>2. CASE ws' = [ws EXCEPT ![c].rxbuf = Tail(@)]
        BY <3>2, <1>0 DEF SocketsOK, SocketType
      <3>3. QED
        BY <2>3, <3>1, <3>2
    <2>5. \A d \in Conns :
             /\ ws'[d].pipe = ws[d].pipe /\ net'[d].fault = net[d].fault
             /\ \/ ws'[d].rxbuf = ws[d].rxbuf
                \/ /\ ws[d].rxbuf # <<>> /\ Head(ws[d].rxbuf) # "part"
                   /\ ws'[d].rxbuf = Tail(ws[d].rxbuf)
      BY <2>1, <2>2, <2>4
    <2>6. QED
      BY <2>5, TakenData
  <1>10. CASE Echoed(t)
    BY <1>10, <1>0 DEF Echoed, At, DataAs, Excused, Cut, SocketsOK, SocketType
  <1>11. CASE DispatchEnd(t)
    <2>1. CASE UNCHANGED ws
      BY <1>11, <2>1, KeptData DEF DispatchEnd, DataKept
    <2>2. CASE ws' = [ws EXCEPT ![c].fd = "shut"]
      <3>1. DataKept
        BY <1>11, <2>2, <1>0 DEF DispatchEnd, DataKept, SocketsOK, SocketType
      <3>2. QED
        BY <3>1, KeptData
    <2>3. QED
      BY <1>11, <2>1, <2>2 DEF DispatchEnd
  <1>12. QED
    BY <1>1, <1>2, <1>3, <1>4, <1>5, <1>6, <1>7, <1>8, <1>9, <1>10, <1>11

\* The loop, the handshake, start() and stop() bring nothing.
LEMMA LoopData ==
    ASSUME NEW t \in Threads, TransportOK,
           \/ Check(t) \/ Connect(t) \/ Handshake(t) \/ Upgrade(t)
           \/ UpgradeFails(t) \/ Upgraded(t) \/ Open(t) \/ Opened(t)
           \/ FirstPinged(t) \/ Loop(t) \/ LoopStop(t) \/ Start(t) \/ Stop(t)
           \/ StopThread(t) \/ Join(t) \/ Stopped(t)
    PROVE  DataAs(t)
  <1> DEFINE c == Top(t).c
  <1>0. SocketsOK /\ PeersOK
    BY DEF TransportOK
  <1>1. CASE Check(t)
    <2>1. DataKept
      BY <1>1, <1>0 DEF Check, DataKept, SocketsOK, SocketType
    <2>2. QED
      BY <2>1, KeptData
  <1>2. CASE Connect(t)
    <2>1. CASE UNCHANGED <<ws, net>>
      BY <2>1, KeptData DEF DataKept
    <2>2. CASE /\ ws' = [ws EXCEPT ![c].sk = t, ![c].fd = "shut", ![c].pipe = <<>>]
               /\ net' = [net EXCEPT ![c] = NoPeer]
      <3>1. /\ \A d \in Conns : ws'[d].rxbuf = ws[d].rxbuf
            /\ \A d \in Conns : ws'[d].pipe = ws[d].pipe \/ ws'[d].pipe = <<>>
        BY <2>2, <1>0 DEF SocketsOK, SocketType
      <3>2. \A d \in Conns \ {c} : net'[d].fault = net[d].fault
        BY <2>2, <1>0 DEF PeersOK
      <3>3. Top(t).at = "connect"
        BY <1>2 DEF Connect, At
      <3>4. QED
        BY <3>1, <3>2, <3>3, NonePending DEF DataAs, Excused, Cut
    <2>3. QED
      BY <1>2, <2>1, <2>2 DEF Connect
  <1>3. CASE Handshake(t)
    <2>1. DataKept
      BY <1>3, <1>0 DEF Handshake, DataKept, SocketsOK, SocketType
    <2>2. QED
      BY <2>1, KeptData
  <1>4. CASE Upgrade(t)
    <2>1. DataKept
      BY <1>4, <1>0 DEF Upgrade, DataKept, SocketsOK, SocketType, PeersOK, PeerType
    <2>2. QED
      BY <2>1, KeptData
  <1>5. CASE UpgradeFails(t)
    <2>1. DataKept
      BY <1>5, <1>0 DEF UpgradeFails, DataKept, SocketsOK, SocketType
    <2>2. QED
      BY <2>1, KeptData
  <1>6. CASE Upgraded(t)
    <2>1. DataKept
      BY <1>6, <1>0 DEF Upgraded, DataKept, SocketsOK, SocketType
    <2>2. QED
      BY <2>1, KeptData
  <1>7. CASE Open(t)
    BY <1>7, KeptData DEF Open, DataKept
  <1>8. CASE Opened(t)
    <2>1. CASE UNCHANGED ws
      BY <1>8, <2>1, KeptData DEF Opened, DataKept
    <2>2. CASE ws' = [ws EXCEPT ![c].pong = FALSE]
      <3>1. DataKept
        BY <1>8, <2>2, <1>0 DEF Opened, DataKept, SocketsOK, SocketType
      <3>2. QED
        BY <3>1, KeptData
    <2>3. QED
      BY <1>8, <2>1, <2>2 DEF Opened
  <1>9. CASE FirstPinged(t)
    <2>1. DataKept
      BY <1>9, <1>0 DEF FirstPinged, DataKept, SocketsOK, SocketType
    <2>2. QED
      BY <2>1, KeptData
  <1>10. CASE Loop(t)
    BY <1>10, KeptData DEF Loop, DataKept
  <1>11. CASE LoopStop(t)
    BY <1>11, KeptData DEF LoopStop, DataKept
  <1>12. CASE Start(t)
    <2>1. CASE UNCHANGED ws
      BY <1>12, <2>1, KeptData DEF Start, DataKept
    <2>2. CASE ws' = [ws EXCEPT ![c].joinable = TRUE, ![c].first = TRUE]
      <3>1. DataKept
        BY <1>12, <2>2, <1>0 DEF Start, DataKept, SocketsOK, SocketType
      <3>2. QED
        BY <3>1, KeptData
    <2>3. QED
      BY <1>12, <2>1, <2>2 DEF Start
  <1>13. CASE Stop(t)
    BY <1>13, KeptData DEF Stop, DataKept
  <1>14. CASE StopThread(t)
    <2>1. CASE UNCHANGED ws
      BY <1>14, <2>1, KeptData DEF StopThread, DataKept
    <2>2. CASE ws' = [ws EXCEPT ![c].stop = TRUE]
      <3>1. DataKept
        BY <1>14, <2>2, <1>0 DEF StopThread, DataKept, SocketsOK, SocketType
      <3>2. QED
        BY <3>1, KeptData
    <2>3. QED
      BY <1>14, <2>1, <2>2 DEF StopThread
  <1>15. CASE Join(t)
    <2>1. DataKept
      BY <1>15, <1>0 DEF Join, DataKept, SocketsOK, SocketType
    <2>2. QED
      BY <2>1, KeptData
  <1>16. CASE Stopped(t)
    BY <1>16, KeptData DEF Stopped, DataKept
  <1>17. QED
    BY <1>1, <1>2, <1>3, <1>4, <1>5, <1>6, <1>7, <1>8, <1>9, <1>10, <1>11, <1>12, <1>13,
       <1>14, <1>15, <1>16

\* Any step of a thread.
LEMMA ThreadData ==
    ASSUME NEW t \in Threads, TransportOK, ThreadStep(t)
    PROVE  DataAs(t)
  <1>1. CASE TransportStep(t)
    BY <1>1, SendData, CloseData, PollData, DispatchedData
       DEF TransportStep, WaitStep, DispatchStep
  <1>2. CASE WebSocketStep(t) /\ ~TransportStep(t)
    BY <1>2, LoopData DEF WebSocketStep
  <1>3. CASE WsNew(t)
    <2>1. \A d \in Conns :
             \/ /\ ws'[d].rxbuf = ws[d].rxbuf /\ ws'[d].pipe = ws[d].pipe
                /\ net'[d].fault = net[d].fault
             \/ ws'[d].st # "OPEN" /\ ws'[d].pipe = <<>>
      BY <1>3 DEF WsNew, Fresh, TransportOK, SocketsOK, PeersOK
    <2>2. QED
      BY <2>1, NonePending DEF DataAs, Excused, Cut
  <1>4. CASE UNCHANGED <<ws, net>>
    BY <1>4, KeptData DEF DataKept
  <1>5. QED
    BY <1>1, <1>2, <1>3, <1>4
       DEF ThreadStep, Callback, ClientClose, ClientStop, ClientClosed, ClientConnect,
           ClientRestart, ClientDestroy, ClientReset, Destroyed, WsRelease, WsStop, WsStart,
           WsReset

-----------------------------------------------------------------------------
(* A connection that is lost: the threads.                                 *)

(***************************************************************************)
(* The steps that do not open, start or replace a connection: who stops it *)
(* waits for its thread to the end, and who reports its end does not turn  *)
(* back.                                                                   *)
(***************************************************************************)
YieldAs(t, m, g, h) ==
    LET f == Top(t)
        c == Top(t).c
    IN
    /\ f.at # "connect"
    /\ m # "return" => g.c = c /\ g.at \notin Dialling
    /\ m = "call" => h.c = c /\ (h.at \in CloseLabels => h.at = "close")
    /\ \A d \in Conns \ {c} : ws'[d] = ws[d]
    /\ ws'[c].first = ws[c].first
    /\ ws'[c].st = "OPEN" => ws[c].st = "OPEN"
    /\ f.at \in Closers /\ m # "return" => g.at \in Closers
    /\ f.at \in {"stopThread", "join"} =>
          stk[c] = <<>> \/ (m # "return" /\ g.at = "join")
    /\ EndsAs(t, m, g, h)

\* What stays in the stacks, and what comes.
LEMMA FramesKept ==
    ASSUME NEW t \in Threads, StacksOK, StacksOK', stk[t] # <<>>,
           NEW m, NEW g, NEW h, Moves(t, m, g, h),
           NEW u \in Threads, NEW i \in 1 .. Len(stk[u]), u # t \/ i < Len(stk[t])
    PROVE  i \in 1 .. Len(stk'[u]) /\ stk'[u][i] = stk[u][i] /\ stk'[u] # <<>>
  <1>1. CASE u # t
    <2>1. stk'[u] = stk[u] /\ stk[u] \in Seq(FrameType)
      BY <1>1 DEF Moves, StacksOK
    <2>2. stk[u] # <<>>
      BY <2>1
    <2>3. QED
      BY <2>1, <2>2
  <1>2. CASE u = t /\ i < Len(stk[t])
    <2>1. Len(stk[t]) \in Nat /\ Len(stk'[t]) \in Nat /\ Len(stk'[t]) >= Len(stk[t]) - 1
      BY LastFrame DEF Moves, StacksOK
    <2>2. i \in 1 .. Len(stk[t]) - 1 /\ i \in 1 .. Len(stk'[t])
      BY <1>2, <2>1
    <2>3. stk'[t] # <<>>
      BY <2>2 DEF StacksOK
    <2>4. QED
      BY <1>2, <2>2, <2>3 DEF Moves
  <1>3. QED
    BY <1>1, <1>2

LEMMA FramesBrought ==
    ASSUME NEW t \in Threads, StacksOK, StacksOK', stk[t] # <<>>,
           NEW m, NEW g, NEW h, Moves(t, m, g, h), m # "return"
    PROVE  /\ Len(stk[t]) \in 1 .. Len(stk'[t]) /\ stk'[t][Len(stk[t])] = g
           /\ stk'[t] # <<>>
           /\ m = "call" =>
                 Len(stk[t]) + 1 \in 1 .. Len(stk'[t]) /\ stk'[t][Len(stk[t]) + 1] = h
  <1>1. Len(stk[t]) \in Nat /\ Len(stk[t]) >= 1 /\ Len(stk'[t]) \in Nat
    BY LastFrame DEF StacksOK
  <1>2. Len(stk'[t]) = Len(stk[t]) \/ Len(stk'[t]) = Len(stk[t]) + 1
    BY DEF Moves
  <1>3. Len(stk[t]) \in 1 .. Len(stk'[t])
    BY <1>1, <1>2
  <1>4. stk'[t] # <<>>
    BY <1>3 DEF StacksOK
  <1>5. QED
    BY <1>1, <1>3, <1>4 DEF Moves

\* Who waits for the thread of c, waits while it runs.
LEMMA StoppingAfter ==
    ASSUME NEW t \in Threads, StacksOK, StacksOK', stk[t] # <<>>,
           NEW m, NEW g, NEW h, Moves(t, m, g, h), YieldAs(t, m, g, h),
           NEW c \in Conns, stk[c] # <<>>, Stopping(c)
    PROVE  Stopping(c)'
  <1> DEFINE n == Len(stk[t])
  <1>1. PICK u \in Apps : \E i \in 1 .. Len(stk[u]) :
           stk[u][i].c = c /\ stk[u][i].at \in {"stopThread", "join"}
    BY DEF Stopping
  <1>2. PICK i \in 1 .. Len(stk[u]) :
           stk[u][i].c = c /\ stk[u][i].at \in {"stopThread", "join"}
    BY <1>1
  <1>3. u \in Threads /\ n \in Nat /\ Top(t) = stk[t][n]
    BY LastFrame DEF Threads
  <1>4. CASE u # t \/ i < n
    <2>1. i \in 1 .. Len(stk'[u]) /\ stk'[u][i] = stk[u][i]
      BY <1>3, <1>4, FramesKept
    <2>2. QED
      BY <1>2, <2>1 DEF Stopping
  <1>5. CASE u = t /\ i = n
    <2>1. m # "return" /\ g.at = "join" /\ g.c = c
      BY <1>2, <1>3, <1>5 DEF YieldAs
    <2>2. n \in 1 .. Len(stk'[t]) /\ stk'[t][n] = g
      BY <2>1, FramesBrought
    <2>3. QED
      BY <1>5, <2>1, <2>2 DEF Stopping
  <1>6. QED
    BY <1>2, <1>3, <1>4, <1>5

\* Who ends an open connection goes on to its end.
LEMMA EndingAfter ==
    ASSUME NEW t \in Threads, StacksOK, StacksOK', stk[t] # <<>>, Placed,
           NEW m, NEW g, NEW h, Moves(t, m, g, h), YieldAs(t, m, g, h),
           NEW c \in Conns, ws[c].rxbuf \in Seq(Received), ~Cut(c),
           ws'[c].st = "OPEN", Ending(c)
    PROVE  Ending(c)'
  <1> DEFINE n == Len(stk[t])
             Reads == {"dispatch", "ponged", "unordered"}
             Calls2 == {"close", "closeIf", "closing", "switch"}
  <1>1. n \in Nat /\ n >= 1 /\ Top(t) = stk[t][n] /\ c \in Threads
    BY LastFrame DEF Threads
  <1>2. t = c => Top(t).c = c
    BY OwnConnection
  <1>3. CASE ~Nowhere(c, Closers)
    <2>1. PICK u \in Threads : \E i \in 1 .. Len(stk[u]) :
             stk[u][i].c = c /\ stk[u][i].at \in Closers
      BY <1>3 DEF Nowhere
    <2>2. PICK i \in 1 .. Len(stk[u]) : stk[u][i].c = c /\ stk[u][i].at \in Closers
      BY <2>1
    <2>3. CASE u # t \/ i < n
      <3>1. i \in 1 .. Len(stk'[u]) /\ stk'[u][i] = stk[u][i]
        BY <2>3, FramesKept
      <3>2. QED
        BY <2>2, <3>1 DEF Ending, Nowhere
    <2>4. CASE u = t /\ i = n
      <3>1. m # "return" /\ g.at \in Closers /\ g.c = c
        BY <1>1, <2>2, <2>4 DEF YieldAs, EndsAs
      <3>2. n \in 1 .. Len(stk'[t]) /\ stk'[t][n] = g
        BY <3>1, FramesBrought
      <3>3. QED
        BY <3>1, <3>2 DEF Ending, Nowhere
    <2>5. QED
      BY <1>1, <2>2, <2>3, <2>4
  <1>4. CASE First(c, c, Reads) /\ stk[c][1].arg = "failed"
    <2>0. 1 \in 1 .. Len(stk[c])
      BY <1>1, <1>4, LastFrame DEF First
    <2>1. CASE c # t \/ n > 1
      <3>1. stk'[c] # <<>> /\ stk'[c][1] = stk[c][1]
        BY <1>1, <2>0, <2>1, FramesKept
      <3>2. QED
        BY <1>4, <3>1 DEF Ending, First
    <2>2. CASE c = t /\ n = 1
      <3>1. Top(t) = stk[c][1] /\ Top(t).at \in Reads /\ Top(t).arg = "failed"
        BY <1>1, <1>4, <2>2 DEF First
      <3>2. ~(ws[c].rxbuf # <<>> /\ Head(ws[c].rxbuf) = "part")
        <4>1. ws[c].rxbuf # <<>> =>
                 1 \in 1 .. Len(ws[c].rxbuf) /\ Head(ws[c].rxbuf) = ws[c].rxbuf[1]
          OBVIOUS
        <4>2. QED
          BY <4>1 DEF Cut
      <3>3. \/ m # "return" /\ g.arg = "failed" /\ g.at \in Reads
            \/ m = "call" /\ g.at = "check" /\ h.at \in {"close", "switch"}
        BY <1>2, <2>2, <3>1, <3>2 DEF YieldAs, EndsAs
      <3>4. m # "return" /\ g.c = c
        BY <1>2, <2>2, <3>3 DEF YieldAs
      <3>5. /\ stk'[c] # <<>> /\ stk'[c][1] = g
            /\ m = "call" => 2 \in 1 .. Len(stk'[c]) /\ stk'[c][2] = h
        <4>1. /\ stk'[t] # <<>> /\ stk'[t][n] = g
              /\ m = "call" => n + 1 \in 1 .. Len(stk'[t]) /\ stk'[t][n + 1] = h
          BY <3>4, FramesBrought
        <4> HIDE DEF n
        <4>2. n + 1 = 2
          BY <2>2
        <4>3. QED
          BY <2>2, <4>1, <4>2
      <3>6. CASE g.arg = "failed" /\ g.at \in Reads
        BY <3>4, <3>5, <3>6 DEF Ending, First
      <3>7. CASE m = "call" /\ g.at = "check" /\ h.at \in {"close", "switch"}
        <4>1. Len(stk'[c]) \in Nat
          BY <1>1 DEF StacksOK
        <4>2. Len(stk'[c]) > 1
          BY <3>5, <3>7, <4>1
        <4>3. QED
          BY <3>4, <3>5, <3>7, <4>2 DEF Ending, First
      <3>8. QED
        BY <3>3, <3>6, <3>7
    <2>3. QED
      <3> HIDE DEF n
      <3>1. QED
        BY <1>1, <2>1, <2>2
  <1>5. CASE First(c, c, {"check"}) /\ Len(stk[c]) > 1 /\ stk[c][2].at \in Calls2
    <2>0. Len(stk[c]) \in Nat /\ Len(stk'[c]) \in Nat
      BY <1>1 DEF StacksOK
    <2>1. 1 \in 1 .. Len(stk[c]) /\ 2 \in 1 .. Len(stk[c])
      BY <1>5, <2>0
    <2>2. stk'[c] # <<>> /\ stk'[c][1] = stk[c][1]
      BY <1>1, <1>5, <2>1, FramesKept
    <2>3. CASE c # t \/ n > 2
      <3>1. 2 \in 1 .. Len(stk'[c]) /\ stk'[c][2] = stk[c][2]
        BY <1>1, <2>1, <2>3, FramesKept
      <3>2. Len(stk'[c]) > 1
        BY <2>0, <3>1
      <3>3. QED
        BY <1>5, <2>2, <3>1, <3>2 DEF Ending, First
    <2>4. CASE c = t /\ n = 2
      <3>1. Top(t).at \in Calls2 /\ Top(t).c = c
        BY <1>1, <1>2, <1>5, <2>4
      <3>2. \/ m = "jump" /\ g.at \in {"closeIf", "closing"}
            \/ Brings(m, g, h, Closers)
        BY <2>4, <3>1 DEF YieldAs, EndsAs
      <3>3. CASE m = "jump" /\ g.at \in {"closeIf", "closing"}
        <4>1. 2 \in 1 .. Len(stk'[c]) /\ stk'[c][2] = g
          BY <2>4, <3>3, FramesBrought
        <4>2. Len(stk'[c]) > 1
          BY <2>0, <4>1
        <4>3. QED
          BY <1>5, <2>2, <3>3, <4>1, <4>2 DEF Ending, First
      <3>4. CASE Brings(m, g, h, Closers)
        <4>1. \E i \in 1 .. Len(stk'[t]) : stk'[t][i].c = c /\ stk'[t][i].at \in Closers
          BY <3>1, <3>4, FramesBrought DEF Brings, YieldAs
        <4>2. QED
          BY <4>1 DEF Ending, Nowhere
      <3>5. QED
        BY <3>2, <3>3, <3>4
    <2>5. QED
      <3>1. c = t => n > 1
        BY <1>5
      <3> HIDE DEF n
      <3>2. QED
        BY <1>1, <2>3, <2>4, <3>1
  <1>6. QED
    BY <1>3, <1>4, <1>5 DEF Ending

\* Who calls close() on the transport.
CallsClose(t, m, g, h) ==
    /\ m # "return" /\ g.at \in CloseLabels => Top(t).at \in CloseLabels
    /\ m = "call" /\ h.at \in CloseLabels =>
          g.at \in {"stopThread", "start", "select", "unordered", "dispatch", "check"}

\* Such a step leaves close() called by who calls it.
LEMMA CloseCalledAfter ==
    ASSUME NEW t \in Threads, StacksOK, StacksOK', stk[t] # <<>>,
           NEW m, NEW g, NEW h, Moves(t, m, g, h), CallsClose(t, m, g, h),
           NEW u \in Threads, CloseCalled(u)
    PROVE  CloseCalled(u)'
  <1> DEFINE n == Len(stk[t])
             Callers == {"stopThread", "start", "select", "unordered", "dispatch", "check"}
  <1>1. n \in Nat /\ n >= 1 /\ Top(t) = stk[t][n] /\ Len(stk'[t]) \in Nat
    <2>1. stk'[t] \in Seq(FrameType)
      BY DEF StacksOK
    <2>2. QED
      BY <2>1, LastFrame
  <1>2. CASE u # t
    <2>1. stk'[u] = stk[u]
      BY <1>2 DEF Moves
    <2>2. QED
      BY <2>1 DEF CloseCalled
  <1>3. CASE u = t
    <2> SUFFICES ASSUME NEW i \in 1 .. Len(stk'[t]), stk'[t][i].at \in CloseLabels
                 PROVE  i > 1 /\ stk'[t][i - 1].at \in Callers
      BY <1>3 DEF CloseCalled
    <2>0. /\ \A j \in 1 .. n - 1 : stk'[t][j] = stk[t][j]
          /\ \A j \in 1 .. n : stk[t][j].at \in CloseLabels =>
                j > 1 /\ stk[t][j - 1].at \in Callers
      BY <1>3 DEF Moves, CloseCalled
    <2>1. \/ i < n /\ stk'[t][i] = stk[t][i]
          \/ i = n /\ m # "return" /\ stk'[t][i] = g
          \/ i = n + 1 /\ m = "call" /\ stk'[t][i] = h
      BY FramesAfter
    <2>2. i \in Nat /\ i >= 1
      BY <1>1
    <2>3. CASE i < n /\ stk'[t][i] = stk[t][i]
      <3> HIDE DEF n
      <3>1. i \in 1 .. n /\ (i > 1 => i - 1 \in 1 .. n - 1)
        BY <1>1, <2>2, <2>3
      <3>2. QED
        BY <2>0, <2>3, <3>1
    <2>4. CASE i = n /\ m # "return" /\ stk'[t][i] = g
      <3>1. stk[t][n].at \in CloseLabels
        BY <1>1, <2>4 DEF CallsClose
      <3> HIDE DEF n
      <3>2. i \in 1 .. n /\ (i > 1 => i - 1 \in 1 .. n - 1)
        BY <1>1, <2>2, <2>4
      <3>3. QED
        BY <2>0, <2>4, <3>1, <3>2
    <2>5. CASE i = n + 1 /\ m = "call" /\ stk'[t][i] = h
      <3>1. g.at \in Callers
        BY <2>5 DEF CallsClose
      <3>2. stk'[t][n] = g
        BY <2>5 DEF Moves
      <3> HIDE DEF n
      <3>3. i > 1 /\ i - 1 = n
        BY <1>1, <2>5
      <3>4. QED
        BY <3>1, <3>2, <3>3
    <2>6. QED
      BY <2>1, <2>3, <2>4, <2>5
  <1>4. QED
    BY <1>2, <1>3

\* A thread of the application that wakes the poll for close() stops the connection.
LEMMA WakesStopping ==
    ASSUME NEW t \in Apps, StacksOK, stk[t] # <<>>, ClientInv, CloseCalled(t),
           Top(t).at = "closeWake", NEW c \in Conns, c = Top(t).c, stk[c] # <<>>
    PROVE  Stopping(c)
  <1> DEFINE n == Len(stk[t])
  <1>1. t \in Threads /\ t \notin Conns
    BY TransportAssumption DEF Threads
  <1>2. n \in Nat /\ n >= 1 /\ Top(t) = stk[t][n] /\ n \in 1 .. n
    BY <1>1, LastFrame
  <1>3. n > 1 /\ stk[t][n - 1].at \in
                    {"stopThread", "start", "select", "unordered", "dispatch", "check"}
    BY <1>2 DEF CloseCalled, CloseLabels
  <1>4. n - 1 \in 1 .. n /\ n - 1 \in 1 .. n - 1
    <2> HIDE DEF n
    <2>1. QED
      BY <1>2, <1>3
  <1>5. Placed /\ ThreadLife
    BY DEF ClientInv
  <1>6. stk[t][n - 1].c = c /\ stk[t][1].c = c
    BY <1>1, <1>2, <1>4, <1>5 DEF Placed
  <1>7. stk[t][n - 1].at \notin LoopLabels
    <2>1. FrameOK(t, stk[t][n - 1])
      BY <1>1, <1>4 DEF StacksOK
    <2>2. QED
      BY <1>1, <1>6, <2>1 DEF FrameOK
  <1>8. stk[t][n - 1].at # "start"
    <2> SUFFICES ASSUME stk[t][n - 1].at = "start"
                 PROVE  FALSE
      OBVIOUS
    <2>1. CASE n - 1 = 1
      <3>1. First(t, c, {"start"})
        BY <1>6, <2>1 DEF First
      <3>2. QED
        BY <1>5, <3>1 DEF ThreadLife, StartsNew
    <2>2. CASE n - 1 # 1
      <3>1. n - 2 \in 1 .. n - 1 /\ n - 2 + 1 = n - 1
        <4> HIDE DEF n
        <4>1. QED
          BY <1>2, <1>3, <2>2
      <3>2. Calling(stk[t][n - 2], stk[t][n - 1])
        BY <1>1, <1>5, <3>1 DEF Placed
      <3>3. QED
        BY <3>2 DEF Calling, Bottom, MainLabels
    <2>3. QED
      BY <2>1, <2>2
  <1>9. stk[t][n - 1].at = "stopThread"
    BY <1>3, <1>7, <1>8 DEF LoopLabels
  <1>10. QED
    BY <1>4, <1>6, <1>9 DEF Stopping

\* The handshake is alone in its thread, and nobody sends yet.
LEMMA DiallingAlone ==
    ASSUME NEW c \in Conns, StacksOK, Placed, ConnectionOK(c), First(c, c, Dialling)
    PROVE  Len(stk[c]) = 1 /\ Top(c) = stk[c][1] /\ Nowhere(c, SendPath)
  <1>1. stk[c] # <<>> /\ First(c, c, Opening) /\ Unopened(c)
    BY DEF First, Dialling, Opening, Unopened
  <1>2. Len(stk[c]) = 1 /\ Top(c) = stk[c][1]
    BY <1>1, UnopenedLoop DEF ConnectionOK
  <1>3. QED
    BY <1>1, <1>2 DEF ConnectionOK, UnopenedClosed

\* Such a step brings nobody to the handshake.
LEMMA DiallingBefore ==
    ASSUME NEW t \in Threads, StacksOK, StacksOK', stk[t] # <<>>, Placed,
           NEW m, NEW g, NEW h, Moves(t, m, g, h), YieldAs(t, m, g, h),
           NEW c \in Conns, ConnectionOK(c), First(c, c, Dialling)'
    PROVE  t # c /\ stk'[c] = stk[c] /\ First(c, c, Dialling)
  <1>1. CASE t # c
    <2>1. stk'[c] = stk[c]
      BY <1>1 DEF Moves, Threads
    <2>2. QED
      BY <1>1, <2>1 DEF First
  <1>2. CASE t = c
    <2>1. stk'[t] # <<>> /\ stk'[t][1].at \in Dialling /\ stk'[t][1].c = c
      BY <1>2 DEF First
    <2>2. CASE Len(stk[t]) > 1 /\ stk'[t][1] = stk[t][1]
      <3>1. First(c, c, Dialling)
        BY <1>2, <2>1, <2>2 DEF First
      <3>2. Len(stk[c]) = 1
        BY <3>1, DiallingAlone
      <3>3. QED
        BY <1>2, <2>2, <3>2
    <2>3. CASE m # "return" /\ stk'[t][1] = g
      BY <2>1, <2>3 DEF YieldAs
    <2>4. QED
      BY <2>1, <2>2, <2>3, FirstAfter
  <1>3. QED
    BY <1>1, <1>2

\* A lost connection stays attended to by such a step, whoever takes it.
LEMMA AttendedAfter ==
    ASSUME NEW t \in Threads, TransportOK, StacksOK', stk[t] # <<>>, ClientInv, LostInv,
           NEW m, NEW g, NEW h, Moves(t, m, g, h), YieldAs(t, m, g, h), DataAs(t),
           NEW c \in Conns
    PROVE  Attended(c)'
  <1> DEFINE n == Len(stk[t])
             f == Top(t)
             old == ws[c]
             new == ws'[c]
             Wakes == {"closeWake", "echoed"}
  <1> SUFFICES ASSUME stk'[c] # <<>>, ~new.first, ~Stopping(c)'
               PROVE  /\ new.st = "OPEN" /\ new.fd = "shut" => Ending(c)' \/ Excused(c)'
                      /\ new.st = "OPEN" \/ First(c, c, Dialling)' => ~Pending(new.pipe)
                      /\ First(c, c, {"upgraded"})' => new.fd = "open"
                      /\ \A i \in 1 .. Len(stk'[c]) :
                            stk'[c][i].at \in Wakes => new.st # "OPEN"
    BY DEF Attended, Excused
  <1>1. /\ StacksOK /\ Placed /\ ConnectionOK(c)
        /\ Attended(c) /\ CloseCalled(t)
    BY DEF TransportOK, ClientInv, ConnectionLife, LostInv
  <1>2. /\ n \in Nat /\ n >= 1 /\ f = stk[t][n] /\ n \in 1 .. n
        /\ c \in Threads /\ f.c = stk[t][1].c /\ (t \in Conns => f.c = t)
    BY <1>1, LastFrame, OwnConnection DEF Threads
  <1>3. stk[c] # <<>> /\ (t # c => stk'[c] = stk[c])
    BY <1>2 DEF Moves
  <1>4. /\ new.first = old.first /\ (new.st = "OPEN" => old.st = "OPEN")
        /\ c # f.c => ws'[c] = ws[c]
    BY DEF YieldAs
  <1>5. ~Stopping(c)
    BY <1>1, <1>3, StoppingAfter
  <1>6. /\ old.st = "OPEN" /\ old.fd = "shut" => Ending(c) \/ Excused(c)
        /\ old.st = "OPEN" \/ First(c, c, Dialling) => ~Pending(old.pipe)
        /\ First(c, c, {"upgraded"}) => old.fd = "open"
        /\ \A i \in 1 .. Len(stk[c]) : stk[c][i].at \in Wakes => old.st # "OPEN"
    BY <1>1, <1>3, <1>4, <1>5 DEF Attended, Excused
  <1>7. f.at \in LoopLabels => t = f.c
    <2>1. FrameOK(t, f)
      BY <1>1, <1>2 DEF StacksOK
    <2>2. QED
      BY <2>1 DEF FrameOK
  <1>8. First(c, c, Dialling)' => t # c /\ First(c, c, Dialling)
    BY <1>1, DiallingBefore
  <1>9. ASSUME new.st = "OPEN", new.fd = "shut", ~Excused(c)'
        PROVE  Ending(c)'
    <2>0. ~Excused(c)
      BY <1>9 DEF DataAs, YieldAs
    <2>1. CASE old.fd = "shut"
      <3>1. Ending(c) /\ old.rxbuf \in Seq(Received) /\ ~Cut(c)
        BY <1>4, <1>6, <1>9, <2>0, <2>1, BufferTypes DEF Excused
      <3>2. QED
        BY <1>1, <1>9, <3>1, EndingAfter
    <2>2. CASE old.fd # "shut" /\ c = f.c
      <3>1. \/ Brings(m, g, h, Closers)
            \/ f.at = "wait" /\ old.pipe # <<>> /\ Head(old.pipe) = "close"
            \/ f.at = "wait" /\ m = "jump" /\ g.at = "dispatch" /\ g.arg = "failed"
        BY <1>9, <2>2 DEF YieldAs, EndsAs, Excused
      <3>2. CASE Brings(m, g, h, Closers)
        <4>1. \E i \in 1 .. Len(stk'[t]) : stk'[t][i].c = c /\ stk'[t][i].at \in Closers
          BY <1>1, <2>2, <3>2, FramesBrought DEF Brings, YieldAs
        <4>2. QED
          BY <4>1 DEF Ending, Nowhere
      <3>3. CASE old.pipe # <<>> /\ Head(old.pipe) = "close"
        BY <1>4, <1>6, <1>9, <3>3, BufferTypes, PendingHead
      <3>4. CASE f.at = "wait" /\ m = "jump" /\ g.at = "dispatch" /\ g.arg = "failed"
        <4>1. t = c /\ n = 1
          BY <1>1, <2>2, <3>4, LoopTop DEF RunLabels, LoopLabels
        <4>2. stk'[c] # <<>> /\ stk'[c][1] = g /\ g.c = c
          <5>1. stk'[t] # <<>> /\ stk'[t][n] = g
            BY <1>1, <3>4, FramesBrought
          <5>2. g.c = c
            BY <2>2, <3>4 DEF YieldAs
          <5> HIDE DEF n
          <5>3. QED
            BY <4>1, <5>1, <5>2
        <4>3. QED
          BY <3>4, <4>2 DEF Ending, First
      <3>5. QED
        BY <3>1, <3>2, <3>3, <3>4
    <2>3. QED
      BY <1>4, <1>9, <2>1, <2>2
  <1>10. ASSUME new.st = "OPEN" \/ First(c, c, Dialling)'
         PROVE  ~Pending(new.pipe)
    <2>1. ~Pending(old.pipe)
      BY <1>4, <1>6, <1>8, <1>10
    <2>2. ~(f.c = c /\ f.at \in Wakes)
      <3>1. CASE t = c /\ f.at \in Wakes
        BY <1>2, <1>4, <1>6, <1>8, <1>10, <3>1
      <3>2. CASE t # c /\ f.c = c /\ f.at \in Wakes
        <4>1. f.at = "closeWake"
          BY <1>7, <3>2 DEF LoopLabels
        <4>2. t \in Apps
          BY <1>2, <3>2 DEF Threads
        <4>3. QED
          BY <1>1, <1>3, <1>5, <3>2, <4>1, <4>2, WakesStopping
      <3>3. QED
        BY <3>1, <3>2
    <2>3. QED
      BY <2>1, <2>2 DEF DataAs
  <1>11. ASSUME First(c, c, {"upgraded"})'
         PROVE  new.fd = "open"
    <2>1. First(c, c, Dialling)'
      BY <1>11 DEF First, Dialling
    <2>2. t # c /\ First(c, c, Dialling) /\ stk'[c] = stk[c]
      BY <1>3, <1>8, <2>1
    <2>3. old.fd = "open"
      BY <1>6, <1>11, <2>2 DEF First
    <2>4. Nowhere(c, SendPath)
      BY <1>1, <2>2, DiallingAlone
    <2>5. f.c = c => f.at \notin SendPath \cup LoopLabels
      BY <1>2, <1>7, <2>2, <2>4 DEF Nowhere
    <2>6. f.c = c => new.fd = old.fd
      BY <2>5 DEF YieldAs, EndsAs
    <2>7. QED
      BY <1>4, <2>3, <2>6
  <1>12. ASSUME NEW i \in 1 .. Len(stk'[c]), stk'[c][i].at \in Wakes, new.st = "OPEN"
         PROVE  FALSE
    <2>1. CASE t # c
      BY <1>3, <1>4, <1>6, <1>12, <2>1
    <2>2. CASE t = c
      <3>1. \/ i < n /\ stk'[c][i] = stk[c][i]
            \/ i = n /\ m # "return" /\ stk'[c][i] = g
            \/ i = n + 1 /\ m = "call" /\ stk'[c][i] = h
        BY <1>1, <1>12, <2>2, FramesAfter
      <3>2. CASE i < n /\ stk'[c][i] = stk[c][i]
        <4>1. i \in 1 .. Len(stk[c])
          BY <1>2, <2>2, <3>2
        <4>2. QED
          BY <1>4, <1>6, <1>12, <3>2, <4>1
      <3>3. CASE Brings(m, g, h, Wakes)
        BY <1>2, <1>12, <2>2, <3>3 DEF YieldAs, EndsAs
      <3>4. QED
        BY <1>12, <3>1, <3>2, <3>3 DEF Brings
    <2>3. QED
      BY <2>1, <2>2
  <1>13. QED
    BY <1>9, <1>10, <1>11, <1>12

-----------------------------------------------------------------------------
(* Which steps yield: the transport's, the owner's, start() and stop().    *)

YieldStep(t) == \E m, g, h : Moves(t, m, g, h) /\ YieldAs(t, m, g, h)

\* A step of the transport or the loop.
LEMMA PlainYields ==
    ASSUME NEW t \in Threads, PlainStep(t)
    PROVE  YieldStep(t)
  <1>1. PICK m, g, h : Moves(t, m, g, h) /\ PlainAs(t, m, g, h) /\ EndsAs(t, m, g, h)
    BY DEF PlainStep
  <1> DEFINE f == Top(t)
  <1>2. f.at \in PlainPoints /\ Passes(f, m, g, h)
    BY <1>1 DEF PlainAs
  <1>3. m # "return" => g.c = f.c /\ g.at \notin Dialling
    BY <1>2 DEF Passes, Followers, Dialling, Opening, RunLabels, LoopLabels, SendPath
  <1>4. m = "call" => h.c = f.c /\ (h.at \in CloseLabels => h.at = "close")
    BY <1>2 DEF Passes, Callees, CloseLabels
  <1>5. f.at \in Closers /\ m # "return" => g.at \in Closers
    BY <1>2 DEF Passes
  <1>6. f.at \notin {"stopThread", "join"}
    BY <1>2 DEF PlainPoints, LoopLabels, MethodLabels, StopLabels
  <1>7. /\ \A d \in Conns \ {f.c} : ws'[d] = ws[d]
        /\ ws'[f.c].first = ws[f.c].first
        /\ ws'[f.c].st = "OPEN" => ws[f.c].st = "OPEN"
    BY <1>1 DEF PlainAs
  <1>8. f.at # "connect"
    BY <1>2 DEF PlainPoints, Opening, MethodLabels, StopLabels
  <1>9. YieldAs(t, m, g, h)
    BY <1>1, <1>3, <1>4, <1>5, <1>6, <1>7, <1>8 DEF YieldAs
  <1>10. QED
    BY <1>1, <1>9 DEF YieldStep

\* What the connection's owner runs, and may be called from.
OwnerPoints == OwnerLabels \cup StopLabels \cup {"callback", "start"}

OwnerAs(t, m, g, h) ==
    LET f == Top(t)
        c == Top(t).c
    IN
    /\ f.at \in OwnerPoints
    /\ m # "return" => g.c = c /\ g.at \in OwnerPoints \cup {"send"}
    /\ m = "call" =>
          /\ h.c = c /\ h.at \in OwnerPoints \cup {"close"}
          /\ h.at = "close" => g.at = "stopThread"
    /\ \A d \in Conns \ {c} : ws'[d] = ws[d]
    /\ ws'[c].first = ws[c].first /\ ws'[c].st = ws[c].st /\ ws'[c].fd = ws[c].fd
    /\ f.at \in {"stopThread", "join"} =>
          stk[c] = <<>> \/ (m # "return" /\ g.at = "join")

\* A step of the owner's methods.
LEMMA OwnerYields ==
    ASSUME NEW t \in Threads, NEW m, NEW g, NEW h, Moves(t, m, g, h), OwnerAs(t, m, g, h)
    PROVE  YieldStep(t)
  <1> DEFINE f == Top(t)
  <1>1. f.at \notin Closers \cup CloseLabels \cup
                    {"switch", "connect", "wait", "dispatch", "ponged", "unordered"}
    BY DEF OwnerAs, OwnerPoints, OwnerLabels, StopLabels, Closers, CloseLabels
  <1>2. m # "return" => g.at \notin Dialling \cup CloseLabels \cup Closers \cup
                                    {"closeWake", "echoed"}
    BY DEF OwnerAs, OwnerPoints, OwnerLabels, StopLabels, Dialling, CloseLabels, Closers
  <1>3. m = "call" => /\ h.at \notin Closers \cup {"closeWake", "echoed"}
                      /\ h.at \in CloseLabels => h.at = "close"
    BY DEF OwnerAs, OwnerPoints, OwnerLabels, StopLabels, Closers, CloseLabels
  <1>4. EndsAs(t, m, g, h)
    BY <1>1, <1>2, <1>3 DEF EndsAs, OwnerAs, Brings, CloseLabels
  <1>5. YieldAs(t, m, g, h)
    BY <1>1, <1>2, <1>3, <1>4 DEF YieldAs, OwnerAs
  <1>6. QED
    BY <1>5 DEF YieldStep

LEMMA OwnerCalls ==
    ASSUME NEW t \in Threads, Ready(t), UNCHANGED ws,
           Top(t).at \in OwnerPoints \ {"stopThread", "join"},
           NEW label \in OwnerPoints, NEW callee \in OwnerPoints \cup {"close"},
           callee = "close" => label = "stopThread",
           NEW x, Call(t, label, callee, x)
    PROVE  YieldStep(t)
  <1> DEFINE g == Frame(label, Top(t).c, Top(t).arg)
             h == Frame(callee, Top(t).c, x)
  <1>1. Moves(t, "call", g, h)
    BY CallMoves DEF Ready, Call
  <1>2. g.at = label /\ g.c = Top(t).c /\ h.at = callee /\ h.c = Top(t).c
    BY DEF Frame
  <1> HIDE DEF g, h
  <1>3. OwnerAs(t, "call", g, h)
    BY <1>2 DEF OwnerAs
  <1>4. QED
    BY <1>1, <1>3, OwnerYields

LEMMA OwnerJumps ==
    ASSUME NEW t \in Threads, Ready(t), UNCHANGED ws,
           Top(t).at \in OwnerPoints \ {"stopThread", "join"},
           NEW label \in OwnerPoints \cup {"send"}, NEW x, JumpWith(t, label, x)
    PROVE  YieldStep(t)
  <1> DEFINE g == Frame(label, Top(t).c, x)
  <1>1. Moves(t, "jump", g, Top(t))
    BY JumpMoves DEF Ready
  <1>2. g.at = label /\ g.c = Top(t).c
    BY DEF Frame
  <1> HIDE DEF g
  <1>3. OwnerAs(t, "jump", g, Top(t))
    BY <1>2 DEF OwnerAs
  <1>4. QED
    BY <1>1, <1>3, OwnerYields

LEMMA OwnerReturns ==
    ASSUME NEW t \in Threads, Ready(t), UNCHANGED ws,
           Top(t).at \in OwnerPoints \ {"stopThread", "join"}, Return(t)
    PROVE  YieldStep(t)
  <1>1. Moves(t, "return", Top(t), Top(t))
    BY ReturnMoves DEF Ready
  <1>2. OwnerAs(t, "return", Top(t), Top(t))
    BY DEF OwnerAs
  <1>3. QED
    BY <1>1, <1>2, OwnerYields

\* stop().
LEMMA StopYields ==
    ASSUME NEW t \in Threads, TransportOK, ThreadLife,
           Stop(t) \/ StopThread(t) \/ Join(t) \/ Stopped(t)
    PROVE  YieldStep(t)
  <1> DEFINE f == Top(t)
             c == Top(t).c
             x == Top(t).arg
  <1>1. CASE Stop(t)
    <2>1. Ready(t) /\ f.at = "stop" /\ UNCHANGED ws /\ Call(t, "stopThread", "close", "")
      BY <1>1, ReadyAt DEF Stop, ServerLabels
    <2>2. f.at \in OwnerPoints /\ "stopThread" \in OwnerPoints
      BY <2>1 DEF OwnerPoints, StopLabels
    <2>3. QED
      BY <2>1, <2>2, OwnerCalls
  <1>2. CASE StopThread(t)
    <2>1. Ready(t) /\ f.at = "stopThread"
      BY <1>2, ReadyAt DEF StopThread, ServerLabels
    <2>2. \A l \in {"join", "stopped"} : Frame(l, c, x).at = l /\ Frame(l, c, x).c = c
      BY DEF Frame
    <2>3. {"stopThread", "join", "stopped"} \subseteq OwnerPoints
      BY DEF OwnerPoints, StopLabels
    <2>4. CASE ws' = [ws EXCEPT ![c].stop = TRUE] /\ Jump(t, "join")
      <3>1. Moves(t, "jump", Frame("join", c, x), f)
        BY <2>1, <2>4, JumpMoves DEF Ready, Jump
      <3>2. /\ \A d \in Conns \ {c} : ws'[d] = ws[d]
            /\ ws'[c].first = ws[c].first /\ ws'[c].st = ws[c].st /\ ws'[c].fd = ws[c].fd
        BY <2>1, <2>4, ReadyFacts DEF SocketType
      <3>3. OwnerAs(t, "jump", Frame("join", c, x), f)
        BY <2>1, <2>2, <2>3, <3>2 DEF OwnerAs
      <3>4. QED
        BY <3>1, <3>3, OwnerYields
    <2>5. CASE UNCHANGED ws /\ Jump(t, "stopped") /\ ~ws[c].joinable
      <3>1. Moves(t, "jump", Frame("stopped", c, x), f)
        BY <2>1, <2>5, JumpMoves DEF Ready, Jump
      <3>2. stk[c] = <<>>
        BY <2>1, <2>5 DEF ThreadLife, RunsJoinable, Ready
      <3>3. OwnerAs(t, "jump", Frame("stopped", c, x), f)
        BY <2>1, <2>2, <2>3, <2>5, <3>2 DEF OwnerAs
      <3>4. QED
        BY <3>1, <3>3, OwnerYields
    <2>6. QED
      BY <1>2, <2>4, <2>5 DEF StopThread
  <1>3. CASE Join(t)
    <2>1. Ready(t) /\ f.at = "join"
      BY <1>3, ReadyAt DEF Join, ServerLabels
    <2>2. Moves(t, "jump", Frame("stopped", c, x), f)
      BY <1>3, <2>1, JumpMoves DEF Join, Ready, Jump
    <2>3. /\ \A d \in Conns \ {c} : ws'[d] = ws[d]
          /\ ws'[c].first = ws[c].first /\ ws'[c].st = ws[c].st /\ ws'[c].fd = ws[c].fd
      BY <1>3, <2>1, ReadyFacts DEF Join, SocketType
    <2>4. stk[c] = <<>>
      BY <1>3 DEF Join
    <2>5. Frame("stopped", c, x).at = "stopped" /\ Frame("stopped", c, x).c = c
      BY DEF Frame
    <2>6. {"join", "stopped"} \subseteq OwnerPoints
      BY DEF OwnerPoints, StopLabels
    <2>7. OwnerAs(t, "jump", Frame("stopped", c, x), f)
      BY <2>1, <2>3, <2>4, <2>5, <2>6 DEF OwnerAs
    <2>8. QED
      BY <2>2, <2>7, OwnerYields
  <1>4. CASE Stopped(t)
    <2>1. Ready(t) /\ f.at = "stopped" /\ UNCHANGED ws /\ Return(t)
      BY <1>4, ReadyAt DEF Stopped, ServerLabels
    <2>2. f.at \in OwnerPoints
      BY <2>1 DEF OwnerPoints, StopLabels
    <2>3. QED
      BY <2>1, <2>2, OwnerReturns
  <1>5. QED
    BY <1>1, <1>2, <1>3, <1>4

\* DWebSocketClient and DWebSocket.
LEMMA ClientYields ==
    ASSUME NEW t \in Threads, TransportOK,
           \/ ClientClose(t) \/ ClientStop(t) \/ ClientClosed(t) \/ ClientConnect(t)
           \/ ClientRestart(t) \/ ClientDestroy(t) \/ ClientReset(t) \/ Destroyed(t)
           \/ WsRelease(t) \/ WsStop(t) \/ WsStart(t) \/ WsReset(t)
    PROVE  YieldStep(t)
  <1> DEFINE f == Top(t)
  <1>1. CASE ClientClose(t)
    <2>1. Ready(t) /\ f.at = "clientClose" /\ UNCHANGED ws
      BY <1>1, ReadyAt DEF ClientClose, ServerLabels
    <2>2. Call(t, "clientStop", "callback", "closing") \/ Jump(t, "clientClosed")
      BY <1>1 DEF ClientClose, Emit
    <2>3. {"clientClose", "clientStop", "callback", "clientClosed"} \subseteq OwnerPoints
      BY DEF OwnerPoints, OwnerLabels
    <2>4. QED
      BY <2>1, <2>2, <2>3, OwnerCalls, OwnerJumps DEF Jump
  <1>2. CASE ClientStop(t)
    <2>1. Ready(t) /\ f.at = "clientStop" /\ UNCHANGED ws
      BY <1>2, ReadyAt DEF ClientStop, ServerLabels
    <2>2. Call(t, "clientClosed", "wsStop", "")
      BY <1>2 DEF ClientStop
    <2>3. {"clientStop", "clientClosed", "wsStop"} \subseteq OwnerPoints
      BY DEF OwnerPoints, OwnerLabels
    <2>4. QED
      BY <2>1, <2>2, <2>3, OwnerCalls
  <1>3. CASE ClientClosed(t)
    <2>1. Ready(t) /\ f.at = "clientClosed" /\ UNCHANGED ws
      BY <1>3, ReadyAt DEF ClientClosed, ServerLabels
    <2>2. Return(t)
      BY <1>3 DEF ClientClosed
    <2>3. {"clientClosed"} \subseteq OwnerPoints
      BY DEF OwnerPoints, OwnerLabels
    <2>4. QED
      BY <2>1, <2>2, <2>3, OwnerReturns
  <1>4. CASE ClientConnect(t)
    <2>1. Ready(t) /\ f.at = "clientConnect" /\ UNCHANGED ws
      BY <1>4, ReadyAt DEF ClientConnect, ServerLabels
    <2>2. Call(t, "clientRestart", "callback", "connecting")
      BY <1>4 DEF ClientConnect, Emit
    <2>3. {"clientConnect", "clientRestart", "callback"} \subseteq OwnerPoints
      BY DEF OwnerPoints, OwnerLabels
    <2>4. QED
      BY <2>1, <2>2, <2>3, OwnerCalls
  <1>5. CASE ClientRestart(t)
    <2>1. Ready(t) /\ f.at = "clientRestart" /\ UNCHANGED ws
      BY <1>5, ReadyAt DEF ClientRestart, ServerLabels
    <2>2. Call(t, "wsStart", "wsStop", "") \/ Jump(t, "wsStart")
      BY <1>5 DEF ClientRestart
    <2>3. {"clientRestart", "wsStart", "wsStop"} \subseteq OwnerPoints
      BY DEF OwnerPoints, OwnerLabels
    <2>4. QED
      BY <2>1, <2>2, <2>3, OwnerCalls, OwnerJumps DEF Jump
  <1>6. CASE ClientDestroy(t)
    <2>1. Ready(t) /\ f.at = "clientDestroy" /\ UNCHANGED ws
      BY <1>6, ReadyAt DEF ClientDestroy, ServerLabels
    <2>2. Call(t, "clientReset", "clientClose", "")
      BY <1>6 DEF ClientDestroy
    <2>3. {"clientDestroy", "clientReset", "clientClose"} \subseteq OwnerPoints
      BY DEF OwnerPoints, OwnerLabels
    <2>4. QED
      BY <2>1, <2>2, <2>3, OwnerCalls
  <1>7. CASE ClientReset(t)
    <2>1. Ready(t) /\ f.at = "clientReset" /\ UNCHANGED ws
      BY <1>7, ReadyAt DEF ClientReset, ServerLabels
    <2>2. Call(t, "wsRelease", "wsStop", "") \/ Jump(t, "destroyed")
      BY <1>7 DEF ClientReset
    <2>3. {"clientReset", "wsRelease", "wsStop", "destroyed"} \subseteq OwnerPoints
      BY DEF OwnerPoints, OwnerLabels
    <2>4. QED
      BY <2>1, <2>2, <2>3, OwnerCalls, OwnerJumps DEF Jump
  <1>8. CASE Destroyed(t)
    <2>1. Ready(t) /\ f.at = "destroyed" /\ UNCHANGED ws
      BY <1>8, ReadyAt DEF Destroyed, ServerLabels
    <2>2. Return(t)
      BY <1>8 DEF Destroyed
    <2>3. {"destroyed"} \subseteq OwnerPoints
      BY DEF OwnerPoints, OwnerLabels
    <2>4. QED
      BY <2>1, <2>2, <2>3, OwnerReturns
  <1>9. CASE WsRelease(t)
    <2>1. Ready(t) /\ f.at = "wsRelease" /\ UNCHANGED ws
      BY <1>9, ReadyAt DEF WsRelease, ServerLabels
    <2>2. Call(t, "destroyed", "stop", "")
      BY <1>9 DEF WsRelease
    <2>3. {"wsRelease", "destroyed", "stop"} \subseteq OwnerPoints
      BY DEF OwnerPoints, OwnerLabels, StopLabels
    <2>4. QED
      BY <2>1, <2>2, <2>3, OwnerCalls
  <1>10. CASE WsStop(t)
    <2>1. Ready(t) /\ f.at = "wsStop" /\ UNCHANGED ws
      BY <1>10, ReadyAt DEF WsStop, ServerLabels
    <2>2. Jump(t, "stop") \/ Return(t)
      BY <1>10 DEF WsStop
    <2>3. {"wsStop", "stop"} \subseteq OwnerPoints
      BY DEF OwnerPoints, OwnerLabels, StopLabels
    <2>4. QED
      BY <2>1, <2>2, <2>3, OwnerJumps, OwnerReturns DEF Jump
  <1>11. CASE WsStart(t)
    <2>1. Ready(t) /\ f.at = "wsStart" /\ UNCHANGED ws
      BY <1>11, ReadyAt DEF WsStart, ServerLabels
    <2>2. Call(t, "wsReset", "stop", "") \/ Jump(t, "wsReset")
      BY <1>11 DEF WsStart
    <2>3. {"wsStart", "wsReset", "stop"} \subseteq OwnerPoints
      BY DEF OwnerPoints, OwnerLabels, StopLabels
    <2>4. QED
      BY <2>1, <2>2, <2>3, OwnerCalls, OwnerJumps DEF Jump
  <1>12. CASE WsReset(t)
    <2>1. Ready(t) /\ f.at = "wsReset" /\ UNCHANGED ws
      BY <1>12, ReadyAt DEF WsReset, ServerLabels
    <2>2. Call(t, "wsNew", "stop", "") \/ Jump(t, "wsNew")
      BY <1>12 DEF WsReset
    <2>3. {"wsReset", "wsNew", "stop"} \subseteq OwnerPoints
      BY DEF OwnerPoints, OwnerLabels, StopLabels
    <2>4. QED
      BY <2>1, <2>2, <2>3, OwnerCalls, OwnerJumps DEF Jump
  <1>13. QED
    BY <1>1, <1>2, <1>3, <1>4, <1>5, <1>6, <1>7, <1>8, <1>9, <1>10, <1>11, <1>12

\* The callback sends, closes or returns.
LEMMA CallbackYields ==
    ASSUME NEW t \in Threads, TransportOK, Callback(t)
    PROVE  YieldStep(t)
  <1> DEFINE f == Top(t)
  <1>1. Ready(t) /\ f.at = "callback" /\ UNCHANGED ws
    BY ReadyAt DEF Callback, ServerLabels
  <1>2. f.at \in OwnerPoints \ {"stopThread", "join"}
    BY <1>1 DEF OwnerPoints
  <1>3. CASE Return(t)
    BY <1>1, <1>2, <1>3, OwnerReturns
  <1>4. ASSUME NEW op \in Calls, JumpWith(t, Entry(op), "data")
        PROVE  YieldStep(t)
    <2>1. Entry(op) \in OwnerPoints \cup {"send"}
      BY DEF Entry, Calls, OwnerPoints, OwnerLabels
    <2>2. QED
      BY <1>1, <1>2, <1>4, <2>1, OwnerJumps
  <1>5. QED
    BY <1>3, <1>4 DEF Callback

-----------------------------------------------------------------------------
(* The steps that open, start and replace a connection.                    *)

\* Nothing of c moves, and no thread that works for it.
LEMMA AttendedSame ==
    ASSUME NEW c \in Conns, Attended(c), stk'[c] = stk[c],
           \A u \in Threads : stk'[u] = stk[u] \/ \A i \in 1 .. Len(stk[u]) : stk[u][i].c # c,
           ws'[c].st = ws[c].st, ws'[c].fd = ws[c].fd,
           ws'[c].pipe = ws[c].pipe, ws'[c].first = ws[c].first,
           Excused(c) /\ ws'[c].st = "OPEN" => Excused(c)'
    PROVE  Attended(c)'
  <1>1. Stopping(c) => Stopping(c)'
    <2> SUFFICES ASSUME NEW u \in Apps, NEW i \in 1 .. Len(stk[u]),
                        stk[u][i].c = c, stk[u][i].at \in {"stopThread", "join"}
                 PROVE  Stopping(c)'
      BY DEF Stopping
    <2>1. stk'[u] = stk[u]
      BY DEF Threads
    <2>2. QED
      BY <2>1 DEF Stopping
  <1>2. ~Nowhere(c, Closers) => ~Nowhere(c, Closers)'
    <2> SUFFICES ASSUME NEW u \in Threads, NEW i \in 1 .. Len(stk[u]),
                        stk[u][i].c = c, stk[u][i].at \in Closers
                 PROVE  ~Nowhere(c, Closers)'
      BY DEF Nowhere
    <2>1. stk'[u] = stk[u]
      OBVIOUS
    <2>2. QED
      BY <2>1 DEF Nowhere
  <1>3. Ending(c) => Ending(c)'
    BY <1>2 DEF Ending, First
  <1>4. QED
    BY <1>1, <1>3 DEF Attended, First, Excused

\* Nothing is called, or what is called is not close().
LEMMA CloseCalledSame ==
    ASSUME NEW u \in Threads, CloseCalled(u),
           \/ stk'[u] = stk[u] \/ stk'[u] = <<>>
           \/ \E g : stk'[u] = <<g>> /\ g.at \notin CloseLabels
    PROVE  CloseCalled(u)'
  <1>1. CASE stk'[u] = stk[u]
    BY <1>1 DEF CloseCalled
  <1>2. CASE stk'[u] = <<>>
    BY <1>2 DEF CloseCalled
  <1>3. ASSUME NEW g, stk'[u] = <<g>>, g.at \notin CloseLabels
        PROVE  CloseCalled(u)'
    <2>1. Len(stk'[u]) = 1 /\ stk'[u][1] = g
      BY <1>3, OneFrame
    <2>2. \A i \in 1 .. 1 : i = 1
      OBVIOUS
    <2>3. \A i \in 1 .. Len(stk'[u]) : stk'[u][i] = g
      BY <2>1, <2>2
    <2>4. QED
      BY <1>3, <2>3 DEF CloseCalled
  <1>4. QED
    BY <1>1, <1>2, <1>3

(***************************************************************************)
(* The loop's first pass: the handshake begins with a new wake-up pipe,    *)
(* and the connection is OPEN when it has its socket.                      *)
(***************************************************************************)
OpensAs(t, m, g, h) ==
    LET f   == Top(t)
        c   == Top(t).c
        old == ws[c]
        new == ws'[c]
    IN
    /\ f.at \in Opening \cup {"check", "open"}
    /\ m # "return" /\ g.c = c /\ g.at \in RunLabels \ {"echoed"}
    /\ m = "call" => h.c = c /\ h.at = "callback"
    /\ \A d \in Conns \ {c} : ws'[d] = ws[d]
    /\ \/ /\ f.at \in {"check", "open"} /\ g.at \notin Dialling
          /\ new.st = old.st /\ new.fd = old.fd /\ new.pipe = old.pipe
          /\ old.first => new.st # "OPEN"
       \/ new.st # "OPEN" /\ g.at \notin Dialling
       \/ new.st # "OPEN" /\ g.at = "handshake" /\ new.pipe = <<>>
       \/ /\ new.st # "OPEN" /\ f.at \in Dialling /\ g.at \in Dialling
          /\ new.pipe = old.pipe /\ new.first = old.first
          /\ g.at = "upgraded" => new.fd = "open"
       \/ /\ f.at = "upgraded" /\ g.at = "open"
          /\ new.pipe = old.pipe /\ new.fd = old.fd /\ new.first = old.first

Opens(t) == \E m, g, h : Moves(t, m, g, h) /\ OpensAs(t, m, g, h)

\* The opening of a connection attends to it.
LEMMA OpensAttended ==
    ASSUME NEW t \in Threads, TransportOK, StacksOK', Placed, stk[t] # <<>>,
           NEW m, NEW g, NEW h, Moves(t, m, g, h), OpensAs(t, m, g, h), DataAs(t),
           NEW c \in Conns, Attended(c)
    PROVE  Attended(c)'
  <1> DEFINE f == Top(t)
             new == ws'[c]
  <1>0. StacksOK
    BY DEF TransportOK
  <1>1. t = f.c /\ Len(stk[t]) = 1 /\ stk[t][1] = f
    BY <1>0, LoopTop DEF OpensAs, Opening, RunLabels, LoopLabels
  <1>2. \A u \in Threads \ {t} : stk'[u] = stk[u]
    BY DEF Moves
  <1>3. m # "return" /\ stk'[t] # <<>> /\ stk'[t][1] = g
    <2>1. m # "return"
      BY DEF OpensAs
    <2>2. stk'[t] # <<>> /\ stk'[t][Len(stk[t])] = g
      BY <1>0, <2>1, FramesBrought
    <2>3. QED
      BY <1>1, <2>1, <2>2
  <1>4. ASSUME NEW i \in 1 .. Len(stk'[t])
        PROVE  stk'[t][i] = g \/ (m = "call" /\ stk'[t][i] = h)
    <2>1. \/ i < Len(stk[t]) /\ stk'[t][i] = stk[t][i]
          \/ i = Len(stk[t]) /\ m # "return" /\ stk'[t][i] = g
          \/ i = Len(stk[t]) + 1 /\ m = "call" /\ stk'[t][i] = h
      BY <1>0, FramesAfter
    <2>2. ~(i < Len(stk[t]))
      BY <1>1
    <2>3. QED
      BY <2>1, <2>2
  <1>5. CASE c # t
    <2>1. \A i \in 1 .. Len(stk[t]) : stk[t][i].c # c
      BY <1>1, <1>5 DEF Placed
    <2>2. stk'[c] = stk[c] /\ ws'[c] = ws[c]
      BY <1>1, <1>2, <1>5 DEF OpensAs, Threads
    <2>3. Excused(c) /\ ws'[c].st = "OPEN" => Excused(c)'
      BY <1>1, <1>5 DEF DataAs
    <2>4. QED
      BY <1>2, <2>1, <2>2, <2>3, AttendedSame
  <1>6. CASE c = t
    <2>1. /\ stk'[c] # <<>> /\ stk'[c][1] = g
          /\ \A i \in 1 .. Len(stk'[c]) : stk'[c][i].at \notin {"closeWake", "echoed"}
      BY <1>6, <1>3, <1>4 DEF OpensAs, RunLabels, LoopLabels
    <2>2. g.c = c
      BY <1>1, <1>6 DEF OpensAs
    <2>3. \A S : First(c, c, S)' <=> g.at \in S
      BY <2>1, <2>2 DEF First
    <2>4. Stopping(c) => Stopping(c)'
      <3> SUFFICES ASSUME NEW u \in Apps, NEW i \in 1 .. Len(stk[u]),
                          stk[u][i].c = c, stk[u][i].at \in {"stopThread", "join"}
                   PROVE  Stopping(c)'
        BY DEF Stopping
      <3>1. stk'[u] = stk[u]
        BY <1>2, <1>6, TransportAssumption DEF Threads
      <3>2. QED
        BY <3>1 DEF Stopping
    <2>5. \A S : First(c, c, S) <=> f.at \in S
      BY <1>1, <1>6 DEF First
    <2> SUFFICES ASSUME ~new.first, ~Stopping(c)'
                 PROVE  /\ new.st = "OPEN" /\ new.fd = "shut" => Ending(c)' \/ Excused(c)'
                        /\ new.st = "OPEN" \/ First(c, c, Dialling)' => ~Pending(new.pipe)
                        /\ First(c, c, {"upgraded"})' => new.fd = "open"
      BY <2>1 DEF Attended, Excused
    <2>6. CASE /\ f.at \in {"check", "open"} /\ g.at \notin Dialling
               /\ new.st = ws[c].st /\ new.fd = ws[c].fd /\ new.pipe = ws[c].pipe
               /\ ws[c].first => new.st # "OPEN"
      <3>1. /\ new.st = "OPEN" /\ new.fd = "shut" => Ending(c) \/ Excused(c)
            /\ new.st = "OPEN" => ~Pending(new.pipe)
        BY <1>6, <2>4, <2>6 DEF Attended, Excused
      <3>2. Ending(c) => Ending(c)'
        <4>1. Ending(c) => ~Nowhere(c, Closers)
          BY <1>1, <1>6, <2>5, <2>6 DEF Ending
        <4>2. ASSUME ~Nowhere(c, Closers)
              PROVE  ~Nowhere(c, Closers)'
          <5>1. PICK u \in Threads : \E i \in 1 .. Len(stk[u]) :
                   stk[u][i].c = c /\ stk[u][i].at \in Closers
            BY <4>2 DEF Nowhere
          <5>2. PICK i \in 1 .. Len(stk[u]) : stk[u][i].c = c /\ stk[u][i].at \in Closers
            BY <5>1
          <5>3. u # t
            <6>1. u = t => i = 1
              BY <1>1, <5>2
            <6>2. QED
              BY <1>1, <2>6, <5>2, <6>1 DEF Closers
          <5>4. stk'[u] = stk[u]
            BY <1>2, <5>3
          <5>5. QED
            BY <5>2, <5>4 DEF Nowhere
        <4>3. QED
          BY <4>1, <4>2 DEF Ending
      <3>3. g.at # "upgraded"
        BY <2>6 DEF Dialling
      <3>4. new.st = "OPEN" /\ Excused(c) => Excused(c)'
        BY <2>6 DEF DataAs
      <3>5. QED
        BY <2>3, <2>6, <3>1, <3>2, <3>3, <3>4
    <2>7. CASE new.st # "OPEN" /\ g.at \notin Dialling
      BY <2>3, <2>7 DEF Dialling
    <2>8. CASE new.st # "OPEN" /\ g.at = "handshake" /\ new.pipe = <<>>
      BY <2>3, <2>8, NonePending
    <2>9. CASE /\ new.st # "OPEN" /\ f.at \in Dialling /\ g.at \in Dialling
               /\ new.pipe = ws[c].pipe /\ new.first = ws[c].first
               /\ g.at = "upgraded" => new.fd = "open"
      <3>1. ~Pending(ws[c].pipe)
        BY <1>6, <2>4, <2>5, <2>9 DEF Attended
      <3>2. QED
        BY <2>3, <2>9, <3>1
    <2>10. CASE /\ f.at = "upgraded" /\ g.at = "open"
                /\ new.pipe = ws[c].pipe /\ new.fd = ws[c].fd /\ new.first = ws[c].first
      <3>1. ~Pending(ws[c].pipe) /\ ws[c].fd = "open"
        BY <1>6, <2>4, <2>5, <2>10 DEF Attended, Dialling
      <3>2. QED
        BY <2>3, <2>10, <3>1
    <2>11. QED
      BY <1>1, <1>6, <2>6, <2>7, <2>8, <2>9, <2>10 DEF OpensAs
  <1>7. QED
    BY <1>5, <1>6

\* The steps of the first pass.
LEMMA OpeningOpens ==
    ASSUME NEW t \in Threads, TransportOK, Placed, ConnectionLife,
           \/ Check(t) \/ Connect(t) \/ Handshake(t) \/ Upgrade(t) \/ UpgradeFails(t)
           \/ Upgraded(t) \/ Open(t)
    PROVE  Opens(t)
  <1> DEFINE f == Top(t)
             c == Top(t).c
             x == Top(t).arg
             old == ws[c]
  <1>1. Ready(t) /\ f.at \in Opening \cup {"check", "open"} /\ SocketsOK
    <2>1. Check(t) => At(t, "check")
      BY DEF Check
    <2>2. \/ At(t, "check") \/ At(t, "connect") \/ At(t, "handshake") \/ At(t, "upgrade")
          \/ At(t, "upgraded") \/ At(t, "open")
      BY <2>1 DEF Connect, Handshake, Upgrade, UpgradeFails, Upgraded, Open
    <2>3. QED
      BY <2>2, ReadyAt DEF ServerLabels, Opening, TransportOK
  <1>2. /\ t = c /\ Len(stk[t]) = 1 /\ stk[t][1] = f /\ c \in Conns
        /\ DOMAIN ws = Conns /\ old \in SocketType
    BY <1>1, LoopTop, ReadyFacts DEF Ready, Opening, RunLabels, LoopLabels
  <1>3. f.at \in Opening \/ old.first => old.st = "CLOSED"
    <2>1. f.at \in Opening \/ old.first => Unopened(c)
      BY <1>1, <1>2 DEF Unopened, First, Ready
    <2>2. QED
      BY <1>2, <2>1 DEF ConnectionLife, ConnectionOK, UnopenedClosed
  <1>4. \A l, y : Frame(l, c, y).at = l /\ Frame(l, c, y).c = c
    BY DEF Frame
  <1>5. /\ {"loop", "connect", "handshake", "upgrade", "upgraded", "open", "opened", "check"}
              \subseteq RunLabels \ {"echoed"}
        /\ {"loop", "connect", "open", "opened", "check"} \cap Dialling = {}
    BY DEF RunLabels, LoopLabels, Dialling
  <1>6. ASSUME NEW label, NEW y, JumpWith(t, label, y)
        PROVE  Moves(t, "jump", Frame(label, c, y), f)
    BY <1>1, <1>6, JumpMoves DEF Ready
  <1>7. ASSUME NEW label, NEW e, Emit(t, label, e)
        PROVE  Moves(t, "call", Frame(label, c, x), Frame("callback", c, e))
    BY <1>1, <1>7, CallMoves DEF Ready, Emit, Call
  <1>8. CASE Check(t)
    <2>1. At(t, "check")
      BY <1>8 DEF Check
    <2>2. f.at = "check"
      BY <2>1 DEF At
    <2>3. /\ ws'[c].st = old.st /\ ws'[c].fd = old.fd /\ ws'[c].pipe = old.pipe
          /\ \A d \in Conns \ {c} : ws'[d] = ws[d]
      BY <1>2, <1>8 DEF Check, SocketType
    <2>4. PICK l \in {"loop", "connect"} : JumpWith(t, l, "")
      BY <1>8 DEF Check
    <2>5. l \in RunLabels \ {"echoed"} /\ l \notin Dialling
      BY <1>5
    <2>6. old.first => ws'[c].st # "OPEN"
      BY <1>3, <2>3
    <2>7. OpensAs(t, "jump", Frame(l, c, ""), f)
      BY <1>4, <2>2, <2>3, <2>5, <2>6 DEF OpensAs
    <2>8. QED
      BY <1>6, <2>4, <2>7 DEF Opens
  <1>9. CASE Connect(t)
    <2>1. f.at = "connect" /\ old.st = "CLOSED"
      BY <1>3, <1>9 DEF Connect, At, Opening
    <2>2. CASE JumpWith(t, "loop", x) /\ UNCHANGED ws
      <3>1. OpensAs(t, "jump", Frame("loop", c, x), f)
        BY <1>1, <1>4, <1>5, <2>1, <2>2 DEF OpensAs
      <3>2. QED
        BY <1>6, <2>2, <3>1 DEF Opens
    <2>3. CASE /\ ws' = [ws EXCEPT ![c].sk = t, ![c].fd = "shut", ![c].pipe = <<>>]
               /\ JumpWith(t, "handshake", x)
      <3>1. /\ ws'[c].st # "OPEN" /\ ws'[c].pipe = <<>>
            /\ \A d \in Conns \ {c} : ws'[d] = ws[d]
        BY <1>2, <2>1, <2>3 DEF SocketType
      <3>2. OpensAs(t, "jump", Frame("handshake", c, x), f)
        BY <1>1, <1>4, <1>5, <3>1 DEF OpensAs
      <3>3. QED
        BY <1>6, <2>3, <3>2 DEF Opens
    <2>4. CASE Emit(t, "check", "error") /\ UNCHANGED ws
      <3>1. OpensAs(t, "call", Frame("check", c, x), Frame("callback", c, "error"))
        BY <1>1, <1>4, <1>5, <2>1, <2>4 DEF OpensAs
      <3>2. QED
        BY <1>7, <2>4, <3>1 DEF Opens
    <2>5. QED
      BY <1>9, <2>2, <2>3, <2>4 DEF Connect, Jump
  <1>10. CASE Handshake(t)
    <2>1. f.at = "handshake" /\ old.st = "CLOSED" /\ JumpWith(t, "upgrade", x)
      BY <1>3, <1>10 DEF Handshake, At, Opening, Jump
    <2>2. /\ ws'[c].st # "OPEN" /\ ws'[c].pipe = old.pipe /\ ws'[c].first = old.first
          /\ \A d \in Conns \ {c} : ws'[d] = ws[d]
      BY <1>2, <1>10, <2>1 DEF Handshake, SocketType
    <2>3. OpensAs(t, "jump", Frame("upgrade", c, x), f)
      BY <1>1, <1>4, <1>5, <2>1, <2>2 DEF OpensAs, Dialling
    <2>4. QED
      BY <1>6, <2>1, <2>3 DEF Opens
  <1>11. CASE Upgrade(t)
    <2>1. f.at = "upgrade" /\ old.st = "CLOSED" /\ JumpWith(t, "upgraded", x)
      BY <1>3, <1>11 DEF Upgrade, At, Opening, Jump
    <2>2. /\ ws'[c].st # "OPEN" /\ ws'[c].pipe = old.pipe /\ ws'[c].first = old.first
          /\ ws'[c].fd = "open" /\ \A d \in Conns \ {c} : ws'[d] = ws[d]
      BY <1>2, <1>11, <2>1 DEF Upgrade, SocketType
    <2>3. OpensAs(t, "jump", Frame("upgraded", c, x), f)
      BY <1>1, <1>4, <1>5, <2>1, <2>2 DEF OpensAs, Dialling
    <2>4. QED
      BY <1>6, <2>1, <2>3 DEF Opens
  <1>12. CASE UpgradeFails(t)
    <2>1. f.at = "upgrade" /\ old.st = "CLOSED" /\ Emit(t, "check", "error")
      BY <1>3, <1>12 DEF UpgradeFails, At, Opening
    <2>2. PICK s \in {"open", "shut"} : ws' = [ws EXCEPT ![c].fd = s, ![c].sk = Nobody]
      BY <1>12 DEF UpgradeFails
    <2>3. ws'[c].st # "OPEN" /\ \A d \in Conns \ {c} : ws'[d] = ws[d]
      BY <1>2, <2>1, <2>2 DEF SocketType
    <2>4. OpensAs(t, "call", Frame("check", c, x), Frame("callback", c, "error"))
      BY <1>1, <1>4, <1>5, <2>3 DEF OpensAs
    <2>5. QED
      BY <1>7, <2>1, <2>4 DEF Opens
  <1>13. CASE Upgraded(t)
    <2>1. f.at = "upgraded" /\ JumpWith(t, "open", x)
      BY <1>13 DEF Upgraded, At, Jump
    <2>2. /\ ws'[c].pipe = old.pipe /\ ws'[c].first = old.first /\ ws'[c].fd = old.fd
          /\ \A d \in Conns \ {c} : ws'[d] = ws[d]
      BY <1>2, <1>13 DEF Upgraded, SocketType
    <2>3. OpensAs(t, "jump", Frame("open", c, x), f)
      BY <1>1, <1>4, <1>5, <2>1, <2>2 DEF OpensAs
    <2>4. QED
      BY <1>6, <2>1, <2>3 DEF Opens
  <1>14. CASE Open(t)
    <2>1. f.at = "open" /\ Emit(t, "opened", "open") /\ UNCHANGED ws
      BY <1>14 DEF Open, At
    <2>2. OpensAs(t, "call", Frame("opened", c, x), Frame("callback", c, "open"))
      BY <1>1, <1>3, <1>4, <1>5, <2>1 DEF OpensAs
    <2>3. QED
      BY <1>7, <2>1, <2>2 DEF Opens
  <1>15. QED
    BY <1>8, <1>9, <1>10, <1>11, <1>12, <1>13, <1>14

-----------------------------------------------------------------------------
(* A connection that is lost: the invariant.                               *)

\* The invariant, step by step.
LEMMA YieldLost ==
    ASSUME NEW t \in Threads, TransportOK, StacksOK', ClientInv, LostInv, DataAs(t),
           YieldStep(t)
    PROVE  LostInv'
  <1>1. PICK m, g, h : Moves(t, m, g, h) /\ YieldAs(t, m, g, h)
    BY DEF YieldStep
  <1>2. stk[t] # <<>> /\ StacksOK
    BY <1>1 DEF Moves, TransportOK
  <1>3. CallsClose(t, m, g, h)
    BY <1>1 DEF CallsClose, YieldAs, EndsAs
  <1>4. \A u \in Threads : CloseCalled(u)'
    BY <1>1, <1>2, <1>3, CloseCalledAfter DEF LostInv
  <1>5. \A c \in Conns : Attended(c)'
    BY <1>1, <1>2, AttendedAfter
  <1>6. QED
    BY <1>4, <1>5 DEF LostInv

LEMMA OpensLost ==
    ASSUME NEW t \in Threads, TransportOK, StacksOK', ClientInv, LostInv, DataAs(t), Opens(t)
    PROVE  LostInv'
  <1>1. PICK m, g, h : Moves(t, m, g, h) /\ OpensAs(t, m, g, h)
    BY DEF Opens
  <1>2. stk[t] # <<>> /\ StacksOK /\ Placed
    BY <1>1 DEF Moves, TransportOK, ClientInv
  <1>3. CallsClose(t, m, g, h)
    BY <1>1 DEF CallsClose, OpensAs, CloseLabels, RunLabels, LoopLabels
  <1>4. \A u \in Threads : CloseCalled(u)'
    BY <1>1, <1>2, <1>3, CloseCalledAfter DEF LostInv
  <1>5. \A c \in Conns : Attended(c)'
    BY <1>1, <1>2, OpensAttended DEF LostInv
  <1>6. QED
    BY <1>4, <1>5 DEF LostInv

\* A new websocket has not been tried yet, nor has one that is started.
LEMMA NewLost ==
    ASSUME NEW t \in Threads, TransportOK, StacksOK', ClientInv, LostInv, DataAs(t), WsNew(t)
    PROVE  LostInv'
  <1> DEFINE f == Top(t)
             c == Top(t).c
             g == Frame("start", c, Top(t).arg)
             h == Frame("close", c, "")
  <1>1. At(t, "wsNew") /\ ws' = [ws EXCEPT ![c] = Fresh] /\ Call(t, "start", "close", "")
    BY DEF WsNew
  <1>2. Ready(t) /\ f.at = "wsNew" /\ StacksOK /\ SocketsOK /\ Placed
    <2>1. At(t, "wsNew")
      BY <1>1
    <2>2. QED
      BY <2>1, ReadyAt DEF ServerLabels, TransportOK, ClientInv
  <1>3. t \in Apps /\ Len(stk[t]) = 1 /\ stk[t][1] = f /\ c \in Conns /\ stk[t] # <<>>
    BY <1>2, MainTop DEF Ready, MainLabels
  <1>4. Moves(t, "call", g, h)
    BY <1>1, <1>2, CallMoves DEF Ready, Call
  <1>5. g.at = "start" /\ h.at = "close"
    BY DEF Frame
  <1>6. ws' = [ws EXCEPT ![c] = Fresh]
    BY <1>1
  <1> HIDE DEF g, h
  <1>7. \A u \in Threads \ {t} : stk'[u] = stk[u]
    BY <1>4 DEF Moves
  <1>8. CallsClose(t, "call", g, h)
    BY <1>5 DEF CallsClose, CloseLabels
  <1>9. \A u \in Threads : CloseCalled(u)'
    BY <1>2, <1>3, <1>4, <1>8, CloseCalledAfter DEF LostInv
  <1>10. ASSUME NEW d \in Conns
        PROVE  Attended(d)'
    <2>1. CASE d = c
      <3>1. ws'[c].first
        BY <1>2, <1>3, <1>6 DEF SocketsOK, Fresh
      <3>2. QED
        BY <2>1, <3>1 DEF Attended
    <2>2. CASE d # c
      <3>1. \A i \in 1 .. Len(stk[t]) : stk[t][i].c # d
        BY <1>2, <1>3, <2>2 DEF Placed
      <3>2. ws'[d] = ws[d]
        BY <1>2, <1>6, <2>2 DEF SocketsOK
      <3>3. stk'[d] = stk[d]
        BY <1>3, <1>7, TransportAssumption DEF Threads
      <3>4. Excused(d) /\ ws'[d].st = "OPEN" => Excused(d)'
        BY <1>2 DEF DataAs
      <3>5. QED
        BY <1>7, <3>1, <3>2, <3>3, <3>4, AttendedSame DEF LostInv
    <2>3. QED
      BY <2>1, <2>2
  <1>11. QED
    BY <1>9, <1>10 DEF LostInv

LEMMA StartLost ==
    ASSUME NEW t \in Threads, TransportOK, StacksOK', ClientInv, LostInv, DataAs(t), Start(t)
    PROVE  LostInv'
  <1> DEFINE f == Top(t)
             c == Top(t).c
             g == Frame("check", c, "")
  <1>1. /\ At(t, "start")
        /\ \/ Return(t) /\ UNCHANGED ws
           \/ /\ ws' = [ws EXCEPT ![c].joinable = TRUE, ![c].first = TRUE]
              /\ stk' = [stk EXCEPT ![t] = Pop(@), ![c] = <<g>>]
    BY DEF Start
  <1>2. g.at = "check"
    BY DEF Frame
  <1> HIDE DEF g
  <1>3. Ready(t) /\ f.at = "start" /\ StacksOK /\ SocketsOK /\ Placed /\ ThreadLife
    BY <1>1, ReadyAt DEF ServerLabels, TransportOK, ClientInv
  <1>4. t \in Apps /\ Len(stk[t]) = 1 /\ stk[t][1] = f /\ c \in Conns /\ stk[t] # <<>>
    BY <1>3, MainTop DEF Ready, MainLabels
  <1>5. CASE Return(t) /\ UNCHANGED ws
    <2>1. YieldStep(t)
      BY <1>3, <1>5, OwnerReturns DEF OwnerPoints
    <2>2. QED
      BY <2>1, YieldLost
  <1>6. CASE /\ ws' = [ws EXCEPT ![c].joinable = TRUE, ![c].first = TRUE]
             /\ stk' = [stk EXCEPT ![t] = Pop(@), ![c] = <<g>>]
    <2>1. t # c /\ c \in Threads
      BY <1>4, TransportAssumption DEF Threads
    <2>2. stk'[t] = <<>> /\ stk'[c] = <<g>> /\ \A u \in Threads \ {t, c} : stk'[u] = stk[u]
      <3>1. Pop(stk[t]) = <<>>
        <4>1. stk[t] \in Seq(FrameType)
          BY <1>3 DEF StacksOK
        <4>2. QED
          BY <1>4, <4>1, PopOne
      <3>2. QED
        BY <1>3, <1>6, <2>1, <3>1 DEF StacksOK
    <2>3. stk[c] = <<>>
      <3>1. First(t, c, {"start"})
        BY <1>3, <1>4 DEF First
      <3>2. QED
        BY <1>3, <1>4, <3>1 DEF ThreadLife, StartsNew
    <2>4. ASSUME NEW u \in Threads
          PROVE  CloseCalled(u)'
      <3>1. g.at \notin CloseLabels
        BY <1>2 DEF CloseLabels
      <3>2. QED
        BY <2>2, <3>1, CloseCalledSame DEF LostInv
    <2>5. ASSUME NEW d \in Conns
          PROVE  Attended(d)'
      <3>1. CASE d = c
        <4>1. ws'[c].first
          BY <1>3, <1>4, <1>6 DEF SocketsOK, SocketType
        <4>2. QED
          BY <3>1, <4>1 DEF Attended
      <3>2. CASE d # c
        <4>1. \A i \in 1 .. Len(stk[t]) : stk[t][i].c # d
          BY <1>3, <1>4, <3>2 DEF Placed
        <4>2. \A i \in 1 .. Len(stk[c]) : stk[c][i].c # d
          BY <2>3
        <4>3. ws'[d] = ws[d]
          BY <1>3, <1>6, <3>2 DEF SocketsOK
        <4>4. stk'[d] = stk[d]
          BY <1>4, <2>2, <3>2, TransportAssumption DEF Threads
        <4>5. Excused(d) /\ ws'[d].st = "OPEN" => Excused(d)'
          BY <1>3 DEF DataAs
        <4>6. QED
          BY <2>2, <4>1, <4>2, <4>3, <4>4, <4>5, AttendedSame DEF LostInv
      <3>3. QED
        BY <3>1, <3>2
    <2>6. QED
      BY <2>4, <2>5 DEF LostInv
  <1>7. QED
    BY <1>1, <1>5, <1>6

\* Any step of a thread.
LEMMA ThreadLost ==
    ASSUME NEW t \in Threads, TransportOK, StacksOK', ClientInv, LostInv, ThreadStep(t)
    PROVE  LostInv'
  <1>1. DataAs(t) /\ Placed /\ ThreadLife /\ ConnectionLife
    BY ThreadData DEF ClientInv
  <1>2. CASE WebSocketStep(t)
    <2>1. CASE PlainStep(t) \/ Stop(t) \/ StopThread(t) \/ Join(t) \/ Stopped(t)
      BY <1>1, <2>1, PlainYields, StopYields, YieldLost
    <2>2. CASE \/ Check(t) \/ Connect(t) \/ Handshake(t) \/ Upgrade(t) \/ UpgradeFails(t)
               \/ Upgraded(t) \/ Open(t)
      BY <1>1, <2>2, OpeningOpens, OpensLost
    <2>3. CASE Start(t)
      BY <1>1, <2>3, StartLost
    <2>4. QED
      BY <1>2, <2>1, <2>2, <2>3, WebSocketSteps
  <1>3. CASE WsNew(t)
    BY <1>1, <1>3, NewLost
  <1>4. CASE Callback(t)
    BY <1>1, <1>4, CallbackYields, YieldLost
  <1>5. CASE \/ ClientClose(t) \/ ClientStop(t) \/ ClientClosed(t) \/ ClientConnect(t)
             \/ ClientRestart(t) \/ ClientDestroy(t) \/ ClientReset(t) \/ Destroyed(t)
             \/ WsRelease(t) \/ WsStop(t) \/ WsStart(t) \/ WsReset(t)
    BY <1>1, <1>5, ClientYields, YieldLost
  <1>6. QED
    BY <1>2, <1>3, <1>4, <1>5 DEF ThreadStep

\* A thread without a method under way makes a call.
LEMMA CallLost ==
    ASSUME NEW t \in Apps, NEW c \in Conns, NEW op \in Calls, TransportOK, LostInv,
           AppCall(t, c, op)
    PROVE  LostInv'
  <1> DEFINE g == Frame(Entry(op), c, "data")
  <1>1. StacksOK /\ t \in Threads /\ t \notin Conns /\ stk[t] = <<>>
    BY TransportAssumption DEF TransportOK, Threads, AppCall
  <1>2. stk'[t] = <<g>> /\ \A u \in Threads \ {t} : stk'[u] = stk[u]
    BY <1>1 DEF AppCall, StacksOK
  <1>3. g.at \notin CloseLabels
    BY DEF Frame, Entry, Calls, CloseLabels
  <1> HIDE DEF g
  <1>4. ASSUME NEW u \in Threads
        PROVE  CloseCalled(u)'
    BY <1>2, <1>3, CloseCalledSame DEF LostInv
  <1>5. UNCHANGED <<ws, net>>
    BY DEF AppCall
  <1>6. ASSUME NEW d \in Conns
        PROVE  Attended(d)'
    <2>1. stk'[d] = stk[d]
      BY <1>1, <1>2 DEF Threads
    <2>2. \A i \in 1 .. Len(stk[t]) : stk[t][i].c # d
      BY <1>1
    <2>3. Excused(d) => Excused(d)'
      BY <1>5 DEF Excused, Cut
    <2>4. QED
      BY <1>2, <1>5, <2>1, <2>2, <2>3, AttendedSame DEF LostInv
  <1>7. QED
    BY <1>4, <1>5, <1>6 DEF LostInv

\* The peer, the network and the clock.
LEMMA EnvironmentLost ==
    ASSUME NEW c \in Conns, TransportOK, LostInv, Environment(c)
    PROVE  LostInv'
  <1>1. SocketsOK /\ PeersOK /\ UNCHANGED stk
    BY DEF TransportOK, Environment, PeerSend, PeerAnswer, PeerPong, Break, ClosingDelay,
       PingInterval
  <1>2. ASSUME NEW d \in Conns
        PROVE  /\ ws'[d].rxbuf = ws[d].rxbuf /\ ws'[d].pipe = ws[d].pipe
               /\ ws'[d].st = ws[d].st /\ ws'[d].fd = ws[d].fd /\ ws'[d].first = ws[d].first
    <2>1. CASE UNCHANGED ws
      BY <2>1
    <2>2. CASE ws' = [ws EXCEPT ![c].late = TRUE]
      BY <1>1, <2>2 DEF SocketsOK, SocketType
    <2>3. CASE ws' = [ws EXCEPT ![c].pingDue = TRUE]
      BY <1>1, <2>3 DEF SocketsOK, SocketType
    <2>4. QED
      BY <2>1, <2>2, <2>3
         DEF Environment, PeerSend, PeerAnswer, PeerPong, Break, ClosingDelay, PingInterval
  <1>3. ASSUME NEW d \in Conns
        PROVE  Excused(d) => Excused(d)'
    <2>1. net'[d].fault = net[d].fault
      <3>1. ASSUME NEW k \in PeerFrames, PeerSend(c, k)
            PROVE  net'[d].fault = net[d].fault
        BY <1>1, <3>1 DEF PeerSend, PeersOK, PeerType
      <3>2. CASE PeerAnswer(c)
        BY <1>1, <3>2 DEF PeerAnswer, PeersOK, PeerType
      <3>3. CASE PeerPong(c)
        BY <1>1, <3>3 DEF PeerPong, PeersOK, PeerType
      <3>4. CASE Break(c)
        BY <1>1, <3>4 DEF Break, PeersOK, PeerType
      <3>5. CASE ClosingDelay(c) \/ PingInterval(c)
        BY <3>5 DEF ClosingDelay, PingInterval
      <3>6. QED
        BY <3>1, <3>2, <3>3, <3>4, <3>5 DEF Environment
    <2>2. QED
      BY <1>2, <2>1 DEF Excused, Cut
  <1>4. \A d \in Conns : Attended(d)'
    BY <1>1, <1>2, <1>3, AttendedSame DEF LostInv
  <1>5. \A u \in Threads : CloseCalled(u)'
    BY <1>1, CloseCalledSame DEF LostInv
  <1>6. QED
    BY <1>4, <1>5 DEF LostInv

\* Any step.
LEMMA NextLost ==
    ASSUME TypeOK, TypeOK', ClientInv, LostInv, [Next]_vars
    PROVE  LostInv'
  <1>1. TransportOK /\ StacksOK'
    BY DEF TypeOK, TransportOK
  <1>2. ASSUME NEW t \in Apps, NEW c \in Conns, NEW op \in Calls, AppCall(t, c, op)
        PROVE  LostInv'
    BY <1>1, <1>2, CallLost
  <1>3. ASSUME NEW t \in Threads, ThreadStep(t)
        PROVE  LostInv'
    BY <1>1, <1>3, ThreadLost
  <1>4. ASSUME NEW c \in Conns, Environment(c)
        PROVE  LostInv'
    BY <1>1, <1>4, EnvironmentLost
  <1>5. CASE UNCHANGED vars
    <2>1. UNCHANGED <<ws, net, stk>>
      BY <1>5 DEF vars
    <2>2. \A d \in Conns : Attended(d)'
      BY <2>1, AttendedSame DEF LostInv, Excused, Cut
    <2>3. \A u \in Threads : CloseCalled(u)'
      BY <2>1, CloseCalledSame DEF LostInv
    <2>4. QED
      BY <2>1, <2>2, <2>3 DEF LostInv
  <1>6. QED
    BY <1>2, <1>3, <1>4, <1>5 DEF Next, Finished

LEMMA InitLost == Init => LostInv
  <1> SUFFICES ASSUME Init PROVE LostInv
    OBVIOUS
  <1>1. \A t \in Threads : stk[t] = <<>>
    BY DEF Init
  <1>2. \A c \in Conns : stk[c] = <<>>
    BY <1>1 DEF Threads
  <1>3. \A c \in Conns : Attended(c)
    BY <1>2 DEF Attended
  <1>4. \A t \in Threads : CloseCalled(t)
    BY <1>1 DEF CloseCalled
  <1>5. QED
    BY <1>3, <1>4 DEF LostInv

(***************************************************************************)
(* Whoever closes the socket of an OPEN connection has the end of the      *)
(* connection before it, on its own stack or another's, unless the         *)
(* application is stopping the connection, the wait of its poll has        *)
(* failed, or a frame is cut.                                              *)
(***************************************************************************)
THEOREM LostHolds == ASSUME Usage PROVE Spec => []LostInv
  <1>1. TypeOK /\ TypeOK' /\ ClientInv /\ LostInv /\ [Next]_vars => LostInv'
    BY NextLost
  <1>2. QED
    BY <1>1, InitLost, InvariantHolds, TypeCorrect, PTL DEF Spec

(***************************************************************************)
(* The thread does not begin another pass with its socket closed and the   *)
(* connection OPEN, unless a thread of the application is in a call: the   *)
(* socket's end, a failed send, a ping that was not answered, a frame the  *)
(* protocol does not allow and a close() have all led to CLOSED by then.   *)
(* What does leave it OPEN is one of two things, whatever the peer sends:  *)
(* the wait of its poll has failed, or a frame is cut.                     *)
(***************************************************************************)
THEOREM LostNotOpen == ASSUME Usage PROVE Spec => []LostIsNotOpen
  <1>1. ASSUME TypeOK, ClientInv, LostInv PROVE LostIsNotOpen
    <2> SUFFICES ASSUME NEW c \in Conns, At(c, "loop"), ws[c].fd = "shut",
                        \A t \in Apps : stk[t] = <<>>, ws[c].st = "OPEN",
                        ~net[c].fault, ~Cut(c)
                 PROVE  FALSE
      BY DEF LostIsNotOpen
    <2>1. TransportOK /\ StacksOK /\ Placed /\ ConnectionOK(c) /\ Attended(c) /\ c \in Threads
      BY <1>1 DEF TypeOK, TransportOK, ClientInv, ConnectionLife, LostInv, Threads
    <2>2. Ready(c) /\ Top(c).at = "loop"
      BY <2>1, ReadyAt DEF ServerLabels
    <2>3. Len(stk[c]) = 1 /\ stk[c][1] = Top(c) /\ Top(c).c = c /\ stk[c] # <<>>
      BY <2>1, <2>2, LoopTop DEF Ready, RunLabels, LoopLabels
    <2>4. ~Stopping(c)
      BY DEF Stopping
    <2>5. ~ws[c].first
      BY <2>1 DEF ConnectionOK, UnopenedClosed, Unopened
    <2>6. Ending(c)
      BY <2>1, <2>3, <2>4, <2>5 DEF Attended
    <2>7. ~First(c, c, {"dispatch", "ponged", "unordered"}) /\ ~First(c, c, {"check"})
      BY <2>2, <2>3 DEF First
    <2>8. PICK u \in Threads : \E i \in 1 .. Len(stk[u]) :
             stk[u][i].c = c /\ stk[u][i].at \in Closers
      BY <2>6, <2>7 DEF Ending, Nowhere
    <2>9. PICK i \in 1 .. Len(stk[u]) : stk[u][i].c = c /\ stk[u][i].at \in Closers
      BY <2>8
    <2>10. u \in Conns /\ stk[u] # <<>>
      BY <2>9 DEF Threads
    <2>11. u = c
      BY <2>1, <2>9, <2>10 DEF Placed
    <2>12. i = 1
      BY <2>3, <2>9, <2>11
    <2>13. QED
      BY <2>2, <2>3, <2>9, <2>11, <2>12 DEF Closers
  <1>2. QED
    BY <1>1, LostHolds, InvariantHolds, TypeCorrect, PTL

=============================================================================
